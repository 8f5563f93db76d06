----------------------------- MODULE MCHttpTransfer -----------------------------
(* Instances of HttpTransfer for TLC. *)
EXTENDS HttpTransfer, TLC

CONSTANTS v1, v2

\* Two versions of different sizes: a replaced object may be longer or shorter.
Sizes == v1 :> 2 @@ v2 :> 3
================================================================================
