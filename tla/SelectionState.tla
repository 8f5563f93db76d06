----------------------------- MODULE SelectionState -----------------------------
(***************************************************************************)
(* useSelection of src/hooks/zipnn.ts: what is ticked is kept with the     *)
(* kind it had then.  A click on a card says the kind; its check mark does *)
(* not, and ticks whatever it is as a model.                               *)
(***************************************************************************)
EXTENDS Functions

Kind == {"model", "folder", "znn-folder"}

OfKind(ticked, kind) == {n \in DOMAIN ticked : ticked[n] = kind}

\* What is ticked, with one entry more.
With(ticked, n, kind) == [m \in DOMAIN ticked \cup {n} |-> IF m = n THEN kind ELSE ticked[m]]

\* Mutant of Toggled: plain folders join the bundles.
ToggledFreely(ticked, n, kind) ==
  IF n \in DOMAIN ticked THEN Restrict(ticked, DOMAIN ticked \ {n}) ELSE With(ticked, n, kind)

\* toggle: a plain folder drives the bundles out, and keeps a bundle out.
Toggled(ticked, n, kind) ==
  IF n \in DOMAIN ticked THEN Restrict(ticked, DOMAIN ticked \ {n})
  ELSE IF kind = "znn-folder" /\ OfKind(ticked, "folder") # {} THEN ticked
  ELSE LET out == IF kind = "folder" THEN OfKind(ticked, "znn-folder") ELSE {}
       IN With(Restrict(ticked, DOMAIN ticked \ out), n, kind)
=============================================================================
