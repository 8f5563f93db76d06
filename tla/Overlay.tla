------------------------------- MODULE Overlay -------------------------------
(***************************************************************************)
(* The loading overlay of the page: src/hooks/loading.ts.  An instance of  *)
(* useLoading keeps one grace timer per target; the overlay of the page is *)
(* a count of the shows whose timer has fired.                             *)
(***************************************************************************)
EXTENDS Integers

\* GlobalLoading, with the pending timers of every instance.
Hidden == [timers |-> {}, stack |-> 0]

Overlays(Target, n) == [timers : SUBSET Target, stack : 0..n]

\* loading.value, which show and hide keep equal to this.
IsUp(o) == o.stack > 0

\* show, for each target: a pending timer is left alone.
Show(o, targets) == [o EXCEPT !.timers = @ \cup targets]

\* The grace timer of the target fires.
Fire(o, target) == [timers |-> o.timers \ {target}, stack |-> o.stack + 1]

\* Mutant of Hide: the count is not kept from falling below zero.
HideUnclamped(o, target) ==
  IF target \in o.timers THEN [o EXCEPT !.timers = @ \ {target}]
  ELSE [o EXCEPT !.stack = @ - 1]

\* Mutant of Hide: a timer that is pending is not cleared.
HideUncleared(o, target) ==
  IF target \in o.timers THEN o
  ELSE [o EXCEPT !.stack = IF @ = 0 THEN 0 ELSE @ - 1]

\* hide
Hide(o, target) ==
  IF target \in o.timers
    THEN [o EXCEPT !.timers = @ \ {target}]
    ELSE [o EXCEPT !.stack = IF @ = 0 THEN 0 ELSE @ - 1]
================================================================================
