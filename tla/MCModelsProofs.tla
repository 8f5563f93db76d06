---------------------------- MODULE MCModelsProofs ----------------------------
(***************************************************************************)
(* Proofs of the properties the run of MCModels checks.  A behaviour is    *)
(* one of one part, so each proof takes the part's own invariant, which    *)
(* says something where that part is the one that runs.  The invariants of *)
(* the listings are proved in the module of their component; those of the  *)
(* watcher, the editor, the gallery, the views, the saved searches and the *)
(* lightbox are proved here.                                               *)
(***************************************************************************)
EXTENDS MCModels, Functions, SequenceTheorems, FiniteSetTheorems, WellFoundedInduction, TLAPS

-----------------------------------------------------------------------------
(* The listings *)

ListingsInv == part = "store" => Store!Inv /\ Store!OverlayInv

LEMMA ListingsStart == Init => ListingsInv
BY ModelsAssumption, Store!InitInv, Store!OverlayStart DEF Init, ListingsInv

LEMMA ListingsStep ==
  ASSUME ListingsInv, [Next]_vars
  PROVE  ListingsInv' /\ (part = "store" => Store!NeverBackInTime)
<1>1. part' = part  BY DEF Next, vars
<1>2. CASE part = "store"
  <2>1. [Store!Next]_(Store!vars)
    BY <1>2 DEF Next, vars, Store!vars, Store!backend, Store!fetching, Store!flags, Store!requests
  <2>2. Store!Inv' /\ Store!NeverBackInTime
    BY <1>2, <2>1, ModelsAssumption, Store!StepInv DEF ListingsInv
  <2>3. Store!OverlayInv'
    BY <1>2, <2>1, ModelsAssumption, Store!OverlayStep DEF ListingsInv
  <2>. QED BY <2>2, <2>3 DEF ListingsInv
<1>3. CASE part # "store"
  BY <1>1, <1>3 DEF ListingsInv
<1>. QED BY <1>2, <1>3

LEMMA ListingsHold == Spec => []ListingsInv
<1>1. ListingsInv /\ [Next]_vars => ListingsInv'  BY ListingsStep
<1>. QED BY <1>1, ListingsStart, PTL DEF Spec

\* No answer, whenever it comes, takes a listing back to an older one.
THEOREM ListingsGoForward == Spec => NeverBackInTime
<1>1. ListingsInv /\ [Next]_vars => [part = "store" => Store!NeverBackInTime]_vars
  BY ListingsStep
<1>. QED BY <1>1, ListingsHold, PTL DEF Spec, NeverBackInTime

\* A page that has been loaded shows every folder as it is once nothing is on its way,
\* but for changes nobody told it of.
THEOREM ListingsCatchUp == Spec => []ShownIsCurrent
<1>1. ListingsInv => ShownIsCurrent
  BY Store!CaughtUp DEF ListingsInv, ShownIsCurrent
<1>. QED BY <1>1, ListingsHold, PTL

\* The overlay that takes every click is gone once nothing it stands for is awaited.
THEOREM OverlayIsGone == Spec => []OverlayComesDown
<1>1. ListingsInv => OverlayComesDown
  BY Store!NothingShown DEF ListingsInv, OverlayComesDown
<1>. QED BY <1>1, ListingsHold, PTL

-----------------------------------------------------------------------------
(* The watcher.  Of its variables the proof names the setting c1, the       *)
(* directories c2, the await of the task c3, the handle c4, the stop c5,    *)
(* the wait c6, the cooldowns c7, the broadcasts to come c8, the sessions   *)
(* c9, the call that starts one c10, the calls that stop some c11, what is  *)
(* owed c12 and the count of events c13.                                    *)
(*                                                                          *)
(* What the two properties rest on is where the task may be while a session *)
(* is being started, held, or let go: never two of the three.               *)

\* The sessions that somebody answers for.
Held == c11 \cup ({c4, c10.id} \ {NoHandle})

Typed ==
  /\ Warden!TypeOK
  /\ c10 \in [at : {"none", "planned", "called", "done", "failed"},
                 roots : SUBSET Volumes, id : Warden!Handles \cup {NoHandle}]

\* The task holds a session while it sleeps or broadcasts, and has let it go at every
\* other await; a start is under way where the task waits for it, or has been stopped
\* there; and no session is started while another is being let go.
Phases ==
  /\ c4 # NoHandle => c3 \in {"sleep", "tell"}
  /\ c11 # {} => c3 \in {"release", "over"}
  /\ c10.at = "none" => c10 = Warden!NoCall
  /\ c10.at = "planned" => c3 = "release"
  /\ c10.at \in {"called", "done", "failed"} => c3 \in {"arm", "over"} /\ c11 = {}
  /\ c3 = "arm" => c10.at \in {"called", "done", "failed"}
  /\ c8 # {} => c3 = "tell"
  /\ c3 = "over" <=> c5

\* Every session is answered for, and there is one at most.
Owned ==
  /\ DOMAIN c9 = Held
  /\ c10.id # NoHandle <=> c10.at = "done"
  /\ \A i, j \in DOMAIN c9 : i = j

WatcherInv == Typed /\ Phases /\ Owned /\ Warden!NothingForgotten

\* A session still tells of a type.
Tells(s, t) ==
  \/ s.rescan \/ s.degraded
  \/ \E f \in s.files : t \in ClaimedBy[f]
  \/ t = All /\ \E f \in s.files : ClaimedBy[f] = {}

\* A change is forgotten where neither the tick nor a session of the task tells of it.
LEMMA Untold ==
  Warden!NothingForgotten <=>
    \A t \in c12 : t \in c8 \/ \E i \in Warden!Mine : Tells(c9[i], t)
<1>1. ASSUME NEW fs, NEW t
      PROVE  t \in Warden!Claims(fs) <=> \E f \in fs : t \in ClaimedBy[f]
  BY DEF Warden!Claims
<1>2. \A t, i :
        Tells(c9[i], t)
          <=> \/ c9[i].rescan \/ c9[i].degraded
              \/ t \in Warden!Claims(c9[i].files)
              \/ t = All /\ \E f \in c9[i].files : ClaimedBy[f] = {}
  BY <1>1 DEF Tells
<1>. QED BY <1>2, Zenon DEF Warden!NothingForgotten

\* The types that claim some files are types.
LEMMA ClaimsAreTypes ==
  ASSUME Warden!WatcherAssumption, NEW fs \in SUBSET Files
  PROVE  Warden!Claims(fs) \subseteq ModelTypes
BY DEF Warden!WatcherAssumption, Warden!Claims

\* The sessions of the task are sessions of the registry.
LEMMA MineLive ==
  ASSUME Owned
  PROVE  Warden!Mine \subseteq DOMAIN c9
BY DEF Owned, Held, Warden!Mine

\* Nothing is watched at first.
LEMMA WatcherStarts ==
  ASSUME Warden!WatcherAssumption, Warden!Init
  PROVE  WatcherInv
<1>1. c9 = <<>> /\ DOMAIN c9 = {}
  <2>1. <<>> \in Seq(Nat) /\ Len(<<>>) = 0  OBVIOUS
  <2>2. DOMAIN <<>> = 1..0  BY <2>1
  <2>. QED BY <2>2 DEF Warden!Init
<1>2. Typed BY <1>1 DEF Warden!Init, Typed, Warden!TypeOK, Warden!NoCall
<1>3. Phases BY DEF Warden!Init, Phases, Warden!NoCall
<1>4. Owned BY <1>1 DEF Warden!Init, Owned, Held, Warden!NoCall
<1>5. Warden!NothingForgotten BY DEF Warden!Init, Warden!NothingForgotten
<1>. QED BY <1>2, <1>3, <1>4, <1>5 DEF WatcherInv

\* Letting go of the session the task has.
LEMMA ReleaseKeeps ==
  ASSUME Warden!WatcherAssumption, WatcherInv, c4 # NoHandle, Warden!Release(c4),
         c10.at = "none", c10' \in {Warden!NoCall, Warden!Call("planned")},
         UNCHANGED <<Warden!outside, c5, c7, c8, c9>>,
         c6' \in BOOLEAN, c3' = "release", c3 = "sleep"
  PROVE  WatcherInv'
<1>1. c8 = {} /\ c11 = {} /\ ~c5 /\ c10.id = NoHandle /\ NoHandle \notin Warden!Handles
  <2>1. c8 = {} /\ c11 = {} /\ ~c5
    BY DEF WatcherInv, Phases
  <2>2. c10.id = NoHandle
    BY DEF WatcherInv, Owned
  <2>. QED BY <2>1, <2>2 DEF Warden!WatcherAssumption, Warden!Handles
<1>2. c4' = NoHandle /\ c11' = {c4} /\ c12' = {}
  BY <1>1 DEF Warden!Release
<1>3. /\ c10'.at \in {"none", "planned"} /\ c10'.id = NoHandle
      /\ c10'.at = "none" => c10' = Warden!NoCall
  BY DEF Warden!NoCall, Warden!Call
<1>4. Typed'
  BY <1>2 DEF WatcherInv, Typed, Warden!TypeOK, Warden!outside, Warden!NoCall, Warden!Call
<1>5. Phases' BY <1>1, <1>2, <1>3 DEF Phases, Warden!NoCall
<1>6. Owned'
  BY <1>1, <1>2, <1>3 DEF WatcherInv, Owned, Held
<1>7. Warden!NothingForgotten' BY <1>2 DEF Warden!NothingForgotten
<1>. QED BY <1>4, <1>5, <1>6, <1>7 DEF WatcherInv

\* The poll of the session the task has, or has just got.
LEMMA PollKeeps ==
  ASSUME Warden!WatcherAssumption, WatcherInv, NEW h \in DOMAIN c9, Warden!Poll(h),
         Warden!Mine = {h},
         c8 = {}, c11 = {}, ~c5, UNCHANGED <<Warden!outside, c5>>, c10' = Warden!NoCall
  PROVE  WatcherInv'
<1>. DEFINE s    == c9[h]
            ts   == IF s.rescan THEN {All} ELSE Warden!Claims(s.files)
            left == IF s.rescan THEN {} ELSE (c12 \cap (ModelTypes \ c7))
<1>1. /\ s \in Warden!Session /\ h \in Warden!Handles /\ NoHandle \notin Warden!Handles
      /\ h # NoHandle
      /\ c12 \subseteq ModelTypes \cup {All} /\ c7 \subseteq ModelTypes \cup {All}
  BY DEF WatcherInv, Typed, Warden!TypeOK, Warden!WatcherAssumption, Warden!Handles
<1>2. /\ DOMAIN c9' = DOMAIN c9
      /\ \A i \in DOMAIN c9' : c9'[i] \in Warden!Session
  BY DEF Warden!Poll, WatcherInv, Typed, Warden!TypeOK, Warden!Session
<1>3. DOMAIN c9 = {h}
  BY DEF WatcherInv, Owned, Held, Warden!Mine
<1>4. \A t \in c12 : Tells(s, t)
  BY Untold DEF WatcherInv
<1>5. CASE s.degraded
  <2>1. /\ c4' = NoHandle /\ c11' = {h} /\ c12' = {} /\ c3' = "release"
        /\ c6' = TRUE /\ UNCHANGED <<c8, c7>>
    BY <1>1, <1>5 DEF Warden!Poll, Warden!Release
  <2>2. Typed'
    BY <1>1, <1>2, <1>3, <2>1 DEF WatcherInv, Typed, Warden!TypeOK, Warden!outside, Warden!NoCall
  <2>3. Phases' BY <2>1 DEF Phases, WatcherInv, Warden!NoCall
  <2>4. Owned' BY <1>1, <1>2, <1>3, <2>1 DEF Owned, Held, Warden!NoCall
  <2>5. Warden!NothingForgotten' BY <2>1 DEF Warden!NothingForgotten
  <2>. QED BY <2>2, <2>3, <2>4, <2>5 DEF WatcherInv
<1>6. CASE ~s.degraded
  <2>1. c4' = h /\ UNCHANGED <<c6, c11>>
    BY <1>6 DEF Warden!Poll
  <2>2. Owned' BY <1>1, <1>2, <1>3, <2>1 DEF Owned, Held, Warden!NoCall
  <2>3. ts \subseteq ModelTypes \cup {All}
    BY <1>1, ClaimsAreTypes DEF Warden!Session
  <2>4. /\ c3' \in {"sleep", "tell"} /\ c8' \subseteq ts /\ c12' \subseteq c8'
        /\ c7' \subseteq ModelTypes \cup {All}
        /\ c8' # {} => c3' = "tell"
    <3>1. CASE ~s.rescan /\ s.files = {}
      <4>1. c3' = "sleep" /\ UNCHANGED <<c12, c8, c7>>
        BY <1>6, <3>1 DEF Warden!Poll
      <4>2. c12 = {}  BY <1>4, <1>6, <3>1 DEF Tells
      <4>. QED BY <1>1, <4>1, <4>2
    <3>2. CASE s.rescan \/ s.files # {}
      <4>1. Warden!Report(s)  BY <1>6, <3>2 DEF Warden!Poll
      <4>2. CASE ts = {}
        BY <1>1, <4>1, <4>2 DEF Warden!Report, Warden!Tell
      <4>3. CASE ts # {} /\ Warden!Announced(ts) = {}
        <5>1. c3' = "sleep" /\ c12' = left /\ UNCHANGED <<c8, c7>>
          BY <4>1, <4>3 DEF Warden!Report
        <5>2. left = {}
          BY <1>4, <1>6, <4>3 DEF Tells, Warden!Claims, Warden!Announced, Warden!WatcherAssumption
        <5>. QED BY <1>1, <5>1, <5>2
      <4>4. CASE ts # {} /\ Warden!Announced(ts) # {}
        <5>1. PICK t \in Warden!Announced(ts) :
                Warden!Tell(t, Warden!Announced(ts), left) /\ c7' = c7 \cup {t}
          BY <4>1, <4>4 DEF Warden!Report
        <5>2. left \subseteq Warden!Announced(ts)
          BY <1>4, <1>6 DEF Tells, Warden!Claims, Warden!Announced, Warden!WatcherAssumption
        <5>. QED BY <1>1, <2>3, <5>1, <5>2 DEF Warden!Tell, Warden!Announced
      <4>. QED BY <4>2, <4>3, <4>4
    <3>. QED BY <3>1, <3>2
  <2>5. Typed'
    BY <1>1, <1>2, <1>3, <2>1, <2>3, <2>4 DEF WatcherInv, Typed, Warden!TypeOK, Warden!outside,
      Warden!NoCall
  <2>6. Phases' BY <1>1, <2>1, <2>4 DEF Phases, WatcherInv, Warden!NoCall
  <2>7. Warden!NothingForgotten' BY <2>4 DEF Warden!NothingForgotten
  <2>. QED BY <2>2, <2>5, <2>6, <2>7 DEF WatcherInv
<1>. QED BY <1>5, <1>6

\* A session is started: there was none, and the handle is a new one.
LEMMA StartKeeps ==
  ASSUME Warden!WatcherAssumption, WatcherInv, Warden!WatchStart
  PROVE  WatcherInv'
<1>1. /\ c10.at = "called" /\ c3 \in {"arm", "over"} /\ c11 = {}
      /\ c4 = NoHandle /\ c10.id = NoHandle /\ NoHandle \notin Warden!Handles /\ c8 = {}
  <2>1. c10.at = "called" BY DEF Warden!WatchStart
  <2>2. c3 \in {"arm", "over"} /\ c11 = {}
    BY <2>1 DEF WatcherInv, Phases
  <2>3. c4 = NoHandle /\ c8 = {}
    BY <2>2 DEF WatcherInv, Phases
  <2>4. c10.id = NoHandle
    BY <2>1 DEF WatcherInv, Owned
  <2>. QED BY <2>1, <2>2, <2>3, <2>4 DEF Warden!WatcherAssumption, Warden!Handles
<1>2. DOMAIN c9 = {} /\ Warden!Mine = {}
  BY <1>1 DEF WatcherInv, Owned, Held, Warden!Mine
<1>3. c12 = {}
  BY <1>1, <1>2, Untold DEF WatcherInv
<1>4. UNCHANGED <<c1, c2, c13, c3, c4, c5, c6, c7, c8, c11, c12>>
  BY DEF Warden!WatchStart, Warden!outside
<1>5. Warden!NothingForgotten'
  BY <1>3, <1>4 DEF Warden!NothingForgotten
<1>6. CASE c10' = [c10 EXCEPT !.at = "failed"] /\ UNCHANGED c9
  <2>1. c10'.at = "failed" /\ c10'.id = NoHandle
    BY <1>1, <1>6 DEF WatcherInv, Typed
  <2>2. Typed' BY <1>4, <1>6 DEF WatcherInv, Typed, Warden!TypeOK
  <2>3. Phases' BY <1>1, <1>4, <2>1 DEF WatcherInv, Phases
  <2>4. Owned' BY <1>1, <1>2, <1>4, <1>6, <2>1 DEF Owned, Held
  <2>. QED BY <1>5, <2>2, <2>3, <2>4 DEF WatcherInv
<1>7. CASE c10' # [c10 EXCEPT !.at = "failed"] \/ c9' # c9
  <2>. DEFINE i == CHOOSE i \in Warden!Handles \ DOMAIN c9 : TRUE
  <2>1. i \in Warden!Handles
    <3>1. 1 \in Warden!Handles \ DOMAIN c9  BY <1>2 DEF Warden!Handles
    <3>. QED BY <3>1
  <2>2. PICK d \in BOOLEAN :
          /\ c10' = [c10 EXCEPT !.at = "done", !.id = i]
          /\ c9' = [n \in DOMAIN c9 \cup {i} |->
               IF n = i THEN [roots |-> c10.roots, files |-> {}, rescan |-> FALSE, degraded |-> d]
               ELSE c9[n]]
    BY <1>7 DEF Warden!WatchStart
  <2>. HIDE DEF i
  <2>3. c10'.at = "done" /\ c10'.id = i /\ DOMAIN c9' = {i}
    BY <1>2, <2>2 DEF WatcherInv, Typed
  <2>4. c9'[i] \in Warden!Session
    BY <1>2, <2>2 DEF WatcherInv, Typed, Warden!Session
  <2>5. Typed' BY <1>1, <1>2, <1>4, <2>1, <2>2, <2>3, <2>4 DEF WatcherInv, Typed, Warden!TypeOK
  <2>6. Phases' BY <1>1, <1>4, <2>3 DEF WatcherInv, Phases
  <2>7. Owned' BY <1>1, <1>4, <2>1, <2>3 DEF Owned, Held
  <2>. QED BY <1>5, <2>5, <2>6, <2>7 DEF WatcherInv
<1>. QED BY <1>6, <1>7

\* A session is stopped: the task has none of its own, or has let it go.
LEMMA StopKeeps ==
  ASSUME Warden!WatcherAssumption, WatcherInv, NEW i \in c11, Warden!WatchStop(i)
  PROVE  WatcherInv'
<1>1. /\ c3 \in {"release", "over"} /\ c4 = NoHandle /\ c10.id = NoHandle
      /\ c10.at \in {"none", "planned"}
  BY DEF WatcherInv, Typed, Phases, Owned
<1>2. c11 = {i} /\ DOMAIN c9 = {i}
  BY <1>1 DEF WatcherInv, Owned, Held, Typed, Warden!TypeOK
<1>3. c11' = {} /\ DOMAIN c9' = {}
  BY <1>2 DEF Warden!WatchStop, Warden!Restrict
<1>4. UNCHANGED <<c1, c2, c13, c3, c4, c5, c6, c7, c8, c10, c12>>
  BY DEF Warden!WatchStop, Warden!outside
<1>5. c12 = {}
  BY <1>1, Untold DEF WatcherInv, Warden!Mine, Phases
<1>6. Typed' BY <1>1, <1>3, <1>4 DEF WatcherInv, Typed, Warden!TypeOK
<1>7. Phases' BY <1>1, <1>3, <1>4 DEF WatcherInv, Phases
<1>8. Owned' BY <1>1, <1>3, <1>4 DEF WatcherInv, Owned, Held
<1>9. Warden!NothingForgotten' BY <1>4, <1>5 DEF Warden!NothingForgotten
<1>. QED BY <1>6, <1>7, <1>8, <1>9 DEF WatcherInv

\* The sessions see more, and nothing else of the task's changes: what they told of
\* they still tell of.
LEMMA SeenKeeps ==
  ASSUME Warden!WatcherAssumption, WatcherInv,
         UNCHANGED <<c3, c4, c5, c6, c7, c8, c10, c11>>,
         c1' \in BOOLEAN, c2' \subseteq Volumes, c12' \subseteq ModelTypes \cup {All},
         DOMAIN c9' = DOMAIN c9,
         \A i \in DOMAIN c9 : c9'[i] \in Warden!Session,
         \A t \in c12' \ c8 : \E i \in Warden!Mine : Tells(c9'[i], t)
  PROVE  WatcherInv'
<1>1. Typed' BY DEF WatcherInv, Typed, Warden!TypeOK
<1>2. Phases' BY DEF WatcherInv, Phases
<1>3. Owned' BY DEF WatcherInv, Owned, Held
<1>4. Warden!Mine' = Warden!Mine BY DEF Warden!Mine
<1>5. ASSUME NEW t \in c12'
      PROVE  t \in c8' \/ \E i \in Warden!Mine' : Tells(c9'[i], t)
  BY <1>4, <1>5
<1>6. ASSUME NEW s, NEW t
      PROVE  Tells(s, t)
               <=> \/ s.rescan \/ s.degraded \/ t \in Warden!Claims(s.files)
                   \/ t = All /\ \E f \in s.files : ClaimedBy[f] = {}
  BY DEF Tells, Warden!Claims
<1>7. Warden!NothingForgotten'
  BY <1>5, <1>6, Zenon DEF Warden!NothingForgotten
<1>. QED BY <1>1, <1>2, <1>3, <1>7 DEF WatcherInv

\* A file changes: what its types are owed, the sessions that saw it tell of.
LEMMA FileKeeps ==
  ASSUME Warden!WatcherAssumption, WatcherInv, NEW f \in Files, Warden!Change(f)
  PROVE  WatcherInv'
<1>. DEFINE seen == {i \in DOMAIN c9 : RootOf[f] \in c9[i].roots}
            told == IF ClaimedBy[f] = {} THEN {All} ELSE ClaimedBy[f]
<1>1. /\ c12 \subseteq ModelTypes \cup {All} /\ told \subseteq ModelTypes \cup {All}
      /\ \A i \in DOMAIN c9 : c9[i] \in Warden!Session
  BY DEF WatcherInv, Typed, Warden!TypeOK, Warden!WatcherAssumption
<1>2. PICK full \in BOOLEAN :
        c9' = [i \in DOMAIN c9 |->
          IF i \notin seen THEN c9[i]
          ELSE IF full THEN [c9[i] EXCEPT !.files = {}, !.rescan = TRUE]
          ELSE [c9[i] EXCEPT !.files = @ \cup {f}]]
  BY DEF Warden!Change
<1>3. c12' = IF seen \cap Warden!Mine = {} THEN c12 ELSE c12 \cup told
  BY DEF Warden!Change
<1>4. /\ UNCHANGED <<c3, c4, c5, c6, c7, c8, c10, c11>>
      /\ c1' \in BOOLEAN /\ c2' \subseteq Volumes
  BY DEF Warden!Change, WatcherInv, Typed, Warden!TypeOK
<1>5. ASSUME NEW i \in DOMAIN c9
      PROVE  /\ c9'[i] \in Warden!Session
             /\ \A t : Tells(c9[i], t) => Tells(c9'[i], t)
             /\ i \in seen => \A t \in told : Tells(c9'[i], t)
  <2>. DEFINE s == c9[i]
  <2>1. s \in Warden!Session BY <1>1
  <2>2. CASE i \notin seen
    BY <1>2, <2>1, <2>2
  <2>3. CASE i \in seen /\ full
    <3>1. c9'[i] = [s EXCEPT !.files = {}, !.rescan = TRUE]
      BY <1>2, <2>3
    <3>2. c9'[i].rescan /\ c9'[i] \in Warden!Session
      BY <2>1, <3>1 DEF Warden!Session
    <3>. QED BY <3>2 DEF Tells
  <2>4. CASE i \in seen /\ ~full
    <3>1. c9'[i] = [s EXCEPT !.files = @ \cup {f}]
      BY <1>2, <2>4
    <3>2. /\ c9'[i] \in Warden!Session /\ c9'[i].files = s.files \cup {f}
          /\ c9'[i].rescan = s.rescan /\ c9'[i].degraded = s.degraded
      BY <2>1, <3>1 DEF Warden!Session
    <3>3. \A t \in told : Tells(c9'[i], t)
      BY <3>2 DEF Tells
    <3>4. \A t : Tells(s, t) => Tells(c9'[i], t)
      BY <3>2 DEF Tells
    <3>. QED BY <3>2, <3>3, <3>4
  <2>. QED BY <2>2, <2>3, <2>4
<1>6. ASSUME NEW t \in c12' \ c8
      PROVE  \E i \in Warden!Mine : Tells(c9'[i], t)
  <2>1. CASE t \in c12
    BY <1>5, <1>6, <2>1, Untold, MineLive DEF WatcherInv
  <2>2. CASE t \in told /\ seen \cap Warden!Mine # {}
    BY <1>5, <2>2
  <2>. QED BY <1>3, <1>6, <2>1, <2>2
<1>7. DOMAIN c9' = DOMAIN c9 /\ c12' \subseteq ModelTypes \cup {All}
  BY <1>1, <1>2, <1>3
<1>. QED BY <1>4, <1>5, <1>6, <1>7, SeenKeeps

\* A session loses track, and tells of everything from then on.
LEMMA LossKeeps ==
  ASSUME Warden!WatcherAssumption, WatcherInv,
         NEW i \in DOMAIN c9, NEW d \in BOOLEAN, Warden!LoseTrack(i, d)
  PROVE  WatcherInv'
<1>1. /\ c12 \subseteq ModelTypes \cup {All}
      /\ \A j \in DOMAIN c9 : c9[j] \in Warden!Session
  BY DEF WatcherInv, Typed, Warden!TypeOK
<1>2. c9' = [c9 EXCEPT ![i].rescan = @ \/ ~d, ![i].degraded = @ \/ d]
  BY DEF Warden!LoseTrack
<1>3. c12' = IF i \in Warden!Mine THEN c12 \cup {All} ELSE c12
  BY DEF Warden!LoseTrack
<1>4. /\ UNCHANGED <<c3, c4, c5, c6, c7, c8, c10, c11>>
      /\ c1' \in BOOLEAN /\ c2' \subseteq Volumes
  BY DEF Warden!LoseTrack, WatcherInv, Typed, Warden!TypeOK
<1>5. DOMAIN c9' = DOMAIN c9 /\ \A j \in DOMAIN c9 \ {i} : c9'[j] = c9[j]
  BY <1>2
<1>6. /\ c9'[i] \in Warden!Session /\ c9'[i].files = c9[i].files
      /\ c9'[i].rescan <=> c9[i].rescan \/ ~d
      /\ c9'[i].degraded <=> c9[i].degraded \/ d
  BY <1>1, <1>2 DEF Warden!Session
<1>7. \A t : Tells(c9'[i], t)
  BY <1>6 DEF Tells
<1>8. ASSUME NEW t \in c12' \ c8
      PROVE  \E j \in Warden!Mine : Tells(c9'[j], t)
  <2>1. CASE i \in Warden!Mine
    BY <1>7, <2>1
  <2>2. CASE i \notin Warden!Mine
    BY <1>3, <1>5, <1>8, <2>2, Untold, MineLive DEF WatcherInv
  <2>. QED BY <2>1, <2>2
<1>9. \A j \in DOMAIN c9 : c9'[j] \in Warden!Session
  BY <1>1, <1>5, <1>6
<1>10. c12' \subseteq ModelTypes \cup {All}
  BY <1>1, <1>3
<1>. QED BY <1>4, <1>5, <1>8, <1>9, <1>10, SeenKeeps

\* Every step of the task, its threads and the disk keeps the invariant.
LEMMA WatcherSteps ==
  ASSUME Warden!WatcherAssumption, WatcherInv, [Warden!Next]_(Warden!watchVars)
  PROVE  WatcherInv'
<1>0. NoHandle \notin Warden!Handles
  BY DEF Warden!WatcherAssumption, Warden!Handles
<1>. USE DEF WatcherInv
<1>1. CASE Warden!EnsureTask
  BY <1>0, <1>1 DEF Warden!EnsureTask, Warden!outside, Typed, Warden!TypeOK, Phases, Owned,
    Held, Warden!NothingForgotten, Warden!Mine
<1>2. CASE Warden!TickOff
  <2>1. c10.at = "none" BY <1>2 DEF Warden!TickOff, Typed, Phases
  <2>2. c10 = Warden!NoCall BY <2>1 DEF Phases
  <2>. QED BY <1>2, <2>1, <2>2, ReleaseKeeps DEF Warden!TickOff, Typed, Warden!TypeOK
<1>3. CASE Warden!TickArm
  BY <1>0, <1>3 DEF Warden!TickArm, Warden!Ready, Warden!Call, Warden!outside, Typed,
    Warden!TypeOK, Phases, Owned, Held,
    Warden!NothingForgotten, Warden!Mine
<1>4. CASE Warden!TickRearm
  BY <1>4, ReleaseKeeps DEF Warden!TickRearm, Warden!Ready, Typed, Warden!TypeOK, Phases
<1>5. CASE Warden!Released
  BY <1>0, <1>5 DEF Warden!Released, Warden!outside, Typed, Warden!TypeOK, Phases, Owned, Held,
    Warden!NothingForgotten, Warden!Mine
<1>6. CASE Warden!TickPoll
  <2>1. Warden!Mine = {c4} /\ c8 = {} /\ c11 = {} /\ ~c5 /\ c10 = Warden!NoCall
    <3>1. /\ c3 = "sleep" /\ c4 # NoHandle BY <1>6 DEF Warden!TickPoll, Warden!Ready
    <3>2. c10 = Warden!NoCall /\ c8 = {} /\ c11 = {} /\ ~c5
      BY <3>1 DEF Phases, Typed, Warden!TypeOK
    <3>. QED BY <3>1, <3>2 DEF Warden!Mine, Warden!NoCall
  <2>. QED BY <1>6, <2>1, PollKeeps DEF Warden!TickPoll, Warden!Ready, Typed, Warden!TypeOK
<1>7. CASE Warden!Armed
  <2>1. /\ c3 = "arm" /\ c4 = NoHandle /\ c11 = {} /\ c8 = {} /\ ~c5
        /\ c10.at \in {"done", "failed"} /\ c10' = Warden!NoCall /\ UNCHANGED <<Warden!outside, c5>>
    BY <1>7 DEF Warden!Armed, Phases
  <2>2. CASE c10.at = "done"
    <3>1. c10.id \in DOMAIN c9 /\ Warden!Mine = {c10.id}
      BY <2>1, <2>2 DEF Owned, Held, Warden!Mine
    <3>. QED BY <1>7, <2>1, <2>2, <3>1, PollKeeps DEF Warden!Armed
  <2>3. CASE c10.at = "failed"
    <3>1. /\ c3' = "sleep" /\ c6' = TRUE
          /\ UNCHANGED <<c4, c7, c8, c9, c11, c12>>
      BY <1>7, <2>3 DEF Warden!Armed
    <3>2. c10.id = NoHandle /\ Warden!Mine = {} /\ c12 = {}
      BY <2>1, <2>3 DEF Owned, Warden!Mine, Warden!NothingForgotten
    <3>3. Warden!NothingForgotten' BY <3>1, <3>2 DEF Warden!NothingForgotten
    <3>4. Typed' BY <2>1, <3>1 DEF Typed, Warden!TypeOK, Warden!outside, Warden!NoCall
    <3>5. Phases' BY <2>1, <3>1 DEF Phases, Warden!outside, Warden!NoCall
    <3>6. Owned' BY <2>1, <3>1, <3>2 DEF Owned, Held, Warden!NoCall
    <3>. QED BY <3>3, <3>4, <3>5, <3>6
  <2>. QED BY <2>1, <2>2, <2>3
<1>8. CASE Warden!ToldOne
  BY <1>0, <1>8 DEF Warden!ToldOne, Warden!Tell, Warden!outside, Typed, Warden!TypeOK, Phases,
    Owned, Held,
    Warden!NothingForgotten, Warden!Mine
<1>9. CASE Warden!Stop
  BY <1>0, <1>9 DEF Warden!Stop, Warden!Release, Warden!NoCall, Warden!outside, Typed,
    Warden!TypeOK, Phases, Owned, Held,
    Warden!NothingForgotten
<1>10. CASE Warden!WatchStart
  BY <1>10, StartKeeps
<1>11. CASE Warden!RetryDue
  BY <1>0, <1>11 DEF Warden!RetryDue, Warden!outside, Typed, Warden!TypeOK, Phases, Owned, Held,
    Warden!NothingForgotten, Warden!Mine
<1>12. CASE Warden!Switch
  BY <1>0, <1>12 DEF Warden!Switch, Warden!Event, Typed, Warden!TypeOK, Phases, Owned, Held,
    Warden!NothingForgotten, Warden!Mine
<1>13. CASE \E i \in c11 : Warden!WatchStop(i)
  BY <1>13, StopKeeps
<1>14. CASE \E t \in c7 : Warden!Cool(t)
  BY <1>0, <1>14 DEF Warden!Cool, Warden!outside, Typed, Warden!TypeOK, Phases, Owned, Held,
    Warden!NothingForgotten, Warden!Mine
<1>15. CASE \E f \in Files : Warden!Change(f)
  BY <1>15, FileKeeps
<1>16. CASE \E r \in Volumes : Warden!Mount(r)
  BY <1>0, <1>16 DEF Warden!Mount, Warden!Event, Typed, Warden!TypeOK, Phases, Owned, Held,
    Warden!NothingForgotten, Warden!Mine
<1>17. CASE \E i \in DOMAIN c9, d \in BOOLEAN : Warden!LoseTrack(i, d)
  BY <1>17, LossKeeps
<1>18. CASE UNCHANGED Warden!watchVars
  BY <1>18 DEF Warden!watchVars, Warden!outside, Typed, Warden!TypeOK, Phases, Owned, Held,
    Warden!NothingForgotten, Warden!Mine
<1>. QED
  BY <1>1, <1>2, <1>3, <1>4, <1>5, <1>6, <1>7, <1>8, <1>9, <1>10, <1>11, <1>12, <1>13, <1>14,
     <1>15, <1>16, <1>17, <1>18 DEF Warden!Next

\* The invariant says what the property does: there is one session at most.
LEMMA Watched ==
  ASSUME WatcherInv
  PROVE  Warden!WatcherIsTrue
<1>1. DOMAIN c9 \subseteq Held
  BY DEF WatcherInv, Owned
<1>2. IsFiniteSet(DOMAIN c9) /\ Cardinality(DOMAIN c9) <= 1
  <2>1. CASE DOMAIN c9 = {}
    BY <2>1, FS_EmptySet
  <2>2. CASE \E i : DOMAIN c9 = {i}
    <3>1. PICK i : DOMAIN c9 = {i}  BY <2>2
    <3>2. IsFiniteSet({i}) /\ Cardinality({i}) = 1  BY FS_Singleton
    <3>. QED BY <3>1, <3>2
  <2>3. DOMAIN c9 = {} \/ \E i : DOMAIN c9 = {i}
    BY DEF WatcherInv, Owned
  <2>. QED BY <2>1, <2>2, <2>3
<1>. QED BY <1>1, <1>2 DEF WatcherInv, Warden!WatcherIsTrue, Warden!NoneLeftBehind, Held,
         Warden!Cardinality, Cardinality, Warden!IsFiniteSet, IsFiniteSet

WatchInv == part = "watcher" => WatcherInv

LEMMA WatchStep ==
  ASSUME WatchInv, [Next]_vars
  PROVE  WatchInv'
<1>1. part' = part  BY DEF Next, vars
<1>2. CASE part = "watcher"
  <2>1. [Warden!Next]_(Warden!watchVars)
    BY <1>2 DEF Next, vars, Warden!watchVars, Warden!outside
  <2>. QED BY <1>2, <2>1, ModelsAssumption, WatcherSteps DEF WatchInv
<1>3. CASE part # "watcher"
  BY <1>1, <1>3 DEF WatchInv
<1>. QED BY <1>2, <1>3

\* No change of a watched directory is forgotten, and no session is left behind.
THEOREM WatchesHold == Spec => []WatcherIsTrue
<1>1. Init => WatchInv
  BY ModelsAssumption, WatcherStarts DEF Init, WatchInv
<1>2. WatchInv /\ [Next]_vars => WatchInv'  BY WatchStep
<1>3. WatchInv => WatcherIsTrue
  BY ModelsAssumption, Watched DEF WatchInv, WatcherIsTrue
<1>. QED BY <1>1, <1>2, <1>3, PTL DEF Spec

-----------------------------------------------------------------------------
(* The editor.  Of its variables the proof names the file c1, the model of  *)
(* the window c2, the notes it read c3, the form c4, the snapshot c5, the   *)
(* edit mode c6, the request c8 and the end of the window c9.               *)

\* The form that a reset fills in, once the notes are notes.
Filled(notes) == [at |-> c2, prefix |-> <<>>, notes |-> notes]

\* A place with nothing added to its folder is the same place.
LEMMA NothingAdded ==
  ASSUME NEW p \in Card!Places
  PROVE  [p EXCEPT !.sub = @ \o <<>>] = p
<1>1. p.sub \in Card!Folders  BY DEF Card!Places
<1>2. ASSUME NEW s \in Card!Folders  PROVE s \o <<>> = s
  <2>1. CASE s = <<>>  BY <2>1
  <2>2. CASE s \in {<<x>> : x \in Segments}
    <3>1. PICK x \in Segments : s = <<x>>  BY <2>2
    <3>2. s \in Seq(Segments)  BY <3>1
    <3>. QED BY <3>2
  <2>3. CASE s \in Segments \X Segments
    <3>1. PICK x \in Segments, y \in Segments : s = <<x, y>>  BY <2>3
    <3>2. s \in Seq(Segments)  BY <3>1
    <3>. QED BY <3>2
  <2>. QED BY <1>2, <2>1, <2>2, <2>3 DEF Card!Folders
<1>. QED BY <1>1, <1>2 DEF Card!Places

\* What is filled in from the model would be saved as the model.
LEMMA FilledIsTheModel ==
  ASSUME c2 \in Card!Places, c4 = Card!Content
  PROVE  Card!Submitted = c2 /\ c4.notes = c3
<1>1. c4.at = c2 /\ c4.prefix = <<>> /\ c4.notes = c3
  BY DEF Card!Content
<1>2. [c2 EXCEPT !.sub = @ \o <<>>] = c2
  BY NothingAdded
<1>. QED BY <1>1, <1>2, Zenon DEF Card!Submitted

\* A reset leaves a form that would change nothing, unless it took a type back.
LEMMA ResetFills ==
  ASSUME Card!EditorAssumption, Card!EditorInv, NEW notes \in Notes \cup {NoNotes},
         Card!ResetTo(Filled(notes))
  PROVE  /\ c4' \in Card!Forms /\ c4'.notes = notes /\ c5' \in Card!Forms
         /\ ~c6' /\ ~c10' /\ ~c11' /\ {c6', c10', c11', c12'} \subseteq BOOLEAN
         /\ ~c12' => c4' = Filled(notes) /\ ~c12
<1>1. /\ c2 \in Card!Places /\ Filled(notes) \in Card!Forms /\ c4 \in Card!Forms
      /\ c12 \in BOOLEAN /\ <<>> \in Card!Folders
  BY DEF Card!EditorInv, Card!TypeOK, Card!Forms, Card!Folders, Filled
<1>2. /\ c5' = Filled(notes) /\ ~c6' /\ ~c10' /\ ~c11'
      /\ c6' = FALSE /\ c10' = FALSE /\ c11' = FALSE
      /\ c12' = (c12 \/ c4.at.type # c2.type)
      /\ c4' = Card!Watched(c4, Filled(notes))
  BY DEF Card!ResetTo, Filled
<1>3. CASE c4.at.type = c2.type
  BY <1>1, <1>2, <1>3 DEF Card!Watched, Filled
<1>4. CASE c4.at.type # c2.type
  <2>1. c4' = [Filled(notes) EXCEPT !.at.sub = <<>>]
    BY <1>2, <1>4 DEF Card!Watched, Filled
  <2>2. c4' \in Card!Forms /\ c4'.notes = notes
    BY <1>1, <2>1 DEF Card!Forms, Card!Places, Filled
  <2>. QED BY <1>1, <1>2, <1>4, <2>2
<1>. QED BY <1>3, <1>4

\* A form that was filled in would change nothing.
LEMMA FilledIsKept ==
  ASSUME Card!EditorAssumption, Card!EditorInv, NEW notes \in {c3, c1.notes}
  PROVE  Card!Kept(Filled(notes))
BY NothingAdded DEF Card!EditorInv, Card!TypeOK, Card!Kept, Filled
\* A Cancel that does not ask gives up nothing.
LEMMA CancelGivesUpNothing ==
  ASSUME Card!EditorInv
  PROVE  Card!CancelAsks
<1>. SUFFICES ASSUME Card!Cancel, c4 = c5, ~c11, ~c12
              PROVE  Card!Submitted = c2 /\ c4.notes \in {c3, c1.notes}
  BY DEF Card!CancelAsks
<1>. QED BY DEF Card!EditorInv, Card!NothingLeft, Card!Kept, Card!Cancel, Card!Idle, Card!Submitted

\* Where an edit mode ends with a form that was filled in, the file is where the form says.
LEMMA FileIsThere ==
  ASSUME Card!EditorAssumption, Card!EditorInv, ~c9, c6, NEW notes, c4 = Filled(notes)
  PROVE  /\ Card!Submitted = c2
         /\ c1.at.name # c2.name \/ c1.at = c2
<1>1. c2 = Home /\ Home \in Card!Places
  BY DEF Card!EditorInv, Card!EditorAssumption
<1>2. Card!Submitted = c2
  BY <1>1, NothingAdded DEF Card!Submitted, Filled
<1>3. Card!NotMoved => c1.at.name # c2.name \/ c1.at = c2
  BY <1>1 DEF Card!NotMoved, Card!Places
<1>4. c8.at = "done" => Card!NotMoved \/ c1.at = c2
  BY <1>1, <1>2 DEF Card!EditorInv, Card!Carried
<1>. QED BY <1>1, <1>2, <1>3, <1>4 DEF Card!EditorInv, Card!Carried

\* A reset keeps the invariant and, if it is the end of an edit mode, gives up nothing
\* that was not there already.
LEMMA ResetKeeps ==
  ASSUME Card!EditorAssumption, Card!EditorInv, ~c9, NEW notes \in Notes \cup {NoNotes},
         Card!ResetTo(Filled(notes)), c3' = notes, notes \in {c3, c1.notes},
         c7' \in BOOLEAN, UNCHANGED <<c1, c2, c8, c9>>
  PROVE  Card!EditorInv' /\ Card!SavesTheEdits
<1>1. /\ c4' \in Card!Forms /\ c4'.notes = notes /\ c5' \in Card!Forms
      /\ ~c6' /\ ~c10' /\ ~c11' /\ {c6', c10', c11', c12'} \subseteq BOOLEAN
      /\ ~c12' => c4' = Filled(notes) /\ ~c12
  BY ResetFills
<1>2. Card!TypeOK'
  BY <1>1 DEF Card!EditorInv, Card!TypeOK
<1>3. ~c12' => c4' = Card!Content'
  BY <1>1 DEF Filled, Card!Content
<1>4. Card!Carried'
  <2>1. Card!NotMoved' <=> Card!NotMoved
    BY DEF Card!NotMoved
  <2>. QED BY <1>1, <1>3, <2>1 DEF Card!EditorInv, Card!Carried
<1>5. ~c12' => Card!Kept(c4)'
  BY <1>1, FilledIsKept, NothingAdded DEF Card!Kept, Filled, Card!EditorInv, Card!TypeOK
<1>6. Card!NothingLeft'
  BY <1>1, <1>3, <1>5 DEF Card!NothingLeft
<1>7. Card!LeavesNothing
  <2>. SUFFICES ASSUME c6, c4' = c4, ~c12'
                PROVE  \/ c1.at.name # Card!Submitted.name /\ c1.at.name # c2.name
                       \/ c1.at = Card!Submitted /\ c4.notes \in {c3, c1.notes}
    BY DEF Card!LeavesNothing
  <2>1. c4 = Filled(notes)  BY <1>1
  <2>2. Card!Submitted = c2 /\ (c1.at.name # c2.name \/ c1.at = c2)
    BY <2>1, FileIsThere
  <2>. QED BY <2>1, <2>2 DEF Filled
<1>8. Card!SendsOnlyEdits
  BY DEF Card!SendsOnlyEdits
<1>. QED BY <1>2, <1>4, <1>6, <1>7, <1>8, CancelGivesUpNothing DEF Card!EditorInv,
       Card!SavesTheEdits

\* A field that is committed ends nothing and sends nothing.
LEMMA ChangeKeeps ==
  ASSUME Card!EditorAssumption, Card!EditorInv, NEW f \in Card!Forms,
         f.notes = NoNotes => c4.notes = NoNotes, Card!Change(f)
  PROVE  Card!EditorInv' /\ Card!SavesTheEdits
<1>1. /\ ~c9 /\ c8.at = "none" /\ c6 = TRUE /\ c4' = Card!Watched(c4, f) /\ c10' = TRUE
      /\ UNCHANGED <<c1, c2, c3, c5, c6, c7, c8, c9, c11, c12>>
  BY DEF Card!Change, Card!Idle, Card!EditorInv, Card!TypeOK
<1>2. c4' \in Card!Forms /\ c4'.notes = f.notes
  BY <1>1 DEF Card!Watched, Card!Forms, Card!Places, Card!Folders
<1>3. Card!TypeOK'
  BY <1>1, <1>2 DEF Card!EditorInv, Card!TypeOK
<1>4. Card!Carried'
  BY <1>1 DEF Card!EditorInv, Card!Carried, Card!NotMoved
<1>5. Card!NothingLeft'
  BY <1>1, <1>2 DEF Card!EditorInv, Card!NothingLeft, Card!Kept
<1>. QED
  BY <1>1, <1>3, <1>4, <1>5, CancelGivesUpNothing
     DEF Card!EditorInv, Card!SavesTheEdits, Card!SendsOnlyEdits, Card!LeavesNothing
\* What a save sends is what the form has; when that is nothing, the form is what is
\* there.
LEMMA SaveKeeps ==
  ASSUME Card!EditorAssumption, Card!EditorInv, Card!Save
  PROVE  Card!EditorInv' /\ Card!SavesTheEdits
<1>. DEFINE place == Card!Submitted
            notes == IF c4.notes = c3 THEN NoNotes ELSE c4.notes
<1>1. /\ ~c9 /\ c8.at = "none" /\ c6 /\ place \in Card!Places /\ c7' = TRUE
      /\ UNCHANGED <<c1, c2, c3, c4, c5, c9, c10, c11, c12>>
      /\ c4 \in Card!Forms /\ c2 \in Card!Places /\ Card!NotMoved /\ c2 = Home
  BY DEF Card!Save, Card!Idle, Card!EditorInv, Card!TypeOK, Card!Carried, Card!history
<1>2. ~c10 /\ ~c12 => place = c2 /\ c4.notes = c3
  BY <1>1, FilledIsTheModel DEF Card!EditorInv, Card!NothingLeft
<1>3. CASE Card!Differs(place) \/ c4.notes # c3
  <2>1. c8' = [at |-> "sent", place |-> place, notes |-> notes] /\ UNCHANGED c6
    BY <1>3 DEF Card!Save, Card!Content, Card!Differs
  <2>2. notes \in Notes \cup {NoNotes}
    BY <1>1 DEF Card!Forms
  <2>3. Card!Submitted' = Card!Submitted
    BY <1>1 DEF Card!Submitted
  <2>4. Card!TypeOK'
    BY <1>1, <2>1 DEF Card!EditorInv, Card!TypeOK
  <2>5. Card!Carried'
    BY <1>1, <2>1, <2>2, <2>3 DEF Card!Carried, Card!NotMoved
  <2>6. Card!NothingLeft'
    BY <1>1, <2>1 DEF Card!EditorInv, Card!NothingLeft, Card!Content
  <2>7. Card!SendsOnlyEdits
    BY <1>2, <2>1 DEF Card!SendsOnlyEdits
  <2>8. Card!LeavesNothing
    BY <1>1, <2>1 DEF Card!LeavesNothing
  <2>. QED BY <1>1, <2>4, <2>5, <2>6, <2>7, <2>8, CancelGivesUpNothing
           DEF Card!EditorInv, Card!SavesTheEdits
<1>4. CASE ~Card!Differs(place) /\ c4.notes = c3
  <2>1. c6' = FALSE /\ UNCHANGED c8
    BY <1>4 DEF Card!Save, Card!Content
  <2>2. place = c2
    BY <1>4 DEF Card!Differs
  <2>3. Card!TypeOK'
    BY <1>1, <2>1 DEF Card!EditorInv, Card!TypeOK
  <2>4. Card!Carried'
    BY <1>1, <2>1 DEF Card!EditorInv, Card!Carried, Card!NotMoved
  <2>5. Card!NothingLeft'
    BY <1>1, <1>4, <2>1, <2>2 DEF Card!EditorInv, Card!NothingLeft, Card!Content, Card!Kept,
      Card!Submitted
  <2>6. c1.at.name # c2.name \/ c1.at = c2
    BY <1>1 DEF Card!NotMoved, Card!Places
  <2>. QED BY <1>1, <1>4, <2>1, <2>2, <2>3, <2>4, <2>5, <2>6, CancelGivesUpNothing
           DEF Card!EditorInv, Card!SavesTheEdits, Card!SendsOnlyEdits, Card!LeavesNothing
<1>. QED BY <1>3, <1>4

\* The backend writes what the request asks for, or fails it.
LEMMA LandsKeeps ==
  ASSUME Card!EditorAssumption, Card!EditorInv, Card!SaveLands
  PROVE  Card!EditorInv' /\ Card!SavesTheEdits
<1>. DEFINE notes == IF c8.notes = NoNotes THEN c1.notes ELSE c8.notes
<1>1. /\ c8.at = "sent" /\ ~c9 /\ Card!NotMoved /\ c2 = Home
      /\ UNCHANGED <<c2, c3, c4, c5, c6, c7, c9, c10, c11, c12>>
      /\ c8 \in [at : {"none", "sent", "done", "failed"}, place : Card!Places,
           notes : Notes \cup {NoNotes}]
      /\ c1 \in [at : Card!Places, notes : Notes]
  BY DEF Card!SaveLands, Card!EditorInv, Card!TypeOK, Card!Carried, Card!fields, Card!history
<1>2. /\ c1' \in [at : Card!Places, notes : Notes]
      /\ c8' \in [at : {"none", "sent", "done", "failed"}, place : Card!Places,
           notes : Notes \cup {NoNotes}]
      /\ c8'.place = c8.place /\ c8'.notes = c8.notes
      /\ \/ c8'.at = "failed" /\ c1'.at = c1.at
         \/ c8'.at = "done" /\ c1'.at = c8.place /\ c1'.notes = notes
  <2>1. CASE c1.at # c2
    <3>1. c8' = [c8 EXCEPT !.at = "failed"] /\ UNCHANGED c1
      BY <2>1 DEF Card!SaveLands
    <3>. QED BY <1>1, <3>1
  <2>2. CASE c1.at = c2 /\ c8.place \in Taken
    <3>1. c1' = [c1 EXCEPT !.notes = notes] /\ c8' = [c8 EXCEPT !.at = "failed"]
      BY <2>2 DEF Card!SaveLands
    <3>. QED BY <1>1, <3>1
  <2>3. CASE c1.at = c2 /\ c8.place \notin Taken
    <3>1. c1' = [at |-> c8.place, notes |-> notes] /\ c8' = [c8 EXCEPT !.at = "done"]
      BY <2>3 DEF Card!SaveLands
    <3>. QED BY <1>1, <3>1
  <2>. QED BY <2>1, <2>2, <2>3
<1>3. Card!TypeOK'
  BY <1>1, <1>2 DEF Card!EditorInv, Card!TypeOK
<1>4. Card!Submitted' = Card!Submitted /\ Card!Content' = Card!Content
  BY <1>1 DEF Card!Submitted, Card!Content
<1>5. Card!Carried'
  BY <1>1, <1>2, <1>4 DEF Card!EditorInv, Card!Carried, Card!NotMoved
<1>6. ~c6 /\ ~c12 => Card!Kept(c4)'
  <2>1. ~c6 /\ ~c12 => Card!Submitted = c2 /\ c4.notes = c3
    BY <1>1, FilledIsTheModel DEF Card!EditorInv, Card!Carried, Card!EditorAssumption
  <2>. QED BY <1>1, <2>1 DEF Card!Kept, Card!Submitted
<1>7. Card!NothingLeft'
  BY <1>1, <1>2, <1>4, <1>6 DEF Card!EditorInv, Card!NothingLeft
<1>. QED
  BY <1>1, <1>3, <1>5, <1>7, CancelGivesUpNothing
     DEF Card!EditorInv, Card!SavesTheEdits, Card!SendsOnlyEdits, Card!LeavesNothing

\* The answer of a save: what it left undone is marked as failed.
LEMMA AnswerKeeps ==
  ASSUME Card!EditorAssumption, Card!EditorInv, Card!SaveAnswered
  PROVE  Card!EditorInv' /\ Card!SavesTheEdits
<1>11. /\ c8.at \in {"done", "failed"}
       /\ c8' = Card!NoPut /\ c6' = FALSE /\ c7' = (c7 /\ c8.at = "done")
       /\ c9' = (c8.at = "done" /\ c8.place # c2)
       /\ c11' = (c11 \/ c8.at = "failed")
       /\ UNCHANGED <<c1, c2, c3, c4, c5, c10, c12>>
  BY DEF Card!SaveAnswered
<1>12. ~c9  BY <1>11 DEF Card!EditorInv, Card!Carried
<1>13. c2 = Home /\ Home \in Card!Places  BY DEF Card!EditorInv, Card!EditorAssumption
<1>14. c7' \in BOOLEAN  BY <1>11
<1>1. /\ c8.at \in {"done", "failed"} /\ ~c9 /\ c2 = Home /\ Home \in Card!Places
      /\ c8' = Card!NoPut /\ c6' = FALSE /\ c7' \in BOOLEAN
      /\ c9' = (c8.at = "done" /\ c8.place # c2)
      /\ c11' = (c11 \/ c8.at = "failed")
      /\ UNCHANGED <<c1, c2, c3, c4, c5, c10, c12>>
  BY <1>11, <1>12, <1>13, <1>14
<1>2. Card!TypeOK'
  BY <1>1 DEF Card!EditorInv, Card!TypeOK, Card!NoPut
<1>3. c8.at = "done" /\ c8.place = Home => Card!NotMoved
  <2>1. Home.name \in Names /\ Home = [Home EXCEPT !.name = Home.name]
    BY <1>1 DEF Card!Places
  <2>2. c1.at = Home => Card!NotMoved  BY <2>1 DEF Card!NotMoved
  <2>3. c8.at = "done" => c1.at = c8.place \/ (c8.place = Home /\ Card!NotMoved)
    BY DEF Card!EditorInv, Card!Carried
  <2>. QED BY <2>2, <2>3
<1>4. Card!Carried'
  BY <1>1, <1>3 DEF Card!EditorInv, Card!Carried, Card!NotMoved, Card!NoPut
<1>5. c8.at = "done" /\ c6 =>
        /\ c8.place = Card!Submitted /\ c4.notes \in {c3, c1.notes}
        /\ c1.at = Card!Submitted \/ (c8.place = Home /\ Card!NotMoved)
  <2>. SUFFICES ASSUME c8.at = "done", c6
                PROVE  /\ c8.place = Card!Submitted /\ c4.notes \in {c3, c1.notes}
                       /\ c1.at = Card!Submitted \/ (c8.place = Home /\ Card!NotMoved)
    OBVIOUS
  <2>1. /\ c8.place = Card!Submitted
        /\ c8.notes = IF c4.notes = c3 THEN NoNotes ELSE c4.notes
        /\ c8.notes \in {NoNotes, c1.notes}
        /\ c1.at = c8.place \/ (c8.place = Home /\ Card!NotMoved)
    BY DEF Card!EditorInv, Card!Carried
  <2>2. c4.notes = NoNotes => c3 = NoNotes
    BY DEF Card!EditorInv, Card!NothingLeft
  <2>. QED BY <2>1, <2>2
<1>6. ~c6 /\ ~c12 => Card!Kept(c4)
  <2>1. ~c6 /\ ~c12 => Card!Submitted = c2 /\ c4.notes = c3
    BY <1>1, FilledIsTheModel DEF Card!EditorInv, Card!Carried
  <2>. QED BY <2>1 DEF Card!Kept, Card!Submitted
<1>7. Card!NothingLeft'
  <2>1. ~c6' /\ ~c11' /\ ~c12' /\ ~c9' => Card!Kept(c4)
    BY <1>1, <1>5, <1>6 DEF Card!Kept, Card!Submitted
  <2>. QED BY <1>1, <2>1 DEF Card!EditorInv, Card!NothingLeft, Card!Kept, Card!Content
<1>8. Card!NotMoved => c1.at.name # c2.name \/ c1.at = c2
  BY <1>1 DEF Card!NotMoved, Card!Places
<1>9. Card!LeavesNothing
  <2>. SUFFICES ASSUME c6, c8.at # "failed"
                PROVE  \/ c1.at.name # Card!Submitted.name /\ c1.at.name # c2.name
                       \/ c1.at = Card!Submitted /\ c4.notes \in {c3, c1.notes}
    BY DEF Card!LeavesNothing
  <2>1. c8.at = "done"  BY <1>1
  <2>. QED BY <1>1, <1>5, <1>8, <2>1
<1>. QED
  BY <1>1, <1>2, <1>4, <1>7, <1>9, CancelGivesUpNothing
     DEF Card!EditorInv, Card!SavesTheEdits, Card!SendsOnlyEdits, Card!NoPut

\* Another hand renames the file.
LEMMA MoveKeeps ==
  ASSUME Card!EditorAssumption, Card!EditorInv, NEW n \in Names, Card!MovedElsewhere(n)
  PROVE  Card!EditorInv' /\ Card!SavesTheEdits
<1>1. /\ c1' = [c1 EXCEPT !.at.name = n] /\ c1.at = Home /\ Home \in Card!Places
      /\ c1 \in [at : Card!Places, notes : Notes]
      /\ UNCHANGED <<c2, c3, c4, c5, c6, c7, c8, c9, c10, c11, c12>>
  BY DEF Card!MovedElsewhere, Card!EditorInv, Card!TypeOK, Card!EditorAssumption, Card!fields,
    Card!history
<1>2. /\ c1'.at = [Home EXCEPT !.name = n] /\ c1'.notes = c1.notes
      /\ c1' \in [at : Card!Places, notes : Notes]
  BY <1>1 DEF Card!Places
<1>3. Card!NotMoved'
  BY <1>2 DEF Card!NotMoved
<1>4. Card!TypeOK'
  BY <1>1, <1>2 DEF Card!EditorInv, Card!TypeOK
<1>5. c8.at = "done" => c8.place = Home
  BY <1>1 DEF Card!EditorInv, Card!Carried
<1>6. Card!Carried'
  BY <1>1, <1>2, <1>3, <1>5 DEF Card!EditorInv, Card!Carried, Card!Submitted, Card!Content
<1>7. Card!NothingLeft'
  BY <1>1, <1>2 DEF Card!EditorInv, Card!NothingLeft, Card!Content, Card!Kept
<1>. QED
  BY <1>1, <1>4, <1>6, <1>7, CancelGivesUpNothing
     DEF Card!EditorInv, Card!SavesTheEdits, Card!SendsOnlyEdits, Card!LeavesNothing
\* What the properties say holds of every step of the editor.
LEMMA EditorStep ==
  ASSUME Card!EditorAssumption, Card!EditorInv, [Card!Next]_(Card!editorVars)
  PROVE  Card!EditorInv' /\ Card!SavesTheEdits
<1>0. /\ c4 \in Card!Forms /\ c1 \in [at : Card!Places, notes : Notes]
      /\ c3 \in Notes \cup {NoNotes} /\ c7 \in BOOLEAN /\ NoNotes \notin Notes
  BY DEF Card!EditorInv, Card!TypeOK, Card!EditorAssumption
<1>1. CASE Card!Edit
  <2>1. /\ ~c9 /\ c8.at = "none" /\ ~c6 /\ c6' = TRUE /\ c5' = c4
        /\ UNCHANGED <<c1, c2, c3, c4, c7, c8, c9, c10, c11, c12>>
    BY <1>1 DEF Card!Edit, Card!Idle, Card!history
  <2>2. Card!TypeOK'  BY <2>1 DEF Card!EditorInv, Card!TypeOK
  <2>3. Card!Carried'
    BY <2>1 DEF Card!EditorInv, Card!Carried, Card!NotMoved
  <2>4. Card!NothingLeft'
    BY <2>1 DEF Card!EditorInv, Card!NothingLeft, Card!Kept, Card!Content
  <2>. QED
    BY <2>1, <2>2, <2>3, <2>4, CancelGivesUpNothing
       DEF Card!EditorInv, Card!SavesTheEdits, Card!SendsOnlyEdits, Card!LeavesNothing
<1>2. CASE Card!Cancel
  <2>1. Card!ResetTo(Filled(c3)) /\ ~c9 /\ UNCHANGED <<c1, c2, c3, c7, c8, c9>>
    BY <1>2 DEF Card!Cancel, Card!Idle, Card!Content, Filled
  <2>. QED BY <1>0, <2>1, ResetKeeps
<1>3. CASE Card!Save
  BY <1>3, SaveKeeps
<1>4. CASE \E t \in Kinds : Card!SetType(t)
  <2>1. PICK t \in Kinds : Card!SetType(t)  BY <1>4
  <2>2. 0 \in 0..Roots - 1
    BY <1>0 DEF Card!Forms, Card!Places, Card!EditorAssumption
  <2>3. [c4 EXCEPT !.at.type = t, !.at.index = 0] \in Card!Forms
    BY <1>0, <2>2 DEF Card!Forms, Card!Places
  <2>. QED BY <1>0, <2>1, <2>3, ChangeKeeps DEF Card!SetType, Card!Forms
<1>5. CASE \E i \in 0..Roots - 1, s \in {<<>>} \cup {<<x>> : x \in Segments} : Card!PickFolder(i, s)
  <2>1. PICK i \in 0..Roots - 1, s \in {<<>>} \cup {<<x>> : x \in Segments} : Card!PickFolder(i, s)
    BY <1>5
  <2>2. s \in Card!Folders  BY DEF Card!Folders
  <2>3. [c4 EXCEPT !.at.index = i, !.at.sub = s] \in Card!Forms
    BY <1>0, <2>2 DEF Card!Forms, Card!Places
  <2>. QED BY <1>0, <2>1, <2>3, ChangeKeeps DEF Card!PickFolder, Card!Forms
<1>6. CASE \E p \in {<<>>} \cup {<<x>> : x \in Segments}, n \in Names : Card!SetName(p, n)
  <2>1. PICK p \in {<<>>} \cup {<<x>> : x \in Segments}, n \in Names : Card!SetName(p, n)
    BY <1>6
  <2>2. p \in Card!Folders  BY DEF Card!Folders
  <2>3. [c4 EXCEPT !.prefix = p, !.at.name = n] \in Card!Forms
    BY <1>0, <2>2 DEF Card!Forms, Card!Places
  <2>. QED BY <1>0, <2>1, <2>3, ChangeKeeps DEF Card!SetName, Card!Forms
<1>7. CASE \E d \in Notes : Card!SetNotes(d)
  <2>1. PICK d \in Notes : Card!SetNotes(d)  BY <1>7
  <2>2. [c4 EXCEPT !.notes = d] \in Card!Forms
    BY <1>0 DEF Card!Forms
  <2>. QED BY <1>0, <2>1, <2>2, ChangeKeeps DEF Card!SetNotes, Card!Forms
<1>8. CASE Card!SaveLands
  BY <1>8, LandsKeeps
<1>9. CASE Card!SaveFails
  <2>1. /\ c8.at = "sent" /\ c8' = [c8 EXCEPT !.at = "failed"]
        /\ UNCHANGED <<c1, c2, c3, c4, c5, c6, c7, c9, c10, c11, c12>>
        /\ c8 \in [at : {"none", "sent", "done", "failed"}, place : Card!Places,
             notes : Notes \cup {NoNotes}]
    BY <1>9 DEF Card!SaveFails, Card!EditorInv, Card!Carried, Card!fields, Card!history
  <2>2. /\ c8'.at = "failed" /\ c8'.place = c8.place /\ c8'.notes = c8.notes
        /\ c8' \in [at : {"none", "sent", "done", "failed"}, place : Card!Places,
             notes : Notes \cup {NoNotes}]
    BY <2>1
  <2>3. Card!TypeOK'  BY <2>1, <2>2 DEF Card!EditorInv, Card!TypeOK
  <2>4. Card!Carried'
    BY <2>1, <2>2 DEF Card!EditorInv, Card!Carried, Card!NotMoved, Card!Submitted, Card!Content
  <2>5. Card!NothingLeft'
    BY <2>1, <2>2 DEF Card!EditorInv, Card!NothingLeft, Card!Kept, Card!Content
  <2>. QED
    BY <2>1, <2>3, <2>4, <2>5, CancelGivesUpNothing
       DEF Card!EditorInv, Card!SavesTheEdits, Card!SendsOnlyEdits, Card!LeavesNothing
<1>10. CASE Card!SaveAnswered
  BY <1>10, AnswerKeeps
<1>11. CASE \E n \in Names : Card!MovedElsewhere(n)
  BY <1>11, MoveKeeps
<1>12. CASE Card!ExtraArrives
  <2>1. /\ Card!ResetTo(Filled(c1.notes)) /\ ~c9 /\ c3' = c1.notes
        /\ UNCHANGED <<c1, c2, c7, c8, c9>>
    BY <1>12 DEF Card!ExtraArrives, Card!Content, Filled
  <2>. QED BY <1>0, <2>1, ResetKeeps
<1>13. CASE Card!ScanLands /\ c7 /\ c1.at = c2
  <2>1. /\ Card!ResetTo(Filled(c3)) /\ ~c9 /\ c7' = FALSE
        /\ UNCHANGED <<c1, c2, c3, c8, c9>>
    BY <1>13 DEF Card!ScanLands, Card!Content, Filled
  <2>. QED BY <1>0, <2>1, ResetKeeps
<1>14. CASE UNCHANGED Card!editorVars
  <2>1. UNCHANGED <<c1, c2, c3, c4, c5, c6, c7, c8, c9, c10, c11, c12>>
    BY <1>14 DEF Card!editorVars, Card!fields, Card!history
  <2>2. Card!TypeOK'  BY <2>1 DEF Card!EditorInv, Card!TypeOK
  <2>3. Card!Carried'
    BY <2>1 DEF Card!EditorInv, Card!Carried, Card!NotMoved, Card!Submitted, Card!Content
  <2>4. Card!NothingLeft'
    BY <2>1 DEF Card!EditorInv, Card!NothingLeft, Card!Kept, Card!Content
  <2>. QED
    BY <2>1, <2>2, <2>3, <2>4, CancelGivesUpNothing
       DEF Card!EditorInv, Card!SavesTheEdits, Card!SendsOnlyEdits, Card!LeavesNothing
<1>15. CASE Card!ScanLands /\ ~(c7 /\ c1.at = c2)
  BY <1>14, <1>15 DEF Card!ScanLands, Card!editorVars
<1>. QED
  BY <1>1, <1>2, <1>3, <1>4, <1>5, <1>6, <1>7, <1>8, <1>9, <1>10, <1>11, <1>12, <1>13, <1>14,
     <1>15 DEF Card!Next
\* A window opens on what the listing has.
LEMMA EditorStart ==
  ASSUME Card!EditorAssumption, Card!Init
  PROVE  Card!EditorInv
<1>1. /\ c1 \in [at : {Home}, notes : Notes] /\ c2 = Home /\ Home \in Card!Places /\ c3 = NoNotes
      /\ c4 = Card!Content /\ c5 = Card!Content /\ c6 = FALSE /\ c7 = FALSE
      /\ c8 = Card!NoPut /\ c9 = FALSE /\ c10 = FALSE /\ c11 = FALSE /\ c12 = FALSE
  BY DEF Card!Init, Card!EditorAssumption
<1>2. Card!Content \in Card!Forms
  BY <1>1 DEF Card!Content, Card!Forms, Card!Folders
<1>3. Card!TypeOK
  BY <1>1, <1>2 DEF Card!TypeOK, Card!NoPut
<1>4. Card!NotMoved
  <2>1. c1.at = Home /\ Home.name \in Names /\ Home = [Home EXCEPT !.name = Home.name]
    BY <1>1 DEF Card!Places
  <2>. QED BY <2>1 DEF Card!NotMoved
<1>5. Card!Carried
  BY <1>1, <1>4 DEF Card!Carried, Card!NoPut
<1>6. Card!NothingLeft
  <2>1. Card!Submitted = c2 /\ c4.notes = c3  BY <1>1, FilledIsTheModel
  <2>. QED BY <1>1, <2>1 DEF Card!NothingLeft, Card!Kept, Card!Submitted
<1>. QED BY <1>1, <1>3, <1>5, <1>6 DEF Card!EditorInv

-----------------------------------------------------------------------------
(* The gallery.  Its content is c1, the page c2, the ring c3. *)

Pictures == Album!Range(Saved) \cup Local

\* A sequence without one of its entries.
LEMMA OneRemoved ==
  ASSUME NEW S, NEW s \in Seq(S), NEW k \in 1..Len(s)
  PROVE  /\ Album!RemoveAt(s, k) \in Seq(S) /\ Len(Album!RemoveAt(s, k)) = Len(s) - 1
         /\ \A j \in 1..Len(s) - 1 :
              Album!RemoveAt(s, k)[j] = IF j < k THEN s[j] ELSE s[j + 1]
<1>. DEFINE a == SubSeq(s, 1, k - 1)
            b == SubSeq(s, k + 1, Len(s))
<1>1. Len(s) \in Nat /\ k \in Nat /\ 1 <= k /\ k <= Len(s)
  OBVIOUS
<1>2. a \in Seq(S) /\ Len(a) = k - 1 /\ \A j \in 1..k - 1 : a[j] = s[j]
  BY <1>1
<1>3. b \in Seq(S) /\ Len(b) = Len(s) - k /\ \A j \in 1..Len(s) - k : b[j] = s[j + k]
  BY <1>1
<1>. HIDE DEF a, b
<1>4. /\ a \o b \in Seq(S) /\ Len(a \o b) = Len(s) - 1
      /\ \A j \in 1..Len(s) - 1 : (a \o b)[j] = IF j < k THEN s[j] ELSE s[j + 1]
  <2>1. a \o b \in Seq(S) /\ Len(a \o b) = Len(s) - 1
    <3>1. a \o b \in Seq(S) /\ Len(a \o b) = Len(a) + Len(b)
      BY <1>2, <1>3, ConcatProperties
    <3>. QED BY <1>1, <1>2, <1>3, <3>1
  <2>2. ASSUME NEW j \in 1..Len(s) - 1
        PROVE  (a \o b)[j] = IF j < k THEN s[j] ELSE s[j + 1]
    <3>1. CASE j < k
      <4>1. (a \o b)[j] = a[j]  BY <1>1, <1>2, <1>3, <3>1
      <4>. QED BY <1>1, <1>2, <3>1, <4>1
    <3>2. CASE ~(j < k)
      <4>1. (a \o b)[j] = b[j - (k - 1)]  BY <1>1, <1>2, <1>3, <3>2
      <4>2. j - (k - 1) \in 1..Len(s) - k  BY <1>1, <3>2
      <4>3. b[j - (k - 1)] = s[j - (k - 1) + k]  BY <1>3, <4>2
      <4>4. j - (k - 1) + k = j + 1  BY <1>1
      <4>. QED BY <3>2, <4>1, <4>3, <4>4
    <3>. QED BY <1>1, <3>1, <3>2
  <2>. QED BY <2>1, <2>2
<1>. QED BY <1>4 DEF a, b, Album!RemoveAt

\* The entry put first: it is the first, and all are there.
LEMMA PutFirst ==
  ASSUME NEW S, NEW s \in Seq(S), NEW k \in 1..Len(s)
  PROVE  LET t == IF k > 1 THEN <<s[k]>> \o Album!RemoveAt(s, k) ELSE s
         IN  Head(t) = s[k] /\ Album!ToSet(t) = Album!ToSet(s)
<1>. DEFINE r == Album!RemoveAt(s, k)
            t == IF k > 1 THEN <<s[k]>> \o r ELSE s
<1>1. Len(s) \in Nat /\ k \in Nat /\ 1 <= k /\ k <= Len(s)
  OBVIOUS
<1>2. CASE k = 1
  BY <1>1, <1>2
<1>3. CASE k > 1
  <2>1. /\ r \in Seq(S) /\ Len(r) = Len(s) - 1
        /\ \A j \in 1..Len(s) - 1 : r[j] = IF j < k THEN s[j] ELSE s[j + 1]
    BY OneRemoved
  <2>. HIDE DEF r
  <2>2. /\ t \in Seq(S) /\ Len(t) = Len(s) /\ t[1] = s[k]
        /\ \A j \in 1..Len(s) - 1 : t[j + 1] = r[j]
    BY <1>1, <1>3, <2>1
  <2>. HIDE DEF t
  <2>3. ASSUME NEW j \in 1..Len(s)  PROVE \E i \in 1..Len(s) : t[j] = s[i]
    <3>1. CASE j = 1  BY <1>1, <2>2, <3>1
    <3>2. CASE j > 1
      <4>1. j - 1 \in 1..Len(s) - 1 /\ t[j] = r[j - 1]  BY <2>2, <3>2
      <4>2. r[j - 1] = s[j - 1] \/ r[j - 1] = s[j - 1 + 1]  BY <2>1, <4>1
      <4>3. j - 1 \in 1..Len(s) /\ j - 1 + 1 \in 1..Len(s)  BY <1>1, <4>1
      <4>. QED BY <4>1, <4>2, <4>3
    <3>. QED BY <3>1, <3>2
  <2>4. ASSUME NEW i \in 1..Len(s)  PROVE \E j \in 1..Len(s) : t[j] = s[i]
    <3>1. CASE i = k  BY <1>1, <2>2, <3>1
    <3>2. CASE i < k
      <4>0. i \in 1..Len(s) - 1  BY <1>1, <3>2
      <4>1. r[i] = s[i] /\ t[i + 1] = r[i]  BY <2>1, <2>2, <3>2, <4>0
      <4>. QED BY <1>1, <3>2, <4>1
    <3>3. CASE i > k
      <4>0. i - 1 \in 1..Len(s) - 1 /\ ~(i - 1 < k) /\ i - 1 + 1 = i  BY <1>1, <3>3
      <4>1. r[i - 1] = s[i - 1 + 1] /\ t[i - 1 + 1] = r[i - 1]  BY <2>1, <2>2, <4>0
      <4>. QED BY <4>0, <4>1
    <3>. QED BY <1>1, <3>1, <3>2, <3>3
  <2>5. Head(t) = s[k]  BY <1>1, <2>2
  <2>6. Album!ToSet(t) = Album!ToSet(s)
    <3>1. DOMAIN t = 1..Len(s) /\ DOMAIN s = 1..Len(s)  BY <2>2
    <3>2. Album!ToSet(t) = {t[j] : j \in 1..Len(s)} /\ Album!ToSet(s) = {s[j] : j \in 1..Len(s)}
      BY <3>1 DEF Album!ToSet
    <3>3. Album!ToSet(t) \subseteq Album!ToSet(s)  BY <2>3, <3>2
    <3>4. Album!ToSet(s) \subseteq Album!ToSet(t)  BY <2>4, <3>2
    <3>. QED BY <3>3, <3>4
  <2>. QED BY <2>5, <2>6 DEF t, r
<1>. QED BY <1>1, <1>2, <1>3
\* An index that counts from 0, and the same that counts from 1.
LEMMA FromOne ==
  ASSUME NEW n \in Nat, NEW r \in Nat, r < n
  PROVE  r + 1 \in 1..n /\ (r + 1 > 1 <=> r > 0)
OBVIOUS

\* The last index of n entries once one of them has gone, and the index then of the
\* entry that had r, or of another if that was the one.
LeftOf(n) == IF n = 1 THEN 0 ELSE n - 2
IndexAfter(r, i, n) ==
  IF r > i THEN r - 1 ELSE IF r < LeftOf(n) THEN r ELSE LeftOf(n)

\* An image has the index the code computes after another entry has gone.
LEMMA StillThere ==
  ASSUME NEW S, NEW s \in Seq(S), Album!IsInjective(s), NEW i \in 0..Len(s) - 1, NEW r \in Nat
  PROVE  LET u == Album!RemoveAt(s, i + 1)
             q == IndexAfter(r, i, Len(s))
         IN  /\ u \in Seq(S) /\ Album!IsInjective(u) /\ LeftOf(Len(s)) \in Nat /\ q \in Nat
             /\ r < Len(s) /\ s[r + 1] \in Album!Range(u) => q < Len(u) /\ u[q + 1] = s[r + 1]
<1>. DEFINE u    == Album!RemoveAt(s, i + 1)
            left == LeftOf(Len(s))
            q    == IndexAfter(r, i, Len(s))
<1>0. /\ left = IF Len(s) = 1 THEN 0 ELSE Len(s) - 2
      /\ q = IF r > i THEN r - 1 ELSE IF r < left THEN r ELSE left
  BY DEF LeftOf, IndexAfter
<1>1. Len(s) \in Nat /\ i \in Nat /\ i < Len(s) /\ i + 1 \in 1..Len(s)
  OBVIOUS
<1>2. /\ u \in Seq(S) /\ Len(u) = Len(s) - 1
      /\ \A j \in 1..Len(s) - 1 : u[j] = IF j < i + 1 THEN s[j] ELSE s[j + 1]
  BY <1>1, OneRemoved
<1>. HIDE DEF u, left, q
<1>7. left \in Nat /\ q \in Nat
  <2>1. \A n \in Nat : i < n => (IF n = 1 THEN 0 ELSE n - 2) \in Nat  BY <1>1
  <2>2. left \in Nat  BY <1>0, <1>1, <2>1
  <2>. QED BY <1>0, <1>1, <2>2
<1>3. \A a, b \in 1..Len(s) : s[a] = s[b] => a = b
  BY DEF Album!IsInjective
<1>4. \A j \in 1..Len(s) - 1 :
        \/ j < i + 1 /\ j \in 1..Len(s) /\ u[j] = s[j]
        \/ j >= i + 1 /\ j + 1 \in 1..Len(s) /\ u[j] = s[j + 1]
  BY <1>1, <1>2
<1>5. Album!IsInjective(u)
  <2>1. DOMAIN u = 1..Len(s) - 1  BY <1>1, <1>2
  <2>2. ASSUME NEW a \in 1..Len(s) - 1, NEW b \in 1..Len(s) - 1, u[a] = u[b]  PROVE a = b
    <3>. DEFINE f(j) == IF j < i + 1 THEN j ELSE j + 1
    <3>1. f(a) \in 1..Len(s) /\ f(b) \in 1..Len(s) /\ s[f(a)] = s[f(b)]
      BY <1>1, <1>4, <2>2
    <3>2. f(a) = f(b)  BY <1>3, <3>1
    <3>. QED BY <1>1, <3>2
  <2>. QED BY <2>1, <2>2 DEF Album!IsInjective
<1>6. ASSUME r < Len(s), s[r + 1] \in Album!Range(u)
      PROVE  q < Len(u) /\ u[q + 1] = s[r + 1]
  <2>1. r # i
    <3>1. PICK j \in 1..Len(s) - 1 : u[j] = s[r + 1]
      BY <1>1, <1>2, <1>6 DEF Album!Range
    <3>2. r + 1 \in 1..Len(s)  BY <1>1, <1>6
    <3>3. CASE j < i + 1
      <4>1. j \in 1..Len(s) /\ s[j] = s[r + 1]  BY <1>4, <3>1, <3>3
      <4>2. j = r + 1  BY <1>3, <3>2, <4>1
      <4>. QED BY <1>1, <3>3, <4>2
    <3>4. CASE j >= i + 1
      <4>1. j + 1 \in 1..Len(s) /\ s[j + 1] = s[r + 1]  BY <1>4, <3>1, <3>4
      <4>2. j + 1 = r + 1  BY <1>3, <3>2, <4>1
      <4>. QED BY <1>1, <3>4, <4>2
    <3>. QED BY <1>1, <3>3, <3>4
  <2>2. CASE r > i
    <3>1. q = r - 1 /\ q + 1 = r /\ r \in 1..Len(s) - 1 /\ ~(r < i + 1)
      BY <1>0, <1>1, <1>6, <2>2
    <3>. QED BY <1>1, <1>2, <3>1
  <2>3. CASE r < i
    <3>0. Len(s) # 1 /\ r <= Len(s) - 2
      <4>1. \A n, a, b \in Nat : a < b /\ b < n => n # 1 /\ a <= n - 2  OBVIOUS
      <4>. QED BY <1>1, <2>3, <4>1
    <3>1. left = Len(s) - 2 /\ r <= left  BY <1>0, <3>0
    <3>2. q = r /\ r + 1 \in 1..Len(s) - 1 /\ r + 1 < i + 1
      BY <1>0, <1>1, <1>7, <2>3, <3>0, <3>1
    <3>3. u[r + 1] = s[r + 1] /\ r < Len(u)  BY <1>1, <1>2, <3>2
    <3>. QED BY <3>2, <3>3
  <2>. QED BY <1>1, <2>1, <2>2, <2>3
<1>. QED BY <1>2, <1>5, <1>6, <1>7 DEF u, left, q

\* Files that are added come after all the others.
LEMMA Joined ==
  ASSUME NEW S, NEW s \in Seq(S), Album!IsInjective(s),
         NEW d \in Seq(S), Album!IsInjective(d), Album!Range(d) \cap Album!Range(s) = {}
  PROVE  /\ s \o d \in Seq(S) /\ Len(s \o d) = Len(s) + Len(d) /\ Album!IsInjective(s \o d)
         /\ \A r \in 0..Len(s) - 1 : (s \o d)[r + 1] = s[r + 1]
<1>. DEFINE u == s \o d
<1>1. /\ u \in Seq(S) /\ Len(u) = Len(s) + Len(d)
      /\ \A j \in 1..Len(s) + Len(d) : u[j] = IF j <= Len(s) THEN s[j] ELSE d[j - Len(s)]
  BY ConcatProperties
<1>. HIDE DEF u
<1>2. Len(s) \in Nat /\ Len(d) \in Nat /\ DOMAIN s = 1..Len(s) /\ DOMAIN d = 1..Len(d)
  OBVIOUS
<1>3. \A j \in 1..Len(u) :
        \/ j \in DOMAIN s /\ u[j] = s[j]
        \/ j - Len(s) \in DOMAIN d /\ u[j] = d[j - Len(s)] /\ j > Len(s)
  BY <1>1, <1>2
<1>4. ASSUME NEW a \in DOMAIN s, NEW b \in DOMAIN d  PROVE s[a] # d[b]
  BY DEF Album!Range
<1>5. ASSUME NEW a \in 1..Len(u), NEW b \in 1..Len(u), u[a] = u[b]  PROVE a = b
  <2>1. CASE a \in DOMAIN s /\ u[a] = s[a] /\ b \in DOMAIN s /\ u[b] = s[b]
    BY <1>5, <2>1 DEF Album!IsInjective
  <2>2. CASE /\ a - Len(s) \in DOMAIN d /\ u[a] = d[a - Len(s)]
             /\ b - Len(s) \in DOMAIN d /\ u[b] = d[b - Len(s)]
    <3>1. a - Len(s) = b - Len(s)
      BY <1>5, <2>2 DEF Album!IsInjective
    <3>. QED BY <1>1, <1>2, <3>1
  <2>. QED BY <1>3, <1>4, <1>5, <2>1, <2>2
<1>6. Album!IsInjective(u)
  <2>1. DOMAIN u = 1..Len(u)  BY <1>1
  <2>. QED BY <1>5, <2>1 DEF Album!IsInjective
<1>7. \A r \in 0..Len(s) - 1 : u[r + 1] = s[r + 1]
  BY <1>1, <1>2
<1>. QED BY <1>1, <1>6, <1>7 DEF u

\* While the ring is on the image it was on, a save submits that one first, and all.
LEMMA RingIsSubmitted ==
  ASSUME Album!GalleryInv', c3' < Len(c1'), c1'[c3' + 1] = c1[c3 + 1]
  PROVE  Head(Album!Submitted') = Album!At(c3) /\ Album!ToSet(Album!Submitted') = Album!ToSet(c1')
<1>. DEFINE s == c1'
            k == c3' + 1
<1>1. s \in Seq(Pictures) /\ c3' \in Nat
  BY DEF Album!GalleryInv, Pictures
<1>2. k \in 1..Len(s) /\ (k > 1 <=> c3' > 0)
  <2>1. Len(s) \in Nat /\ c3' \in Nat /\ c3' < Len(s)  BY <1>1
  <2>. QED BY <2>1, FromOne
<1>3. Album!Submitted' = IF k > 1 THEN <<s[k]>> \o Album!RemoveAt(s, k) ELSE s
  BY <1>2, Zenon DEF Album!Submitted, Album!Count, Album!At
<1>. HIDE DEF s, k
<1>4. /\ Head(IF k > 1 THEN <<s[k]>> \o Album!RemoveAt(s, k) ELSE s) = s[k]
      /\ Album!ToSet(IF k > 1 THEN <<s[k]>> \o Album!RemoveAt(s, k) ELSE s) = Album!ToSet(s)
  BY <1>1, <1>2, PutFirst
<1>. QED BY <1>3, <1>4 DEF s, k, Album!At

\* Two neighbours change places, and the ring goes with its image.
LEMMA GalleryMoves ==
  ASSUME Album!GalleryInv, NEW i \in 0..Len(c1) - 1, NEW target \in 0..Len(c1) - 1,
         Album!MovePreview(i, target)
  PROVE  Album!GalleryInv' /\ Album!PrimaryKept
<1>1. /\ c1 \in Seq(Pictures) /\ Len(c1) \in Nat /\ c3 \in Nat
      /\ \A a, b \in 1..Len(c1) : c1[a] = c1[b] => a = b
  BY DEF Album!GalleryInv, Album!IsInjective, Pictures
<1>2. /\ i + 1 \in 1..Len(c1) /\ target + 1 \in 1..Len(c1)
      /\ c1' = [c1 EXCEPT ![i + 1] = c1[target + 1], ![target + 1] = c1[i + 1]]
      /\ c2' = target /\ c3' = IF c3 = i THEN target ELSE IF c3 = target THEN i ELSE c3
  BY <1>1 DEF Album!MovePreview, Album!RingMoved, Album!At
<1>3. c1' \in Seq(Pictures) /\ Len(c1') = Len(c1)
  BY <1>1, <1>2
<1>4. \A a \in 1..Len(c1) :
        c1'[a] = IF a = target + 1 THEN c1[i + 1] ELSE IF a = i + 1 THEN c1[target + 1] ELSE c1[a]
  BY <1>1, <1>2
<1>5. \A a, b \in 1..Len(c1') : c1'[a] = c1'[b] => a = b
  BY <1>1, <1>2, <1>3, <1>4
<1>6. Album!GalleryInv'
  BY <1>1, <1>2, <1>3, <1>5 DEF Album!GalleryInv, Album!IsInjective, Pictures
<1>7. c3 < Len(c1) => c3' < Len(c1') /\ c1'[c3' + 1] = c1[c3 + 1]
  BY <1>1, <1>2, <1>3, <1>4
<1>. QED BY <1>6, <1>7, RingIsSubmitted DEF Album!PrimaryKept, Album!Count

\* An image goes; the ring stays on its own, if that was another.
LEMMA GalleryLoses ==
  ASSUME Album!GalleryInv, NEW i \in 0..Len(c1) - 1, Album!RemovePreview(i)
  PROVE  Album!GalleryInv' /\ Album!PrimaryKept
<1>1. c1 \in Seq(Pictures) /\ Album!IsInjective(c1) /\ c3 \in Nat /\ c2 \in Nat
  BY DEF Album!GalleryInv, Pictures
<1>2. /\ c1' = Album!RemoveAt(c1, i + 1)
      /\ c2' = (IF c2 < LeftOf(Len(c1)) THEN c2 ELSE LeftOf(Len(c1)))
      /\ c3' = IndexAfter(c3, i, Len(c1))
  BY DEF Album!RemovePreview, Album!Min0, Album!Count, LeftOf, IndexAfter
<1>3. /\ c1' \in Seq(Pictures) /\ Album!IsInjective(c1') /\ c2' \in Nat /\ c3' \in Nat
      /\ c3 < Len(c1) /\ c1[c3 + 1] \in Album!Range(c1') =>
           c3' < Len(c1') /\ c1'[c3' + 1] = c1[c3 + 1]
  BY <1>1, <1>2, StillThere
<1>4. Album!GalleryInv'
  BY <1>3 DEF Album!GalleryInv, Pictures, Album!IsInjective
<1>. QED BY <1>3, <1>4, RingIsSubmitted DEF Album!PrimaryKept, Album!Count, Album!At

\* Files are added behind the others.
LEMMA GalleryGrows ==
  ASSUME Album!GalleryAssumption, Album!GalleryInv, NEW S \in SUBSET Local,
         NEW files \in Album!SetToSeqs(S), Album!AddLocal(files)
  PROVE  Album!GalleryInv' /\ Album!PrimaryKept
<1>1. c1 \in Seq(Pictures) /\ Album!IsInjective(c1) /\ c3 \in Nat /\ Len(c1) \in Nat
  BY DEF Album!GalleryInv, Pictures
<1>2. Cardinality(S) \in Nat
  <2>1. IsFiniteSet(Local)  BY DEF Album!GalleryAssumption, Album!IsFiniteSet, IsFiniteSet
  <2>2. IsFiniteSet(S)  BY <2>1, FS_Subset
  <2>. QED BY <2>2, FS_CardinalityType
<1>3. /\ files \in [1..Cardinality(S) -> S]
      /\ \A a, b \in 1..Cardinality(S) : a # b => files[a] # files[b]
  BY DEF Album!SetToSeqs, Album!Cardinality, Cardinality
<1>4. files \in Seq(Pictures) /\ Album!IsInjective(files) /\ Len(files) \in Nat
  <2>1. files \in Seq(Pictures) /\ Len(files) \in Nat
    BY <1>2, <1>3 DEF Pictures
  <2>2. DOMAIN files = 1..Cardinality(S)  BY <1>3
  <2>. QED BY <1>3, <2>1, <2>2, Zenon DEF Album!IsInjective
<1>5. /\ files # <<>> /\ Album!Range(files) \cap Album!Range(c1) = {}
      /\ c1' = c1 \o files /\ c2' = Len(c1') - 1 /\ c3' = c3
  BY DEF Album!AddLocal, Album!Count
<1>6. Len(files) > 0
  BY <1>4, <1>5
<1>7. /\ c1' \in Seq(Pictures) /\ Len(c1') = Len(c1) + Len(files) /\ Album!IsInjective(c1')
      /\ \A r \in 0..Len(c1) - 1 : c1'[r + 1] = c1[r + 1]
  BY <1>1, <1>4, <1>5, Joined
<1>8. c2' \in Nat
  <2>1. \A a, b \in Nat : b > 0 => a + b - 1 \in Nat  OBVIOUS
  <2>. QED BY <1>1, <1>4, <1>5, <1>6, <1>7, <2>1
<1>9. Album!GalleryInv'
  BY <1>1, <1>5, <1>7, <1>8 DEF Album!GalleryInv, Pictures, Album!IsInjective
<1>10. c3 < Len(c1) => c3' < Len(c1') /\ c1'[c3' + 1] = c1[c3 + 1]
  <2>1. \A a, b, r \in Nat : r < a => r < a + b /\ r \in 0..a - 1  OBVIOUS
  <2>. QED BY <1>1, <1>4, <1>5, <1>7, <2>1
<1>. QED BY <1>9, <1>10, RingIsSubmitted DEF Album!PrimaryKept, Album!Count
\* A step of the gallery that is neither a pick nor a page leaves the ring on its image.
LEMMA GalleryStep ==
  ASSUME Album!GalleryAssumption, Album!GalleryInv, Album!Next
  PROVE  Album!GalleryInv' /\ Album!PrimaryKept
<1>1. c1 \in Seq(Pictures) /\ c2 \in Nat /\ c3 \in Nat /\ Len(c1) \in Nat
  BY DEF Album!GalleryInv, Pictures
<1>2. CASE Album!Edit
  BY <1>2 DEF Album!Edit, Album!GalleryInv, Album!PrimaryKept, Album!IsInjective
<1>3. CASE Album!Reset
  <2>1. c1' = Saved /\ c2' = 0 /\ c3' = 0 /\ c4' = FALSE  BY <1>3 DEF Album!Reset
  <2>2. Saved \in Seq(Album!Range(Saved) \cup Local) /\ Album!IsInjective(Saved)
    BY DEF Album!GalleryAssumption
  <2>. QED BY <2>1, <2>2 DEF Album!GalleryInv, Album!PrimaryKept, Album!IsInjective
<1>4. CASE \E delta \in {1, Album!Count - 1} : Album!StepPage(delta)
  <2>1. PICK delta \in {1, Album!Count - 1} : Album!StepPage(delta)  BY <1>4
  <2>2. /\ c2' = (Album!Shown + delta) % Len(c1) /\ Len(c1) > 1 /\ UNCHANGED c1
        /\ c3' = IF c4 THEN c2' ELSE c3
    BY <2>1 DEF Album!StepPage, Album!Count
  <2>3. Album!Shown + delta \in Int
    BY <1>1 DEF Album!Shown, Album!Count
  <2>4. c2' \in Nat
    BY <1>1, <2>2, <2>3
  <2>5. Album!GalleryInv'
    BY <1>1, <2>2, <2>4 DEF Album!GalleryInv, Album!IsInjective
  <2>. QED BY <1>4, <2>5 DEF Album!PrimaryKept
<1>5. CASE \E i \in 0..Album!Count - 1 : Album!PickPage(i)
  <2>1. PICK i \in 0..Album!Count - 1 : Album!PickPage(i)  BY <1>5
  <2>2. c2' \in Nat /\ c3' \in Nat /\ UNCHANGED c1
    BY <1>1, <2>1 DEF Album!PickPage, Album!Count
  <2>3. Album!GalleryInv'
    BY <2>2 DEF Album!GalleryInv, Album!IsInjective
  <2>. QED BY <1>5, <2>3 DEF Album!PrimaryKept
<1>6. CASE \E i \in 0..Album!Count - 1 : Album!RemovePreview(i)
  BY <1>6, GalleryLoses DEF Album!Count
<1>7. CASE \E i \in 0..Album!Count - 1 :
             \E target \in {i - 1, i + 1} \cap 0..Album!Count - 1 : Album!MovePreview(i, target)
  BY <1>7, GalleryMoves DEF Album!Count
<1>8. CASE \E S \in SUBSET Local : \E files \in Album!SetToSeqs(S) : Album!AddLocal(files)
  BY <1>8, GalleryGrows
<1>. QED
  BY <1>2, <1>3, <1>4, <1>5, <1>6, <1>7, <1>8 DEF Album!Next

-----------------------------------------------------------------------------
(* The saves *)

SavesInv ==
  /\ part = "editor" => Card!EditorInv
  /\ part = "gallery" => Album!GalleryInv

LEMMA SavesStart == Init => SavesInv
<1>1. ASSUME part = "gallery", Init  PROVE Album!GalleryInv
  <2>1. c1 = Saved /\ c2 = 0 /\ c3 = 0  BY <1>1 DEF Init, Album!Init
  <2>2. Saved \in Seq(Album!Range(Saved) \cup Local) /\ Album!IsInjective(Saved)
    BY ModelsAssumption DEF Album!GalleryAssumption
  <2>. QED BY <2>1, <2>2 DEF Album!GalleryInv
<1>2. ASSUME part = "editor", Init  PROVE Card!EditorInv
  BY <1>2, ModelsAssumption, EditorStart DEF Init
<1>. QED BY <1>1, <1>2 DEF SavesInv

LEMMA SavesStep ==
  ASSUME SavesInv, [Next]_vars
  PROVE  /\ SavesInv'
         /\ UNCHANGED vars \/ /\ part = "editor" => Card!SavesTheEdits
                              /\ part = "gallery" => Album!PrimaryKept
<1>1. part' = part  BY DEF Next, vars
<1>2. CASE part = "editor"
  <2>1. [Card!Next]_(Card!editorVars)
    BY <1>2 DEF Next, vars, Card!editorVars, Card!fields, Card!history
  <2>2. Card!EditorInv' /\ Card!SavesTheEdits
    BY <1>2, <2>1, ModelsAssumption, EditorStep DEF SavesInv
  <2>. QED BY <1>1, <1>2, <2>2 DEF SavesInv
<1>3. CASE part = "gallery" /\ Album!Next
  <2>1. Album!GalleryInv' /\ Album!PrimaryKept
    BY <1>3, ModelsAssumption, GalleryStep DEF SavesInv
  <2>. QED BY <1>1, <1>3, <2>1 DEF SavesInv
<1>4. CASE part = "gallery" /\ UNCHANGED vars
  <2>1. UNCHANGED <<c1, c2, c3>>  BY <1>4 DEF vars
  <2>2. Album!GalleryInv'
    BY <1>4, <2>1 DEF SavesInv, Album!GalleryInv, Album!IsInjective
  <2>. QED BY <1>1, <1>4, <2>2 DEF SavesInv
<1>5. CASE part \notin {"editor", "gallery"}
  BY <1>1, <1>5 DEF SavesInv
<1>6. part = "gallery" => Album!Next \/ UNCHANGED vars
  BY DEF Next
<1>. QED BY <1>2, <1>3, <1>4, <1>5, <1>6

\* A save sends what the user did to the form and no more, whatever resets, scans and
\* failed saves came in between, and the preview that had the ring first.
THEOREM SavesHold == Spec => SavesWhatIsShown
<1>1. SavesInv /\ [Next]_vars => SavesInv'  BY SavesStep
<1>2. SavesInv /\ [Next]_vars
        => [/\ part = "editor" => Card!SavesTheEdits
            /\ part = "gallery" => Album!PrimaryKept]_vars
  BY SavesStep
<1>. QED BY <1>1, <1>2, SavesStart, PTL DEF Spec, SavesWhatIsShown

-----------------------------------------------------------------------------
(* Numbers, places and ranks *)

\* Among some natural numbers there is a least one.  This is the induction of these
\* proofs: what fails for a number fails for a least number.
LEMMA Least ==
  ASSUME NEW N \in SUBSET Nat, N # {}
  PROVE  \E n \in N : \A m \in N : n <= m
<1>. DEFINE R == OpToRel(<, Nat)
<1>1. IsWellFoundedOn(R, Nat)  BY NatLessThanWellFounded
<1>2. \A m, n \in Nat : m < n => <<m, n>> \in R  BY DEF OpToRel
<1>. HIDE DEF R
<1>3. PICK n \in N : \A m \in N : ~ (<<m, n>> \in R)  BY <1>1, WFMin
<1>4. ASSUME NEW m \in N  PROVE n <= m
  <2>1. ~ (<<m, n>> \in R) /\ n \in Nat /\ m \in Nat  BY <1>3
  <2>2. ~ (m < n)  BY <1>2, <2>1
  <2>. QED BY <2>1, <2>2
<1>. QED BY <1>4

\* What holds of 0 and passes from a number to the next holds up to any number.
LEMMA Reaches ==
  ASSUME NEW N \in Nat, NEW T, 0 \in T, \A n \in 0..N : n < N /\ n \in T => n + 1 \in T
  PROVE  0..N \subseteq T
<1>. DEFINE Bad == {n \in 0..N : n \notin T}
<1>. SUFFICES ASSUME Bad # {}
              PROVE  FALSE
  OBVIOUS
<1>1. Bad \in SUBSET Nat  OBVIOUS
<1>2. PICK n \in Bad : \A m \in Bad : n <= m  BY <1>1, Least
<1>3. n \in Nat /\ n # 0 /\ n <= N  OBVIOUS
<1>4. n - 1 \in 0..N /\ n - 1 < N /\ n - 1 + 1 = n /\ ~(n <= n - 1)  BY <1>3
<1>5. n - 1 \notin Bad  BY <1>2, <1>4
<1>6. n \in T
  <2>1. n - 1 \in T  BY <1>4, <1>5
  <2>. QED BY <1>4, <2>1
<1>. QED BY <1>6

\* A loop: a value, and what each of N steps makes of it.
Runs(g, S, start, N, step) ==
  g \in [0..N -> S] /\ g[0] = start /\ \A n \in 1..N : g[n] = step[n][g[n - 1]]

LEMMA Loops ==
  ASSUME NEW S, NEW start \in S, NEW N \in Nat, NEW step \in [1..N -> [S -> S]]
  PROVE  \E g : Runs(g, S, start, N, step)
<1>. DEFINE Upto(m) == \E g \in [0..m -> S] :
                         g[0] = start /\ \A n \in 1..m : g[n] = step[n][g[n - 1]]
            T == {m \in 0..N : Upto(m)}
<1>1. Upto(0)
  <2>. DEFINE g == [n \in 0..0 |-> start]
  <2>1. g \in [0..0 -> S] /\ g[0] = start /\ 1..0 = {}  OBVIOUS
  <2>. QED BY <2>1
<1>2. ASSUME NEW m \in 0..N, m < N, Upto(m)  PROVE Upto(m + 1)
  <2>1. PICK g \in [0..m -> S] : g[0] = start /\ \A n \in 1..m : g[n] = step[n][g[n - 1]]
    BY <1>2
  <2>. DEFINE next == step[m + 1][g[m]]
              h == [n \in 0..m + 1 |-> IF n = m + 1 THEN next ELSE g[n]]
  <2>2. m \in Nat /\ m + 1 \in 1..N /\ m \in 0..m  BY <1>2
  <2>3. next \in S
    <3>1. g[m] \in S  BY <2>1, <2>2
    <3>2. step[m + 1] \in [S -> S]  BY <2>2
    <3>. QED BY <3>1, <3>2
  <2>. HIDE DEF next
  <2>4. h \in [0..m + 1 -> S] /\ h[m + 1] = next /\ \A n \in 0..m : h[n] = g[n]
    BY <2>2, <2>3
  <2>. HIDE DEF h
  <2>5. ASSUME NEW n \in 1..m + 1  PROVE h[n] = step[n][h[n - 1]]
    <3>1. CASE n = m + 1
      <4>1. n - 1 = m  BY <2>2, <3>1
      <4>. QED BY <2>2, <2>4, <3>1, <4>1 DEF next
    <3>2. CASE n # m + 1
      <4>1. n \in 1..m /\ n \in 0..m /\ n - 1 \in 0..m  BY <2>2, <3>2
      <4>. QED BY <2>1, <2>4, <4>1
    <3>. QED BY <3>1, <3>2
  <2>6. h[0] = start  BY <2>1, <2>2, <2>4
  <2>. QED BY <2>4, <2>5, <2>6
<1>. HIDE DEF Upto
<1>3. 0 \in T /\ \A m \in 0..N : m < N /\ m \in T => m + 1 \in T  BY <1>1, <1>2
<1>4. 0..N \subseteq T
  <2>. HIDE DEF T
  <2>. QED BY <1>3, Reaches
<1>5. N \in T
  <2>. HIDE DEF T
  <2>. QED BY <1>4
<1>6. Upto(N)  BY <1>5
<1>. QED BY <1>6 DEF Upto, Runs

LEMMA Interval ==
  ASSUME NEW n \in Nat
  PROVE  IsFiniteSet(1..n) /\ Cardinality(1..n) = n
BY FS_Interval

\* Where of any two members of a finite set one comes first, each has a rank of its own,
\* the number of those up to it.
LEMMA Ranked ==
  ASSUME NEW S, IsFiniteSet(S), NEW upto \in [S -> SUBSET S],
         \A a \in S : a \in upto[a],
         \A a, b \in S : \/ a = b
                         \/ b \notin upto[a] /\ upto[a] \subseteq upto[b]
                         \/ a \notin upto[b] /\ upto[b] \subseteq upto[a]
  PROVE  /\ Cardinality(S) \in Nat
         /\ \A a \in S : Cardinality(upto[a]) \in 1..Cardinality(S)
         /\ \A a, b \in S : b \notin upto[a] /\ upto[a] \subseteq upto[b] =>
              Cardinality(upto[a]) < Cardinality(upto[b])
         /\ \A a, b \in S : Cardinality(upto[a]) = Cardinality(upto[b]) => a = b
         /\ \A k \in 1..Cardinality(S) : \E a \in S : Cardinality(upto[a]) = k
<1>. DEFINE rank == [a \in S |-> Cardinality(upto[a])]
            N == Cardinality(S)
<1>1. N \in Nat  BY FS_CardinalityType
<1>2. ASSUME NEW a \in S
      PROVE  IsFiniteSet(upto[a]) /\ Cardinality(upto[a]) \in 1..N
  <2>1. upto[a] \in SUBSET S /\ upto[a] # {}  OBVIOUS
  <2>2. IsFiniteSet(upto[a]) /\ Cardinality(upto[a]) <= N  BY <2>1, FS_Subset
  <2>3. Cardinality(upto[a]) \in Nat /\ Cardinality(upto[a]) # 0
    BY <2>1, <2>2, FS_EmptySet, FS_CardinalityType
  <2>. QED BY <1>1, <2>2, <2>3
<1>3. ASSUME NEW a \in S, NEW b \in S, b \notin upto[a], upto[a] \subseteq upto[b]
      PROVE  Cardinality(upto[a]) < Cardinality(upto[b])
  <2>1. upto[a] \in SUBSET upto[b] /\ upto[a] # upto[b]  BY <1>3
  <2>2. Cardinality(upto[a]) <= Cardinality(upto[b]) /\ Cardinality(upto[a]) # Cardinality(upto[b])
    BY <1>2, <2>1, FS_Subset
  <2>. QED BY <1>2, <2>2
<1>4. ASSUME NEW a \in S, NEW b \in S, Cardinality(upto[a]) = Cardinality(upto[b])
      PROVE  a = b
  <2>1. Cardinality(upto[a]) \in Nat  BY <1>2
  <2>. QED BY <1>3, <1>4, <2>1
<1>5. rank \in [S -> 1..N] /\ \A a, b \in S : rank[a] = rank[b] => a = b
  BY <1>2, <1>4
<1>6. rank \in Injection(S, 1..N)  BY <1>5 DEF Injection, IsInjective
<1>7. IsFiniteSet(1..N) /\ Cardinality(1..N) = N  BY <1>1, FS_Interval
<1>8. rank \in Surjection(S, 1..N)  BY <1>6, <1>7, FS_Injection
<1>9. \A k \in 1..N : \E a \in S : rank[a] = k  BY <1>8 DEF Surjection
<1>. QED BY <1>1, <1>2, <1>3, <1>4, <1>9

\* The members by their ranks: each once, in their order.
LEMMA ByRank ==
  ASSUME NEW S, IsFiniteSet(S), NEW upto \in [S -> SUBSET S],
         \A a \in S : a \in upto[a],
         \A a, b \in S : \/ a = b
                         \/ b \notin upto[a] /\ upto[a] \subseteq upto[b]
                         \/ a \notin upto[b] /\ upto[b] \subseteq upto[a],
         NEW nth,
         \A k \in 1..Cardinality(S) : \A a \in S : Cardinality(upto[a]) = k =>
           nth[k] \in S /\ Cardinality(upto[nth[k]]) = k
  PROVE  /\ Cardinality(S) \in Nat /\ \A k \in 1..Cardinality(S) : nth[k] \in S
         /\ \A a \in S : \E k \in 1..Cardinality(S) : nth[k] = a
         /\ \A k, l \in 1..Cardinality(S) : nth[k] = nth[l] => k = l
         /\ \A k, l \in 1..Cardinality(S) : k < l =>
              nth[k] \in upto[nth[l]] /\ nth[l] \notin upto[nth[k]]
<1>. DEFINE N == Cardinality(S)
            rank(a) == Cardinality(upto[a])
<1>1. /\ N \in Nat /\ \A a \in S : rank(a) \in 1..N
      /\ \A a, b \in S : b \notin upto[a] /\ upto[a] \subseteq upto[b] => rank(a) < rank(b)
      /\ \A a, b \in S : rank(a) = rank(b) => a = b
      /\ \A k \in 1..N : \E a \in S : rank(a) = k
  BY Ranked
<1>. HIDE DEF rank
<1>2. \A k \in 1..N : \A a \in S : rank(a) = k => nth[k] \in S /\ rank(nth[k]) = k  BY DEF rank
<1>3. \A k \in 1..N : nth[k] \in S /\ rank(nth[k]) = k  BY <1>1, <1>2
<1>. HIDE DEF N
<1>5. \A a \in S : nth[rank(a)] = a /\ rank(a) \in 1..N  BY <1>1, <1>3
<1>6. \A a \in S : \E k \in 1..N : nth[k] = a  BY <1>5
<1>7. \A k, l \in 1..N : nth[k] = nth[l] => k = l  BY <1>3
<1>8. ASSUME NEW k \in 1..N, NEW l \in 1..N, k < l
      PROVE  nth[k] \in upto[nth[l]] /\ nth[l] \notin upto[nth[k]]
  <2>0. k \in Nat /\ l \in Nat  BY <1>1
  <2>3. rank(nth[k]) = k /\ rank(nth[l]) = l  BY <1>3
  <2>4. ~(l < k) /\ k # l  BY <1>8, <2>0
  <2>5. nth[k] # nth[l]  BY <2>3, <2>4
  <2>1. nth[k] # nth[l] /\ ~(rank(nth[l]) < rank(nth[k]))  BY <2>3, <2>4, <2>5, Zenon
  <2>2. nth[k] \in S /\ nth[l] \in S  BY <1>3
  <2>. QED BY <1>1, <2>1, <2>2
<1>. QED BY <1>1, <1>3, <1>6, <1>7, <1>8 DEF N

\* Rows of n cells.
LEMMA Row ==
  ASSUME NEW i \in Nat, NEW k \in Nat, NEW n \in Nat
  PROVE  i * n \in Nat /\ (i + 1) * n = i * n + n /\ (i <= k => i * n <= k * n)
<1>1. i * n \in Nat /\ k * n \in Nat  OBVIOUS
<1>2. (i + 1) * n = i * n + n  OBVIOUS
<1>3. ASSUME i <= k  PROVE i * n <= k * n
  <2>. DEFINE d == k - i
  <2>1. d \in Nat /\ k = i + d  BY <1>3
  <2>. HIDE DEF d
  <2>2. (i + d) * n = i * n + d * n /\ d * n \in Nat  BY <2>1
  <2>. QED BY <1>1, <2>1, <2>2
<1>. QED BY <1>1, <1>2, <1>3

LEMMA Division ==
  ASSUME NEW a \in Nat, NEW n \in Nat \ {0}
  PROVE  /\ a \div n \in Nat /\ (a \div n) * n <= a /\ a < (a \div n) * n + n
OBVIOUS

-----------------------------------------------------------------------------
(* The views.  The listings are c3 (there since c2), the breadcrumb c4, the search c6, the
   entry of the menu c7, the folder opened last c8, the stars c12, the columns c13. *)

\* A set is finite, and has its size, in the instances of the parts as it does here.
LEMMA SameSizes ==
  /\ \A S : Shelf!IsFiniteSet(S) <=> IsFiniteSet(S)
  /\ \A S : Shelf!Cardinality(S) = Cardinality(S)
  /\ \A S : Saving!Cardinality(S) = Cardinality(S)
BY DEF Shelf!IsFiniteSet, IsFiniteSet, Shelf!Cardinality, Saving!Cardinality, Cardinality

\* What a breadcrumb may consist of.
StepSet == [name : {Top} \cup ModelTypes \cup Shelf!Words, index : Nat]

\* The listings are found one after the other.
LEMMA FollowIs ==
  ASSUME NEW s \in Seq(StepSet), NEW g \in [0..Len(s) -> SUBSET Shelf!Nodes],
         g[0] = {Shelf!Root(Top)}, \A n \in 1..Len(s) :
           g[n] = Shelf!Below(Shelf!FindFolder(g[n - 1], s[n]))
  PROVE  Shelf!Follow(s) = g[Len(s)]
<1>. DEFINE N == Len(s)
            Unfolds(u) == u = [i \in 0..N |->
                             IF i = 0 THEN {Shelf!Root(Top)}
                             ELSE Shelf!Below(Shelf!FindFolder(u[i - 1], s[i]))]
            c == CHOOSE u : Unfolds(u)
<1>0. N \in Nat  OBVIOUS
<1>1. Unfolds(g)
  <2>1. \A n \in 0..N : n = 0 \/ n \in 1..N  BY <1>0
  <2>. QED BY <2>1
<1>2. Unfolds(c)  BY <1>1, Zenon
<1>3. Shelf!Follow(s) = c[N]  BY Zenon DEF Shelf!Follow
<1>4. c[0] = {Shelf!Root(Top)} /\ \A n \in 1..N :
        c[n] = Shelf!Below(Shelf!FindFolder(c[n - 1], s[n]))
  <2>. HIDE DEF c
  <2>1. 0 \in 0..N /\ \A n \in 1..N : n \in 0..N /\ n # 0  BY <1>0
  <2>. QED BY <1>2, <2>1
<1>. HIDE DEF c
<1>. DEFINE T == {n \in 0..N : c[n] = g[n]}
<1>5. 0 \in T
  <2>1. 0 \in 0..N /\ c[0] = g[0]  BY <1>0, <1>4
  <2>. QED BY <2>1
<1>6. ASSUME NEW n \in 0..N, n < N, n \in T  PROVE n + 1 \in T
  <2>1. n + 1 \in 1..N /\ n + 1 \in 0..N /\ n + 1 - 1 = n  BY <1>0, <1>6
  <2>2. c[n + 1] = Shelf!Below(Shelf!FindFolder(c[n], s[n + 1]))  BY <1>4, <2>1
  <2>3. g[n + 1] = Shelf!Below(Shelf!FindFolder(g[n], s[n + 1]))  BY <2>1
  <2>4. c[n] = g[n]  BY <1>6
  <2>. QED BY <2>1, <2>2, <2>3, <2>4
<1>7. N \in T
  <2>. HIDE DEF T, N
  <2>1. \A n \in 0..N : n < N /\ n \in T => n + 1 \in T  BY <1>6
  <2>2. 0..N \subseteq T  BY <1>0, <1>5, <2>1, Reaches
  <2>. QED BY <1>0, <2>2
<1>. QED BY <1>3, <1>7

LEMMA BelowNodes ==
  ASSUME NEW n
  PROVE  Shelf!Below(n) \in SUBSET Shelf!Nodes
BY DEF Shelf!Below, Shelf!Children, Shelf!Nodes

LEMMA FollowNext ==
  ASSUME NEW s \in Seq(StepSet)
  PROVE  /\ Shelf!Follow(SubSeq(s, 1, 0)) = {Shelf!Root(Top)}
         /\ Shelf!Follow(s) \subseteq Shelf!Nodes
         /\ \A k \in 1..Len(s) :
              Shelf!Follow(SubSeq(s, 1, k)) =
                Shelf!Below(Shelf!FindFolder(Shelf!Follow(SubSeq(s, 1, k - 1)), s[k]))
<1>. DEFINE N == Len(s)
            S == SUBSET Shelf!Nodes
            step == [n \in 1..N |-> [l \in S |-> Shelf!Below(Shelf!FindFolder(l, s[n]))]]
<1>1. N \in Nat  OBVIOUS
<1>2. step \in [1..N -> [S -> S]]
  <2>1. ASSUME NEW n \in 1..N, NEW l \in S  PROVE Shelf!Below(Shelf!FindFolder(l, s[n])) \in S
    BY BelowNodes
  <2>. QED BY <2>1
<1>3. PICK g : Runs(g, S, {Shelf!Root(Top)}, N, step)
  <2>1. {Shelf!Root(Top)} \in S  BY DEF Shelf!Nodes
  <2>. HIDE DEF step, N, S
  <2>. QED BY <1>1, <1>2, <2>1, Loops
<1>4. ASSUME NEW n \in 1..N
      PROVE  g[n] = Shelf!Below(Shelf!FindFolder(g[n - 1], s[n]))
  <2>1. n - 1 \in 0..N  BY <1>1
  <2>. QED BY <1>3, <2>1 DEF Runs
<1>. HIDE DEF step
<1>5. ASSUME NEW k \in 0..N
      PROVE  Shelf!Follow(SubSeq(s, 1, k)) = g[k]
  <2>. DEFINE t == SubSeq(s, 1, k)
              h == [i \in 0..k |-> g[i]]
  <2>1. k \in Nat /\ t \in Seq(StepSet) /\ Len(t) = k /\ \A i \in 1..k : t[i] = s[i] /\ i \in 1..N
    BY <1>1
  <2>2. h \in [0..Len(t) -> SUBSET Shelf!Nodes] /\ h[0] = {Shelf!Root(Top)} /\ h[k] = g[k]
    BY <1>1, <1>3, <2>1 DEF Runs
  <2>3. ASSUME NEW n \in 1..Len(t)  PROVE h[n] = Shelf!Below(Shelf!FindFolder(h[n - 1], t[n]))
    <3>1. n \in 0..k /\ n - 1 \in 0..k /\ n \in 1..N  BY <1>1, <2>1
    <3>2. h[n] = g[n] /\ h[n - 1] = g[n - 1]  BY <3>1
    <3>. HIDE DEF h, t
    <3>. QED BY <1>4, <2>1, <3>1, <3>2
  <2>. HIDE DEF h, t
  <2>4. Shelf!Follow(t) = h[Len(t)]  BY <2>1, <2>2, <2>3, FollowIs
  <2>. QED BY <2>1, <2>2, <2>4 DEF t
<1>6. s = SubSeq(s, 1, N)  OBVIOUS
<1>7. Shelf!Follow(s) = g[N]
  <2>1. N \in 0..N  BY <1>1
  <2>2. Shelf!Follow(SubSeq(s, 1, N)) = g[N]  BY <1>5, <2>1
  <2>. HIDE DEF N
  <2>. QED BY <1>6, <2>2, Zenon
<1>8. g[N] \in S /\ g[0] = {Shelf!Root(Top)}  BY <1>1, <1>3 DEF Runs
<1>9. ASSUME NEW k \in 1..N
      PROVE  Shelf!Follow(SubSeq(s, 1, k)) =
               Shelf!Below(Shelf!FindFolder(Shelf!Follow(SubSeq(s, 1, k - 1)), s[k]))
  <2>1. k \in 0..N /\ k - 1 \in 0..N  BY <1>1
  <2>2. Shelf!Follow(SubSeq(s, 1, k)) = g[k] /\ Shelf!Follow(SubSeq(s, 1, k - 1)) = g[k - 1]
    BY <1>5, <2>1
  <2>. QED BY <1>4, <2>2
<1>. QED BY <1>1, <1>5, <1>7, <1>8, <1>9

\* The sort of the entries, as the assumption gives it.
LEMMA Entries ==
  ASSUME Shelf!ViewsAssumption, Shelf!ViewsInv
  PROVE  /\ \A e \in c3 : /\ e \in Library /\ e # Off /\ e.type \in ModelTypes /\ e.index \in Nat
                          /\ e.path \in Seq(Shelf!Words) /\ Len(e.path) \in Nat \ {0}
                          /\ e.folder \in BOOLEAN
                          /\ e = [type |-> e.type, index |-> e.index, path |-> e.path,
                               folder |-> e.folder]
         /\ \A t \in ModelTypes \cup {Top} : Shelf!Root(t) # Off
         /\ \A t \in ModelTypes : Shelf!Root(t) # Shelf!Root(Top)
<1>1. c3 \subseteq Library  BY DEF Shelf!ViewsInv
<1>2. ASSUME NEW e \in c3
      PROVE  /\ e \in Library /\ e # Off /\ e.type \in ModelTypes /\ e.index \in Nat
             /\ e.path \in Seq(Shelf!Words) /\ Len(e.path) \in Nat \ {0}
             /\ e.folder \in BOOLEAN
             /\ e = [type |-> e.type, index |-> e.index, path |-> e.path, folder |-> e.folder]
  <2>1. e \in [type : ModelTypes, index : Nat, path : Seq(Shelf!Words) \ {<<>>}, folder : BOOLEAN]
        /\ e \in Library /\ e # Off
    BY <1>1 DEF Shelf!ViewsAssumption
  <2>2. e.path \in Seq(Shelf!Words) /\ e.path # <<>>  BY <2>1
  <2>3. Len(e.path) \in Nat \ {0}  BY <2>2
  <2>. QED BY <2>1, <2>2, <2>3
<1>3. \A t \in ModelTypes \cup {Top} : Shelf!Root(t) # Off  BY DEF Shelf!ViewsAssumption
<1>4. \A t \in ModelTypes : Shelf!Root(t) # Shelf!Root(Top)
  <2>1. \A t : Shelf!Root(t).type = t  BY DEF Shelf!Root
  <2>2. Top \notin ModelTypes  BY DEF Shelf!ViewsAssumption
  <2>. QED BY <2>1, <2>2
<1>. QED BY <1>2, <1>3, <1>4

\* A step that only one folder can be meant by finds that, if it is there.
LEMMA Finds ==
  ASSUME NEW list, NEW step, NEW f,
         \A n \in list : n.folder /\ Shelf!Base(n) = step.name /\ n.index = step.index => n = f,
         f \in list => f.folder /\ Shelf!Base(f) = step.name /\ f.index = step.index
  PROVE  Shelf!FindFolder(list, step) = IF f \in list THEN f ELSE Off
<1>. DEFINE hits == {n \in list : n.folder /\ Shelf!Base(n) = step.name /\ n.index = step.index}
<1>1. hits = IF f \in list THEN {f} ELSE {}  OBVIOUS
<1>2. Shelf!FindFolder(list, step) = IF hits = {} THEN Off ELSE CHOOSE n \in hits : TRUE
  BY DEF Shelf!FindFolder
<1>. HIDE DEF hits
<1>. QED BY <1>1, <1>2

LEMMA Parents ==
  ASSUME Shelf!ViewsAssumption, Shelf!ViewsInv, NEW e \in c3
  PROVE  /\ Shelf!Parent(e).folder = TRUE /\ Shelf!Parent(e).type = e.type
         /\ Len(e.path) = 1 => Shelf!Parent(e) = Shelf!Root(e.type)
         /\ Len(e.path) > 1 => /\ Shelf!Parent(e) \in c3 /\ Shelf!Parent(e).index = e.index
                               /\ Shelf!Parent(e).path = Shelf!Front(e.path)
                               /\ Len(Shelf!Parent(e).path) = Len(e.path) - 1
         /\ Shelf!Parent(e) # Shelf!Root(Top)
<1>1. e.path \in Seq(Shelf!Words) /\ Len(e.path) \in Nat \ {0} /\ e.type \in ModelTypes  BY Entries
<1>2. CASE Len(e.path) = 1
  <2>1. Shelf!Parent(e) = Shelf!Root(e.type)  BY <1>2 DEF Shelf!Parent
  <2>2. Shelf!Root(e.type) # Shelf!Root(Top)  BY <1>1, Entries
  <2>3. ~(Len(e.path) > 1) /\ Shelf!Root(e.type).folder = TRUE /\ Shelf!Root(e.type).type = e.type
    BY <1>2 DEF Shelf!Root
  <2>. QED BY <2>1, <2>2, <2>3
<1>3. CASE Len(e.path) > 1
  <2>0. Len(e.path) # 1
    <3>1. \A n \in Nat : n > 1 => n # 1  OBVIOUS
    <3>. QED BY <1>1, <1>3, <3>1, Zenon
  <2>1. Shelf!Parent(e) = [type |-> e.type, index |-> e.index, path |-> Shelf!Front(e.path),
          folder |-> TRUE]
    BY <2>0 DEF Shelf!Parent
  <2>2. Shelf!Parent(e) \in c3  BY <1>3 DEF Shelf!ViewsInv, Shelf!Closed
  <2>3. Len(Shelf!Front(e.path)) = Len(e.path) - 1  BY <1>1, <1>3 DEF Shelf!Front
  <2>4. Shelf!Parent(e).type # Shelf!Root(Top).type
    BY <1>1, <2>1 DEF Shelf!Root, Shelf!ViewsAssumption
  <2>. HIDE DEF Shelf!Parent
  <2>5. Shelf!Parent(e) # Shelf!Root(Top)  BY <2>4
  <2>. QED BY <2>0, <2>1, <2>2, <2>3, <2>5
<1>4. Len(e.path) = 1 \/ Len(e.path) > 1
  <2>1. \A n \in Nat \ {0} : n = 1 \/ n > 1  OBVIOUS
  <2>. QED BY <1>1, <2>1, Zenon
<1>. QED BY <1>2, <1>3, <1>4

\* The folder that a breadcrumb names is a folder below its type.
LEMMA FolderNamed ==
  ASSUME NEW s \in Seq(StepSet), Shelf!Crumbs(s), NEW k \in 3..Len(s)
  PROVE  LET f == Shelf!FolderAt(SubSeq(s, 1, k)) IN
         /\ f.type = s[2].name /\ f.index = s[3].index /\ s[k].index = s[3].index /\ f.folder = TRUE
         /\ f.path \in Seq({Top} \cup ModelTypes \cup Shelf!Words) /\ Len(f.path) = k - 2
         /\ \A i \in 1..k - 2 : f.path[i] = s[i + 2].name
         /\ f = [type |-> f.type, index |-> f.index, path |-> f.path, folder |-> f.folder]
         /\ Shelf!Base(f) = s[k].name
<1>. DEFINE t == SubSeq(s, 1, k)
            p == [i \in 1..k - 2 |-> s[i + 2].name]
            f == Shelf!FolderAt(t)
<1>1. k \in Nat /\ k >= 3 /\ k <= Len(s) /\ Len(s) \in Nat  OBVIOUS
<1>2. t \in Seq(StepSet) /\ Len(t) = k /\ \A i \in 1..k : t[i] = s[i]  BY <1>1
<1>3. 2 \in 1..k /\ \A i \in 1..k - 2 : i + 2 \in 1..k  BY <1>1
<1>4. \A i \in 1..Len(s) : s[i].name \in {Top} \cup ModelTypes \cup Shelf!Words
  <2>1. \A i \in 1..Len(s) : s[i] \in StepSet  BY <1>1
  <2>. QED BY <2>1 DEF StepSet
<1>. HIDE DEF t
<1>5. [i \in 1..Len(t) - 2 |-> t[i + 2].name] = p
  <2>1. \A i \in 1..k - 2 : t[i + 2] = s[i + 2]  BY <1>2, <1>3
  <2>. QED BY <1>2, <2>1
<1>6. Shelf!Last(t) = s[k] /\ s[k].index = s[3].index
  BY <1>1, <1>2 DEF Shelf!Last, Shelf!Crumbs
<1>7. f = [type |-> s[2].name, index |-> s[3].index, path |-> p, folder |-> TRUE]
  BY <1>2, <1>3, <1>5, <1>6 DEF Shelf!FolderAt
<1>8. p \in Seq({Top} \cup ModelTypes \cup Shelf!Words) /\ Len(p) = k - 2
  <2>1. \A i \in 1..k - 2 : i + 2 \in 1..Len(s)  BY <1>1
  <2>2. k - 2 \in Nat  BY <1>1
  <2>. QED BY <1>4, <2>1, <2>2
<1>9. Shelf!Last(p) = s[k].name /\ p # <<>>
  <2>1. k - 2 \in 1..k - 2 /\ k - 2 + 2 = k  BY <1>1
  <2>. QED BY <1>1, <1>8, <2>1 DEF Shelf!Last
<1>. HIDE DEF p, f
<1>10. Shelf!Base(f) = s[k].name
  <2>1. f.path = p  BY <1>7
  <2>. QED BY <1>9, <2>1 DEF Shelf!Base
<1>11. \A i \in 1..k - 2 : p[i] = s[i + 2].name  BY DEF p
<1>. QED BY <1>6, <1>7, <1>8, <1>10, <1>11 DEF f, t

\* A path without its last name.
LEMMA Fronts ==
  ASSUME NEW S, NEW p \in Seq(S), Len(p) >= 1
  PROVE  /\ Shelf!Front(p) \in Seq(S) /\ Len(Shelf!Front(p)) = Len(p) - 1
         /\ \A i \in 1..Len(p) - 1 : Shelf!Front(p)[i] = p[i]
<1>. DEFINE n == Len(p) - 1
<1>1. Len(p) \in Nat /\ n \in Nat /\ n < Len(p)  OBVIOUS
<1>2. \A i \in 1..n : p[i] \in S
  <2>1. \A i \in 1..n : i \in 1..Len(p)  BY <1>1
  <2>. QED BY <2>1
<1>. HIDE DEF n
<1>3. /\ SubSeq(p, 1, n) \in Seq(S)
      /\ Len(SubSeq(p, 1, n)) = IF 1 <= n THEN n - 1 + 1 ELSE 0
      /\ \A i \in 1..n - 1 + 1 : SubSeq(p, 1, n)[i] = p[1 + i - 1]
  BY <1>1, <1>2, SubSeqProperties
<1>4. Len(SubSeq(p, 1, n)) = n  BY <1>1, <1>3
<1>5. \A i \in 1..n : SubSeq(p, 1, n)[i] = p[i]
  <2>1. \A i \in 1..n : i \in 1..n - 1 + 1 /\ 1 + i - 1 = i  BY <1>1
  <2>. QED BY <1>3, <2>1
<1>. QED BY <1>3, <1>4, <1>5 DEF Shelf!Front, n

\* One folder of data is that named by a breadcrumb.
LEMMA SameFolder ==
  ASSUME Shelf!ViewsAssumption, Shelf!ViewsInv, NEW s \in Seq(StepSet), Shelf!Crumbs(s),
         NEW k \in 3..Len(s),
         NEW e \in c3, e.folder, e.type = s[2].name, e.index = s[3].index,
         Len(e.path) = k - 2, \A i \in 1..k - 2 : e.path[i] = s[i + 2].name
  PROVE  e = Shelf!FolderAt(SubSeq(s, 1, k))
<1>. DEFINE f == Shelf!FolderAt(SubSeq(s, 1, k))
<1>1. /\ f.type = s[2].name /\ f.index = s[3].index /\ f.folder = TRUE
      /\ f.path \in Seq({Top} \cup ModelTypes \cup Shelf!Words) /\ Len(f.path) = k - 2
      /\ \A i \in 1..k - 2 : f.path[i] = s[i + 2].name
      /\ f = [type |-> f.type, index |-> f.index, path |-> f.path, folder |-> f.folder]
  BY FolderNamed
<1>2. /\ e.path \in Seq(Shelf!Words) /\ e.folder = TRUE
      /\ e = [type |-> e.type, index |-> e.index, path |-> e.path, folder |-> e.folder]
  BY Entries
<1>. HIDE DEF f
<1>3. e.path \in Seq({Top} \cup ModelTypes \cup Shelf!Words)  BY <1>2
<1>4. e.path = f.path
  <2>0. k - 2 = Len(f.path)  BY <1>1
  <2>1. Len(e.path) = Len(f.path) /\ \A i \in 1..Len(f.path) : e.path[i] = f.path[i]
    BY <1>1, <2>0, Zenon
  <2>2. \A i \in 1..Len(e.path) : e.path[i] = f.path[i]  BY <2>1
  <2>3. f.path \in Seq({Top} \cup ModelTypes \cup Shelf!Words)  BY <1>1
  <2>. QED BY <1>3, <2>1, <2>2, <2>3, SeqEqual, Zenon
<1>. QED BY <1>1, <1>2, <1>4 DEF f

\* The folder that the first k steps name, and their listing.
Named(s, k) == Shelf!FolderAt(SubSeq(s, 1, k))
Listing(s, k) == Shelf!Follow(SubSeq(s, 1, k))

\* The parent of a listed folder below the second level is the folder one step up.
LEMMA ParentNamed ==
  ASSUME Shelf!ViewsAssumption, Shelf!ViewsInv, NEW s \in Seq(StepSet), Shelf!Crumbs(s),
         NEW k \in 4..Len(s), Named(s, k) \in c3
  PROVE  Shelf!Parent(Named(s, k)) = Named(s, k - 1) /\ Named(s, k - 1) \in c3
<1>. DEFINE f == Named(s, k)
            d == Shelf!Parent(f)
<1>1. k \in 3..Len(s) /\ k - 1 \in 3..Len(s) /\ k - 2 > 1 /\ k \in Nat  OBVIOUS
<1>2. /\ f.path \in Seq({Top} \cup ModelTypes \cup Shelf!Words) /\ Len(f.path) = k - 2
      /\ \A j \in 1..k - 2 : f.path[j] = s[j + 2].name
      /\ f.type = s[2].name /\ f.index = s[3].index
  BY <1>1, FolderNamed DEF Named
<1>. HIDE DEF f
<1>3. f \in c3  BY DEF f
<1>4. Len(f.path) > 1  BY <1>1, <1>2
<1>5. /\ d \in c3 /\ d.index = f.index /\ d.path = Shelf!Front(f.path)
      /\ d.folder = TRUE /\ d.type = f.type
  BY <1>3, <1>4, Parents
<1>. HIDE DEF d
<1>6. /\ Len(Shelf!Front(f.path)) = Len(f.path) - 1
      /\ \A j \in 1..Len(f.path) - 1 : Shelf!Front(f.path)[j] = f.path[j]
  <2>1. Len(f.path) >= 1  BY <1>1, <1>2
  <2>. QED BY <1>2, <2>1, Fronts
<1>7. Len(d.path) = k - 1 - 2  BY <1>1, <1>2, <1>5, <1>6
<1>8. ASSUME NEW j \in 1..k - 1 - 2  PROVE d.path[j] = s[j + 2].name
  <2>1. j \in 1..k - 2 /\ j \in 1..Len(f.path) - 1  BY <1>1, <1>2
  <2>. QED BY <1>2, <1>5, <1>6, <2>1
<1>9. d = Shelf!FolderAt(SubSeq(s, 1, k - 1))
  <2>. DEFINE m == k - 1
  <2>1. m \in 3..Len(s) /\ d.index = s[3].index /\ d.type = s[2].name /\ d.folder
    BY <1>1, <1>2, <1>5
  <2>2. Len(d.path) = m - 2 /\ \A j \in 1..m - 2 : d.path[j] = s[j + 2].name
    BY <1>7, <1>8
  <2>. HIDE DEF m
  <2>3. d = Shelf!FolderAt(SubSeq(s, 1, m))  BY <1>5, <2>1, <2>2, SameFolder
  <2>. QED BY <2>3 DEF m
<1>. QED BY <1>5, <1>9 DEF d, f, Named

LEMMA ListsTypes ==
  ASSUME Shelf!ViewsAssumption, Shelf!ViewsInv, NEW s \in Seq(StepSet), Shelf!Crumbs(s), Len(s) >= 1
  PROVE  Shelf!FindFolder(Listing(s, 0), s[1]) = Shelf!Root(Top) /\ Listing(s, 1) = Shelf!TypeRoots
<1>1. Listing(s, 0) = {Shelf!Root(Top)} /\ 1 \in 1..Len(s) /\ 1 - 1 = 0  BY FollowNext DEF Listing
<1>2. s[1] = [name |-> Top, index |-> 0]  BY DEF Shelf!Crumbs
<1>3. Shelf!Root(Top).folder /\ Shelf!Base(Shelf!Root(Top)) = Top /\ Shelf!Root(Top).index = 0
  BY DEF Shelf!Root, Shelf!Base
<1>. HIDE DEF Shelf!Root
<1>4. Shelf!FindFolder(Listing(s, 0), s[1]) = Shelf!Root(Top)
  <2>0. s[1].name = Top /\ s[1].index = 0 /\ \A n \in {Shelf!Root(Top)} : n = Shelf!Root(Top)
    BY <1>2
  <2>1. Shelf!FindFolder({Shelf!Root(Top)}, s[1]) =
          IF Shelf!Root(Top) \in {Shelf!Root(Top)} THEN Shelf!Root(Top) ELSE Off
    <3>. DEFINE list == {Shelf!Root(Top)}
    <3>. HIDE DEF list
    <3>1. \A n \in list : n = Shelf!Root(Top)  BY <2>0 DEF list
    <3>2. Shelf!FindFolder(list, s[1]) = IF Shelf!Root(Top) \in list THEN Shelf!Root(Top) ELSE Off
      BY <1>3, <2>0, <3>1, Finds
    <3>. QED BY <3>2 DEF list
  <2>. QED BY <1>1, <2>1
<1>5. Shelf!Root(Top) # Off  BY Entries
<1>6. Listing(s, 1) = Shelf!Below(Shelf!FindFolder(Listing(s, 0), s[1]))
  BY <1>1, FollowNext DEF Listing
<1>. QED BY <1>4, <1>5, <1>6 DEF Shelf!Below, Shelf!Children

LEMMA ListsType ==
  ASSUME Shelf!ViewsAssumption, Shelf!ViewsInv, NEW s \in Seq(StepSet), Shelf!Crumbs(s), Len(s) >= 2
  PROVE  /\ Shelf!FindFolder(Listing(s, 1), s[2]) = IF c2 THEN Shelf!Root(s[2].name) ELSE Off
         /\ Listing(s, 2) = {e \in c3 : e.type = s[2].name /\ Len(e.path) = 1}
<1>. DEFINE t == s[2].name
<1>1. Listing(s, 1) = Shelf!TypeRoots /\ 2 \in 1..Len(s) /\ 2 - 1 = 1  BY ListsTypes
<1>2. t \in ModelTypes /\ s[2].index = 0  BY DEF Shelf!Crumbs
<1>3. \A u : Shelf!Root(u).folder /\ Shelf!Base(Shelf!Root(u)) = u /\ Shelf!Root(u).index = 0
        /\ Shelf!Root(u).path = <<>> /\ Shelf!Root(u).type = u
  BY DEF Shelf!Root, Shelf!Base
<1>. HIDE DEF t
<1>4. Shelf!FindFolder(Shelf!TypeRoots, s[2]) = IF c2 THEN Shelf!Root(t) ELSE Off
  <2>. HIDE DEF Shelf!Root
  <2>1. \A n \in Shelf!TypeRoots : n.folder /\ Shelf!Base(n) = s[2].name /\ n.index = s[2].index =>
          n = Shelf!Root(t)
    BY <1>3 DEF Shelf!TypeRoots, t
  <2>2. Shelf!Root(t) \in Shelf!TypeRoots <=> c2  BY <1>2 DEF Shelf!TypeRoots
  <2>3. Shelf!FindFolder(Shelf!TypeRoots, s[2]) =
          IF Shelf!Root(t) \in Shelf!TypeRoots THEN Shelf!Root(t) ELSE Off
    BY <1>2, <1>3, <2>1, Finds DEF t
  <2>. QED BY <2>2, <2>3
<1>5. Listing(s, 2) = Shelf!Below(Shelf!FindFolder(Shelf!TypeRoots, s[2]))
  BY <1>1, FollowNext DEF Listing
<1>6. Shelf!Root(t) # Off /\ Shelf!Root(t) # Shelf!Root(Top)  BY <1>2, Entries
<1>7. ASSUME NEW e \in c3
      PROVE  Shelf!Parent(e) = Shelf!Root(t) <=> e.type = t /\ Len(e.path) = 1
  <2>1. e.path \in Seq(Shelf!Words) /\ Len(e.path) \in Nat \ {0}  BY Entries
  <2>2. Len(e.path) = 1 \/ Len(e.path) > 1
    <3>1. \A n \in Nat \ {0} : n = 1 \/ n > 1  OBVIOUS
    <3>. QED BY <2>1, <3>1, Zenon
  <2>3. CASE Len(e.path) = 1
    BY <1>3, <2>3, Parents
  <2>4. CASE Len(e.path) > 1
    <3>1. Len(e.path) # 1 /\ Len(e.path) - 1 # 0
      <4>1. \A n \in Nat : n > 1 => n # 1 /\ n - 1 # 0  OBVIOUS
      <4>. QED BY <2>1, <2>4, <4>1, Zenon
    <3>2. Len(Shelf!Parent(e).path) # 0  BY <2>4, <3>1, Parents
    <3>3. Shelf!Root(t).path = <<>> /\ Len(<<>>) = 0  BY <1>3
    <3>. QED BY <3>1, <3>2, <3>3
  <2>. QED BY <2>2, <2>3, <2>4
<1>. HIDE DEF Shelf!Root, Shelf!Parent
<1>8. ASSUME c2
      PROVE  Listing(s, 2) = {e \in c3 : e.type = t /\ Len(e.path) = 1}
  <2>1. Listing(s, 2) = {e \in c3 : Shelf!Parent(e) = Shelf!Root(t)}
    BY <1>4, <1>5, <1>6, <1>8 DEF Shelf!Below, Shelf!Children
  <2>. QED BY <1>7, <2>1
<1>9. ASSUME ~c2
      PROVE  Listing(s, 2) = {e \in c3 : e.type = t /\ Len(e.path) = 1}
  <2>1. c3 = {} /\ Listing(s, 2) = {}  BY <1>4, <1>5, <1>9 DEF Shelf!Below, Shelf!ViewsInv
  <2>. QED BY <2>1
<1>10. Listing(s, 2) = {e \in c3 : e.type = t /\ Len(e.path) = 1}  BY <1>8, <1>9
<1>. QED BY <1>1, <1>4, <1>10 DEF t

LEMMA ListsFolder ==
  ASSUME Shelf!ViewsAssumption, Shelf!ViewsInv, NEW s \in Seq(StepSet), Shelf!Crumbs(s),
         NEW k \in 3..Len(s),
         k > 3 => Listing(s, k - 1) = {e \in c3 : Shelf!Parent(e) = Named(s, k - 1)}
  PROVE  /\ Shelf!FindFolder(Listing(s, k - 1), s[k]) =
              IF Named(s, k) \in c3 THEN Named(s, k) ELSE Off
         /\ Listing(s, k) = {e \in c3 : Shelf!Parent(e) = Named(s, k)}
<1>. DEFINE f == Named(s, k)
            list == Listing(s, k - 1)
<1>1. /\ f.type = s[2].name /\ f.index = s[3].index /\ s[k].index = s[3].index /\ f.folder = TRUE
      /\ f.path \in Seq({Top} \cup ModelTypes \cup Shelf!Words) /\ Len(f.path) = k - 2
      /\ \A i \in 1..k - 2 : f.path[i] = s[i + 2].name
      /\ f = [type |-> f.type, index |-> f.index, path |-> f.path, folder |-> f.folder]
      /\ Shelf!Base(f) = s[k].name
  BY FolderNamed DEF Named
<1>2. k \in Nat /\ k >= 3 /\ k \in 1..Len(s) /\ k <= Len(s) /\ Len(s) \in Nat /\ k - 2 \in 1..k - 2
  OBVIOUS
<1>3. f # Shelf!Root(Top)
  <2>1. Shelf!Root(Top).path = <<>> /\ Len(<<>>) = 0  BY DEF Shelf!Root
  <2>2. Len(f.path) # 0  BY <1>1, <1>2
  <2>. HIDE DEF Shelf!Root, f
  <2>. QED BY <2>1, <2>2
<1>. HIDE DEF f, list
<1>4. \A n \in list :
        n \in c3 /\ (n.folder /\ Shelf!Base(n) = s[k].name /\ n.index = s[k].index => n = f)
  <2>. SUFFICES ASSUME NEW n \in list
                PROVE  n \in c3 /\ (n.folder /\ Shelf!Base(n) = s[k].name /\ n.index = s[k].index
                                     => n = f)
    OBVIOUS
  <2>1. CASE k = 3
    <3>1. n \in c3 /\ n.type = s[2].name /\ Len(n.path) = 1
      <4>1. k - 1 = 2 /\ Len(s) >= 2  BY <1>2, <2>1
      <4>. QED BY <4>1, ListsType DEF list
    <3>. SUFFICES ASSUME n.folder, Shelf!Base(n) = s[k].name, n.index = s[k].index  PROVE n = f
      BY <3>1
    <3>2. n.path[1] = s[3].name
      <4>1. n.path # <<>>
        <5>1. Len(<<>>) = 0 /\ Len(n.path) # 0  BY <3>1
        <5>. QED BY <5>1
      <4>. QED BY <2>1, <3>1, <4>1 DEF Shelf!Base, Shelf!Last
    <3>3. \A i \in 1..k - 2 : n.path[i] = s[i + 2].name
      <4>1. \A i \in 1..k - 2 : i = 1 /\ i + 2 = 3  BY <2>1
      <4>. QED BY <3>2, <4>1
    <3>4. Len(n.path) = k - 2  BY <2>1, <3>1
    <3>. QED BY <1>1, <3>1, <3>3, <3>4, SameFolder DEF f, Named
  <2>2. CASE k > 3
    <3>. DEFINE g == Named(s, k - 1)
    <3>0. k - 1 \in 3..Len(s)  BY <1>2, <2>2
    <3>1. n \in c3 /\ Shelf!Parent(n) = g  BY <2>2 DEF list
    <3>2. /\ g.type = s[2].name /\ g.index = s[3].index
          /\ g.path \in Seq({Top} \cup ModelTypes \cup Shelf!Words) /\ Len(g.path) = k - 1 - 2
          /\ \A i \in 1..k - 1 - 2 : g.path[i] = s[i + 2].name
      BY <3>0, FolderNamed DEF Named
    <3>. HIDE DEF g
    <3>. SUFFICES ASSUME n.folder, Shelf!Base(n) = s[k].name, n.index = s[k].index  PROVE n = f
      BY <3>1
    <3>3. n.path \in Seq(Shelf!Words) /\ Len(n.path) \in Nat \ {0}  BY <3>1, Entries
    <3>4. Len(n.path) > 1
      <4>1. Len(n.path) # 1
        <5>1. \A u : Shelf!Root(u).path = <<>> /\ Len(<<>>) = 0  BY DEF Shelf!Root
        <5>2. Len(g.path) # 0  BY <1>2, <2>2, <3>2
        <5>3. Shelf!Parent(n) # Shelf!Root(n.type)  BY <3>1, <5>1, <5>2
        <5>. QED BY <3>1, <5>3, Parents
      <4>2. \A i \in Nat \ {0} : i # 1 => i > 1  OBVIOUS
      <4>. QED BY <3>3, <4>1, <4>2, Zenon
    <3>5. n.type = s[2].name /\ g.path = Shelf!Front(n.path) /\ Len(n.path) - 1 = k - 1 - 2
      BY <3>1, <3>2, <3>4, Parents
    <3>6. Len(n.path) = k - 2
      <4>1. \A i, j \in Nat : i - 1 = j - 1 - 2 => i = j - 2  OBVIOUS
      <4>. QED BY <1>2, <3>3, <3>5, <4>1, Zenon
    <3>7. ASSUME NEW i \in 1..k - 2  PROVE n.path[i] = s[i + 2].name
      <4>1. CASE i = k - 2
        <5>1. n.path # <<>> /\ i + 2 = k  BY <1>2, <3>3, <4>1
        <5>. QED BY <3>6, <4>1, <5>1 DEF Shelf!Base, Shelf!Last
      <4>2. CASE i # k - 2
        <5>1. i \in 1..k - 1 - 2 /\ i \in 1..Len(n.path) - 1  BY <1>2, <3>6, <4>2
        <5>2. Shelf!Front(n.path)[i] = n.path[i]
          <6>1. n.path \in Seq(Shelf!Words) /\ Len(n.path) >= 1  BY <3>3
          <6>. QED BY <5>1, <6>1, Fronts
        <5>. QED BY <3>2, <3>5, <5>1, <5>2
      <4>. QED BY <4>1, <4>2
    <3>. QED BY <1>1, <3>1, <3>5, <3>6, <3>7, SameFolder DEF f, Named
  <2>. QED BY <1>2, <2>1, <2>2
<1>5. ASSUME f \in c3  PROVE f \in list
  <2>1. CASE k = 3
    <3>1. k - 1 = 2 /\ Len(s) >= 2 /\ k - 2 = 1  BY <1>2, <2>1
    <3>. QED BY <1>1, <1>5, <3>1, ListsType DEF list
  <2>2. CASE k > 3
    <3>1. k \in 4..Len(s)  BY <1>2, <2>2
    <3>2. Shelf!Parent(f) = Named(s, k - 1)  BY <1>5, <3>1, ParentNamed DEF f
    <3>. QED BY <1>5, <2>2, <3>2 DEF list
  <2>. QED BY <1>2, <2>1, <2>2
<1>6. Shelf!FindFolder(list, s[k]) = IF f \in c3 THEN f ELSE Off
  <2>1. f \in list <=> f \in c3  BY <1>4, <1>5
  <2>. QED BY <1>1, <1>4, <2>1, Finds
<1>7. Listing(s, k) = Shelf!Below(Shelf!FindFolder(list, s[k]))
  BY <1>2, FollowNext DEF Listing, list
<1>8. CASE f \in c3
  <2>1. f # Off  BY <1>8, Entries
  <2>. QED BY <1>3, <1>6, <1>7, <1>8, <2>1 DEF Shelf!Below, Shelf!Children, f, list
<1>9. CASE f \notin c3
  <2>1. \A e \in c3 : Shelf!Parent(e) # f
    <3>. SUFFICES ASSUME NEW e \in c3, Shelf!Parent(e) = f  PROVE FALSE
      OBVIOUS
    <3>1. Len(e.path) \in Nat \ {0} /\ ~(Len(e.path) > 1)  BY <1>9, Entries, Parents
    <3>2. Len(e.path) = 1
      <4>1. \A n \in Nat \ {0} : ~(n > 1) => n = 1  OBVIOUS
      <4>. QED BY <3>1, <4>1, Zenon
    <3>3. f = Shelf!Root(e.type)  BY <3>2, Parents
    <3>4. Shelf!Root(e.type).path = <<>> /\ Len(<<>>) = 0  BY DEF Shelf!Root
    <3>. HIDE DEF Shelf!Root
    <3>. QED BY <1>1, <1>2, <3>3, <3>4
  <2>2. Listing(s, k) = {}  BY <1>6, <1>7, <1>9 DEF Shelf!Below
  <2>. QED BY <1>6, <1>9, <2>1, <2>2 DEF f, list
<1>. QED BY <1>8, <1>9, <1>6 DEF f, list

\* What the explorer lists along a breadcrumb, and which of its folders are found.
LEMMA ListsAlong ==
  ASSUME Shelf!ViewsAssumption, Shelf!ViewsInv, NEW s \in Seq(StepSet), Shelf!Crumbs(s)
  PROVE  /\ \A k \in 3..Len(s) : Listing(s, k) = {e \in c3 : Shelf!Parent(e) = Named(s, k)}
         /\ Len(s) >= 1 => Shelf!Found(s, 1)
         /\ Len(s) >= 2 => (Shelf!Found(s, 2) <=> c2)
         /\ \A k \in 3..Len(s) : Shelf!Found(s, k) <=> Named(s, k) \in c3
<1>. DEFINE Is(k) == Listing(s, k) = {e \in c3 : Shelf!Parent(e) = Named(s, k)}
            T == {k \in 0..Len(s) : k >= 3 => Is(k)}
<1>1. Len(s) \in Nat  OBVIOUS
<1>2. 0 \in T  BY <1>1
<1>3. ASSUME NEW k \in 0..Len(s), k < Len(s), k \in T  PROVE k + 1 \in T
  <2>1. k \in Nat /\ k + 1 \in 0..Len(s) /\ k + 1 - 1 = k  BY <1>1, <1>3
  <2>2. CASE k + 1 < 3
    BY <2>1, <2>2
  <2>3. CASE k + 1 >= 3
    <3>1. k + 1 \in 3..Len(s) /\ (k + 1 > 3 => k >= 3)  BY <2>1, <2>3
    <3>2. k + 1 > 3 => Is(k)  BY <1>3, <3>1
    <3>. QED BY <2>1, <3>1, <3>2, ListsFolder
  <2>. QED BY <2>1, <2>2, <2>3
<1>4. 0..Len(s) \subseteq T
  <2>. HIDE DEF T
  <2>. QED BY <1>1, <1>2, <1>3, Reaches
<1>5. ASSUME NEW k \in 3..Len(s)  PROVE Is(k)
  <2>1. k \in 0..Len(s) /\ k >= 3  BY <1>1
  <2>. QED BY <1>4, <2>1
<1>. HIDE DEF Is, T
<1>6. ASSUME NEW k \in 3..Len(s)  PROVE Shelf!Found(s, k) <=> Named(s, k) \in c3
  <2>1. k > 3 => k - 1 \in 3..Len(s)  BY <1>1
  <2>2. k > 3 => Listing(s, k - 1) = {e \in c3 : Shelf!Parent(e) = Named(s, k - 1)}
    BY <1>5, <2>1 DEF Is
  <2>3. Shelf!FindFolder(Listing(s, k - 1), s[k]) = IF Named(s, k) \in c3 THEN Named(s, k) ELSE Off
    BY <2>2, ListsFolder
  <2>4. Named(s, k) \in c3 => Named(s, k) # Off  BY Entries
  <2>. QED BY <2>3, <2>4 DEF Shelf!Found, Listing
<1>7. ASSUME Len(s) >= 1  PROVE Shelf!Found(s, 1)
  <2>1. Shelf!FindFolder(Listing(s, 0), s[1]) # Off  BY <1>7, ListsTypes, Entries
  <2>. QED BY <2>1 DEF Shelf!Found, Listing
<1>8. ASSUME Len(s) >= 2  PROVE Shelf!Found(s, 2) <=> c2
  <2>1. s[2].name \in ModelTypes  BY <1>8 DEF Shelf!Crumbs
  <2>2. Shelf!FindFolder(Listing(s, 1), s[2]) # Off <=> c2  BY <1>8, <2>1, ListsType, Entries
  <2>. QED BY <2>2 DEF Shelf!Found, Listing
<1>. QED BY <1>5, <1>6, <1>7, <1>8 DEF Is

LEMMA CrumbsCut ==
  ASSUME NEW s \in Seq(StepSet), Shelf!Crumbs(s), NEW k \in 0..Len(s)
  PROVE  /\ SubSeq(s, 1, k) \in Seq(StepSet) /\ Shelf!Crumbs(SubSeq(s, 1, k))
         /\ Len(SubSeq(s, 1, k)) = k
         /\ \A i \in 1..k : SubSeq(s, 1, k)[i] = s[i]
<1>. DEFINE t == SubSeq(s, 1, k)
<1>1. k \in Nat /\ k <= Len(s) /\ Len(s) \in Nat  OBVIOUS
<1>2. t \in Seq(StepSet) /\ Len(t) = k /\ \A i \in 1..k : t[i] = s[i]  BY <1>1
<1>. HIDE DEF t
<1>3. Len(t) >= 1 => t[1] = [name |-> Top, index |-> 0]  BY <1>1, <1>2 DEF Shelf!Crumbs
<1>4. Len(t) >= 2 => t[2].name \in ModelTypes /\ t[2].index = 0  BY <1>1, <1>2 DEF Shelf!Crumbs
<1>5. ASSUME NEW i \in 3..Len(t)  PROVE t[i].index = t[3].index
  <2>1. i \in 3..Len(s) /\ i \in 1..k /\ 3 \in 1..k  BY <1>1, <1>2
  <2>. QED BY <1>2, <2>1 DEF Shelf!Crumbs
<1>6. Shelf!Crumbs(t)  BY <1>2, <1>3, <1>4, <1>5 DEF Shelf!Crumbs, StepSet
<1>. QED BY <1>2, <1>6 DEF t

\* The breadcrumb of a folder.
LEMMA StepsAre ==
  ASSUME Shelf!ViewsAssumption, Shelf!ViewsInv,
         NEW n \in Library \cup {Shelf!Root(t) : t \in ModelTypes \cup {Top}}
  PROVE  /\ Shelf!Steps(n) \in Seq(StepSet) /\ Shelf!Crumbs(Shelf!Steps(n))
         /\ Len(Shelf!Steps(n)) =
              IF n = Shelf!Root(Top) THEN 1 ELSE IF n.path = <<>> THEN 3 ELSE Len(n.path) + 2
         /\ n # Shelf!Root(Top) =>
              /\ Shelf!Steps(n)[2] = [name |-> n.type, index |-> 0]
              /\ n.path = <<>> => Shelf!Steps(n)[3] = [name |-> n.type, index |-> n.index]
              /\ \A i \in 1..Len(n.path) :
                   Shelf!Steps(n)[i + 2] = [name |-> n.path[i], index |-> n.index]
<1>. DEFINE X == {Top} \cup ModelTypes \cup Shelf!Words
            rest == IF n.path = <<>> THEN <<n.type>> ELSE n.path
            parts == IF n = Shelf!Root(Top) THEN <<Top>> ELSE <<Top, n.type>> \o rest
<1>1. Shelf!Steps(n) = [i \in DOMAIN parts |->
        [name |-> parts[i], index |-> IF i <= 2 THEN 0 ELSE n.index]]
  BY DEF Shelf!Steps
<1>2. /\ n.index \in Nat /\ n.path \in Seq(X)
      /\ n # Shelf!Root(Top) => n.type \in ModelTypes
  <2>1. CASE n \in Library
    <3>1. n \in [type : ModelTypes, index : Nat, path : Seq(Shelf!Words) \ {<<>>}, folder : BOOLEAN]
      BY <2>1 DEF Shelf!ViewsAssumption
    <3>2. n.path \in Seq(Shelf!Words) /\ n.index \in Nat /\ n.type \in ModelTypes  BY <3>1
    <3>3. Shelf!Words \subseteq X  OBVIOUS
    <3>. HIDE DEF X
    <3>4. n.path \in Seq(X)  BY <3>2, <3>3
    <3>. QED BY <3>2, <3>4
  <2>2. CASE n \in {Shelf!Root(t) : t \in ModelTypes \cup {Top}}
    <3>1. PICK t \in ModelTypes \cup {Top} : n = Shelf!Root(t)  BY <2>2
    <3>2. n.index = 0 /\ n.path = <<>> /\ n.type = t  BY <3>1 DEF Shelf!Root
    <3>. HIDE DEF X, Shelf!Root
    <3>3. n # Shelf!Root(Top) => t \in ModelTypes  BY <3>1
    <3>. QED BY <3>2, <3>3
  <2>. QED BY <2>1, <2>2
<1>3. CASE n = Shelf!Root(Top)
  <2>. DEFINE st == Shelf!Steps(n)
  <2>1. st = [i \in 1..1 |-> [name |-> <<Top>>[i], index |-> IF i <= 2 THEN 0 ELSE n.index]]
    BY <1>1, <1>3
  <2>2. st \in Seq(StepSet) /\ Len(st) = 1 /\ st[1] = [name |-> Top, index |-> 0]
    BY <1>2, <2>1 DEF StepSet
  <2>. HIDE DEF st
  <2>3. Shelf!Crumbs(st)  BY <2>2 DEF Shelf!Crumbs, StepSet
  <2>. QED BY <1>3, <2>2, <2>3 DEF st
<1>4. CASE n # Shelf!Root(Top)
  <2>0. n.type \in X /\ Top \in X  BY <1>2, <1>4
  <2>. HIDE DEF X
  <2>1. rest \in Seq(X) /\ Len(rest) = IF n.path = <<>> THEN 1 ELSE Len(n.path)
    <3>1. <<n.type>> \in Seq(X) /\ Len(<<n.type>>) = 1  BY <2>0
    <3>2. CASE n.path = <<>>
      BY <3>1, <3>2
    <3>3. CASE n.path # <<>>
      BY <1>2, <3>3
    <3>. QED BY <3>2, <3>3
  <2>2. /\ parts \in Seq(X) /\ Len(parts) = Len(rest) + 2 /\ parts[1] = Top /\ parts[2] = n.type
        /\ \A i \in 1..Len(rest) : parts[i + 2] = rest[i]
    <3>. HIDE DEF rest
    <3>. DEFINE front == <<Top, n.type>>
    <3>0. rest \in Seq(X) /\ Len(rest) \in Nat  BY <1>2, <2>1
    <3>1. front \in Seq(X) /\ Len(front) = 2 /\ front[1] = Top /\ front[2] = n.type  BY <2>0
    <3>2. parts = front \o rest  BY <1>4
    <3>. HIDE DEF front, parts
    <3>3. parts \in Seq(X) /\ Len(parts) = Len(rest) + 2 /\ parts[1] = Top /\ parts[2] = n.type
      <4>1. 1 \in 1..Len(front) + Len(rest) /\ 2 \in 1..Len(front) + Len(rest)
            /\ 1 <= Len(front) /\ 2 <= Len(front) /\ Len(front) + Len(rest) = Len(rest) + 2
        BY <3>0, <3>1
      <4>2. parts \in Seq(X) /\ Len(parts) = Len(front) + Len(rest)
            /\ \A i \in 1..Len(front) + Len(rest) :
                 parts[i] = IF i <= Len(front) THEN front[i] ELSE rest[i - Len(front)]
        BY <3>0, <3>1, <3>2, ConcatProperties
      <4>. QED BY <3>1, <4>1, <4>2
    <3>4. ASSUME NEW i \in 1..Len(rest)  PROVE parts[i + 2] = rest[i]
      <4>1. i + 2 - Len(front) = i /\ i + 2 > Len(front) /\ i + 2 \in 1..Len(front) + Len(rest)
        BY <3>0, <3>1
      <4>2. ~(i + 2 <= Len(front))  BY <3>1
      <4>3. parts[i + 2] = IF i + 2 <= Len(front) THEN front[i + 2] ELSE rest[i + 2 - Len(front)]
        <5>1. \A j \in 1..Len(front) + Len(rest) :
                parts[j] = IF j <= Len(front) THEN front[j] ELSE rest[j - Len(front)]
          BY <3>0, <3>1, <3>2, ConcatProperties
        <5>. QED BY <4>1, <5>1
      <4>. QED BY <4>1, <4>2, <4>3
    <3>. QED BY <3>3, <3>4
  <2>3. Len(rest) \in Nat /\ Len(parts) \in Nat /\ Len(rest) >= 1
    BY <1>2, <2>1, <2>2
  <2>. HIDE DEF parts, rest
  <2>. DEFINE st == Shelf!Steps(n)
  <2>4. st = [i \in 1..Len(parts) |-> [name |-> parts[i], index |-> IF i <= 2 THEN 0 ELSE n.index]]
    <3>1. DOMAIN parts = 1..Len(parts)  BY <2>2
    <3>. QED BY <1>1, <3>1
  <2>5. \A i \in 1..Len(parts) : parts[i] \in X /\ (IF i <= 2 THEN 0 ELSE n.index) \in Nat
    BY <1>2, <2>2
  <2>. HIDE DEF st
  <2>6. st \in Seq(StepSet) /\ Len(st) = Len(parts)
    <3>1. \A i \in 1..Len(parts) :
            [name |-> parts[i], index |-> IF i <= 2 THEN 0 ELSE n.index] \in StepSet
      BY <2>5 DEF StepSet, X
    <3>. QED BY <2>3, <2>4, <3>1
  <2>7. \A i \in 1..Len(parts) :
          st[i] = [name |-> parts[i], index |-> IF i <= 2 THEN 0 ELSE n.index]
    BY <2>4
  <2>. HIDE DEF st, X, rest
  <2>8. st[1] = [name |-> Top, index |-> 0] /\ st[2] = [name |-> n.type, index |-> 0]
    BY <2>2, <2>3, <2>7
  <2>9. \A i \in 1..Len(rest) : st[i + 2] = [name |-> rest[i], index |-> n.index]
    <3>1. \A i \in 1..Len(rest) : i + 2 \in 1..Len(parts) /\ ~(i + 2 <= 2)  BY <2>2, <2>3
    <3>. QED BY <2>2, <2>7, <3>1
  <2>10. Shelf!Crumbs(st)
    <3>1. \A i \in 3..Len(st) : i \in 1..Len(parts) /\ ~(i <= 2) /\ 3 \in 1..Len(parts)
      BY <2>3, <2>6
    <3>2. \A i \in 3..Len(st) : st[i].index = n.index /\ st[3].index = n.index
      <4>1. ASSUME NEW i \in 1..Len(parts), ~(i <= 2)  PROVE st[i].index = n.index
        <5>1. st[i] = [name |-> parts[i], index |-> n.index]  BY <2>7, <4>1
        <5>. QED BY <5>1
      <4>2. ~(3 <= 2)  OBVIOUS
      <4>. QED BY <3>1, <4>1, <4>2
    <3>. QED BY <1>2, <1>4, <2>6, <2>8, <3>2 DEF Shelf!Crumbs, StepSet
  <2>11. n.path = <<>> => rest = <<n.type>>  BY DEF rest
  <2>12. n.path = <<>> => st[3] = [name |-> n.type, index |-> n.index] /\ Len(n.path) = 0
    <3>1. n.path = <<>> => Len(rest) = 1 /\ rest[1] = n.type  BY <2>11
    <3>. QED BY <2>9, <3>1
  <2>13. n.path # <<>> => rest = n.path  BY DEF rest
  <2>14. \A i \in 1..Len(n.path) : st[i + 2] = [name |-> n.path[i], index |-> n.index]
    <3>1. CASE n.path = <<>>
      BY <2>12, <3>1
    <3>2. CASE n.path # <<>>
      BY <2>9, <2>13, <3>2
    <3>. QED BY <3>1, <3>2
  <2>15. Len(st) = IF n.path = <<>> THEN 3 ELSE Len(n.path) + 2
    BY <2>1, <2>2, <2>6
  <2>. QED BY <1>4, <2>6, <2>8, <2>10, <2>12, <2>14, <2>15 DEF st
<1>. QED BY <1>3, <1>4

\* openFolder goes as far as the folders are found, and no further.
LEMMA OpenedIs ==
  ASSUME NEW n, Shelf!Steps(n) \in Seq(StepSet)
  PROVE  \E i \in 0..Len(Shelf!Steps(n)) :
            /\ Shelf!Opened(n) = SubSeq(Shelf!Steps(n), 1, i)
            /\ \A j \in 1..i : Shelf!Found(Shelf!Steps(n), j)
            /\ i < Len(Shelf!Steps(n)) => ~Shelf!Found(Shelf!Steps(n), i + 1)
<1>. DEFINE s == Shelf!Steps(n)
            Stops(i) == (\A j \in 1..i : Shelf!Found(s, j))
              /\ (i < Len(s) => ~Shelf!Found(s, i + 1))
            N == {i \in 0..Len(s) : i < Len(s) => ~Shelf!Found(s, i + 1)}
<1>1. Len(s) \in Nat  OBVIOUS
<1>2. N \in SUBSET Nat /\ Len(s) \in N  BY <1>1
<1>3. PICK i \in N : \A m \in N : i <= m
  <2>. HIDE DEF N
  <2>. QED BY <1>2, Least
<1>4. ASSUME NEW j \in 1..i  PROVE Shelf!Found(s, j)
  <2>1. i \in Nat /\ i <= Len(s)  BY <1>1
  <2>2. j - 1 \in 0..Len(s) /\ j - 1 < Len(s) /\ ~(i <= j - 1) /\ j - 1 + 1 = j  BY <1>1, <2>1
  <2>3. j - 1 \notin N  BY <1>3, <2>2
  <2>. QED BY <2>2, <2>3
<1>5. i \in 0..Len(s) /\ Stops(i)  BY <1>4
<1>. DEFINE c == CHOOSE k \in 0..Len(s) : Stops(k)
<1>6. Shelf!Opened(n) = SubSeq(s, 1, c)  BY DEF Shelf!Opened
<1>. HIDE DEF Stops, s
<1>7. c \in 0..Len(s) /\ Stops(c)  BY <1>5
<1>. HIDE DEF c
<1>. QED BY <1>6, <1>7 DEF Stops, s

\* With a folder all the folders that it lies in are listed.
LEMMA AllThere ==
  ASSUME Shelf!ViewsAssumption, Shelf!ViewsInv, NEW s \in Seq(StepSet), Shelf!Crumbs(s),
         Len(s) >= 3,
         Named(s, Len(s)) \in c3
  PROVE  \A k \in 3..Len(s) : Named(s, k) \in c3
<1>. DEFINE N == Len(s) - 3
            T == {i \in 0..N : Named(s, Len(s) - i) \in c3}
<1>1. Len(s) \in Nat /\ N \in Nat  OBVIOUS
<1>2. 0 \in T  BY <1>1
<1>3. ASSUME NEW i \in 0..N, i < N, i \in T  PROVE i + 1 \in T
  <2>. DEFINE k == Len(s) - i
              f == Named(s, k)
  <2>1. k \in 3..Len(s) /\ k - 1 \in 3..Len(s) /\ k > 3 /\ k - 1 = Len(s) - (i + 1)
          /\ i + 1 \in 0..N
        /\ k \in Nat
    BY <1>1, <1>3
  <2>2. f \in c3  BY <1>3
  <2>3. k \in 4..Len(s)  BY <2>1
  <2>4. Named(s, k - 1) \in c3  BY <2>2, <2>3, ParentNamed
  <2>. QED BY <2>1, <2>4
<1>4. 0..N \subseteq T
  <2>. HIDE DEF T, N
  <2>. QED BY <1>1, <1>2, <1>3, Reaches
<1>5. ASSUME NEW k \in 3..Len(s)  PROVE Named(s, k) \in c3
  <2>1. Len(s) - k \in 0..N /\ Len(s) - (Len(s) - k) = k  BY <1>1
  <2>. QED BY <1>4, <2>1
<1>. QED BY <1>5

\* The folder that is opened is shown.
LEMMA ShowsIt ==
  ASSUME Shelf!ViewsAssumption, Shelf!ViewsInv,
         NEW n \in Library \cup {Shelf!Root(t) : t \in ModelTypes \cup {Top}}, n.folder
  PROVE  /\ Shelf!Opened(n) \in Seq(StepSet) /\ Shelf!Crumbs(Shelf!Opened(n))
         /\ n \in Shelf!Nodes /\ ~Shelf!SelfNamed(n) =>
              IF Len(Shelf!Opened(n)) < 2 THEN n = Shelf!Root(Top)
              ELSE Shelf!FolderAt(Shelf!Opened(n)) = n
<1>. DEFINE s == Shelf!Steps(n)
<1>1. s \in Seq(StepSet) /\ Shelf!Crumbs(s) /\ Len(s) \in Nat
  <2>1. s \in Seq(StepSet) /\ Shelf!Crumbs(s)  BY StepsAre
  <2>. HIDE DEF s
  <2>. QED BY <2>1
<1>2. PICK i \in 0..Len(s) : /\ Shelf!Opened(n) = SubSeq(s, 1, i)
                             /\ \A j \in 1..i : Shelf!Found(s, j)
                             /\ i < Len(s) => ~Shelf!Found(s, i + 1)
  BY <1>1, OpenedIs
<1>3. Shelf!Opened(n) \in Seq(StepSet) /\ Shelf!Crumbs(Shelf!Opened(n)) /\ Len(Shelf!Opened(n)) = i
      /\ \A j \in 1..i : Shelf!Opened(n)[j] = s[j]
  BY <1>1, <1>2, CrumbsCut
<1>4. ASSUME n \in Shelf!Nodes, ~Shelf!SelfNamed(n)
      PROVE  IF i < 2 THEN n = Shelf!Root(Top) ELSE Shelf!FolderAt(Shelf!Opened(n)) = n
  <2>0. i \in Nat /\ i <= Len(s)  BY <1>1
  <2>1. CASE n = Shelf!Root(Top)
    <3>1. Len(s) = 1  BY <2>1, StepsAre
    <3>2. i < 2  BY <2>0, <3>1
    <3>. QED BY <2>1, <3>2
  <2>2. CASE n \in Shelf!TypeRoots /\ n # Shelf!Root(Top)
    <3>1. PICK t \in ModelTypes : n = Shelf!Root(t)  BY <2>2 DEF Shelf!TypeRoots
    <3>2. c2  BY <2>2 DEF Shelf!TypeRoots
    <3>3. n.path = <<>> /\ n.type = t /\ n.index = 0  BY <3>1 DEF Shelf!Root
    <3>4. /\ Len(s) = 3 /\ s[2] = [name |-> t, index |-> 0] /\ s[3] = [name |-> t, index |-> 0]
      BY <2>2, <3>3, StepsAre
    <3>5. ~ Shelf!Found(s, 3)
      <4>. SUFFICES ASSUME Named(s, 3) \in c3  PROVE FALSE
        BY <1>1, <3>4, ListsAlong
      <4>. DEFINE f == Named(s, 3)
      <4>1. /\ f.type = t /\ f.index = 0 /\ f.folder = TRUE
            /\ f.path \in Seq({Top} \cup ModelTypes \cup Shelf!Words)
            /\ Len(f.path) = 1 /\ f.path[1] = t
        <5>1. 3 \in 3..Len(s) /\ 3 - 2 = 1 /\ 1 \in 1..3 - 2 /\ 1 + 2 = 3  BY <3>4
        <5>2. /\ f.type = s[2].name /\ f.index = s[3].index /\ f.folder = TRUE
              /\ f.path \in Seq({Top} \cup ModelTypes \cup Shelf!Words) /\ Len(f.path) = 3 - 2
              /\ \A j \in 1..3 - 2 : f.path[j] = s[j + 2].name
          BY <1>1, <5>1, FolderNamed DEF Named
        <5>. HIDE DEF f, s
        <5>3. f.path[1] = s[3].name /\ Len(f.path) = 1  BY <5>1, <5>2
        <5>. QED BY <3>4, <5>2, <5>3
      <4>. HIDE DEF f
      <4>2. f.path = <<t>>  BY <4>1
      <4>3. f \in c3  BY DEF f
      <4>. QED BY <1>4, <3>3, <4>1, <4>2, <4>3 DEF Shelf!SelfNamed
    <3>6. Shelf!Found(s, 1) /\ Shelf!Found(s, 2)
      <4>1. Len(s) >= 1 /\ Len(s) >= 2  BY <3>4
      <4>. QED BY <1>1, <3>2, <4>1, ListsAlong
    <3>7. i = 2
      <4>1. i # 3  BY <1>2, <3>4, <3>5
      <4>2. i # 0 /\ i # 1
        <5>. SUFFICES ASSUME i = 0 \/ i = 1  PROVE FALSE
          OBVIOUS
        <5>1. i < Len(s) /\ (i + 1 = 1 \/ i + 1 = 2)  BY <3>4
        <5>. QED BY <1>2, <3>6, <5>1
      <4>3. i \in 0..3  BY <3>4
      <4>. QED BY <4>1, <4>2, <4>3
    <3>. DEFINE o == Shelf!Opened(n)
    <3>8. o[2] = [name |-> t, index |-> 0] /\ Len(o) = 2 /\ o \in Seq(StepSet)  BY <1>3, <3>4, <3>7
    <3>. HIDE DEF o
    <3>9. [j \in 1..Len(o) - 2 |-> o[j + 2].name] = <<>>  BY <3>8
    <3>10. Shelf!FolderAt(o) = [type |-> t, index |-> 0, path |-> <<>>, folder |-> TRUE]
      <4>1. Shelf!Last(o) = o[2] /\ o[2].name = t /\ o[2].index = 0  BY <3>8 DEF Shelf!Last
      <4>. QED BY <3>9, <4>1 DEF Shelf!FolderAt
    <3>. QED BY <3>1, <3>7, <3>10 DEF Shelf!Root, o
  <2>3. CASE n \in c3
    <3>1. /\ n.path \in Seq(Shelf!Words) /\ Len(n.path) \in Nat \ {0} /\ n.path # <<>>
          /\ n.type \in ModelTypes /\ n.folder = TRUE
      <4>1. n.path \in Seq(Shelf!Words) /\ Len(n.path) \in Nat \ {0} /\ n.type \in ModelTypes
              /\ n.folder \in BOOLEAN
        BY <2>3, Entries
      <4>2. Len(<<>>) = 0 /\ Len(n.path) # 0  BY <4>1
      <4>. QED BY <4>1, <4>2
    <3>2. n # Shelf!Root(Top)
      <4>1. Shelf!Root(Top).path = <<>>  BY DEF Shelf!Root
      <4>. QED BY <3>1, <4>1
    <3>3. /\ Len(s) = Len(n.path) + 2 /\ s[2] = [name |-> n.type, index |-> 0]
          /\ \A j \in 1..Len(n.path) : s[j + 2] = [name |-> n.path[j], index |-> n.index]
      BY <3>1, <3>2, StepsAre
    <3>4. Len(s) >= 3 /\ Len(s) \in 3..Len(s) /\ Len(n.path) = Len(s) - 2 /\ 1 \in 1..Len(n.path)
            /\ 1 + 2 = 3
      BY <3>1, <3>3
    <3>. HIDE DEF s
    <3>5. s[2].name = n.type /\ s[3].index = n.index
          /\ \A j \in 1..Len(s) - 2 : n.path[j] = s[j + 2].name
      <4>1. ASSUME NEW j \in 1..Len(n.path)
            PROVE s[j + 2].name = n.path[j] /\ s[j + 2].index = n.index
        <5>1. s[j + 2] = [name |-> n.path[j], index |-> n.index]  BY <3>3
        <5>. QED BY <5>1
      <4>2. s[1 + 2].index = n.index  BY <3>4, <4>1
      <4>3. \A j \in 1..Len(s) - 2 : j \in 1..Len(n.path)  BY <3>4
      <4>. QED BY <3>3, <3>4, <4>1, <4>2, <4>3
    <3>6. n = Named(s, Len(s))
      BY <1>1, <2>3, <3>1, <3>4, <3>5, SameFolder DEF Named
    <3>7. \A k \in 3..Len(s) : Named(s, k) \in c3
      BY <1>1, <2>3, <3>4, <3>6, AllThere
    <3>8. c2  BY <2>3 DEF Shelf!ViewsInv
    <3>9. \A k \in 1..Len(s) : Shelf!Found(s, k)
      <4>1. \A k \in 1..Len(s) : k = 1 \/ k = 2 \/ k \in 3..Len(s)  BY <1>1
      <4>2. Len(s) >= 1 /\ Len(s) >= 2  BY <3>4
      <4>. QED BY <1>1, <3>7, <3>8, <4>1, <4>2, ListsAlong
    <3>10. i = Len(s)
      <4>. SUFFICES ASSUME i < Len(s)  PROVE FALSE
        BY <1>1, <2>0
      <4>1. i + 1 \in 1..Len(s)  BY <1>1, <2>0
      <4>. QED BY <1>2, <3>9, <4>1 DEF s
    <3>. QED BY <1>2, <2>0, <3>4, <3>6, <3>10 DEF Named, s
  <2>. QED BY <1>4, <2>1, <2>2, <2>3 DEF Shelf!Nodes
<1>. QED BY <1>3, <1>4

\* The place in the list of a cell.
Place(c, n) == (c[1] - 1) * n + c[2]

\* Each place of a list is that of a cell.
Covers(s, n, rows) ==
  \A k \in 1..Len(s) : \E i \in DOMAIN rows : \E j \in 1..n :
    j \in DOMAIN rows[i] /\ k = (i - 1) * n + j

LEMMA Cell ==
  ASSUME NEW n \in Nat \ {0}, NEW i \in Nat \ {0}, NEW j \in 1..n, NEW k \in Nat \ {0},
         NEW l \in 1..n
  PROVE  /\ (i - 1) * n + j \in Nat \ {0}
         /\ i < k => (i - 1) * n + j < (k - 1) * n + l
         /\ (i - 1) * n + j = (k - 1) * n + l => i = k /\ j = l
<1>1. ASSUME NEW a \in Nat \ {0}, NEW b \in Nat \ {0}, a < b, NEW x \in 1..n, NEW y \in 1..n
      PROVE  (a - 1) * n + x < (b - 1) * n + y
  <2>1. a - 1 \in Nat /\ b - 1 \in Nat /\ a - 1 + 1 = a /\ a <= b - 1  BY <1>1
  <2>2. (a - 1) * n \in Nat /\ a * n = (a - 1) * n + n  BY <2>1, Row
  <2>3. a * n <= (b - 1) * n  BY <1>1, <2>1, Row
  <2>4. (b - 1) * n \in Nat /\ a * n \in Nat  BY <2>1, Row
  <2>. HIDE DEF Row
  <2>5. x <= n /\ y >= 1 /\ x \in Nat /\ y \in Nat  OBVIOUS
  <2>. QED BY <2>2, <2>3, <2>4, <2>5
<1>2. (i - 1) * n \in Nat  BY Row
<1>3. (k - 1) * n \in Nat  BY Row
<1>4. ASSUME (i - 1) * n + j = (k - 1) * n + l  PROVE i = k /\ j = l
  <2>1. ~(i < k) /\ ~(k < i)
    <3>1. i < k => (i - 1) * n + j < (k - 1) * n + l  BY <1>1
    <3>2. k < i => (k - 1) * n + l < (i - 1) * n + j  BY <1>1
    <3>. QED BY <1>2, <1>3, <1>4, <3>1, <3>2
  <2>2. i = k  BY <2>1
  <2>. QED BY <1>2, <1>4, <2>2
<1>5. (i - 1) * n + j \in Nat \ {0}  BY <1>2
<1>6. i < k => (i - 1) * n + j < (k - 1) * n + l  BY <1>1
<1>. QED BY <1>4, <1>5, <1>6

\* chunkRows cuts a list into full rows, but for the last, without a gap.
LEMMA Chunks ==
  ASSUME NEW S, NEW s \in Seq(S), NEW n \in Nat \ {0}, NEW rows, rows = Shelf!Chunked(s, n)
  PROVE  /\ \A i \in DOMAIN rows : /\ i \in Nat \ {0} /\ rows[i] \in Seq(S)
                                   /\ Len(rows[i]) = n \/ (i = Len(rows) /\ rows[i] # <<>>)
         /\ \A i \in DOMAIN rows : \A j \in DOMAIN rows[i] :
              j \in 1..n /\ (i - 1) * n + j \in 1..Len(s) /\ rows[i][j] = s[(i - 1) * n + j]
         /\ Covers(s, n, rows)
<1>. DEFINE N == Len(s)
            q == (N + n - 1) \div n
            end(i) == IF i * n < N THEN i * n ELSE N
            row(i) == SubSeq(s, (i - 1) * n + 1, end(i))
<1>1. N \in Nat /\ N + n - 1 \in Nat  OBVIOUS
<1>2. q \in Nat /\ q * n <= N + n - 1 /\ N + n - 1 < q * n + n  BY <1>1, Division
<1>3. rows = [i \in 1..q |-> row(i)]
  BY DEF Shelf!Chunked
<1>. HIDE DEF N, q
<1>4. ASSUME NEW i \in 1..q
      PROVE  /\ i \in Nat \ {0} /\ i - 1 \in Nat /\ (i - 1) * n \in Nat /\ i * n = (i - 1) * n + n
             /\ (i - 1) * n < N /\ (i < q => i * n <= N)
             /\ row(i) \in Seq(S) /\ Len(row(i)) = end(i) - (i - 1) * n
             /\ \A j \in 1..Len(row(i)) : row(i)[j] = s[(i - 1) * n + j]
             /\ Len(row(i)) \in 1..n /\ (i < q => Len(row(i)) = n)
  <2>1. i \in Nat \ {0} /\ i - 1 \in Nat /\ i - 1 + 1 = i /\ i <= q  BY <1>2
  <2>2. (i - 1) * n \in Nat /\ i * n = (i - 1) * n + n /\ i * n \in Nat  BY <2>1, Row
  <2>3. i * n <= q * n /\ q * n \in Nat  BY <1>2, <2>1, Row
  <2>4. (i - 1) * n < N
    <3>1. \A a, b, c \in Nat : a <= b /\ b <= N + n - 1 /\ a = c + n => c < N  BY <1>1
    <3>. QED BY <1>2, <2>2, <2>3, <3>1
  <2>5. i < q => i * n <= N
    <3>. SUFFICES ASSUME i < q  PROVE i * n <= N
      OBVIOUS
    <3>1. q - 1 \in Nat /\ i <= q - 1 /\ q - 1 + 1 = q  BY <1>2, <2>1
    <3>2. i * n <= (q - 1) * n /\ q * n = (q - 1) * n + n /\ (q - 1) * n \in Nat  BY <2>1, <3>1, Row
    <3>3. \A a, b, c \in Nat : a <= b /\ c = b + n /\ c <= N + n - 1 => a <= N  BY <1>1
    <3>. QED BY <1>2, <2>2, <2>3, <3>2, <3>3
  <2>. DEFINE a == (i - 1) * n
              e == end(i)
  <2>6. a \in Nat /\ e \in Nat /\ a < e /\ e <= N /\ e <= a + n /\ (i < q => e = a + n)
    <3>1. i * n < N => e = i * n  OBVIOUS
    <3>2. ~(i * n < N) => e = N  OBVIOUS
    <3>3. a \in Nat /\ i * n = a + n /\ i * n \in Nat /\ a < N  BY <2>2, <2>4
    <3>. HIDE DEF a, e
    <3>. QED BY <1>1, <2>5, <3>1, <3>2, <3>3
  <2>. HIDE DEF a, e
  <2>7. row(i) = SubSeq(s, a + 1, e)  BY DEF a, e
  <2>8. /\ SubSeq(s, a + 1, e) \in Seq(S) /\ Len(SubSeq(s, a + 1, e)) = e - a
        /\ \A j \in 1..e - a : SubSeq(s, a + 1, e)[j] = s[a + j]
    BY <1>1, <2>6, SubSeqProperties DEF N
  <2>. HIDE DEF row
  <2>9. row(i) \in Seq(S) /\ Len(row(i)) = e - a /\ \A j \in 1..e - a : row(i)[j] = s[a + j]
    BY <2>7, <2>8
  <2>10. Len(row(i)) \in 1..n /\ (i < q => Len(row(i)) = n)
    BY <2>6, <2>9
  <2>11. \A j \in 1..Len(row(i)) : row(i)[j] = s[a + j]
    BY <2>9
  <2>12. /\ row(i) \in Seq(S) /\ Len(row(i)) = end(i) - (i - 1) * n
         /\ \A j \in 1..Len(row(i)) : row(i)[j] = s[(i - 1) * n + j]
    BY <2>9, <2>11 DEF a, e
  <2>. QED BY <2>1, <2>2, <2>4, <2>5, <2>10, <2>12
<1>. HIDE DEF row, end
<1>5. DOMAIN rows = 1..q /\ Len(rows) = q /\ \A i \in 1..q : rows[i] = row(i)
  <2>1. DOMAIN rows = 1..q  BY <1>3
  <2>. QED BY <1>2, <1>3, <2>1
<1>6. ASSUME NEW i \in DOMAIN rows
      PROVE  /\ i \in Nat \ {0} /\ rows[i] \in Seq(S)
             /\ Len(rows[i]) = n \/ (i = Len(rows) /\ rows[i] # <<>>)
  <2>1. i \in 1..q /\ rows[i] = row(i)  BY <1>5
  <2>2. i < q \/ i = q  BY <1>2, <2>1
  <2>3. Len(row(i)) # 0 /\ Len(<<>>) = 0
    <3>1. Len(row(i)) \in 1..n  BY <1>4, <2>1
    <3>. QED BY <3>1
  <2>. QED BY <1>4, <1>5, <2>1, <2>2, <2>3
<1>7. ASSUME NEW i \in DOMAIN rows, NEW j \in DOMAIN rows[i]
      PROVE  j \in 1..n /\ (i - 1) * n + j \in 1..N /\ rows[i][j] = s[(i - 1) * n + j]
  <2>1. i \in 1..q /\ rows[i] = row(i)  BY <1>5
  <2>2. /\ (i - 1) * n \in Nat /\ i * n = (i - 1) * n + n /\ row(i) \in Seq(S)
        /\ Len(row(i)) = end(i) - (i - 1) * n /\ Len(row(i)) \in 1..n
        /\ \A l \in 1..Len(row(i)) : row(i)[l] = s[(i - 1) * n + l]
    BY <1>4, <2>1
  <2>3. j \in 1..Len(row(i)) /\ end(i) <= N /\ end(i) \in Nat
    <3>1. end(i) <= N /\ end(i) \in Nat
      <4>1. i * n \in Nat  BY <2>2
      <4>. QED BY <1>1, <4>1 DEF end
    <3>. QED BY <2>1, <2>2, <3>1
  <2>4. (i - 1) * n + j \in 1..N
    <3>. DEFINE a == (i - 1) * n
    <3>1. a \in Nat /\ Len(row(i)) = end(i) - a /\ j \in Nat /\ j >= 1 /\ j <= Len(row(i))
      BY <2>2, <2>3
    <3>. HIDE DEF a
    <3>2. a + j \in 1..N  BY <1>1, <2>3, <3>1
    <3>. QED BY <3>2 DEF a
  <2>5. j \in 1..n  BY <2>2, <2>3
  <2>. QED BY <2>1, <2>2, <2>3, <2>4, <2>5
<1>8. ASSUME NEW k \in 1..N
      PROVE  \E i \in DOMAIN rows : \E j \in 1..n : j \in DOMAIN rows[i] /\ k = (i - 1) * n + j
  <2>. DEFINE p == (k - 1) \div n
  <2>1. k - 1 \in Nat /\ p \in Nat /\ p * n <= k - 1 /\ k - 1 < p * n + n /\ p * n \in Nat
    <3>1. k - 1 \in Nat  BY <1>1
    <3>. QED BY <3>1, Division, Row
  <2>. HIDE DEF p
  <2>. DEFINE b == p * n
              j == k - b
              i == p + 1
  <2>2. b \in Nat /\ b < k /\ k <= b + n /\ k <= N /\ k \in Nat
    <3>1. p * n \in Nat /\ p * n <= k - 1 /\ k - 1 < p * n + n  BY <2>1
    <3>. HIDE DEF p
    <3>2. b \in Nat /\ b <= k - 1 /\ k - 1 < b + n  BY <3>1
    <3>. HIDE DEF b
    <3>. QED BY <1>1, <3>2
  <2>3. i \in Nat /\ i - 1 = p /\ (i - 1) * n = b  BY <2>1
  <2>. HIDE DEF b
  <2>4. j \in 1..n /\ k = b + j  BY <2>2
  <2>5. i <= q
    <3>. SUFFICES ASSUME q <= p  PROVE FALSE
      BY <1>2, <2>1
    <3>1. q * n <= p * n /\ q * n \in Nat  BY <1>2, <2>1, Row
    <3>2. \A x \in Nat : x <= b /\ N + n - 1 < x + n => FALSE  BY <1>1, <2>2
    <3>. QED BY <1>2, <3>1, <3>2 DEF b
  <2>. HIDE DEF i, j
  <2>6. i \in 1..q /\ i - 1 + 1 = i  BY <1>2, <2>1, <2>3, <2>5
  <2>7. j <= Len(row(i))
    <3>1. Len(row(i)) = end(i) - b /\ i * n = b + n  BY <1>4, <2>3, <2>6
    <3>2. end(i) >= k /\ end(i) \in Nat  BY <1>1, <2>2, <3>1 DEF end
    <3>. QED BY <2>2, <2>4, <3>1, <3>2
  <2>8. j \in DOMAIN rows[i]
    <3>1. rows[i] = row(i) /\ row(i) \in Seq(S)  BY <1>4, <1>5, <2>6
    <3>. QED BY <2>4, <2>7, <3>1
  <2>. QED BY <1>5, <2>3, <2>4, <2>6, <2>8
<1>. QED BY <1>6, <1>7, <1>8 DEF N, Covers

\* What lies before an entry does so before those behind it.
LEMMA Befores ==
  ASSUME Shelf!ViewsAssumption, Shelf!ViewsInv, NEW a \in c3, NEW b \in c3, NEW c \in c3
  PROVE  /\ ~Shelf!Before(a, a) /\ (a = b \/ Shelf!Before(a, b) \/ Shelf!Before(b, a))
         /\ ~(Shelf!Before(a, b) /\ Shelf!Before(b, a))
         /\ Shelf!Before(a, b) /\ Shelf!Before(b, c) => Shelf!Before(a, c)
         /\ Shelf!Before(a, b) /\ b \in c12 => a \in c12
<1>1. Order[c10] \in Shelf!Injection(Library, Int) /\ a \in Library /\ b \in Library
        /\ c \in Library
  BY DEF Shelf!ViewsAssumption, Shelf!ViewsInv
<1>. DEFINE at(e) == Order[c10][e]
<1>2. at(a) \in Int /\ at(b) \in Int /\ at(c) \in Int /\ (at(a) = at(b) => a = b)
  BY <1>1 DEF Shelf!Injection, Shelf!IsInjective
<1>. DEFINE B(x, y) == IF (x \in c12) # (y \in c12) THEN x \in c12 ELSE at(x) < at(y)
<1>3. \A x, y : Shelf!Before(x, y) <=> B(x, y)  BY DEF Shelf!Before
<1>. HIDE DEF at
<1>4. ~B(a, a) /\ (a = b \/ B(a, b) \/ B(b, a)) /\ ~(B(a, b) /\ B(b, a))  BY <1>2
<1>5. B(a, b) /\ B(b, c) => B(a, c)  BY <1>2
<1>6. B(a, b) /\ b \in c12 => a \in c12  BY <1>2
<1>. HIDE DEF B
<1>. QED BY <1>3, <1>4, <1>5, <1>6

\* The list of the grid has each model that passes the filters once, the stars first.
LEMMA Lines ==
  ASSUME Shelf!ViewsAssumption, Shelf!ViewsInv
  PROVE  LET s == Shelf!Sorted(Shelf!Filtered) IN
         /\ s \in Seq(Shelf!Filtered) /\ \A m \in Shelf!Filtered : \E k \in 1..Len(s) : s[k] = m
         /\ \A k, l \in 1..Len(s) : s[k] = s[l] => k = l
         /\ \A k, l \in 1..Len(s) : s[k] \notin c12 /\ s[l] \in c12 => l < k
<1>. DEFINE F == Shelf!Filtered
            N == Cardinality(F)
            upto == [m \in F |-> Shelf!Upto(F, m)]
            nth == Shelf!Sorted(F)
<1>1. F \subseteq c3 /\ c3 \subseteq Library  BY DEF Shelf!Filtered, Shelf!ViewsInv
<1>2. IsFiniteSet(F)
  <2>1. F \in SUBSET Library /\ IsFiniteSet(Library)  BY <1>1, SameSizes DEF Shelf!ViewsAssumption
  <2>. HIDE DEF F
  <2>. QED BY <2>1, FS_Subset
<1>. HIDE DEF F
<1>3. upto \in [F -> SUBSET F] /\ \A a, b \in F : b \in upto[a] <=> b = a \/ Shelf!Before(b, a)
  BY DEF Shelf!Upto
<1>4. \A a \in F : a \in upto[a]  BY <1>3
<1>5. nth = [k \in 1..N |-> CHOOSE m \in F : Cardinality(upto[m]) = k]
  <2>1. \A m \in F : upto[m] = Shelf!Upto(F, m)  OBVIOUS
  <2>2. nth = [k \in 1..N |-> CHOOSE m \in F : Cardinality(Shelf!Upto(F, m)) = k]
    <3>1. nth = [k \in 1..Shelf!Cardinality(F) |->
                   CHOOSE m \in F : Shelf!Cardinality(Shelf!Upto(F, m)) = k]
      BY DEF Shelf!Sorted
    <3>. HIDE DEF nth
    <3>. QED BY <3>1, SameSizes
  <2>. HIDE DEF upto, nth, N
  <2>3. \A k : (CHOOSE m \in F : Cardinality(Shelf!Upto(F, m)) = k) =
          CHOOSE m \in F : Cardinality(upto[m]) = k
    BY <2>1
  <2>. QED BY <2>2, <2>3
<1>. HIDE DEF upto, nth
<1>6. \A a, b \in F : \/ a = b
                      \/ b \notin upto[a] /\ upto[a] \subseteq upto[b]
                      \/ a \notin upto[b] /\ upto[b] \subseteq upto[a]
  <2>1. ASSUME NEW a \in F, NEW b \in F, Shelf!Before(a, b)
        PROVE  b \notin upto[a] /\ upto[a] \subseteq upto[b]
    <3>1. a \in c3 /\ b \in c3  BY <1>1
    <3>2. b # a /\ ~Shelf!Before(b, a)  BY <2>1, <3>1, Befores
    <3>3. ASSUME NEW c \in upto[a]  PROVE c \in upto[b]
      <4>1. c \in F /\ c \in c3 /\ (c = a \/ Shelf!Before(c, a))  BY <1>1, <1>3
      <4>2. Shelf!Before(c, b)  BY <2>1, <3>1, <4>1, Befores
      <4>. QED BY <1>3, <4>1, <4>2
    <3>. QED BY <1>3, <3>2, <3>3
  <2>2. ASSUME NEW a \in F, NEW b \in F  PROVE a = b \/ Shelf!Before(a, b) \/ Shelf!Before(b, a)
    <3>1. a \in c3 /\ b \in c3  BY <1>1
    <3>. QED BY <3>1, Befores
  <2>. QED BY <2>1, <2>2
<1>7. \A k \in 1..N : \A a \in F : Cardinality(upto[a]) = k =>
        nth[k] \in F /\ Cardinality(upto[nth[k]]) = k
  <2>. HIDE DEF N
  <2>. QED BY <1>5
<1>8. /\ N \in Nat /\ \A k \in 1..N : nth[k] \in F
      /\ \A a \in F : \E k \in 1..N : nth[k] = a
      /\ \A k, l \in 1..N : nth[k] = nth[l] => k = l
      /\ \A k, l \in 1..N : k < l => nth[k] \in upto[nth[l]] /\ nth[l] \notin upto[nth[k]]
  BY <1>2, <1>3, <1>4, <1>6, <1>7, ByRank
<1>. HIDE DEF N
<1>9. nth \in Seq(F) /\ Len(nth) = N  BY <1>5, <1>8
<1>10. ASSUME NEW k \in 1..N, NEW l \in 1..N, nth[k] \notin c12, nth[l] \in c12
       PROVE  l < k
  <2>1. k \in Nat /\ l \in Nat /\ k # l  BY <1>8, <1>10
  <2>2. ~(k < l)
    <3>. SUFFICES ASSUME k < l  PROVE FALSE
      OBVIOUS
    <3>1. nth[k] \in F /\ nth[l] \in F /\ nth[k] \in upto[nth[l]]  BY <1>8
    <3>2. Shelf!Before(nth[k], nth[l])  BY <1>3, <1>10, <3>1
    <3>3. nth[k] \in c3 /\ nth[l] \in c3  BY <1>1, <3>1
    <3>. QED BY <1>10, <3>2, <3>3, Befores
  <2>. QED BY <2>1, <2>2
<1>. QED BY <1>8, <1>9, <1>10 DEF nth, F

LEMMA GridTells ==
  ASSUME Shelf!ViewsAssumption, Shelf!ViewsInv
  PROVE  Shelf!GridIsWhole
<1>. SUFFICES ASSUME c13 > 0  PROVE Shelf!GridIsWhole
  BY DEF Shelf!GridIsWhole
<1>. DEFINE F == Shelf!Filtered
            n == c13
            s == Shelf!Sorted(F)
            rows == Shelf!Chunked(s, n)
            Cells == {c \in (DOMAIN rows) \X (1..n) : c[2] \in DOMAIN rows[c[1]]}
            At(c) == rows[c[1]][c[2]]
            Earlier(c, d) == c[1] < d[1] \/ (c[1] = d[1] /\ c[2] < d[2])
<1>1. n \in Nat \ {0}  BY DEF Shelf!ViewsInv
<1>2. /\ s \in Seq(F) /\ \A m \in F : \E k \in 1..Len(s) : s[k] = m
      /\ \A k, l \in 1..Len(s) : s[k] = s[l] => k = l
      /\ \A k, l \in 1..Len(s) : s[k] \notin c12 /\ s[l] \in c12 => l < k
  BY Lines
<1>3. Shelf!Rows = rows  BY DEF Shelf!Rows
<1>. HIDE DEF s, n, F
<1>4. /\ \A i \in DOMAIN rows : /\ i \in Nat \ {0} /\ rows[i] \in Seq(F)
                                /\ Len(rows[i]) = n \/ (i = Len(rows) /\ rows[i] # <<>>)
      /\ \A i \in DOMAIN rows : \A j \in DOMAIN rows[i] :
           j \in 1..n /\ (i - 1) * n + j \in 1..Len(s) /\ rows[i][j] = s[(i - 1) * n + j]
      /\ Covers(s, n, rows)
  <2>1. rows = Shelf!Chunked(s, n) /\ s \in Seq(F)  BY <1>2
  <2>. HIDE DEF rows
  <2>2. \A i \in DOMAIN rows : /\ i \in Nat \ {0} /\ rows[i] \in Seq(F)
                               /\ Len(rows[i]) = n \/ (i = Len(rows) /\ rows[i] # <<>>)
    BY <1>1, <2>1, Chunks
  <2>3. \A i \in DOMAIN rows : \A j \in DOMAIN rows[i] :
           j \in 1..n /\ (i - 1) * n + j \in 1..Len(s) /\ rows[i][j] = s[(i - 1) * n + j]
    BY <1>1, <2>1, Chunks
  <2>4. Covers(s, n, rows)
    BY <1>1, <2>1, Chunks
  <2>. QED BY <2>2, <2>3, <2>4
<1>. HIDE DEF rows
<1>5. ASSUME NEW c \in Cells
      PROVE  /\ c[1] \in DOMAIN rows /\ c[1] \in Nat \ {0} /\ c[2] \in 1..n
             /\ Place(c, n) \in 1..Len(s) /\ At(c) = s[Place(c, n)] /\ At(c) \in F
  <2>1. c[1] \in DOMAIN rows /\ c[2] \in 1..n /\ c[2] \in DOMAIN rows[c[1]]  OBVIOUS
  <2>. HIDE DEF Cells
  <2>2. (c[1] - 1) * n + c[2] \in 1..Len(s) /\ At(c) = s[(c[1] - 1) * n + c[2]]
          /\ c[1] \in Nat \ {0}
    BY <1>4, <2>1
  <2>3. Place(c, n) \in 1..Len(s) /\ At(c) = s[Place(c, n)]  BY <2>2 DEF Place
  <2>4. At(c) \in F  BY <1>2, <2>3
  <2>. QED BY <2>1, <2>2, <2>3, <2>4
<1>6. ASSUME NEW c \in Cells, NEW d \in Cells
      PROVE  /\ c[1] < d[1] => Place(c, n) < Place(d, n)
             /\ Place(c, n) = Place(d, n) => c[1] = d[1] /\ c[2] = d[2]
             /\ Place(c, n) < Place(d, n) => Earlier(c, d)
  <2>. HIDE DEF Cells
  <2>1. c[1] \in Nat \ {0} /\ c[2] \in 1..n /\ d[1] \in Nat \ {0} /\ d[2] \in 1..n  BY <1>5
  <2>20. \A i, k \in Nat \ {0} : \A j, l \in 1..n :
           /\ (i - 1) * n + j \in Nat \ {0} /\ (i < k => (i - 1) * n + j < (k - 1) * n + l)
           /\ (i - 1) * n + j = (k - 1) * n + l => i = k /\ j = l
    BY <1>1, Cell
  <2>2. /\ Place(c, n) \in Nat \ {0} /\ (c[1] < d[1] => Place(c, n) < Place(d, n))
        /\ Place(c, n) = Place(d, n) => c[1] = d[1] /\ c[2] = d[2]
    BY <2>1, <2>20 DEF Place
  <2>3. Place(d, n) \in Nat \ {0} /\ (d[1] < c[1] => Place(d, n) < Place(c, n))
    BY <2>1, <2>20 DEF Place
  <2>4. ASSUME Place(c, n) < Place(d, n)  PROVE Earlier(c, d)
    <3>1. ~(d[1] < c[1])  BY <2>2, <2>3, <2>4
    <3>2. c[1] = d[1] => c[2] < d[2]
      <4>. SUFFICES ASSUME c[1] = d[1]  PROVE c[2] < d[2]
        OBVIOUS
      <4>1. (c[1] - 1) * n \in Nat
        <5>1. c[1] - 1 \in Nat /\ n \in Nat  BY <1>1, <2>1
        <5>. QED BY <5>1, Row
      <4>2. (c[1] - 1) * n + c[2] < (c[1] - 1) * n + d[2]  BY <2>4 DEF Place
      <4>. DEFINE b == (c[1] - 1) * n
      <4>3. b \in Nat /\ b + c[2] < b + d[2]  BY <4>1, <4>2
      <4>. HIDE DEF b
      <4>. QED BY <1>1, <2>1, <4>3
    <3>. QED BY <2>1, <3>1, <3>2
  <2>. QED BY <2>2, <2>4
<1>7. {At(c) : c \in Cells} = F
  <2>1. ASSUME NEW m \in F  PROVE \E c \in Cells : At(c) = m
    <3>1. PICK k \in 1..Len(s) : s[k] = m  BY <1>2
    <3>2. PICK i \in DOMAIN rows, j \in 1..n : j \in DOMAIN rows[i] /\ k = (i - 1) * n + j
      BY <1>4 DEF Covers
    <3>3. <<i, j>> \in Cells  BY <3>2
    <3>4. At(<<i, j>>) = m  BY <1>4, <3>1, <3>2
    <3>. QED BY <3>3, <3>4
  <2>. HIDE DEF Cells, At
  <2>. QED BY <1>5, <2>1
<1>8. \A c, d \in Cells : At(c) = At(d) => c = d
  <2>. SUFFICES ASSUME NEW c \in Cells, NEW d \in Cells, At(c) = At(d)  PROVE c = d
    OBVIOUS
  <2>1. c = <<c[1], c[2]>> /\ d = <<d[1], d[2]>>  OBVIOUS
  <2>. HIDE DEF Cells
  <2>2. Place(c, n) = Place(d, n)
    <3>1. Place(c, n) \in 1..Len(s) /\ Place(d, n) \in 1..Len(s) /\ s[Place(c, n)] = s[Place(d, n)]
      BY <1>5
    <3>. QED BY <1>2, <3>1
  <2>3. c[1] = d[1] /\ c[2] = d[2]  BY <1>6, <2>2
  <2>. QED BY <2>1, <2>3
<1>9. \A c, d \in Cells : At(c) \notin c12 /\ At(d) \in c12 => Earlier(d, c)
  <2>. SUFFICES ASSUME NEW c \in Cells, NEW d \in Cells, At(c) \notin c12, At(d) \in c12
                PROVE  Earlier(d, c)
    OBVIOUS
  <2>. HIDE DEF Cells
  <2>1. /\ Place(c, n) \in 1..Len(s) /\ Place(d, n) \in 1..Len(s)
        /\ At(c) = s[Place(c, n)] /\ At(d) = s[Place(d, n)]
    BY <1>5
  <2>. HIDE DEF At, Earlier
  <2>2. Place(d, n) < Place(c, n)  BY <1>2, <2>1
  <2>. QED BY <1>6, <2>2
<1>10. \A i \in DOMAIN rows : Len(rows[i]) = n \/ (i = Len(rows) /\ rows[i] # <<>>)
  BY <1>4
<1>. HIDE DEF Cells, At, Earlier
<1>. QED BY <1>3, <1>7, <1>8, <1>9, <1>10 DEF Shelf!GridIsWhole, Cells, At, Earlier, n, F

LEMMA ViewsStart == Shelf!ViewsAssumption /\ Shelf!Init => Shelf!ViewsInv
<1>. SUFFICES ASSUME Shelf!ViewsAssumption, Shelf!Init  PROVE Shelf!ViewsInv
  OBVIOUS
<1>1. /\ c3 = {} /\ c4 = <<>> /\ c7 = Off /\ c8 = Off /\ c10 = 1 /\ c13 = 0
      /\ c2 = FALSE
  BY DEF Shelf!Init
<1>2. c4 \in Seq(StepSet) /\ Len(c4) = 0  BY <1>1
<1>3. Shelf!Crumbs(c4)  BY <1>2 DEF Shelf!Crumbs, StepSet
<1>4. Shelf!Closed(c3)  BY <1>1 DEF Shelf!Closed
<1>. QED BY <1>1, <1>3, <1>4 DEF Shelf!ViewsInv, Shelf!OpensTheFolder, Shelf!ViewsAssumption

\* What the explorer shows are entries and roots.
LEMMA ShownAre ==
  ASSUME Shelf!ViewsAssumption, Shelf!ViewsInv
  PROVE  Shelf!CurrentDataList \subseteq Library \cup {Shelf!Root(t) : t \in ModelTypes \cup {Top}}
<1>1. Shelf!Nodes \subseteq Library \cup {Shelf!Root(t) : t \in ModelTypes \cup {Top}}
  BY DEF Shelf!Nodes, Shelf!TypeRoots, Shelf!ViewsInv
<1>2. c4 \in Seq(StepSet)  BY DEF Shelf!ViewsInv, Shelf!Crumbs, StepSet
<1>3. Shelf!Follow(c4) \subseteq Shelf!Nodes  BY <1>2, FollowNext
<1>4. c3 \subseteq Shelf!Nodes  BY DEF Shelf!Nodes
<1>5. Shelf!Within(Shelf!Follow(c4)) \subseteq Shelf!Nodes  BY <1>3, <1>4 DEF Shelf!Within
<1>6. Shelf!CurrentDataList \subseteq Shelf!Nodes  BY <1>3, <1>5 DEF Shelf!CurrentDataList
<1>. QED BY <1>1, <1>6

LEMMA ViewsStep ==
  ASSUME Shelf!ViewsAssumption, Shelf!ViewsInv, [Shelf!Next]_(Shelf!viewVars)
  PROVE  Shelf!ViewsInv'
<1>. USE DEF Shelf!treeVars, Shelf!gridVars, Shelf!barVars
<1>1. c4 \in Seq(StepSet) /\ Shelf!Crumbs(c4) /\ Len(c4) \in Nat
  <2>1. c4 \in Seq(StepSet) /\ Shelf!Crumbs(c4)  BY DEF Shelf!ViewsInv, Shelf!Crumbs, StepSet
  <2>. QED BY <2>1
\* The folder that was opened is shown as long as the breadcrumb is as it was.
<1>2. ASSUME UNCHANGED <<c2, c3, c4>>, c8' \in {c8, Off},
             c7' \in {Off} \cup Library \cup {Shelf!Root(t) : t \in ModelTypes \cup {Top}},
             c10' \in DOMAIN Order, c13' \in Nat
      PROVE  Shelf!ViewsInv'
  <2>1. Shelf!OpensTheFolder'
    BY <1>2 DEF Shelf!ViewsInv, Shelf!OpensTheFolder, Shelf!CurrentFolderInfo
  <2>. QED BY <1>2, <2>1 DEF Shelf!ViewsInv
\* Another breadcrumb names another folder, and none was opened.
<1>3. ASSUME UNCHANGED <<c3, c7, c10, c13>>, c2' = c2 \/ c2' = TRUE, c8' = Off,
             Shelf!Crumbs(c4')
      PROVE  Shelf!ViewsInv'
  <2>1. Shelf!OpensTheFolder'  BY <1>3 DEF Shelf!OpensTheFolder
  <2>2. Shelf!Crumbs(c4)'  BY <1>3
  <2>. QED BY <1>3, <2>1, <2>2 DEF Shelf!ViewsInv
<1>4. Shelf!Crumbs(<<[name |-> Top, index |-> 0]>>) /\ Shelf!Crumbs(<<>>)
  <2>. DEFINE one == <<[name |-> Top, index |-> 0]>>
  <2>1. one \in Seq(StepSet) /\ Len(one) = 1 /\ one[1] = [name |-> Top, index |-> 0]  BY DEF StepSet
  <2>. HIDE DEF one
  <2>2. Shelf!Crumbs(one)  BY <2>1 DEF Shelf!Crumbs, StepSet
  <2>3. <<>> \in Seq(StepSet) /\ Len(<<>>) = 0  OBVIOUS
  <2>4. Shelf!Crumbs(<<>>)  BY <2>3 DEF Shelf!Crumbs, StepSet
  <2>. QED BY <2>2, <2>4 DEF one
<1>5. CASE Shelf!Load
  <2>1. /\ c2' = TRUE /\ c8' = Off /\ UNCHANGED <<c3, c7, c10, c13>>
        /\ c4' = c4 \/ c4' = <<[name |-> Top, index |-> 0]>>
    BY <1>5 DEF Shelf!Load
  <2>2. Shelf!Crumbs(c4')  BY <1>1, <1>4, <2>1
  <2>. QED BY <1>3, <2>1, <2>2
<1>6. CASE Shelf!ToggleLayout
  <2>1. /\ c8' = Off /\ c7' = Off /\ c10' = 1 /\ c13' = 0 /\ UNCHANGED <<c2, c3>>
        /\ c4' = <<>> \/ c4' = <<[name |-> Top, index |-> 0]>>
    BY <1>6 DEF Shelf!ToggleLayout
  <2>2. Shelf!Crumbs(c4')  BY <1>4, <2>1
  <2>3. Shelf!OpensTheFolder'  BY <2>1 DEF Shelf!OpensTheFolder
  <2>. QED BY <2>1, <2>2, <2>3 DEF Shelf!ViewsInv, Shelf!ViewsAssumption
<1>7. ASSUME NEW t \in ModelTypes, Shelf!Rescan(t)  PROVE Shelf!ViewsInv'
  <2>1. c2 /\ UNCHANGED <<c2, c4, c8, c7, c10, c13>>  BY <1>7 DEF Shelf!Rescan
  <2>2. PICK s \in SUBSET {e \in Library : e.type = t} :
          Shelf!Closed(s) /\ c3' = {e \in c3 : e.type # t} \cup s
    BY <1>7 DEF Shelf!Rescan
  <2>3. c3' \subseteq Library  BY <2>2 DEF Shelf!ViewsInv
  <2>4. Shelf!Closed(c3')
    <3>1. ASSUME NEW e \in c3', Len(e.path) > 1  PROVE Shelf!Parent(e) \in c3'
      <4>1. CASE e \in s
        BY <2>2, <3>1, <4>1 DEF Shelf!Closed
      <4>2. CASE e \in c3 /\ e.type # t
        <5>1. Shelf!Parent(e) \in c3 /\ Shelf!Parent(e).type = e.type  BY <3>1, <4>2, Parents
        <5>. QED BY <2>2, <4>2, <5>1
      <4>. QED BY <2>2, <4>1, <4>2
    <3>. QED BY <3>1 DEF Shelf!Closed
  <2>5. Shelf!OpensTheFolder'
    BY <2>1 DEF Shelf!ViewsInv, Shelf!OpensTheFolder, Shelf!CurrentFolderInfo
  <2>. QED BY <2>1, <2>3, <2>4, <2>5 DEF Shelf!ViewsInv
<1>8. ASSUME NEW n \in Library \cup {Shelf!Root(t) : t \in ModelTypes \cup {Top}}, Shelf!OpenItem(n)
      PROVE  Shelf!ViewsInv'
  <2>1. /\ n.folder /\ c4' = Shelf!Opened(n) /\ c7' = Off /\ UNCHANGED <<c2, c3, c10, c13>>
        /\ c8' = IF n \in Shelf!Nodes /\ ~Shelf!SelfNamed(n) THEN n ELSE Off
    BY <1>8 DEF Shelf!OpenItem, Shelf!Shows
  <2>2. /\ Shelf!Crumbs(c4')
        /\ n \in Shelf!Nodes /\ ~Shelf!SelfNamed(n) =>
             IF Len(c4') < 2 THEN n = Shelf!Root(Top) ELSE Shelf!FolderAt(c4') = n
    BY <2>1, ShowsIt
  <2>3. Shelf!OpensTheFolder'
    <3>1. CASE c8' = Off
      BY <3>1 DEF Shelf!OpensTheFolder
    <3>2. CASE c8' # Off
      <4>1. c8' = n /\ IF Len(c4') < 2 THEN n = Shelf!Root(Top) ELSE Shelf!FolderAt(c4') = n
        BY <2>1, <2>2, <3>2
      <4>. QED BY <4>1 DEF Shelf!OpensTheFolder, Shelf!CurrentFolderInfo
    <3>. QED BY <3>1, <3>2
  <2>. QED BY <2>1, <2>2, <2>3 DEF Shelf!ViewsInv
<1>9. CASE Shelf!DoubleClick
  <2>1. PICK n \in Shelf!CurrentDataList : Shelf!OpenItem(n)  BY <1>9 DEF Shelf!DoubleClick
  <2>2. n \in Library \cup {Shelf!Root(t) : t \in ModelTypes \cup {Top}}  BY <2>1, ShownAre
  <2>. QED BY <1>8, <2>1, <2>2
<1>10. CASE Shelf!MenuOpens
  <2>1. Shelf!OpenItem(c7) /\ c7 \in Library \cup {Shelf!Root(t) : t \in ModelTypes \cup {Top}}
    BY <1>10 DEF Shelf!MenuOpens, Shelf!ViewsInv
  <2>. QED BY <1>8, <2>1
<1>11. CASE Shelf!ContextMenu
  <2>1. /\ UNCHANGED <<c2, c3, c4, c8, c10, c13>>
        /\ c7' \in Shelf!CurrentDataList \/ c7' = Off
    BY <1>11 DEF Shelf!ContextMenu
  <2>2. c7' \in {Off} \cup Library \cup {Shelf!Root(t) : t \in ModelTypes \cup {Top}}
    BY <2>1, ShownAre
  <2>. QED BY <1>2, <2>1, <2>2 DEF Shelf!ViewsInv
<1>12. ASSUME NEW i \in DOMAIN c4, Shelf!Breadcrumb(i)  PROVE Shelf!ViewsInv'
  <2>1. /\ UNCHANGED <<c2, c3, c7, c10, c13>>
        /\ c8' = IF c4' = c4 THEN c8 ELSE Off
    BY <1>12 DEF Shelf!Breadcrumb
  <2>2. PICK j \in 1..i : c4' = SubSeq(c4, 1, j)  BY <1>12 DEF Shelf!Breadcrumb
  <2>3. j \in 0..Len(c4)  BY <1>1
  <2>4. Shelf!Crumbs(c4')  BY <1>1, <2>2, <2>3, CrumbsCut
  <2>5. CASE c4' = c4
    BY <1>2, <2>1, <2>5 DEF Shelf!ViewsInv
  <2>6. CASE c4' # c4
    BY <1>3, <2>1, <2>4, <2>6
  <2>. QED BY <2>5, <2>6
<1>13. CASE Shelf!GoUp
  <2>1. /\ UNCHANGED <<c2, c3, c7, c10, c13>> /\ c8' = Off
        /\ Len(c4) >= 2 /\ c4' = SubSeq(c4, 1, Len(c4) - 1)
    BY <1>13 DEF Shelf!GoUp, Shelf!Front
  <2>2. Len(c4) - 1 \in 0..Len(c4)  BY <1>1, <2>1
  <2>3. Shelf!Crumbs(c4')  BY <1>1, <2>1, <2>2, CrumbsCut
  <2>. QED BY <1>3, <2>1, <2>3
<1>14. CASE \E o \in DOMAIN Order : Shelf!SelectOrder(o)
  BY <1>2, <1>14 DEF Shelf!SelectOrder, Shelf!ViewsInv
<1>15. ASSUME NEW n \in 0..MaxColumns, Shelf!Resize(n)  PROVE Shelf!ViewsInv'
  <2>1. n \in Nat  BY DEF Shelf!ViewsAssumption
  <2>. QED BY <1>2, <1>15, <2>1 DEF Shelf!Resize, Shelf!ViewsInv
<1>16. CASE \/ Shelf!Debounced \/ \E ws \in Queries : Shelf!Type(ws)
            \/ \E t \in {All} \cup ModelTypes : Shelf!SelectType(t)
            \/ \E c \in {All} \cup Collections : Shelf!SelectCollection(c)
            \/ \E m \in c3 : Shelf!ToggleStar(m)
            \/ UNCHANGED Shelf!viewVars
  <2>1. UNCHANGED <<c2, c3, c4, c8, c7, c10, c13>>
    BY <1>16 DEF Shelf!Debounced, Shelf!Type, Shelf!SelectType, Shelf!SelectCollection,
         Shelf!ToggleStar, Shelf!viewVars
  <2>. QED BY <1>2, <2>1 DEF Shelf!ViewsInv
<1>. QED BY <1>5, <1>6, <1>7, <1>9, <1>10, <1>11, <1>12, <1>13, <1>14, <1>15, <1>16 DEF Shelf!Next

\* What the explorer lists is the folder that "Add folder" creates into.
LEMMA ViewsTell ==
  ASSUME Shelf!ViewsAssumption, Shelf!ViewsInv
  PROVE  Shelf!ViewsAreTrue
<1>1. c4 \in Seq(StepSet) /\ Shelf!Crumbs(c4) /\ Len(c4) \in Nat
  <2>1. c4 \in Seq(StepSet) /\ Shelf!Crumbs(c4)  BY DEF Shelf!ViewsInv, Shelf!Crumbs, StepSet
  <2>. QED BY <2>1
<1>2. ASSUME c6 = {}, Len(c4) >= 2
      PROVE  Shelf!CurrentDataList = {e \in c3 :
               IF Len(c4) = 2 THEN e.type = c4[2].name /\ Len(e.path) = 1
               ELSE Shelf!Parent(e) = Shelf!CurrentFolderInfo}
  <2>1. Shelf!CurrentDataList = Listing(c4, Len(c4))
    <3>1. SubSeq(c4, 1, Len(c4)) = c4  BY <1>1
    <3>. QED BY <1>2, <3>1 DEF Shelf!CurrentDataList, Listing
  <2>2. CASE Len(c4) = 2
    <3>1. Listing(c4, 2) = {e \in c3 : e.type = c4[2].name /\ Len(e.path) = 1}
      BY <1>1, <1>2, ListsType
    <3>. HIDE DEF Shelf!Parent
    <3>. QED BY <2>1, <2>2, <3>1
  <2>3. CASE Len(c4) # 2
    <3>0. \A n \in Nat : n >= 2 /\ n # 2 => n \in 3..n  OBVIOUS
    <3>1. Len(c4) \in 3..Len(c4)  BY <1>1, <1>2, <2>3, <3>0, Zenon
    <3>2. Listing(c4, Len(c4)) = {e \in c3 : Shelf!Parent(e) = Named(c4, Len(c4))}
      BY <1>1, <3>1, ListsAlong
    <3>3. Named(c4, Len(c4)) = Shelf!CurrentFolderInfo
      <4>1. SubSeq(c4, 1, Len(c4)) = c4  BY <1>1
      <4>. QED BY <4>1 DEF Named, Shelf!CurrentFolderInfo
    <3>. QED BY <2>1, <2>3, <3>2, <3>3
  <2>. QED BY <2>2, <2>3
<1>3. Shelf!ListsTheFolder  BY <1>2 DEF Shelf!ListsTheFolder
<1>. QED BY <1>3, GridTells DEF Shelf!ViewsAreTrue, Shelf!ViewsInv

-----------------------------------------------------------------------------
(* The saved searches.  The field is c1, the search c2, the type c3, what is saved c4, the
   active one c6, the window c7, and what was meant c8. *)

\* What is saved: with an id, the words and the types.
SavedQueries == [id : Saving!Ids, tokens : Texts, types : SUBSET Saving!KnownTypes]

LEMMA SavedStart == Saving!CollectionsAssumption /\ Saving!Init => Saving!CollectionsInv
<1>. SUFFICES ASSUME Saving!CollectionsAssumption, Saving!Init  PROVE Saving!CollectionsInv
  OBVIOUS
<1>1. c4 = <<>> /\ c5 = <<>> /\ c4 \in Seq(SavedQueries) /\ Saving!Range(c4) = {}
  BY DEF Saving!Init, Saving!Range
<1>2. c8 \in [Saving!Ids -> Saving!Query \cup {All}]
  BY DEF Saving!Init
<1>. QED BY <1>1, <1>2 DEF Saving!Init, Saving!CollectionsInv, Saving!CollectionsAssumption,
     Saving!ActiveIsThere, SavedQueries

\* Without the active one each of the others is there, once.
LEMMA RestIs ==
  ASSUME c4 \in Seq(SavedQueries)
  PROVE  /\ Saving!Rest \in Seq(SavedQueries)
         /\ \E at \in [DOMAIN Saving!Rest -> DOMAIN c4] :
              /\ \A k \in DOMAIN Saving!Rest : Saving!Rest[k] = c4[at[k]] /\ c4[at[k]].id # c6
              /\ \A k, m \in DOMAIN Saving!Rest : at[k] = at[m] => k = m
<1>. DEFINE K == {i \in DOMAIN c4 : c4[i].id # c6}
            upto == [i \in K |-> {j \in K : j <= i}]
            at == [k \in 1..Cardinality(K) |-> CHOOSE i \in K : Cardinality(upto[i]) = k]
<1>1. /\ Len(c4) \in Nat /\ K \in SUBSET (1..Len(c4)) /\ \A i \in K : i \in Nat
      /\ \A i \in 1..Len(c4) : c4[i] \in SavedQueries
  OBVIOUS
<1>2. IsFiniteSet(K)  BY <1>1, FS_Interval, FS_Subset
<1>. DEFINE nth(k) == CHOOSE i \in K : Cardinality({j \in K : j <= i}) = k
<1>3. Saving!Rest = [k \in 1..Cardinality(K) |-> c4[at[k]]]
  <2>1. \A i \in K : upto[i] = {j \in K : j <= i}  OBVIOUS
  <2>2. ASSUME NEW k \in 1..Cardinality(K)  PROVE at[k] = nth(k)
    <3>. HIDE DEF K, upto
    <3>. QED BY <2>1
  <2>3. Saving!Rest = [k \in 1..Cardinality(K) |-> c4[nth(k)]]
    <3>. DEFINE mth(k) == CHOOSE i \in K : Saving!Cardinality({j \in K : j <= i}) = k
    <3>1. Saving!Rest = [k \in 1..Saving!Cardinality(K) |-> c4[mth(k)]]  BY DEF Saving!Rest
    <3>. HIDE DEF K
    <3>2. \A k : mth(k) = nth(k)  BY SameSizes
    <3>3. Saving!Cardinality(K) = Cardinality(K)  BY SameSizes
    <3>. HIDE DEF mth, nth
    <3>. QED BY <3>1, <3>2, <3>3
  <2>. HIDE DEF K, at, nth
  <2>. QED BY <2>2, <2>3
<1>. HIDE DEF K
<1>40. upto \in [K -> SUBSET K] /\ \A a, b \in K : b \in upto[a] <=> b <= a
  OBVIOUS
<1>4. /\ upto \in [K -> SUBSET K] /\ \A a \in K : a \in upto[a]
      /\ \A a, b \in K : \/ a = b
                         \/ b \notin upto[a] /\ upto[a] \subseteq upto[b]
                         \/ a \notin upto[b] /\ upto[b] \subseteq upto[a]
  <2>1. \A a, b \in K : a = b \/ a < b \/ b < a  BY <1>1
  <2>2. ASSUME NEW a \in K, NEW b \in K, a < b
        PROVE  b \notin upto[a] /\ upto[a] \subseteq upto[b]
    <3>. HIDE DEF upto
    <3>. QED BY <1>1, <1>40, <2>2
  <2>. HIDE DEF upto
  <2>. QED BY <1>1, <1>40, <2>1, <2>2
<1>. HIDE DEF upto
<1>51. /\ at = [k \in 1..Cardinality(K) |-> at[k]]
       /\ \A k \in 1..Cardinality(K) : \A i \in K : Cardinality(upto[i]) = k =>
            at[k] \in K /\ Cardinality(upto[at[k]]) = k
  OBVIOUS
<1>. HIDE DEF at, nth
<1>5. /\ Cardinality(K) \in Nat /\ at \in [1..Cardinality(K) -> K]
      /\ \A k, m \in 1..Cardinality(K) : at[k] = at[m] => k = m
  <2>1. /\ Cardinality(K) \in Nat /\ \A k \in 1..Cardinality(K) : at[k] \in K
        /\ \A k, m \in 1..Cardinality(K) : at[k] = at[m] => k = m
    <3>1. upto \in [K -> SUBSET K]  BY <1>4
    <3>2. \A a \in K : a \in upto[a]  BY <1>4
    <3>3. \A a, b \in K : \/ a = b
                          \/ b \notin upto[a] /\ upto[a] \subseteq upto[b]
                          \/ a \notin upto[b] /\ upto[b] \subseteq upto[a]
      BY <1>4
    <3>4. \A k \in 1..Cardinality(K) : \A i \in K : Cardinality(upto[i]) = k =>
            at[k] \in K /\ Cardinality(upto[at[k]]) = k
      BY <1>51
    <3>. QED BY <1>2, <3>1, <3>2, <3>3, <3>4, ByRank
  <2>. QED BY <1>51, <2>1
<1>6. \A k \in 1..Cardinality(K) : at[k] \in K /\ at[k] \in DOMAIN c4 /\ c4[at[k]].id # c6
  BY <1>1, <1>5 DEF K
<1>7. Saving!Rest \in Seq(SavedQueries) /\ DOMAIN Saving!Rest = 1..Cardinality(K)
  BY <1>1, <1>3, <1>5, <1>6
<1>8. at \in [DOMAIN Saving!Rest -> DOMAIN c4]
  <2>1. at = [k \in 1..Cardinality(K) |-> at[k]]  BY <1>5
  <2>. QED BY <1>6, <1>7, <2>1, Zenon
<1>9. \A k \in DOMAIN Saving!Rest : Saving!Rest[k] = c4[at[k]] /\ c4[at[k]].id # c6
  BY <1>3, <1>6, <1>7
<1>10. \A k, m \in DOMAIN Saving!Rest : at[k] = at[m] => k = m  BY <1>5, <1>7, Zenon
<1>. QED BY <1>7, <1>8, <1>9, <1>10, Zenon

\* While there is room an id is free.
LEMMA IdIsFree ==
  ASSUME Saving!CollectionsAssumption, c4 \in Seq(SavedQueries), Len(c4) < MaxSaved
  PROVE  \E i \in Saving!Ids : \A c \in Saving!Range(c4) : c.id # i
<1>. DEFINE ids == {c4[i].id : i \in 1..Len(c4)}
            f == [i \in 1..Len(c4) |-> c4[i].id]
<1>1. Len(c4) \in Nat /\ MaxSaved \in Nat  BY DEF Saving!CollectionsAssumption
<1>2. IsFiniteSet(1..Len(c4)) /\ Cardinality(1..Len(c4)) = Len(c4)
      /\ Cardinality(1..MaxSaved) = MaxSaved
  BY <1>1, Interval
<1>3. f \in Surjection(1..Len(c4), ids)
  BY DEF Surjection
<1>4. IsFiniteSet(ids) /\ Cardinality(ids) <= Len(c4)
  BY <1>2, <1>3, FS_Surjection
<1>5. ~ (1..MaxSaved \subseteq ids)
  <2>. SUFFICES ASSUME 1..MaxSaved \in SUBSET ids  PROVE FALSE
    OBVIOUS
  <2>1. Cardinality(1..MaxSaved) <= Cardinality(ids) /\ Cardinality(ids) \in Nat
    BY <1>4, FS_Subset, FS_CardinalityType
  <2>. QED BY <1>1, <1>2, <1>4, <2>1
<1>. QED BY <1>5 DEF Saving!Range, Saving!Ids

LEMMA SavedStep ==
  ASSUME Saving!CollectionsAssumption, Saving!CollectionsInv, [Saving!Next]_(Saving!collectionVars)
  PROVE  Saving!CollectionsInv'
<1>1. c4 \in Seq(SavedQueries) /\ Len(c4) \in Nat
      /\ (\A i \in DOMAIN c4 : c4[i] \in SavedQueries /\ c4[i] \in Saving!Range(c4))
      /\ \A c \in Saving!Range(c4) : c \in SavedQueries
  <2>1. c4 \in Seq(SavedQueries)  BY DEF Saving!CollectionsInv, SavedQueries
  <2>. QED BY <2>1 DEF Saving!Range
<1>2. ASSUME UNCHANGED <<c4, c5, c6, c8>>, c7' = c7,
             c1' \in Texts, c2' \in Texts, c3' \in Saving!KnownTypes \cup {All}
      PROVE  Saving!CollectionsInv'
  BY <1>2 DEF Saving!CollectionsInv, Saving!ActiveIsThere, Saving!Active
<1>3. ASSUME UNCHANGED <<Saving!toolbar, c4, c5, c6, c8>>,
             c7' # All => c7'.query \in Saving!Query /\ c7'.of = c7'.query
      PROVE  Saving!CollectionsInv'
  BY <1>3 DEF Saving!CollectionsInv, Saving!ActiveIsThere, Saving!Active, Saving!toolbar
<1>4. CASE Saving!HandleSave
  <2>. DEFINE id == CHOOSE i \in Saving!Ids : \A c \in Saving!Range(c4) : c.id # i
              new == [id |-> id, tokens |-> c7.query.tokens, types |-> c7.query.types]
  <2>1. id \in Saving!Ids /\ \A c \in Saving!Range(c4) : c.id # id
    BY <1>1, <1>4, IdIsFree DEF Saving!HandleSave
  <2>2. /\ c4' = Append(c4, new) /\ c5' = c4' /\ c6' = id
        /\ c8' = [c8 EXCEPT ![id] = c7.of] /\ c7' = All
        /\ UNCHANGED <<c1, c2, c3>>
    BY <1>4 DEF Saving!HandleSave, Saving!Persist, Saving!toolbar
  <2>3. c7.query \in Saving!Query /\ c7.of = c7.query
    BY <1>4 DEF Saving!HandleSave, Saving!CollectionsInv
  <2>. HIDE DEF id
  <2>4. new \in SavedQueries /\ new.id = id
    BY <2>1, <2>3 DEF Saving!Query, SavedQueries
  <2>5. c7.query = [tokens |-> new.tokens, types |-> new.types]
    BY <2>3 DEF Saving!Query
  <2>. HIDE DEF new
  <2>6. /\ c4' \in Seq(SavedQueries) /\ DOMAIN c4' = 1..Len(c4) + 1
        /\ c4'[Len(c4) + 1] = new /\ \A i \in 1..Len(c4) : c4'[i] = c4[i]
    BY <1>1, <2>2, <2>4
  <2>7. Saving!Range(c4') = Saving!Range(c4) \cup {new}
    <3>1. DOMAIN c4 = 1..Len(c4) /\ DOMAIN c4' = DOMAIN c4 \cup {Len(c4) + 1}
      BY <1>1, <2>6
    <3>. QED BY <2>6, <3>1 DEF Saving!Range
  <2>8. \A i, j \in DOMAIN c4' : c4'[i].id = c4'[j].id => i = j
    <3>1. \A i \in 1..Len(c4) : c4[i].id # id  BY <1>1, <2>1
    <3>2. \A i, j \in 1..Len(c4) : c4[i].id = c4[j].id => i = j
      BY <1>1 DEF Saving!CollectionsInv
    <3>. QED BY <1>1, <2>4, <2>6, <3>1, <3>2
  <2>9. c8' \in [Saving!Ids -> Saving!Query \cup {All}]
    BY <2>2, <2>3 DEF Saving!CollectionsInv
  <2>10. \A c \in Saving!Range(c4') : c8'[c.id] = [tokens |-> c.tokens, types |-> c.types]
    <3>1. ASSUME NEW c \in Saving!Range(c4)
          PROVE  c8'[c.id] = [tokens |-> c.tokens, types |-> c.types]
      <4>1. c.id \in Saving!Ids /\ c.id # id  BY <1>1, <2>1 DEF SavedQueries
      <4>. QED BY <2>2, <4>1 DEF Saving!CollectionsInv
    <3>2. c8'[new.id] = [tokens |-> new.tokens, types |-> new.types]
      BY <2>1, <2>2, <2>3, <2>4, <2>5 DEF Saving!CollectionsInv
    <3>. QED BY <2>7, <3>1, <3>2
  <2>11. Saving!ActiveIsThere'
    BY <2>2, <2>4, <2>7 DEF Saving!ActiveIsThere, Saving!Active
  <2>. QED BY <2>2, <2>6, <2>8, <2>9, <2>10, <2>11 DEF Saving!CollectionsInv, SavedQueries
<1>5. CASE Saving!RemoveCollection
  <2>1. /\ c4' = Saving!Rest /\ c5' = c4' /\ c6' = All /\ c7' = c7
        /\ c8' = [c8 EXCEPT ![c6] = All] /\ UNCHANGED <<c1, c2, c3>>
    BY <1>5 DEF Saving!RemoveCollection, Saving!Persist, Saving!toolbar
  <2>2. PICK at \in [DOMAIN Saving!Rest -> DOMAIN c4] :
              /\ \A k \in DOMAIN Saving!Rest : Saving!Rest[k] = c4[at[k]] /\ c4[at[k]].id # c6
              /\ \A k, m \in DOMAIN Saving!Rest : at[k] = at[m] => k = m
    BY <1>1, RestIs
  <2>3. c4' \in Seq(SavedQueries)  BY <1>1, <2>1, RestIs
  <2>4. \A k \in DOMAIN c4' : at[k] \in DOMAIN c4 /\ c4'[k] = c4[at[k]]
    BY <2>1, <2>2
  <2>5. \A i, j \in DOMAIN c4' : c4'[i].id = c4'[j].id => i = j
    <3>1. \A i, j \in DOMAIN c4 : c4[i].id = c4[j].id => i = j
      BY DEF Saving!CollectionsInv
    <3>. QED BY <2>1, <2>2, <2>4, <3>1
  <2>6. \A c \in Saving!Range(c4') : c \in Saving!Range(c4) /\ c.id # c6
    BY <1>1, <2>1, <2>2, <2>4 DEF Saving!Range
  <2>7. \A c \in Saving!Range(c4') : c8'[c.id] = [tokens |-> c.tokens, types |-> c.types]
    <3>1. ASSUME NEW c \in Saving!Range(c4')
          PROVE  c8'[c.id] = [tokens |-> c.tokens, types |-> c.types]
      <4>1. c \in Saving!Range(c4) /\ c.id \in Saving!Ids /\ c.id # c6
        BY <1>1, <2>6 DEF SavedQueries
      <4>. QED BY <2>1, <4>1 DEF Saving!CollectionsInv
    <3>. QED BY <3>1
  <2>8. c8' \in [Saving!Ids -> Saving!Query \cup {All}]
    BY <2>1 DEF Saving!CollectionsInv
  <2>9. Saving!ActiveIsThere'
    BY <2>1 DEF Saving!ActiveIsThere
  <2>. QED BY <2>1, <2>3, <2>5, <2>7, <2>8, <2>9 DEF Saving!CollectionsInv, SavedQueries
<1>6. CASE Saving!Reload
  <2>1. c4' = c4 /\ c5' = c5 /\ c6' = All /\ c7' = All /\ c8' = c8
        /\ c1' = {} /\ c2' = {} /\ c3' = All
    BY <1>6 DEF Saving!Reload, Saving!CollectionsInv
  <2>. QED BY <2>1 DEF Saving!CollectionsInv, Saving!CollectionsAssumption, Saving!ActiveIsThere
<1>7. ASSUME NEW id, Saving!Select(id)  PROVE Saving!CollectionsInv'
  <2>1. c6' = id /\ UNCHANGED <<Saving!toolbar, c4, c5, c7, c8>>
        /\ (id = All \/ \E c \in Saving!Range(c4) : c.id = id)
    BY <1>7 DEF Saving!Select
  <2>. QED BY <2>1 DEF Saving!CollectionsInv, Saving!ActiveIsThere, Saving!Active, Saving!toolbar
<1>8. CASE Saving!OpenSave
  <2>1. Saving!CurrentQuery \in Saving!Query
    BY DEF Saving!CurrentQuery, Saving!Query, Saving!CollectionsInv
  <2>2. c7' = [query |-> Saving!CurrentQuery, of |-> Saving!CurrentQuery]
    BY <1>8 DEF Saving!OpenSave, Saving!CurrentQuery
  <2>. QED BY <1>3, <1>8, <2>1, <2>2 DEF Saving!OpenSave
<1>9. CASE Saving!CloseSave
  BY <1>3, <1>9 DEF Saving!CloseSave
<1>10. CASE \/ Saving!Debounced \/ \E words \in Texts : Saving!Type(words)
            \/ \E t \in Saving!KnownTypes \cup {All} : Saving!SelectType(t)
  BY <1>2, <1>10 DEF Saving!Debounced, Saving!Type, Saving!SelectType, Saving!CollectionsInv
<1>11. CASE UNCHANGED Saving!collectionVars
  BY <1>2, <1>11 DEF Saving!collectionVars, Saving!toolbar, Saving!CollectionsInv
<1>. QED BY <1>4, <1>5, <1>6, <1>7, <1>8, <1>9, <1>10, <1>11 DEF Saving!Next

LEMMA SavedTells ==
  ASSUME Saving!CollectionsAssumption, Saving!CollectionsInv
  PROVE  Saving!CollectionsHold
<1>1. ASSUME NEW c \in Saving!Active, c2 = {}, c3 = All, c8[c.id].tokens \cap Wild = {}
      PROVE  /\ Saving!Sought(c8[c.id]) \subseteq Saving!Shown
             /\ c8[c.id].tokens \cap Slashed = {} => Saving!Shown = Saving!Sought(c8[c.id])
  <2>1. c \in Saving!Range(c4) /\ c.id = c6  BY DEF Saving!Active
  <2>2. Saving!Active = {c}
    BY <2>1 DEF Saving!Active, Saving!Range, Saving!CollectionsInv
  <2>3. c8[c.id].tokens = c.tokens /\ c8[c.id].types = c.types
        /\ c.tokens \subseteq Tokens
    <3>1. c8[c.id] = [tokens |-> c.tokens, types |-> c.types]  BY <2>1 DEF Saving!CollectionsInv
    <3>2. c4 \in Seq(SavedQueries)  BY DEF Saving!CollectionsInv, SavedQueries
    <3>3. c \in SavedQueries  BY <2>1, <3>2 DEF Saving!Range
    <3>. QED BY <3>1, <3>3 DEF SavedQueries, Saving!CollectionsAssumption
  <2>4. \A w \in c.tokens : w \in Tokens \ Wild
    BY <1>1, <2>3
  <2>5. ASSUME NEW m \in Models, Saving!Matches(m, c.tokens)
        PROVE  \A w \in c.tokens : "path" \in In[w][m]
    <3>1. \A w \in c.tokens : In[w][m] # {}  BY <2>5 DEF Saving!Matches
    <3>. QED BY <2>4, <3>1 DEF Saving!CollectionsAssumption
  <2>6. ASSUME NEW m \in Models, c.tokens \cap Slashed = {},
               \A w \in c.tokens : "path" \in In[w][m]
        PROVE  Saving!Matches(m, c.tokens)
    <3>1. \A w \in c.tokens : w \in Tokens \ (Wild \cup Slashed)
      BY <2>4, <2>6
    <3>2. \A w \in c.tokens : /\ In[w][m] \in SUBSET {"subFolder", "basename", "path"}
                              /\ In[w][m] # {"path"}
      BY <2>4, <3>1 DEF Saving!CollectionsAssumption
    <3>. QED BY <2>6, <3>2 DEF Saving!Matches
  <2>7. \A m \in Models : Saving!Matches(m, c2)
    BY <1>1 DEF Saving!Matches
  <2>. QED BY <1>1, <2>2, <2>3, <2>5, <2>6, <2>7 DEF Saving!Shown, Saving!Sought, Saving!Admits
<1>2. Saving!Reapplied  BY <1>1 DEF Saving!Reapplied
<1>. QED BY <1>2 DEF Saving!CollectionsHold, Saving!CollectionsInv

-----------------------------------------------------------------------------
(* The lightbox.  The index is c5, the metadata c6, the requests c7, and c8 says that one
   was passed. *)

LEMMA ViewerStart == Viewer!Init => Viewer!LightboxInv
BY DEF Viewer!Init, Viewer!LightboxInv

LEMMA WatchedKeeps ==
  ASSUME Viewer!LightboxInv, Viewer!Watched
  PROVE  Viewer!LightboxInv'
<1>1. CASE <<c4, c5, c3, Viewer!Current>>' = <<c4, c5, c3, Viewer!Current>>
  <2>1. UNCHANGED <<c6, c7, c8>> /\ Viewer!Current' = Viewer!Current
    BY <1>1 DEF Viewer!Watched
  <2>. QED BY <2>1 DEF Viewer!LightboxInv
<1>2. CASE <<c4, c5, c3, Viewer!Current>>' # <<c4, c5, c3, Viewer!Current>>
  <2>1. c6' = None /\ c8' = (c7 # <<>>)
        /\ (c7' = Append(c7, Viewer!Current') \/ c7' = c7)
    BY <1>2, Zenon DEF Viewer!Watched
  <2>2. c7 = <<>> => Append(c7, Viewer!Current') = <<Viewer!Current'>>
    OBVIOUS
  <2>. QED BY <2>1, <2>2 DEF Viewer!LightboxInv
<1>. QED BY <1>1, <1>2

LEMMA ViewerStep ==
  ASSUME Viewer!LightboxInv, [Viewer!Next]_(Viewer!lightboxVars)
  PROVE  Viewer!LightboxInv'
<1>1. CASE Viewer!Watched
  BY <1>1, WatchedKeeps
<1>2. ASSUME NEW i \in DOMAIN c7, Viewer!Answered(i)  PROVE Viewer!LightboxInv'
  <2>0. Viewer!Current' = Viewer!Current /\ c8' = c8
    BY <1>2 DEF Viewer!Answered, Viewer!Current
  <2>. SUFFICES ASSUME ~c8  PROVE Viewer!LightboxInv'
    BY <2>0 DEF Viewer!LightboxInv
  <2>1. c7 = <<Viewer!Current>> /\ i = 1
    BY <1>2 DEF Viewer!LightboxInv
  <2>2. c7' = <<>> /\ c6' \in {None, Viewer!Current}
    BY <1>2, <2>1 DEF Viewer!Answered
  <2>. QED BY <2>0, <2>2 DEF Viewer!LightboxInv
<1>3. CASE UNCHANGED Viewer!lightboxVars
  BY <1>3 DEF Viewer!lightboxVars, Viewer!LightboxInv, Viewer!Current
<1>. QED
  BY <1>1, <1>2, <1>3 DEF Viewer!Next, Viewer!OpenLightbox, Viewer!Close, Viewer!Step,
       Viewer!PageBelow, Viewer!ModelReplaced

LEMMA ViewerTells == Viewer!LightboxInv => Viewer!MetaBelongs
BY DEF Viewer!LightboxInv, Viewer!MetaBelongs

-----------------------------------------------------------------------------
(* What the views, a saved search and the lightbox show *)

\* The part's own invariant, where that part is the one that runs.
SeenInv ==
  /\ part = "views" => Shelf!ViewsInv
  /\ part = "saved" => Saving!CollectionsInv
  /\ part = "lightbox" => Viewer!LightboxInv

LEMMA SeenStart == Init => SeenInv
<1>. SUFFICES ASSUME Init  PROVE SeenInv
  OBVIOUS
<1>1. part = "views" => Shelf!ViewsInv  BY ModelsAssumption, ViewsStart DEF Init
<1>2. part = "saved" => Saving!CollectionsInv  BY ModelsAssumption, SavedStart DEF Init
<1>3. part = "lightbox" => Viewer!LightboxInv  BY ViewerStart DEF Init
<1>. QED BY <1>1, <1>2, <1>3 DEF SeenInv

LEMMA SeenStep ==
  ASSUME SeenInv, [Next]_vars
  PROVE  SeenInv'
<1>1. part' = part  BY DEF Next, vars
<1>2. CASE part = "views"
  <2>1. [Shelf!Next]_(Shelf!viewVars)
    BY <1>2 DEF Next, vars, Shelf!viewVars, Shelf!treeVars, Shelf!gridVars, Shelf!barVars
  <2>2. Shelf!ViewsInv'
    BY <1>2, <2>1, ModelsAssumption, ViewsStep DEF SeenInv
  <2>. QED BY <1>1, <1>2, <2>2 DEF SeenInv
<1>3. CASE part = "saved"
  <2>1. [Saving!Next]_(Saving!collectionVars)
    BY <1>3 DEF Next, vars, Saving!collectionVars, Saving!toolbar
  <2>2. Saving!CollectionsInv'
    BY <1>3, <2>1, ModelsAssumption, SavedStep DEF SeenInv
  <2>. QED BY <1>1, <1>3, <2>2 DEF SeenInv
<1>4. CASE part = "lightbox"
  <2>1. [Viewer!Next]_(Viewer!lightboxVars)
    BY <1>4 DEF Next, vars, Viewer!lightboxVars
  <2>2. Viewer!LightboxInv'
    BY <1>4, <2>1, ViewerStep DEF SeenInv
  <2>. QED BY <1>1, <1>4, <2>2 DEF SeenInv
<1>5. CASE part \notin {"views", "saved", "lightbox"}
  BY <1>1, <1>5 DEF SeenInv
<1>. QED BY <1>2, <1>3, <1>4, <1>5

LEMMA SeenHolds == Spec => []SeenInv
<1>1. SeenInv /\ [Next]_vars => SeenInv'  BY SeenStep
<1>. QED BY <1>1, SeenStart, PTL DEF Spec

\* Each view shows the entries it should, wherever the user came from and whatever scans
\* took away or brought back; and a saved search shows what the search would, where no
\* word has a "*" (collections.ts takes it as it is), and no less where one has a "/".
THEOREM ViewsHold == Spec => []ViewsAreTrue
<1>1. SeenInv => ViewsAreTrue
  BY ModelsAssumption, ViewsTell, SavedTells DEF SeenInv, ViewsAreTrue
<1>. QED BY <1>1, SeenHolds, PTL

\* The metadata beside an image is that of the image, unless a request was passed on the way.
THEOREM MetaHolds == Spec => [](part = "lightbox" => Viewer!MetaBelongs)
<1>1. SeenInv => (part = "lightbox" => Viewer!MetaBelongs)
  BY ViewerTells DEF SeenInv
<1>. QED BY <1>1, SeenHolds, PTL
================================================================================
