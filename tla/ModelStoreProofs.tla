--------------------------- MODULE ModelStoreProofs ---------------------------
(***************************************************************************)
(* Proofs about ModelStore, for any types and any bounds.  The inductive   *)
(* invariant is Inv: shapes first, then what the generations say of the    *)
(* scans, then the order of the versions, then that a listing which is     *)
(* behind its folder has something on its way that will catch up.  For the *)
(* loading overlay OverlayInv goes with it: every show that counts has a   *)
(* request that is still to be answered.                                   *)
(***************************************************************************)
EXTENDS ModelStore, FiniteSetTheorems, TLAPS

IsRequest(s) ==
  /\ s = [type |-> s.type, gen |-> s.gen, silent |-> s.silent, waiter |-> s.waiter,
          seen |-> s.seen]
  /\ s.type \in Types /\ s.gen \in Nat /\ s.seen \in Nat \cup {None}

Shapes ==
  /\ disk \in [Types -> Nat]
  /\ shown \in [Types -> Nat \cup {None}]
  /\ generation \in [Types -> Nat]
  /\ \A s \in scans : IsRequest(s)
  /\ missed \in [Types -> BOOLEAN]
  /\ events \in Seq(Event)

SettledIsCards ==
  \A i \in DOMAIN events : events[i].kind = "settled" => events[i].type = CardType

\* A generation is given out once, and the last one is the folder's.
Numbered ==
  /\ \A s \in scans : s.gen <= generation[s.type]
  /\ \A r, s \in scans : r.type = s.type /\ r.gen = s.gen => r = s

\* Nothing is newer than its folder, and no listing than an answer that would
\* still replace it.
Ordered ==
  /\ \A t \in Types : shown[t] # None => shown[t] <= disk[t]
  /\ \A s \in scans : s.seen # None => s.seen <= disk[s.type]
  /\ \A s \in scans : s.seen # None /\ shown[s.type] # None /\ ~Superseded(s)
                        => shown[s.type] <= s.seen

\* A scan whose answer will be shown and will be true.
Catching(s, t) == s.type = t /\ ~Superseded(s) /\ s.seen \in {None, disk[t]}

Announced(t) == \E i \in DOMAIN events : events[i].type = t

\* Whatever the page shows of a folder is true, or will be put right.
Followed(t) ==
  missed[t] \/ shown[t] = disk[t] \/ Announced(t) \/ \E s \in scans : Catching(s, t)

Inv ==
  /\ Shapes /\ SettledIsCards /\ Numbered /\ Ordered
  /\ initialized => \A t \in Types : Followed(t)

\* What the overlay is shown for and still to be hidden for, each with its target:
\* the scans that are not silent, the downloads that wait for a scan or a sweep, and
\* the requests.
ForScans     == {<<"scan", s.type, s.gen>> : s \in {r \in scans : ~r.silent}}
ForDownloads == {<<"landed", "download", s.type, s.gen>> :
                   s \in {r \in scans : r.waiter = "download"}}
ForSweeps    == {<<"sweep", "download", k>> :
                   k \in {j \in Sweeps : sweeps[j].waiter = "download"}}
ForSaving    == {w \in {<<"save", "store">>} : saving # "no"}
ForRemoving  == {w \in {<<"delete", "store">>} : removing # "no"}

Reasons == ForScans \cup ForDownloads \cup ForSweeps \cup ForSaving \cup ForRemoving

\* A timer runs for a reason, and together with the count there are no more of them
\* than reasons.
Carries(o, W) ==
  /\ IsFiniteSet(W) /\ o \in [timers : SUBSET {w[2] : w \in W}, stack : Nat]
  /\ o.stack + Cardinality(o.timers) <= Cardinality(W)

\* Whoever waits for a scan is there to hide what it has shown, once.
Awaited ==
  /\ \A s \in scans : s.silent \in BOOLEAN
  /\ \A s \in scans : s.waiter = "remove" => removing = "rescan"
  /\ \A r, s \in scans : r.waiter = "remove" /\ s.waiter = "remove" => r = s
  /\ \A s \in scans : s.waiter = "download" => ~s.silent
  /\ \A s \in scans : s.waiter \in Sweeps => sweeps[s.waiter].phase = "types"
  /\ \A s \in scans : s.waiter \in Sweeps /\ sweeps[s.waiter].waiter = "download" => ~s.silent

\* A sweep knows for whom it is, and one that a download waits for has a scan under way.
Swept ==
  /\ sweeps \in [Sweeps -> [phase : {"no", "folders", "types"},
                             silent : BOOLEAN, waiter : {"nobody", "download"}]]
  /\ initialized \in BOOLEAN
  /\ \A k \in Sweeps : sweeps[k].waiter = "download" =>
       sweeps[k].phase = "types" /\ \E s \in scans : s.waiter = k

OverlayInv == Awaited /\ Swept /\ Carries(overlay, Reasons)

-----------------------------------------------------------------------------
(* The queue of events *)

LEMMA TailOfEvents ==
  ASSUME Shapes, SettledIsCards, events # <<>>, events' = Tail(events)
  PROVE  /\ events' \in Seq(Event) /\ SettledIsCards' /\ Head(events).type \in Types
         /\ Head(events).kind = "settled" => Head(events).type = CardType
         /\ \A t \in Types : Announced(t) => t = Head(events).type \/ Announced(t)'
<1>1. Len(events) \in Nat /\ Len(events) > 0 /\ \A i \in 1..Len(events) : events[i] \in Event
  BY DEF Shapes
<1>2. Head(events) = events[1] /\ events[1] \in Event
  BY <1>1 DEF Shapes
<1>3. /\ events' \in Seq(Event)
      /\ Len(events') = Len(events) - 1
      /\ \A i \in 1..Len(events') : events'[i] = events[i + 1]
  BY <1>1 DEF Shapes
<1>4. DOMAIN events = 1..Len(events) /\ DOMAIN events' = 1..Len(events')
  BY <1>3 DEF Shapes
<1>5. SettledIsCards'
  BY <1>1, <1>3, <1>4 DEF SettledIsCards
<1>6. Head(events).kind = "settled" => Head(events).type = CardType
  BY <1>1, <1>2, <1>4 DEF SettledIsCards
<1>7. ASSUME NEW t \in Types, Announced(t), t # Head(events).type
      PROVE  Announced(t)'
  <2>1. PICK i \in 1..Len(events) : events[i].type = t
    BY <1>4, <1>7 DEF Announced
  <2>2. i # 1
    BY <2>1, <1>2, <1>7
  <2>3. i - 1 \in 1..Len(events') /\ events'[i - 1] = events[i]
    BY <2>1, <2>2, <1>1, <1>3
  <2>. QED  BY <2>1, <2>3, <1>4 DEF Announced
<1>. QED  BY <1>2, <1>3, <1>5, <1>6, <1>7 DEF Event

LEMMA AppendToEvents ==
  ASSUME Shapes, SettledIsCards, NEW e \in Event, events' = Append(events, e),
         e.kind = "settled" => e.type = CardType
  PROVE  /\ events' \in Seq(Event) /\ SettledIsCards' /\ Announced(e.type)'
         /\ \A t \in Types : Announced(t) => Announced(t)'
<1>1. /\ events' \in Seq(Event) /\ Len(events) \in Nat
      /\ Len(events') = Len(events) + 1
      /\ events'[Len(events) + 1] = e
      /\ \A i \in 1..Len(events) : events'[i] = events[i]
  BY DEF Shapes
<1>2. DOMAIN events = 1..Len(events) /\ DOMAIN events' = 1..Len(events')
  BY <1>1 DEF Shapes
<1>3. SettledIsCards'
  BY <1>1, <1>2 DEF SettledIsCards
<1>. QED  BY <1>1, <1>2, <1>3 DEF Announced

-----------------------------------------------------------------------------
(* The kinds of steps *)

\* A folder changes, and the page is told of it or misses it.
LEMMA FolderChanges ==
  ASSUME Inv, NEW t \in Types, disk' = [disk EXCEPT ![t] = @ + 1],
         UNCHANGED <<shown, generation, scans, initialized>>,
         events' \in Seq(Event), SettledIsCards', missed' \in [Types -> BOOLEAN],
         missed'[t] \/ Announced(t)',
         \A u \in Types : (missed[u] => missed'[u]) /\ (Announced(u) => Announced(u)')
  PROVE  Inv'
<1>. USE DEF Inv
<1>1. Shapes'
  <2>1. disk' \in [Types -> Nat]
    BY DEF Shapes
  <2>2. UNCHANGED <<shown, generation, scans>>
    OBVIOUS
  <2>. QED  BY ONLY <2>1, <2>2, Shapes, missed' \in [Types -> BOOLEAN], events' \in Seq(Event)
            DEF Shapes, IsRequest
<1>2. \A u \in Types : disk[u] \in Nat /\ disk'[u] \in Nat /\ disk[u] <= disk'[u]
                    /\ (u # t => disk'[u] = disk[u])
  BY DEF Shapes
<1>3. \A s \in scans : s.type \in Types /\ s.seen \in Nat \cup {None}
  BY DEF Shapes, IsRequest
<1>4. \A u \in Types : shown[u] \in Nat \cup {None}
  BY DEF Shapes
<1>5. Numbered'
  BY DEF Numbered
<1>6. Ordered'
  <2>1. \A u \in Types : shown'[u] # None => shown'[u] <= disk'[u]
    BY <1>2, <1>4 DEF Ordered
  <2>2. \A s \in scans' : s.seen # None => s.seen <= disk'[s.type]
    BY <1>2, <1>3 DEF Ordered
  <2>. QED  BY <2>1, <2>2 DEF Ordered, Superseded
<1>7. ASSUME initialized', NEW u \in Types  PROVE Followed(u)'
  BY <1>2, <1>7 DEF Followed, Catching, Superseded
<1>. QED  BY <1>1, <1>5, <1>6, <1>7

\* Scans of some folders begin.
LEMMA ScansBegin ==
  ASSUME StoreAssumption, Inv, NEW S \in SUBSET Types, NEW silent, NEW w,
         NEW o, StartScans(S, silent, w, o), UNCHANGED <<disk, shown, missed>>,
         events' \in Seq(Event), SettledIsCards',
         initialized' => initialized \/ S = Types,
         \A t \in Types \ S : Announced(t) => Announced(t)'
  PROVE  Inv'
<1>. USE DEF Inv
<1>. DEFINE new(t) == [type |-> t, gen |-> generation'[t], silent |-> silent,
                       waiter |-> w, seen |-> None]
<1>0. None \notin Nat
  BY DEF StoreAssumption
<1>1. /\ scans' = scans \cup {new(t) : t \in S}
      /\ generation' = [t \in Types |-> generation[t] + (IF t \in S THEN 1 ELSE 0)]
  BY DEF StartScans
<1>2. \A t \in Types : generation[t] \in Nat /\ generation'[t] \in Nat
                    /\ generation'[t] = (IF t \in S THEN generation[t] + 1 ELSE generation[t])
  BY <1>1 DEF Shapes
<1>3. /\ \A s \in scans : IsRequest(s)
      /\ \A s \in scans : s.type \in Types /\ s.gen \in Nat /\ s.gen <= generation[s.type]
  BY DEF Shapes, IsRequest, Numbered
<1>4. generation' \in [Types -> Nat]
  BY <1>1, <1>2
<1>5. \A t \in S : /\ IsRequest(new(t)) /\ new(t).type = t /\ new(t).seen = None
                   /\ new(t).gen = generation[t] + 1 /\ new(t).gen = generation'[t]
  BY <1>2 DEF IsRequest
<1>6. Shapes'
  <2>1. ASSUME NEW s \in scans'  PROVE IsRequest(s)
    <3>1. CASE s \in scans
      BY <3>1, <1>3
    <3>2. CASE s \notin scans
      <4>1. PICK t \in S : s = new(t)
        BY <1>1, <3>2
      <4>. QED  BY <4>1, <1>5
    <3>. QED  BY <3>1, <3>2
  <2>. QED  BY ONLY <2>1, <1>4, Shapes, UNCHANGED <<disk, shown, missed>>,
                    events' \in Seq(Event)
            DEF Shapes, IsRequest
<1>7. Numbered'
  <2>1. \A s \in scans' : s.gen <= generation'[s.type]
    BY <1>1, <1>2, <1>3, <1>5
  <2>2. ASSUME NEW r \in scans', NEW s \in scans', r.type = s.type, r.gen = s.gen
        PROVE  r = s
    <3>1. CASE r \in scans /\ s \in scans
      BY <2>2, <3>1 DEF Numbered
    <3>2. CASE r \notin scans
      <4>1. PICK t \in S : r = new(t)
        BY <1>1, <3>2
      <4>2. s.type = t /\ s.gen = generation[t] + 1
        BY <4>1, <1>5, <2>2
      <4>3. s \notin scans
        BY <4>2, <1>2, <1>3
      <4>4. PICK u \in S : s = new(u)
        BY <1>1, <4>3
      <4>. QED  BY <4>1, <4>2, <4>4, <1>5
    <3>3. CASE s \notin scans
      <4>1. PICK t \in S : s = new(t)
        BY <1>1, <3>3
      <4>2. r.type = t /\ r.gen = generation[t] + 1
        BY <4>1, <1>5, <2>2
      <4>3. r \notin scans
        BY <4>2, <1>2, <1>3
      <4>. QED  BY <3>2, <4>3
    <3>. QED  BY <3>1, <3>2, <3>3
  <2>. QED  BY <2>1, <2>2 DEF Numbered
<1>8. Ordered'
  <2>1. \A s \in scans' : s.seen # None => s \in scans
    BY <1>1, <1>5
  <2>2. \A s \in scans : ~Superseded(s)' => ~Superseded(s)
    BY <1>2, <1>3 DEF Superseded
  <2>. QED  BY <2>1, <2>2 DEF Ordered
<1>9. ASSUME initialized', NEW t \in Types  PROVE Followed(t)'
  <2>1. CASE t \in S
    <3>1. PICK s \in scans' : s = new(t)
      BY <2>1, <1>1
    <3>2. Catching(s, t)'
      BY <2>1, <3>1, <1>5 DEF Catching, Superseded
    <3>. QED  BY <3>2 DEF Followed
  <2>2. CASE t \notin S
    <3>1. Followed(t)
      BY <2>2, <1>9
    <3>2. generation'[t] = generation[t]
      BY <2>2, <1>2
    <3>3. \A s \in scans : s \in scans' /\ (Catching(s, t) => Catching(s, t)')
      BY <3>2, <1>1 DEF Catching, Superseded
    <3>. QED  BY <3>1, <3>3, <2>2 DEF Followed
  <2>. QED  BY <2>1, <2>2
<1>. QED  BY <1>6, <1>7, <1>8, <1>9

\* The folder of a scan is read.
LEMMA FolderRead ==
  ASSUME StoreAssumption, Inv, NEW s \in scans, ReadFolder(s)
  PROVE  Inv'
<1>. USE DEF Inv
<1>. DEFINE r == [s EXCEPT !.seen = disk[s.type]]
<1>1. /\ s.seen = None /\ IsRequest(s) /\ s.type \in Types /\ s.gen \in Nat
      /\ disk[s.type] \in Nat /\ None \notin Nat
  BY DEF ReadFolder, Shapes, IsRequest, StoreAssumption
<1>2. /\ IsRequest(r) /\ r.type = s.type /\ r.gen = s.gen /\ r.seen = disk[s.type]
  BY <1>1 DEF IsRequest
<1>3. /\ scans' = (scans \ {s}) \cup {r}
      /\ UNCHANGED <<disk, events, shown, generation, initialized, missed>>
  BY DEF ReadFolder, backend, flags
<1>. HIDE DEF r
<1>4. Shapes'
  <2>1. \A p \in scans' : IsRequest(p)
    BY <1>2, <1>3 DEF Shapes
  <2>. QED  BY ONLY <2>1, <1>3, Shapes DEF Shapes
<1>5. SettledIsCards'
  BY <1>3 DEF SettledIsCards
<1>6. Numbered'
  <2>1. \A p \in scans' : p.gen <= generation'[p.type]
    BY <1>2, <1>3 DEF Numbered
  <2>2. ASSUME NEW p \in scans', NEW q \in scans', p.type = q.type, p.gen = q.gen
        PROVE  p = q
    BY <1>2, <1>3, <2>2 DEF Numbered
  <2>. QED  BY <2>1, <2>2 DEF Numbered
<1>7. Ordered'
  <2>1. \A p \in scans' : p.seen # None => p.seen <= disk'[p.type]
    BY <1>1, <1>2, <1>3 DEF Ordered
  <2>2. \A p \in scans' : p.seen # None /\ shown'[p.type] # None /\ ~Superseded(p)'
                           => shown'[p.type] <= p.seen
    BY <1>1, <1>2, <1>3 DEF Ordered, Superseded
  <2>. QED  BY <2>1, <2>2, <1>3 DEF Ordered
<1>8. ASSUME initialized', NEW t \in Types  PROVE Followed(t)'
  <2>1. Followed(t)
    BY <1>3, <1>8
  <2>2. CASE missed[t] \/ shown[t] = disk[t] \/ Announced(t)
    BY <2>2, <1>3 DEF Followed, Announced
  <2>3. CASE \E p \in scans : Catching(p, t)
    <3>1. PICK p \in scans : Catching(p, t)
      BY <2>3
    <3>2. CASE p = s
      <4>1. r \in scans' /\ r.type = t /\ r.gen = generation'[t] /\ r.seen = disk'[t]
        BY <3>1, <3>2, <1>2, <1>3 DEF Catching, Superseded
      <4>2. PICK q \in scans' : q = r
        BY <4>1
      <4>3. Catching(q, t)'
        BY <4>1, <4>2 DEF Catching, Superseded
      <4>. QED  BY <4>3 DEF Followed
    <3>3. CASE p # s
      <4>1. p \in scans' /\ Catching(p, t)'
        BY <3>1, <3>3, <1>3 DEF Catching, Superseded
      <4>. QED  BY <4>1 DEF Followed
    <3>. QED  BY <3>2, <3>3
  <2>. QED  BY <2>1, <2>2, <2>3 DEF Followed
<1>. QED  BY <1>4, <1>5, <1>6, <1>7, <1>8

\* A scan is over: its answer is shown, or it has failed.
LEMMA ScanOver ==
  ASSUME StoreAssumption, Inv, NEW s \in scans, ScanAnswered(s) \/ ScanFailed(s)
  PROVE  Inv' /\ NeverBackInTime
<1>. USE DEF Inv
<1>1. /\ IsRequest(s) /\ s.type \in Types /\ s.seen \in Nat \cup {None} /\ None \notin Nat
      /\ s.gen \in Nat
  BY DEF Shapes, IsRequest, StoreAssumption
<1>2. /\ scans' = scans \ {s}
      /\ UNCHANGED <<disk, events, generation, initialized>>
  BY DEF ScanAnswered, ScanFailed, Settle, backend
<1>3. \A t \in Types : shown[t] \in Nat \cup {None} /\ disk[t] \in Nat
  BY DEF Shapes
\* What becomes of the listings, and of the changes nobody told the page of.
<1>4. /\ shown' \in [Types -> Nat \cup {None}]
      /\ \A t \in Types : \/ shown'[t] = shown[t]
                          \/ t = s.type /\ s.seen # None /\ ~Superseded(s) /\ shown'[t] = s.seen
  <2>1. CASE ScanAnswered(s)
    <3>1. s.seen # None /\ shown' = [shown EXCEPT ![s.type] = Listing(s)]
      BY <2>1 DEF ScanAnswered
    <3>2. Listing(s) \in Nat \cup {None}
      BY <1>1, <1>3 DEF Listing
    <3>. QED  BY <3>1, <3>2, <1>1, <1>3 DEF Listing, Shapes
  <2>2. CASE ScanFailed(s)
    BY <2>2 DEF ScanFailed, Shapes
  <2>. QED  BY <2>1, <2>2
<1>5. /\ missed' \in [Types -> BOOLEAN]
      /\ \A t \in Types : missed'[t] \/ ~missed[t] \/ shown'[t] = disk[t]
      /\ s.seen = None => missed'[s.type]
  <2>1. CASE ScanAnswered(s)
    <3>1. /\ s.seen # None
          /\ missed' = [missed EXCEPT ![s.type] = @ /\ (Superseded(s) \/ s.seen # disk[s.type])]
          /\ shown' = [shown EXCEPT ![s.type] = Listing(s)]
      BY <2>1 DEF ScanAnswered
    <3>2. missed' \in [Types -> BOOLEAN]
      BY <3>1 DEF Shapes
    <3>3. ASSUME NEW t \in Types, t # s.type  PROVE missed'[t] = missed[t]
      BY <3>1, <3>3 DEF Shapes
    <3>4. missed[s.type] => missed'[s.type] \/ (~Superseded(s) /\ s.seen = disk[s.type])
      BY <3>1, <1>1 DEF Shapes
    <3>5. ~Superseded(s) => shown'[s.type] = s.seen
      BY <3>1, <1>1 DEF Shapes, Listing
    <3>. QED  BY <3>1, <3>2, <3>3, <3>4, <3>5
  <2>2. CASE ScanFailed(s)
    <3>1. missed' = [missed EXCEPT ![s.type] = TRUE]
      BY <2>2 DEF ScanFailed
    <3>. QED  BY <3>1, <1>1 DEF Shapes
  <2>. QED  BY <2>1, <2>2
<1>6. Shapes'
  <2>1. \A p \in scans' : IsRequest(p)
    BY <1>2 DEF Shapes
  <2>. QED  BY ONLY <2>1, <1>2, <1>4, <1>5, Shapes DEF Shapes
<1>7. SettledIsCards' /\ Numbered'
  BY <1>2 DEF SettledIsCards, Numbered
<1>8. \A t \in Types : shown'[t] # None => shown'[t] <= disk'[t]
  BY <1>1, <1>2, <1>3, <1>4 DEF Ordered
<1>9. \A p \in scans' : p.seen # None /\ shown'[p.type] # None /\ ~Superseded(p)'
                         => shown'[p.type] <= p.seen
  <2>. SUFFICES ASSUME NEW p \in scans', p.seen # None, shown'[p.type] # None, ~Superseded(p)
                PROVE  shown'[p.type] <= p.seen
    BY <1>2 DEF Superseded
  <2>1. p \in scans /\ p # s /\ p.type \in Types
    BY <1>2 DEF Shapes, IsRequest
  <2>2. CASE p.type = s.type
    <3>1. Superseded(s)
      BY <2>1, <2>2 DEF Superseded, Numbered
    <3>. QED  BY <3>1, <2>1, <2>2, <1>4 DEF Ordered
  <2>3. CASE p.type # s.type
    BY <2>1, <2>3, <1>4 DEF Ordered
  <2>. QED  BY <2>2, <2>3
<1>10. Ordered'
  BY <1>8, <1>9, <1>2 DEF Ordered
<1>11. ASSUME initialized', NEW t \in Types  PROVE Followed(t)'
  <2>1. Followed(t)
    BY <1>2, <1>11
  <2>2. CASE missed[t]
    BY <2>2, <1>2, <1>5 DEF Followed
  <2>3. CASE shown[t] = disk[t]
    <3>1. shown'[t] = disk[t]
      BY <2>3, <1>1, <1>3, <1>4 DEF Ordered
    <3>. QED  BY <3>1, <1>2 DEF Followed
  <2>4. CASE Announced(t)
    BY <2>4, <1>2 DEF Followed, Announced
  <2>5. CASE \E p \in scans : Catching(p, t)
    <3>1. PICK p \in scans : Catching(p, t)
      BY <2>5
    <3>2. CASE p # s
      <4>1. p \in scans' /\ Catching(p, t)'
        BY <3>1, <3>2, <1>2 DEF Catching, Superseded
      <4>. QED  BY <4>1 DEF Followed
    <3>3. CASE p = s /\ s.seen = None
      BY <3>1, <3>3, <1>5 DEF Followed, Catching
    <3>4. CASE p = s /\ s.seen # None
      <4>1. t = s.type /\ ~Superseded(s) /\ s.seen = disk[t]
        BY <3>1, <3>4 DEF Catching
      <4>2. ScanAnswered(s)
        BY <3>4 DEF ScanFailed
      <4>3. shown'[t] = s.seen
        BY <4>1, <4>2, <1>1 DEF ScanAnswered, Listing, Shapes
      <4>. QED  BY <4>1, <4>3, <1>2 DEF Followed
    <3>. QED  BY <3>2, <3>3, <3>4
  <2>. QED  BY <2>1, <2>2, <2>3, <2>4, <2>5 DEF Followed
<1>12. NeverBackInTime
  BY <1>1, <1>3, <1>4 DEF NeverBackInTime, Ordered
<1>. QED  BY <1>6, <1>7, <1>10, <1>11, <1>12

-----------------------------------------------------------------------------
(* The actions *)

LEMMA InitInv == StoreAssumption /\ Init => Inv
<1>. SUFFICES ASSUME StoreAssumption, Init  PROVE Inv
  OBVIOUS
<1>1. Shapes
  BY DEF Init, Shapes
<1>. QED
  BY <1>1 DEF Init, Inv, SettledIsCards, Numbered, Ordered

\* A listing that stays does not go back.
LEMMA ListingsStay == ASSUME Inv, UNCHANGED shown  PROVE NeverBackInTime
<1>1. \A t \in Types : shown[t] # None => shown[t] \in Nat
  BY DEF Inv, Shapes
<1>. QED  BY <1>1 DEF NeverBackInTime

\* Steps that leave the folders, the listings and the scans alone; an event may be
\* dropped if the page notes that it missed it.
LEMMA OthersKeep ==
  ASSUME Inv, UNCHANGED <<disk, shown, generation, scans>>, initialized' => initialized,
         events' \in Seq(Event), SettledIsCards', missed' \in [Types -> BOOLEAN],
         initialized' => \A t \in Types : /\ missed[t] => missed'[t]
                                          /\ Announced(t) => Announced(t)' \/ missed'[t]
  PROVE  Inv'
<1>1. Shapes'
  BY DEF Inv, Shapes
<1>2. Numbered' /\ Ordered'
  BY DEF Inv, Numbered, Ordered, Superseded
<1>3. ASSUME initialized', NEW t \in Types  PROVE Followed(t)'
  BY <1>3 DEF Inv, Followed, Catching, Superseded
<1>. QED  BY <1>1, <1>2, <1>3 DEF Inv

\* Steps that have nothing to do with the listings.
LEMMA NothingKeeps ==
  ASSUME Inv, UNCHANGED <<disk, events, shown, generation, scans, initialized, missed>>
  PROVE  Inv'
<1>1. /\ events' \in Seq(Event) /\ missed' \in [Types -> BOOLEAN]
  BY DEF Inv, Shapes
<1>2. SettledIsCards'
  BY DEF Inv, SettledIsCards
<1>3. \A t \in Types : Announced(t) => Announced(t)'
  BY DEF Announced
<1>. QED  BY <1>1, <1>2, <1>3, OthersKeep

\* A change that is announced.
LEMMA ToldOf ==
  ASSUME Inv, NEW e \in Event, e.kind = "settled" => e.type = CardType,
         disk' = [disk EXCEPT ![e.type] = @ + 1], events' = Append(events, e),
         UNCHANGED <<shown, generation, scans, initialized, missed>>
  PROVE  Inv'
<1>1. /\ events' \in Seq(Event) /\ SettledIsCards' /\ Announced(e.type)'
      /\ \A t \in Types : Announced(t) => Announced(t)'
  BY AppendToEvents DEF Inv
<1>2. e.type \in Types /\ missed' \in [Types -> BOOLEAN]
  BY DEF Event, Inv, Shapes
<1>. QED  BY <1>1, <1>2, FolderChanges

\* An event whose folder is scanned, with others or alone.
LEMMA EventScanned ==
  ASSUME StoreAssumption, Inv, events # <<>>, events' = Tail(events),
         NEW S \in SUBSET Types, Head(events).type \in S,
         NEW silent, NEW w, NEW o, StartScans(S, silent, w, o),
         UNCHANGED <<disk, shown, initialized, missed>>
  PROVE  Inv'
BY TailOfEvents, ScansBegin DEF Inv

-----------------------------------------------------------------------------
(* The actions *)

LEMMA ChangesKeep ==
  ASSUME StoreAssumption, Inv,
         (\E t \in Types : ChangeElsewhere(t) \/ Download(t)) \/ Convert \/ SaveLands \/ RemoveLands
  PROVE  Inv'
<1>. USE DEF Changed, Downloaded, Settled, Event, StoreAssumption
<1>1. ASSUME NEW t \in Types, ChangeElsewhere(t)  PROVE Inv'
  <2>1. CASE events' = Append(events, Changed(t)) /\ UNCHANGED missed
    BY <1>1, <2>1, ToldOf DEF ChangeElsewhere, fetching, flags
  <2>2. CASE missed' = [missed EXCEPT ![t] = TRUE] /\ UNCHANGED events
    <3>1. /\ missed' \in [Types -> BOOLEAN] /\ missed'[t] /\ events' \in Seq(Event)
          /\ \A u \in Types : missed[u] => missed'[u]
      BY <2>2 DEF Inv, Shapes
    <3>2. SettledIsCards' /\ \A u \in Types : Announced(u) => Announced(u)'
      BY <2>2 DEF Inv, SettledIsCards, Announced
    <3>. QED  BY <1>1, <3>1, <3>2, FolderChanges DEF ChangeElsewhere, fetching, flags
  <2>. QED  BY <1>1, <2>1, <2>2 DEF ChangeElsewhere
<1>2. ASSUME NEW t \in Types, Download(t)  PROVE Inv'
  BY <1>2, ToldOf DEF Download, fetching, flags
<1>3. CASE Convert
  BY <1>3, ToldOf DEF Convert, fetching, flags
<1>4. CASE SaveLands
  BY <1>4, ToldOf DEF SaveLands, fetching, flags
<1>5. CASE RemoveLands
  BY <1>5, ToldOf DEF RemoveLands, fetching, flags
<1>. QED  BY <1>1, <1>2, <1>3, <1>4, <1>5

LEMMA EventsKeep ==
  ASSUME StoreAssumption, Inv,
         OnChanged \/ OnDownloaded \/ OnSettled \/ \E k \in Sweeps : OnUnknownDownloaded(k)
  PROVE  Inv'
<1>. USE DEF StoreAssumption
<1>1. CASE OnChanged
  <2>. DEFINE t == Head(events).type
  <2>1. CASE loadedOnce
    BY <1>1, <2>1, EventScanned, TailOfEvents DEF OnChanged, flags, Inv
  <2>2. CASE ~loadedOnce
    <3>1. t \in Types /\ missed' = [missed EXCEPT ![t] = TRUE]
      BY <1>1, <2>2, TailOfEvents DEF OnChanged, Inv
    <3>2. /\ missed' \in [Types -> BOOLEAN] /\ missed'[t]
          /\ \A u \in Types : missed[u] => missed'[u]
      BY <3>1 DEF Inv, Shapes
    <3>. QED
      BY <1>1, <2>2, <3>2, TailOfEvents, OthersKeep DEF OnChanged, flags, Inv
  <2>. QED  BY <2>1, <2>2
<1>2. CASE OnDownloaded
  BY <1>2, EventScanned, TailOfEvents DEF OnDownloaded, flags, Inv
<1>3. CASE OnSettled
  <2>1. Head(events).type = CardType
    BY <1>3, TailOfEvents DEF OnSettled, Inv
  <2>. QED  BY <1>3, <2>1, EventScanned DEF OnSettled, flags
<1>4. ASSUME NEW k \in Sweeps, OnUnknownDownloaded(k)  PROVE Inv'
  <2>1. CASE initialized
    BY <1>4, <2>1, EventScanned, TailOfEvents DEF OnUnknownDownloaded, Inv
  <2>2. CASE ~initialized
    <3>1. missed' \in [Types -> BOOLEAN]
      BY <1>4, <2>2 DEF OnUnknownDownloaded, Inv, Shapes
    <3>2. ~initialized' /\ UNCHANGED <<disk, shown, generation, scans>>
      BY <1>4, <2>2 DEF OnUnknownDownloaded
    <3>. QED  BY <1>4, <3>1, <3>2, TailOfEvents, OthersKeep DEF OnUnknownDownloaded, Inv
  <2>. QED  BY <2>1, <2>2
<1>. QED  BY <1>1, <1>2, <1>3, <1>4

\* The answers that are followed by a scan.
LEMMA AnswersKeep ==
  ASSUME StoreAssumption, Inv,
         SaveAnswered \/ RemoveAnswered \/ \E k \in Sweeps : FoldersAnswered(k)
  PROVE  Inv'
<1>. USE DEF StoreAssumption, backend, fetching, flags, requests
<1>1. UNCHANGED events => events' \in Seq(Event) /\ SettledIsCards'
  BY DEF Inv, Shapes, SettledIsCards
<1>2. UNCHANGED events => \A t \in Types : Announced(t) => Announced(t)'
  BY DEF Announced
<1>3. CASE SaveAnswered
  <2>1. CASE saving = "done"
    <3>1. /\ StartScans({CardType}, FALSE, "nobody", Hide(overlay, "store"))
          /\ UNCHANGED <<disk, events, shown, initialized, missed>>
      BY <1>3, <2>1 DEF SaveAnswered
    <3>. QED  BY <3>1, <1>1, <1>2, ScansBegin
  <2>2. CASE saving = "failed"
    BY <1>3, <2>2, NothingKeeps DEF SaveAnswered
  <2>. QED  BY <1>3, <2>1, <2>2 DEF SaveAnswered
<1>4. CASE RemoveAnswered
  <2>1. CASE removing = "done"
    <3>1. /\ StartScans({CardType}, FALSE, "remove", overlay)
          /\ UNCHANGED <<disk, events, shown, initialized, missed>>
      BY <1>4, <2>1 DEF RemoveAnswered
    <3>. QED  BY <3>1, <1>1, <1>2, ScansBegin
  <2>2. CASE removing = "failed"
    BY <1>4, <2>2, NothingKeeps DEF RemoveAnswered
  <2>. QED  BY <1>4, <2>1, <2>2 DEF RemoveAnswered
<1>5. ASSUME NEW k \in Sweeps, FoldersAnswered(k)  PROVE Inv'
  <2>1. UNCHANGED <<disk, events, shown, missed>>
    BY <1>5 DEF FoldersAnswered
  <2>2. CASE initialized'
    <3>1. StartScans(Types, sweeps[k].silent, k, overlay)
      BY <1>5, <2>2 DEF FoldersAnswered
    <3>. QED  BY <2>1, <3>1, <1>1, <1>2, ScansBegin
  <2>3. CASE ~initialized'
    <3>1. UNCHANGED <<generation, scans>>
      BY <1>5, <2>3 DEF FoldersAnswered
    <3>2. missed' \in [Types -> BOOLEAN]
      BY <2>1 DEF Inv, Shapes
    <3>. QED  BY <2>1, <2>3, <3>1, <3>2, <1>1, OthersKeep
  <2>. QED  BY <2>2, <2>3
<1>. QED  BY <1>3, <1>4, <1>5

LEMMA OtherActionsKeep ==
  ASSUME Inv,
         \/ \E k \in Sweeps : OpenManager(k) \/ RefreshButton(k)
         \/ OpenCard \/ CloseCard \/ Edit \/ Save \/ SaveFails \/ Remove \/ RemoveFails
         \/ \E t \in Target : TimerFires(t)
         \/ UNCHANGED vars
  PROVE  Inv' /\ UNCHANGED shown
<1>1. UNCHANGED <<disk, events, shown, generation, scans, initialized, missed>>
  BY DEF OpenManager, RefreshButton, OpenCard, CloseCard, Edit, Save, SaveFails, Remove,
         RemoveFails, TimerFires, vars, backend, fetching, flags, requests
<1>. QED  BY <1>1, NothingKeeps

LEMMA StepInv ==
  ASSUME StoreAssumption, Inv, [Next]_vars
  PROVE  Inv' /\ NeverBackInTime
<1>1. ASSUME NEW s \in scans, ReadFolder(s)  PROVE Inv' /\ NeverBackInTime
  BY <1>1, FolderRead, ListingsStay DEF ReadFolder
<1>2. ASSUME NEW s \in scans, ScanAnswered(s) \/ ScanFailed(s)  PROVE Inv' /\ NeverBackInTime
  BY <1>2, ScanOver
<1>3. CASE (\E t \in Types : ChangeElsewhere(t) \/ Download(t)) \/ Convert \/ SaveLands
           \/ RemoveLands
  BY <1>3, ChangesKeep, ListingsStay
     DEF ChangeElsewhere, Download, Convert, SaveLands, RemoveLands
<1>4. CASE OnChanged \/ OnDownloaded \/ OnSettled \/ \E k \in Sweeps : OnUnknownDownloaded(k)
  BY <1>4, EventsKeep, ListingsStay DEF OnChanged, OnDownloaded, OnSettled, OnUnknownDownloaded
<1>5. CASE SaveAnswered \/ RemoveAnswered \/ \E k \in Sweeps : FoldersAnswered(k)
  BY <1>5, AnswersKeep, ListingsStay DEF SaveAnswered, RemoveAnswered, FoldersAnswered
<1>6. CASE \/ \E k \in Sweeps : OpenManager(k) \/ RefreshButton(k)
           \/ OpenCard \/ CloseCard \/ Edit \/ Save \/ SaveFails \/ Remove \/ RemoveFails
           \/ \E t \in Target : TimerFires(t)
           \/ UNCHANGED vars
  BY <1>6, OtherActionsKeep, ListingsStay
<1>. QED  BY <1>1, <1>2, <1>3, <1>4, <1>5, <1>6 DEF Next

LEMMA Invariance == ASSUME StoreAssumption  PROVE Spec => []Inv
<1>1. Init => Inv
  BY InitInv
<1>2. Inv /\ [Next]_vars => Inv'
  BY StepInv
<1>. QED  BY <1>1, <1>2, PTL DEF Spec

-----------------------------------------------------------------------------
(* The properties *)

\* folderGeneration: however many scans of a folder overlap, and in whatever order
\* they are answered or fail, its listing never goes back to an older state.
THEOREM OnlyForward == ASSUME StoreAssumption  PROVE Spec => [][NeverBackInTime]_vars
<1>1. Inv /\ [Next]_vars => [NeverBackInTime]_vars
  BY StepInv
<1>. QED  BY <1>1, Invariance, PTL DEF Spec

LEMMA CaughtUp == Inv => ShownIsCurrent
BY DEF Inv, Followed, Announced, Catching, ShownIsCurrent, Quiet

\* refreshModels and the websocket's events: a page that has been loaded shows every
\* folder as it is once nothing is on its way, but for changes nobody told it of.
THEOREM CatchesUp == ASSUME StoreAssumption  PROVE Spec => []ShownIsCurrent
BY CaughtUp, Invariance, PTL

-----------------------------------------------------------------------------
(* The loading overlay *)

\* As many targets as reasons, at most.
LEMMA Targets ==
  ASSUME NEW W, IsFiniteSet(W)
  PROVE  LET T == {w[2] : w \in W} IN IsFiniteSet(T) /\ Cardinality(T) <= Cardinality(W)
<1>. DEFINE T == {w[2] : w \in W}
            f == [w \in W |-> w[2]]
<1>1. f \in Surjection(W, T)
  BY DEF Surjection
<1>. QED  BY <1>1, FS_Surjection

LEMMA TimersAreFew ==
  ASSUME NEW W, NEW o, Carries(o, W)
  PROVE  /\ IsFiniteSet(o.timers) /\ Cardinality(o.timers) \in Nat
         /\ Cardinality(o.timers) <= Cardinality(W) /\ Cardinality(W) \in Nat
<1>. DEFINE T == {w[2] : w \in W}
<1>1. IsFiniteSet(T) /\ Cardinality(T) <= Cardinality(W) /\ o.timers \in SUBSET T
  BY Targets DEF Carries
<1>2. IsFiniteSet(o.timers) /\ Cardinality(o.timers) <= Cardinality(T)
  BY <1>1, FS_Subset
<1>3. Cardinality(o.timers) \in Nat /\ Cardinality(T) \in Nat /\ Cardinality(W) \in Nat
  BY <1>1, <1>2, FS_CardinalityType DEF Carries
<1>. QED  BY <1>1, <1>2, <1>3

LEMMA CarriedRecord ==
  ASSUME NEW W, IsFiniteSet(W), NEW A \in SUBSET {w[2] : w \in W}, NEW n \in Nat,
         n + Cardinality(A) <= Cardinality(W)
  PROVE  Carries([timers |-> A, stack |-> n], W)
<1>. DEFINE T == {w[2] : w \in W}
            o == [timers |-> A, stack |-> n]
<1>1. o \in [timers : SUBSET T, stack : Nat] /\ o.timers = A /\ o.stack = n
  OBVIOUS
<1>. QED  BY <1>1 DEF Carries

\* show, once for each new reason.
LEMMA ShowCarries ==
  ASSUME NEW W, NEW o, Carries(o, W), NEW X, IsFiniteSet(X), W \cap X = {}
  PROVE  Carries(Show(o, {x[2] : x \in X}), W \cup X)
<1>. DEFINE T == {x[2] : x \in X}
            n == o.timers \cup T
<1>1. IsFiniteSet(T) /\ Cardinality(T) <= Cardinality(X)
  BY Targets
<1>2. /\ IsFiniteSet(o.timers) /\ Cardinality(o.timers) \in Nat
      /\ Cardinality(T) \in Nat /\ Cardinality(X) \in Nat /\ Cardinality(W) \in Nat
  BY <1>1, TimersAreFew, FS_CardinalityType
<1>3. /\ IsFiniteSet(n)
      /\ Cardinality(n) = Cardinality(o.timers) + Cardinality(T) - Cardinality(o.timers \cap T)
  BY <1>1, <1>2, FS_Union
<1>4. Cardinality(n) \in Nat /\ Cardinality(o.timers \cap T) \in Nat
  BY <1>1, <1>2, <1>3, FS_CardinalityType, FS_Subset
<1>5. IsFiniteSet(W \cup X) /\ Cardinality(W \cup X) = Cardinality(W) + Cardinality(X)
  <2>1. IsFiniteSet(W)
    BY DEF Carries
  <2>2. Cardinality(W \cap X) = 0
    BY FS_EmptySet
  <2>3. /\ IsFiniteSet(W \cup X)
        /\ Cardinality(W \cup X) = Cardinality(W) + Cardinality(X) - Cardinality(W \cap X)
    BY <2>1, FS_Union
  <2>. QED  BY <1>2, <2>2, <2>3
<1>6. Show(o, T) = [timers |-> n, stack |-> o.stack]
  <2>1. o = [timers |-> o.timers, stack |-> o.stack]
    BY DEF Carries
  <2>. HIDE DEF T
  <2>. QED  BY <2>1 DEF Show
<1>7. n \in SUBSET {w[2] : w \in W \cup X}
  BY DEF Carries
<1>8. o.stack + Cardinality(n) <= Cardinality(W \cup X) /\ o.stack \in Nat
  BY <1>1, <1>2, <1>3, <1>4, <1>5 DEF Carries
<1>9. Carries([timers |-> n, stack |-> o.stack], W \cup X)
  <2>. HIDE DEF n
  <2>. QED  BY <1>5, <1>7, <1>8, CarriedRecord
<1>. QED  BY <1>6, <1>9

\* hide, for one reason; the count may have to be kept from falling below zero.
LEMMA HideCarries ==
  ASSUME NEW W, NEW o, Carries(o, W), NEW w \in W
  PROVE  Carries(Hide(o, w[2]), W \ {w})
<1>. DEFINE V == W \ {w}
            t == w[2]
<1>1. IsFiniteSet(V) /\ Cardinality(V) = Cardinality(W) - 1 /\ Cardinality(V) \in Nat
  BY FS_RemoveElement, FS_CardinalityType DEF Carries
<1>2. /\ IsFiniteSet(o.timers) /\ Cardinality(o.timers) \in Nat /\ o.stack \in Nat
      /\ o.stack + Cardinality(o.timers) <= Cardinality(W) /\ Cardinality(W) \in Nat
  BY TimersAreFew DEF Carries
<1>3. o.timers \ {t} \in SUBSET {v[2] : v \in V}
  BY DEF Carries
<1>4. CASE t \in o.timers
  <2>1. Hide(o, t) = [timers |-> o.timers \ {t}, stack |-> o.stack]
    BY <1>4 DEF Hide, Carries
  <2>2. Cardinality(o.timers \ {t}) = Cardinality(o.timers) - 1
    BY <1>2, <1>4, FS_RemoveElement
  <2>3. Carries([timers |-> o.timers \ {t}, stack |-> o.stack], V)
    <3>. HIDE DEF V, t
    <3>1. o.stack + Cardinality(o.timers \ {t}) <= Cardinality(V)
      BY <1>1, <1>2, <2>2
    <3>. QED  BY <1>1, <1>2, <1>3, <3>1, CarriedRecord
  <2>. QED  BY <2>1, <2>3
<1>5. CASE t \notin o.timers
  <2>1. Hide(o, t) = [timers |-> o.timers, stack |-> IF o.stack = 0 THEN 0 ELSE o.stack - 1]
    BY <1>5 DEF Hide, Carries
  <2>2. o.timers \in SUBSET {v[2] : v \in V}
    BY <1>3, <1>5
  <2>3. Cardinality(o.timers) <= Cardinality(V)
    <3>. DEFINE T == {v[2] : v \in V}
    <3>1. IsFiniteSet(T) /\ Cardinality(T) <= Cardinality(V)
      BY <1>1, Targets
    <3>2. Cardinality(o.timers) <= Cardinality(T) /\ Cardinality(T) \in Nat
      BY <2>2, <3>1, FS_Subset, FS_CardinalityType
    <3>. HIDE DEF T, V
    <3>. QED  BY <1>1, <1>2, <3>1, <3>2
  <2>4. Carries([timers |-> o.timers, stack |-> IF o.stack = 0 THEN 0 ELSE o.stack - 1], V)
    <3>. HIDE DEF V, t
    <3>. QED  BY <1>1, <1>2, <2>2, <2>3, CarriedRecord
  <2>. QED  BY <2>1, <2>4
<1>. QED  BY <1>4, <1>5

\* A timer fires.
LEMMA FireCarries ==
  ASSUME NEW W, NEW o, Carries(o, W), NEW t \in o.timers
  PROVE  Carries(Fire(o, t), W)
<1>1. /\ IsFiniteSet(o.timers) /\ Cardinality(o.timers) \in Nat /\ o.stack \in Nat
      /\ o.stack + Cardinality(o.timers) <= Cardinality(W) /\ Cardinality(W) \in Nat
  BY TimersAreFew DEF Carries
<1>2. Cardinality(o.timers \ {t}) = Cardinality(o.timers) - 1
  BY <1>1, FS_RemoveElement
<1>3. Fire(o, t) = [timers |-> o.timers \ {t}, stack |-> o.stack + 1]
  BY DEF Fire
<1>. QED  BY <1>1, <1>2, <1>3 DEF Carries

\* The reasons of one kind are of no other, and have one target.
LEMMA KindsDiffer ==
  /\ \A w \in ForScans : w[1] = "scan"
  /\ \A w \in ForDownloads : w[1] = "landed" /\ w[2] = "download"
  /\ \A w \in ForSweeps : w[1] = "sweep" /\ w[2] = "download"
  /\ \A w \in ForSaving : w[1] = "save" /\ w[2] = "store"
  /\ \A w \in ForRemoving : w[1] = "delete" /\ w[2] = "store"
<1>1. \A w \in ForScans : w[1] = "scan"
  BY DEF ForScans
<1>2. \A w \in ForDownloads : w[1] = "landed" /\ w[2] = "download"
  BY DEF ForDownloads
<1>3. \A w \in ForSweeps : w[1] = "sweep" /\ w[2] = "download"
  BY DEF ForSweeps
<1>4. \A w \in ForSaving : w[1] = "save" /\ w[2] = "store"
  BY DEF ForSaving
<1>5. \A w \in ForRemoving : w[1] = "delete" /\ w[2] = "store"
  BY DEF ForRemoving
<1>. QED  BY <1>1, <1>2, <1>3, <1>4, <1>5

\* What new scans are, and what they are shown for.
LEMMA ScansNew ==
  ASSUME StoreAssumption, Inv, NEW S \in SUBSET Types, NEW silent, NEW w, NEW o,
         StartScans(S, silent, w, o)
  PROVE  /\ scans \subseteq scans'
         /\ \A s \in scans' \ scans : /\ s.waiter = w /\ s.silent = silent /\ s.type \in S
                                      /\ s.gen = generation'[s.type]
         /\ \A t \in S : \E s \in scans' \ scans : s.type = t
<1>. DEFINE new(t) == [type |-> t, gen |-> generation'[t], silent |-> silent,
                       waiter |-> w, seen |-> None]
<1>1. scans' = scans \cup {new(t) : t \in S}
  BY DEF StartScans
<1>2. ASSUME NEW t \in S  PROVE new(t) \notin scans
  <2>1. generation'[t] = generation[t] + 1 /\ generation[t] \in Nat
    BY DEF StartScans, Inv, Shapes
  <2>2. \A s \in scans : s.gen \in Nat /\ s.gen <= generation[s.type]
    BY DEF Inv, Shapes, IsRequest, Numbered
  <2>3. new(t).type = t /\ new(t).gen = generation[t] + 1
    BY <2>1
  <2>. QED  BY <2>1, <2>2, <2>3
<1>3. \A t \in S : /\ new(t).waiter = w /\ new(t).silent = silent /\ new(t).type = t
                  /\ new(t).gen = generation'[t]
  OBVIOUS
<1>. HIDE DEF new
<1>. QED  BY <1>1, <1>2, <1>3

LEMMA ScansShown ==
  ASSUME StoreAssumption, Inv, NEW S \in SUBSET Types, NEW silent, NEW w, NEW o,
         StartScans(S, silent, w, o), NEW V, Carries(o, V), ForScans \subseteq V,
         \A v \in V : v[1] = "scan" => v \in ForScans
  PROVE  Carries(overlay', V \cup ForScans')
<1>. DEFINE X == {<<"scan", t, generation'[t]>> : t \in S}
<1>1. /\ scans \subseteq scans'
      /\ \A s \in scans' \ scans : /\ s.waiter = w /\ s.silent = silent /\ s.type \in S
                                   /\ s.gen = generation'[s.type]
      /\ \A t \in S : \E s \in scans' \ scans : s.type = t
  BY ScansNew
<1>2. CASE silent
  <2>1. overlay' = o
    BY <1>2 DEF StartScans
  <2>2. ForScans' = ForScans
    <3>1. {s \in scans' : ~s.silent} = {s \in scans : ~s.silent}
      BY <1>1, <1>2
    <3>. QED  BY <3>1 DEF ForScans
  <2>3. V \cup ForScans' = V
    BY <2>2
  <2>. QED  BY <2>1, <2>3
<1>3. CASE ~silent
  <2>1. ForScans' = ForScans \cup X
    <3>1. ASSUME NEW x \in ForScans'  PROVE x \in ForScans \cup X
      <4>1. PICK s \in scans' : ~s.silent /\ x = <<"scan", s.type, s.gen>>
        BY DEF ForScans
      <4>2. CASE s \in scans
        BY <4>1, <4>2 DEF ForScans
      <4>3. CASE s \notin scans
        BY <4>1, <4>3, <1>1
      <4>. QED  BY <4>2, <4>3
    <3>2. ForScans \subseteq ForScans'
      BY <1>1 DEF ForScans
    <3>3. ASSUME NEW t \in S  PROVE <<"scan", t, generation'[t]>> \in ForScans'
      <4>1. PICK s \in scans' \ scans : s.type = t
        BY <1>1
      <4>2. ~s.silent /\ s.gen = generation'[t]
        BY <4>1, <1>1, <1>3
      <4>. QED  BY <4>1, <4>2 DEF ForScans
    <3>. QED  BY <3>1, <3>2, <3>3
  <2>2. IsFiniteSet(X)
    <3>. DEFINE f == [t \in S |-> <<"scan", t, generation'[t]>>]
    <3>1. f \in Surjection(S, X)
      BY DEF Surjection
    <3>2. IsFiniteSet(S)
      BY FS_Subset DEF StoreAssumption
    <3>. QED  BY <3>1, <3>2, FS_Surjection
  <2>3. V \cap X = {}
    <3>. SUFFICES ASSUME NEW t \in S, <<"scan", t, generation'[t]>> \in V  PROVE FALSE
      OBVIOUS
    <3>1. <<"scan", t, generation'[t]>> \in ForScans
      OBVIOUS
    <3>2. PICK s \in scans : s.type = t /\ s.gen = generation'[t]
      BY <3>1 DEF ForScans
    <3>3. s.gen \in Nat /\ s.gen <= generation[t] /\ generation[t] \in Nat
      BY <3>2 DEF Inv, Shapes, IsRequest, Numbered
    <3>4. generation'[t] = generation[t] + 1
      BY DEF StartScans
    <3>. QED  BY <3>2, <3>3, <3>4
  <2>4. overlay' = Show(o, S)
    BY <1>3 DEF StartScans
  <2>5. S = {x[2] : x \in X}
    <3>1. \A t \in S : <<"scan", t, generation'[t]>> \in X /\ <<"scan", t, generation'[t]>>[2] = t
      OBVIOUS
    <3>2. \A x \in X : x[2] \in S
      OBVIOUS
    <3>. HIDE DEF X
    <3>. QED  BY <3>1, <3>2
  <2>6. Carries(Show(o, {x[2] : x \in X}), V \cup X)
    <3>. HIDE DEF X
    <3>. QED  BY <2>2, <2>3, ShowCarries
  <2>7. V \cup ForScans' = V \cup X
    BY <2>1
  <2>. HIDE DEF X
  <2>. QED  BY <2>4, <2>5, <2>6, <2>7
<1>. QED  BY <1>2, <1>3

LEMMA ScansAwaited ==
  ASSUME StoreAssumption, Inv, Awaited, NEW S \in SUBSET Types, NEW silent, NEW w, NEW o,
         StartScans(S, silent, w, o), silent \in BOOLEAN,
         w = "download" => ~silent,
         w = "remove" => removing # "rescan" /\ removing' = "rescan" /\ \E t : S = {t},
         removing = "rescan" => removing' = "rescan",
         \A s \in scans : s.waiter \in Sweeps =>
           sweeps'[s.waiter].phase = "types" /\ sweeps'[s.waiter].waiter = sweeps[s.waiter].waiter,
         w \in Sweeps =>
           sweeps'[w].phase = "types" /\ (sweeps'[w].waiter = "download" => ~silent)
  PROVE  /\ Awaited'
         /\ w # "download" => ForDownloads' = ForDownloads
<1>1. /\ scans \subseteq scans'
      /\ \A s \in scans' \ scans : /\ s.waiter = w /\ s.silent = silent /\ s.type \in S
                                   /\ s.gen = generation'[s.type]
  BY ScansNew
<1>2. ASSUME NEW r \in scans', NEW s \in scans', r.waiter = "remove", s.waiter = "remove"
      PROVE  r = s
  <2>1. CASE w # "remove"
    BY <1>1, <1>2, <2>1 DEF Awaited
  <2>2. CASE w = "remove"
    <3>1. r \notin scans /\ s \notin scans
      BY <1>2, <2>2 DEF Awaited
    <3>2. r.type = s.type /\ r.gen = s.gen
      BY <1>1, <2>2, <3>1
    <3>3. /\ r = [type |-> r.type, gen |-> r.gen, silent |-> silent, waiter |-> w, seen |-> None]
          /\ s = [type |-> s.type, gen |-> s.gen, silent |-> silent, waiter |-> w, seen |-> None]
      BY <3>1 DEF StartScans
    <3>. QED  BY <3>2, <3>3
  <2>. QED  BY <2>1, <2>2
<1>3. /\ \A s \in scans' : s.silent \in BOOLEAN
      /\ \A s \in scans' : s.waiter = "remove" => removing' = "rescan"
      /\ \A s \in scans' : s.waiter = "download" => ~s.silent
  BY <1>1 DEF Awaited
<1>4. ASSUME NEW s \in scans', s.waiter \in Sweeps
      PROVE  /\ sweeps'[s.waiter].phase = "types"
             /\ sweeps'[s.waiter].waiter = "download" => ~s.silent
  <2>1. CASE s \in scans
    BY <1>4, <2>1 DEF Awaited
  <2>2. CASE s \notin scans
    BY <1>1, <1>4, <2>2
  <2>. QED  BY <2>1, <2>2
<1>5. ASSUME w # "download"  PROVE ForDownloads' = ForDownloads
  <2>1. {s \in scans' : s.waiter = "download"} = {s \in scans : s.waiter = "download"}
    BY <1>1, <1>5
  <2>. QED  BY <2>1 DEF ForDownloads
<1>. QED  BY <1>2, <1>3, <1>4, <1>5 DEF Awaited

\* Steps that touch nothing the overlay is about.
LEMMA OverlayRests ==
  ASSUME OverlayInv, UNCHANGED <<scans, sweeps, initialized, overlay>>,
         saving' = "no" <=> saving = "no", removing' = "no" <=> removing = "no",
         removing = "rescan" => removing' = "rescan"
  PROVE  OverlayInv'
<1>1. Awaited' /\ Swept'
  BY DEF OverlayInv, Awaited, Swept
<1>2. Reasons' = Reasons
  BY DEF Reasons, ForScans, ForDownloads, ForSweeps, ForSaving, ForRemoving
<1>. QED  BY <1>1, <1>2 DEF OverlayInv, Carries

\* Scans that nobody waits for, or only the page: the reasons grow by themselves.
LEMMA ScansCarried ==
  ASSUME StoreAssumption, Inv, OverlayInv, NEW S \in SUBSET Types, NEW silent, NEW w,
         StartScans(S, silent, w, overlay), silent \in BOOLEAN,
         w \in {"nobody", "settle"}, UNCHANGED <<sweeps, initialized, saving, removing>>
  PROVE  OverlayInv'
<1>1. w \notin Sweeps
  BY DEF StoreAssumption
<1>2. Awaited' /\ ForDownloads' = ForDownloads
  BY <1>1, ScansAwaited DEF OverlayInv, Awaited
<1>3. Swept'
  <2>1. scans \subseteq scans'
    BY ScansNew
  <2>. QED  BY <2>1 DEF OverlayInv, Swept
<1>4. /\ ForScans \subseteq Reasons
      /\ \A v \in Reasons : v[1] = "scan" => v \in ForScans
  BY KindsDiffer DEF Reasons
<1>5. Carries(overlay', Reasons \cup ForScans')
  BY <1>4, ScansShown DEF OverlayInv
<1>6. ForScans \subseteq ForScans'
  BY ScansNew DEF ForScans
<1>7. Reasons' = Reasons \cup ForScans'
  BY <1>2, <1>6 DEF Reasons, ForSweeps, ForSaving, ForRemoving
<1>. QED  BY <1>2, <1>3, <1>5, <1>7 DEF OverlayInv

\* The reasons that a scan leaves behind when it is over.
LEMMA ScanLeaves ==
  ASSUME Inv, Awaited, NEW s \in scans, scans' = scans \ {s}
  PROVE  /\ ForScans' = ForScans \ {<<"scan", s.type, s.gen>>}
         /\ s.silent \/ <<"scan", s.type, s.gen>> \in ForScans
         /\ ForDownloads' = ForDownloads \ {<<"landed", "download", s.type, s.gen>>}
         /\ s.waiter = "download" =>
              <<"landed", "download", s.type, s.gen>> \in ForDownloads
<1>1. \A r \in scans : r.type = s.type /\ r.gen = s.gen => r = s
  BY DEF Inv, Numbered
<1>2. ForScans' = ForScans \ {<<"scan", s.type, s.gen>>}
  BY <1>1 DEF ForScans
<1>3. ForDownloads' = ForDownloads \ {<<"landed", "download", s.type, s.gen>>}
  BY <1>1 DEF ForDownloads
<1>. QED  BY <1>2, <1>3 DEF ForScans, ForDownloads, Awaited

LEMMA SettleAwaited ==
  ASSUME StoreAssumption, Inv, OverlayInv, NEW s \in scans, Settle(s)
  PROVE  Awaited' /\ Swept'
<1>1. scans' = scans \ {s} /\ initialized' = initialized
  BY DEF Settle
<1>2. /\ removing' = IF s.waiter = "remove" THEN "no" ELSE removing
      /\ sweeps' = IF SweepOver(s) THEN [sweeps EXCEPT ![s.waiter] = Over] ELSE sweeps
  BY DEF Settle
<1>3. \A r \in scans' : r.waiter = "remove" => removing' = "rescan"
  BY <1>1, <1>2 DEF OverlayInv, Awaited
<1>4. \A r \in scans' : r.waiter \in Sweeps => sweeps'[r.waiter] = sweeps[r.waiter]
  BY <1>1, <1>2 DEF SweepOver, OverlayInv, Swept
<1>5. Awaited'
  BY <1>1, <1>3, <1>4 DEF OverlayInv, Awaited
<1>6. sweeps' \in [Sweeps -> [phase : {"no", "folders", "types"},
                              silent : BOOLEAN, waiter : {"nobody", "download"}]]
  <2>1. Over \in [phase : {"no", "folders", "types"}, silent : BOOLEAN, waiter : {"nobody", "download"}]
    BY DEF Over
  <2>. QED  BY <1>2, <2>1 DEF OverlayInv, Swept
<1>7. ASSUME NEW k \in Sweeps, sweeps'[k].waiter = "download"
      PROVE  sweeps'[k].phase = "types" /\ \E r \in scans' : r.waiter = k
  <2>1. ~(SweepOver(s) /\ k = s.waiter)
    BY <1>2, <1>7 DEF OverlayInv, Swept, Over
  <2>2. sweeps'[k] = sweeps[k]
    BY <1>2, <2>1 DEF OverlayInv, Swept, SweepOver
  <2>3. PICK r \in scans : r.waiter = k
    BY <1>7, <2>2 DEF OverlayInv, Swept
  <2>4. \E q \in scans \ {s} : q.waiter = k
    BY <2>1, <2>3, <1>7 DEF SweepOver
  <2>. QED  BY <1>1, <1>7, <2>2, <2>4 DEF OverlayInv, Swept
<1>. QED  BY <1>1, <1>5, <1>6, <1>7 DEF OverlayInv, Swept

\* A scan is over: the overlay is hidden for it, and for whoever waited.
LEMMA SettleCarries ==
  ASSUME StoreAssumption, Inv, OverlayInv, NEW s \in scans, Settle(s)
  PROVE  OverlayInv'
<1>. DEFINE a == <<"scan", s.type, s.gen>>
            d == <<"landed", "download", s.type, s.gen>>
            k == <<"sweep", "download", s.waiter>>
            o == IF s.silent THEN overlay ELSE Hide(overlay, s.type)
            V == Reasons \ {a}
<1>1. /\ scans' = scans \ {s} /\ saving' = saving
      /\ removing' = IF s.waiter = "remove" THEN "no" ELSE removing
      /\ sweeps' = IF SweepOver(s) THEN [sweeps EXCEPT ![s.waiter] = Over] ELSE sweeps
  BY DEF Settle
<1>2. overlay' = CASE s.waiter = "remove" -> Hide(o, "store")
                   [] s.waiter = "download" -> Hide(o, "download")
                   [] SweepOver(s) /\ sweeps[s.waiter].waiter = "download" -> Hide(o, "download")
                   [] OTHER -> o
  BY DEF Settle
<1>3. /\ ForScans' = ForScans \ {a} /\ (s.silent \/ a \in ForScans)
      /\ ForDownloads' = ForDownloads \ {d}
      /\ s.waiter = "download" => d \in ForDownloads
  BY <1>1, ScanLeaves DEF OverlayInv
<1>4. a[1] = "scan" /\ a[2] = s.type /\ d[1] = "landed" /\ d[2] = "download"
      /\ k[1] = "sweep" /\ k[2] = "download"
  OBVIOUS
<1>5. Carries(o, V)
  <2>1. CASE s.silent
    <3>1. a \notin ForScans
      BY <2>1 DEF ForScans, Inv, Numbered
    <3>2. a \notin Reasons
      BY <1>4, <3>1, KindsDiffer DEF Reasons
    <3>3. V = Reasons
      BY <3>2
    <3>. QED  BY <2>1, <3>3 DEF OverlayInv
  <2>2. CASE ~s.silent
    <3>1. a \in Reasons
      BY <1>3, <2>2 DEF Reasons
    <3>. HIDE DEF a
    <3>2. Carries(Hide(overlay, a[2]), Reasons \ {a})
      BY <3>1, HideCarries DEF OverlayInv
    <3>. QED  BY <1>4, <2>2, <3>2
  <2>. QED  BY <2>1, <2>2
<1>6. ForSaving' = ForSaving
  BY <1>1 DEF ForSaving
<1>7. CASE s.waiter = "remove"
  <2>1. /\ ~SweepOver(s) /\ removing' = "no" /\ removing = "rescan" /\ sweeps' = sweeps
        /\ overlay' = Hide(o, "store")
    BY <1>1, <1>2, <1>7 DEF SweepOver, StoreAssumption, OverlayInv, Awaited
  <2>. DEFINE r == <<"delete", "store">>
  <2>2. ForRemoving = {r} /\ ForRemoving' = {} /\ ForSweeps' = ForSweeps
    BY <2>1 DEF ForRemoving, ForSweeps
  <2>3. d \notin ForDownloads
    BY <1>7 DEF ForDownloads, Inv, Numbered
  <2>4. r \in V /\ r[2] = "store"
    BY <2>2, <1>4 DEF Reasons
  <2>5. Reasons' = V \ {r}
    <3>. HIDE DEF a, d, r
    <3>1. \A x \in ForScans \cup ForDownloads \cup ForSweeps \cup ForSaving : x # r
      BY <2>2, KindsDiffer
    <3>2. \A x \in ForDownloads \cup ForSweeps \cup ForSaving : x # a
      BY <1>4, KindsDiffer
    <3>. QED  BY <1>3, <1>6, <2>2, <2>3, <3>1, <3>2 DEF Reasons
  <2>6. Carries(Hide(o, "store"), V \ {r})
    <3>. HIDE DEF V, o, r
    <3>. QED  BY <1>5, <2>4, HideCarries
  <2>. QED  BY <2>1, <2>5, <2>6, SettleAwaited DEF OverlayInv
<1>8. CASE s.waiter = "download"
  <2>1. /\ ~SweepOver(s) /\ removing' = removing /\ sweeps' = sweeps
        /\ overlay' = Hide(o, "download")
    BY <1>1, <1>2, <1>8 DEF SweepOver, StoreAssumption
  <2>2. ForRemoving' = ForRemoving /\ ForSweeps' = ForSweeps
    BY <2>1 DEF ForRemoving, ForSweeps
  <2>3. d \in V /\ d[2] = "download"
    BY <1>3, <1>4, <1>8 DEF Reasons
  <2>4. Reasons' = V \ {d}
    <3>. HIDE DEF a, d
    <3>1. \A x \in ForScans \cup ForRemoving \cup ForSweeps \cup ForSaving : x # d
      BY <1>4, KindsDiffer
    <3>2. \A x \in ForDownloads \cup ForRemoving \cup ForSweeps \cup ForSaving : x # a
      BY <1>4, KindsDiffer
    <3>. QED  BY <1>3, <1>6, <2>2, <3>1, <3>2 DEF Reasons
  <2>5. Carries(Hide(o, "download"), V \ {d})
    <3>. HIDE DEF V, o, d
    <3>. QED  BY <1>5, <2>3, HideCarries
  <2>. QED  BY <2>1, <2>4, <2>5, SettleAwaited DEF OverlayInv
<1>9. CASE s.waiter \notin {"remove", "download"}
  <2>1. removing' = removing /\ d \notin ForDownloads
    BY <1>1, <1>9 DEF ForDownloads, Inv, Numbered
  <2>2. ForRemoving' = ForRemoving
    BY <2>1 DEF ForRemoving
  <2>3. \A x \in ForDownloads \cup ForRemoving \cup ForSweeps \cup ForSaving : x # a
    BY <1>4, KindsDiffer
  <2>4. CASE SweepOver(s) /\ sweeps[s.waiter].waiter = "download"
    <3>1. ForSweeps' = ForSweeps \ {k} /\ k \in ForSweeps
      <4>1. s.waiter \in Sweeps /\ sweeps' = [sweeps EXCEPT ![s.waiter] = Over]
        BY <1>1, <2>4 DEF SweepOver
      <4>2. \A j \in Sweeps : sweeps'[j].waiter = "download" <=>
                              sweeps[j].waiter = "download" /\ j # s.waiter
        BY <4>1 DEF OverlayInv, Swept, Over
      <4>. QED  BY <2>4, <4>1, <4>2 DEF ForSweeps
    <3>2. overlay' = Hide(o, "download")
      BY <1>2, <1>9, <2>4
    <3>3. k \in V /\ k[2] = "download"
      BY <1>4, <2>3, <3>1 DEF Reasons
    <3>4. Reasons' = V \ {k}
      <4>. HIDE DEF a, d, k
      <4>1. \A x \in ForScans \cup ForDownloads \cup ForRemoving \cup ForSaving : x # k
        BY <1>4, KindsDiffer
      <4>. QED  BY <1>3, <1>6, <2>1, <2>2, <2>3, <3>1, <4>1 DEF Reasons
    <3>5. Carries(Hide(o, "download"), V \ {k})
      <4>. HIDE DEF V, o, k
      <4>. QED  BY <1>5, <3>3, HideCarries
    <3>. QED  BY <3>2, <3>4, <3>5, SettleAwaited DEF OverlayInv
  <2>5. CASE ~(SweepOver(s) /\ sweeps[s.waiter].waiter = "download")
    <3>1. ForSweeps' = ForSweeps
      <4>1. \A j \in Sweeps : sweeps'[j].waiter = "download" <=> sweeps[j].waiter = "download"
        BY <1>1, <2>5 DEF OverlayInv, Swept, Over, SweepOver
      <4>. QED  BY <4>1 DEF ForSweeps
    <3>2. overlay' = o
      BY <1>2, <1>9, <2>5
    <3>3. Reasons' = V
      <4>. HIDE DEF a, d
      <4>. QED  BY <1>3, <1>6, <2>1, <2>2, <2>3, <3>1 DEF Reasons
    <3>. QED  BY <1>5, <3>2, <3>3, SettleAwaited DEF OverlayInv
  <2>. QED  BY <2>4, <2>5
<1>. QED  BY <1>7, <1>8, <1>9

\* The sweeps.
LEMMA SweepsCarry ==
  ASSUME StoreAssumption, Inv, OverlayInv, NEW k \in Sweeps,
         OpenManager(k) \/ RefreshButton(k) \/ FoldersAnswered(k)
  PROVE  OverlayInv'
<1>1. /\ \A s \in scans : s.waiter \in Sweeps => sweeps[s.waiter].phase = "types"
      /\ sweeps[k].waiter = "download" => sweeps[k].phase = "types"
      /\ sweeps[k].silent \in BOOLEAN /\ sweeps[k].waiter \in {"nobody", "download"}
  BY DEF OverlayInv, Awaited, Swept
<1>2. ASSUME sweeps' \in [Sweeps -> [phase : {"no", "folders", "types"},
                                    silent : BOOLEAN, waiter : {"nobody", "download"}]],
             \A j \in Sweeps \ {k} : sweeps'[j] = sweeps[j],
             sweeps[k].phase # "types", sweeps'[k].waiter = "nobody", initialized' \in BOOLEAN,
             UNCHANGED <<scans, saving, removing, overlay>>
      PROVE  OverlayInv'
  <2>1. \A j \in Sweeps : sweeps'[j].waiter = "download" <=> sweeps[j].waiter = "download"
    BY <1>1, <1>2
  <2>2. \A s \in scans : s.waiter # k
    BY <1>1, <1>2
  <2>3. Awaited' /\ Swept'
    BY <1>2, <2>1, <2>2 DEF OverlayInv, Awaited, Swept
  <2>4. ForSweeps' = ForSweeps
    BY <2>1 DEF ForSweeps
  <2>5. Reasons' = Reasons
    BY <1>2, <2>4 DEF Reasons, ForScans, ForDownloads, ForSaving, ForRemoving
  <2>. QED  BY <1>2, <2>3, <2>5 DEF OverlayInv, Carries
<1>3. CASE OpenManager(k) \/ RefreshButton(k)
  <2>1. PICK silent \in {initialized, FALSE} : StartSweep(k, silent)
    BY <1>3 DEF OpenManager, RefreshButton
  <2>. DEFINE e == [phase |-> "folders", silent |-> silent, waiter |-> "nobody"]
  <2>2. /\ sweeps[k].phase = "no" /\ sweeps' = [sweeps EXCEPT ![k] = e]
        /\ UNCHANGED <<scans, initialized, saving, removing, overlay>>
    BY <1>3, <2>1 DEF StartSweep, OpenManager, RefreshButton, flags, requests
  <2>3. e \in [phase : {"no", "folders", "types"}, silent : BOOLEAN, waiter : {"nobody", "download"}]
    BY DEF OverlayInv, Swept
  <2>4. sweeps'[k].waiter = "nobody" /\ initialized' \in BOOLEAN
    BY <2>2 DEF OverlayInv, Swept
  <2>. HIDE DEF e
  <2>. QED  BY <2>2, <2>3, <2>4, <1>2 DEF OverlayInv, Swept
<1>4. CASE FoldersAnswered(k)
  <2>1. /\ sweeps[k].phase = "folders" /\ sweeps[k].waiter = "nobody"
        /\ UNCHANGED <<saving, removing>> /\ initialized' \in BOOLEAN
    BY <1>1, <1>4 DEF FoldersAnswered, requests, OverlayInv, Swept
  <2>2. CASE initialized'
    <3>1. /\ StartScans(Types, sweeps[k].silent, k, overlay)
          /\ sweeps' = [sweeps EXCEPT ![k].phase = "types"]
      BY <1>4, <2>2 DEF FoldersAnswered
    <3>2. /\ \A j \in Sweeps : sweeps'[j].waiter = sweeps[j].waiter
          /\ \A j \in Sweeps \ {k} : sweeps'[j] = sweeps[j]
          /\ sweeps'[k].phase = "types" /\ k \notin {"remove", "download"}
      BY <3>1 DEF OverlayInv, Swept, StoreAssumption
    <3>3. Awaited' /\ ForDownloads' = ForDownloads
      <4>1. \A s \in scans : s.waiter \in Sweeps => s.waiter # k
        BY <1>1, <2>1
      <4>2. Awaited /\ sweeps[k].silent \in BOOLEAN
        BY DEF OverlayInv, Swept
      <4>3. \A s \in scans : s.waiter \in Sweeps =>
              sweeps'[s.waiter].phase = "types" /\ sweeps'[s.waiter].waiter = sweeps[s.waiter].waiter
        BY <3>2, <4>1, <4>2 DEF Awaited
      <4>4. k # "download" /\ k # "remove" /\ sweeps'[k].waiter # "download" /\ removing' = removing
        BY <2>1, <3>2
      <4>. QED  BY <3>1, <3>2, <4>2, <4>3, <4>4, ScansAwaited
    <3>4. Swept'
      <4>1. scans \subseteq scans'
        BY <3>1, ScansNew
      <4>. QED  BY <2>1, <3>1, <3>2, <4>1 DEF OverlayInv, Swept
    <3>5. Carries(overlay', Reasons \cup ForScans')
      <4>1. /\ ForScans \subseteq Reasons
            /\ \A v \in Reasons : v[1] = "scan" => v \in ForScans
        BY KindsDiffer DEF Reasons
      <4>. QED  BY <3>1, <4>1, ScansShown DEF OverlayInv
    <3>6. ForScans \subseteq ForScans' /\ ForSweeps' = ForSweeps
      <4>1. scans \subseteq scans'
        BY <3>1, ScansNew
      <4>. QED  BY <3>2, <4>1 DEF ForScans, ForSweeps
    <3>7. Reasons' = Reasons \cup ForScans'
      BY <2>1, <3>3, <3>6 DEF Reasons, ForSaving, ForRemoving
    <3>. QED  BY <3>3, <3>4, <3>5, <3>7 DEF OverlayInv
  <2>3. CASE ~initialized'
    <3>1. sweeps' = [sweeps EXCEPT ![k] = Over] /\ UNCHANGED <<scans, overlay>>
      BY <1>4, <2>3 DEF FoldersAnswered
    <3>. QED  BY <2>1, <3>1, <1>2 DEF OverlayInv, Swept, Over
  <2>. QED  BY <2>2, <2>3
<1>. QED  BY <1>3, <1>4

\* The events.
LEMMA EventsCarry ==
  ASSUME StoreAssumption, Inv, OverlayInv,
         OnChanged \/ OnDownloaded \/ OnSettled \/ \E k \in Sweeps : OnUnknownDownloaded(k)
  PROVE  OverlayInv'
<1>. DEFINE t == Head(events).type
<1>1. t \in Types
  BY TailOfEvents DEF Inv, OnChanged, OnDownloaded, OnSettled, OnUnknownDownloaded
<1>2. /\ ForScans \subseteq Reasons
      /\ \A v \in Reasons : v[1] = "scan" => v \in ForScans
  BY KindsDiffer DEF Reasons
<1>3. CASE OnChanged
  <2>1. UNCHANGED <<sweeps, initialized, saving, removing>>
    BY <1>3 DEF OnChanged, flags, requests
  <2>2. CASE loadedOnce
    <3>1. StartScans({t}, TRUE, "nobody", overlay)
      BY <1>3, <2>2 DEF OnChanged
    <3>. QED  BY <1>1, <2>1, <3>1, ScansCarried
  <2>3. CASE ~loadedOnce
    BY <1>3, <2>1, <2>3, OverlayRests DEF OnChanged
  <2>. QED  BY <2>2, <2>3
<1>4. CASE OnSettled
  <2>1. StartScans({CardType}, FALSE, "settle", overlay) /\ CardType \in Types
    BY <1>4 DEF OnSettled, StoreAssumption
  <2>2. UNCHANGED <<sweeps, initialized, saving, removing>>
    BY <1>4 DEF OnSettled, flags, requests
  <2>. QED  BY <2>1, <2>2, ScansCarried
<1>5. CASE OnDownloaded
  <2>. DEFINE d == <<"landed", "download", t, generation'[t]>>
              o == Show(overlay, {"download"})
  <2>1. StartScans({t}, FALSE, "download", o)
    BY <1>5 DEF OnDownloaded
  <2>2. UNCHANGED <<sweeps, initialized, saving, removing>>
    BY <1>5 DEF OnDownloaded, flags, requests
  <2>3. Awaited'
    <3>1. "download" \notin Sweeps
      BY DEF StoreAssumption
    <3>. QED  BY <1>1, <2>1, <2>2, <3>1, ScansAwaited DEF OverlayInv, Awaited
  <2>4. /\ scans \subseteq scans'
        /\ \A s \in scans' \ scans : s.waiter = "download" /\ s.type = t /\ s.gen = generation'[t]
        /\ \E s \in scans' \ scans : s.type = t
    <3>. HIDE DEF o
    <3>1. {t} \in SUBSET Types
      BY <1>1
    <3>2. /\ scans \subseteq scans'
          /\ \A s \in scans' \ scans : /\ s.waiter = "download" /\ s.silent = FALSE /\ s.type \in {t}
                                       /\ s.gen = generation'[s.type]
          /\ \A u \in {t} : \E s \in scans' \ scans : s.type = u
      BY <2>1, <3>1, ScansNew
    <3>. QED  BY <3>2
  <2>5. Swept'
    BY <2>2, <2>4 DEF OverlayInv, Swept
  <2>6. ForDownloads' = ForDownloads \cup {d}
    <3>1. d \in ForDownloads'
      BY <2>4 DEF ForDownloads
    <3>2. ForDownloads \subseteq ForDownloads'
      BY <2>4 DEF ForDownloads
    <3>3. ForDownloads' \subseteq ForDownloads \cup {d}
      BY <2>4 DEF ForDownloads
    <3>. QED  BY <3>1, <3>2, <3>3
  <2>7. d \notin Reasons
    <3>1. generation'[t] = generation[t] + 1 /\ generation[t] \in Nat
      BY <1>1, <2>1 DEF StartScans, Inv, Shapes
    <3>2. \A s \in scans : s.type = t => s.gen \in Nat /\ s.gen <= generation[t]
      BY DEF Inv, Shapes, IsRequest, Numbered
    <3>3. d \notin ForDownloads
      BY <3>1, <3>2 DEF ForDownloads
    <3>4. d[1] = "landed"
      OBVIOUS
    <3>. HIDE DEF d
    <3>. QED  BY <3>3, <3>4, KindsDiffer DEF Reasons
  <2>8. Carries(o, Reasons \cup {d})
    <3>1. d[2] = "download"
      OBVIOUS
    <3>. HIDE DEF d
    <3>2. Carries(Show(overlay, {x[2] : x \in {d}}), Reasons \cup {d})
      <4>1. Reasons \cap {d} = {} /\ IsFiniteSet({d})
        BY <2>7, FS_Singleton
      <4>. QED  BY <4>1, ShowCarries DEF OverlayInv
    <3>3. {x[2] : x \in {d}} = {"download"}
      BY <3>1
    <3>. QED  BY <3>2, <3>3
  <2>9. Carries(overlay', Reasons \cup {d} \cup ForScans')
    <3>1. d[1] # "scan"
      OBVIOUS
    <3>. HIDE DEF d, o, t
    <3>. QED  BY <1>1, <1>2, <2>1, <2>8, <3>1, ScansShown
  <2>10. ForScans \subseteq ForScans'
    BY <2>4 DEF ForScans
  <2>11. Reasons' = Reasons \cup {d} \cup ForScans'
    <3>. HIDE DEF d
    <3>. QED  BY <2>2, <2>6, <2>10 DEF Reasons, ForSweeps, ForSaving, ForRemoving
  <2>. QED  BY <2>3, <2>5, <2>9, <2>11 DEF OverlayInv
<1>6. ASSUME NEW k \in Sweeps, OnUnknownDownloaded(k)  PROVE OverlayInv'
  <2>. DEFINE d == <<"sweep", "download", k>>
              o == Show(overlay, {"download"})
              e == [phase |-> "types", silent |-> FALSE, waiter |-> "download"]
  <2>1. /\ sweeps[k].phase = "no" /\ sweeps[k].waiter = "nobody"
        /\ UNCHANGED <<initialized, saving, removing>>
    BY <1>6 DEF OnUnknownDownloaded, requests, OverlayInv, Swept
  <2>2. \A s \in scans : s.waiter # k
    BY <2>1 DEF OverlayInv, Awaited
  <2>3. CASE ~initialized
    <3>1. sweeps' = [sweeps EXCEPT ![k] = Over] /\ UNCHANGED <<scans, overlay>>
      BY <1>6, <2>3 DEF OnUnknownDownloaded
    <3>2. /\ \A j \in Sweeps \ {k} : sweeps'[j] = sweeps[j]
          /\ \A j \in Sweeps : sweeps'[j].waiter = "download" <=> sweeps[j].waiter = "download"
      BY <2>1, <3>1 DEF OverlayInv, Swept, Over
    <3>3. Awaited' /\ Swept'
      BY <2>1, <2>2, <3>1, <3>2 DEF OverlayInv, Awaited, Swept, Over
    <3>4. ForSweeps' = ForSweeps
      BY <3>2 DEF ForSweeps
    <3>5. Reasons' = Reasons
      BY <2>1, <3>1, <3>4 DEF Reasons, ForScans, ForDownloads, ForSaving, ForRemoving
    <3>. QED  BY <3>1, <3>3, <3>5 DEF OverlayInv, Carries
  <2>4. CASE initialized
    <3>1. StartScans(Types, FALSE, k, o) /\ sweeps' = [sweeps EXCEPT ![k] = e]
      BY <1>6, <2>4 DEF OnUnknownDownloaded
    <3>2. /\ \A j \in Sweeps \ {k} : sweeps'[j] = sweeps[j]
          /\ sweeps'[k].phase = "types" /\ sweeps'[k].waiter = "download"
          /\ k \notin {"remove", "download"}
      BY <3>1 DEF OverlayInv, Swept, StoreAssumption
    <3>3. Awaited' /\ ForDownloads' = ForDownloads
      BY <2>1, <2>2, <3>1, <3>2, ScansAwaited DEF OverlayInv, Awaited
    <3>4. scans \subseteq scans' /\ \E s \in scans' : s.waiter = k
      <4>. HIDE DEF o
      <4>1. /\ scans \subseteq scans'
            /\ \A s \in scans' \ scans : /\ s.waiter = k /\ s.silent = FALSE /\ s.type \in Types
                                         /\ s.gen = generation'[s.type]
            /\ \A u \in Types : \E s \in scans' \ scans : s.type = u
        BY <3>1, ScansNew
      <4>. QED  BY <1>1, <4>1
    <3>5. Swept'
      <4>1. sweeps' \in [Sweeps -> [phase : {"no", "folders", "types"},
                                    silent : BOOLEAN, waiter : {"nobody", "download"}]]
        BY <3>1 DEF OverlayInv, Swept
      <4>. QED  BY <2>1, <3>2, <3>4, <4>1 DEF OverlayInv, Swept
    <3>6. ForSweeps' = ForSweeps \cup {d} /\ d \notin Reasons
      <4>1. \A j \in Sweeps : sweeps'[j].waiter = "download" <=>
                              sweeps[j].waiter = "download" \/ j = k
        BY <3>2
      <4>2. ForSweeps' = ForSweeps \cup {d} /\ d \notin ForSweeps
        BY <2>1, <4>1 DEF ForSweeps
      <4>3. d[1] = "sweep"
        OBVIOUS
      <4>. HIDE DEF d
      <4>. QED  BY <4>2, <4>3, KindsDiffer DEF Reasons
    <3>7. Carries(o, Reasons \cup {d})
      <4>1. d[2] = "download"
        OBVIOUS
      <4>. HIDE DEF d
      <4>2. Carries(Show(overlay, {x[2] : x \in {d}}), Reasons \cup {d})
        <5>1. Reasons \cap {d} = {} /\ IsFiniteSet({d})
          BY <3>6, FS_Singleton
        <5>. QED  BY <5>1, ShowCarries DEF OverlayInv
      <4>3. {x[2] : x \in {d}} = {"download"}
        BY <4>1
      <4>. QED  BY <4>2, <4>3
    <3>8. Carries(overlay', Reasons \cup {d} \cup ForScans')
      <4>1. d[1] # "scan"
        OBVIOUS
      <4>. HIDE DEF d, o
      <4>. QED  BY <1>2, <3>1, <3>7, <4>1, ScansShown
    <3>9. ForScans \subseteq ForScans'
      BY <3>4 DEF ForScans
    <3>10. Reasons' = Reasons \cup {d} \cup ForScans'
      <4>. HIDE DEF d
      <4>. QED  BY <2>1, <3>3, <3>6, <3>9 DEF Reasons, ForSaving, ForRemoving
    <3>. QED  BY <3>3, <3>5, <3>8, <3>10 DEF OverlayInv
  <2>. QED  BY <2>3, <2>4
<1>. QED  BY <1>3, <1>4, <1>5, <1>6

\* The save.
LEMMA SavingCarries ==
  ASSUME StoreAssumption, Inv, OverlayInv, Save \/ SaveAnswered
  PROVE  OverlayInv'
<1>. DEFINE w == <<"save", "store">>
<1>1. UNCHANGED <<sweeps, initialized, removing>>
  BY DEF Save, SaveAnswered, fetching, flags
<1>2. CASE UNCHANGED <<scans, saving, overlay>>
  BY <1>1, <1>2, OverlayRests
<1>3. CASE Save /\ saving' # saving
  <2>1. /\ saving = "no" /\ saving' # "no" /\ scans' = scans /\ overlay' = Show(overlay, {"store"})
    BY <1>3 DEF Save, fetching
  <2>2. Awaited' /\ Swept'
    BY <1>1, <2>1 DEF OverlayInv, Awaited, Swept
  <2>3. ForSaving = {} /\ ForSaving' = {w}
    BY <2>1 DEF ForSaving
  <2>4. Reasons' = Reasons \cup {w}
    <3>. HIDE DEF w
    <3>. QED  BY <1>1, <2>1, <2>3 DEF Reasons, ForScans, ForDownloads, ForSweeps, ForRemoving
  <2>5. w[1] = "save" /\ w[2] = "store"
    OBVIOUS
  <2>. HIDE DEF w
  <2>6. Reasons \cap {w} = {}
    BY <2>3, <2>5, KindsDiffer DEF Reasons
  <2>7. Carries(Show(overlay, {x[2] : x \in {w}}), Reasons \cup {w})
    BY <2>6, FS_Singleton, ShowCarries DEF OverlayInv
  <2>8. {x[2] : x \in {w}} = {"store"}
    BY <2>5
  <2>. QED  BY <2>1, <2>2, <2>4, <2>7, <2>8 DEF OverlayInv
<1>4. CASE SaveAnswered /\ saving' # saving
  <2>. DEFINE o == Hide(overlay, "store")
              V == Reasons \ {w}
  <2>1. saving # "no" /\ saving' = "no"
    BY <1>4 DEF SaveAnswered
  <2>2. ForSaving = {w} /\ ForSaving' = {}
    BY <2>1 DEF ForSaving
  <2>3. w[1] = "save" /\ w[2] = "store"
    OBVIOUS
  <2>4. Carries(o, V)
    <3>. HIDE DEF w
    <3>1. w \in Reasons
      BY <2>2 DEF Reasons
    <3>2. Carries(Hide(overlay, w[2]), Reasons \ {w})
      BY <3>1, HideCarries DEF OverlayInv
    <3>. QED  BY <2>3, <3>2
  <2>5. /\ ForScans \subseteq V
        /\ \A v \in V : v[1] = "scan" => v \in ForScans
    <3>. HIDE DEF w
    <3>. QED  BY <2>3, KindsDiffer DEF Reasons
  <2>6. /\ V \cup ForScans = ForScans \cup ForDownloads \cup ForSweeps \cup ForRemoving
        /\ ForSweeps' = ForSweeps /\ ForRemoving' = ForRemoving
    <3>1. \A x \in ForScans \cup ForDownloads \cup ForSweeps \cup ForRemoving : x # w
      <4>. HIDE DEF w
      <4>. QED  BY <2>3, KindsDiffer
    <3>. HIDE DEF w
    <3>. QED  BY <1>1, <2>2, <3>1 DEF Reasons, ForSweeps, ForRemoving
  <2>7. CASE saving = "done"
    <3>1. StartScans({CardType}, FALSE, "nobody", o) /\ CardType \in Types
      BY <1>4, <2>7 DEF SaveAnswered, StoreAssumption
    <3>2. "nobody" \notin Sweeps
      BY DEF StoreAssumption
    <3>. HIDE DEF o, w
    <3>3. Awaited' /\ ForDownloads' = ForDownloads
      <4>1. /\ Awaited /\ {CardType} \in SUBSET Types
            /\ \A s \in scans : s.waiter \in Sweeps => sweeps[s.waiter].phase = "types"
        BY <3>1 DEF OverlayInv, Awaited
      <4>2. PICK silent \in BOOLEAN, by \in {"nobody"} : StartScans({CardType}, silent, by, o)
        BY <3>1
      <4>. QED  BY <1>1, <3>2, <4>1, <4>2, ScansAwaited
    <3>4. scans \subseteq scans'
      BY <3>1 DEF StartScans
    <3>5. Swept'
      BY <1>1, <3>4 DEF OverlayInv, Swept
    <3>6. Carries(overlay', V \cup ForScans')
      <4>. HIDE DEF V
      <4>. QED  BY <2>4, <2>5, <3>1, ScansShown
    <3>7. ForScans \subseteq ForScans'
      BY <3>4 DEF ForScans
    <3>8. Reasons' = V \cup ForScans'
      BY <2>2, <2>6, <3>3, <3>7 DEF Reasons
    <3>. QED  BY <3>3, <3>5, <3>6, <3>8 DEF OverlayInv
  <2>8. CASE saving # "done"
    <3>1. scans' = scans /\ overlay' = o
      BY <1>4, <2>8 DEF SaveAnswered, fetching
    <3>2. Awaited' /\ Swept'
      BY <1>1, <3>1 DEF OverlayInv, Awaited, Swept
    <3>3. ForScans' = ForScans /\ ForDownloads' = ForDownloads
      BY <3>1 DEF ForScans, ForDownloads
    <3>4. Reasons' = V
      <4>. HIDE DEF w
      <4>. QED  BY <2>2, <2>5, <2>6, <3>3 DEF Reasons
    <3>. QED  BY <2>4, <3>1, <3>2, <3>4 DEF OverlayInv
  <2>. QED  BY <2>7, <2>8
<1>5. Save /\ saving' = saving => UNCHANGED <<scans, saving, overlay>>
  BY DEF Save, fetching
<1>6. SaveAnswered => saving' # saving
  BY DEF SaveAnswered
<1>. QED  BY <1>2, <1>3, <1>4, <1>5, <1>6

\* The delete, which has its scan hide what it has shown.
LEMMA RemovingCarries ==
  ASSUME StoreAssumption, Inv, OverlayInv, Remove \/ RemoveAnswered
  PROVE  OverlayInv'
<1>. DEFINE w == <<"delete", "store">>
<1>1. UNCHANGED <<sweeps, initialized, saving>>
  BY DEF Remove, RemoveAnswered, fetching, flags
<1>2. w[1] = "delete" /\ w[2] = "store"
  OBVIOUS
<1>3. CASE Remove
  <2>1. /\ removing = "no" /\ removing' = "sent" /\ scans' = scans
        /\ overlay' = Show(overlay, {"store"})
    BY <1>3 DEF Remove, fetching
  <2>2. Awaited' /\ Swept'
    BY <1>1, <2>1 DEF OverlayInv, Awaited, Swept
  <2>3. ForRemoving = {} /\ ForRemoving' = {w}
    BY <2>1 DEF ForRemoving
  <2>. HIDE DEF w
  <2>4. Reasons' = Reasons \cup {w}
    BY <1>1, <2>1, <2>3 DEF Reasons, ForScans, ForDownloads, ForSweeps, ForSaving
  <2>5. Reasons \cap {w} = {} /\ IsFiniteSet({w})
    BY <1>2, <2>3, KindsDiffer, FS_Singleton DEF Reasons
  <2>6. Carries(Show(overlay, {x[2] : x \in {w}}), Reasons \cup {w})
    BY <2>5, ShowCarries DEF OverlayInv
  <2>7. {x[2] : x \in {w}} = {"store"}
    BY <1>2
  <2>. QED  BY <2>1, <2>2, <2>4, <2>6, <2>7 DEF OverlayInv
<1>4. CASE RemoveAnswered /\ removing = "done"
  <2>1. /\ removing' = "rescan" /\ StartScans({CardType}, FALSE, "remove", overlay)
        /\ CardType \in Types
    BY <1>4 DEF RemoveAnswered, StoreAssumption
  <2>2. "remove" \notin Sweeps
    BY DEF StoreAssumption
  <2>3. Awaited' /\ ForDownloads' = ForDownloads
    <3>1. /\ Awaited /\ {CardType} \in SUBSET Types
          /\ \A s \in scans : s.waiter \in Sweeps => sweeps[s.waiter].phase = "types"
      BY <2>1 DEF OverlayInv, Awaited
    <3>2. PICK silent \in BOOLEAN, by \in {"remove"} : StartScans({CardType}, silent, by, overlay)
      BY <2>1
    <3>. QED  BY <1>1, <1>4, <2>1, <2>2, <3>1, <3>2, ScansAwaited
  <2>4. scans \subseteq scans'
    BY <2>1 DEF StartScans
  <2>5. Swept'
    BY <1>1, <2>4 DEF OverlayInv, Swept
  <2>6. Carries(overlay', Reasons \cup ForScans')
    <3>1. /\ ForScans \subseteq Reasons
          /\ \A v \in Reasons : v[1] = "scan" => v \in ForScans
      BY KindsDiffer DEF Reasons
    <3>. QED  BY <2>1, <3>1, ScansShown DEF OverlayInv
  <2>7. ForRemoving' = ForRemoving
    BY <1>4, <2>1 DEF ForRemoving
  <2>8. ForScans \subseteq ForScans'
    BY <2>4 DEF ForScans
  <2>9. Reasons' = Reasons \cup ForScans'
    BY <1>1, <2>3, <2>7, <2>8 DEF Reasons, ForSweeps, ForSaving
  <2>. QED  BY <2>3, <2>5, <2>6, <2>9 DEF OverlayInv
<1>5. CASE RemoveAnswered /\ removing # "done"
  <2>1. /\ removing = "failed" /\ removing' = "no" /\ scans' = scans
        /\ overlay' = Hide(overlay, "store")
    BY <1>5 DEF RemoveAnswered, fetching
  <2>2. Awaited' /\ Swept'
    BY <1>1, <2>1 DEF OverlayInv, Awaited, Swept
  <2>3. ForRemoving = {w} /\ ForRemoving' = {}
    BY <2>1 DEF ForRemoving
  <2>. HIDE DEF w
  <2>4. w \in Reasons /\ \A x \in ForScans \cup ForDownloads \cup ForSweeps \cup ForSaving : x # w
    BY <1>2, <2>3, KindsDiffer DEF Reasons
  <2>5. Reasons' = Reasons \ {w}
    BY <1>1, <2>1, <2>3, <2>4 DEF Reasons, ForScans, ForDownloads, ForSweeps, ForSaving
  <2>6. Carries(Hide(overlay, w[2]), Reasons \ {w})
    BY <2>4, HideCarries DEF OverlayInv
  <2>. QED  BY <1>2, <2>1, <2>2, <2>5, <2>6 DEF OverlayInv
<1>. QED  BY <1>3, <1>4, <1>5

LEMMA OverlayStart == StoreAssumption /\ Init => OverlayInv
<1>. SUFFICES ASSUME StoreAssumption, Init  PROVE OverlayInv
  OBVIOUS
<1>1. Awaited /\ Swept
  BY DEF Init, Awaited, Swept, Over
<1>2. Reasons = {}
  <2>1. ForScans = {} /\ ForDownloads = {}
    BY DEF Init, ForScans, ForDownloads
  <2>2. ForSweeps = {} /\ ForSaving = {} /\ ForRemoving = {}
    BY DEF Init, ForSweeps, ForSaving, ForRemoving, Over
  <2>. QED  BY <2>1, <2>2 DEF Reasons
<1>3. Carries(Hidden, {})
  <2>1. IsFiniteSet({}) /\ Cardinality({}) = 0
    BY FS_EmptySet
  <2>2. Hidden \in [timers : SUBSET {w[2] : w \in {}}, stack : Nat]
    BY DEF Hidden
  <2>3. Hidden.stack = 0 /\ Hidden.timers = {}
    BY DEF Hidden
  <2>. QED  BY <2>1, <2>2, <2>3 DEF Carries
<1>. QED  BY <1>1, <1>2, <1>3 DEF Init, OverlayInv

LEMMA OverlayStep ==
  ASSUME StoreAssumption, Inv, OverlayInv, [Next]_vars
  PROVE  OverlayInv'
<1>1. ASSUME NEW s \in scans, ReadFolder(s)  PROVE OverlayInv'
  <2>. DEFINE r == [s EXCEPT !.seen = disk[s.type]]
  <2>1. /\ r.type = s.type /\ r.gen = s.gen /\ r.silent = s.silent /\ r.waiter = s.waiter
    BY DEF Inv, Shapes, IsRequest
  <2>2. /\ scans' = (scans \ {s}) \cup {r}
        /\ UNCHANGED <<sweeps, initialized, saving, removing, overlay>>
    BY <1>1 DEF ReadFolder, flags, requests
  <2>. HIDE DEF r
  <2>3. Awaited'
    BY <2>1, <2>2 DEF OverlayInv, Awaited
  <2>4. Swept'
    <3>1. \A q \in scans : \E p \in scans' : p.waiter = q.waiter
      BY <2>1, <2>2
    <3>. QED  BY <2>2, <3>1 DEF OverlayInv, Swept
  <2>5. ForScans' = ForScans
    BY <2>1, <2>2 DEF ForScans
  <2>6. ForDownloads' = ForDownloads
    BY <2>1, <2>2 DEF ForDownloads
  <2>7. Reasons' = Reasons
    BY <2>2, <2>5, <2>6 DEF Reasons, ForSweeps, ForSaving, ForRemoving
  <2>. QED  BY <2>2, <2>3, <2>4, <2>7 DEF OverlayInv, Carries
<1>2. ASSUME NEW s \in scans, ScanAnswered(s) \/ ScanFailed(s)  PROVE OverlayInv'
  BY <1>2, SettleCarries DEF ScanAnswered, ScanFailed
<1>3. ASSUME NEW k \in Sweeps, OpenManager(k) \/ RefreshButton(k) \/ FoldersAnswered(k)
      PROVE  OverlayInv'
  BY <1>3, SweepsCarry
<1>4. CASE OnChanged \/ OnDownloaded \/ OnSettled \/ \E k \in Sweeps : OnUnknownDownloaded(k)
  BY <1>4, EventsCarry
<1>5. CASE Save \/ SaveAnswered
  BY <1>5, SavingCarries
<1>6. CASE Remove \/ RemoveAnswered
  BY <1>6, RemovingCarries
<1>7. CASE \/ \E t \in Types : ChangeElsewhere(t) \/ Download(t)
           \/ Convert \/ OpenCard \/ CloseCard \/ Edit \/ SaveLands \/ SaveFails
           \/ RemoveLands \/ RemoveFails \/ UNCHANGED vars
  <2>1. /\ UNCHANGED <<scans, sweeps, initialized, overlay>>
        /\ saving' = "no" <=> saving = "no"
        /\ removing' = "no" <=> removing = "no"
        /\ removing = "rescan" => removing' = "rescan"
    BY <1>7 DEF ChangeElsewhere, Download, Convert, OpenCard, CloseCard, Edit, SaveLands, SaveFails,
                RemoveLands, RemoveFails, vars, backend, fetching, flags, requests
  <2>. QED  BY <2>1, OverlayRests
<1>8. ASSUME NEW t \in Target, TimerFires(t)  PROVE OverlayInv'
  <2>1. /\ t \in overlay.timers /\ overlay' = Fire(overlay, t)
        /\ UNCHANGED <<scans, sweeps, initialized, saving, removing>>
    BY <1>8 DEF TimerFires, fetching, flags, requests
  <2>2. Awaited' /\ Swept'
    BY <2>1 DEF OverlayInv, Awaited, Swept
  <2>3. Reasons' = Reasons
    BY <2>1 DEF Reasons, ForScans, ForDownloads, ForSweeps, ForSaving, ForRemoving
  <2>4. Carries(Fire(overlay, t), Reasons)
    BY <2>1, FireCarries DEF OverlayInv
  <2>. QED  BY <2>1, <2>2, <2>3, <2>4 DEF OverlayInv
<1>. QED  BY <1>1, <1>2, <1>3, <1>4, <1>5, <1>6, <1>7, <1>8 DEF Next

\* Without a request or a scan of the user's there is no reason left.
LEMMA NothingShown == ASSUME Inv, OverlayInv  PROVE OverlayComesDown
<1>. SUFFICES ASSUME saving = "no", removing = "no", \A s \in scans : s.silent
              PROVE  ~IsUp(overlay)
  BY DEF OverlayComesDown
<1>1. ForScans = {} /\ ForSaving = {} /\ ForRemoving = {}
  BY DEF ForScans, ForSaving, ForRemoving
<1>2. ForDownloads = {}
  BY DEF ForDownloads, OverlayInv, Awaited
<1>3. ForSweeps = {}
  BY DEF ForSweeps, OverlayInv, Awaited, Swept
<1>4. Carries(overlay, {})
  BY <1>1, <1>2, <1>3 DEF OverlayInv, Reasons
<1>5. /\ overlay.stack \in Nat /\ Cardinality(overlay.timers) \in Nat
      /\ overlay.stack + Cardinality(overlay.timers) <= 0
  BY <1>4, TimersAreFew, FS_EmptySet DEF Carries
<1>. QED  BY <1>5 DEF IsUp

\* useLoading: every show is hidden again, whatever timers fire in between and whoever
\* else shows it, so without a request or a scan of the user's the overlay is down.
THEOREM ComesDown == ASSUME StoreAssumption  PROVE Spec => []OverlayComesDown
<1>1. Init => Inv /\ OverlayInv
  BY InitInv, OverlayStart
<1>2. (Inv /\ OverlayInv) /\ [Next]_vars => (Inv /\ OverlayInv)'
  BY StepInv, OverlayStep
<1>3. Inv /\ OverlayInv => OverlayComesDown
  BY NothingShown
<1>. QED  BY <1>1, <1>2, <1>3, PTL DEF Spec
================================================================================
