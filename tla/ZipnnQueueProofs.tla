---------------------------- MODULE ZipnnQueueProofs ----------------------------
(***************************************************************************)
(* Proofs about ZipnnQueue, for any number of batches, requests and other  *)
(* tabs.  The inductive invariant is Inv: types, then the order of what    *)
(* waits and what has been sent, then that an event comes once and after   *)
(* its request, then what the tab tracks while nothing runs beside it.     *)
(***************************************************************************)
EXTENDS ZipnnQueue, SequenceTheorems, TLAPS

Rising(s) == \A k, l \in 1..Len(s) : k < l => s[k] < s[l]
Distinct(s) == \A k, l \in 1..Len(s) : k # l => s[k] # s[l]
Sent(p) == p # "none"

PostStates == {"none", "sent", "accepted", "refused", "closed"}

\* The queues bq and sq, the posts ps, the batches bg that were begun and the
\* requests dm that were given up fit together, md batches having been queued.
Orderly(bq, sq, ps, bg, dm, md) ==
  /\ bq \in Seq(Batch) /\ sq \in Seq(Single) /\ bg \in Seq(Batch)
  /\ ps \in [Item -> PostStates] /\ dm \subseteq Item /\ md \in 0..Batches
  /\ Rising(bq) /\ Distinct(sq) /\ Rising(bg)
  /\ \A x \in ToSet(bg) : x <= md /\ \A y \in ToSet(bq) : x < y
  /\ \A b \in Batch : b \in ToSet(bq) \/ b \in dm \/ Sent(ps[b]) => b <= md
  /\ \A i \in ToSet(bq) \cup ToSet(sq) : ~Sent(ps[i]) /\ i \notin dm
  /\ \A i \in dm : ~Sent(ps[i])

Ordered == Orderly(batchQueue, singleQueue, post, begun, doomed, made)

\* A task ends once, and is heard of only when its request has been accepted.
EventsOnce ==
  /\ \A k, l \in 1..Len(socket) : k # l => socket[k].task # socket[l].task
  /\ \A k \in 1..Len(socket) : task[socket[k].task] = "ended"

Delivered ==
  /\ EventsOnce
  /\ \A i \in Item : Heard(i) => post[i] \notin {"none", "sent"}

\* A request the tab still has to hear of.
Live(i) == post[i] \in {"sent", "refused"} \/ Heard(i)

\* While nothing runs beside the queue, that is the last one made.
Tracked ==
  /\ ~misfiled
  /\ \A f \in Foreign : ~Heard(f)
  /\ \A i \in Item : Heard(i) => post[i] # "refused"
  /\ \A i \in Item : Live(i) => active /\ lastRequest = i

Inv == TypeOK /\ Ordered /\ Delivered /\ (~mixed => Tracked)

-----------------------------------------------------------------------------
(* Sequences *)

LEMMA Elements ==
  ASSUME NEW S, NEW s \in Seq(S)
  PROVE  /\ Len(s) \in Nat /\ DOMAIN s = 1..Len(s)
         /\ ToSet(s) \subseteq S
         /\ \A x : x \in ToSet(s) <=> \E k \in 1..Len(s) : s[k] = x
BY DEF ToSet

LEMMA TailElements ==
  ASSUME NEW S, NEW s \in Seq(S), s # <<>>
  PROVE  /\ Head(s) \in S /\ Head(s) = s[1] /\ Head(s) \in ToSet(s)
         /\ Tail(s) \in Seq(S) /\ Len(Tail(s)) = Len(s) - 1 /\ Len(s) \in Nat /\ Len(s) > 0
         /\ \A k \in 1..Len(Tail(s)) : Tail(s)[k] = s[k + 1] /\ k + 1 \in 1..Len(s)
         /\ ToSet(Tail(s)) \subseteq ToSet(s)
<1>1. Len(s) \in Nat /\ Len(s) > 0 /\ DOMAIN s = 1..Len(s)
  BY EmptySeq
<1>2. Head(s) = s[1] /\ s[1] \in S /\ 1 \in 1..Len(s)
  BY <1>1
<1>3. Head(s) \in ToSet(s)
  BY <1>1, <1>2, Elements
<1>4. /\ Tail(s) \in Seq(S) /\ Len(Tail(s)) = Len(s) - 1
      /\ \A k \in 1..Len(Tail(s)) : Tail(s)[k] = s[k + 1] /\ k + 1 \in 1..Len(s)
  BY <1>1
<1>5. ToSet(Tail(s)) \subseteq ToSet(s)
  <2>. SUFFICES ASSUME NEW x \in ToSet(Tail(s))  PROVE x \in ToSet(s)
    OBVIOUS
  <2>1. PICK k \in 1..Len(Tail(s)) : Tail(s)[k] = x
    BY <1>4, Elements
  <2>. QED  BY <2>1, <1>4, Elements
<1>. QED  BY <1>1, <1>2, <1>3, <1>4, <1>5

LEMMA AppendElements ==
  ASSUME NEW S, NEW s \in Seq(S), NEW e \in S
  PROVE  /\ Append(s, e) \in Seq(S) /\ Len(Append(s, e)) = Len(s) + 1 /\ Len(s) \in Nat
         /\ \A k \in 1..Len(s) : Append(s, e)[k] = s[k]
         /\ Append(s, e)[Len(s) + 1] = e
         /\ ToSet(Append(s, e)) = ToSet(s) \cup {e}
<1>1. /\ Append(s, e) \in Seq(S) /\ Len(Append(s, e)) = Len(s) + 1 /\ Len(s) \in Nat
      /\ \A k \in 1..Len(s) : Append(s, e)[k] = s[k]
      /\ Append(s, e)[Len(s) + 1] = e
  OBVIOUS
<1>2. \A x : x \in ToSet(Append(s, e)) <=> \E k \in 1..Len(s) + 1 : Append(s, e)[k] = x
  <2>. DEFINE a == Append(s, e)
  <2>1. a \in Seq(S) /\ Len(a) = Len(s) + 1
    BY <1>1
  <2>. HIDE DEF a
  <2>2. \A x : x \in ToSet(a) <=> \E k \in 1..Len(a) : a[k] = x
    BY <2>1, Elements
  <2>3. \A x : x \in ToSet(a) <=> \E k \in 1..Len(s) + 1 : a[k] = x
    BY <2>1, <2>2
  <2>. QED  BY <2>3 DEF a
<1>3. \A x : x \in ToSet(s) <=> \E k \in 1..Len(s) : s[k] = x
  BY Elements
<1>. QED  BY <1>1, <1>2, <1>3

LEMMA RisingAppend ==
  ASSUME NEW S, NEW s \in Seq(S), NEW e \in S, Rising(s), \A k \in 1..Len(s) : s[k] < e
  PROVE  Rising(Append(s, e))
<1>. DEFINE a == Append(s, e)
<1>1. /\ Len(a) = Len(s) + 1 /\ Len(s) \in Nat /\ a[Len(s) + 1] = e
      /\ \A k \in 1..Len(s) : a[k] = s[k]
  BY AppendElements
<1>. HIDE DEF a
<1>2. ASSUME NEW k \in 1..Len(a), NEW l \in 1..Len(a), k < l  PROVE a[k] < a[l]
  <2>1. k \in 1..Len(s)
    BY <1>1, <1>2
  <2>2. CASE l \in 1..Len(s)
    BY <1>1, <1>2, <2>1, <2>2 DEF Rising
  <2>3. CASE l = Len(s) + 1
    BY <1>1, <2>1, <2>3
  <2>. QED  BY <1>1, <2>2, <2>3
<1>3. Rising(a)
  BY <1>2 DEF Rising
<1>. QED  BY <1>3 DEF a

LEMMA DistinctAppend ==
  ASSUME NEW S, NEW s \in Seq(S), NEW e \in S, Distinct(s), \A k \in 1..Len(s) : s[k] # e
  PROVE  Distinct(Append(s, e))
<1>. DEFINE a == Append(s, e)
<1>1. /\ Len(a) = Len(s) + 1 /\ Len(s) \in Nat /\ a[Len(s) + 1] = e
      /\ \A k \in 1..Len(s) : a[k] = s[k]
  BY AppendElements
<1>. HIDE DEF a
<1>2. ASSUME NEW k \in 1..Len(a), NEW l \in 1..Len(a), k # l  PROVE a[k] # a[l]
  <2>1. CASE k \in 1..Len(s) /\ l \in 1..Len(s)
    BY <1>1, <1>2, <2>1 DEF Distinct
  <2>2. CASE k \in 1..Len(s) /\ l = Len(s) + 1
    BY <1>1, <2>2
  <2>3. CASE l \in 1..Len(s) /\ k = Len(s) + 1
    BY <1>1, <2>3
  <2>. QED  BY <1>1, <1>2, <2>1, <2>2, <2>3
<1>3. Distinct(a)
  BY <1>2 DEF Distinct
<1>. QED  BY <1>3 DEF a

LEMMA DistinctTail ==
  ASSUME NEW S, NEW s \in Seq(S), s # <<>>, Distinct(s)
  PROVE  Distinct(Tail(s)) /\ \A k \in 1..Len(Tail(s)) : Tail(s)[k] # Head(s)
<1>. DEFINE t == Tail(s)
<1>1. /\ Len(s) \in Nat /\ Len(s) > 0 /\ Head(s) = s[1]
      /\ \A k \in 1..Len(t) : t[k] = s[k + 1] /\ k + 1 \in 1..Len(s)
      /\ Len(t) = Len(s) - 1
  BY TailElements
<1>. HIDE DEF t
<1>2. \A k, l \in 1..Len(t) : k # l => k + 1 # l + 1
  BY <1>1
<1>3. Distinct(t)
  BY <1>1, <1>2 DEF Distinct
<1>4. \A k \in 1..Len(t) : 1 \in 1..Len(s) /\ k + 1 # 1
  BY <1>1
<1>5. \A k \in 1..Len(t) : t[k] # Head(s)
  BY <1>1, <1>4 DEF Distinct
<1>. QED  BY <1>3, <1>5 DEF t

LEMMA NothingIn == ToSet(<<>>) = {} /\ \A S : <<>> \in Seq(S)
BY EmptySeq DEF ToSet

LEMMA Numbers == Batches \in Nat /\ Batch = 1..Batches /\ Batch \cap Single = {} /\ None \notin Item
BY QueueAssumption DEF Batch, Task, Item

-----------------------------------------------------------------------------
(* The order, one change of the queues at a time *)

LEMMA DropHead ==
  ASSUME NEW bq, NEW sq, NEW ps, NEW bg, NEW dm, NEW md,
         Orderly(bq, sq, ps, bg, dm, md), bq # <<>>
  PROVE  Orderly(Tail(bq), sq, ps, bg, dm, md)
<1>1. bq \in Seq(Batch)
  BY DEF Orderly
<1>2. Rising(Tail(bq))
  BY <1>1, TailElements, Numbers DEF Orderly, Rising
<1>. QED  BY <1>1, <1>2, TailElements DEF Orderly

\* The first batch that waits is sent.
LEMMA SendHead ==
  ASSUME NEW bq, NEW sq, NEW ps, NEW bg, NEW dm, NEW md,
         Orderly(bq, sq, ps, bg, dm, md), bq # <<>>
  PROVE  Orderly(Tail(bq), sq, [ps EXCEPT ![Head(bq)] = "sent"], Append(bg, Head(bq)), dm, md)
<1>. DEFINE b == Head(bq)  ps2 == [ps EXCEPT ![b] = "sent"]  bg2 == Append(bg, b)
<1>1. bq \in Seq(Batch) /\ sq \in Seq(Single) /\ bg \in Seq(Batch) /\ dm \subseteq Item
      /\ md \in 0..Batches /\ ps \in [Item -> PostStates]
  BY DEF Orderly
<1>2. b \in Batch /\ b \in Item /\ b \in ToSet(bq) /\ b \in Int /\ b <= md
  BY <1>1, TailElements, Numbers DEF Orderly, Item
<1>3. \A y \in ToSet(Tail(bq)) : b < y /\ y \in ToSet(bq)
  <2>. SUFFICES ASSUME NEW y \in ToSet(Tail(bq))  PROVE b < y /\ y \in ToSet(bq)
    OBVIOUS
  <2>0. Tail(bq) \in Seq(Batch)
    BY <1>1, TailElements
  <2>1. PICK k \in 1..Len(Tail(bq)) : Tail(bq)[k] = y
    BY <2>0, Elements
  <2>2. bq[1] < bq[k + 1] /\ y = bq[k + 1] /\ b = bq[1]
    BY <1>1, <2>1, TailElements DEF Orderly, Rising
  <2>. QED  BY <1>1, <2>2, TailElements
<1>4. ps2 \in [Item -> PostStates] /\ \A i \in Item : i # b => ps2[i] = ps[i]
  BY <1>1, <1>2 DEF PostStates
<1>5. b \notin dm /\ b \notin ToSet(sq) /\ b \notin ToSet(Tail(bq))
  <2>1. b \notin dm
    BY <1>2 DEF Orderly
  <2>2. ToSet(sq) \subseteq Single
    BY <1>1, Elements
  <2>3. b \notin ToSet(sq)
    BY <1>2, <2>2, Numbers
  <2>. QED  BY <1>2, <1>3, <2>1, <2>3
<1>6. Rising(Tail(bq)) /\ Tail(bq) \in Seq(Batch)
  <2>1. Orderly(Tail(bq), sq, ps, bg, dm, md)
    BY DropHead
  <2>. QED  BY <2>1 DEF Orderly
<1>7. bg2 \in Seq(Batch) /\ ToSet(bg2) = ToSet(bg) \cup {b}
  BY <1>1, <1>2, AppendElements
<1>8. Rising(bg2)
  <2>1. \A k \in 1..Len(bg) : bg[k] < b /\ bg[k] \in Int
    <3>1. \A k \in 1..Len(bg) : bg[k] \in ToSet(bg) /\ bg[k] \in Batch
      BY <1>1, Elements
    <3>2. \A x \in ToSet(bg) : x < b
      BY <1>2 DEF Orderly
    <3>3. \A x \in Batch : x \in Int
      BY Numbers
    <3>. QED  BY <3>1, <3>2, <3>3
  <2>2. Rising(bg)
    BY DEF Orderly
  <2>. QED  BY <2>1, <2>2, <1>1, <1>2, RisingAppend
<1>9. \A x \in ToSet(bg2) : x <= md /\ \A y \in ToSet(Tail(bq)) : x < y
  BY <1>2, <1>3, <1>7 DEF Orderly
<1>10. \A c \in Batch : c \in ToSet(Tail(bq)) \/ c \in dm \/ Sent(ps2[c]) => c <= md
  BY <1>2, <1>3, <1>4 DEF Orderly, Item
<1>11. \A i \in ToSet(Tail(bq)) \cup ToSet(sq) : ~Sent(ps2[i]) /\ i \notin dm
  <2>1. ToSet(sq) \subseteq Item /\ ToSet(Tail(bq)) \subseteq Item
    BY <1>1, <1>6, Elements DEF Item
  <2>. QED  BY <2>1, <1>3, <1>4, <1>5 DEF Orderly
<1>12. \A i \in dm : ~Sent(ps2[i])
  BY <1>1, <1>4, <1>5 DEF Orderly
<1>. QED
  BY <1>1, <1>4, <1>6, <1>7, <1>8, <1>9, <1>10, <1>11, <1>12 DEF Orderly

\* Batches are queued behind the others.
LEMMA QueueMore ==
  ASSUME NEW bq, NEW sq, NEW ps, NEW bg, NEW dm, NEW md, NEW n \in Nat,
         Orderly(bq, sq, ps, bg, dm, md), md + n <= Batches
  PROVE  Orderly(bq \o [k \in 1..n |-> md + k], sq, ps, bg, dm, md + n)
<1>. DEFINE more == [k \in 1..n |-> md + k]  q == bq \o more
<1>1. bq \in Seq(Batch) /\ sq \in Seq(Single) /\ bg \in Seq(Batch) /\ dm \subseteq Item
      /\ md \in 0..Batches /\ ps \in [Item -> PostStates] /\ Batches \in Nat
  BY Numbers DEF Orderly
<1>2. more \in [1..n -> Batch]
  BY <1>1, Numbers
<1>3. more \in Seq(Batch) /\ Len(more) = n
  BY <1>2, SeqDef, LenProperties
<1>4. \A k \in 1..n : more[k] = md + k
  OBVIOUS
<1>. HIDE DEF more
<1>5. /\ q \in Seq(Batch) /\ Len(q) = Len(bq) + n /\ Len(bq) \in Nat
      /\ \A k \in 1..Len(bq) : q[k] = bq[k]
      /\ \A k \in 1..Len(q) : k > Len(bq) => q[k] = md + (k - Len(bq))
  <2>1. q \in Seq(Batch) /\ Len(q) = Len(bq) + Len(more) /\ Len(bq) \in Nat
    BY <1>1, <1>3
  <2>2. \A k \in 1..Len(q) : q[k] = IF k <= Len(bq) THEN bq[k] ELSE more[k - Len(bq)]
    BY <1>1, <1>3
  <2>3. \A k \in 1..Len(bq) : k \in 1..Len(q) /\ k <= Len(bq)
    BY <2>1, <1>3
  <2>4. \A k \in 1..Len(q) : k > Len(bq) => k - Len(bq) \in 1..n /\ ~(k <= Len(bq))
    BY <2>1, <1>3
  <2>. QED  BY <2>1, <2>2, <2>3, <2>4, <1>3, <1>4
<1>. HIDE DEF q
<1>6. \A y \in ToSet(bq) : y <= md /\ y \in Batch
  BY <1>1, Elements DEF Orderly
<1>7. \A k \in 1..Len(bq) : bq[k] \in ToSet(bq) /\ bq[k] <= md /\ bq[k] \in Int
  <2>1. \A k \in 1..Len(bq) : bq[k] \in ToSet(bq)
    BY <1>1, Elements
  <2>. QED  BY <2>1, <1>6, Numbers
<1>8. Rising(q)
  <2>. SUFFICES ASSUME NEW k \in 1..Len(q), NEW l \in 1..Len(q), k < l  PROVE q[k] < q[l]
    BY DEF Rising
  <2>1. CASE l <= Len(bq)
    <3>1. k \in 1..Len(bq) /\ l \in 1..Len(bq)
      BY <2>1, <1>5
    <3>. QED  BY <3>1, <1>5 DEF Rising, Orderly
  <2>2. CASE l > Len(bq) /\ k <= Len(bq)
    <3>1. k \in 1..Len(bq) /\ q[l] = md + (l - Len(bq)) /\ q[k] <= md /\ q[k] \in Int
      BY <2>2, <1>5, <1>7
    <3>. QED  BY <3>1, <2>2, <1>1, <1>5
  <2>3. CASE k > Len(bq)
    BY <2>3, <1>1, <1>5
  <2>. QED  BY <2>1, <2>2, <2>3, <1>5
<1>9. \A y \in ToSet(q) : y \in Batch /\ (y \in ToSet(bq) \/ (y > md /\ y <= md + n))
  <2>. SUFFICES ASSUME NEW y \in ToSet(q)
                PROVE  y \in Batch /\ (y \in ToSet(bq) \/ (y > md /\ y <= md + n))
    OBVIOUS
  <2>1. PICK k \in 1..Len(q) : q[k] = y
    BY <1>5, Elements
  <2>2. y \in Batch
    BY <1>5, Elements
  <2>3. CASE k <= Len(bq)
    <3>1. k \in 1..Len(bq)
      BY <2>3, <1>5
    <3>. QED  BY <3>1, <2>1, <2>2, <1>5, <1>7
  <2>4. CASE k > Len(bq)
    <3>1. y = md + (k - Len(bq)) /\ k - Len(bq) >= 1 /\ k - Len(bq) <= n
      BY <2>1, <2>4, <1>5
    <3>. QED  BY <3>1, <2>2, <1>1, <1>5
  <2>. QED  BY <2>3, <2>4, <1>5
<1>10. \A x \in ToSet(bg) : x <= md + n /\ \A y \in ToSet(q) : x < y
  <2>1. \A x \in ToSet(bg) : x <= md /\ x \in Int
    BY <1>1, Elements, Numbers DEF Orderly
  <2>2. \A y \in ToSet(q) : y \in Int
    BY <1>9, Numbers
  <2>. QED  BY <2>1, <2>2, <1>1, <1>9 DEF Orderly
<1>11. \A b \in Batch : b \in ToSet(q) \/ b \in dm \/ Sent(ps[b]) => b <= md + n
  <2>1. \A b \in Batch : b \in Int
    BY Numbers
  <2>. QED  BY <2>1, <1>1, <1>9 DEF Orderly
<1>12. \A i \in ToSet(q) \cup ToSet(sq) : ~Sent(ps[i]) /\ i \notin dm
  <2>1. \A b \in Batch : b > md => ~Sent(ps[b]) /\ b \notin dm
    <3>1. \A b \in Batch : b \in Int
      BY Numbers
    <3>. QED  BY <3>1, <1>1 DEF Orderly
  <2>. QED  BY <2>1, <1>9 DEF Orderly
<1>13. md + n \in 0..Batches
  BY <1>1
<1>14. Orderly(q, sq, ps, bg, dm, md + n)
  BY <1>1, <1>5, <1>8, <1>10, <1>11, <1>12, <1>13 DEF Orderly
<1>. QED  BY <1>14 DEF q, more

\* A request for one model joins its queue, or leaves it to be sent.
LEMMA QueueOne ==
  ASSUME NEW bq, NEW sq, NEW ps, NEW bg, NEW dm, NEW md, Orderly(bq, sq, ps, bg, dm, md),
         NEW i \in Single, i \notin ToSet(sq), ~Sent(ps[i]), i \notin dm
  PROVE  Orderly(bq, Append(sq, i), ps, bg, dm, md)
<1>1. sq \in Seq(Single)
  BY DEF Orderly
<1>2. Append(sq, i) \in Seq(Single) /\ ToSet(Append(sq, i)) = ToSet(sq) \cup {i}
  BY <1>1, AppendElements
<1>3. Distinct(Append(sq, i))
  <2>1. \A k \in 1..Len(sq) : sq[k] # i
    BY <1>1, Elements
  <2>2. Distinct(sq)
    BY DEF Orderly
  <2>. QED  BY <1>1, <2>1, <2>2, DistinctAppend
<1>. QED  BY <1>2, <1>3 DEF Orderly

LEMMA SendOne ==
  ASSUME NEW bq, NEW sq, NEW ps, NEW bg, NEW dm, NEW md, Orderly(bq, sq, ps, bg, dm, md),
         NEW i \in Single, i \notin ToSet(sq), i \notin dm
  PROVE  Orderly(bq, sq, [ps EXCEPT ![i] = "sent"], bg, dm, md)
<1>. DEFINE ps2 == [ps EXCEPT ![i] = "sent"]
<1>1. i \in Item /\ i \notin Batch /\ ToSet(bq) \subseteq Batch /\ ToSet(sq) \subseteq Single
  BY Elements, Numbers DEF Orderly, Item
<1>2. ps2 \in [Item -> PostStates] /\ \A j \in Item : j # i => ps2[j] = ps[j]
  BY <1>1 DEF Orderly, PostStates
<1>. HIDE DEF ps2
<1>3. \A b \in Batch : ps2[b] = ps[b]
  BY <1>1, <1>2 DEF Item
<1>4. \A j \in ToSet(bq) \cup ToSet(sq) : ~Sent(ps2[j]) /\ j \notin dm
  BY <1>1, <1>2 DEF Orderly, Item
<1>5. \A j \in dm : ~Sent(ps2[j])
  BY <1>2 DEF Orderly
<1>6. Orderly(bq, sq, ps2, bg, dm, md)
  BY <1>2, <1>3, <1>4, <1>5 DEF Orderly
<1>. QED  BY <1>6 DEF ps2

LEMMA TakeOne ==
  ASSUME NEW bq, NEW sq, NEW ps, NEW bg, NEW dm, NEW md, Orderly(bq, sq, ps, bg, dm, md),
         sq # <<>>
  PROVE  /\ Orderly(bq, Tail(sq), ps, bg, dm, md) /\ Head(sq) \in Single
         /\ Head(sq) \notin ToSet(Tail(sq)) /\ Head(sq) \notin dm /\ ~Sent(ps[Head(sq)])
<1>1. sq \in Seq(Single)
  BY DEF Orderly
<1>2. Tail(sq) \in Seq(Single)
  BY <1>1, TailElements
<1>3. Distinct(Tail(sq)) /\ \A k \in 1..Len(Tail(sq)) : Tail(sq)[k] # Head(sq)
  <2>1. Distinct(sq)
    BY DEF Orderly
  <2>. QED  BY <1>1, <2>1, DistinctTail
<1>4. Head(sq) \notin ToSet(Tail(sq))
  BY <1>2, <1>3, Elements
<1>5. ToSet(Tail(sq)) \subseteq ToSet(sq) /\ Head(sq) \in ToSet(sq) /\ Head(sq) \in Single
  BY <1>1, TailElements
<1>. QED  BY <1>2, <1>3, <1>4, <1>5 DEF Orderly

\* A failure: whatever waits is given up.
LEMMA GiveUp ==
  ASSUME NEW bq, NEW sq, NEW ps, NEW bg, NEW dm, NEW md, Orderly(bq, sq, ps, bg, dm, md)
  PROVE  Orderly(<<>>, <<>>, ps, bg, dm \cup ToSet(bq) \cup ToSet(sq), md)
<1>. DEFINE dm2 == dm \cup ToSet(bq) \cup ToSet(sq)
<1>1. ToSet(bq) \subseteq Batch /\ ToSet(sq) \subseteq Single
  BY Elements DEF Orderly
<1>2. dm2 \subseteq Item /\ \A i \in dm2 : ~Sent(ps[i])
  BY <1>1 DEF Orderly, Item
<1>3. \A b \in Batch : b \in dm2 \/ Sent(ps[b]) => b <= md
  BY <1>1, Numbers DEF Orderly
<1>4. Rising(<<>>) /\ Distinct(<<>>)
  BY DEF Rising, Distinct
<1>. HIDE DEF dm2
<1>5. Orderly(<<>>, <<>>, ps, bg, dm2, md)
  BY <1>2, <1>3, <1>4, NothingIn DEF Orderly
<1>. QED  BY <1>5 DEF dm2

\* Requests move on, none is made.
LEMMA PostsMove ==
  ASSUME NEW bq, NEW sq, NEW ps, NEW bg, NEW dm, NEW md, Orderly(bq, sq, ps, bg, dm, md),
         NEW ps2 \in [Item -> PostStates], \A i \in Item : Sent(ps2[i]) => Sent(ps[i])
  PROVE  Orderly(bq, sq, ps2, bg, dm, md)
<1>1. ToSet(bq) \subseteq Item /\ ToSet(sq) \subseteq Item /\ dm \subseteq Item /\ Batch \subseteq Item
  BY Elements DEF Orderly, Item
<1>. QED  BY <1>1 DEF Orderly
-----------------------------------------------------------------------------
(* What the tab tracks *)

\* An event is taken from the socket.
LEMMA EventTaken ==
  ASSUME TypeOK, EventsOnce, socket # <<>>, socket' = Tail(socket), UNCHANGED task
  PROVE  /\ socket' \in Seq(Event) /\ EventsOnce'
         /\ Head(socket).task \in Task /\ Heard(Head(socket).task)
         /\ \A t \in Task : Heard(t)' => Heard(t) /\ t # Head(socket).task
<1>. DEFINE e == Head(socket)
<1>1. socket \in Seq(Event)
  BY DEF TypeOK
<1>2. /\ e \in Event /\ e = socket[1] /\ socket' \in Seq(Event)
      /\ Len(socket) \in Nat /\ Len(socket) > 0 /\ Len(socket') = Len(socket) - 1
      /\ \A k \in 1..Len(socket') : socket'[k] = socket[k + 1] /\ k + 1 \in 1..Len(socket)
  BY <1>1, TailElements
<1>. HIDE DEF e
<1>3. DOMAIN socket = 1..Len(socket) /\ DOMAIN socket' = 1..Len(socket') /\ 1 \in 1..Len(socket)
  BY <1>1, <1>2
<1>4. e.task \in Task /\ task[e.task] = "ended" /\ Heard(e.task)
  BY <1>2, <1>3 DEF Event, EventsOnce, Heard
<1>5. EventsOnce'
  <2>1. \A k, l \in 1..Len(socket') : k # l => k + 1 # l + 1
    BY <1>2
  <2>2. \A k, l \in 1..Len(socket') : k # l => socket'[k].task # socket'[l].task
    BY <1>2, <2>1 DEF EventsOnce
  <2>3. \A k \in 1..Len(socket') : task'[socket'[k].task] = "ended"
    BY <1>2 DEF EventsOnce
  <2>. QED  BY <2>2, <2>3 DEF EventsOnce
<1>6. ASSUME NEW t \in Task, Heard(t)'  PROVE t # e.task
  <2>1. \A k \in 1..Len(socket') : k + 1 # 1
    BY <1>2
  <2>2. \A k \in 1..Len(socket') : socket'[k].task # e.task
    BY <1>2, <1>3, <2>1 DEF EventsOnce
  <2>. QED  BY <1>3, <1>4, <1>6, <2>2 DEF Heard, Running
<1>7. ASSUME NEW t \in Task, Heard(t)'  PROVE Heard(t)
  BY <1>2, <1>3, <1>7 DEF Heard, Running
<1>. QED  BY <1>2, <1>4, <1>5, <1>6, <1>7 DEF e

\* A request is made when the tab has no other to hear of.
LEMMA BeginTracked ==
  ASSUME TypeOK, Delivered, NEW i \in Item, Begin(i), ~Sent(post[i]), EventsOnce',
         \A t \in Task : Heard(t)' => Heard(t),
         ~mixed' => /\ Tracked /\ ~misfiled'
                    /\ \A j \in Item : post[j] \notin {"sent", "refused"} /\ ~Heard(j)'
  PROVE  Delivered' /\ (~mixed' => Tracked')
<1>1. /\ post' = [post EXCEPT ![i] = "sent"] /\ active' = TRUE /\ lastRequest' = i
      /\ post'[i] = "sent" /\ \A j \in Item : j # i => post'[j] = post[j]
  BY DEF Begin, TypeOK
<1>2. Item \subseteq Task /\ Foreign \subseteq Task
  BY DEF Task
<1>3. \A j \in Item : Heard(j)' => post'[j] \notin {"none", "sent"}
  BY <1>1, <1>2 DEF Delivered, Sent
<1>4. ASSUME ~mixed'  PROVE Tracked'
  BY <1>1, <1>2, <1>4 DEF Tracked, Live
<1>. QED  BY <1>3, <1>4 DEF Delivered

\* None is made.
LEMMA RestTracked ==
  ASSUME TypeOK, Delivered, UNCHANGED <<post, lastRequest>>, EventsOnce',
         \A t \in Task : Heard(t)' => Heard(t),
         ~mixed' => /\ Tracked /\ ~misfiled'
                    /\ \/ active => active'
                       \/ \A j \in Item : post[j] \notin {"sent", "refused"} /\ ~Heard(j)'
  PROVE  Delivered' /\ (~mixed' => Tracked')
<1>1. Item \subseteq Task /\ Foreign \subseteq Task
  BY DEF Task
<1>2. \A j \in Item : Heard(j)' => post'[j] \notin {"none", "sent"}
  BY <1>1 DEF Delivered
<1>3. ASSUME ~mixed'  PROVE Tracked'
  BY <1>1, <1>3 DEF Tracked, Live
<1>. QED  BY <1>2, <1>3 DEF Delivered

LEMMA SocketStays ==
  ASSUME EventsOnce, UNCHANGED <<task, socket>>
  PROVE  EventsOnce' /\ \A t : Heard(t)' <=> Heard(t)
BY DEF EventsOnce, Heard, Running

-----------------------------------------------------------------------------
(* The user's actions *)

LEMMA BeginTypes ==
  ASSUME TypeOK, NEW i \in Item, Begin(i)
  PROVE  /\ active' \in BOOLEAN /\ taskId' \in Item \cup {None} /\ lastRequest' \in Item \cup {None}
         /\ post' = [post EXCEPT ![i] = "sent"] /\ post' \in [Item -> PostStates]
BY DEF Begin, TypeOK, PostStates

LEMMA QueueBatchesKeeps ==
  ASSUME Inv, NEW n \in 1..(Batches - made), QueueBatches(n)
  PROVE  Inv'
<1>. USE DEF Inv
<1>. DEFINE q == batchQueue \o [k \in 1..n |-> made + k]
<1>1. n \in Nat /\ n > 0 /\ made \in Nat /\ Batches \in Nat /\ made + n <= Batches
      /\ made + n \in 0..Batches /\ made' = made + n
  BY Numbers DEF TypeOK, QueueBatches
<1>2. Orderly(q, singleQueue, post, begun, doomed, made')
  BY <1>1, QueueMore DEF Ordered
<1>3. q \in Seq(Batch)
  BY <1>2 DEF Orderly
<1>4. q # <<>>
  <2>1. batchQueue \in Seq(Batch)
    BY DEF TypeOK
  <2>2. [k \in 1..n |-> made + k] \in [1..n -> Int]
    BY <1>1
  <2>3. [k \in 1..n |-> made + k] \in Seq(Int) /\ Len([k \in 1..n |-> made + k]) = n
    BY <2>2, <1>1, SeqDef, LenProperties
  <2>4. Len(q) = Len(batchQueue) + n /\ Len(batchQueue) \in Nat
    BY <2>1, <2>3
  <2>. QED  BY <2>4, <1>1, EmptySeq
<1>5. /\ UNCHANGED <<singleQueue, misfiled, task, socket, doomed, mixed>>
      /\ \/ batchQueue' = q /\ Rest(active, taskId) /\ UNCHANGED broken
         \/ ~active /\ batchQueue' = Tail(q) /\ StartBatch(Head(q), active, taskId)
  BY DEF QueueBatches, backend
<1>. HIDE DEF q
<1>6. EventsOnce' /\ \A t : Heard(t)' <=> Heard(t)
  BY <1>5, SocketStays DEF Delivered
<1>7. CASE Rest(active, taskId) /\ batchQueue' \in {q, Tail(q)} /\ broken' \in BOOLEAN
  <2>1. UNCHANGED <<active, taskId, lastRequest, post, begun>>
    BY <1>7 DEF Rest
  <2>2. Ordered'
    BY <1>2, <1>4, <1>5, <1>7, <2>1, DropHead DEF Ordered
  <2>3. batchQueue' \in Seq(Batch)
    BY <2>2 DEF Ordered, Orderly
  <2>4. TypeOK'
    BY ONLY TypeOK, <1>1, <1>5, <1>7, <2>1, <2>3 DEF TypeOK
  <2>5. Delivered' /\ (~mixed' => Tracked')
    BY <1>5, <1>6, <2>1, RestTracked DEF Tracked
  <2>. QED  BY <2>2, <2>4, <2>5
<1>8. CASE ~active /\ batchQueue' = Tail(q) /\ Begin(Head(q)) /\ UNCHANGED broken
  <2>1. Head(q) \in Batch /\ Head(q) \in Item /\ Head(q) \in ToSet(q)
    BY <1>3, <1>4, TailElements DEF Item
  <2>2. ~Sent(post[Head(q)])
    BY <1>2, <2>1 DEF Orderly
  <2>3. begun' = Append(begun, Head(q))
    BY <1>8, <2>1 DEF Begin
  <2>4. Ordered'
    <3>1. Orderly(Tail(q), singleQueue, [post EXCEPT ![Head(q)] = "sent"],
                  Append(begun, Head(q)), doomed, made')
      BY <1>2, <1>4, SendHead
    <3>2. post' = [post EXCEPT ![Head(q)] = "sent"]
      BY <1>8, <2>1, BeginTypes
    <3>. QED  BY <1>5, <1>8, <2>3, <3>1, <3>2 DEF Ordered
  <2>5. batchQueue' \in Seq(Batch) /\ begun' \in Seq(Batch)
    BY <2>4 DEF Ordered, Orderly
  <2>6. TypeOK'
    <3>1. /\ active' \in BOOLEAN /\ taskId' \in Item \cup {None}
          /\ lastRequest' \in Item \cup {None} /\ post' \in [Item -> PostStates]
      BY <1>8, <2>1, BeginTypes
    <3>. QED  BY ONLY TypeOK, <1>1, <1>5, <1>8, <2>5, <3>1 DEF TypeOK, PostStates
  <2>7. Delivered' /\ (~mixed' => Tracked')
    BY <1>5, <1>6, <1>8, <2>1, <2>2, BeginTracked DEF Tracked, Live
  <2>. QED  BY <2>4, <2>6, <2>7
<1>. QED
  <2>1. broken \in BOOLEAN
    BY DEF TypeOK
  <2>. QED  BY <1>5, <1>7, <1>8, <2>1 DEF StartBatch

\* A request for one model is made at once.
LEMMA SendNew ==
  ASSUME Inv, NEW i \in Single, New(i), Begin(i), ~mixed' => ~mixed /\ ~active,
         mixed' \in BOOLEAN,
         UNCHANGED <<batchQueue, singleQueue, misfiled, task, socket, made, doomed, broken>>
  PROVE  Inv'
<1>. USE DEF Inv
<1>1. i \in Item /\ ~Sent(post[i]) /\ i \notin ToSet(singleQueue) /\ i \notin doomed
      /\ i \notin Batch
  BY Numbers DEF New, Waiting, Sent, Item
<1>2. begun' = begun /\ post' = [post EXCEPT ![i] = "sent"]
  BY <1>1 DEF Begin
<1>3. Ordered'
  BY <1>1, <1>2, SendOne DEF Ordered
<1>4. EventsOnce' /\ \A t : Heard(t)' <=> Heard(t)
  BY SocketStays DEF Delivered
<1>5. Delivered' /\ (~mixed' => Tracked')
  BY <1>1, <1>4, BeginTracked DEF Tracked, Live
<1>6. TypeOK'
  <2>1. /\ active' \in BOOLEAN /\ taskId' \in Item \cup {None}
        /\ lastRequest' \in Item \cup {None} /\ post' \in [Item -> PostStates]
    BY <1>1, BeginTypes
  <2>. QED
    BY ONLY TypeOK, <1>2, <2>1, mixed' \in BOOLEAN,
            UNCHANGED <<batchQueue, singleQueue, misfiled, task, socket, made, doomed, broken>>
       DEF TypeOK, PostStates
<1>. QED  BY <1>3, <1>5, <1>6

LEMMA UserKeeps ==
  ASSUME Inv, NEW i \in Single, QueueSingle(i) \/ StartDirectly(i)
  PROVE  Inv'
<1>. USE DEF Inv
<1>1. CASE StartDirectly(i)
  <2>1. mixed' \in BOOLEAN /\ (~mixed' => ~mixed /\ ~active)
    BY <1>1 DEF StartDirectly, TypeOK
  <2>. QED  BY <1>1, <2>1, SendNew DEF StartDirectly, queues, backend
<1>2. CASE QueueSingle(i) /\ ~active /\ Begin(i) /\ UNCHANGED singleQueue
  <2>1. mixed' \in BOOLEAN
    BY <1>2 DEF QueueSingle, TypeOK
  <2>. QED  BY <1>2, <2>1, SendNew DEF QueueSingle, backend
<1>3. CASE QueueSingle(i) /\ singleQueue' = Append(singleQueue, i) /\ Rest(active, taskId)
  <2>1. /\ UNCHANGED <<active, taskId, lastRequest, post, begun>>
        /\ UNCHANGED <<batchQueue, misfiled, task, socket, made, doomed, mixed, broken>>
    BY <1>3 DEF Rest, QueueSingle, backend
  <2>2. i \notin ToSet(singleQueue) /\ ~Sent(post[i]) /\ i \notin doomed
    BY <1>3 DEF QueueSingle, New, Waiting, Sent
  <2>3. Ordered'
    BY <1>3, <2>1, <2>2, QueueOne DEF Ordered
  <2>4. singleQueue' \in Seq(Single)
    BY <2>3 DEF Ordered, Orderly
  <2>5. TypeOK'
    BY ONLY TypeOK, <2>1, <2>4 DEF TypeOK
  <2>6. EventsOnce' /\ \A t : Heard(t)' <=> Heard(t)
    BY <2>1, SocketStays DEF Delivered
  <2>7. Delivered' /\ (~mixed' => Tracked')
    BY <2>1, <2>6, RestTracked DEF Tracked
  <2>. QED  BY <2>3, <2>5, <2>7
<1>. QED  BY <1>1, <1>2, <1>3 DEF QueueSingle
-----------------------------------------------------------------------------
(* The answers, the backend and the network *)

\* Steps that move requests on, and tell of no task that was not heard of.
LEMMA MovesKeep ==
  ASSUME Inv, UNCHANGED <<lastRequest, batchQueue, singleQueue, misfiled, made, begun, doomed>>,
         active' \in BOOLEAN, taskId' \in Item \cup {None}, mixed' \in BOOLEAN, broken' \in BOOLEAN,
         post' \in [Item -> PostStates],
         task' \in [Task -> {"none", "running", "ended", "lost"}], socket' \in Seq(Event),
         \A i \in Item : Sent(post'[i]) => Sent(post[i]),
         EventsOnce', \A i \in Item : Heard(i)' => post'[i] \notin {"none", "sent"},
         ~mixed' => ~mixed /\ Tracked'
  PROVE  Inv'
<1>1. Ordered'
  BY PostsMove DEF Inv, Ordered
<1>2. TypeOK'
  BY DEF Inv, TypeOK, PostStates
<1>. QED  BY <1>1, <1>2 DEF Inv, Delivered

LEMMA AnswersKeep ==
  ASSUME Inv, NEW i \in Item,
         Answered(i) \/ Failed(i) \/ Refuse(i) \/ LoseAnswer(i)
  PROVE  Inv'
<1>. USE DEF Inv, TypeOK, PostStates
<1>1. /\ UNCHANGED <<lastRequest, batchQueue, singleQueue, misfiled, made, begun, doomed, task, socket>>
      /\ active' \in BOOLEAN /\ taskId' \in Item \cup {None}
      /\ mixed' \in BOOLEAN /\ (~mixed' => ~mixed)
  BY DEF Answered, Failed, Refuse, LoseAnswer, queues, backend, state, history
<1>2. broken' \in BOOLEAN
  BY DEF Answered, Failed, Refuse, LoseAnswer, history
<1>3. PICK p \in {"closed", "refused"} : post' = [post EXCEPT ![i] = p]
  BY DEF Answered, Failed, Refuse, LoseAnswer
<1>4. /\ post' \in [Item -> PostStates] /\ post'[i] = p
      /\ \A j \in Item : j # i => post'[j] = post[j]
  BY <1>3
<1>5. post[i] # "none"
  BY DEF Answered, Failed, Refuse, LoseAnswer
<1>6. EventsOnce' /\ \A t : Heard(t)' <=> Heard(t)
  BY <1>1, SocketStays DEF Delivered
<1>7. \A j \in Item : Heard(j)' => post'[j] \notin {"none", "sent"}
  BY <1>4, <1>6 DEF Delivered
<1>8. ASSUME ~mixed'  PROVE Tracked'
  <2>1. Tracked
    BY <1>1, <1>8
  <2>2. CASE Answered(i)
    <3>1. post[i] = "accepted" /\ post'[i] = "closed" /\ active' = active
      BY <2>2, <1>4 DEF Answered
    <3>. QED  BY <2>1, <3>1, <1>1, <1>4, <1>6 DEF Tracked, Live
  <2>3. CASE Failed(i)
    <3>1. post[i] = "refused" /\ post'[i] = "closed"
      BY <2>3, <1>4 DEF Failed
    <3>2. \A j \in Item : Live(j) => j = i
      BY <2>1, <3>1 DEF Tracked, Live
    <3>3. ~Heard(i)
      BY <2>1, <3>1 DEF Tracked
    <3>4. \A j \in Item : ~Live(j)'
      BY <1>4, <1>6, <3>1, <3>2, <3>3 DEF Live
    <3>. QED  BY <2>1, <3>1, <3>4, <1>1, <1>4, <1>6 DEF Tracked
  <2>4. CASE Refuse(i)
    <3>1. post[i] = "sent" /\ post'[i] = "refused" /\ active' = active
      BY <2>4, <1>4 DEF Refuse, state
    <3>2. ~Heard(i)
      BY <3>1 DEF Delivered
    <3>. QED  BY <2>1, <3>1, <3>2, <1>1, <1>4, <1>6 DEF Tracked, Live
  <2>5. CASE LoseAnswer(i)
    BY <2>5, <1>8 DEF LoseAnswer
  <2>. QED  BY <2>2, <2>3, <2>4, <2>5
<1>9. \A j \in Item : Sent(post'[j]) => Sent(post[j])
  BY <1>4, <1>5 DEF Sent
<1>. QED  BY <1>1, <1>2, <1>4, <1>6, <1>7, <1>8, <1>9, MovesKeep

LEMMA AcceptKeeps == ASSUME Inv, NEW i \in Item, Accept(i)  PROVE Inv'
<1>. USE DEF Inv, TypeOK, PostStates
<1>1. /\ UNCHANGED <<active, taskId, lastRequest, batchQueue, singleQueue, misfiled, made, begun,
                     doomed, mixed, broken, socket>>
      /\ post[i] = "sent" /\ post' = [post EXCEPT ![i] = "accepted"]
      /\ task' = [task EXCEPT ![i] = "running"] /\ i \in Task
  BY DEF Accept, queues, state, history, Task
<1>2. /\ post' \in [Item -> PostStates] /\ post'[i] = "accepted"
      /\ \A j \in Item : j # i => post'[j] = post[j]
      /\ task' \in [Task -> {"none", "running", "ended", "lost"}]
      /\ \A t \in Task : t # i => task'[t] = task[t]
  BY <1>1
<1>3. ~Heard(i)
  BY <1>1 DEF Delivered
<1>4. \A k \in 1..Len(socket) : socket[k].task \in Task /\ socket[k].task # i
  <2>1. DOMAIN socket = 1..Len(socket) /\ \A k \in 1..Len(socket) : socket[k] \in Event
    OBVIOUS
  <2>. QED  BY <2>1, <1>3 DEF Heard, Event
<1>5. EventsOnce'
  BY <1>1, <1>2, <1>4 DEF Delivered, EventsOnce
<1>6. \A t \in Task : t # i => (Heard(t)' <=> Heard(t))
  BY <1>1, <1>2 DEF Heard, Running
<1>7. Item \subseteq Task /\ Foreign \subseteq Task /\ i \notin Foreign
  BY QueueAssumption DEF Task, Item
<1>8. \A j \in Item : Heard(j)' => post'[j] \notin {"none", "sent"}
  BY <1>2, <1>6, <1>7 DEF Delivered
<1>9. ~mixed' => Tracked'
  BY <1>1, <1>2, <1>6, <1>7 DEF Tracked, Live
<1>10. \A j \in Item : Sent(post'[j]) => Sent(post[j])
  BY <1>1, <1>2 DEF Sent
<1>. QED  BY <1>1, <1>2, <1>5, <1>8, <1>9, <1>10, MovesKeep

LEMMA EndKeeps == ASSUME Inv, NEW t \in Task, End(t)  PROVE Inv'
<1>. USE DEF Inv, TypeOK, PostStates
<1>1. PICK ok \in BOOLEAN : socket' = Append(socket, [task |-> t, ok |-> ok])
  BY DEF End
<1>2. /\ UNCHANGED <<active, taskId, lastRequest, batchQueue, singleQueue, misfiled, made, begun,
                     doomed, mixed, broken, post>>
      /\ task[t] = "running" /\ task' = [task EXCEPT ![t] = "ended"]
  BY DEF End, queues, state, history, Running
<1>3. /\ task' \in [Task -> {"none", "running", "ended", "lost"}] /\ task'[t] = "ended"
      /\ \A u \in Task : u # t => task'[u] = task[u]
  BY <1>2
<1>4. [task |-> t, ok |-> ok] \in Event
  BY DEF Event
<1>5. /\ socket' \in Seq(Event) /\ Len(socket') = Len(socket) + 1 /\ Len(socket) \in Nat
      /\ \A k \in 1..Len(socket) : socket'[k] = socket[k] /\ socket[k] \in Event
      /\ socket'[Len(socket) + 1].task = t
  BY <1>1, <1>4, AppendElements
<1>6. \A k \in 1..Len(socket) : socket[k].task \in Task /\ socket[k].task # t
  BY <1>2, <1>5 DEF Delivered, EventsOnce, Event
<1>7. EventsOnce'
  <2>1. ASSUME NEW k \in 1..Len(socket'), NEW l \in 1..Len(socket'), k # l
        PROVE  socket'[k].task # socket'[l].task
    <3>1. CASE k \in 1..Len(socket) /\ l \in 1..Len(socket)
      BY <2>1, <3>1, <1>5 DEF Delivered, EventsOnce
    <3>2. CASE k \in 1..Len(socket) /\ l = Len(socket) + 1
      BY <3>2, <1>5, <1>6
    <3>3. CASE l \in 1..Len(socket) /\ k = Len(socket) + 1
      BY <3>3, <1>5, <1>6
    <3>. QED  BY <2>1, <3>1, <3>2, <3>3, <1>5
  <2>2. ASSUME NEW k \in 1..Len(socket')  PROVE task'[socket'[k].task] = "ended"
    <3>1. CASE k \in 1..Len(socket)
      BY <3>1, <1>3, <1>5, <1>6 DEF Delivered, EventsOnce
    <3>2. CASE k = Len(socket) + 1
      BY <3>2, <1>3, <1>5
    <3>. QED  BY <3>1, <3>2, <1>5
  <2>. QED  BY <2>1, <2>2 DEF EventsOnce
<1>8. ASSUME NEW u \in Task, Heard(u)'  PROVE Heard(u)
  <2>1. CASE u = t
    BY <2>1, <1>2 DEF Heard, Running
  <2>2. CASE u # t
    <3>1. DOMAIN socket = 1..Len(socket) /\ DOMAIN socket' = 1..Len(socket')
      BY <1>5
    <3>2. CASE Running(u)'
      BY <2>2, <3>2, <1>3 DEF Heard, Running
    <3>3. CASE \E k \in DOMAIN socket' : socket'[k].task = u
      BY <2>2, <3>1, <3>3, <1>5 DEF Heard
    <3>. QED  BY <3>2, <3>3, <1>8 DEF Heard
  <2>. QED  BY <2>1, <2>2
<1>9. Item \subseteq Task /\ Foreign \subseteq Task
  BY DEF Task
<1>10. \A j \in Item : Heard(j)' => post'[j] \notin {"none", "sent"}
  BY <1>2, <1>8, <1>9 DEF Delivered
<1>11. ~mixed' => Tracked'
  BY <1>2, <1>8, <1>9 DEF Tracked, Live
<1>. QED  BY <1>2, <1>3, <1>5, <1>7, <1>10, <1>11, MovesKeep

LEMMA ForeignKeeps == ASSUME Inv, NEW f \in Foreign, StartElsewhere(f)  PROVE Inv'
<1>. USE DEF Inv, TypeOK, PostStates
<1>1. /\ UNCHANGED <<active, taskId, lastRequest, batchQueue, singleQueue, misfiled, made, begun,
                     doomed, broken, post, socket>>
      /\ task[f] = "none" /\ task' = [task EXCEPT ![f] = "running"] /\ f \in Task /\ mixed' = TRUE
  BY DEF StartElsewhere, queues, state, Task
<1>2. /\ task' \in [Task -> {"none", "running", "ended", "lost"}]
      /\ \A t \in Task : t # f => task'[t] = task[t]
  BY <1>1
<1>3. Item \subseteq Task /\ f \notin Item
  BY QueueAssumption DEF Task, Item
<1>4. \A k \in 1..Len(socket) : socket[k].task \in Task /\ socket[k].task # f
  <2>1. \A k \in 1..Len(socket) : socket[k] \in Event
    OBVIOUS
  <2>. QED  BY <1>1, <2>1 DEF Delivered, EventsOnce, Event
<1>5. EventsOnce'
  BY <1>1, <1>2, <1>4 DEF Delivered, EventsOnce
<1>6. \A j \in Item : Heard(j)' => post'[j] \notin {"none", "sent"}
  BY <1>1, <1>2, <1>3 DEF Delivered, Heard, Running
<1>. QED  BY <1>1, <1>2, <1>5, <1>6, MovesKeep

\* The websocket or the process goes: nothing is heard of that was not before.
LEMMA FaultsKeep == ASSUME Inv, Disconnect \/ Restart  PROVE Inv'
<1>. USE DEF Inv, TypeOK, PostStates
<1>1. /\ UNCHANGED <<active, taskId, lastRequest, batchQueue, singleQueue, misfiled, made, begun,
                     doomed, mixed>>
      /\ socket' = <<>> /\ broken' = TRUE
  BY DEF Disconnect, Restart, queues, state
<1>2. /\ task' \in [Task -> {"none", "running", "ended", "lost"}]
      /\ \A t \in Task : Running(t)' => Running(t)
  BY DEF Disconnect, Restart, Running
<1>3. /\ post' \in [Item -> PostStates]
      /\ \A i \in Item : \/ post'[i] = post[i]
                         \/ post[i] = "sent" /\ post'[i] = "refused"
  BY DEF Disconnect, Restart
<1>4. EventsOnce' /\ socket' \in Seq(Event) /\ DOMAIN socket' = {}
  BY <1>1, NothingIn DEF EventsOnce
<1>5. \A t \in Task : Heard(t)' => Running(t)
  BY <1>2, <1>4 DEF Heard
<1>6. Item \subseteq Task /\ Foreign \subseteq Task
  BY DEF Task
<1>7. \A i \in Item : Heard(i)' => Heard(i) /\ post[i] \notin {"none", "sent"} /\ post'[i] = post[i]
  BY <1>3, <1>5, <1>6 DEF Delivered, Heard
<1>8. ~mixed' => Tracked'
  BY <1>1, <1>3, <1>5, <1>6, <1>7 DEF Tracked, Live, Heard
<1>9. \A i \in Item : Sent(post'[i]) => Sent(post[i])
  BY <1>3 DEF Sent
<1>. QED  BY <1>1, <1>2, <1>3, <1>4, <1>7, <1>8, <1>9, MovesKeep
-----------------------------------------------------------------------------
(* The events *)

LEMMA ProgressKeeps == ASSUME Inv, NEW t \in Task, OnProgress(t)  PROVE Inv'
<1>. USE DEF Inv
<1>1. /\ active' = TRUE
      /\ UNCHANGED <<taskId, lastRequest, batchQueue, singleQueue, misfiled, post, task, socket,
                     made, begun, doomed, mixed, broken>>
  BY DEF OnProgress, queues, backend, history
<1>2. TypeOK' /\ Ordered'
  BY <1>1 DEF TypeOK, Ordered
<1>3. EventsOnce' /\ \A u : Heard(u)' <=> Heard(u)
  BY <1>1, SocketStays DEF Delivered
<1>4. Delivered' /\ (~mixed' => Tracked')
  BY <1>1, <1>3, RestTracked DEF Tracked
<1>. QED  BY <1>2, <1>4

LEMMA OtherCompleteKeeps == ASSUME Inv, OnOtherComplete  PROVE Inv'
<1>. USE DEF Inv
<1>1. /\ UNCHANGED <<active, taskId, lastRequest, batchQueue, singleQueue, misfiled, post, task,
                     made, begun, doomed, mixed, broken>>
      /\ socket # <<>> /\ socket' = Tail(socket)
  BY DEF OnOtherComplete, queues, state, history
<1>2. socket' \in Seq(Event) /\ EventsOnce' /\ \A t \in Task : Heard(t)' => Heard(t)
  BY <1>1, EventTaken DEF Delivered
<1>3. TypeOK' /\ Ordered'
  BY <1>1, <1>2 DEF TypeOK, Ordered
<1>4. Delivered' /\ (~mixed' => Tracked')
  BY <1>1, <1>2, RestTracked DEF Tracked
<1>. QED  BY <1>3, <1>4

\* While nothing runs beside the queue, the task that has ended is that of the last
\* request, and no other is waited for.
LEMMA LastOne ==
  ASSUME Inv, socket # <<>>, socket' = Tail(socket), UNCHANGED task, ~mixed
  PROVE  /\ lastRequest = Head(socket).task
         /\ \A j \in Item : post[j] \notin {"sent", "refused"} /\ ~Heard(j)'
<1>. DEFINE t == Head(socket).task
<1>1. /\ t \in Task /\ Heard(t) /\ \A u \in Task : Heard(u)' => Heard(u) /\ u # t
  BY EventTaken DEF Inv, Delivered
<1>. HIDE DEF t
<1>2. t \in Item
  BY <1>1 DEF Inv, Tracked, Task
<1>3. lastRequest = t /\ post[t] \notin {"none", "sent", "refused"}
  BY <1>1, <1>2 DEF Inv, Delivered, Tracked, Live
<1>4. \A j \in Item : Live(j) => j = t
  BY <1>3 DEF Inv, Tracked
<1>5. \A j \in Item : post[j] \notin {"sent", "refused"} /\ ~Heard(j)'
  BY <1>1, <1>3, <1>4 DEF Live, Task
<1>. QED  BY <1>3, <1>5 DEF t

LEMMA CompleteKeeps == ASSUME Inv, OnComplete  PROVE Inv'
<1>. USE DEF Inv
<1>. DEFINE e == Head(socket)
<1>1. /\ socket # <<>> /\ socket' = Tail(socket) /\ Advance(e.ok) /\ Record(e.task)
      /\ doomed' = (IF e.ok THEN doomed
                            ELSE doomed \cup ToSet(batchQueue) \cup ToSet(singleQueue))
      /\ UNCHANGED <<task, made, mixed>>
  BY DEF OnComplete
<1>2. socket' \in Seq(Event) /\ EventsOnce' /\ \A t \in Task : Heard(t)' => Heard(t)
  BY <1>1, EventTaken DEF Delivered
<1>3. ~mixed' => /\ Tracked /\ lastRequest = e.task
                 /\ \A j \in Item : post[j] \notin {"sent", "refused"} /\ ~Heard(j)'
  BY <1>1, LastOne
<1>4. misfiled' \in BOOLEAN
  BY <1>1 DEF Record, TypeOK
<1>5. ~mixed' => ~misfiled'
  BY <1>1, <1>3 DEF Record, Tracked
<1>. HIDE DEF e
\* A batch is sent.
<1>6. CASE /\ e.ok /\ batchQueue # <<>> /\ batchQueue' = Tail(batchQueue)
           /\ Begin(Head(batchQueue)) /\ UNCHANGED <<singleQueue, broken>>
  <2>. DEFINE b == Head(batchQueue)
  <2>1. b \in Batch /\ b \in Item /\ b \in ToSet(batchQueue)
    BY <1>6, TailElements DEF TypeOK, Item
  <2>2. ~Sent(post[b]) /\ begun' = Append(begun, b) /\ doomed' = doomed
    BY <1>1, <1>6, <2>1 DEF Ordered, Orderly, Begin
  <2>3. /\ active' \in BOOLEAN /\ taskId' \in Item \cup {None} /\ lastRequest' \in Item \cup {None}
        /\ post' = [post EXCEPT ![b] = "sent"] /\ post' \in [Item -> PostStates]
    BY <1>6, <2>1, BeginTypes
  <2>4. Ordered'
    <3>1. Orderly(Tail(batchQueue), singleQueue, [post EXCEPT ![b] = "sent"], Append(begun, b),
                  doomed, made)
      BY <1>6, SendHead DEF Ordered
    <3>. QED  BY <1>1, <1>6, <2>2, <2>3, <3>1 DEF Ordered
  <2>5. batchQueue' \in Seq(Batch) /\ begun' \in Seq(Batch)
    BY <2>4 DEF Ordered, Orderly
  <2>6. TypeOK'
    BY ONLY TypeOK, <1>1, <1>2, <1>4, <1>6, <2>2, <2>3, <2>5 DEF TypeOK, PostStates
  <2>7. Delivered' /\ (~mixed' => Tracked')
    BY <1>2, <1>3, <1>5, <1>6, <2>1, <2>2, BeginTracked
  <2>. QED  BY <2>4, <2>6, <2>7
\* A target that could not be resolved: the batch is dropped.
<1>7. CASE /\ e.ok /\ batchQueue # <<>> /\ batchQueue' = Tail(batchQueue)
           /\ Rest(FALSE, None) /\ UNCHANGED singleQueue /\ broken' = TRUE
  <2>1. /\ active' = FALSE /\ taskId' = None /\ doomed' = doomed
        /\ UNCHANGED <<lastRequest, post, begun>>
    BY <1>1, <1>7 DEF Rest
  <2>2. Ordered'
    BY <1>1, <1>7, <2>1, DropHead DEF Ordered
  <2>3. batchQueue' \in Seq(Batch)
    BY <2>2 DEF Ordered, Orderly
  <2>4. TypeOK'
    BY ONLY TypeOK, <1>1, <1>2, <1>4, <1>7, <2>1, <2>3 DEF TypeOK
  <2>5. Delivered' /\ (~mixed' => Tracked')
    BY <1>2, <1>3, <1>5, <2>1, RestTracked
  <2>. QED  BY <2>2, <2>4, <2>5
\* An automatic compression is sent.
<1>8. CASE /\ e.ok /\ singleQueue # <<>> /\ singleQueue' = Tail(singleQueue)
           /\ Begin(Head(singleQueue)) /\ UNCHANGED <<batchQueue, broken>>
  <2>. DEFINE i == Head(singleQueue)
  <2>1. /\ Orderly(batchQueue, Tail(singleQueue), post, begun, doomed, made) /\ i \in Single
        /\ i \notin ToSet(Tail(singleQueue)) /\ i \notin doomed /\ ~Sent(post[i])
    BY <1>8, TakeOne DEF Ordered
  <2>2. i \in Item /\ begun' = begun /\ doomed' = doomed
    BY <1>1, <1>8, <2>1, Numbers DEF Item, Begin
  <2>3. /\ active' \in BOOLEAN /\ taskId' \in Item \cup {None} /\ lastRequest' \in Item \cup {None}
        /\ post' = [post EXCEPT ![i] = "sent"] /\ post' \in [Item -> PostStates]
    BY <1>8, <2>2, BeginTypes
  <2>4. Ordered'
    <3>1. Orderly(batchQueue, Tail(singleQueue), [post EXCEPT ![i] = "sent"], begun, doomed, made)
      BY <2>1, SendOne
    <3>. QED  BY <1>1, <1>8, <2>2, <2>3, <3>1 DEF Ordered
  <2>5. singleQueue' \in Seq(Single)
    BY <2>4 DEF Ordered, Orderly
  <2>6. TypeOK'
    BY ONLY TypeOK, <1>1, <1>2, <1>4, <1>8, <2>2, <2>3, <2>5 DEF TypeOK, PostStates
  <2>7. Delivered' /\ (~mixed' => Tracked')
    BY <1>2, <1>3, <1>5, <1>8, <2>1, <2>2, BeginTracked
  <2>. QED  BY <2>4, <2>6, <2>7
\* The queue is empty, or is given up.
<1>9. CASE /\ ~e.ok \/ (batchQueue = <<>> /\ singleQueue = <<>>)
           /\ batchQueue' = <<>> /\ singleQueue' = <<>> /\ Rest(FALSE, None) /\ UNCHANGED broken
  <2>1. /\ active' = FALSE /\ taskId' = None
        /\ UNCHANGED <<lastRequest, post, begun>>
    BY <1>9 DEF Rest
  <2>2. Ordered'
    <3>1. CASE e.ok
      BY <1>1, <1>9, <2>1, <3>1 DEF Ordered
    <3>2. CASE ~e.ok
      BY <1>1, <1>9, <2>1, <3>2, GiveUp DEF Ordered
    <3>. QED  BY <3>1, <3>2
  <2>3. batchQueue' \in Seq(Batch) /\ singleQueue' \in Seq(Single) /\ doomed' \subseteq Item
    BY <2>2 DEF Ordered, Orderly
  <2>4. TypeOK'
    BY ONLY TypeOK, <1>1, <1>2, <1>4, <1>9, <2>1, <2>3 DEF TypeOK
  <2>5. Delivered' /\ (~mixed' => Tracked')
    BY <1>2, <1>3, <1>5, <2>1, RestTracked
  <2>. QED  BY <2>2, <2>4, <2>5
<1>. QED
  BY <1>1, <1>6, <1>7, <1>8, <1>9 DEF Advance, StartBatch

-----------------------------------------------------------------------------
(* The properties *)

LEMMA InitInv == Init => Inv
<1>. SUFFICES ASSUME Init  PROVE Inv
  OBVIOUS
<1>1. TypeOK
  <2>1. /\ active \in BOOLEAN /\ misfiled \in BOOLEAN /\ mixed \in BOOLEAN /\ broken \in BOOLEAN
        /\ taskId \in Item \cup {None} /\ lastRequest \in Item \cup {None}
        /\ doomed \subseteq Item
    BY DEF Init
  <2>2. /\ batchQueue \in Seq(Batch) /\ singleQueue \in Seq(Single)
        /\ socket \in Seq(Event) /\ begun \in Seq(Batch)
    BY NothingIn DEF Init
  <2>3. post \in [Item -> {"none", "sent", "accepted", "refused", "closed"}]
    BY DEF Init
  <2>4. task \in [Task -> {"none", "running", "ended", "lost"}]
    BY DEF Init
  <2>5. made \in 0..Batches
    BY Numbers DEF Init
  <2>. QED  BY <2>1, <2>2, <2>3, <2>4, <2>5 DEF TypeOK
<1>2. Ordered
  <2>1. Rising(<<>>) /\ Distinct(<<>>)
    BY DEF Rising, Distinct
  <2>2. post \in [Item -> PostStates] /\ \A i \in Item : ~Sent(post[i])
    BY DEF Init, PostStates, Sent
  <2>3. Batch \subseteq Item /\ made \in 0..Batches
    BY Numbers DEF Init, Item
  <2>. QED  BY <2>1, <2>2, <2>3, NothingIn DEF Init, Ordered, Orderly
<1>3. \A t \in Task : ~Heard(t)
  BY DEF Init, Heard, Running
<1>4. Delivered /\ Tracked
  BY <1>3 DEF Init, Delivered, EventsOnce, Tracked, Live, Task
<1>. QED  BY <1>1, <1>2, <1>4 DEF Inv

LEMMA StepInv == Inv /\ [Next]_vars => Inv'
<1>. SUFFICES ASSUME Inv, [Next]_vars  PROVE Inv'
  OBVIOUS
<1>1. CASE Next
  BY <1>1, QueueBatchesKeeps, UserKeeps, AcceptKeeps, AnswersKeep, ProgressKeeps, EndKeeps,
     CompleteKeeps, OtherCompleteKeeps, ForeignKeeps, FaultsKeep DEF Next
<1>2. CASE UNCHANGED vars
  <2>1. UNCHANGED <<active, taskId, lastRequest, batchQueue, singleQueue, misfiled, post, task,
                    socket, made, begun, doomed, mixed, broken>>
    BY <1>2 DEF vars, state, queues, backend, history
  <2>2. TypeOK' /\ Ordered'
    BY <2>1 DEF Inv, TypeOK, Ordered
  <2>3. EventsOnce' /\ \A u : Heard(u)' <=> Heard(u)
    BY <2>1, SocketStays DEF Inv, Delivered
  <2>4. Delivered' /\ (~mixed' => Tracked')
    BY <2>1, <2>3, RestTracked DEF Inv, Tracked
  <2>. QED  BY <2>2, <2>4 DEF Inv
<1>. QED  BY <1>1, <1>2

LEMMA Invariance == Spec => []Inv
BY InitInv, StepInv, PTL DEF Spec

\* Every variable keeps its type.
THEOREM TypeCorrect == Spec => []TypeOK
<1>1. Inv => TypeOK
  BY DEF Inv
<1>. QED  BY <1>1, Invariance, PTL

\* zipnn.ts: the queue runs one task at a time and each settle record describes the
\* task that ended, however many batches, compressions and progress events there
\* are, unless a task is started beside the queue.
THEOREM OneTaskAtATime == Spec => []TasksKeptApart
<1>1. Inv => TasksKeptApart
  BY DEF Inv, TasksKeptApart, Tracked, Live, Heard
<1>. QED  BY <1>1, Invariance, PTL

\* advanceZipnnQueue and queueZipnnBatches: batches are sent once and in their order,
\* and what waited when a failure was heard of is never sent, in any number of
\* batches, refusals, faults and other tabs.
THEOREM SentInOrder == Spec => []InOrder
<1>1. Inv => InOrder
  <2>. SUFFICES ASSUME Inv  PROVE InOrder
    OBVIOUS
  <2>1. DOMAIN begun = 1..Len(begun)
    BY Elements DEF Inv, TypeOK
  <2>. QED  BY <2>1 DEF Inv, Ordered, Orderly, Rising, Sent, InOrder
<1>. QED  BY <1>1, Invariance, PTL
================================================================================
