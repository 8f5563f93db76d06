----------------------------- MODULE MCPageProofs -----------------------------
(***************************************************************************)
(* Proofs of the properties the run of MCPage checks.  A behaviour is one  *)
(* of one part, so each proof takes the invariants of the parts its        *)
(* property speaks of, which say something where that part is the one that *)
(* runs.                                                                   *)
(***************************************************************************)
EXTENDS MCPage, PagePartsProofs, SequenceTheorems, FiniteSetTheorems, WellFoundedInduction, TLAPS

-----------------------------------------------------------------------------
(* Numbers and sequences *)

\* Among some natural numbers there is a least one.  This is the induction of these
\* proofs: what fails for a number fails for a least number.
LEMMA Least ==
  ASSUME NEW N \in SUBSET Nat, N # {}
  PROVE  \E n \in N : \A m \in N : n <= m
<1>. DEFINE R == OpToRel(<, Nat)
<1>1. IsWellFoundedOn(R, Nat)  BY NatLessThanWellFounded
<1>2. \A m, n \in Nat : m < n => <<m, n>> \in R  BY DEF OpToRel
<1>. HIDE DEF R
<1>3. PICK n \in N : \A m \in N : ~ (<<m, n>> \in R)  BY <1>1, WFMin
<1>4. ASSUME NEW m \in N  PROVE n <= m
  <2>1. ~ (<<m, n>> \in R) /\ n \in Nat /\ m \in Nat  BY <1>3
  <2>2. ~ (m < n)  BY <1>2, <2>1
  <2>. QED BY <2>1, <2>2
<1>. QED BY <1>4

\* What holds of 0 and passes from a number to the next holds up to any number.
LEMMA Reaches ==
  ASSUME NEW N \in Nat, NEW T, 0 \in T, \A n \in 0..N : n < N /\ n \in T => n + 1 \in T
  PROVE  0..N \subseteq T
<1>. DEFINE Bad == {n \in 0..N : n \notin T}
<1>. SUFFICES ASSUME Bad # {}
              PROVE  FALSE
  OBVIOUS
<1>1. Bad \in SUBSET Nat  OBVIOUS
<1>2. PICK n \in Bad : \A m \in Bad : n <= m  BY <1>1, Least
<1>3. n \in Nat /\ n # 0 /\ n <= N  OBVIOUS
<1>4. n - 1 \in 0..N /\ n - 1 < N /\ n - 1 + 1 = n /\ ~(n <= n - 1)  BY <1>3
<1>5. n - 1 \notin Bad  BY <1>2, <1>4
<1>6. n \in T
  <2>1. n - 1 \in T  BY <1>4, <1>5
  <2>. QED BY <1>4, <2>1
<1>. QED BY <1>6

\* A loop: a value, and what each of N steps makes of it.
Runs(g, S, start, N, step) ==
  g \in [0..N -> S] /\ g[0] = start /\ \A n \in 1..N : g[n] = step[n][g[n - 1]]

LEMMA Loops ==
  ASSUME NEW S, NEW start \in S, NEW N \in Nat, NEW step \in [1..N -> [S -> S]]
  PROVE  \E g : Runs(g, S, start, N, step)
<1>. DEFINE Upto(m) == \E g \in [0..m -> S] :
                         g[0] = start /\ \A n \in 1..m : g[n] = step[n][g[n - 1]]
            T == {m \in 0..N : Upto(m)}
<1>1. Upto(0)
  <2>. DEFINE g == [n \in 0..0 |-> start]
  <2>1. g \in [0..0 -> S] /\ g[0] = start /\ 1..0 = {}  OBVIOUS
  <2>. QED BY <2>1
<1>2. ASSUME NEW m \in 0..N, m < N, Upto(m)  PROVE Upto(m + 1)
  <2>1. PICK g \in [0..m -> S] : g[0] = start /\ \A n \in 1..m : g[n] = step[n][g[n - 1]]
    BY <1>2
  <2>. DEFINE next == step[m + 1][g[m]]
              h == [n \in 0..m + 1 |-> IF n = m + 1 THEN next ELSE g[n]]
  <2>2. m \in Nat /\ m + 1 \in 1..N /\ m \in 0..m  BY <1>2
  <2>3. next \in S
    <3>1. g[m] \in S  BY <2>1, <2>2
    <3>2. step[m + 1] \in [S -> S]  BY <2>2
    <3>. QED BY <3>1, <3>2
  <2>. HIDE DEF next
  <2>4. h \in [0..m + 1 -> S] /\ h[m + 1] = next /\ \A n \in 0..m : h[n] = g[n]
    BY <2>2, <2>3
  <2>. HIDE DEF h
  <2>5. ASSUME NEW n \in 1..m + 1  PROVE h[n] = step[n][h[n - 1]]
    <3>1. CASE n = m + 1
      <4>1. n - 1 = m  BY <2>2, <3>1
      <4>. QED BY <2>2, <2>4, <3>1, <4>1 DEF next
    <3>2. CASE n # m + 1
      <4>1. n \in 1..m /\ n \in 0..m /\ n - 1 \in 0..m  BY <2>2, <3>2
      <4>. QED BY <2>1, <2>4, <4>1
    <3>. QED BY <3>1, <3>2
  <2>6. h[0] = start  BY <2>1, <2>2, <2>4
  <2>. QED BY <2>4, <2>5, <2>6
<1>. HIDE DEF Upto
<1>3. 0 \in T /\ \A m \in 0..N : m < N /\ m \in T => m + 1 \in T  BY <1>1, <1>2
<1>4. 0..N \subseteq T
  <2>. HIDE DEF T
  <2>. QED BY <1>3, Reaches
<1>5. N \in T
  <2>. HIDE DEF T
  <2>. QED BY <1>4
<1>6. Upto(N)  BY <1>5
<1>. QED BY <1>6 DEF Upto, Runs

\* A sequence without one of its entries.
Cut(s, k) == SubSeq(s, 1, k - 1) \o SubSeq(s, k + 1, Len(s))

LEMMA OneRemoved ==
  ASSUME NEW S, NEW s \in Seq(S), NEW k \in 1..Len(s)
  PROVE  /\ Cut(s, k) \in Seq(S) /\ Len(Cut(s, k)) = Len(s) - 1
         /\ \A j \in 1..Len(s) - 1 : Cut(s, k)[j] = IF j < k THEN s[j] ELSE s[j + 1]
<1>. DEFINE head == SubSeq(s, 1, k - 1)
            rest == SubSeq(s, k + 1, Len(s))
<1>1. Len(s) \in Nat /\ k \in Nat /\ 1 <= k /\ k <= Len(s)
  OBVIOUS
<1>2. head \in Seq(S) /\ Len(head) = k - 1 /\ \A j \in 1..k - 1 : head[j] = s[j]
  BY <1>1
<1>3. rest \in Seq(S) /\ Len(rest) = Len(s) - k /\ \A j \in 1..Len(s) - k : rest[j] = s[j + k]
  BY <1>1
<1>. HIDE DEF head, rest
<1>4. head \o rest \in Seq(S) /\ Len(head \o rest) = Len(s) - 1
  <2>1. head \o rest \in Seq(S) /\ Len(head \o rest) = Len(head) + Len(rest)
    BY <1>2, <1>3, ConcatProperties
  <2>. QED BY <1>1, <1>2, <1>3, <2>1
<1>5. ASSUME NEW j \in 1..Len(s) - 1
      PROVE  (head \o rest)[j] = IF j < k THEN s[j] ELSE s[j + 1]
  <2>1. CASE j < k
    <3>1. (head \o rest)[j] = head[j]  BY <1>1, <1>2, <1>3, <2>1
    <3>. QED BY <1>1, <1>2, <2>1, <3>1
  <2>2. CASE ~(j < k)
    <3>1. (head \o rest)[j] = rest[j - (k - 1)]  BY <1>1, <1>2, <1>3, <2>2
    <3>2. j - (k - 1) \in 1..Len(s) - k  BY <1>1, <2>2
    <3>3. rest[j - (k - 1)] = s[j - (k - 1) + k]  BY <1>3, <3>2
    <3>4. j - (k - 1) + k = j + 1  BY <1>1
    <3>. QED BY <2>2, <3>1, <3>3, <3>4
  <2>. QED BY <1>1, <2>1, <2>2
<1>. QED BY <1>4, <1>5 DEF head, rest, Cut

\* Its other entries are all there.
LEMMA OthersLeft ==
  ASSUME NEW S, NEW s \in Seq(S), NEW k \in 1..Len(s), NEW i \in 1..Len(s), i # k
  PROVE  \E j \in 1..Len(s) - 1 : Cut(s, k)[j] = s[i]
<1>1. Len(s) \in Nat /\ k \in Nat /\ i \in Nat  OBVIOUS
<1>2. CASE i < k
  <2>1. i \in 1..Len(s) - 1  BY <1>1, <1>2
  <2>. QED BY <1>2, <2>1, OneRemoved
<1>3. CASE k < i
  <2>1. i - 1 \in 1..Len(s) - 1 /\ ~(i - 1 < k) /\ i - 1 + 1 = i  BY <1>1, <1>3
  <2>. QED BY <2>1, OneRemoved
<1>. QED BY <1>1, <1>2, <1>3

-----------------------------------------------------------------------------
(* The windows.  Of their variables the proof names the stack c1, the windows *)
(* shown c2, the geometry c3, the viewport c4, the gesture c6 and the windows *)
(* that were placed by hand c8.                                               *)

\* Keys that are raised or closed stay keys, and the others stay on the stack.
LEMMA StackLosesOne ==
  ASSUME NEW S, NEW s \in Seq(S), NEW k
  PROVE  LET t == Frame!RemoveFirst(s, k)
         IN  t \in Seq(S) /\ Frame!Range(s) \ {k} \subseteq Frame!Range(t)
<1>. DEFINE I == {i \in 1..Len(s) : s[i] = k}
            t == Frame!RemoveFirst(s, k)
<1>1. CASE I = {}
  <2>1. t = s  BY <1>1 DEF Frame!RemoveFirst
  <2>. QED BY <2>1
<1>2. CASE I # {}
  <2>. DEFINE i == Frame!Min(I)
  <2>1. I \in SUBSET Nat  OBVIOUS
  <2>2. PICK n \in I : \A m \in I : n <= m  BY <1>2, <2>1, Least
  <2>3. i \in I  BY <2>2 DEF Frame!Min
  <2>4. t = Cut(s, i)
    BY <1>2 DEF Frame!RemoveFirst, Frame!SelectInSeq, Frame!RemoveAt, Cut
  <2>. HIDE DEF i, t
  <2>5. i \in 1..Len(s) /\ s[i] = k  BY <2>3
  <2>6. t \in Seq(S) /\ Len(t) = Len(s) - 1  BY <2>4, <2>5, OneRemoved
  <2>7. ASSUME NEW j \in 1..Len(s), s[j] # k  PROVE s[j] \in Frame!Range(t)
    <3>1. PICK l \in 1..Len(s) - 1 : Cut(s, i)[l] = s[j]  BY <2>5, <2>7, OthersLeft
    <3>2. l \in DOMAIN t  BY <2>6
    <3>. QED BY <2>4, <3>1, <3>2 DEF Frame!Range
  <2>8. ASSUME NEW x \in Frame!Range(s), x # k  PROVE x \in Frame!Range(t)
    <3>1. PICK j \in 1..Len(s) : x = s[j]  BY DEF Frame!Range
    <3>. QED BY <2>7, <2>8, <3>1
  <2>. QED BY <2>6, <2>8 DEF t
<1>. QED BY <1>1, <1>2

InShape(g, v) == g.size <= v => g.at >= 0 /\ g.at + g.size <= v

\* What the code makes of a geometry: new ones and clamped ones are inside.
LEMMA Fits ==
  ASSUME Frame!WindowsAssumption, NEW k \in Key, NEW v \in Viewports
  PROVE  /\ Frame!Fresh(k, v) \in Frame!Shapes /\ InShape(Frame!Fresh(k, v), v)
         /\ \A g \in Frame!Shapes :
              Frame!Inside(g, v) \in Frame!Shapes /\ InShape(Frame!Inside(g, v), v)
<1>1. v \in Int /\ v \in Nat /\ MinSize[k] \in Int /\ DefaultSize[k] \in Int
  BY DEF Frame!WindowsAssumption
<1>2. \A l, m, r \in Int : Frame!Fit(l, m, r) \in Int
  BY DEF Frame!Fit, Frame!Larger
<1>3. Frame!Fresh(k, v) \in Frame!Shapes /\ InShape(Frame!Fresh(k, v), v)
  <2>. DEFINE size == IF Frame!Mobile(v) THEN v
                      ELSE Frame!Fit(DefaultSize[k], MinSize[k], Frame!Larger(MinSize[k], v))
              at   == IF Frame!Mobile(v) THEN 0 ELSE (v - size) \div 2
  <2>1. size \in Int
    <3>1. Frame!Larger(MinSize[k], v) \in Int  BY <1>1 DEF Frame!Larger
    <3>2. Frame!Fit(DefaultSize[k], MinSize[k], Frame!Larger(MinSize[k], v)) \in Int
      BY <1>1, <1>2, <3>1
    <3>. QED BY <1>1, <3>2
  <2>2. Frame!Mobile(v) => size = v  OBVIOUS
  <2>3. Frame!Fresh(k, v) = [size |-> size, at |-> at, restore |-> <<>>]
    BY DEF Frame!Fresh
  <2>. HIDE DEF size
  <2>4. at \in Int /\ (size <= v => at >= 0 /\ at + size <= v)
    BY <1>1, <2>1, <2>2
  <2>. HIDE DEF at
  <2>. QED BY <2>1, <2>3, <2>4 DEF Frame!Shapes, InShape
<1>4. ASSUME NEW g \in Frame!Shapes
      PROVE  Frame!Inside(g, v) \in Frame!Shapes /\ InShape(Frame!Inside(g, v), v)
  <2>. DEFINE at == Frame!Fit(g.at, 0, Frame!Larger(0, v - g.size))
  <2>1. g.size \in Int /\ g.at \in Int  BY DEF Frame!Shapes
  <2>2. at \in Int /\ (g.size <= v => at >= 0 /\ at + g.size <= v)
    BY <1>1, <2>1 DEF Frame!Fit, Frame!Larger
  <2>3. Frame!Inside(g, v) = [g EXCEPT !.at = at]  BY DEF Frame!Inside
  <2>. HIDE DEF at
  <2>. QED BY <2>1, <2>2, <2>3 DEF Frame!Shapes, InShape
<1>. QED BY <1>3, <1>4

\* A window that is moved, or takes another size.
LEMMA Reshaped ==
  ASSUME NEW g \in Frame!Shapes, NEW n \in Int
  PROVE  [g EXCEPT !.at = n] \in Frame!Shapes /\ [g EXCEPT !.size = n] \in Frame!Shapes
BY DEF Frame!Shapes

\* The watcher of the stack, after a change of the stack and of what is shown.
LEMMA RestackKeeps ==
  ASSUME Frame!WindowsAssumption, Frame!WindowsInv,
         NEW s \in Seq(Key), NEW shown, shown \subseteq Frame!Range(s), Frame!Restack(s, shown),
         c4' = c4, c6' \in Frame!Gestures
  PROVE  Frame!WindowsInv'
<1>1. Frame!Range(s) \subseteq Key  BY DEF Frame!Range
<1>2. c1' = s /\ c2' = shown /\ c3' = Frame!Watched(c3, Frame!Range(s), shown)
  BY DEF Frame!Restack
<1>3. c4 \in Viewports /\ c3 \in [Key -> Frame!Shapes \cup {NoWindow}]  BY DEF Frame!WindowsInv
<1>4. NoWindow \notin Frame!Shapes  BY DEF Frame!WindowsAssumption
<1>5. ASSUME NEW k \in Key
      PROVE  /\ c3'[k] \in Frame!Shapes \cup {NoWindow}
             /\ k \in Frame!Range(s) => c3'[k] \in Frame!Shapes
             /\ k \in shown => InShape(c3'[k], c4)
  BY <1>1, <1>2, <1>3, <1>4, Fits DEF Frame!Watched
<1>6. c3' \in [Key -> Frame!Shapes \cup {NoWindow}]
  BY <1>2, <1>5 DEF Frame!Watched
<1>7. Frame!InView'
  BY <1>1, <1>2, <1>5 DEF Frame!InView, InShape
<1>. QED BY <1>1, <1>2, <1>3, <1>4, <1>5, <1>6, <1>7 DEF Frame!WindowsInv, Frame!Opened

\* A window whose geometry is set by hand, or by the buttons of its bar.
LEMMA ShapedKeeps ==
  ASSUME Frame!WindowsInv, NEW k \in Key, NEW g \in Frame!Shapes, c3' = [c3 EXCEPT ![k] = g],
         Frame!WindowsAssumption, UNCHANGED <<c1, c2, c4>>, c6' \in Frame!Gestures,
         c8 \subseteq c8' \cup {k}, k \in c8' \/ InShape(g, c4)
  PROVE  Frame!WindowsInv'
<1>1. /\ c2 \subseteq Key /\ c3 \in [Key -> Frame!Shapes \cup {NoWindow}]
      /\ \A j \in c2 \ c8 : InShape(c3[j], c4)
  BY DEF Frame!WindowsInv, Frame!InView, InShape, Frame!Opened
<1>2. NoWindow \notin Frame!Shapes  BY DEF Frame!WindowsAssumption
<1>3. c3' \in [Key -> Frame!Shapes \cup {NoWindow}]  BY <1>1
<1>4. \A j \in Key : c3'[j] = IF j = k THEN g ELSE c3[j]  BY <1>1
<1>5. \A j \in c2' \ c8' : InShape(c3'[j], c4')
  BY <1>1, <1>4
<1>6. Frame!InView'  BY <1>5 DEF Frame!InView, InShape
<1>. QED BY <1>2, <1>3, <1>4, <1>6 DEF Frame!WindowsInv, Frame!Opened

\* The viewport changes: every window is put inside the new one.
LEMMA ViewportKeeps ==
  ASSUME Frame!WindowsAssumption, Frame!WindowsInv, NEW v \in Viewports, Frame!ViewportChanges(v)
  PROVE  Frame!WindowsInv'
<1>. DEFINE refit(k) == Frame!Refit(c3[k], k, v)
<1>0. /\ c2 \subseteq Frame!Opened /\ Frame!Opened \subseteq Key
      /\ c3 \in [Key -> Frame!Shapes \cup {NoWindow}] /\ c4 \in Viewports
      /\ \A k \in Frame!Opened : c3[k] # NoWindow
  BY DEF Frame!WindowsInv
<1>1. NoWindow \notin Frame!Shapes /\ Viewports \subseteq Nat /\ MinSize \in [Key -> Nat]
  BY DEF Frame!WindowsAssumption
<1>2. \A l, m, r \in Int : Frame!Fit(l, m, r) \in Int /\ Frame!Larger(l, m) \in Int
  BY DEF Frame!Fit, Frame!Larger
<1>3. ASSUME NEW k \in Key, c3[k] # NoWindow
      PROVE  refit(k) \in Frame!Shapes
  <2>1. c3[k] \in Frame!Shapes /\ c3[k].size \in Int /\ v \in Int /\ MinSize[k] \in Int
    BY <1>0, <1>1, <1>3 DEF Frame!Shapes
  <2>2. Frame!Fit(c3[k].size, MinSize[k], Frame!Larger(MinSize[k], v)) \in Int
    BY <1>2, <2>1
  <2>. QED BY <2>1, <2>2 DEF Frame!Refit, Frame!Shapes
<1>4. ASSUME NEW k \in Key, NEW g \in Frame!Shapes, NEW B
      PROVE  /\ Frame!Reposition(g, k, v, B) \in Frame!Shapes
             /\ InShape(Frame!Reposition(g, k, v, B), v)
  <2>1. g.size \in Int /\ g.at \in Int /\ v \in Int /\ MinSize[k] \in Int
    BY <1>1 DEF Frame!Shapes
  <2>2. CASE Frame!Maximized(g)
    <3>1. Frame!Reposition(g, k, v, B) = [g EXCEPT !.size = v, !.at = 0]
      BY <2>2 DEF Frame!Reposition
    <3>. DEFINE sized == [g EXCEPT !.size = v]
                h == [sized EXCEPT !.at = 0]
    <3>2. sized \in Frame!Shapes /\ sized.size = v  BY <2>1 DEF Frame!Shapes
    <3>3. Frame!Reposition(g, k, v, B) = h  BY <3>1
    <3>. HIDE DEF sized
    <3>4. h \in Frame!Shapes /\ h.size = v /\ h.at = 0  BY <3>2 DEF Frame!Shapes
    <3>. QED BY <2>1, <3>3, <3>4 DEF InShape
  <2>3. CASE ~Frame!Maximized(g) /\ k \notin B
    BY <2>3, Fits DEF Frame!Reposition
  <2>4. CASE ~Frame!Maximized(g) /\ k \in B
    <3>. DEFINE h == [g EXCEPT !.size = Frame!Fit(@, MinSize[k], Frame!Larger(MinSize[k], v))]
    <3>1. Frame!Fit(g.size, MinSize[k], Frame!Larger(MinSize[k], v)) \in Int  BY <1>2, <2>1
    <3>2. h \in Frame!Shapes  BY <3>1 DEF Frame!Shapes
    <3>3. Frame!Reposition(g, k, v, B) = Frame!Inside(h, v)  BY <2>4 DEF Frame!Reposition
    <3>. HIDE DEF h
    <3>. QED BY <3>2, <3>3, Fits
  <2>. QED BY <2>2, <2>3, <2>4
<1>5. ASSUME NEW k \in Key
      PROVE  /\ c3[k] = NoWindow => c3'[k] = NoWindow
             /\ c3[k] # NoWindow => c3'[k] \in Frame!Shapes /\ InShape(c3'[k], v)
  BY <1>3, <1>4 DEF Frame!ViewportChanges
<1>6. c3' \in [Key -> Frame!Shapes \cup {NoWindow}]
  BY <1>5 DEF Frame!ViewportChanges
<1>7. c4' = v /\ UNCHANGED <<c1, c2, c6>>  BY DEF Frame!ViewportChanges
<1>8. Frame!InView'
  BY <1>0, <1>5, <1>7 DEF Frame!InView, InShape
<1>. QED BY <1>0, <1>1, <1>5, <1>6, <1>7, <1>8 DEF Frame!WindowsInv, Frame!Opened

LEMMA WindowsStart ==
  ASSUME Frame!WindowsAssumption, Frame!Init
  PROVE  Frame!WindowsInv
<1>1. c1 = <<>> /\ c2 = {} /\ Frame!Range(c1) = {}
  BY DEF Frame!Init, Frame!Range
<1>2. c6 \in Frame!Gestures
  BY DEF Frame!Init, Frame!Idle, Frame!Gestures
<1>. QED BY <1>1, <1>2 DEF Frame!Init, Frame!WindowsInv, Frame!InView, Frame!Opened

\* The stack with a window on top, and a stack that its last window has left.
LEMMA Tops ==
  ASSUME NEW s \in Seq(Key), NEW k \in Key
  PROVE  /\ Append(s, k) \in Seq(Key) /\ Frame!Range(Append(s, k)) = Frame!Range(s) \cup {k}
         /\ s # <<>> => /\ Frame!Front(s) \in Seq(Key)
                        /\ Frame!Range(s) \ {Frame!Last(s)} \subseteq Frame!Range(Frame!Front(s))
<1>. DEFINE t == Append(s, k)
<1>1. Len(s) \in Nat  OBVIOUS
<1>2. t \in Seq(Key) /\ Len(t) = Len(s) + 1 /\ t[Len(s) + 1] = k /\ \A i \in 1..Len(s) : t[i] = s[i]
  OBVIOUS
<1>. HIDE DEF t
<1>3. ASSUME NEW x \in Frame!Range(t)  PROVE x \in Frame!Range(s) \cup {k}
  BY <1>1, <1>2 DEF Frame!Range
<1>4. ASSUME NEW x \in Frame!Range(s) \cup {k}  PROVE x \in Frame!Range(t)
  <2>1. CASE x = k
    <3>1. Len(s) + 1 \in DOMAIN t  BY <1>1, <1>2
    <3>. QED BY <1>2, <2>1, <3>1 DEF Frame!Range
  <2>2. CASE x \in Frame!Range(s)
    <3>1. PICK i \in 1..Len(s) : x = s[i]  BY <2>2 DEF Frame!Range
    <3>2. i \in DOMAIN t /\ t[i] = x  BY <1>1, <1>2, <3>1
    <3>. QED BY <3>2 DEF Frame!Range
  <2>. QED BY <2>1, <2>2
<1>5. ASSUME s # <<>>
      PROVE  /\ Frame!Front(s) \in Seq(Key)
             /\ Frame!Range(s) \ {Frame!Last(s)} \subseteq Frame!Range(Frame!Front(s))
  <2>. DEFINE front == SubSeq(s, 1, Len(s) - 1)
  <2>1. Len(s) - 1 \in Nat  BY <1>5, EmptySeq
  <2>2. front \in Seq(Key) /\ Len(front) = Len(s) - 1 /\ \A i \in 1..Len(s) - 1 : front[i] = s[i]
    <3>1. ASSUME NEW n \in Nat, n <= Len(s)
          PROVE  /\ SubSeq(s, 1, n) \in Seq(Key) /\ Len(SubSeq(s, 1, n)) = n
                 /\ \A i \in 1..n : SubSeq(s, 1, n)[i] = s[i]
      BY <1>1, <3>1
    <3>2. Len(s) - 1 <= Len(s)  BY <1>1
    <3>. QED BY <2>1, <3>1, <3>2
  <2>. HIDE DEF front
  <2>3. ASSUME NEW x \in Frame!Range(s), x # s[Len(s)]  PROVE x \in Frame!Range(front)
    <3>1. PICK i \in 1..Len(s) : x = s[i]  BY DEF Frame!Range
    <3>2. i \in 1..Len(s) - 1  BY <1>1, <2>3, <3>1
    <3>3. i \in DOMAIN front /\ front[i] = x  BY <2>2, <3>1, <3>2
    <3>. QED BY <3>3 DEF Frame!Range
  <2>. QED BY <2>2, <2>3 DEF front, Frame!Front, Frame!Last
<1>. QED BY <1>2, <1>3, <1>4, <1>5 DEF t

LEMMA WindowsStep ==
  ASSUME Frame!WindowsAssumption, Frame!WindowsInv, Frame!Next
  PROVE  Frame!WindowsInv'
<1>0. /\ c1 \in Seq(Key) /\ c2 \subseteq Frame!Range(c1) /\ Frame!Range(c1) \subseteq Key
      /\ c6 \in Frame!Gestures /\ c4 \in Viewports
      /\ c3 \in [Key -> Frame!Shapes \cup {NoWindow}]
      /\ \A k \in Frame!Range(c1) : c3[k] # NoWindow
  BY DEF Frame!WindowsInv, Frame!Opened
<1>1. ASSUME NEW k \in Key
      PROVE  /\ Frame!Raised(k) \in Seq(Key) /\ Frame!Without(k) \in Seq(Key)
             /\ c2 \cup {k} \subseteq Frame!Range(Frame!Raised(k))
             /\ c2 \ {k} \subseteq Frame!Range(Frame!Without(k))
  BY <1>0, Tops, StackLosesOne DEF Frame!Raised, Frame!Without
<1>2. ASSUME NEW k \in Key, Frame!Open(k) \/ Frame!Close(k) \/ Frame!Rise(k)
      PROVE  Frame!WindowsInv'
  BY <1>0, <1>1, <1>2, RestackKeeps DEF Frame!Open, Frame!Close, Frame!Rise
<1>3. ASSUME NEW k \in Key, Frame!Submit(k)  PROVE Frame!WindowsInv'
  BY <1>3 DEF Frame!Submit, Frame!WindowsInv, Frame!layout, Frame!Opened, Frame!InView
<1>4. ASSUME NEW k \in Key, Frame!Answered(k)  PROVE Frame!WindowsInv'
  <2>1. CASE c1 = <<>>
    BY <1>4, <2>1 DEF Frame!Answered, Frame!WindowsInv, Frame!layout, Frame!Opened, Frame!InView
  <2>2. CASE c1 # <<>>
    <3>1. /\ Frame!Front(c1) \in Seq(Key)
          /\ c2 \ {Frame!Last(c1)} \subseteq Frame!Range(Frame!Front(c1))
      BY <1>0, <2>2, Tops
    <3>2. /\ Frame!Restack(Frame!Front(c1), c2 \ {Frame!Last(c1)})
          /\ c4' = c4 /\ c6' = c6
      BY <1>4, <2>2 DEF Frame!Answered
    <3>. QED BY <1>0, <3>1, <3>2, RestackKeeps
  <2>. QED BY <2>1, <2>2
<1>5. ASSUME NEW k \in Key, Frame!ToggleLayout(k)  PROVE Frame!WindowsInv'
  <2>1. <<k>> \in Seq(Key) /\ {k} \subseteq Frame!Range(<<k>>)
    <3>1. 1 \in DOMAIN <<k>> /\ <<k>>[1] = k  OBVIOUS
    <3>. QED BY <3>1 DEF Frame!Range
  <2>. QED BY <1>0, <1>5, <2>1, RestackKeeps DEF Frame!ToggleLayout
<1>6. ASSUME NEW k \in Key, Frame!ToggleMaximize(k)  PROVE Frame!WindowsInv'
  <2>. DEFINE g == c3[k]
  <2>1. g \in Frame!Shapes  BY <1>0, <1>6 DEF Frame!ToggleMaximize
  <2>2. UNCHANGED <<c1, c2, c4, c6>>  BY <1>6 DEF Frame!ToggleMaximize
  <2>3. CASE Frame!Maximized(g)
    <3>. DEFINE h == [size |-> g.restore[1], at |-> g.restore[2], restore |-> <<>>]
    <3>1. c3' = [c3 EXCEPT ![k] = h] /\ c8' = c8 \cup {k}
      BY <1>6, <2>3 DEF Frame!ToggleMaximize
    <3>2. g.restore \in Int \X Int  BY <2>1, <2>3 DEF Frame!Maximized, Frame!Shapes
    <3>3. h \in Frame!Shapes  BY <3>2 DEF Frame!Shapes
    <3>. HIDE DEF h
    <3>. QED BY <1>0, <2>2, <3>1, <3>3, ShapedKeeps
  <2>4. CASE ~Frame!Maximized(g)
    <3>. DEFINE h == [size |-> c4, at |-> 0, restore |-> <<g.size, g.at>>]
    <3>1. c3' = [c3 EXCEPT ![k] = h] /\ c8' = c8
      BY <1>6, <2>4 DEF Frame!ToggleMaximize
    <3>2. c4 \in Int /\ g.size \in Int /\ g.at \in Int
      BY <1>0, <2>1 DEF Frame!Shapes, Frame!WindowsAssumption
    <3>3. h \in Frame!Shapes /\ InShape(h, c4)  BY <3>2 DEF Frame!Shapes, InShape
    <3>. HIDE DEF h
    <3>. QED BY <1>0, <2>2, <3>1, <3>3, ShapedKeeps
  <2>. QED BY <2>3, <2>4
<1>7. ASSUME NEW k \in Key, NEW side \in {"move", "left", "right"}, NEW x \in Grips,
             Frame!Press(k, side, x)
      PROVE  Frame!WindowsInv'
  <2>1. c3[k].at \in Int /\ x \in Int
    BY <1>0, <1>7 DEF Frame!Press, Frame!Shapes, Frame!WindowsAssumption
  <2>2. c6' \in Frame!Gestures
    BY <1>7, <2>1 DEF Frame!Press, Frame!Gestures
  <2>3. Frame!Restack(Frame!Raised(k), c2) /\ c4' = c4  BY <1>7 DEF Frame!Press
  <2>. QED BY <1>1, <2>2, <2>3, RestackKeeps
<1>8. ASSUME NEW v \in Viewports, Frame!ViewportChanges(v)  PROVE Frame!WindowsInv'
  BY <1>8, ViewportKeeps
<1>9. ASSUME NEW x \in Pointer, Frame!Move(x)  PROVE Frame!WindowsInv'
  <2>. DEFINE k == c6.key
              g == c3[k]
  <2>1. k \in Key /\ g \in Frame!Shapes /\ c6.side \in {"move", "left", "right"}
    BY <1>0, <1>9 DEF Frame!Move, Frame!Gestures
  <2>2. /\ x \in Int /\ c4 \in Int /\ MinSize[k] \in Int /\ c6.origin \in Int
        /\ c6.start \in Int /\ g.size \in Int /\ g.at \in Int
    BY <1>0, <2>1 DEF Frame!Gestures, Frame!Shapes, Frame!WindowsAssumption
  <2>3. c6' \in Frame!Gestures /\ UNCHANGED <<c1, c2, c4>>
    BY <1>0, <1>9 DEF Frame!Move, Frame!Gestures
  <2>4. CASE c6.side = "move"
    <3>. DEFINE h == [g EXCEPT !.at = c6.origin + (x - c6.start)]
    <3>0. c6.origin + (x - c6.start) \in Int  BY <2>2
    <3>1. h \in Frame!Shapes  BY <2>1, <3>0, Reshaped
    <3>2. c3' = [c3 EXCEPT ![k] = Frame!Inside(h, c4)] /\ c8' = c8 \ {k}
      BY <1>9, <2>4 DEF Frame!Move, Frame!Dragged
    <3>. HIDE DEF h
    <3>3. Frame!Inside(h, c4) \in Frame!Shapes /\ InShape(Frame!Inside(h, c4), c4)
      BY <1>0, <2>1, <3>1, Fits
    <3>. QED BY <2>1, <2>3, <3>2, <3>3, ShapedKeeps
  <2>5. CASE c6.side # "move"
    <3>. DEFINE h == Frame!Resized(g, k, x)
    <3>1. \A l, m, r \in Int : Frame!Fit(l, m, r) \in Int  BY DEF Frame!Fit, Frame!Larger
    <3>2. h \in Frame!Shapes
      <4>. DEFINE size == IF x > 0 THEN Frame!Fit(g.at + g.size - x, MinSize[k], c4) ELSE g.size
                  at   == IF size > MinSize[k] /\ size < c4 THEN Frame!Fit(x, 0, c4 - size)
                          ELSE g.at
                  sized == [g EXCEPT !.size = size]
      <4>1. CASE c6.side = "left"
        <5>1. size \in Int
          <6>1. g.at + g.size - x \in Int  BY <2>2
          <6>2. Frame!Fit(g.at + g.size - x, MinSize[k], c4) \in Int  BY <2>2, <3>1, <6>1
          <6>. QED BY <2>2, <6>2
        <5>2. h = [sized EXCEPT !.at = at]  BY <4>1 DEF Frame!Resized
        <5>. HIDE DEF size
        <5>3. sized \in Frame!Shapes  BY <2>1, <5>1, Reshaped
        <5>4. at \in Int
          <6>1. c4 - size \in Int /\ 0 \in Int  BY <2>2, <5>1
          <6>2. Frame!Fit(x, 0, c4 - size) \in Int  BY <2>2, <3>1, <6>1
          <6>. QED BY <2>2, <6>2
        <5>. HIDE DEF at, sized, h
        <5>5. [sized EXCEPT !.at = at] \in Frame!Shapes  BY <5>3, <5>4, Reshaped
        <5>. QED BY <5>2, <5>5
      <4>2. CASE c6.side # "left"
        <5>0. x - g.at \in Int  BY <2>2
        <5>1. Frame!Fit(x - g.at, MinSize[k], c4) \in Int  BY <2>2, <3>1, <5>0
        <5>2. h = [g EXCEPT !.size = Frame!Fit(x - g.at, MinSize[k], c4)]
          BY <4>2 DEF Frame!Resized
        <5>. QED BY <2>1, <5>1, <5>2, Reshaped
      <4>. QED BY <4>1, <4>2
    <3>3. c3' = [c3 EXCEPT ![k] = h] /\ c8' = c8 \cup {k}
      BY <1>9, <2>5 DEF Frame!Move
    <3>. HIDE DEF h
    <3>. QED BY <2>1, <2>3, <3>2, <3>3, ShapedKeeps
  <2>. QED BY <2>4, <2>5
<1>10. ASSUME Frame!Release  PROVE Frame!WindowsInv'
  <2>1. c6' \in Frame!Gestures  BY <1>10 DEF Frame!Release, Frame!Idle, Frame!Gestures
  <2>. QED BY <1>10, <2>1
       DEF Frame!Release, Frame!WindowsInv, Frame!layout, Frame!Opened, Frame!InView
<1>. QED BY <1>2, <1>3, <1>4, <1>5, <1>6, <1>7, <1>8, <1>9, <1>10 DEF Frame!Next

ViewInv == part = "windows" => Frame!WindowsInv

LEMMA ViewStart == Init => ViewInv
BY PageAssumption, WindowsStart DEF Init, ViewInv

LEMMA ViewStep ==
  ASSUME ViewInv, [Next]_vars
  PROVE  ViewInv'
<1>. SUFFICES ASSUME part' = "windows"  PROVE Frame!WindowsInv'
  BY DEF ViewInv
<1>1. part = "windows"  BY DEF Next, vars
<1>2. CASE Frame!Next
  BY <1>1, <1>2, PageAssumption, WindowsStep DEF ViewInv
<1>3. CASE UNCHANGED vars
  BY <1>1, <1>3 DEF ViewInv, vars, Frame!WindowsInv, Frame!Opened, Frame!InView
<1>4. Frame!Next \/ UNCHANGED vars  BY <1>1 DEF Next
<1>. QED BY <1>2, <1>3, <1>4

\* A window that fits is in view, whatever was opened, dragged and closed while the
\* viewport changed, unless a resize or a restore put it where it is.
THEOREM StaysInView == Spec => []InView
<1>1. ViewInv /\ [Next]_vars => ViewInv'  BY ViewStep
<1>2. ViewInv => InView  BY DEF ViewInv, InView, Frame!WindowsInv
<1>. QED BY <1>1, <1>2, ViewStart, PTL DEF Spec

-----------------------------------------------------------------------------
(* The download form, and the plan of a download *)

FormsInv ==
  /\ part = "form" => Form!FormInv
  /\ part = "plan" => Plan!PlanInv

LEMMA FormsStart == Init => FormsInv
<1>. SUFFICES ASSUME Init  PROVE FormsInv
  OBVIOUS
<1>1. ASSUME part = "form"  PROVE Form!FormInv
  BY <1>1, PartsAssumption, FormStart DEF Init
<1>2. ASSUME part = "plan"  PROVE Plan!PlanInv
  BY <1>2 DEF Init, Plan!Init, Plan!PlanInv
<1>. QED BY <1>1, <1>2 DEF FormsInv

LEMMA FormsStep ==
  ASSUME FormsInv, [Next]_vars
  PROVE  FormsInv' /\ (part = "form" => Form!SubmitsTheField)
<1>1. part' = part  BY DEF Next, vars
<1>2. ASSUME part = "form"  PROVE Form!FormInv' /\ Form!SubmitsTheField
  <2>1. [Form!Next]_(Form!formVars)
    BY <1>2 DEF Next, vars, Form!formVars, Form!nameVars, Form!urlVars, Form!fileVars
  <2>. QED BY <1>2, <2>1, PartsAssumption, FormStep DEF FormsInv
<1>3. ASSUME part = "plan"  PROVE Plan!PlanInv'
  <2>1. [Plan!Next]_(Plan!planVars)
    BY <1>3 DEF Next, vars, Plan!planVars
  <2>. QED BY <1>3, <2>1, PartsAssumption, PlanStep DEF FormsInv
<1>. QED BY <1>1, <1>2, <1>3 DEF FormsInv

\* The download form is about the page that was asked for, and about the version that
\* is chosen: in whatever order the timer, the answers and the pages of the results
\* come (useModelSearch), the rows are those of the search the Enter key takes them for
\* and the spinner turns only while an answer is awaited; and once the answers are there
\* the free space is that of the directory the plan names.
THEOREM FormHolds == Spec => []FormIsTrue
<1>1. FormsInv => FormIsTrue
  BY PartsAssumption, PlanTells DEF FormsInv, FormIsTrue, Form!FormInv
<1>2. FormsInv /\ [Next]_vars => FormsInv'  BY FormsStep
<1>. QED BY <1>1, <1>2, FormsStart, PTL DEF Spec

\* Download sends the model on show, from the editor that is its own.  With a link in the
\* field that is the link, under the type chosen for it or the one its editor was given,
\* and the sub-folder beside a link goes with nothing else, unless an older resolve was
\* answered late (DialogCreateTask.vue, ModelContent.vue): no stale type or sub-folder
\* leaks into a download.
THEOREM SubmitsHold == Spec => SubmitsTheField
<1>1. FormsInv /\ [Next]_vars => FormsInv' /\ (part = "form" => Form!SubmitsTheField)
  BY FormsStep
<1>2. FormsInv /\ [Next]_vars => [part = "form" => Form!SubmitsTheField]_vars
  BY <1>1
<1>. QED BY <1>1, <1>2, FormsStart, PTL DEF Spec, SubmitsTheField

-----------------------------------------------------------------------------
(* The key of a hub.  Of its variables the proof names the store c1, the copy  *)
(* c4, the request for the keys c7, the POSTs c8, the answers c9, and the      *)
(* history c10.                                                                *)

KeyNames  == Keys \cup {None}
PostSet   == [key : KeyNames, heard : BOOLEAN]
AnswerSet == [key : KeyNames, to : {"init", "setting"}]

\* What the invariant says beyond the types.
LabelIs ==
  ~c10 =>
    \/ c7
    \/ c9 # <<>> /\ c9[Len(c9)].key = c1
    \/ c9 = <<>> /\ c4 = c1

\* An answer is taken or lost, and unless it is the last the last stays.
LEMMA OneTaken ==
  ASSUME NEW S, NEW s \in Seq(S), NEW i \in DOMAIN s
  PROVE  /\ Lock!RemoveAt(s, i) \in Seq(S) /\ s[i] \in S
         /\ i # Len(s) => /\ Lock!RemoveAt(s, i) # <<>>
                          /\ Lock!RemoveAt(s, i)[Len(Lock!RemoveAt(s, i))] = s[Len(s)]
         /\ i = Len(s) /\ i = 1 => Lock!RemoveAt(s, i) = <<>>
<1>1. i \in 1..Len(s) /\ Len(s) \in Nat  OBVIOUS
<1>2. Lock!RemoveAt(s, i) = Cut(s, i)  BY DEF Lock!RemoveAt, Cut
<1>. DEFINE t == Cut(s, i)
<1>3. /\ t \in Seq(S) /\ Len(t) = Len(s) - 1
      /\ \A j \in 1..Len(s) - 1 : t[j] = IF j < i THEN s[j] ELSE s[j + 1]
  BY <1>1, OneRemoved
<1>. HIDE DEF t
<1>4. ASSUME i # Len(s)  PROVE t # <<>> /\ t[Len(t)] = s[Len(s)]
  <2>1. Len(s) - 1 \in 1..Len(s) - 1 /\ ~(Len(s) - 1 < i)  BY <1>1, <1>4
  <2>2. t[Len(s) - 1] = s[Len(s) - 1 + 1] /\ Len(s) - 1 + 1 = Len(s)  BY <1>1, <1>3, <2>1
  <2>. QED BY <1>3, <2>1, <2>2
<1>5. ASSUME i = Len(s), i = 1  PROVE t = <<>>
  <2>1. Len(t) = 0  BY <1>3, <1>5
  <2>. QED BY <1>3, <2>1
<1>. QED BY <1>1, <1>2, <1>3, <1>4, <1>5 DEF t

LEMMA KeyStart == Lock!KeyAssumption /\ Lock!Init => Lock!KeyInv
<1>1. Lock!Init => c8 \in Seq(PostSet) /\ c9 \in Seq(AnswerSet) /\ c7
  BY DEF Lock!Init
<1>2. Lock!Init => {c2, c3, c6, c7, c10} \subseteq BOOLEAN
  BY DEF Lock!Init
<1>. QED BY <1>1, <1>2 DEF Lock!Init, Lock!KeyInv, Lock!TypeOK, PostSet, AnswerSet, KeyNames

LEMMA KeyStep ==
  ASSUME Lock!KeyAssumption, Lock!KeyInv, [Lock!Next]_(Lock!keyVars)
  PROVE  Lock!KeyInv'
<1>. DEFINE Windows == {"closed", "open", "saving"}
<1>1. /\ c1 \in KeyNames /\ c4 \in KeyNames /\ c5 \in Windows
      /\ c8 \in Seq(PostSet) /\ c9 \in Seq(AnswerSet)
      /\ c2 \in BOOLEAN /\ c3 \in BOOLEAN /\ c6 \in BOOLEAN /\ c7 \in BOOLEAN /\ c10 \in BOOLEAN
      /\ FromEnv \in KeyNames /\ None \in KeyNames
  BY DEF Lock!KeyInv, Lock!TypeOK, Lock!KeyAssumption, PostSet, AnswerSet, KeyNames
<1>2. LabelIs
  BY DEF Lock!KeyInv, LabelIs
<1>3. ASSUME /\ c1' \in KeyNames /\ c4' \in KeyNames /\ c5' \in Windows
             /\ c8' \in Seq(PostSet) /\ c9' \in Seq(AnswerSet)
             /\ c2' \in BOOLEAN /\ c3' \in BOOLEAN /\ c6' \in BOOLEAN /\ c7' \in BOOLEAN
             /\ c10' \in BOOLEAN /\ LabelIs'
      PROVE  Lock!KeyInv'
  <2>1. Lock!TypeOK'
    BY <1>3 DEF Lock!TypeOK, PostSet, AnswerSet, KeyNames
  <2>. QED BY <1>3, <2>1 DEF Lock!KeyInv, LabelIs
<1>. HIDE DEF Windows
<1>4. ASSUME UNCHANGED <<c1, c4, c7, c9, c10>>  PROVE LabelIs'
  BY <1>2, <1>4 DEF LabelIs
<1>5. ASSUME NEW answer \in AnswerSet, c9' = Append(c9, answer), c1' = answer.key
      PROVE  c9' \in Seq(AnswerSet) /\ LabelIs'
  <2>1. c9' \in Seq(AnswerSet) /\ Len(c9') = Len(c9) + 1 /\ c9'[Len(c9) + 1] = answer
    BY <1>1, <1>5
  <2>. QED BY <1>1, <1>5, <2>1 DEF LabelIs
<1>6. ASSUME NEW key \in KeyNames, Lock!Post(key)  PROVE c8' \in Seq(PostSet)
  <2>1. [key |-> key, heard |-> TRUE] \in PostSet  BY DEF PostSet
  <2>. QED BY <1>1, <1>6, <2>1 DEF Lock!Post
<1>7. CASE Lock!Reload
  <2>1. ASSUME NEW i \in DOMAIN c8  PROVE [c8[i] EXCEPT !.heard = FALSE] \in PostSet
    <3>1. c8[i] \in PostSet  BY <1>1
    <3>. QED BY <3>1 DEF PostSet
  <2>2. c8' = [i \in 1..Len(c8) |-> [c8[i] EXCEPT !.heard = FALSE]] /\ Len(c8) \in Nat
    BY <1>1, <1>7 DEF Lock!Reload
  <2>3. c8' \in [1..Len(c8) -> PostSet]
    BY <1>1, <2>1, <2>2
  <2>4. c8' \in Seq(PostSet)
    BY <2>2, <2>3
  <2>5. c5' \in Windows /\ c9' \in Seq(AnswerSet) /\ LabelIs'
    BY <1>7 DEF Lock!Reload, Windows, LabelIs
  <2>. QED BY <1>1, <1>3, <1>7, <2>4, <2>5 DEF Lock!Reload
<1>8. CASE Lock!InitRead
  <2>1. c1' \in KeyNames /\ c2' \in BOOLEAN
    BY <1>1, <1>8 DEF Lock!InitRead
  <2>2. [key |-> c1', to |-> "init"] \in AnswerSet
    BY <2>1 DEF AnswerSet
  <2>3. c9' = Append(c9, [key |-> c1', to |-> "init"])
    BY <1>8 DEF Lock!InitRead
  <2>4. c9' \in Seq(AnswerSet) /\ LabelIs'
    BY <1>5, <2>2, <2>3
  <2>. QED BY <1>1, <1>3, <1>8, <2>1, <2>4 DEF Lock!InitRead
<1>9. CASE Lock!InitFails
  <2>1. LabelIs'  BY <1>9 DEF Lock!InitFails, LabelIs
  <2>. QED BY <1>1, <1>3, <1>9, <2>1 DEF Lock!InitFails
<1>10. CASE \/ Lock!Restart \/ Lock!SetApiKey \/ Lock!CloseWindow \/ Lock!RemoveApiKey
            \/ Lock!Declined
  <2>1. /\ UNCHANGED <<c1, c2, c4, c7, c8, c9, c10>>
        /\ c3' \in BOOLEAN /\ c5' \in Windows /\ c6' \in BOOLEAN
    BY <1>1, <1>10 DEF Lock!Restart, Lock!SetApiKey, Lock!CloseWindow, Lock!RemoveApiKey,
                       Lock!Declined, Windows
  <2>. QED BY <1>1, <1>3, <1>4, <2>1
<1>11. CASE Lock!Confirmed \/ \E key \in Keys : Lock!SaveKeybinding(key)
  <2>1. /\ UNCHANGED <<c1, c2, c3, c4, c7, c9, c10>>
        /\ c5' \in Windows /\ c6' \in BOOLEAN
    BY <1>1, <1>11 DEF Lock!Confirmed, Lock!SaveKeybinding, Windows
  <2>2. c8' \in Seq(PostSet)
    BY <1>6, <1>11 DEF Lock!Confirmed, Lock!SaveKeybinding, KeyNames
  <2>. QED BY <1>1, <1>3, <1>4, <2>1, <2>2
<1>12. ASSUME NEW i \in DOMAIN c8, Lock!SetValue(i)  PROVE Lock!KeyInv'
  <2>1. c8' \in Seq(PostSet) /\ c8[i] \in PostSet
    BY <1>1, <1>12, OneTaken DEF Lock!SetValue
  <2>2. /\ c1' = c8[i].key /\ c3' = TRUE /\ c10' = ~c8[i].heard /\ UNCHANGED <<c4, c5, c6, c7>>
        /\ c2' \in BOOLEAN
    BY <1>1, <1>12 DEF Lock!SetValue
  <2>3. c1' \in KeyNames /\ c10' \in BOOLEAN
    BY <2>1, <2>2 DEF PostSet
  <2>4. CASE c8[i].heard
    <3>1. c9' = Append(c9, [key |-> c8[i].key, to |-> "setting"])
      BY <1>12, <2>4 DEF Lock!SetValue
    <3>2. [key |-> c8[i].key, to |-> "setting"] \in AnswerSet
      BY <2>2, <2>3 DEF AnswerSet
    <3>3. c9' \in Seq(AnswerSet) /\ LabelIs'
      BY <1>5, <2>2, <3>1, <3>2
    <3>. QED BY <1>1, <1>3, <2>1, <2>2, <2>3, <3>3
  <2>5. CASE ~c8[i].heard
    <3>1. c9' = c9 /\ c10'
      BY <1>12, <2>2, <2>5 DEF Lock!SetValue
    <3>2. LabelIs'  BY <3>1 DEF LabelIs
    <3>. QED BY <1>1, <1>3, <2>1, <2>2, <2>3, <3>1, <3>2
  <2>. QED BY <2>4, <2>5
<1>13. CASE Lock!SetOther
  <2>1. /\ c1' \in KeyNames /\ c2' \in BOOLEAN /\ c3' = TRUE /\ c10' = (c10 \/ c1' # c1)
        /\ UNCHANGED <<c4, c5, c6, c7, c8, c9>>
    BY <1>1, <1>13 DEF Lock!SetOther
  <2>2. c10' \in BOOLEAN  BY <2>1
  <2>3. LabelIs'  BY <1>2, <2>1 DEF LabelIs
  <2>. QED BY <1>1, <1>3, <2>1, <2>2, <2>3
<1>14. ASSUME NEW i \in DOMAIN c8, Lock!PostFails(i)  PROVE Lock!KeyInv'
  <2>1. c8' \in Seq(PostSet)
    BY <1>1, <1>14, OneTaken DEF Lock!PostFails
  <2>2. c5' \in Windows /\ UNCHANGED <<c1, c2, c3, c4, c6, c7, c9, c10>>
    BY <1>1, <1>14 DEF Lock!PostFails, Windows
  <2>. QED BY <1>1, <1>3, <1>4, <2>1, <2>2
<1>15. ASSUME NEW i \in DOMAIN c9, Lock!Answered(i) \/ Lock!AnswerLost(i)  PROVE Lock!KeyInv'
  <2>1. c9' = Lock!RemoveAt(c9, i) /\ UNCHANGED <<c1, c2, c3, c6, c7, c8>>
    BY <1>15 DEF Lock!Answered, Lock!AnswerLost
  <2>2. /\ c9' \in Seq(AnswerSet) /\ c9[i] \in AnswerSet
        /\ i # Len(c9) => c9' # <<>> /\ c9'[Len(c9')] = c9[Len(c9)]
        /\ i = Len(c9) /\ i = 1 => c9' = <<>>
    BY <1>1, <2>1, OneTaken
  <2>3. c4' \in KeyNames /\ c5' \in Windows
    BY <1>1, <1>15, <2>2 DEF Lock!Answered, Lock!AnswerLost, Windows, AnswerSet
  <2>4. \/ c10' = (c10 \/ (i = Len(c9) /\ i # 1)) /\ c4' = c9[i].key
        \/ c10' = (c10 \/ i = Len(c9))
    BY <1>15 DEF Lock!Answered, Lock!AnswerLost
  <2>5. c10' \in BOOLEAN  BY <2>4
  <2>6. c9 # <<>>  BY <1>1
  <2>7. LabelIs'
    <3>1. CASE i # Len(c9)
      BY <1>2, <2>1, <2>2, <2>4, <2>6, <3>1 DEF LabelIs
    <3>2. CASE i = Len(c9)
      BY <1>2, <2>1, <2>2, <2>4, <2>6, <3>2 DEF LabelIs
    <3>. QED BY <3>1, <3>2
  <2>. QED BY <1>1, <1>3, <2>1, <2>2, <2>3, <2>5, <2>7
<1>16. CASE UNCHANGED Lock!keyVars
  BY <1>1, <1>3, <1>4, <1>16 DEF Lock!keyVars
<1>. QED BY <1>7, <1>8, <1>9, <1>10, <1>11, <1>12, <1>13, <1>14, <1>15, <1>16 DEF Lock!Next

-----------------------------------------------------------------------------
(* The settings of the cards: what is kept c1, the sizes c2, the flag c3, the  *)
(* layout c4, the sort value c5 and the rows of the editor c6.                 *)

\* Maps of sizes, of any of the names.
LEMMA MapsAre ==
  ASSUME NEW S, NEW m
  PROVE  m \in UNION {[ns -> S] : ns \in SUBSET Size!Names}
         <=> DOMAIN m \subseteq Size!Names /\ m \in [DOMAIN m -> S]
<1>1. ASSUME NEW ns \in SUBSET Size!Names, m \in [ns -> S]
      PROVE  DOMAIN m \subseteq Size!Names /\ m \in [DOMAIN m -> S]
  BY <1>1
<1>2. ASSUME DOMAIN m \subseteq Size!Names, m \in [DOMAIN m -> S]
      PROVE  \E ns \in SUBSET Size!Names : m \in [ns -> S]
  BY <1>2
<1>. QED BY <1>1, <1>2

LEMMA AddsCustom ==
  ASSUME Size!SizesAssumption, NEW m \in Size!Maps
  PROVE  Size!WithCustomSize(m) \in Size!Maps /\ Custom \in DOMAIN Size!WithCustomSize(m)
<1>1. DOMAIN m \subseteq Size!Names /\ m \in [DOMAIN m -> Sizes]
  BY MapsAre DEF Size!Maps
<1>. DEFINE put == Size!Put(m, Custom, CustomSize)
<1>2. DOMAIN put = DOMAIN m \cup {Custom} /\ put \in [DOMAIN m \cup {Custom} -> Sizes]
  BY <1>1 DEF Size!Put, Size!SizesAssumption
<1>3. put \in Size!Maps
  <2>. HIDE DEF put
  <2>. QED BY <1>1, <1>2, MapsAre DEF Size!Maps, Size!Names
<1>. QED BY <1>2, <1>3 DEF Size!WithCustomSize

\* Whatever is read, the page has sizes, the custom one among them; and what it has
\* itself left it reads as it is.
LEMMA ReadsSizes ==
  ASSUME Size!SizesAssumption, NEW raw \in Size!Raws
  PROVE  /\ Size!Read(raw) \in Size!Maps /\ Custom \in DOMAIN Size!Read(raw)
         /\ raw \in Size!Maps /\ Custom \in DOMAIN raw => Size!Read(raw) = raw
<1>. DEFINE map == IF Size!Sound(raw) = {} THEN DefaultSizes ELSE [n \in Size!Sound(raw) |-> raw[n]]
<1>1. map \in Size!Maps
  <2>1. CASE Size!Sound(raw) = {}
    <3>1. DOMAIN DefaultSizes = Presets /\ DefaultSizes \in [Presets -> Sizes]
      BY DEF Size!SizesAssumption
    <3>. QED BY <2>1, <3>1, MapsAre DEF Size!Maps, Size!Names
  <2>2. CASE Size!Sound(raw) # {}
    <3>1. raw # Junk  BY <2>2 DEF Size!Sound
    <3>2. DOMAIN raw \subseteq Size!Names /\ raw \in [DOMAIN raw -> Sizes \cup {Junk}]
      BY <3>1, MapsAre DEF Size!Raws
    <3>3. /\ Size!Sound(raw) \subseteq Size!Names
          /\ \A n \in Size!Sound(raw) : raw[n] \in Sizes
      BY <3>1, <3>2 DEF Size!Sound
    <3>. QED BY <2>2, <3>3, MapsAre DEF Size!Maps
  <2>. QED BY <2>1, <2>2
<1>2. Size!Read(raw) = Size!WithCustomSize(map)
  BY DEF Size!Read
<1>3. Size!WithCustomSize(map) \in Size!Maps /\ Custom \in DOMAIN Size!WithCustomSize(map)
  BY <1>1, AddsCustom
<1>4. ASSUME raw \in Size!Maps, Custom \in DOMAIN raw  PROVE Size!Read(raw) = raw
  <2>1. raw \in [DOMAIN raw -> Sizes]
    BY <1>4, MapsAre DEF Size!Maps
  <2>2. raw # Junk /\ Size!Sound(raw) = DOMAIN raw
    BY <1>4, <2>1 DEF Size!SizesAssumption, Size!Sound
  <2>3. map = raw  BY <1>4, <2>1, <2>2
  <2>. QED BY <1>2, <1>4, <2>3 DEF Size!WithCustomSize
<1>. QED BY <1>2, <1>3, <1>4

LEMMA SoundIsRaw == ASSUME NEW m \in Size!Maps  PROVE m \in Size!Raws
<1>1. DOMAIN m \subseteq Size!Names /\ m \in [DOMAIN m -> Sizes]
  BY MapsAre DEF Size!Maps
<1>2. m \in [DOMAIN m -> Sizes \cup {Junk}]  BY <1>1
<1>. QED BY <1>1, <1>2, MapsAre DEF Size!Raws

\* What the user sets is kept.
LEMMA SetsKept ==
  ASSUME NEW k \in Size!Kept
  PROVE  /\ \A v \in Size!Raws : LET t == [k EXCEPT !.sizes = v] IN
              /\ t \in Size!Kept /\ t.sizes = v
              /\ t.flag = k.flag /\ t.flat = k.flat /\ t.sort = k.sort /\ t.marker = k.marker
         /\ \A v \in Size!Names : LET t == [k EXCEPT !.flag = v] IN
              /\ t \in Size!Kept /\ t.flag = v
              /\ t.sizes = k.sizes /\ t.flat = k.flat /\ t.sort = k.sort /\ t.marker = k.marker
         /\ \A v \in BOOLEAN : LET t == [k EXCEPT !.flat = v] IN
              /\ t \in Size!Kept /\ t.flat = v
              /\ t.sizes = k.sizes /\ t.flag = k.flag /\ t.sort = k.sort /\ t.marker = k.marker
         /\ \A v \in Sorts : LET t == [k EXCEPT !.sort = v] IN
              /\ t \in Size!Kept /\ t.sort = v
              /\ t.sizes = k.sizes /\ t.flag = k.flag /\ t.flat = k.flat /\ t.marker = k.marker
BY DEF Size!Kept

\* What the page makes of the settings when it is loaded.
LEMMA MigratesSettings ==
  ASSUME NEW k \in Size!Kept
  PROVE  /\ Size!Migrated(k).sizes = Size!Read(k.sizes)
         /\ Size!Migrated(k).flag = k.flag /\ Size!Migrated(k).sort = k.sort
         /\ Size!Migrated(k).marker /\ (k.marker => Size!Migrated(k).flat = k.flat)
         /\ Size!Read(k.sizes) \in Size!Raws => Size!Migrated(k) \in Size!Kept
<1>. DEFINE flat == k.marker => k.flat
            kept1 == [k EXCEPT !.flat = flat]
            kept2 == [kept1 EXCEPT !.marker = TRUE]
            k3 == [kept2 EXCEPT !.sizes = Size!Read(k.sizes)]
<1>1. flat \in BOOLEAN /\ (k.marker => flat = k.flat)  BY DEF Size!Kept
<1>2. Size!Migrated(k) = k3  BY DEF Size!Migrated, Size!Kept
<1>3. /\ kept1 \in Size!Kept /\ kept1.flat = flat /\ kept1.sizes = k.sizes
      /\ kept1.flag = k.flag /\ kept1.sort = k.sort
  <2>. HIDE DEF flat
  <2>. QED BY <1>1, SetsKept
<1>. HIDE DEF flat, kept1
<1>4. /\ kept2 \in Size!Kept /\ kept2.flat = flat /\ kept2.marker
      /\ kept2.flag = k.flag /\ kept2.sort = k.sort
  BY <1>3 DEF Size!Kept
<1>. HIDE DEF kept2
<1>5. /\ k3.sizes = Size!Read(k.sizes) /\ k3.flat = flat /\ k3.marker
      /\ k3.flag = k.flag /\ k3.sort = k.sort
      /\ Size!Read(k.sizes) \in Size!Raws => k3 \in Size!Kept
  BY <1>4 DEF Size!Kept
<1>. QED BY <1>1, <1>2, <1>5

LEMMA MigratedIsKept ==
  ASSUME Size!SizesAssumption, NEW k \in Size!Kept
  PROVE  /\ Size!Migrated(k) \in Size!Kept /\ Size!Migrated(k).marker
         /\ Size!Migrated(k).sizes \in Size!Maps /\ Custom \in DOMAIN Size!Migrated(k).sizes
         /\ Size!Migrated(k).flag = k.flag /\ Size!Migrated(k).sort = k.sort
<1>1. k.sizes \in Size!Raws  BY DEF Size!Kept
<1>2. Size!Read(k.sizes) \in Size!Maps /\ Custom \in DOMAIN Size!Read(k.sizes)
  BY <1>1, ReadsSizes
<1>. QED BY <1>2, SoundIsRaw, MigratesSettings

LEMMA SizesStart ==
  ASSUME Size!SizesAssumption, Size!Init
  PROVE  Size!SizesInv
<1>1. PICK k \in Size!Kept : c1 = Size!Migrated(k) /\ c3 = k.flag /\ c5 = Size!ReadSort(k.sort)
  BY DEF Size!Init
<1>. QED BY <1>1, MigratedIsKept DEF Size!Init, Size!SizesInv

LEMMA SizesStep ==
  ASSUME Size!SizesAssumption, Size!SizesInv, [Size!Next]_(Size!sizesVars)
  PROVE  Size!SizesInv'
<1>0. c1 \in Size!Kept  BY DEF Size!SizesInv
<1>1. CASE Size!Load
  BY <1>0, <1>1, MigratedIsKept DEF Size!Load, Size!SizesInv
<1>2. ASSUME NEW name \in Size!Names, Size!SelectSize(name)  PROVE Size!SizesInv'
  <2>1. DOMAIN Size!NoMap = {} /\ Size!NoMap \in [{} -> Sizes]  BY DEF Size!NoMap
  <2>2. Size!NoMap \in Size!Maps  BY <2>1, MapsAre DEF Size!Maps
  <2>3. LET map == Size!WithCustomSize(Size!NoMap) IN map \in Size!Maps /\ Custom \in DOMAIN map
    BY <2>2, AddsCustom
  <2>. QED BY <1>0, <1>2, <2>3, SetsKept DEF Size!SelectSize, Size!SizesInv
<1>3. ASSUME NEW name, NEW size \in Sizes, Size!Slide(name, size)  PROVE Size!SizesInv'
  <2>1. /\ c6 \in [DOMAIN c6 -> Sizes] /\ DOMAIN c6 \subseteq Size!Names
        /\ Custom \in DOMAIN c6
    BY <1>3, MapsAre DEF Size!Slide, Size!SizesInv, Size!Maps
  <2>2. DOMAIN c6' = DOMAIN c6 /\ c6' \in [DOMAIN c6 -> Sizes]
    BY <1>3, <2>1 DEF Size!Slide
  <2>3. c6' \in Size!Maps  BY <2>1, <2>2, MapsAre DEF Size!Maps
  <2>. QED BY <1>3, <2>1, <2>2, <2>3 DEF Size!Slide, Size!SizesInv
<1>4. CASE Size!HandleReset
  <2>1. DefaultSizes \in Size!Maps
    BY MapsAre DEF Size!Maps, Size!SizesAssumption, Size!Names
  <2>. QED BY <1>4, <2>1, AddsCustom DEF Size!HandleReset, Size!SizesInv
<1>5. CASE Size!HandleSaveSizeMap
  <2>1. c6 \in Size!Raws  BY <1>5, SoundIsRaw DEF Size!HandleSaveSizeMap, Size!SizesInv
  <2>. QED BY <1>0, <1>5, <2>1, SetsKept DEF Size!HandleSaveSizeMap, Size!SizesInv
<1>6. ASSUME NEW to \in BOOLEAN, Size!SetFlat(to)  PROVE Size!SizesInv'
  BY <1>0, <1>6, SetsKept DEF Size!SetFlat, Size!SizesInv
<1>7. ASSUME NEW to \in Sorts, Size!SetSort(to)  PROVE Size!SizesInv'
  BY <1>0, <1>7, SetsKept DEF Size!SetSort, Size!SizesInv, Size!ReadSort
<1>8. CASE Size!HandleCancelEditor \/ UNCHANGED Size!sizesVars
  BY <1>8 DEF Size!HandleCancelEditor, Size!SizesInv, Size!sizesVars
<1>. QED BY <1>1, <1>2, <1>3, <1>4, <1>5, <1>6, <1>7, <1>8 DEF Size!Next

\* What the invariant says of the next load.
LEMMA SizesTell ==
  ASSUME Size!SizesAssumption, Size!SizesInv
  PROVE  Size!SettingsHold
<1>1. Size!Read(c1.sizes) = c2
  BY ReadsSizes DEF Size!SizesInv, Size!Kept
<1>2. Size!Migrated(c1).flat = c4
  BY MigratesSettings DEF Size!SizesInv, Size!Kept
<1>3. Size!CardSize \in Sizes
  BY MapsAre DEF Size!CardSize, Size!SizesInv, Size!Maps, Size!SizesAssumption
<1>. QED BY <1>1, <1>2, <1>3 DEF Size!SettingsHold, Size!SizesInv

-----------------------------------------------------------------------------
(* The stars of folders: the list c1, the setting c2, and the folders the user *)
(* has starred c3.                                                             *)

\* A list of these folders, each once.
Lists(list, of) ==
  /\ list \in Seq(Directory) /\ Star!Range(list) = of
  /\ \A i, j \in DOMAIN list : list[i] = list[j] => i = j

LEMMA WithLists ==
  ASSUME NEW list, NEW of, Lists(list, of), NEW key \in Directory
  PROVE  Lists(Star!With(list, key), of \cup {key})
<1>0. list \in Seq(Directory) /\ Len(list) \in Nat /\ DOMAIN list = 1..Len(list)
  BY DEF Lists
<1>1. CASE Star!Contains(list, key)
  <2>1. key \in of  BY <1>0, <1>1 DEF Star!Contains, Lists, Star!Range
  <2>2. of \cup {key} = of  BY <2>1
  <2>. QED BY <1>1, <2>2 DEF Star!With
<1>2. CASE ~Star!Contains(list, key)
  <2>. DEFINE t == Append(list, key)
  <2>1. Star!With(list, key) = t  BY <1>2 DEF Star!With
  <2>2. /\ t \in Seq(Directory) /\ DOMAIN t = 1..Len(list) + 1
        /\ t[Len(list) + 1] = key /\ \A i \in 1..Len(list) : t[i] = list[i]
    BY <1>0
  <2>3. \A i \in 1..Len(list) : list[i] # key
    BY <1>2 DEF Star!Contains
  <2>. HIDE DEF t
  <2>4. Star!Range(t) = of \cup {key}
    <3>1. of = {list[i] : i \in 1..Len(list)}  BY <1>0 DEF Lists, Star!Range
    <3>2. 1..Len(list) + 1 = 1..Len(list) \cup {Len(list) + 1}  BY <1>0
    <3>. QED BY <2>2, <3>1, <3>2 DEF Star!Range
  <2>5. ASSUME NEW i \in DOMAIN t, NEW j \in DOMAIN t, t[i] = t[j]  PROVE i = j
    <3>1. \A n \in DOMAIN t : n = Len(list) + 1 \/ n \in 1..Len(list)  BY <1>0, <2>2
    <3>. QED BY <1>0, <2>2, <2>3, <2>5, <3>1 DEF Lists
  <2>. QED BY <2>1, <2>2, <2>4, <2>5 DEF Lists
<1>. QED BY <1>1, <1>2

LEMMA WithoutLists ==
  ASSUME NEW list, NEW of, Lists(list, of), NEW key
  PROVE  Lists(Star!Without(list, key), of \ {key})
<1>0. list \in Seq(Directory) /\ Len(list) \in Nat /\ DOMAIN list = 1..Len(list)
  BY DEF Lists
<1>. DEFINE I == {i \in 1..Len(list) : list[i] = key}
<1>1. CASE I = {}
  <2>1. Star!Without(list, key) = list
    BY <1>1 DEF Star!Without, Star!RemoveFirst
  <2>2. key \notin of  BY <1>0, <1>1 DEF Lists, Star!Range
  <2>3. of \ {key} = of  BY <2>2
  <2>. QED BY <2>1, <2>3
<1>2. CASE I # {}
  <2>. DEFINE k == Star!Min(I)
              t == Cut(list, k)
  <2>1. k \in I
    <3>1. I \in SUBSET Nat  OBVIOUS
    <3>2. PICK n \in I : \A m \in I : n <= m  BY <1>2, <3>1, Least
    <3>. QED BY <3>2 DEF Star!Min
  <2>2. Star!Without(list, key) = t
    BY <1>2 DEF Star!Without, Star!RemoveFirst, Star!SelectInSeq, Star!RemoveAt, Cut
  <2>. HIDE DEF k
  <2>3. k \in 1..Len(list) /\ list[k] = key  BY <2>1
  <2>4. /\ t \in Seq(Directory) /\ Len(t) = Len(list) - 1
        /\ \A j \in 1..Len(list) - 1 : t[j] = IF j < k THEN list[j] ELSE list[j + 1]
    BY <1>0, <2>3, OneRemoved
  <2>5. \A i \in 1..Len(list) : i # k => \E j \in 1..Len(list) - 1 : t[j] = list[i]
    BY <1>0, <2>3, OthersLeft
  <2>. HIDE DEF t
  <2>6. ASSUME NEW j \in DOMAIN t
        PROVE  \E i \in 1..Len(list) : /\ i = (IF j < k THEN j ELSE j + 1) /\ i # k
                                       /\ t[j] = list[i]
    BY <1>0, <2>3, <2>4
  <2>7. Star!Range(t) = of \ {key}
    <3>1. of = {list[i] : i \in 1..Len(list)}  BY <1>0 DEF Lists, Star!Range
    <3>2. ASSUME NEW x \in Star!Range(t)  PROVE x \in of /\ x # key
      <4>1. PICK j \in DOMAIN t : x = t[j]  BY DEF Star!Range
      <4>2. PICK i \in 1..Len(list) : i # k /\ t[j] = list[i]  BY <2>6
      <4>. QED BY <1>0, <2>3, <3>1, <4>1, <4>2 DEF Lists
    <3>3. ASSUME NEW x \in of, x # key  PROVE x \in Star!Range(t)
      <4>1. PICK i \in 1..Len(list) : x = list[i]  BY <3>1
      <4>2. PICK j \in 1..Len(list) - 1 : t[j] = list[i]  BY <2>3, <2>5, <3>3, <4>1
      <4>. QED BY <2>4, <4>1, <4>2 DEF Star!Range
    <3>. QED BY <3>2, <3>3
  <2>8. ASSUME NEW i \in DOMAIN t, NEW j \in DOMAIN t, t[i] = t[j]  PROVE i = j
    <3>1. PICK m \in 1..Len(list) : m = (IF i < k THEN i ELSE i + 1) /\ t[i] = list[m]
      BY <2>6
    <3>2. PICK n \in 1..Len(list) : n = (IF j < k THEN j ELSE j + 1) /\ t[j] = list[n]
      BY <2>6
    <3>3. m = n  BY <1>0, <2>8, <3>1, <3>2 DEF Lists
    <3>. QED BY <2>3, <2>4, <3>1, <3>2, <3>3
  <2>. QED BY <2>2, <2>4, <2>7, <2>8 DEF Lists
<1>. QED BY <1>1, <1>2

\* loadStars makes a list of the folders the setting is of.
LEMMA LoadsOnce ==
  ASSUME Star!StarsAssumption, NEW setting \in Seq(Directory \cup {Legacy})
  PROVE  Lists(Star!Loaded(setting), {Star!Migrated(key) : key \in Star!Range(setting)})
<1>. DEFINE N == Len(setting)
            S == Seq(Directory)
            step == [n \in 1..N |-> [l \in S |-> Star!With(l, Star!Migrated(setting[n]))]]
            To(n) == {Star!Migrated(setting[i]) : i \in 1..n}
<1>1. N \in Nat /\ \A n \in 1..N : Star!Migrated(setting[n]) \in Directory
  BY DEF Star!Migrated, Star!StarsAssumption
<1>2. step \in [1..N -> [S -> S]]
  <2>1. ASSUME NEW n \in 1..N, NEW l \in S
        PROVE  Star!With(l, Star!Migrated(setting[n])) \in S
    BY <1>1 DEF Star!With
  <2>. QED BY <2>1
<1>3. PICK g : Runs(g, S, <<>>, N, step)
  <2>1. <<>> \in S  OBVIOUS
  <2>. HIDE DEF step, N, S
  <2>. QED BY <1>1, <1>2, <2>1, Loops
<1>4. ASSUME NEW n \in 1..N
      PROVE  g[n] = Star!With(g[n - 1], Star!Migrated(setting[n]))
  <2>1. n - 1 \in 0..N  BY <1>1
  <2>. QED BY <1>3, <2>1 DEF Runs
<1>. HIDE DEF step
<1>. DEFINE Unfolds(u) == u = [n \in 0..N |->
                              IF n = 0 THEN <<>>
                              ELSE Star!With(u[n - 1], Star!Migrated(setting[n]))]
            c == CHOOSE u : Unfolds(u)
<1>5. Unfolds(g)
  <2>1. \A n \in 0..N : n = 0 \/ n \in 1..N  BY <1>1
  <2>. QED BY <1>3, <1>4, <2>1 DEF Runs
<1>6. Unfolds(c)  BY <1>5, Zenon
<1>7. Star!Loaded(setting) = c[N]  BY Zenon DEF Star!Loaded
<1>60. /\ c[0] = <<>>
       /\ \A n \in 1..N : c[n] = Star!With(c[n - 1], Star!Migrated(setting[n]))
  <2>. HIDE DEF c
  <2>1. 0 \in 0..N /\ \A n \in 1..N : n \in 0..N /\ n # 0  BY <1>1
  <2>. QED BY <1>6, <2>1
<1>. DEFINE T == {n \in 0..N : Lists(c[n], To(n))}
<1>8. 0 \in T
  <2>1. c[0] = <<>> /\ To(0) = {}
    BY <1>60
  <2>2. Lists(<<>>, {})  BY DEF Lists, Star!Range
  <2>. HIDE DEF To, c
  <2>3. Lists(c[0], To(0))  BY <2>1, <2>2, Zenon
  <2>. QED BY <1>1, <2>3
<1>9. ASSUME NEW n \in 0..N, n < N, n \in T  PROVE n + 1 \in T
  <2>1. n + 1 \in 1..N /\ n + 1 # 0 /\ n + 1 - 1 = n  BY <1>1, <1>9
  <2>2. c[n + 1] = Star!With(c[n], Star!Migrated(setting[n + 1]))
    BY <1>60, <2>1
  <2>3. To(n + 1) = To(n) \cup {Star!Migrated(setting[n + 1])}
    BY <2>1
  <2>. HIDE DEF To, c
  <2>4. Lists(c[n], To(n))  BY <1>9
  <2>5. Lists(c[n + 1], To(n + 1))  BY <1>1, <2>1, <2>2, <2>3, <2>4, WithLists
  <2>. QED BY <2>1, <2>5
<1>10. N \in T
  <2>. HIDE DEF T, N
  <2>1. \A n \in 0..N : n < N /\ n \in T => n + 1 \in T  BY <1>9
  <2>2. 0..N \subseteq T  BY <1>1, <1>8, <2>1, Reaches
  <2>. QED BY <1>1, <2>2
<1>11. To(N) = {Star!Migrated(key) : key \in Star!Range(setting)}
  BY DEF Star!Range
<1>. QED BY <1>7, <1>10, <1>11

\* applyFolderStars: each of the folders is starred, or each is not.
LEMMA AppliesStars ==
  ASSUME Lists(c1, c3), NEW keys \in Seq(Directory)
  PROVE  Lists(Star!Applied(keys), IF Star!AllStarred(keys) THEN c3 \ Star!Range(keys)
                                   ELSE c3 \cup Star!Range(keys))
<1>. DEFINE N == Len(keys)
            S == Seq(Directory)
            all == Star!AllStarred(keys)
            After(l, key) == IF all THEN Star!Without(l, key) ELSE Star!With(l, key)
            To(n) == IF all THEN c3 \ {keys[i] : i \in 1..n} ELSE c3 \cup {keys[i] : i \in 1..n}
            Lists1 == {l \in S : \E of : Lists(l, of)}
            step == [n \in 1..N |-> [l \in Lists1 |-> After(l, keys[n])]]
<1>1. N \in Nat /\ \A n \in 1..N : keys[n] \in Directory
  OBVIOUS
<1>2. ASSUME NEW n \in 1..N, NEW l, NEW of, Lists(l, of)
      PROVE  Lists(After(l, keys[n]), IF all THEN of \ {keys[n]} ELSE of \cup {keys[n]})
  BY <1>1, <1>2, WithLists, WithoutLists
<1>3. step \in [1..N -> [Lists1 -> Lists1]]
  <2>. HIDE DEF After, all, N
  <2>1. ASSUME NEW n \in 1..N, NEW l \in Lists1  PROVE After(l, keys[n]) \in Lists1
    BY <1>2 DEF Lists
  <2>. QED BY <2>1
<1>4. PICK g : Runs(g, Lists1, c1, N, step)
  <2>1. c1 \in Lists1  BY DEF Lists
  <2>. HIDE DEF step, N, Lists1
  <2>. QED BY <1>1, <1>3, <2>1, Loops
<1>5. ASSUME NEW n \in 1..N
      PROVE  g[n] = After(g[n - 1], keys[n])
  <2>. HIDE DEF After
  <2>1. n - 1 \in 0..N  BY <1>1
  <2>. QED BY <1>4, <2>1 DEF Runs
<1>. HIDE DEF step
<1>. DEFINE Unfolds(u) == u = [n \in 0..N |->
                              IF n = 0 THEN c1
                              ELSE IF Star!AllStarred(keys) THEN Star!Without(u[n - 1], keys[n])
                              ELSE Star!With(u[n - 1], keys[n])]
            c == CHOOSE u : Unfolds(u)
<1>6. Unfolds(g)
  <2>1. \A n \in 0..N : n = 0 \/ n \in 1..N  BY <1>1
  <2>. QED BY <1>4, <1>5, <2>1 DEF Runs
<1>7. Unfolds(c)  BY <1>6, Zenon
<1>8. Star!Applied(keys) = c[N]  BY Zenon DEF Star!Applied
<1>9. c[0] = c1 /\ \A n \in 1..N : c[n] = After(c[n - 1], keys[n])
  <2>. HIDE DEF c
  <2>1. 0 \in 0..N /\ \A n \in 1..N : n \in 0..N /\ n # 0  BY <1>1
  <2>. QED BY <1>7, <2>1
<1>. DEFINE T == {n \in 0..N : Lists(c[n], To(n))}
<1>10. 0 \in T
  <2>1. c[0] = c1 /\ To(0) = c3
    BY <1>9
  <2>. HIDE DEF To, c
  <2>2. Lists(c[0], To(0))  BY <2>1, Zenon
  <2>. QED BY <1>1, <2>2
<1>11. ASSUME NEW n \in 0..N, n < N, n \in T  PROVE n + 1 \in T
  <2>1. n + 1 \in 1..N /\ n + 1 # 0 /\ n + 1 - 1 = n  BY <1>1, <1>11
  <2>. HIDE DEF c, After
  <2>2. c[n + 1] = After(c[n], keys[n + 1])
    BY <1>9, <2>1
  <2>3. To(n + 1) = IF all THEN To(n) \ {keys[n + 1]} ELSE To(n) \cup {keys[n + 1]}
    <3>1. 1..n + 1 = 1..n \cup {n + 1}  BY <2>1
    <3>2. {keys[i] : i \in 1..n + 1} = {keys[i] : i \in 1..n} \cup {keys[n + 1]}
      BY <3>1
    <3>. QED BY <3>2
  <2>. HIDE DEF To, all
  <2>4. Lists(c[n], To(n))  BY <1>11
  <2>5. Lists(After(c[n], keys[n + 1]),
              IF all THEN To(n) \ {keys[n + 1]} ELSE To(n) \cup {keys[n + 1]})
    BY <1>2, <2>1, <2>4
  <2>6. Lists(c[n + 1], To(n + 1))  BY <2>2, <2>3, <2>5, Zenon
  <2>. QED BY <2>1, <2>6
<1>12. N \in T
  <2>. HIDE DEF T, N
  <2>1. \A n \in 0..N : n < N /\ n \in T => n + 1 \in T  BY <1>11
  <2>2. 0..N \subseteq T  BY <1>1, <1>10, <2>1, Reaches
  <2>. QED BY <1>1, <2>2
<1>13. {keys[i] : i \in 1..N} = Star!Range(keys)
  BY DEF Star!Range
<1>. QED BY <1>8, <1>12, <1>13

LEMMA StarsStep ==
  ASSUME Star!StarsAssumption, Star!StarsInv, [Star!Next]_(Star!starsVars)
  PROVE  Star!StarsInv'
<1>1. Lists(c1, c3) /\ c2 \in Seq(Directory \cup {Legacy})
      /\ c3 = {Star!Migrated(key) : key \in Star!Range(c2)}
  BY DEF Star!StarsInv, Star!StarsHold, Lists
<1>2. ASSUME NEW list, NEW of, Lists(list, of), Star!Persist(list), c3' = of
      PROVE  Star!StarsInv'
  <2>1. c1' = list /\ c2' = list  BY <1>2 DEF Star!Persist
  <2>2. \A key \in Star!Range(list) : Star!Migrated(key) = key
    BY <1>2 DEF Lists, Star!Range, Star!Migrated, Star!StarsAssumption
  <2>3. of = {Star!Migrated(key) : key \in Star!Range(list)}
    BY <1>2, <2>2 DEF Lists
  <2>4. list \in Seq(Directory \cup {Legacy})  BY <1>2 DEF Lists
  <2>. QED BY <1>2, <2>1, <2>3, <2>4 DEF Star!StarsInv, Star!StarsHold, Lists, Star!Range
<1>3. ASSUME NEW key \in Directory, Star!Toggle(key)  PROVE Star!StarsInv'
  <2>1. Star!Contains(c1, key) <=> key \in c3
    <3>1. Star!Range(c1) = c3 /\ c1 \in Seq(Directory)  BY <1>1 DEF Lists
    <3>2. DOMAIN c1 = 1..Len(c1)  BY <3>1
    <3>3. key \in c3 <=> \E i \in DOMAIN c1 : c1[i] = key
      <4>. HIDE <1>1
      <4>. QED BY <3>1 DEF Star!Range
    <3>. QED BY <3>2, <3>3 DEF Star!Contains
  <2>2. CASE key \in c3
    <3>1. Star!Persist(Star!Without(c1, key)) /\ c3' = c3 \ {key}
      BY <1>3, <2>1, <2>2 DEF Star!Toggle
    <3>. QED BY <1>1, <1>2, <3>1, WithoutLists
  <2>3. CASE key \notin c3
    <3>1. Star!Persist(Star!With(c1, key)) /\ c3' = c3 \cup {key}
      BY <1>3, <2>1, <2>3 DEF Star!Toggle
    <3>. QED BY <1>1, <1>2, <3>1, WithLists
  <2>. QED BY <2>2, <2>3
<1>4. ASSUME NEW s \in SUBSET Directory, NEW keys \in Star!SetToSeqs(s),
             Star!ApplyFolderStars(keys)
      PROVE  Star!StarsInv'
  <2>1. IsFiniteSet(s)
    <3>1. IsFiniteSet(Directory)
      BY DEF Star!StarsAssumption, Star!IsFiniteSet, IsFiniteSet
    <3>. QED BY <3>1, FS_Subset
  <2>2. Star!Cardinality(s) = Cardinality(s)
    BY DEF Star!Cardinality, Cardinality
  <2>3. Cardinality(s) \in Nat  BY <2>1, FS_CardinalityType
  <2>4. keys \in [1..Cardinality(s) -> s]  BY <2>2 DEF Star!SetToSeqs
  <2>5. keys \in Seq(Directory)  BY <2>3, <2>4
  <2>6. Star!AllStarred(keys) <=> keys # <<>> /\ Star!Range(keys) \subseteq c3
    BY <1>1 DEF Star!AllStarred, Lists
  <2>7. /\ Star!Persist(Star!Applied(keys))
        /\ c3' = IF Star!AllStarred(keys) THEN c3 \ Star!Range(keys) ELSE c3 \cup Star!Range(keys)
    BY <1>4, <2>6 DEF Star!ApplyFolderStars
  <2>. QED BY <1>1, <1>2, <2>5, <2>7, AppliesStars
<1>5. CASE Star!Reload
  <2>1. Lists(Star!Loaded(c2), c3)  BY <1>1, LoadsOnce
  <2>2. c1' = Star!Loaded(c2) /\ c2' = c2 /\ c3' = c3  BY <1>5 DEF Star!Reload
  <2>3. Lists(c1', c3')  BY <2>1, <2>2, Zenon
  <2>4. /\ c2' \in Seq(Directory \cup {Legacy})
        /\ c3' = {Star!Migrated(key) : key \in Star!Range(c2')}
    BY <1>1, <2>2, Zenon
  <2>. QED BY <2>3, <2>4 DEF Star!StarsInv, Star!StarsHold, Lists
<1>6. CASE UNCHANGED Star!starsVars
  BY <1>6 DEF Star!starsVars, Star!StarsInv, Star!StarsHold
<1>. QED BY <1>3, <1>4, <1>5, <1>6 DEF Star!Next

LEMMA StarsStart ==
  ASSUME Star!StarsAssumption, Star!Init
  PROVE  Star!StarsInv
<1>1. c2 \in Seq(Directory \cup {Legacy})
  <2>. DEFINE K == Directory \cup {Legacy}
  <2>1. Legacy \in K /\ Starred \in K  BY DEF Star!StarsAssumption
  <2>. HIDE DEF K
  <2>2. <<>> \in Seq(K) /\ <<Legacy>> \in Seq(K) /\ <<Legacy, Starred>> \in Seq(K)
    BY <2>1
  <2>3. c2 \in Seq(K)  BY <2>2, Zenon DEF Star!Init
  <2>. QED BY <2>3 DEF K
<1>2. Lists(c1, c3)
  BY <1>1, LoadsOnce DEF Star!Init
<1>. QED BY <1>1, <1>2 DEF Star!Init, Star!StarsInv, Star!StarsHold, Lists

-----------------------------------------------------------------------------
(* The three, in the module that runs them *)

SettingsInv ==
  /\ part = "key" => Lock!KeyInv
  /\ part = "sizes" => Size!SizesInv
  /\ part = "stars" => Star!StarsInv

LEMMA SettingsStart == Init => SettingsInv
<1>. SUFFICES ASSUME Init  PROVE SettingsInv
  OBVIOUS
<1>1. ASSUME part = "key"  PROVE Lock!KeyInv
  BY <1>1, PageAssumption, KeyStart DEF Init
<1>2. ASSUME part = "sizes"  PROVE Size!SizesInv
  BY <1>2, PageAssumption, SizesStart DEF Init
<1>3. ASSUME part = "stars"  PROVE Star!StarsInv
  BY <1>3, PageAssumption, StarsStart DEF Init
<1>. QED BY <1>1, <1>2, <1>3 DEF SettingsInv

LEMMA SettingsStep ==
  ASSUME SettingsInv, [Next]_vars
  PROVE  SettingsInv'
<1>0. part' = part  BY DEF Next, vars
<1>1. ASSUME part = "key"  PROVE Lock!KeyInv'
  <2>1. [Lock!Next]_(Lock!keyVars)  BY <1>1 DEF Next, vars, Lock!keyVars
  <2>. QED BY <1>1, <2>1, PageAssumption, KeyStep DEF SettingsInv
<1>2. ASSUME part = "sizes"  PROVE Size!SizesInv'
  <2>1. [Size!Next]_(Size!sizesVars)  BY <1>2 DEF Next, vars, Size!sizesVars
  <2>. QED BY <1>2, <2>1, PageAssumption, SizesStep DEF SettingsInv
<1>3. ASSUME part = "stars"  PROVE Star!StarsInv'
  <2>1. [Star!Next]_(Star!starsVars)  BY <1>3 DEF Next, vars, Star!starsVars
  <2>. QED BY <1>3, <2>1, PageAssumption, StarsStep DEF SettingsInv
<1>. QED BY <1>0, <1>1, <1>2, <1>3 DEF SettingsInv

\* What is kept elsewhere comes back as the page has it: the masked key is the one that
\* is stored, once every answer is in, however the requests overlapped, unless the newest
\* answer was lost or has passed another, or the key was written with nobody to tell the
\* page (config.ts, py/auth.py); the card sizes are sound whatever was left in ComfyUI's
\* settings; and each starred folder is in the list once, across reloads and under its
\* older key (stars.ts).
THEOREM SettingsAreTrue == Spec => []SettingsHold
<1>1. ASSUME SettingsInv  PROVE SettingsHold
  <2>1. Lock!KeyInv => Lock!LabelIsTrue
    BY DEF Lock!KeyInv, Lock!LabelIsTrue
  <2>2. Size!SizesInv => Size!SettingsHold
    BY PageAssumption, SizesTell
  <2>3. Star!StarsInv => Star!StarsHold
    BY DEF Star!StarsInv
  <2>. QED BY <1>1, <2>1, <2>2, <2>3 DEF SettingsInv, SettingsHold
<1>2. SettingsInv /\ [Next]_vars => SettingsInv'  BY SettingsStep
<1>. QED BY <1>1, <1>2, SettingsStart, PTL DEF Spec

-----------------------------------------------------------------------------
(* The three, in the module that runs them *)

UploadsInv ==
  /\ part = "bar" => Bar!HubInv
  /\ part = "guide" => Guide!WizardIsCoherent
  /\ part = "upload" => Send!UploadInv

LEMMA UploadsStart == Init => UploadsInv
<1>. SUFFICES ASSUME Init  PROVE UploadsInv
  OBVIOUS
<1>1. ASSUME part = "bar"  PROVE Bar!HubInv
  BY <1>1, PartsAssumption, BarStart DEF Init
<1>2. ASSUME part = "guide"  PROVE Guide!WizardIsCoherent
  BY <1>2 DEF Init, Guide!Init, Guide!WizardIsCoherent
<1>3. ASSUME part = "upload"  PROVE Send!UploadInv
  BY <1>3, PartsAssumption, SendStart DEF Init
<1>. QED BY <1>1, <1>2, <1>3 DEF UploadsInv

LEMMA UploadsStep ==
  ASSUME UploadsInv, [Next]_vars
  PROVE  UploadsInv'
<1>0. part' = part  BY DEF Next, vars
<1>1. ASSUME part = "bar"  PROVE Bar!HubInv'
  <2>1. [Bar!Next]_(Bar!hubVars)  BY <1>1 DEF Next, vars, Bar!hubVars, Bar!barVars
  <2>. QED BY <1>1, <2>1, PartsAssumption, BarStep DEF UploadsInv
<1>2. ASSUME part = "guide"  PROVE Guide!WizardIsCoherent'
  <2>1. [Guide!Next]_(Guide!wizardVars)
    BY <1>2 DEF Next, vars, Guide!wizardVars, Guide!pickVars
  <2>. QED BY <1>2, <2>1, PartsAssumption, GuideStep DEF UploadsInv
<1>3. ASSUME part = "upload"  PROVE Send!UploadInv'
  <2>1. [Send!Next]_(Send!uploadVars)
    BY <1>3 DEF Next, vars, Send!uploadVars, Send!wizardVars, Send!diskVars
  <2>. QED BY <1>3, <2>1, PartsAssumption, SendStep DEF UploadsInv
<1>. QED BY <1>0, <1>1, <1>2, <1>3 DEF UploadsInv

\* However events, answers, pauses, crashes and other requests interleave: the bar of a
\* hub upload is on while one of this page's runs and off once it has ended and all is
\* delivered (hfUpload.ts, upload_hf.py), its wizard has the model to send and names the
\* account of its own hub (DialogHfUpload.vue), and under a model's name lies one whole
\* upload or what was there before, with nothing left beside it (py/upload.py); each but
\* for the losses and overlaps the properties name.
THEOREM UploadsHold == Spec => []UploadsAreTrue
<1>1. UploadsInv => UploadsAreTrue
  BY PartsAssumption, BarTellsTruth DEF UploadsInv, UploadsAreTrue, Send!UploadInv
<1>2. UploadsInv /\ [Next]_vars => UploadsInv'  BY UploadsStep
<1>. QED BY <1>1, <1>2, UploadsStart, PTL DEF Spec

-----------------------------------------------------------------------------
(* What is done with the models that are listed *)

ChosenInv ==
  /\ part = "selection" => Pick!SelectionInv
  /\ part = "batches" => Batches!BarInv
  /\ part = "canvas" => Canvas!CanvasInv
  /\ part = "hygiene" => Broom!HygieneInv
  /\ part = "confirm" => Ask!ConfirmInv

LEMMA ChosenStart == Init => ChosenInv
<1>. SUFFICES ASSUME Init  PROVE ChosenInv
  OBVIOUS
<1>1. ASSUME part = "selection"  PROVE Pick!SelectionInv
  BY <1>1, PartsAssumption, SelectionStart DEF Init
<1>2. ASSUME part = "batches"  PROVE Batches!BarInv
  BY <1>2, BatchStart DEF Init
<1>3. ASSUME part = "canvas"  PROVE Canvas!CanvasInv
  BY <1>3, PartsAssumption, CanvasStart DEF Init
<1>4. ASSUME part = "hygiene"  PROVE Broom!HygieneInv
  BY <1>4, PartsAssumption, HygieneStart DEF Init
<1>5. ASSUME part = "confirm"  PROVE Ask!ConfirmInv
  BY <1>5, ConfirmStart DEF Init
<1>. QED BY <1>1, <1>2, <1>3, <1>4, <1>5 DEF ChosenInv

LEMMA ChosenStep ==
  ASSUME ChosenInv, [Next]_vars
  PROVE  ChosenInv'
<1>0. part' = part  BY DEF Next, vars
<1>1. ASSUME part = "selection"  PROVE Pick!SelectionInv'
  <2>1. [Pick!Next]_(Pick!selectionVars)
    BY <1>1 DEF Next, vars, Pick!selectionVars, Pick!asking
  <2>. QED BY <1>1, <2>1, PartsAssumption, SelectionStep DEF ChosenInv
<1>2. ASSUME part = "batches"  PROVE Batches!BarInv'
  <2>1. [Batches!Next]_(Batches!barVars)  BY <1>2 DEF Next, vars, Batches!barVars
  <2>. QED BY <1>2, <2>1, PartsAssumption, BatchStep DEF ChosenInv
<1>3. ASSUME part = "canvas"  PROVE Canvas!CanvasInv'
  <2>1. [Canvas!Next]_(Canvas!canvasVars)  BY <1>3 DEF Next, vars, Canvas!canvasVars
  <2>. QED BY <1>3, <2>1, PartsAssumption, CanvasStep DEF ChosenInv
<1>4. ASSUME part = "hygiene"  PROVE Broom!HygieneInv'
  <2>1. [Broom!Next]_(Broom!hygieneVars)  BY <1>4 DEF Next, vars, Broom!hygieneVars
  <2>. QED BY <1>4, <2>1, PartsAssumption, HygieneStep DEF ChosenInv
<1>5. ASSUME part = "confirm"  PROVE Ask!ConfirmInv'
  <2>1. [Ask!Next]_(Ask!confirmVars)  BY <1>5 DEF Next, vars, Ask!confirmVars
  <2>. QED BY <1>5, <2>1, PartsAssumption, ConfirmStep DEF ChosenInv
<1>. QED BY <1>0, <1>1, <1>2, <1>3, <1>4, <1>5 DEF ChosenInv

\* What is done is what was chosen and agreed to, however scans, answers, clicks and
\* changes by others fall between the question and the deed: a bulk delete removes nothing
\* that was not agreed to and comes to its end (useModels); a question about folders does
\* to each of them what it says, and a delta is of two models (folderSelection.ts,
\* zipnnDelta.ts); the clean-up takes nothing of a model that its scan had seen but
\* previews that an orphan's stem claims too (DialogHygiene.vue); a question to compress
\* lists its own model's types (zipnn.ts); and a widget of the canvas holds a model that
\* it lists (modelGrid.ts); each but for the overlaps the properties name.
THEOREM AgreedHolds == Spec => []AgreedOnly
<1>1. ASSUME ChosenInv  PROVE AgreedOnly
  <2>1. Pick!SelectionInv => Pick!SelectionSafe
    BY DEF Pick!SelectionInv, Pick!SelectionSafe
  <2>2. Batches!BarInv => Batches!BarIsTrue
    BY DEF Batches!BarInv, Batches!BarIsTrue
  <2>3. Canvas!CanvasInv => Canvas!HoldsWhatItLists
    BY DEF Canvas!CanvasInv
  <2>. QED BY <1>1, <2>1, <2>2, <2>3, HygieneTells, ConfirmTells DEF ChosenInv, AgreedOnly
<1>2. ChosenInv /\ [Next]_vars => ChosenInv'  BY ChosenStep
<1>. QED BY <1>1, <1>2, ChosenStart, PTL DEF Spec

-----------------------------------------------------------------------------
(* The download list *)

DownloadsInv == part = "list" => Rows!ListInv

LEMMA DownloadsStart == Init => DownloadsInv
BY ListStart DEF Init, DownloadsInv

LEMMA DownloadsStep ==
  ASSUME DownloadsInv, [Next]_vars
  PROVE  DownloadsInv'
<1>1. part' = part  BY DEF Next, vars
<1>2. ASSUME part = "list"  PROVE Rows!ListInv'
  <2>1. [Rows!Next]_(Rows!listVars)
    BY <1>2 DEF Next, vars, Rows!listVars, Rows!server, Rows!past
  <2>. QED BY <1>2, <2>1, PartsAssumption, ListStep DEF DownloadsInv
<1>. QED BY <1>1, <1>2 DEF DownloadsInv

\* The rows of the download list are the tasks of the server, each once and with its
\* status, whenever nothing is on its way, however many tasks there are and however events,
\* answers, reconnections and restarts interleave, but after events that a read may have
\* missed; and what a prompt has paused the listener has still to resume, or its resume
\* is under way, failed, met a coroutine that was unwinding, or passed the pause
\* (hooks/download.ts, py/download.py, py/thread.py).
THEOREM ListHolds == Spec => []ListIsTrue
<1>1. DownloadsInv /\ [Next]_vars => DownloadsInv'  BY DownloadsStep
<1>2. DownloadsInv => ListIsTrue
  BY ListTells DEF DownloadsInv, ListIsTrue
<1>. QED BY <1>1, <1>2, DownloadsStart, PTL DEF Spec

-----------------------------------------------------------------------------
(* The types.  The invariants above have the types of six parts, and of the    *)
(* others what they rest on; what is left of these is here, in the same order. *)

\* Each entry of a sequence is there once.
Once(s) == \A i, j \in DOMAIN s : s[i] = s[j] => i = j

\* Without its k-th entry it keeps that, and does not have the entry.
LEMMA CutOnce ==
  ASSUME NEW S, NEW s \in Seq(S), Once(s), NEW k \in 1..Len(s)
  PROVE  Once(Cut(s, k)) /\ \A j \in DOMAIN Cut(s, k) : Cut(s, k)[j] # s[k]
<1>. DEFINE t == Cut(s, k)
            from(j) == IF j < k THEN j ELSE j + 1
<1>1. t \in Seq(S) /\ Len(t) = Len(s) - 1 /\ \A j \in 1..Len(s) - 1 : t[j] = s[from(j)]
  BY OneRemoved
<1>2. k \in Nat /\ Len(s) \in Nat /\ DOMAIN s = 1..Len(s)  OBVIOUS
<1>. HIDE DEF t
<1>3. DOMAIN t = 1..Len(s) - 1  BY <1>1
<1>4. ASSUME NEW i \in 1..Len(s) - 1, NEW j \in 1..Len(s) - 1
      PROVE  /\ from(i) \in 1..Len(s) /\ from(j) \in 1..Len(s) /\ from(i) # k
             /\ from(i) = from(j) => i = j
  BY <1>2
<1>. HIDE DEF from
<1>. QED BY <1>1, <1>2, <1>3, <1>4 DEF Once, t

\* A window is raised, closed, or the last one taken off.
LEMMA StackOnce ==
  ASSUME NEW s \in Seq(Key), Once(s), NEW k \in Key
  PROVE  /\ Once(Frame!RemoveFirst(s, k)) /\ Once(Append(Frame!RemoveFirst(s, k), k))
         /\ Once(<<k>>)
         /\ s # <<>> => Once(Frame!Front(s))
<1>. DEFINE I == {i \in 1..Len(s) : s[i] = k}
            t == Frame!RemoveFirst(s, k)
<1>1. Once(t) /\ t \in Seq(Key) /\ \A j \in DOMAIN t : t[j] # k
  <2>1. CASE I = {}
    <3>1. t = s  BY <2>1 DEF Frame!RemoveFirst
    <3>. QED BY <2>1, <3>1
  <2>2. CASE I # {}
    <3>. DEFINE i == Frame!Min(I)
    <3>1. I \in SUBSET Nat  OBVIOUS
    <3>2. PICK n \in I : \A m \in I : n <= m  BY <2>2, <3>1, Least
    <3>3. i \in I  BY <3>2 DEF Frame!Min
    <3>4. t = Cut(s, i)
      BY <2>2 DEF Frame!RemoveFirst, Frame!SelectInSeq, Frame!RemoveAt, Cut
    <3>. HIDE DEF i, t
    <3>5. i \in 1..Len(s) /\ s[i] = k  BY <3>3
    <3>. QED BY <3>4, <3>5, CutOnce, OneRemoved
  <2>. QED BY <2>1, <2>2
<1>. HIDE DEF t
<1>2. Once(Append(t, k))
  <2>. DEFINE u == Append(t, k)
  <2>1. /\ Len(t) \in Nat /\ DOMAIN t = 1..Len(t) /\ DOMAIN u = 1..Len(t) + 1
        /\ u[Len(t) + 1] = k /\ \A i \in 1..Len(t) : u[i] = t[i]
    BY <1>1
  <2>. HIDE DEF u
  <2>2. \A i \in 1..Len(t) + 1 : i \in 1..Len(t) \/ i = Len(t) + 1  BY <2>1
  <2>3. \A i \in 1..Len(t) : u[i] # k  BY <1>1, <2>1
  <2>4. ASSUME NEW i \in 1..Len(t) + 1, NEW j \in 1..Len(t) + 1, u[i] = u[j]  PROVE i = j
    <3>1. CASE i \in 1..Len(t) /\ j \in 1..Len(t)  BY <1>1, <2>1, <2>4, <3>1 DEF Once
    <3>2. CASE i = Len(t) + 1 \/ j = Len(t) + 1  BY <2>1, <2>2, <2>3, <2>4, <3>2
    <3>. QED BY <2>2, <3>1, <3>2
  <2>. QED BY <2>1, <2>4 DEF Once, u
<1>3. Once(<<k>>)
  <2>1. DOMAIN <<k>> = {1}  OBVIOUS
  <2>. QED BY <2>1 DEF Once
<1>4. ASSUME s # <<>>  PROVE Once(Frame!Front(s))
  <2>. DEFINE n == Len(s) - 1
              u == SubSeq(s, 1, n)
  <2>1. n \in Nat /\ n <= Len(s) /\ Len(s) \in Nat  BY <1>4, EmptySeq
  <2>. HIDE DEF n
  <2>2. \A i \in 1..n : i \in 1..Len(s) /\ s[i] \in Key  BY <2>1
  <2>3. Len(u) = n /\ u \in Seq(Key) /\ \A i \in 1..n : u[i] = s[i]
    <3>1. /\ u \in Seq(Key) /\ Len(u) = IF 1 <= n THEN n - 1 + 1 ELSE 0
          /\ \A i \in 1..n - 1 + 1 : u[i] = s[1 + i - 1]
      BY <2>1, <2>2, SubSeqProperties
    <3>2. \A i \in 1..n : i \in 1..n - 1 + 1 /\ 1 + i - 1 = i  BY <2>1
    <3>3. Len(u) = n  BY <2>1, <3>1
    <3>. QED BY <3>1, <3>2, <3>3
  <2>. HIDE DEF u
  <2>4. DOMAIN u = 1..n /\ DOMAIN s = 1..Len(s)  BY <2>3
  <2>. QED BY <2>2, <2>3, <2>4 DEF Once, u, n, Frame!Front
<1>. QED BY <1>1, <1>2, <1>3, <1>4 DEF t

\* What WindowsInv leaves open of the types of the windows.
WindowsTypes == Once(c1) /\ c5 \cup c7 \cup c8 \subseteq Key

LEMMA WindowsTyped ==
  ASSUME Frame!WindowsInv, WindowsTypes
  PROVE  Frame!TypeOK
BY DEF Frame!WindowsInv, WindowsTypes, Once, Frame!TypeOK, Frame!Gestures

LEMMA WindowsTypesStart == Frame!Init => WindowsTypes
<1>1. DOMAIN <<>> = {}  OBVIOUS
<1>. QED BY <1>1 DEF Frame!Init, WindowsTypes, Once

LEMMA WindowsTypesStep ==
  ASSUME Frame!WindowsAssumption, Frame!WindowsInv, WindowsTypes, Frame!Next
  PROVE  WindowsTypes'
<1>1. c1 \in Seq(Key) /\ Once(c1) /\ c5 \subseteq Key /\ c7 \subseteq Key /\ c8 \subseteq Key
  BY DEF Frame!WindowsInv, WindowsTypes
<1>2. \A k \in Key : /\ Once(Frame!RemoveFirst(c1, k)) /\ Once(Append(Frame!RemoveFirst(c1, k), k))
                     /\ Once(<<k>>) /\ (c1 # <<>> => Once(Frame!Front(c1)))
  <2>. SUFFICES ASSUME NEW k \in Key
                PROVE  /\ Once(Frame!RemoveFirst(c1, k))
                       /\ Once(Append(Frame!RemoveFirst(c1, k), k))
                       /\ Once(<<k>>) /\ (c1 # <<>> => Once(Frame!Front(c1)))
    OBVIOUS
  <2>. QED BY <1>1, StackOnce
<1>3. \A s, shown : Frame!Restack(s, shown) => c1' = s /\ c8' \subseteq Key
  BY <1>1 DEF Frame!Restack
<1>4. ASSUME NEW k \in Key, Frame!Open(k) \/ Frame!Close(k) \/ Frame!Rise(k)
      PROVE  WindowsTypes'
  <2>1. Once(Frame!Raised(k)) /\ Once(Frame!Without(k))
    BY <1>1, <1>2 DEF Frame!Raised, Frame!Without
  <2>2. UNCHANGED <<c5, c7>>  BY <1>4 DEF Frame!Open, Frame!Close, Frame!Rise
  <2>3. c8' \subseteq Key /\ c1' \in {Frame!Raised(k), Frame!Without(k)}
    BY <1>3, <1>4 DEF Frame!Open, Frame!Close, Frame!Rise
  <2>4. Once(c1')  BY <2>1, <2>3
  <2>. QED BY <1>1, <2>2, <2>3, <2>4 DEF WindowsTypes, Once
<1>5. ASSUME NEW k \in Key, Frame!Submit(k)  PROVE WindowsTypes'
  BY <1>1, <1>5 DEF Frame!Submit, Frame!layout, WindowsTypes, Once
<1>6. ASSUME NEW k \in Key, Frame!Answered(k)  PROVE WindowsTypes'
  <2>1. c5' = c5 /\ c7' \subseteq Key  BY <1>1, <1>6 DEF Frame!Answered
  <2>2. CASE c1 = <<>>
    BY <1>1, <1>6, <2>1, <2>2 DEF Frame!Answered, Frame!layout, WindowsTypes, Once
  <2>3. CASE c1 # <<>>
    <3>1. c1' = Frame!Front(c1) /\ c8' \subseteq Key  BY <1>3, <1>6, <2>3 DEF Frame!Answered
    <3>2. Once(c1')  BY <1>2, <2>3, <3>1
    <3>. QED BY <1>1, <2>1, <3>1, <3>2 DEF WindowsTypes, Once
  <2>. QED BY <2>2, <2>3
<1>7. ASSUME NEW k \in Key, Frame!ToggleLayout(k)  PROVE WindowsTypes'
  <2>1. c1' = <<k>> /\ c8' \subseteq Key /\ UNCHANGED <<c5, c7>>
    BY <1>3, <1>7 DEF Frame!ToggleLayout
  <2>2. Once(c1')  BY <1>2, <2>1
  <2>. QED BY <1>1, <2>1, <2>2 DEF WindowsTypes, Once
<1>8. ASSUME NEW k \in Key, Frame!ToggleMaximize(k)  PROVE WindowsTypes'
  BY <1>1, <1>8 DEF Frame!ToggleMaximize, WindowsTypes, Once
<1>9. ASSUME NEW k \in Key, NEW side, NEW x, Frame!Press(k, side, x)  PROVE WindowsTypes'
  <2>1. c1' = Frame!Raised(k) /\ c8' \subseteq Key /\ UNCHANGED <<c5, c7>>
    BY <1>3, <1>9 DEF Frame!Press
  <2>2. Once(c1')  BY <1>2, <2>1 DEF Frame!Raised
  <2>. QED BY <1>1, <2>1, <2>2 DEF WindowsTypes, Once
<1>10. ASSUME NEW v \in Viewports, Frame!ViewportChanges(v)  PROVE WindowsTypes'
  BY <1>1, <1>10 DEF Frame!ViewportChanges, WindowsTypes, Once
<1>11. ASSUME NEW x, Frame!Move(x)  PROVE WindowsTypes'
  <2>1. c6.key \in Key  BY <1>11 DEF Frame!WindowsInv, Frame!Gestures, Frame!Move
  <2>2. c5' \subseteq Key /\ c8' \subseteq Key /\ UNCHANGED <<c1, c7>>
    BY <1>1, <1>11, <2>1 DEF Frame!Move
  <2>. QED BY <1>1, <2>2 DEF WindowsTypes, Once
<1>12. ASSUME Frame!Release  PROVE WindowsTypes'
  BY <1>1, <1>12 DEF Frame!Release, Frame!layout, WindowsTypes, Once
<1>. QED BY <1>4, <1>5, <1>6, <1>7, <1>8, <1>9, <1>10, <1>11, <1>12 DEF Frame!Next

-----------------------------------------------------------------------------
(* The canvas *)

\* The place among the combos is that of a widget.
LEMMA PlaceIsAWidget ==
  ASSUME NEW L \in Nat, NEW F \in SUBSET (1..L), NEW u \in F
  PROVE  Cardinality({i \in F : i <= u}) \in 1..L
<1>. DEFINE U == {i \in F : i <= u}
<1>1. u \in 1..L /\ u \in U /\ U \subseteq 1..L
  <2>1. u \in 1..L /\ u \in Nat  OBVIOUS
  <2>2. u <= u  BY <2>1
  <2>. QED BY <2>1, <2>2, Zenon
<1>. HIDE DEF U
<1>2. IsFiniteSet(1..L) /\ Cardinality(1..L) = L  BY FS_Interval
<1>3. IsFiniteSet(U) /\ Cardinality(U) <= L  BY <1>1, <1>2, FS_Subset
<1>4. Cardinality(U) \in Nat /\ Cardinality(U) # 0  BY <1>1, <1>3, FS_CardinalityType, FS_EmptySet
<1>. QED BY <1>3, <1>4 DEF U

LEMMA DropIndexIsAWidget ==
  ASSUME Canvas!DropAssumption, Canvas!CanvasInv, NEW n \in DOMAIN c1, NEW p \in Path, NEW under,
         Canvas!DropIndex(n, p, under) # 0
  PROVE  Canvas!DropIndex(n, p, under) \in Canvas!Places(c1[n].kind)
<1>. DEFINE found == Canvas!Matching(n, p)
            W == Widgets[c1[n].kind]
<1>1. c1[n].kind \in NodeKind
  <2>. DEFINE Item == [kind : NodeKind,
                       held : UNION {[Canvas!Places(k) -> Path \cup {Nothing}] : k \in NodeKind}]
  <2>1. c1 \in Seq(Item)  BY DEF Canvas!CanvasInv
  <2>. HIDE DEF Item
  <2>2. c1[n] \in Item  BY <2>1
  <2>. QED BY <2>2 DEF Item
<1>2. W \in Seq(SUBSET Path)  BY <1>1 DEF Canvas!DropAssumption
<1>3. Len(W) \in Nat /\ Canvas!Places(c1[n].kind) = 1..Len(W)  BY <1>2 DEF Canvas!Places
<1>4. found \subseteq 1..Len(W)  BY <1>3 DEF Canvas!Matching
<1>5. Canvas!Cardinality({i \in found : i <= under}) = Cardinality({i \in found : i <= under})
  BY DEF Canvas!Cardinality, Cardinality
<1>. HIDE DEF found, W
<1>6. found # {}  BY DEF Canvas!DropIndex, found
<1>7. CASE ~Canvas!Counted(n, p)
  <2>1. Canvas!DropIndex(n, p, under) = CHOOSE i \in found : TRUE
    BY <1>6, <1>7 DEF Canvas!DropIndex, found
  <2>. QED BY <1>3, <1>4, <1>6, <2>1
<1>8. CASE Canvas!Counted(n, p)
  <2>1. /\ under \in found
        /\ Canvas!DropIndex(n, p, under) = Canvas!Cardinality({i \in found : i <= under})
    BY <1>6, <1>8 DEF Canvas!DropIndex, found
  <2>. QED BY <1>3, <1>4, <1>5, <2>1, PlaceIsAWidget
<1>. QED BY <1>7, <1>8

\* What CanvasInv leaves open of the types of the canvas.
CanvasTypes ==
  /\ Len(c1) <= MaxNodes /\ c2 \in 0..MaxNodes
  /\ \A o \in c3 : o.node \in DOMAIN c1 /\ o.index \in Canvas!Places(c1[o.node].kind)

LEMMA CanvasTyped ==
  ASSUME Canvas!CanvasInv, CanvasTypes
  PROVE  Canvas!TypeOK
<1>. DEFINE Held == UNION {[Canvas!Places(k) -> Path \cup {Nothing}] : k \in NodeKind}
            Item == [kind : NodeKind, held : Held]
<1>1. c1 \in Seq(Item) /\ \A n \in DOMAIN c1 : DOMAIN c1[n].held = Canvas!Places(c1[n].kind)
  BY DEF Canvas!CanvasInv
<1>. HIDE DEF Item
<1>2. ASSUME NEW n \in DOMAIN c1
      PROVE  /\ c1[n].kind \in NodeKind
             /\ c1[n].held \in [Canvas!Places(c1[n].kind) -> Path \cup {Nothing}]
  <2>1. c1[n] \in Item  BY <1>1
  <2>2. c1[n].kind \in NodeKind /\ c1[n].held \in Held  BY <2>1 DEF Item
  <2>3. PICK k \in NodeKind : c1[n].held \in [Canvas!Places(k) -> Path \cup {Nothing}]  BY <2>2
  <2>4. Canvas!Places(k) = Canvas!Places(c1[n].kind)  BY <1>1, <2>3
  <2>. QED BY <2>2, <2>3, <2>4
<1>. QED BY <1>2 DEF Canvas!TypeOK, CanvasTypes, Canvas!Range

LEMMA CanvasTypesStart ==
  ASSUME Canvas!DropAssumption, Canvas!Init
  PROVE  CanvasTypes
<1>1. PICK kind \in NodeKind : c1 = <<Canvas!Fresh(kind)>> /\ c2 = 0 /\ c3 = {}
  BY DEF Canvas!Init
<1>2. Len(c1) = 1  BY <1>1
<1>. QED BY <1>1, <1>2 DEF CanvasTypes, Canvas!DropAssumption

LEMMA AddedTyped ==
  ASSUME Canvas!DropAssumption, Canvas!CanvasInv, CanvasTypes, Len(c1) < MaxNodes,
         NEW kind \in NodeKind, NEW index \in Canvas!Places(kind), NEW p \in Path,
         Canvas!Added(kind, index, p)
  PROVE  CanvasTypes'
<1>. DEFINE node == [Canvas!Fresh(kind) EXCEPT !.held[index] = p]
            new  == Len(c1) + 1
<1>1. \E S : c1 \in Seq(S)  BY DEF Canvas!CanvasInv
<1>2. Len(c1) \in Nat /\ DOMAIN c1 = 1..Len(c1)  BY <1>1
<1>3. /\ c1' = Append(c1, node) /\ c2' = Len(c1')
      /\ c3' = c3 \cup {[node |-> Len(c1'), index |-> index]}
  BY DEF Canvas!Added
<1>4. node.kind = kind  BY DEF Canvas!Fresh
<1>. HIDE DEF node
<1>5. /\ Len(c1') = new /\ DOMAIN c1' = 1..new /\ c1'[new] = node
      /\ \A m \in 1..Len(c1) : c1'[m] = c1[m]
  BY <1>1, <1>3
<1>6. new <= MaxNodes /\ new \in 0..MaxNodes /\ new \in 1..new /\ \A m \in 1..Len(c1) : m \in 1..new
  BY <1>2 DEF Canvas!DropAssumption
<1>. HIDE DEF new
<1>7. ASSUME NEW o \in c3'
      PROVE  o.node \in DOMAIN c1' /\ o.index \in Canvas!Places(c1'[o.node].kind)
  <2>1. CASE o \in c3  BY <1>2, <1>5, <1>6, <2>1 DEF CanvasTypes
  <2>2. CASE o = [node |-> Len(c1'), index |-> index]  BY <1>4, <1>5, <1>6, <2>2
  <2>. QED BY <1>3, <2>1, <2>2
<1>. QED BY <1>3, <1>5, <1>6, <1>7 DEF CanvasTypes, Canvas!Places

LEMMA CanvasTypesStep ==
  ASSUME Canvas!DropAssumption, Canvas!CanvasInv, CanvasTypes, Canvas!Next
  PROVE  CanvasTypes'
<1>1. ASSUME NEW p \in Path, Canvas!AddModelNode(p)  PROVE CanvasTypes'
  <2>. DEFINE kind == ClickKind[PathType[p]]
              combos == IF kind = Nothing THEN {}
                        ELSE {i \in Canvas!Places(kind) : Widgets[kind][i] # {}}
              first == CHOOSE i \in combos : \A j \in combos : i <= j
  <2>1. /\ kind \in NodeKind /\ combos # {} /\ Len(c1) < MaxNodes
        /\ Canvas!Added(kind, first, p)
    BY <1>1 DEF Canvas!AddModelNode, Canvas!DropAssumption
  <2>2. Canvas!Places(kind) \subseteq Nat
    <3>1. Widgets[kind] \in Seq(SUBSET Path)  BY <2>1 DEF Canvas!DropAssumption
    <3>. QED BY <3>1 DEF Canvas!Places
  <2>3. combos \subseteq Canvas!Places(kind)  OBVIOUS
  <2>. HIDE DEF combos, kind
  <2>4. \E i \in combos : \A j \in combos : i <= j  BY <2>1, <2>2, <2>3, Least
  <2>5. first \in Canvas!Places(kind)  BY <2>3, <2>4
  <2>. HIDE DEF first
  <2>. QED BY <2>1, <2>5, AddedTyped
<1>2. ASSUME NEW p \in Path, NEW n \in {0} \cup DOMAIN c1, NEW under, Canvas!Drop(p, n, under)
      PROVE  CanvasTypes'
  <2>. DEFINE index == IF n = 0 THEN 0 ELSE Canvas!DropIndex(n, p, under)
              kind == DropKind[PathType[p]]
  <2>1. CASE index = 0
    <3>1. kind # Nothing /\ Len(c1) < MaxNodes /\ Canvas!Added(kind, 1, p)
      BY <1>2, <2>1 DEF Canvas!Drop
    <3>2. kind \in NodeKind /\ Widgets[kind] # <<>> /\ Widgets[kind] \in Seq(SUBSET Path)
      BY <3>1 DEF Canvas!DropAssumption
    <3>. HIDE DEF kind
    <3>3. 1 \in Canvas!Places(kind)
      <4>1. Len(Widgets[kind]) \in Nat /\ Len(Widgets[kind]) # 0  BY <3>2, EmptySeq
      <4>. QED BY <3>2, <4>1 DEF Canvas!Places
    <3>. QED BY <3>1, <3>2, <3>3, AddedTyped
  <2>2. CASE index # 0
    <3>1. n \in DOMAIN c1 /\ index = Canvas!DropIndex(n, p, under)  BY <2>2
    <3>2. /\ c1' = [c1 EXCEPT ![n].held[index] = p] /\ c2' = n
          /\ c3' = IF Canvas!Counted(n, p) THEN c3 \cup {[node |-> n, index |-> index]} ELSE c3
      BY <1>2, <2>2 DEF Canvas!Drop
    <3>3. index \in Canvas!Places(c1[n].kind)  BY <2>2, <3>1, DropIndexIsAWidget
    <3>. HIDE DEF index
    <3>. DEFINE Item == [kind : NodeKind,
                         held : UNION {[Canvas!Places(k) -> Path \cup {Nothing}] : k \in NodeKind}]
    <3>4. c1 \in Seq(Item)  BY DEF Canvas!CanvasInv
    <3>. HIDE DEF Item
    <3>5. c1[n] \in Item /\ DOMAIN c1 = 1..Len(c1) /\ Len(c1) \in Nat  BY <3>1, <3>4
    <3>6. [c1[n] EXCEPT !.held[index] = p].kind = c1[n].kind  BY <3>5 DEF Item
    <3>7. /\ DOMAIN c1' = DOMAIN c1 /\ Len(c1') = Len(c1)
          /\ \A m \in DOMAIN c1 : c1'[m].kind = c1[m].kind
      <4>. DEFINE node == [c1[n] EXCEPT !.held[index] = p]
      <4>1. c1' = [c1 EXCEPT ![n] = node]  BY <3>1, <3>2
      <4>2. node.kind = c1[n].kind  BY <3>6
      <4>. HIDE DEF node
      <4>3. DOMAIN c1' = DOMAIN c1  BY <4>1
      <4>4. Len(c1') = Len(c1)  BY <3>4, <3>5, <4>1, <4>3
      <4>. QED BY <3>1, <4>1, <4>2, <4>3, <4>4
    <3>8. c2' \in 0..MaxNodes
      <4>1. n \in 1..Len(c1) /\ Len(c1) <= MaxNodes /\ MaxNodes \in Nat
        BY <3>1, <3>5 DEF CanvasTypes, Canvas!DropAssumption
      <4>. QED BY <3>2, <3>5, <4>1
    <3>9. ASSUME NEW o \in c3'
          PROVE  o.node \in DOMAIN c1' /\ o.index \in Canvas!Places(c1'[o.node].kind)
      <4>1. CASE o \in c3  BY <3>7, <4>1 DEF CanvasTypes
      <4>2. CASE o = [node |-> n, index |-> index]  BY <3>1, <3>3, <3>7, <4>2
      <4>. QED BY <3>2, <4>1, <4>2
    <3>. QED BY <3>7, <3>8, <3>9 DEF CanvasTypes, Canvas!Places
  <2>. QED BY <2>1, <2>2
<1>3. PICK p \in Path :
        \/ Canvas!AddModelNode(p) \/ Canvas!Drop(p, 0, 0)
        \/ \E n \in DOMAIN c1 : \E under \in {0} \cup Canvas!Places(c1[n].kind) :
             Canvas!Drop(p, n, under)
  BY DEF Canvas!Next
<1>. QED BY <1>1, <1>2, <1>3

-----------------------------------------------------------------------------
(* The questions about ZipNN *)

\* What ConfirmInv leaves open of the types of the questions.
ConfirmTypes ==
  /\ c2 <= MaxAsked /\ c4 \subseteq [model : Plain, epoch : Nat]
  /\ c5 \in Ask!Items \cup {Nothing} /\ c6 \in BOOLEAN

LEMMA ConfirmTyped ==
  ASSUME Ask!ConfirmAssumption, Ask!ConfirmInv, ConfirmTypes
  PROVE  Ask!TypeOK
<1>1. c2 \in Nat /\ MaxAsked \in Nat /\ c2 <= MaxAsked
  BY DEF Ask!ConfirmInv, Ask!ConfirmAssumption, ConfirmTypes
<1>2. 1..c2 \subseteq 1..MaxAsked /\ c2 \in 0..MaxAsked  BY <1>1
<1>3. ASSUME NEW i \in c4  PROVE i \in [model : Plain, epoch : 1..MaxAsked]
  <2>1. i \in [model : Plain, epoch : Nat]  BY DEF ConfirmTypes
  <2>2. i.epoch \in 1..MaxAsked  BY <1>2 DEF Ask!ConfirmInv
  <2>. QED BY <2>1, <2>2
<1>. QED BY <1>2, <1>3 DEF Ask!TypeOK, Ask!ConfirmInv, ConfirmTypes

LEMMA ConfirmTypesStart ==
  ASSUME Ask!ConfirmAssumption, Ask!Init
  PROVE  ConfirmTypes
<1>1. c2 = 0 /\ c4 = {} /\ c5 = Nothing /\ c6 = FALSE  BY DEF Ask!Init
<1>2. 0 <= MaxAsked  BY DEF Ask!ConfirmAssumption
<1>. QED BY <1>1, <1>2 DEF ConfirmTypes

LEMMA ConfirmTypesStep ==
  ASSUME Ask!ConfirmAssumption, Ask!ConfirmInv, ConfirmTypes, Ask!Next
  PROVE  ConfirmTypes'
<1>1. c2 \in Nat /\ MaxAsked \in Nat  BY DEF Ask!ConfirmInv, Ask!ConfirmAssumption
<1>2. c1 # Nothing => c1.of \in Ask!Items  BY DEF Ask!ConfirmInv
<1>3. ASSUME NEW m \in Ask!Items, Ask!ConfirmSingleZipnn(m)  PROVE ConfirmTypes'
  <2>1. c2 < MaxAsked /\ c2' = c2 + 1 /\ c6' = FALSE /\ c5' = c5
        /\ c4' = c4 \cup {[model |-> m, epoch |-> c2'] : p \in {m} \cap Plain}
    BY <1>3 DEF Ask!ConfirmSingleZipnn
  <2>2. c2' \in Nat /\ c2' <= MaxAsked  BY <1>1, <2>1
  <2>3. c4' \subseteq [model : Plain, epoch : Nat]
    <3>1. c4 \subseteq [model : Plain, epoch : Nat]  BY DEF ConfirmTypes
    <3>2. ASSUME NEW p \in {m} \cap Plain
          PROVE  [model |-> m, epoch |-> c2'] \in [model : Plain, epoch : Nat]
      BY <2>2
    <3>. QED BY <2>1, <3>1, <3>2
  <2>. QED BY <2>1, <2>2, <2>3 DEF ConfirmTypes, Ask!Items, Ask!Models
<1>4. ASSUME NEW i \in Ask!Items, Ask!RequestOther(i)  PROVE ConfirmTypes'
  BY <1>4 DEF Ask!RequestOther, ConfirmTypes, Ask!Items, Ask!Models
<1>5. ASSUME NEW i \in Ask!Items, Ask!Displace(i)  PROVE ConfirmTypes'
  BY <1>5 DEF Ask!Displace, ConfirmTypes, Ask!Items, Ask!Models
<1>6. ASSUME NEW i \in c4, Ask!InspectAnswered(i)  PROVE ConfirmTypes'
  BY <1>6 DEF Ask!InspectAnswered, ConfirmTypes, Ask!Items, Ask!Models
<1>7. CASE Ask!Accept
  BY <1>2, <1>7 DEF Ask!Accept, ConfirmTypes, Ask!Items, Ask!Models
<1>8. CASE Ask!Reject \/ Ask!TaskOver
  BY <1>8 DEF Ask!Reject, Ask!TaskOver, ConfirmTypes, Ask!Items, Ask!Models
<1>. QED BY <1>3, <1>4, <1>5, <1>6, <1>7, <1>8 DEF Ask!Next

-----------------------------------------------------------------------------
(* The bar of a selection, and the window of a delta *)

\* A tick and the kind it has.
LEMMA TicksStay ==
  ASSUME NEW n, NEW kind
  PROVE  DOMAIN Batches!Toggled(c2, n, kind) \subseteq DOMAIN c2 \cup {n}
BY DEF Batches!Toggled, Batches!With, Batches!Restrict

LEMMA BatchTypesStart == Batches!BarAssumption /\ Batches!Init => Batches!TypeOK
<1>1. DOMAIN <<>> = {}  OBVIOUS
<1>. QED BY <1>1 DEF Batches!Init, Batches!TypeOK, Batches!Range

LEMMA BatchTypesStep ==
  ASSUME Batches!BarAssumption, Batches!BarInv', Batches!TypeOK, Batches!Next
  PROVE  Batches!TypeOK'
<1>. DEFINE Asked(q) ==
              q # Nothing =>
                /\ DOMAIN q.modes \subseteq Directory
                /\ Batches!Range(q.modes) \subseteq Batches!Mode
                /\ q.says \in Batches!Mode /\ q.fresh \in BOOLEAN
            Open(w) == w = Nothing \/ w \in [pair : Loose \X Loose, base : 1..2]
<1>1. /\ c1 \in Batches!Listings /\ DOMAIN c2 \subseteq Batches!Entry /\ Asked(c3) /\ Open(c4)
  BY DEF Batches!TypeOK
<1>2. ASSUME c1' \in Batches!Listings, DOMAIN c2' \subseteq Batches!Entry, Asked(c3'), Open(c4')
      PROVE  Batches!TypeOK'
  BY <1>2 DEF Batches!TypeOK, Batches!BarInv, Batches!Listings, Batches!Entry, Batches!Range,
              Batches!Mode
<1>3. Asked(Nothing) /\ Open(Nothing) /\ DOMAIN <<>> = {}  OBVIOUS
<1>4. ASSUME NEW folders \in SUBSET Directory, NEW fresh \in BOOLEAN, Batches!Ask(folders, fresh)
      PROVE  Batches!TypeOK'
  <2>. DEFINE modes == [at \in folders |-> Batches!ModeFor(at, c1)]
  <2>1. \A at : Batches!ModeFor(at, c1) \in Batches!Mode  BY DEF Batches!ModeFor, Batches!Mode
  <2>2. DOMAIN modes \subseteq Directory /\ Batches!Range(modes) \subseteq Batches!Mode
    BY <2>1 DEF Batches!Range
  <2>3. Batches!Says(folders, c1) \in Batches!Mode  BY DEF Batches!Says, Batches!Mode
  <2>4. c3' = [modes |-> modes, says |-> Batches!Says(folders, c1), fresh |-> fresh]
        /\ UNCHANGED <<c1, c2, c4>>
    BY <1>4 DEF Batches!Ask
  <2>. HIDE DEF modes
  <2>5. Asked(c3')  BY <2>2, <2>3, <2>4
  <2>. HIDE DEF Asked, Open
  <2>. QED BY <1>1, <1>2, <2>4, <2>5
<1>. HIDE DEF Asked
<1>5. ASSUME NEW n \in Batches!Entry, Batches!Toggle(n)  PROVE Batches!TypeOK'
  <2>1. PICK kind : c2' = Batches!Toggled(c2, n, kind)  BY <1>5 DEF Batches!Toggle
  <2>2. UNCHANGED <<c1, c3, c4>>  BY <1>5 DEF Batches!Toggle
  <2>3. DOMAIN c2' \subseteq Batches!Entry  BY <1>1, <2>1, TicksStay
  <2>. HIDE DEF Open
  <2>. QED BY <1>1, <1>2, <2>2, <2>3
<1>6. CASE Batches!Clear \/ Batches!Rescan
  <2>. HIDE DEF Open
  <2>1. c1' \in Batches!Listings /\ DOMAIN c2' \subseteq Batches!Entry /\ UNCHANGED <<c3, c4>>
    BY <1>1, <1>3, <1>6 DEF Batches!Clear, Batches!Rescan
  <2>. QED BY <1>1, <1>2, <2>1
<1>7. CASE Batches!RequestBatch
  <2>1. Batches!SelectedFolders \in SUBSET Directory  BY DEF Batches!SelectedFolders
  <2>2. PICK fresh \in BOOLEAN :
          fresh = (\A at \in Batches!SelectedFolders : c2[at] = Batches!KindOf(at))
    OBVIOUS
  <2>3. Batches!Ask(Batches!SelectedFolders, fresh)  BY <1>7, <2>2 DEF Batches!RequestBatch
  <2>. QED BY <1>4, <2>1, <2>3
<1>8. ASSUME NEW at \in Directory, Batches!RequestZipnn(at)  PROVE Batches!TypeOK'
  BY <1>4, <1>8 DEF Batches!RequestZipnn
<1>9. CASE Batches!Accept \/ Batches!Reject
  <2>. HIDE DEF Open
  <2>1. c3' = Nothing /\ UNCHANGED <<c1, c2, c4>>
    BY <1>9 DEF Batches!Accept, Batches!Reject
  <2>. QED BY <1>1, <1>2, <1>3, <2>1
<1>10. ASSUME Open(c4'), UNCHANGED <<c1, c2, c3>>  PROVE Batches!TypeOK'
  <2>. HIDE DEF Open
  <2>. QED BY <1>1, <1>2, <1>10
<1>11. CASE Batches!OpenDelta
  <2>1. PICK p \in Batches!DeltaPair :
          c4' = [pair |-> p, base |-> IF c4 = Nothing THEN 1 ELSE c4.base]
    BY <1>11 DEF Batches!OpenDelta
  <2>2. p \in Loose \X Loose  BY DEF Batches!DeltaPair
  <2>3. (IF c4 = Nothing THEN 1 ELSE c4.base) \in 1..2  BY <1>1
  <2>4. c4' \in [pair : Loose \X Loose, base : 1..2]  BY <2>1, <2>2, <2>3
  <2>. QED BY <1>10, <1>11, <2>4 DEF Batches!OpenDelta
<1>12. ASSUME NEW i \in 1..2, Batches!PickBase(i)  PROVE Batches!TypeOK'
  <2>1. c4 # Nothing /\ c4' = [c4 EXCEPT !.base = i] /\ UNCHANGED <<c1, c2, c3>>
    BY <1>12 DEF Batches!PickBase
  <2>2. c4' \in [pair : Loose \X Loose, base : 1..2]  BY <1>1, <2>1
  <2>. QED BY <1>10, <2>1, <2>2
<1>13. CASE Batches!Submit \/ Batches!CloseDelta
  BY <1>3, <1>10, <1>13 DEF Batches!Submit, Batches!CloseDelta
<1>. QED BY <1>4, <1>5, <1>6, <1>7, <1>8, <1>9, <1>11, <1>12, <1>13 DEF Batches!Next

-----------------------------------------------------------------------------
(* The uploads to a hub and their wizard *)

\* What HubInv leaves open of the types of the uploads to a hub.
HubTypes == c6 \subseteq Bar!HubUploads /\ {c7, c8} \subseteq BOOLEAN

LEMMA HubTyped ==
  ASSUME Bar!HubInv, HubTypes
  PROVE  Bar!TypeOK
BY DEF Bar!HubInv, HubTypes, Bar!TypeOK, Bar!Events

LEMMA HubTypesStart == Bar!Init => HubTypes
BY DEF Bar!Init, HubTypes

LEMMA HubTypesStep ==
  ASSUME Bar!HubInv, HubTypes, Bar!Next
  PROVE  HubTypes'
<1>1. c6 \subseteq Bar!HubUploads /\ c7 \in BOOLEAN /\ c8 \in BOOLEAN  BY DEF HubTypes
<1>2. ASSUME c6' \subseteq Bar!HubUploads, c7' \in BOOLEAN, c8' \in BOOLEAN  PROVE HubTypes'
  BY <1>2 DEF HubTypes, Bar!HubUploads
<1>3. CASE Bar!OnEvent
  <2>. DEFINE e == Head(c3)
  <2>1. e.task \in Bar!HubUploads
    <3>1. c3 \in Seq(Bar!Events) /\ c3 # <<>>  BY <1>3 DEF Bar!HubInv, Bar!OnEvent
    <3>. HIDE DEF Bar!Events
    <3>2. e \in Bar!Events  BY <3>1
    <3>. QED BY <3>2 DEF Bar!Events
  <2>. HIDE DEF e
  <2>2. c6' \in {c6, c6 \cup {e.task}} /\ c8' = c8 /\ c7' \in BOOLEAN
    BY <1>1, <1>3 DEF Bar!OnEvent, Bar!barVars, e
  <2>. QED BY <1>1, <1>2, <2>1, <2>2
<1>4. ASSUME NEW t, \/ Bar!Start(t) \/ Bar!Progress(t) \/ Bar!Begin(t) \/ Bar!Answered(t)
                    \/ Bar!Rejected(t)
      PROVE  HubTypes'
  BY <1>1, <1>2, <1>4
     DEF Bar!Start, Bar!Progress, Bar!Begin, Bar!Answered, Bar!Rejected, Bar!barVars
<1>5. ASSUME NEW t, NEW sorts, Bar!Ends(t, sorts)  PROVE HubTypes'
  BY <1>1, <1>2, <1>5 DEF Bar!Ends, Bar!barVars
<1>6. ASSUME NEW t, Bar!FailsSilently(t) \/ Bar!Disconnect  PROVE HubTypes'
  BY <1>1, <1>2, <1>6 DEF Bar!FailsSilently, Bar!Disconnect
<1>. QED BY <1>3, <1>4, <1>5, <1>6 DEF Bar!Next

LEMMA GuideTypesStart == Guide!WizardAssumption /\ Guide!Init => Guide!TypeOK
<1>. SUFFICES ASSUME Guide!WizardAssumption, Guide!Init  PROVE Guide!TypeOK
  OBVIOUS
<1>1. 0 \in 0..MaxPrefills  BY DEF Guide!WizardAssumption
<1>2. FirstHub \in Hubs  BY DEF Guide!WizardAssumption
<1>. QED BY <1>1, <1>2 DEF Guide!Init, Guide!TypeOK

LEMMA GuideTypesStep ==
  ASSUME Guide!WizardAssumption, Guide!TypeOK, Guide!Next
  PROVE  Guide!TypeOK'
<1>. USE DEF Guide!TypeOK, Guide!pickVars
<1>1. MaxPrefills \in Nat /\ c9 \in Int /\ CardWare \in Wares  BY DEF Guide!WizardAssumption
<1>2. ASSUME NEW h \in Hubs, Guide!ChooseHub(h)  PROVE Guide!TypeOK'
  <2>1. c9' \in 0..MaxPrefills  BY <1>1, <1>2 DEF Guide!ChooseHub
  <2>2. c2' \in {"platform", "type", "model", "upload"}  BY <1>2 DEF Guide!ChooseHub
  <2>3. c7' \in Hubs \cup {Nobody} /\ c8' \subseteq Hubs /\ c6' \in Hubs
    BY <1>2 DEF Guide!ChooseHub
  <2>. QED BY <1>2, <2>1, <2>2, <2>3 DEF Guide!ChooseHub
<1>3. ASSUME NEW hit \in BOOLEAN, Guide!Prefilled(hit)  PROVE Guide!TypeOK'
  <2>1. c9' \in 0..MaxPrefills  BY <1>1, <1>3 DEF Guide!Prefilled
  <2>. QED BY <1>1, <1>3, <2>1 DEF Guide!Prefilled, Guide!Selects
<1>4. ASSUME NEW h \in Hubs, NEW name \in Hubs \cup {Nobody}, Guide!WhoamiAnswered(h, name)
      PROVE  Guide!TypeOK'
  BY <1>4 DEF Guide!WhoamiAnswered
<1>5. CASE Guide!PickType \/ Guide!BackToPlatform \/ Guide!Back
  BY <1>5 DEF Guide!PickType, Guide!BackToPlatform, Guide!Back
<1>6. ASSUME NEW m \in Wares, Guide!PickModel(m) \/ Guide!TypePath(m)  PROVE Guide!TypeOK'
  BY <1>6 DEF Guide!PickModel, Guide!TypePath, Guide!Selects
<1>7. ASSUME NEW s \in {"platform", "type", "model"}, Guide!Tab(s)  PROVE Guide!TypeOK'
  BY <1>7 DEF Guide!Tab
<1>. QED BY <1>2, <1>3, <1>4, <1>5, <1>6, <1>7 DEF Guide!Next

-----------------------------------------------------------------------------
(* The plan of a download, and the form *)

LEMMA PlanTypesStart == Plan!PlanAssumption /\ Plan!Init => Plan!TypeOK
<1>. SUFFICES ASSUME Plan!Init  PROVE Plan!TypeOK
  OBVIOUS
<1>1. DOMAIN <<>> = {} /\ <<>> \in [{} -> Plan!TypeNames]  OBVIOUS
<1>2. c1 \in UNION {[versions -> Plan!TypeNames] : versions \in SUBSET Versions}
  <2>1. {} \in SUBSET Versions  OBVIOUS
  <2>. QED BY <1>1, <2>1 DEF Plan!Init
<1>3. c4 \in Seq(Plan!TypeNames) /\ None \in Plan!TypeNames  BY DEF Plan!Init, Plan!TypeNames
<1>. QED BY <1>2, <1>3 DEF Plan!Init, Plan!TypeOK

LEMMA PlanTypesStep ==
  ASSUME Plan!PlanAssumption, Plan!TypeOK, Plan!Next
  PROVE  Plan!TypeOK'
<1>. DEFINE Data == UNION {[versions -> Plan!TypeNames] : versions \in SUBSET Versions}
            Hubs1(x) == x = None \/ x \subseteq Tokens
<1>1. /\ c1 \in Data /\ c2 \in DOMAIN c1 \cup {None} /\ c3 \in Plan!TypeNames
      /\ c4 \in Seq(Plan!TypeNames) /\ Hubs1(c5) /\ Hubs1(c6) /\ c7 \in BOOLEAN
  BY DEF Plan!TypeOK
<1>2. ASSUME /\ c1' \in Data /\ c2' \in DOMAIN c1' \cup {None} /\ c3' \in Plan!TypeNames
             /\ c4' \in Seq(Plan!TypeNames) /\ Hubs1(c5') /\ Hubs1(c6') /\ c7' \in BOOLEAN
      PROVE  Plan!TypeOK'
  BY <1>2 DEF Plan!TypeOK, Plan!TypeNames
<1>3. /\ Route \in Plan!TypeNames /\ None \in Plan!TypeNames
      /\ \A v \in Versions : TypeOf[v] \in Plan!TypeNames
  BY DEF Plan!TypeNames
<1>4. PICK versions1 \in SUBSET Versions : c1 \in [versions1 -> Plan!TypeNames]  BY <1>1
<1>5. ASSUME NEW type \in Plan!TypeNames, Plan!Watched(type)
      PROVE  c3' \in Plan!TypeNames /\ c4' \in Seq(Plan!TypeNames) /\ c7' \in BOOLEAN
  BY <1>1, <1>3, <1>5 DEF Plan!Watched
<1>. HIDE DEF Hubs1
<1>6. ASSUME NEW versions \in SUBSET Versions, Plan!Resolved(versions)  PROVE Plan!TypeOK'
  <2>1. c1' = [v \in versions |-> TypeOf[v]] /\ UNCHANGED <<c5, c6>>
    BY <1>6 DEF Plan!Resolved
  <2>2. c1' \in [versions -> Plan!TypeNames] /\ DOMAIN c1' = versions  BY <1>3, <2>1
  <2>3. c1' \in Data  BY <2>2
  <2>4. PICK type \in Plan!TypeNames : Plan!Watched(type) /\ c2' \in versions \cup {None}
    BY <1>3, <1>6 DEF Plan!Resolved
  <2>5. c3' \in Plan!TypeNames /\ c4' \in Seq(Plan!TypeNames) /\ c7' \in BOOLEAN
    BY <1>5, <2>4
  <2>. HIDE DEF Data
  <2>. QED BY <1>1, <1>2, <2>1, <2>2, <2>3, <2>4, <2>5
<1>7. ASSUME NEW v \in Versions, Plan!PickVersion(v)  PROVE Plan!TypeOK'
  <2>1. v \in DOMAIN c1 /\ c2' = v /\ Plan!Watched(c1[v]) /\ UNCHANGED <<c1, c5, c6>>
    BY <1>7 DEF Plan!PickVersion
  <2>2. c1[v] \in Plan!TypeNames  BY <1>4, <2>1
  <2>. HIDE DEF Data
  <2>. QED BY <1>1, <1>2, <1>5, <2>1, <2>2
<1>8. CASE Plan!PickRoutedFile
  <2>1. c2 \in DOMAIN c1 /\ c1' = [c1 EXCEPT ![c2] = Route] /\ c7' = TRUE
        /\ UNCHANGED <<c2, c3, c4, c5, c6>>
    BY <1>1, <1>8 DEF Plan!PickRoutedFile
  <2>2. c1' \in [versions1 -> Plan!TypeNames] /\ DOMAIN c1' = DOMAIN c1  BY <1>3, <1>4, <2>1
  <2>3. c1' \in Data  BY <2>2
  <2>. HIDE DEF Data
  <2>. QED BY <1>1, <1>2, <2>1, <2>2, <2>3
<1>9. ASSUME NEW i \in DOMAIN c4, Plan!Answered(i)  PROVE Plan!TypeOK'
  <2>. HIDE DEF Data
  <2>1. i \in 1..Len(c4) /\ c4[i] \in Plan!TypeNames  BY <1>1
  <2>2. c4' = Cut(c4, i) /\ UNCHANGED <<c1, c2, c5, c6, c7>>
    BY <1>9 DEF Plan!Answered, Cut
  <2>3. c4' \in Seq(Plan!TypeNames)  BY <1>1, <2>1, <2>2, OneRemoved
  <2>4. c3' \in Plan!TypeNames  BY <1>3, <1>9, <2>1 DEF Plan!Answered
  <2>. QED BY <1>1, <1>2, <2>2, <2>3, <2>4
<1>10. ASSUME NEW hubs \in SUBSET Tokens, Plan!AuthAnswered(hubs) \/ Plan!WhoamisAnswered(hubs)
       PROVE  Plan!TypeOK'
  <2>. HIDE DEF Data
  <2>1. Hubs1(c5') /\ Hubs1(c6') /\ UNCHANGED <<c1, c2, c3, c4, c7>>
    BY <1>1, <1>10 DEF Plan!AuthAnswered, Plan!WhoamisAnswered, Hubs1
  <2>. QED BY <1>1, <1>2, <2>1
<1>. QED BY <1>6, <1>7, <1>8, <1>9, <1>10 DEF Plan!Next

\* What FormInv leaves open of the types of the form.
FormTypes ==
  /\ c1 \in Phrases \cup Form!Urls \cup {Blank} /\ c7 \in Phrases \cup {Blank}
  /\ c11 = Blank \/ c11 \in [url : Form!Urls, type : Targets]
  /\ c12 \in Targets \cup {Blank} /\ c13 \in SubFolders \cup {Blank}
  /\ {c6, c14, c16} \subseteq BOOLEAN

LEMMA FormTyped ==
  ASSUME Form!FormInv, FormTypes
  PROVE  Form!TypeOK
BY DEF Form!FormInv, Form!Searched, Form!Edited, Form!Linked, FormTypes, Form!TypeOK

LEMMA FormTypesStart == Form!Init => FormTypes
BY DEF Form!Init, FormTypes

LEMMA FormTypesStep ==
  ASSUME Form!FormInv, FormTypes, Form!Next
  PROVE  FormTypes'
<1>. DEFINE Found(r) == r = Blank \/ r \in [url : Form!Urls, type : Targets]
            Types == Targets \cup {Blank}
            Fields == Phrases \cup Form!Urls \cup {Blank}
            Texts == Phrases \cup {Blank}
            Subs == SubFolders \cup {Blank}
<1>1. /\ c1 \in Fields /\ c7 \in Texts /\ Found(c11) /\ c12 \in Types /\ c13 \in Subs
      /\ c6 \in BOOLEAN /\ c14 \in BOOLEAN /\ c16 \in BOOLEAN
  BY DEF FormTypes
<1>2. ASSUME /\ c1' \in Fields /\ c7' \in Texts /\ Found(c11') /\ c12' \in Types /\ c13' \in Subs
             /\ c6' \in BOOLEAN /\ c14' \in BOOLEAN /\ c16' \in BOOLEAN
      PROVE  FormTypes'
  BY <1>2 DEF FormTypes, Form!Urls
<1>3. /\ Pages \subseteq Fields /\ Links \subseteq Form!Urls /\ Blank \in Types /\ Blank \in Subs
      /\ Blank \in Texts /\ Found(Blank) /\ Phrases \subseteq Texts
  BY DEF Form!Urls
<1>4. /\ \A s \in c4 : s.query \in Phrases
      /\ \A r \in c10 : r.url \in Pages
  BY DEF Form!FormInv, Form!Searched, Form!Linked
<1>5. ASSUME NEW url, NEW type \in Types, Form!ResolveUrl(url, type)
      PROVE  Found(c11') /\ c16' = FALSE
  <2>1. CASE url \in Links /\ type # Blank
    <3>1. c11' = [url |-> url, type |-> type] /\ c16' = FALSE
      BY <1>5, <2>1 DEF Form!ResolveUrl, Form!Edits
    <3>2. url \in Form!Urls /\ type \in Targets  BY <1>3, <2>1
    <3>. QED BY <3>1, <3>2
  <2>2. CASE ~(url \in Links /\ type # Blank)
    <3>1. c11' = c11 /\ c16' = FALSE  BY <1>5, <2>2 DEF Form!ResolveUrl
    <3>. QED BY <1>1, <3>1
  <2>. QED BY <2>1, <2>2
<1>. HIDE DEF Found
<1>6. ASSUME NEW text, Form!Retimed(text)  PROVE c7' \in Texts /\ c6' \in BOOLEAN
  BY <1>1, <1>3, <1>6 DEF Form!Retimed
<1>7. Form!Renewed => c12' \in Types /\ c13' \in Subs /\ c14' \in BOOLEAN
  BY <1>3 DEF Form!Renewed
<1>8. ASSUME NEW text \in Fields, Form!Type(text)  PROVE FormTypes'
  <2>. HIDE DEF Fields, Types, Texts, Subs
  <2>1. c1' = text /\ Form!Retimed(text) /\ Form!Renewed /\ c11' = c11 /\ c16' = c16
    BY <1>8 DEF Form!Type, Form!urlVars
  <2>. QED BY <1>1, <1>2, <1>6, <1>7, <2>1
<1>9. ASSUME NEW url \in Pages, Form!GoTo(url)  PROVE FormTypes'
  <2>. HIDE DEF Fields, Types, Texts, Subs
  <2>1. c1' = url /\ Form!Retimed(url) /\ Form!Renewed /\ Form!ResolveUrl(url, Blank)
    BY <1>9 DEF Form!GoTo
  <2>2. Found(c11') /\ c16' = FALSE  BY <1>3, <1>5, <2>1
  <2>. QED BY <1>2, <1>3, <1>6, <1>7, <2>1, <2>2
<1>10. ASSUME NEW query, Form!RunSearch(query), UNCHANGED <<c1, c7, c11, c12, c13, c14, c16>>
       PROVE  FormTypes'
  <2>1. c6' = TRUE  BY <1>10 DEF Form!RunSearch
  <2>. HIDE DEF Fields, Types, Texts, Subs
  <2>. QED BY <1>1, <1>2, <1>10, <2>1
<1>11. ASSUME NEW url \in Pages, Form!SelectResult(url) \/ Form!EnterName(url)
       PROVE  FormTypes'
  BY <1>9, <1>10, <1>11
     DEF Form!SelectResult, Form!EnterName, Form!urlVars, Form!fileVars
<1>12. CASE Form!EnterUrl
  <2>. HIDE DEF Fields, Types, Texts, Subs
  <2>1. Form!ResolveUrl(c1, c12) /\ UNCHANGED <<c1, c6, c7, c12, c13>>
        /\ c14' = (c14 \/ c1 \in Links)
    BY <1>12 DEF Form!EnterUrl, Form!nameVars
  <2>2. Found(c11') /\ c16' = FALSE  BY <1>1, <1>5, <2>1
  <2>3. c14' \in BOOLEAN  BY <2>1
  <2>. QED BY <1>1, <1>2, <2>1, <2>2, <2>3
<1>13. ASSUME NEW type \in Targets, Form!ChooseType(type)  PROVE FormTypes'
  <2>1. type \in Types  OBVIOUS
  <2>. HIDE DEF Fields, Types, Texts, Subs
  <2>2. Form!ResolveUrl(c1, type) /\ c12' = type /\ UNCHANGED <<c1, c6, c7, c13, c14>>
    BY <1>13 DEF Form!ChooseType, Form!nameVars
  <2>3. Found(c11') /\ c16' = FALSE  BY <1>5, <2>1, <2>2
  <2>. QED BY <1>1, <1>2, <2>1, <2>2, <2>3
<1>14. ASSUME NEW type \in Targets, Form!PickFile(type)  PROVE FormTypes'
  <2>1. c11 # Blank /\ c11' = [c11 EXCEPT !.type = type]
        /\ UNCHANGED <<c1, c6, c7, c12, c13, c14, c16>>
    BY <1>14 DEF Form!PickFile, Form!nameVars, Form!fileVars
  <2>2. Found(c11')  BY <1>1, <2>1 DEF Found
  <2>. HIDE DEF Fields, Types, Texts, Subs
  <2>. QED BY <1>1, <1>2, <2>1, <2>2
<1>15. ASSUME NEW folder \in Subs, Form!ChooseFolder(folder)  PROVE FormTypes'
  <2>1. c13' \in Subs /\ UNCHANGED <<c1, c6, c7, c11, c12, c14, c16>>
    BY <1>15 DEF Form!ChooseFolder, Form!nameVars, Form!urlVars
  <2>. HIDE DEF Fields, Types, Texts, Subs
  <2>. QED BY <1>1, <1>2, <2>1
<1>16. CASE Form!TimerFires
  <2>1. Form!RunSearch(c2) /\ UNCHANGED <<c1, c7, c11, c12, c13, c14, c16>>
    BY <1>16 DEF Form!TimerFires, Form!urlVars, Form!fileVars
  <2>. QED BY <1>10, <2>1
<1>17. ASSUME NEW s \in c4, NEW ok \in BOOLEAN, Form!SearchAnswered(s, ok)  PROVE FormTypes'
  <2>1. c6' \in BOOLEAN /\ c7' \in Texts /\ UNCHANGED <<c1, c11, c12, c13, c14, c16>>
    BY <1>1, <1>4, <1>17 DEF Form!SearchAnswered, Form!urlVars, Form!fileVars
  <2>. HIDE DEF Fields, Types, Texts, Subs
  <2>. QED BY <1>1, <1>2, <2>1
<1>18. ASSUME UNCHANGED <<c1, c6, c7, c11, c12, c13, c14, c16>>  PROVE FormTypes'
  <2>. HIDE DEF Fields, Types, Texts, Subs
  <2>. QED BY <1>1, <1>2, <1>18
<1>19. CASE Form!LoadMore \/ \E ok \in BOOLEAN : Form!PageAnswered(ok)
  BY <1>18, <1>19 DEF Form!LoadMore, Form!PageAnswered, Form!urlVars, Form!fileVars
<1>20. ASSUME NEW r \in c10, NEW what, Found(what), Form!Resolved(r, what)  PROVE FormTypes'
  <2>. HIDE DEF Fields, Types, Texts, Subs
  <2>1. c11' = what /\ c16' = (c16 \/ r.seq # c9) /\ c14' = (c14 \/ c1 = r.url)
        /\ UNCHANGED <<c1, c6, c7, c12, c13>>
    BY <1>20 DEF Form!Resolved, Form!Edits, Form!nameVars
  <2>2. c16' \in BOOLEAN /\ c14' \in BOOLEAN  BY <2>1
  <2>. QED BY <1>1, <1>2, <1>20, <2>1, <2>2
<1>21. ASSUME NEW r \in c10, NEW type \in Targets  PROVE Found([url |-> r.url, type |-> type])
  BY <1>4 DEF Found, Form!Urls
<1>22. CASE Form!Submit \/ Form!Refuse
  BY <1>18, <1>22 DEF Form!Submit, Form!Refuse, Form!nameVars, Form!urlVars, Form!fileVars
<1>24. ASSUME NEW folder, NEW type, Form!EditType(type) \/ Form!EditFolder(folder)
       PROVE  FormTypes'
  BY <1>18, <1>24 DEF Form!EditType, Form!EditFolder, Form!nameVars, Form!fileVars
<1>25. ASSUME NEW r \in c10, Form!ResolveFails(r)  PROVE FormTypes'
  <2>. HIDE DEF Fields, Types, Texts, Subs
  <2>1. c14' = (c14 \/ c1 = r.url) /\ UNCHANGED <<c1, c6, c7, c11, c12, c13, c16>>
    BY <1>25 DEF Form!ResolveFails, Form!nameVars
  <2>2. c14' \in BOOLEAN  BY <2>1
  <2>. QED BY <1>1, <1>2, <2>1, <2>2
<1>23. CASE Form!Search
  <2>1. CASE \E text \in Phrases \cup Form!Urls \cup {Blank} : Form!Type(text)
    BY <1>8, <2>1
  <2>2. CASE \E r \in c10 : Form!Resolved(r, Blank) \/ Form!ResolveFails(r)
    BY <1>3, <1>20, <1>25, <2>2
  <2>3. CASE \E r \in c10, type \in Targets : Form!Resolved(r, [url |-> r.url, type |-> type])
    BY <1>20, <1>21, <2>3
  <2>4. CASE \/ \E url \in Pages : Form!SelectResult(url) \/ Form!EnterName(url)
             \/ Form!EnterUrl \/ Form!LoadMore \/ Form!TimerFires
             \/ \E type \in Targets :
                  Form!ChooseType(type) \/ Form!PickFile(type) \/ Form!EditType(type)
             \/ \E folder \in Subs : Form!ChooseFolder(folder) \/ Form!EditFolder(folder)
             \/ \E s \in c4, ok \in BOOLEAN : Form!SearchAnswered(s, ok)
             \/ \E ok \in BOOLEAN : Form!PageAnswered(ok)
    BY <1>11, <1>12, <1>13, <1>14, <1>15, <1>16, <1>17, <1>19, <1>24, <2>4
  <2>. QED BY <1>23, <2>1, <2>2, <2>3, <2>4 DEF Form!Search
<1>. QED BY <1>22, <1>23 DEF Form!Next

-----------------------------------------------------------------------------
(* All the parts *)

TypesInv ==
  /\ ViewInv /\ FormsInv /\ SettingsInv /\ UploadsInv /\ ChosenInv /\ DownloadsInv
  /\ part = "windows" => WindowsTypes
  /\ part = "canvas" => CanvasTypes
  /\ part = "confirm" => ConfirmTypes
  /\ part = "batches" => Batches!TypeOK
  /\ part = "bar" => HubTypes
  /\ part = "guide" => Guide!TypeOK
  /\ part = "plan" => Plan!TypeOK
  /\ part = "form" => FormTypes

LEMMA TypesStart == Init => TypesInv
<1>. SUFFICES ASSUME Init  PROVE TypesInv
  OBVIOUS
<1>1. /\ ViewInv /\ FormsInv /\ SettingsInv /\ UploadsInv /\ ChosenInv /\ DownloadsInv
  BY ViewStart, FormsStart, SettingsStart, UploadsStart, ChosenStart, DownloadsStart
<1>2. ASSUME part = "windows"  PROVE WindowsTypes
  BY <1>2, WindowsTypesStart DEF Init
<1>4. ASSUME part = "canvas"  PROVE CanvasTypes
  BY <1>4, PartsAssumption, CanvasTypesStart DEF Init
<1>5. ASSUME part = "confirm"  PROVE ConfirmTypes
  BY <1>5, PartsAssumption, ConfirmTypesStart DEF Init
<1>6. ASSUME part = "batches"  PROVE Batches!TypeOK
  BY <1>6, PartsAssumption, BatchTypesStart DEF Init
<1>7. ASSUME part = "bar"  PROVE HubTypes
  BY <1>7, HubTypesStart DEF Init
<1>8. ASSUME part = "guide"  PROVE Guide!TypeOK
  BY <1>8, PartsAssumption, GuideTypesStart DEF Init
<1>9. ASSUME part = "plan"  PROVE Plan!TypeOK
  BY <1>9, PartsAssumption, PlanTypesStart DEF Init
<1>10. ASSUME part = "form"  PROVE FormTypes
  BY <1>10, FormTypesStart DEF Init
<1>. QED BY <1>1, <1>2, <1>4, <1>5, <1>6, <1>7, <1>8, <1>9, <1>10 DEF TypesInv

LEMMA TypesStep ==
  ASSUME TypesInv, [Next]_vars
  PROVE  TypesInv'
<1>0. part' = part  BY DEF Next, vars
<1>1. /\ ViewInv /\ FormsInv /\ SettingsInv /\ UploadsInv /\ ChosenInv /\ DownloadsInv
  BY DEF TypesInv
<1>2. (ViewInv /\ FormsInv /\ SettingsInv /\ UploadsInv /\ ChosenInv /\ DownloadsInv)'
  BY <1>1, ViewStep, FormsStep, SettingsStep, UploadsStep, ChosenStep, DownloadsStep
<1>3. CASE UNCHANGED vars
  <2>1. WindowsTypes' <=> WindowsTypes  BY <1>3 DEF vars, WindowsTypes, Once
  <2>3. CanvasTypes' <=> CanvasTypes  BY <1>3 DEF vars, CanvasTypes, Canvas!Places
  <2>4. ConfirmTypes' <=> ConfirmTypes  BY <1>3 DEF vars, ConfirmTypes, Ask!Items, Ask!Models
  <2>5. Batches!TypeOK' <=> Batches!TypeOK
    BY <1>3 DEF vars, Batches!TypeOK, Batches!Listings, Batches!Entry, Batches!Range,
                Batches!Mode
  <2>6. HubTypes' <=> HubTypes  BY <1>3 DEF vars, HubTypes, Bar!HubUploads
  <2>7. Guide!TypeOK' <=> Guide!TypeOK  BY <1>3 DEF vars, Guide!TypeOK
  <2>8. Plan!TypeOK' <=> Plan!TypeOK  BY <1>3 DEF vars, Plan!TypeOK, Plan!TypeNames
  <2>9. FormTypes' <=> FormTypes  BY <1>3 DEF vars, FormTypes, Form!Urls
  <2>. QED BY <1>0, <1>2, <2>1, <2>3, <2>4, <2>5, <2>6, <2>7, <2>8, <2>9 DEF TypesInv
<1>4. CASE Next
  <2>1. ASSUME part = "windows"  PROVE WindowsTypes'
    <3>1. Frame!Next  BY <1>4, <2>1 DEF Next
    <3>2. Frame!WindowsInv  BY <1>1, <2>1 DEF ViewInv
    <3>3. WindowsTypes  BY <2>1 DEF TypesInv
    <3>. QED BY <3>1, <3>2, <3>3, PageAssumption, WindowsTypesStep
  <2>3. ASSUME part = "canvas"  PROVE CanvasTypes'
    <3>1. Canvas!Next  BY <1>4, <2>3 DEF Next
    <3>2. Canvas!CanvasInv  BY <1>1, <2>3 DEF ChosenInv
    <3>3. CanvasTypes  BY <2>3 DEF TypesInv
    <3>. QED BY <3>1, <3>2, <3>3, PartsAssumption, CanvasTypesStep
  <2>4. ASSUME part = "confirm"  PROVE ConfirmTypes'
    <3>1. Ask!Next  BY <1>4, <2>4 DEF Next
    <3>2. Ask!ConfirmInv  BY <1>1, <2>4 DEF ChosenInv
    <3>3. ConfirmTypes  BY <2>4 DEF TypesInv
    <3>. QED BY <3>1, <3>2, <3>3, PartsAssumption, ConfirmTypesStep
  <2>5. ASSUME part = "batches"  PROVE Batches!TypeOK'
    <3>1. Batches!Next  BY <1>4, <2>5 DEF Next
    <3>2. Batches!TypeOK  BY <2>5 DEF TypesInv
    <3>3. Batches!BarInv'  BY <1>0, <1>2, <2>5 DEF ChosenInv
    <3>. QED BY <3>1, <3>2, <3>3, PartsAssumption, BatchTypesStep
  <2>6. ASSUME part = "bar"  PROVE HubTypes'
    <3>1. Bar!Next  BY <1>4, <2>6 DEF Next
    <3>2. Bar!HubInv  BY <1>1, <2>6 DEF UploadsInv
    <3>3. HubTypes  BY <2>6 DEF TypesInv
    <3>. QED BY <3>1, <3>2, <3>3, HubTypesStep
  <2>7. ASSUME part = "guide"  PROVE Guide!TypeOK'
    <3>1. Guide!Next  BY <1>4, <2>7 DEF Next
    <3>2. Guide!TypeOK  BY <2>7 DEF TypesInv
    <3>. QED BY <3>1, <3>2, PartsAssumption, GuideTypesStep
  <2>8. ASSUME part = "plan"  PROVE Plan!TypeOK'
    <3>1. Plan!Next  BY <1>4, <2>8 DEF Next
    <3>2. Plan!TypeOK  BY <2>8 DEF TypesInv
    <3>. QED BY <3>1, <3>2, PartsAssumption, PlanTypesStep
  <2>9. ASSUME part = "form"  PROVE FormTypes'
    <3>1. Form!Next  BY <1>4, <2>9 DEF Next
    <3>2. Form!FormInv  BY <1>1, <2>9 DEF FormsInv
    <3>3. FormTypes  BY <2>9 DEF TypesInv
    <3>. QED BY <3>1, <3>2, <3>3, FormTypesStep
  <2>. QED BY <1>0, <1>2, <2>1, <2>3, <2>4, <2>5, <2>6, <2>7, <2>8, <2>9 DEF TypesInv
<1>. QED BY <1>3, <1>4

\* What the stars and the sizes have is of their types.
LEMMA KeptTyped ==
  /\ Star!StarsInv => Star!TypeOK
  /\ Size!SizesAssumption /\ Size!SizesInv => Size!TypeOK
<1>1. ASSUME Star!StarsInv  PROVE Star!TypeOK
  <2>1. \A i \in DOMAIN c1 : c1[i] \in Directory  BY <1>1 DEF Star!StarsInv
  <2>2. c3 = {c1[i] : i \in DOMAIN c1}
    BY <1>1 DEF Star!StarsInv, Star!StarsHold, Star!Range
  <2>. QED BY <1>1, <2>1, <2>2 DEF Star!StarsInv, Star!TypeOK
<1>2. ASSUME Size!SizesAssumption, Size!SizesInv  PROVE Size!TypeOK
  <2>1. c1.flag \in Size!Names \cup {Junk} /\ c1.flat \in BOOLEAN
    BY <1>2 DEF Size!SizesInv, Size!Kept
  <2>2. c5 \in Sorts  BY <1>2 DEF Size!SizesInv, Size!ReadSort, Size!SizesAssumption
  <2>. QED BY <1>2, <2>1, <2>2 DEF Size!SizesInv, Size!TypeOK
<1>. QED BY <1>1, <1>2

\* Every part of the page keeps its types, whatever comes in whatever order: a window is
\* on the stack once and what is shown is on it (Dialog.vue, hooks/dialog.ts), the lists
\* that a pause, an answer or a restart shortens are lists of the same things, and the
\* place that a drop on the canvas writes is that of a widget (modelGrid.ts).
THEOREM TypesHold == Spec => []TypeOK
<1>1. ASSUME TypesInv  PROVE TypeOK
  <2>1. ASSUME part = "windows"  PROVE Frame!TypeOK
    BY <1>1, <2>1, WindowsTyped DEF TypesInv, ViewInv
  <2>2. ASSUME part = "form"  PROVE Form!TypeOK
    BY <1>1, <2>2, FormTyped DEF TypesInv, FormsInv
  <2>3. ASSUME part = "bar"  PROVE Bar!TypeOK
    BY <1>1, <2>3, HubTyped DEF TypesInv, UploadsInv
  <2>4. ASSUME part = "confirm"  PROVE Ask!TypeOK
    BY <1>1, <2>4, PartsAssumption, ConfirmTyped DEF TypesInv, ChosenInv
  <2>5. ASSUME part = "canvas"  PROVE Canvas!TypeOK
    BY <1>1, <2>5, CanvasTyped DEF TypesInv, ChosenInv
  <2>6. /\ part = "selection" => Pick!TypeOK
        /\ part = "hygiene" => Broom!TypeOK
    BY <1>1 DEF TypesInv, ChosenInv, Pick!SelectionInv, Broom!HygieneInv
  <2>7. part = "list" => Rows!TypeOK
    BY <1>1 DEF TypesInv, DownloadsInv, Rows!ListInv, Rows!RowsInv
  <2>8. part = "upload" => Send!TypeOK
    BY <1>1 DEF TypesInv, UploadsInv, Send!UploadInv
  <2>9. /\ part = "key" => Lock!TypeOK
        /\ part = "sizes" => Size!TypeOK
        /\ part = "stars" => Star!TypeOK
    BY <1>1, PageAssumption, KeptTyped DEF TypesInv, SettingsInv, Lock!KeyInv
  <2>. QED BY <1>1, <2>1, <2>2, <2>3, <2>4, <2>5, <2>6, <2>7, <2>8, <2>9 DEF TypesInv, TypeOK
<1>2. TypesInv /\ [Next]_vars => TypesInv'  BY TypesStep
<1>. QED BY <1>1, <1>2, TypesStart, PTL DEF Spec

================================================================================
