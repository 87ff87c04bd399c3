------------------------ MODULE PlaylistManager_proofs ------------------------
(***************************************************************************)
(* Proofs about PlaylistManager, for every set of tracks and lists of any   *)
(* length: the queue stays a permutation of the list and the place in it    *)
(* exists, and edits in the background do not change whose turn it is.      *)
(***************************************************************************)
EXTENDS PlaylistManager, SequenceLemmas

-----------------------------------------------------------------------------
(* Facts about finding and permuting.                                       *)

LEMMA FirstAtFound ==
  ASSUME NEW S, NEW s \in Seq(S), NEW x \in Range(s)
  PROVE  FirstAt(s, x) \in 1 .. Len(s) /\ s[FirstAt(s, x)] = x
<1>1. DOMAIN s = 1 .. Len(s)
  OBVIOUS
<1> QED BY <1>1, FirstPlace DEF FirstAt

LEMMA OrderProperties ==
  ASSUME NEW n \in Nat, NEW p \in Orders(n)
  PROVE  /\ p \in Seq(Nat) /\ Len(p) = n /\ p \in [1 .. n -> 1 .. n]
         /\ \A i, j \in 1 .. n : p[i] = p[j] => i = j
         /\ Range(p) = 1 .. n
<1>1. p \in [1 .. n -> 1 .. n] /\ \A i, j \in 1 .. n : p[i] = p[j] => i = j
  BY DEF Orders, Injection, IsInjective
<1>2. p \in Seq(Nat) /\ Len(p) = n
  BY <1>1
<1>3. IsFiniteSet(1 .. n)
  BY FS_Interval
<1>4. p \in Surjection(1 .. n, 1 .. n)
  BY <1>3, FS_Injection DEF Orders
<1>5. \A v \in 1 .. n : \E i \in 1 .. n : p[i] = v
  BY <1>4 DEF Surjection
<1>6. DOMAIN p = 1 .. n
  BY <1>1
<1>7. Range(p) = 1 .. n
  BY <1>1, <1>5, <1>6 DEF Range
<1> QED BY <1>1, <1>2, <1>7

LEMMA OrderIntro ==
  ASSUME NEW n \in Nat, NEW p \in [1 .. n -> 1 .. n],
         \A i, j \in 1 .. n : p[i] = p[j] => i = j
  PROVE  p \in Orders(n)
BY DEF Orders, Injection, IsInjective

LEMMA IdentityOrder == ASSUME NEW n \in Nat PROVE Identity(n) \in Orders(n)
BY OrderIntro DEF Identity

\* A new value spliced into an injective sequence gives a permutation.
LEMMA Splice ==
  ASSUME NEW n \in Nat, NEW m \in Nat, m = n + 1, NEW q \in [1 .. n -> 1 .. m],
         \A i, j \in 1 .. n : q[i] = q[j] => i = j,
         NEW v \in 1 .. m, \A i \in 1 .. n : q[i] # v,
         NEW k \in 1 .. m
  PROVE  InsertAt(q, k, v) \in Orders(m)
<1>1. q \in Seq(1 .. m) /\ Len(q) = n /\ Len(q) + 1 = m
  OBVIOUS
<1> DEFINE p == InsertAt(q, k, v)
<1> HIDE DEF p
<1>2. /\ p \in Seq(1 .. m) /\ Len(p) = m
      /\ \A i \in 1 .. m : /\ i < k => p[i] = q[i]
                           /\ i = k => p[i] = v
                           /\ i > k => p[i] = q[i - 1]
  <2>0. Len(q) + 1 = m
    BY <1>1
  <2>1. q \in Seq(1 .. m) /\ k \in 1 .. (Len(q) + 1) /\ v \in 1 .. m
    BY <1>1
  <2>2. /\ p \in Seq(1 .. m) /\ Len(p) = Len(q) + 1
        /\ \A i \in 1 .. (Len(q) + 1) : /\ i < k => p[i] = q[i]
                                        /\ i = k => p[i] = v
                                        /\ i > k => p[i] = q[i - 1]
    <3>1. PICK S : S = 1 .. m
      OBVIOUS
    <3>2. q \in Seq(S) /\ k \in 1 .. (Len(q) + 1) /\ v \in S
      BY <2>1, <3>1
    <3>3. InsertAt(q, k, v) \in Seq(S) /\ Len(InsertAt(q, k, v)) = Len(q) + 1
      BY <3>2, InsertAtElements
    <3>4. ASSUME NEW i \in 1 .. (Len(q) + 1)
          PROVE  /\ i < k => InsertAt(q, k, v)[i] = q[i]
                 /\ i = k => InsertAt(q, k, v)[i] = v
                 /\ i > k => InsertAt(q, k, v)[i] = q[i - 1]
      BY <3>2, InsertAtElement
    <3> QED BY <3>1, <3>3, <3>4 DEF p
  <2>3. p \in Seq(1 .. m) /\ Len(p) = m
    BY <2>0, <2>2
  <2>4. ASSUME NEW i \in 1 .. m
        PROVE  /\ i < k => p[i] = q[i]
               /\ i = k => p[i] = v
               /\ i > k => p[i] = q[i - 1]
    <3>1. i \in 1 .. (Len(q) + 1)
      BY <2>0
    <3> QED BY <2>2, <3>1
  <2> QED BY <2>3, <2>4
<1>3. p \in [1 .. m -> 1 .. m]
  BY <1>2, LenProperties
<1>4. ASSUME NEW i \in 1 .. m, NEW j \in 1 .. m, p[i] = p[j]
      PROVE  i = j
  <2>1. /\ i < k => p[i] = q[i] /\ i \in 1 .. n
        /\ i = k => p[i] = v
        /\ i > k => p[i] = q[i - 1] /\ i - 1 \in 1 .. n
    BY <1>2
  <2>2. /\ j < k => p[j] = q[j] /\ j \in 1 .. n
        /\ j = k => p[j] = v
        /\ j > k => p[j] = q[j - 1] /\ j - 1 \in 1 .. n
    BY <1>2
  <2> QED BY <1>4, <2>1, <2>2
<1>5. p \in Orders(m)
  BY <1>3, <1>4, OrderIntro
<1> QED BY <1>5 DEF p

LEMMA SpliceLast ==
  ASSUME NEW n \in Nat, NEW m \in Nat, m = n + 1, NEW q \in [1 .. n -> 1 .. m],
         \A i, j \in 1 .. n : q[i] = q[j] => i = j,
         NEW v \in 1 .. m, \A i \in 1 .. n : q[i] # v
  PROVE  Append(q, v) \in Orders(m)
<1>1. q \in Seq(1 .. m) /\ Len(q) = n
  OBVIOUS
<1> DEFINE p == Append(q, v)
<1>2. /\ p \in Seq(1 .. m) /\ Len(p) = m
      /\ \A i \in 1 .. n : p[i] = q[i]
      /\ p[m] = v
  BY <1>1, AppendProperties
<1> HIDE DEF p
<1>3. p \in [1 .. m -> 1 .. m]
  BY <1>2, LenProperties
<1>4. ASSUME NEW i \in 1 .. m, NEW j \in 1 .. m, p[i] = p[j]
      PROVE  i = j
  <2>1. (i \in 1 .. n \/ i = m) /\ (j \in 1 .. n \/ j = m)
    OBVIOUS
  <2> QED BY <1>2, <1>4, <2>1
<1>5. p \in Orders(m)
  BY <1>3, <1>4, OrderIntro
<1> QED BY <1>5 DEF p

-----------------------------------------------------------------------------
(* The inductive invariant.                                                 *)

\* A list, an order it is played in and a place in that order: the first
\* place while the list is empty, or else the first track would not be at it.
Good(ts, q, k) ==
  /\ ts \in Seq(Ids) /\ q \in Orders(Len(ts))
  /\ k \in Nat \ {0} /\ (k <= Len(ts) \/ k = 1)

Inv == /\ Good(tracks, queue, index)
       /\ active \in Ids \cup {NoTrack} /\ shuffle \in BOOLEAN /\ repeat \in Modes

LEMMA GoodFacts ==
  ASSUME NEW ts, NEW q, NEW k, Good(ts, q, k)
  PROVE  /\ ts \in Seq(Ids) /\ Len(ts) \in Nat /\ DOMAIN ts = 1 .. Len(ts)
         /\ \A i \in 1 .. Len(ts) : ts[i] \in Ids
         /\ q \in Seq(Nat) /\ Len(q) = Len(ts) /\ q \in [1 .. Len(ts) -> 1 .. Len(ts)]
         /\ \A i, j \in 1 .. Len(ts) : q[i] = q[j] => i = j
         /\ Range(q) = 1 .. Len(ts)
         /\ k \in Nat \ {0}
         /\ (ts # <<>>) = (Len(ts) > 0)
         /\ Len(ts) > 0 => k \in 1 .. Len(ts)
         /\ Len(ts) = 0 => k = 1
<1>1. ts \in Seq(Ids) /\ Len(ts) \in Nat /\ DOMAIN ts = 1 .. Len(ts)
  BY DEF Good
<1>2. \A i \in 1 .. Len(ts) : ts[i] \in Ids
  BY <1>1
<1>3. /\ q \in Seq(Nat) /\ Len(q) = Len(ts) /\ q \in [1 .. Len(ts) -> 1 .. Len(ts)]
      /\ \A i, j \in 1 .. Len(ts) : q[i] = q[j] => i = j
      /\ Range(q) = 1 .. Len(ts)
  BY <1>1, OrderProperties DEF Good
<1>4. (ts # <<>>) = (Len(ts) > 0)
  BY <1>1
<1>5. /\ k \in Nat \ {0} /\ (Len(ts) > 0 => k \in 1 .. Len(ts))
      /\ Len(ts) = 0 => k = 1
  BY <1>1, <1>4 DEF Good
<1> QED BY <1>1, <1>2, <1>3, <1>4, <1>5

LEMMA GoodIntro ==
  ASSUME NEW ts \in Seq(Ids), NEW q \in Orders(Len(ts)), NEW k \in Nat \ {0},
         k <= Len(ts) \/ k = 1
  PROVE  Good(ts, q, k)
BY DEF Good

\* What the runs check follows from it.
LEMMA InvGood ==
  ASSUME Inv PROVE TypeOK /\ QueueIsPermutation /\ PlaceInQueue
<1>1. Good(tracks, queue, index)
  BY DEF Inv
<1>2. /\ tracks \in Seq(Ids) /\ queue \in Seq(Nat) /\ Len(queue) = Len(tracks)
      /\ index \in Nat \ {0} /\ queue \in Orders(Len(tracks))
      /\ (tracks # <<>> => index <= Len(tracks))
  BY <1>1, GoodFacts DEF Good
<1>3. index >= 1
  BY <1>2
<1> QED BY <1>2, <1>3 DEF Inv, TypeOK, QueueIsPermutation, PlaceInQueue

LEMMA EmptyGood == Good(<<>>, <<>>, 1)
<1>1. <<>> \in Seq(Ids) /\ Len(<<>>) = 0 /\ <<>> \in [1 .. 0 -> 1 .. 0]
  OBVIOUS
<1>2. <<>> \in Orders(0)
  <2>1. DOMAIN <<>> = {}
    OBVIOUS
  <2> QED BY <1>1, <2>1 DEF Orders, Injection, IsInjective
<1> QED BY <1>1, <1>2 DEF Good

LEMMA InvInit == Init => Inv
BY EmptyGood DEF Init, Inv, Modes

LEMMA RebuiltGood ==
  ASSUME NEW n \in Nat, NEW sh, NEW keep, NEW cur \in Nat \ {0},
         NEW r \in Rebuilt(n, sh, keep, cur)
  PROVE  r.queue \in Orders(n) /\ r.index \in Nat \ {0}
<1>1. CASE sh = TRUE
  <2>1. PICK o \in Orders(n) : r = [queue |-> o, index |-> 1]
    BY <1>1 DEF Rebuilt
  <2> QED BY <2>1
<1>2. CASE sh # TRUE
  <2>1. r = [queue |-> Identity(n), index |-> IF keep THEN cur ELSE 1]
    BY <1>2 DEF Rebuilt
  <2> QED BY <2>1, IdentityOrder
<1> QED BY <1>1, <1>2

-----------------------------------------------------------------------------
(* What the operations make of a good list.                                 *)

LEMMA AddedGood ==
  ASSUME NEW ts, NEW q, NEW k, Good(ts, q, k), NEW t \in Ids
  PROVE  Good(Append(ts, t), Append(q, Len(ts) + 1), k)
<1> DEFINE n == Len(ts)
<1>1. /\ ts \in Seq(Ids) /\ n \in Nat
      /\ q \in Seq(Nat) /\ Len(q) = n /\ q \in [1 .. n -> 1 .. n]
      /\ \A i, j \in 1 .. n : q[i] = q[j] => i = j
      /\ k \in Nat \ {0} /\ (n > 0 => k \in 1 .. n) /\ (n = 0 => k = 1)
  BY GoodFacts
<1>2. /\ Append(ts, t) \in Seq(Ids) /\ Len(Append(ts, t)) = n + 1
  BY <1>1, AppendProperties
<1> HIDE DEF n
<1>3. Append(q, n + 1) \in Orders(n + 1)
  <2>1. PICK m \in Nat : m = n + 1
    BY <1>1
  <2>2. \A i \in 1 .. n : q[i] \in 1 .. m /\ q[i] # m
    <3>1. \A i \in 1 .. n : q[i] \in 1 .. n
      BY <1>1
    <3>2. ASSUME NEW i \in 1 .. n PROVE q[i] \in 1 .. m /\ q[i] # m
      <4>1. PICK v \in 1 .. n : v = q[i]
        BY <3>1
      <4>2. v \in 1 .. m /\ v # m
        BY <1>1, <2>1
      <4> QED BY <4>1, <4>2
    <3> QED BY <3>2
  <2>3. q \in [1 .. n -> 1 .. m] /\ m \in 1 .. m
    BY <1>1, <2>1, <2>2
  <2>4. Append(q, m) \in Orders(m)
    BY <1>1, <2>1, <2>2, <2>3, SpliceLast
  <2> QED BY <2>1, <2>4
<1>4. Good(Append(ts, t), Append(q, n + 1), k)
  <2>1. k <= n + 1
    BY <1>1
  <2> QED BY <1>1, <1>2, <1>3, <2>1, GoodIntro
<1> QED BY <1>4 DEF n

LEMMA InsertedGood ==
  ASSUME NEW ts, NEW q, NEW k, Good(ts, q, k), shuffle \in BOOLEAN,
         NEW position \in Nat \ {0}, NEW t \in Ids,
         NEW r, r = Inserted([tracks |-> ts, queue |-> q, index |-> k], position, t)
  PROVE  /\ Good(r.tracks, r.queue, r.index)
         /\ Len(ts) > 0 => r.tracks[r.queue[r.index]] = ts[q[k]]
<1>1. PICK n \in Nat : n = Len(ts)
  BY GoodFacts
<1>2. PICK m \in Nat : m = n + 1
  OBVIOUS
<1>3. /\ ts \in Seq(Ids) /\ Len(ts) = n
      /\ q \in Seq(Nat) /\ Len(q) = n /\ q \in [1 .. n -> 1 .. n] /\ DOMAIN q = 1 .. n
      /\ \A i, j \in 1 .. n : q[i] = q[j] => i = j
      /\ k \in Nat \ {0} /\ (n > 0 => k \in 1 .. n) /\ (n = 0 => k = 1)
  BY <1>1, GoodFacts
<1>4. PICK a \in 1 .. m : a = IF position > n THEN n + 1 ELSE position
  BY <1>2
<1>5. PICK up : up = [j \in 1 .. n |-> IF q[j] >= a THEN q[j] + 1 ELSE q[j]]
  OBVIOUS
<1>6. /\ \A j \in 1 .. n : up[j] = IF q[j] >= a THEN q[j] + 1 ELSE q[j]
      /\ \A j \in 1 .. n : up[j] \in 1 .. m /\ up[j] # a /\ q[j] \in 1 .. n
      /\ DOMAIN up = 1 .. n
  <2>1. \A j \in 1 .. n : q[j] \in 1 .. n
    BY <1>3
  <2>2. \A j \in 1 .. n : up[j] = IF q[j] >= a THEN q[j] + 1 ELSE q[j]
    BY <1>5
  <2>3. \A j \in 1 .. n : up[j] \in 1 .. m /\ up[j] # a
    BY <1>2, <2>1, <2>2
  <2> QED BY <1>5, <2>1, <2>2, <2>3
<1>7. up \in [1 .. n -> 1 .. m] /\ up \in Seq(1 .. m) /\ Len(up) = n
  BY <1>5, <1>6
<1>8. PICK T : T = 1 .. m
  OBVIOUS
<1>9. up \in Seq(T) /\ a \in 1 .. (Len(up) + 1) /\ a \in T
  BY <1>2, <1>7, <1>8
<1>10. \A i, j \in 1 .. n : up[i] = up[j] => i = j
  <2> SUFFICES ASSUME NEW i \in 1 .. n, NEW j \in 1 .. n, up[i] = up[j] PROVE i = j
    OBVIOUS
  <2>1. q[i] = q[j]
    BY <1>6
  <2> QED BY <1>3, <2>1
<1>11. r = [tracks |-> InsertAt(ts, a, t),
           queue |-> IF shuffle THEN Append(up, a) ELSE InsertAt(up, a, a),
           index |-> IF ~shuffle /\ q # <<>> /\ a <= k THEN k + 1 ELSE k]
  BY <1>1, <1>3, <1>4, <1>5 DEF Inserted
<1>12. /\ InsertAt(ts, a, t) \in Seq(Ids) /\ Len(InsertAt(ts, a, t)) = m
       /\ \A i \in 1 .. n : InsertAt(ts, a, t)[up[i]] = ts[q[i]]
  <2>1. ts \in Seq(Ids) /\ a \in 1 .. (Len(ts) + 1) /\ t \in Ids
    BY <1>2, <1>3
  <2>2. InsertAt(ts, a, t) \in Seq(Ids) /\ Len(InsertAt(ts, a, t)) = Len(ts) + 1
    BY <2>1, InsertAtElements
  <2>3. ASSUME NEW i \in 1 .. n PROVE InsertAt(ts, a, t)[up[i]] = ts[q[i]]
    <3>1. PICK v \in 1 .. m : v = up[i]
      BY <1>6
    <3>2. v \in 1 .. (Len(ts) + 1)
      BY <1>2, <1>3
    <3>3. CASE q[i] >= a
      <4>1. v > a /\ v - 1 = q[i]
        BY <1>6, <3>1, <3>3
      <4>2. v > a => InsertAt(ts, a, t)[v] = ts[v - 1]
        BY <2>1, <3>2, InsertAtElement
      <4> QED BY <3>1, <4>1, <4>2
    <3>4. CASE q[i] < a
      <4>1. v < a /\ v = q[i]
        BY <1>6, <3>1, <3>4
      <4>2. v < a => InsertAt(ts, a, t)[v] = ts[v]
        BY <2>1, <3>2, InsertAtElement
      <4> QED BY <3>1, <4>1, <4>2
    <3> QED BY <1>6, <3>3, <3>4
  <2>4. Len(ts) + 1 = m
    BY <1>2, <1>3
  <2> QED BY <2>2, <2>3, <2>4
<1>13. CASE shuffle
  <2>1. r.tracks = InsertAt(ts, a, t) /\ r.queue = Append(up, a) /\ r.index = k
    BY <1>11, <1>13
  <2>2. Append(up, a) \in Orders(m)
    BY <1>2, <1>6, <1>7, <1>10, SpliceLast
  <2>3. k <= m \/ k = 1
    BY <1>2, <1>3
  <2>4. Good(r.tracks, r.queue, r.index)
    <3>1. /\ r.tracks \in Seq(Ids) /\ r.queue \in Orders(Len(r.tracks))
          /\ r.index \in Nat \ {0} /\ (r.index <= Len(r.tracks) \/ r.index = 1)
      BY <1>3, <1>12, <2>1, <2>2, <2>3
    <3> QED BY <3>1 DEF Good
  <2>5. ASSUME n > 0 PROVE r.tracks[r.queue[r.index]] = ts[q[k]]
    <3>1. k \in 1 .. n /\ Append(up, a)[k] = up[k]
      BY <1>3, <1>7, <2>5, AppendProperties
    <3> QED BY <1>12, <2>1, <3>1
  <2> QED BY <1>1, <2>4, <2>5
<1>14. CASE ~shuffle
  <2>1. /\ r.tracks = InsertAt(ts, a, t) /\ r.queue = InsertAt(up, a, a)
        /\ r.index = IF q # <<>> /\ a <= k THEN k + 1 ELSE k
    BY <1>11, <1>14
  <2>2. InsertAt(up, a, a) \in Orders(m)
    BY <1>2, <1>6, <1>7, <1>10, Splice
  <2>3. (q # <<>>) = (n > 0)
    BY <1>3
  <2>4. CASE q # <<>> /\ a <= k
    <3>1. r.index = k + 1 /\ k + 1 \in Nat \ {0} /\ k \in 1 .. n /\ k + 1 <= m
      BY <1>2, <1>3, <2>1, <2>3, <2>4
    <3>2. InsertAt(up, a, a)[k + 1] = up[k]
      <4>1. k + 1 \in 1 .. (Len(up) + 1) /\ k + 1 > a /\ (k + 1) - 1 = k
        BY <1>2, <1>7, <2>4, <3>1
      <4>2. PICK i \in 1 .. (Len(up) + 1) : i = k + 1
        BY <4>1
      <4>3. i > a => InsertAt(up, a, a)[i] = up[i - 1]
        BY <1>9, <4>2, InsertAtElement
      <4> QED BY <4>1, <4>2, <4>3
    <3>3. /\ r.tracks \in Seq(Ids) /\ r.queue \in Orders(Len(r.tracks))
          /\ r.index \in Nat \ {0} /\ (r.index <= Len(r.tracks) \/ r.index = 1)
      BY <1>12, <2>1, <2>2, <3>1
    <3>4. Good(r.tracks, r.queue, r.index)
      BY <3>3 DEF Good
    <3>5. r.tracks[r.queue[r.index]] = ts[q[k]]
      BY <1>12, <2>1, <3>1, <3>2
    <3> QED BY <3>4, <3>5
  <2>5. CASE ~(q # <<>> /\ a <= k)
    <3>1. r.index = k
      BY <2>1, <2>5
    <3>2. /\ r.tracks \in Seq(Ids) /\ r.queue \in Orders(Len(r.tracks))
          /\ r.index \in Nat \ {0} /\ (r.index <= Len(r.tracks) \/ r.index = 1)
      BY <1>2, <1>3, <1>12, <2>1, <2>2, <3>1
    <3>3. Good(r.tracks, r.queue, r.index)
      BY <3>2 DEF Good
    <3>4. ASSUME n > 0 PROVE r.tracks[r.queue[r.index]] = ts[q[k]]
      <4>1. k \in 1 .. n /\ k < a
        BY <1>3, <2>3, <2>5, <3>4
      <4>2. k \in 1 .. (Len(up) + 1)
        BY <1>2, <1>7, <4>1
      <4>3. k < a => InsertAt(up, a, a)[k] = up[k]
        BY <1>9, <4>2, InsertAtElement
      <4> QED BY <1>12, <2>1, <3>1, <4>1, <4>3
    <3> QED BY <1>1, <3>3, <3>4
  <2> QED BY <2>4, <2>5
<1> QED BY <1>13, <1>14

\* Every track keeps its id on the way to its new position.
LEMMA ShiftedElement ==
  ASSUME NEW ts \in Seq(Ids), NEW f \in 1 .. Len(ts), NEW t \in 1 .. Len(ts),
         NEW i \in 1 .. Len(ts)
  PROVE  /\ InsertAt(RemoveAt(ts, f), t, ts[f]) \in Seq(Ids)
         /\ Len(InsertAt(RemoveAt(ts, f), t, ts[f])) = Len(ts)
         /\ Shifted(f, t, i) \in 1 .. Len(ts)
         /\ InsertAt(RemoveAt(ts, f), t, ts[f])[Shifted(f, t, i)] = ts[i]
<1>1. PICK n \in Nat : n = Len(ts)
  OBVIOUS
<1>2. PICK s : s = RemoveAt(ts, f)
  OBVIOUS
<1>3. s \in Seq(Ids) /\ Len(s) = n - 1 /\ n > 0
  BY <1>1, <1>2, RemoveAtElements
<1>4. PICK e \in Ids : e = ts[f]
  OBVIOUS
<1>5. t \in 1 .. (Len(s) + 1) /\ Len(s) + 1 = n
  BY <1>1, <1>3
<1>6. PICK v : v = Shifted(f, t, i)
  OBVIOUS
<1>7. v \in 1 .. n
  BY <1>1, <1>6 DEF Shifted
<1>8. v \in 1 .. (Len(s) + 1)
  BY <1>5, <1>7
<1>9. s \in Seq(Ids)
  BY <1>3
<1>10. t \in 1 .. (Len(s) + 1)
  BY <1>5
<1>11. InsertAt(s, t, e) \in Seq(Ids) /\ Len(InsertAt(s, t, e)) = Len(s) + 1
  BY <1>9, <1>10, InsertAtElements
<1>12. /\ v < t => InsertAt(s, t, e)[v] = s[v]
       /\ v = t => InsertAt(s, t, e)[v] = e
       /\ v > t => InsertAt(s, t, e)[v] = s[v - 1]
  BY <1>8, <1>9, <1>10, InsertAtElement
<1>13. \A j \in 1 .. (Len(ts) - 1) : /\ j < f => s[j] = ts[j]
                                     /\ j >= f => s[j] = ts[j + 1]
  BY <1>2, RemoveAtElement
<1>14. InsertAt(s, t, e)[v] = ts[i]
  <2>1. CASE i = f
    <3>1. v = t
      BY <1>6, <2>1 DEF Shifted
    <3> QED BY <1>4, <1>12, <2>1, <3>1
  <2>2. CASE f < i /\ i <= t
    <3>1. v = i - 1 /\ v < t /\ v >= f /\ v + 1 = i /\ v \in 1 .. (Len(ts) - 1)
      BY <1>6, <2>2 DEF Shifted
    <3>2. s[v] = ts[v + 1]
      BY <1>13, <3>1
    <3> QED BY <1>12, <3>1, <3>2
  <2>3. CASE t <= i /\ i < f
    <3>1. v = i + 1 /\ v > t /\ v - 1 = i /\ i \in 1 .. (Len(ts) - 1)
      BY <1>6, <2>3 DEF Shifted
    <3>2. s[i] = ts[i]
      BY <1>13, <2>3, <3>1
    <3> QED BY <1>12, <3>1, <3>2
  <2>4. CASE i < f /\ i < t
    <3>1. v = i /\ v < t /\ i \in 1 .. (Len(ts) - 1)
      BY <1>6, <2>4 DEF Shifted
    <3>2. s[i] = ts[i]
      BY <1>13, <2>4, <3>1
    <3> QED BY <1>12, <3>1, <3>2
  <2>5. CASE i > f /\ i > t
    <3>1. PICK u : u = i - 1
      OBVIOUS
    <3>2. v = i /\ v > t /\ v - 1 = u /\ u \in 1 .. (Len(ts) - 1) /\ u >= f /\ u + 1 = i
      BY <1>6, <2>5, <3>1 DEF Shifted
    <3>3. s[u] = ts[u + 1]
      BY <1>13, <3>2
    <3> QED BY <1>12, <3>2, <3>3
  <2> QED BY <2>1, <2>2, <2>3, <2>4, <2>5
<1> QED BY <1>1, <1>2, <1>4, <1>5, <1>6, <1>7, <1>11, <1>14

LEMMA ShiftedInjective ==
  ASSUME NEW n \in Nat, NEW f \in 1 .. n, NEW t \in 1 .. n,
         NEW i \in 1 .. n, NEW j \in 1 .. n, Shifted(f, t, i) = Shifted(f, t, j)
  PROVE  i = j
BY DEF Shifted

LEMMA MovedGood ==
  ASSUME NEW ts, NEW q, NEW k, Good(ts, q, k), shuffle \in BOOLEAN,
         NEW f \in 1 .. Len(ts), NEW t \in 1 .. Len(ts),
         NEW r, r = Moved([tracks |-> ts, queue |-> q, index |-> k], f, t)
  PROVE  /\ Good(r.tracks, r.queue, r.index)
         /\ r.tracks[r.queue[r.index]] = ts[q[k]]
<1>1. PICK n \in Nat : n = Len(ts)
  BY GoodFacts
<1>2. /\ ts \in Seq(Ids) /\ n > 0
      /\ q \in Seq(Nat) /\ Len(q) = n /\ q \in [1 .. n -> 1 .. n] /\ DOMAIN q = 1 .. n
      /\ \A i, j \in 1 .. n : q[i] = q[j] => i = j
      /\ k \in 1 .. n
  BY <1>1, GoodFacts
<1>3. PICK ts2 : ts2 = InsertAt(RemoveAt(ts, f), t, ts[f])
  OBVIOUS
<1>4. \A i \in 1 .. n : /\ Shifted(f, t, i) \in 1 .. n
                        /\ ts2[Shifted(f, t, i)] = ts[i]
  <2>1. ts \in Seq(Ids)
    BY <1>2
  <2> SUFFICES ASSUME NEW i \in 1 .. Len(ts)
               PROVE  /\ Shifted(f, t, i) \in 1 .. Len(ts)
                      /\ ts2[Shifted(f, t, i)] = ts[i]
    BY <1>1
  <2> QED BY <1>3, <2>1, ShiftedElement
<1>5. ts2 \in Seq(Ids) /\ Len(ts2) = n
  <2>1. ts \in Seq(Ids)
    BY <1>2
  <2>2. ts2 \in Seq(Ids) /\ Len(ts2) = Len(ts)
    BY <1>3, <2>1, ShiftedElement
  <2> QED BY <1>1, <2>2
<1>6. PICK q2 : q2 = IF shuffle THEN [j \in 1 .. n |-> Shifted(f, t, q[j])]
                                ELSE Identity(n)
  OBVIOUS
<1>7. q2 \in Orders(n)
  <2>1. CASE shuffle
    <3>1. \A j \in 1 .. n : q[j] \in 1 .. n /\ q2[j] = Shifted(f, t, q[j])
      BY <1>2, <1>6, <2>1
    <3>2. q2 \in [1 .. n -> 1 .. n]
      BY <1>4, <1>6, <2>1, <3>1
    <3>3. ASSUME NEW i \in 1 .. n, NEW j \in 1 .. n, q2[i] = q2[j] PROVE i = j
      <4>1. q[i] = q[j]
        <5>1. PICK a \in 1 .. n, b \in 1 .. n : a = q[i] /\ b = q[j]
          BY <3>1
        <5>2. Shifted(f, t, a) = Shifted(f, t, b) /\ f \in 1 .. n /\ t \in 1 .. n
          BY <1>1, <3>1, <3>3, <5>1
        <5> QED BY <5>1, <5>2, ShiftedInjective
      <4> QED BY <1>2, <4>1
    <3> QED BY <3>2, <3>3, OrderIntro
  <2>2. CASE ~shuffle
    BY <1>6, <2>2, IdentityOrder
  <2> QED BY <2>1, <2>2
<1>8. q2 \in [1 .. n -> 1 .. n] /\ DOMAIN q2 = 1 .. n
  BY <1>7, OrderProperties
<1>9. PICK order : order = [j \in 1 .. n |-> ts2[q2[j]]]
  OBVIOUS
<1>10. order \in Seq(Ids) /\ Len(order) = n /\ \A j \in 1 .. n : order[j] = ts2[q2[j]]
  <2>1. \A j \in 1 .. n : q2[j] \in 1 .. n
    BY <1>8
  <2>2. \A j \in 1 .. n : ts2[q2[j]] \in Ids
    BY <1>5, <2>1
  <2> QED BY <1>9, <2>2
<1>11. PICK id : id = ts[q[k]]
  OBVIOUS
<1>12. q[k] \in 1 .. n
  BY <1>2
<1>13. id \in Range(order)
  <2>1. ts2[Shifted(f, t, q[k])] = id /\ Shifted(f, t, q[k]) \in 1 .. n
    BY <1>4, <1>11, <1>12
  <2>2. Range(q2) = 1 .. n
    BY <1>7, OrderProperties
  <2>3. PICK j \in 1 .. n : q2[j] = Shifted(f, t, q[k])
    BY <1>8, <2>1, <2>2 DEF Range
  <2>4. order[j] = id /\ j \in DOMAIN order
    BY <1>9, <1>10, <2>1, <2>3
  <2> QED BY <2>4 DEF Range
<1>14. r = [tracks |-> ts2, queue |-> q2, index |-> FirstAt(order, id)]
  <2>1. PICK l : l = [tracks |-> ts, queue |-> q, index |-> k]
    OBVIOUS
  <2>2. l.tracks = ts /\ l.queue = q /\ l.index = k
    BY <2>1
  <2>3. order = [j \in DOMAIN q2 |-> ts2[q2[j]]]
    BY <1>8, <1>9
  <2>4. q2 = IF shuffle THEN [j \in DOMAIN q |-> Shifted(f, t, q[j])] ELSE Identity(Len(ts))
    BY <1>1, <1>2, <1>6
  <2>5. r = Moved(l, f, t)
    BY <2>1
  <2>6. r = [tracks |-> ts2, queue |-> q2,
             index |-> IF id \in Range(order) THEN FirstAt(order, id) ELSE k]
    BY <1>3, <1>11, <2>2, <2>3, <2>4, <2>5 DEF Moved
  <2> QED BY <1>13, <2>6
<1>15. FirstAt(order, id) \in 1 .. n /\ order[FirstAt(order, id)] = id
  BY <1>10, <1>13, FirstAtFound
<1>16. /\ r.tracks \in Seq(Ids) /\ r.queue \in Orders(Len(r.tracks))
       /\ r.index \in Nat \ {0} /\ (r.index <= Len(r.tracks) \/ r.index = 1)
  BY <1>5, <1>7, <1>14, <1>15
<1>17. r.tracks[r.queue[r.index]] = ts[q[k]]
  BY <1>10, <1>11, <1>14, <1>15
<1> QED BY <1>16, <1>17 DEF Good

-----------------------------------------------------------------------------
(* Each operation preserves the invariant.                                  *)

LEMMA InvAddTrack ==
  ASSUME Inv, NEW t \in Ids, AddTrack(t)
  PROVE  Inv'
<1>1. Good(tracks, queue, index)
  BY DEF Inv
<1>2. PICK ts, q : ts = Append(tracks, t) /\ q = Append(queue, Len(tracks) + 1)
  OBVIOUS
<1>3. Good(ts, q, index)
  BY <1>1, <1>2, AddedGood
<1> QED BY <1>2, <1>3 DEF Inv, AddTrack

LEMMA InvInsertTrack ==
  ASSUME Inv, NEW position \in Nat \ {0}, NEW t \in Ids, InsertTrack(position, t)
  PROVE  Inv'
<1>1. PICK r : r = Inserted(List, position, t)
  OBVIOUS
<1>2. Good(r.tracks, r.queue, r.index)
  BY <1>1, InsertedGood DEF Inv, List
<1>3. tracks' = r.tracks /\ queue' = r.queue /\ index' = r.index
  BY <1>1 DEF InsertTrack, Becomes
<1> QED BY <1>2, <1>3 DEF Inv, InsertTrack

LEMMA InvMoveTrack ==
  ASSUME Inv, NEW f \in 1 .. Len(tracks), NEW t \in 1 .. Len(tracks), MoveTrack(f, t)
  PROVE  Inv'
<1>1. PICK r : r = Moved(List, f, t)
  OBVIOUS
<1>2. Good(r.tracks, r.queue, r.index)
  BY <1>1, MovedGood DEF Inv, List
<1>3. tracks' = r.tracks /\ queue' = r.queue /\ index' = r.index
  BY <1>1 DEF MoveTrack, Becomes
<1> QED BY <1>2, <1>3 DEF Inv, MoveTrack

LEMMA InvRemoveTrack ==
  ASSUME Inv, NEW i \in 1 .. Len(tracks), RemoveTrack(i)
  PROVE  Inv'
<1>1. PICK n \in Nat : n = Len(tracks) - 1
  <2>1. Len(tracks) \in Nat
    BY GoodFacts DEF Inv
  <2> QED BY <2>1
<1>2. PICK ts : ts = RemoveAt(tracks, i)
  OBVIOUS
<1>3. ts \in Seq(Ids) /\ Len(ts) = n
  <2>1. tracks \in Seq(Ids)
    BY DEF Inv, Good
  <2>2. ts \in Seq(Ids) /\ Len(ts) = Len(tracks) - 1
    BY <1>2, <2>1, RemoveAtElements
  <2> QED BY <1>1, <2>2
<1>4. CASE Len(tracks) = 1
  <2>1. tracks' = <<>> /\ queue' = <<>> /\ index' = 1
    BY <1>1, <1>2, <1>3, <1>4 DEF RemoveTrack
  <2>2. Good(<<>>, <<>>, 1)
    BY EmptyGood
  <2> QED BY <2>1, <2>2 DEF Inv, RemoveTrack
<1>5. CASE Len(tracks) # 1
  <2>0. PICK cur \in ReadQueue(index) :
          \E r \in Rebuilt(n, shuffle, TRUE, cur) :
            /\ queue' = r.queue
            /\ index' = IF r.index > n THEN n ELSE r.index
    BY <1>1, <1>5 DEF RemoveTrack
  <2>1. PICK r \in Rebuilt(n, shuffle, TRUE, cur) :
          /\ queue' = r.queue
          /\ index' = IF r.index > n THEN n ELSE r.index
    BY <2>0
  <2>2. cur \in Nat \ {0} /\ n > 0
    <3>1. n > 0 /\ index \in 1 .. Len(queue) /\ queue[index] \in Nat \ {0}
      BY <1>1, <1>5, GoodFacts DEF Inv
    <3> QED BY <3>1 DEF ReadQueue
  <2>3. r.queue \in Orders(n) /\ r.index \in Nat \ {0}
    BY <2>2, RebuiltGood
  <2>4. PICK d : d = IF r.index > n THEN n ELSE r.index
    OBVIOUS
  <2>5. d \in Nat \ {0} /\ d <= n
    BY <2>2, <2>3, <2>4
  <2>6. Good(ts, r.queue, d)
    BY <1>3, <2>3, <2>5 DEF Good
  <2>7. tracks' = ts /\ queue' = r.queue /\ index' = d
    BY <1>2, <2>1, <2>4 DEF RemoveTrack
  <2> QED BY <2>6, <2>7 DEF Inv, RemoveTrack
<1> QED BY <1>4, <1>5

LEMMA InvEmptied ==
  ASSUME Inv, Clear \/ ClearKeepActive
  PROVE  Inv'
<1>1. Good(<<>>, <<>>, 1)
  BY EmptyGood
<1>2. active' \in Ids \cup {NoTrack}
  <2>1. CASE Clear
    BY <2>1 DEF Clear
  <2>2. CASE ClearKeepActive
    <3>1. CASE active = NoTrack /\ tracks # <<>>
      <4>1. queue[index] \in 1 .. Len(tracks)
        BY <3>1, GoodFacts DEF Inv
      <4>2. tracks[queue[index]] \in Ids
        BY <4>1, GoodFacts DEF Inv
      <4> QED BY <2>2, <3>1, <4>2 DEF ClearKeepActive, Here
    <3>2. CASE ~(active = NoTrack /\ tracks # <<>>)
      BY <2>2, <3>2 DEF ClearKeepActive, Inv
    <3> QED BY <3>1, <3>2
  <2> QED BY <2>1, <2>2
<1> QED BY <1>1, <1>2 DEF Inv, Clear, ClearKeepActive

\* A move of the place within an unchanged list and order.
LEMMA InvPlaced ==
  ASSUME Inv, tracks # <<>>, UNCHANGED <<tracks, queue, shuffle, repeat>>,
         NEW k \in 1 .. Len(tracks), index' = k, active' = tracks[queue[k]]
  PROVE  Inv'
<1>1. Good(tracks, queue, index) /\ queue[k] \in 1 .. Len(tracks)
  BY GoodFacts DEF Inv
<1>2. tracks[queue[k]] \in Ids
  BY <1>1, GoodFacts
<1>3. Good(tracks, queue, k)
  <2>1. Len(tracks) \in Nat
    BY <1>1, GoodFacts
  <2> QED BY <1>1, <2>1 DEF Good
<1> QED BY <1>2, <1>3 DEF Inv

\* A new order of an unchanged list, from its start.
LEMMA InvReordered ==
  ASSUME Inv, tracks # <<>>, UNCHANGED <<tracks, repeat>>, shuffle' \in BOOLEAN,
         NEW o \in Orders(Len(tracks)), queue' = o, index' = 1, active' = tracks[o[1]]
  PROVE  Inv'
<1>1. PICK n \in Nat : n = Len(tracks) /\ n > 0
  BY GoodFacts DEF Inv
<1>2. o[1] \in 1 .. n
  BY <1>1, OrderProperties
<1>3. tracks[o[1]] \in Ids
  BY <1>1, <1>2, GoodFacts DEF Inv
<1>4. Good(tracks, o, 1)
  BY DEF Inv, Good
<1> QED BY <1>3, <1>4 DEF Inv

LEMMA InvNextTrack == ASSUME Inv, NextTrack PROVE Inv'
<1>1. /\ tracks # <<>> /\ UNCHANGED <<tracks, shuffle, repeat>>
      /\ active' = tracks[queue'[index']]
  BY DEF NextTrack
<1>2. PICK n \in Nat : n = Len(tracks) /\ n > 0 /\ Len(queue) = n /\ index \in 1 .. n
  BY <1>1, GoodFacts DEF Inv
<1>3. CASE repeat = "One" \/ External
  <2>1. queue' = queue /\ index' = index
    BY <1>3 DEF NextTrack
  <2> QED BY <1>1, <1>2, <2>1, InvPlaced
<1>4. CASE ~(repeat = "One" \/ External)
  <2>1. CASE index < Len(queue) /\ index' = index + 1 /\ queue' = queue
    <3>1. PICK k \in 1 .. n : k = index + 1
      BY <1>2, <2>1
    <3> QED BY <1>1, <1>2, <2>1, <3>1, InvPlaced
  <2>2. CASE index' = 1 /\ queue' = queue
    BY <1>1, <1>2, <2>2, InvPlaced
  <2>3. CASE \E cur \in ReadQueue(index + 1) :
               \E r \in Rebuilt(Len(tracks), TRUE, FALSE, cur) :
                 queue' = r.queue /\ index' = r.index
    <3>0. PICK cur \in ReadQueue(index + 1) :
            \E r \in Rebuilt(n, TRUE, FALSE, cur) : queue' = r.queue /\ index' = r.index
      BY <1>2, <2>3
    <3>1. PICK r \in Rebuilt(n, TRUE, FALSE, cur) : queue' = r.queue /\ index' = r.index
      BY <3>0
    <3>2. r.queue \in Orders(n) /\ r.index = 1
      <4>1. PICK o \in Orders(n) : r = [queue |-> o, index |-> 1]
        BY DEF Rebuilt
      <4> QED BY <4>1
    <3>3. shuffle' \in BOOLEAN
      BY <1>1 DEF Inv
    <3> QED BY <1>1, <1>2, <3>1, <3>2, <3>3, InvReordered
  <2> QED BY <1>4, <2>1, <2>2, <2>3 DEF NextTrack
<1> QED BY <1>3, <1>4

LEMMA InvPreviousTrack == ASSUME Inv, PreviousTrack PROVE Inv'
<1>1. /\ tracks # <<>> /\ UNCHANGED <<tracks, queue, shuffle, repeat>>
      /\ active' = tracks[queue[index']]
  BY DEF PreviousTrack
<1>2. PICK n \in Nat : n = Len(tracks) /\ n > 0 /\ Len(queue) = n /\ index \in 1 .. n
  BY <1>1, GoodFacts DEF Inv
<1>3. PICK k : k = IF repeat = "One" \/ External THEN index
                   ELSE IF index > 1 THEN index - 1
                   ELSE IF repeat = "All" THEN Len(queue) ELSE 1
  OBVIOUS
<1>4. k \in 1 .. n
  BY <1>2, <1>3
<1>5. index' = k
  BY <1>3 DEF PreviousTrack
<1> QED BY <1>1, <1>2, <1>4, <1>5, InvPlaced

LEMMA InvJump ==
  ASSUME Inv, NEW i \in 1 .. Len(tracks), JumpTo(i) \/ JumpToQueueIndex(i)
  PROVE  Inv'
<1>1. PICK n \in Nat : /\ n = Len(tracks) /\ n > 0 /\ tracks # <<>>
                       /\ queue \in Seq(Nat) /\ Len(queue) = n
  BY GoodFacts DEF Inv
<1>2. CASE JumpTo(i)
  <2>1. /\ i \in Range(queue) /\ index' = FirstAt(queue, i) /\ active' = tracks[i]
        /\ UNCHANGED <<tracks, queue, shuffle, repeat>>
    BY <1>2 DEF JumpTo
  <2>2. FirstAt(queue, i) \in 1 .. n /\ queue[FirstAt(queue, i)] = i
    BY <1>1, <2>1, FirstAtFound
  <2> QED BY <1>1, <2>1, <2>2, InvPlaced
<1>3. CASE JumpToQueueIndex(i)
  BY <1>1, <1>3, InvPlaced DEF JumpToQueueIndex
<1> QED BY <1>2, <1>3

LEMMA InvActive ==
  ASSUME Inv, NEW t \in Ids, SetActiveTrack(t)
  PROVE  Inv'
BY DEF Inv, SetActiveTrack

LEMMA InvAlign == ASSUME Inv, AlignWithActiveTrack PROVE Inv'
<1>1. PICK k : k = FirstAt(queue, FirstAt(tracks, active))
  OBVIOUS
<1>2. index' = k /\ UNCHANGED <<tracks, queue, active, shuffle, repeat>>
  BY <1>1 DEF AlignWithActiveTrack
<1>3. Good(tracks, queue, index) /\ Len(queue) = Len(tracks) /\ queue \in Seq(Nat)
  BY GoodFacts DEF Inv
<1>4. k \in 1 .. Len(tracks)
  BY <1>1, <1>3, FirstAtFound DEF AlignWithActiveTrack
<1>5. Good(tracks, queue, k)
  <2>1. Len(tracks) \in Nat
    BY <1>3, GoodFacts
  <2> QED BY <1>3, <1>4, <2>1 DEF Good
<1> QED BY <1>2, <1>5 DEF Inv

LEMMA InvPlayTrackNow ==
  ASSUME Inv, NEW t \in Ids, PlayTrackNow(t)
  PROVE  Inv'
<1>1. PICK n \in Nat : n = Len(tracks)
  BY GoodFacts DEF Inv
<1>2. /\ tracks \in Seq(Ids) /\ Good(tracks, queue, index)
      /\ queue \in Seq(Nat) /\ Len(queue) = n /\ queue \in [1 .. n -> 1 .. n]
      /\ \A i, j \in 1 .. n : queue[i] = queue[j] => i = j
      /\ Range(queue) = 1 .. n /\ (n > 0 => index \in 1 .. n)
  BY <1>1, GoodFacts DEF Inv
<1>3. PICK i : i = FirstAt(tracks', t)
  OBVIOUS
<1>4. CASE t \in Range(tracks)
  <2>1. tracks' = tracks
    BY <1>4 DEF PlayTrackNow
  <2>2. i \in 1 .. n
    BY <1>1, <1>2, <1>3, <1>4, <2>1, FirstAtFound
  <2>3. queue' = queue /\ index' = FirstAt(queue, i)
    BY <1>2, <1>3, <2>2 DEF PlayTrackNow
  <2>4. PICK k \in 1 .. n : k = FirstAt(queue, i)
    BY <1>2, <2>2, FirstAtFound
  <2>5. Good(tracks, queue, k)
    BY <1>1, <1>2, <2>4 DEF Good
  <2> QED BY <2>1, <2>3, <2>4, <2>5 DEF Inv, PlayTrackNow
<1>5. CASE t \notin Range(tracks)
  <2>1. PICK m \in Nat : m = n + 1
    OBVIOUS
  <2>2. PICK ts : ts = Append(tracks, t)
    OBVIOUS
  <2>3. tracks' = ts
    BY <1>5, <2>2 DEF PlayTrackNow
  <2>4. ts \in Seq(Ids) /\ Len(ts) = m /\ ts[m] = t /\ \A j \in 1 .. n : ts[j] = tracks[j]
    BY <1>1, <1>2, <2>1, <2>2, AppendProperties
  <2>5. i = m
    <3>1. DOMAIN ts = 1 .. m /\ m \in 1 .. m
      BY <2>1, <2>4
    <3>2. t \in Range(ts)
      BY <2>4, <3>1 DEF Range
    <3>3. i \in 1 .. m /\ ts[i] = t
      BY <1>3, <2>3, <2>4, <3>2, FirstAtFound
    <3>4. DOMAIN tracks = 1 .. n
      BY <1>1, <1>2
    <3>5. \A j \in 1 .. n : tracks[j] # t
      BY <1>5, <3>4 DEF Range
    <3> QED BY <2>1, <2>4, <3>3, <3>5
  <2>6. i \notin Range(queue)
    BY <1>2, <2>1, <2>5
  <2>7. CASE queue = <<>>
    <3>1. queue' = <<i>> /\ index' = 1
      BY <1>3, <2>6, <2>7 DEF PlayTrackNow
    <3>2. n = 0 /\ i = 1 /\ m = 1
      BY <1>2, <2>1, <2>5, <2>7
    <3>3. <<1>> \in [1 .. 1 -> 1 .. 1]
      OBVIOUS
    <3>4. <<1>> \in Orders(1)
      BY <3>3 DEF Orders, Injection, IsInjective
    <3>5. Good(ts, <<i>>, 1)
      BY <2>4, <3>2, <3>4 DEF Good
    <3> QED BY <2>3, <3>1, <3>5 DEF Inv, PlayTrackNow
  <2>8. CASE queue # <<>>
    <3>1. PICK k \in 1 .. m : k = index + 1
      BY <1>2, <2>1, <2>8
    <3>2. queue' = InsertAt(queue, k, m) /\ index' = k
      BY <1>3, <2>5, <2>6, <2>8, <3>1 DEF PlayTrackNow
    <3>3. \A j \in 1 .. n : queue[j] \in 1 .. m /\ queue[j] # m
      BY <1>2, <2>1
    <3>4. queue \in [1 .. n -> 1 .. m] /\ m \in 1 .. m
      BY <1>2, <2>1, <3>3
    <3>5. InsertAt(queue, k, m) \in Orders(m)
      BY <1>2, <2>1, <3>3, <3>4, Splice
    <3>6. Good(ts, InsertAt(queue, k, m), k)
      BY <2>4, <3>1, <3>5 DEF Good
    <3> QED BY <2>3, <3>2, <3>6 DEF Inv, PlayTrackNow
  <2> QED BY <2>7, <2>8
<1> QED BY <1>4, <1>5

LEMMA InvSetShuffle ==
  ASSUME Inv, NEW enable \in BOOLEAN, SetShuffle(enable)
  PROVE  Inv'
<1>1. shuffle' = enable /\ UNCHANGED <<tracks, repeat>>
  BY DEF SetShuffle
<1>2. CASE tracks # <<>>
  <2>0. PICK cur \in ReadQueue(index) :
          \E r \in Rebuilt(Len(tracks), enable, FALSE, cur) :
            queue' = r.queue /\ index' = 1 /\ active' = tracks[r.queue[1]]
    BY <1>2 DEF SetShuffle
  <2>1. PICK r \in Rebuilt(Len(tracks), enable, FALSE, cur) :
          queue' = r.queue /\ index' = 1 /\ active' = tracks[r.queue[1]]
    BY <2>0
  <2>2. Len(tracks) \in Nat
    BY GoodFacts DEF Inv
  <2>3. r.queue \in Orders(Len(tracks))
    <3>1. CASE enable
      <4>1. PICK o \in Orders(Len(tracks)) : r = [queue |-> o, index |-> 1]
        BY <3>1 DEF Rebuilt
      <4> QED BY <4>1
    <3>2. CASE ~enable
      <4>1. r = [queue |-> Identity(Len(tracks)), index |-> 1]
        BY <3>2 DEF Rebuilt
      <4> QED BY <2>2, <4>1, IdentityOrder
    <3> QED BY <3>1, <3>2
  <2> QED BY <1>1, <1>2, <2>1, <2>3, InvReordered
<1>3. CASE tracks = <<>>
  <2>1. index' = 1 /\ UNCHANGED <<queue, active>>
    BY <1>3 DEF SetShuffle
  <2>2. Good(tracks, queue, 1)
    BY DEF Inv, Good
  <2> QED BY <1>1, <2>1, <2>2 DEF Inv
<1> QED BY <1>2, <1>3

LEMMA InvRestore ==
  ASSUME Inv, NEW ids \in SavedQueues, RestoreShuffleQueue(ids)
  PROVE  Inv'
<1>1. shuffle' = TRUE /\ UNCHANGED <<tracks, index, active, repeat>>
  BY DEF RestoreShuffleQueue
<1>2. PICK n \in Nat : n = Len(tracks)
  BY GoodFacts DEF Inv
<1>3. queue' \in Orders(n)
  <2>1. CASE Len(ids) = Len(tracks)
    <3>1. tracks \in Seq(Ids)
      BY DEF Inv, Good
    <3>2. PICK l \in 0 .. n : ids \in [1 .. l -> Range(tracks)]
      BY <1>2 DEF SavedQueues
    <3>3. l = n /\ DOMAIN ids = 1 .. n
      BY <1>2, <2>1, <3>2
    <3>4. \A k \in 1 .. n : ids[k] \in Range(tracks)
      BY <3>2, <3>3
    <3>5. \A j, k \in 1 .. n : ids[j] = ids[k] => j = k
      BY <3>3 DEF SavedQueues, IsInjective
    <3>6. PICK o : o = [k \in 1 .. n |-> FirstAt(tracks, ids[k])]
      OBVIOUS
    <3>7. \A k \in 1 .. n : o[k] \in 1 .. n /\ tracks[o[k]] = ids[k]
      BY <1>2, <3>1, <3>4, <3>6, FirstAtFound
    <3>8. o \in [1 .. n -> 1 .. n]
      BY <3>6, <3>7
    <3>9. \A j, k \in 1 .. n : o[j] = o[k] => j = k
      BY <3>5, <3>7
    <3>10. o \in Orders(n)
      BY <3>8, <3>9, OrderIntro
    <3> QED BY <2>1, <3>3, <3>6, <3>10 DEF RestoreShuffleQueue
  <2>2. CASE Len(ids) # Len(tracks)
    BY <1>2, <2>2 DEF RestoreShuffleQueue
  <2> QED BY <2>1, <2>2
<1>4. Good(tracks, queue', index)
  BY <1>2, <1>3 DEF Inv, Good
<1> QED BY <1>1, <1>4 DEF Inv

LEMMA InvRepeat ==
  ASSUME Inv, ToggleRepeat \/ \E mode \in Modes \cup {"unknown"} : SetRepeatMode(mode)
  PROVE  Inv'
<1>1. repeat' \in Modes
  BY DEF Inv, ToggleRepeat, SetRepeatMode, Modes
<1> QED BY <1>1 DEF Inv, ToggleRepeat, SetRepeatMode

LEMMA InvNext == Inv /\ [Next]_vars => Inv'
<1> SUFFICES ASSUME Inv, [Next]_vars PROVE Inv'
  OBVIOUS
<1>1. CASE Edit
  <2>1. ASSUME NEW t \in Ids, AddTrack(t) PROVE Inv'
    BY <2>1, InvAddTrack
  <2>2. ASSUME NEW position \in 1 .. MaxTracks, NEW t \in Ids, InsertTrack(position, t)
        PROVE  Inv'
    <3>1. position \in Nat \ {0}
      OBVIOUS
    <3> QED BY <2>2, <3>1, InvInsertTrack
  <2>3. ASSUME NEW f \in 1 .. Len(tracks), NEW t \in 1 .. Len(tracks), MoveTrack(f, t)
        PROVE  Inv'
    BY <2>3, InvMoveTrack
  <2> QED BY <1>1, <2>1, <2>2, <2>3 DEF Edit
<1>2. CASE Discard
  <2>1. ASSUME NEW i \in 1 .. Len(tracks), RemoveTrack(i) PROVE Inv'
    BY <2>1, InvRemoveTrack
  <2> QED BY <1>2, <2>1, InvEmptied DEF Discard
<1>3. CASE Choose
  <2>1. Len(queue) = Len(tracks)
    BY GoodFacts DEF Inv
  <2>2. ASSUME NEW k \in 1 .. Len(queue), JumpToQueueIndex(k) PROVE Inv'
    <3>1. k \in 1 .. Len(tracks)
      BY <2>1
    <3> QED BY <2>2, <3>1, InvJump
  <2>3. ASSUME NEW t \in Ids, SetActiveTrack(t) PROVE Inv'
    BY <2>3, InvActive
  <2>4. ASSUME NEW t \in Ids, PlayTrackNow(t) PROVE Inv'
    BY <2>4, InvPlayTrackNow
  <2>5. ASSUME NEW i \in 1 .. Len(tracks), JumpTo(i) PROVE Inv'
    BY <2>5, InvJump
  <2> QED BY <1>3, <2>2, <2>3, <2>4, <2>5, InvNextTrack, InvPreviousTrack, InvAlign, Zenon
          DEF Choose
<1>4. CASE Order
  <2>1. ASSUME NEW enable \in BOOLEAN, SetShuffle(enable) PROVE Inv'
    BY <2>1, InvSetShuffle
  <2>2. ASSUME NEW ids \in SavedQueues, RestoreShuffleQueue(ids) PROVE Inv'
    BY <2>2, InvRestore
  <2> QED BY <1>4, <2>1, <2>2, InvRepeat DEF Order
<1>5. CASE UNCHANGED vars
  BY <1>5 DEF Inv, vars
<1> QED BY <1>1, <1>2, <1>3, <1>4, <1>5 DEF Next

-----------------------------------------------------------------------------
(* The theorems.                                                            *)

(* At every moment, whatever was added, moved, removed, shuffled or         *)
(* restored, the list, the queue and the place fit together.                *)
THEOREM Invariance == Spec => []Inv
BY InvInit, InvNext, PTL DEF Spec

(* The members of PlaylistManager keep their types.                         *)
THEOREM TypeCorrect == Spec => []TypeOK
BY Invariance, InvGood, PTL

(* m_playQueue names every track of m_tracks exactly once.                  *)
THEOREM Permutation == Spec => []QueueIsPermutation
BY Invariance, InvGood, PTL

(* m_playQueue[m_queueIndex] exists after every operation, for each value    *)
(* that Next's read beyond the end of the queue may yield.                  *)
THEOREM PlaceExists == Spec => []PlaceInQueue
BY Invariance, InvGood, PTL

(* AddTrack, InsertTrack and MoveTrack never change whose turn it is.       *)
THEOREM PlaceKept == Spec => EditKeepsPlace
<1>1. Inv /\ [Next]_vars => [Edit /\ tracks # <<>> => Here' = Here]_vars
  <2> SUFFICES ASSUME Inv, Edit, tracks # <<>> PROVE Here' = Here
    OBVIOUS
  <2>1. Good(tracks, queue, index) /\ shuffle \in BOOLEAN /\ Len(tracks) > 0
    BY GoodFacts DEF Inv
  <2>2. ASSUME NEW t \in Ids, AddTrack(t) PROVE Here' = Here
    <3>1. /\ tracks \in Seq(Ids) /\ queue \in Seq(Nat) /\ Len(queue) = Len(tracks)
          /\ index \in 1 .. Len(tracks) /\ queue[index] \in 1 .. Len(tracks)
      BY <2>1, GoodFacts
    <3>2. /\ tracks' = Append(tracks, t) /\ queue' = Append(queue, Len(tracks) + 1)
          /\ index' = index
      BY <2>2 DEF AddTrack
    <3>3. queue'[index] = queue[index] /\ tracks'[queue[index]] = tracks[queue[index]]
      BY <3>1, <3>2
    <3> QED BY <3>2, <3>3 DEF Here
  <2>3. ASSUME NEW position \in 1 .. MaxTracks, NEW t \in Ids, InsertTrack(position, t)
        PROVE  Here' = Here
    <3>1. position \in Nat \ {0}
      OBVIOUS
    <3>2. PICK r : r = Inserted(List, position, t)
      OBVIOUS
    <3>3. r.tracks[r.queue[r.index]] = tracks[queue[index]]
      BY <2>1, <3>1, <3>2, InsertedGood DEF List
    <3>4. tracks' = r.tracks /\ queue' = r.queue /\ index' = r.index
      BY <2>3, <3>2 DEF InsertTrack, Becomes
    <3> QED BY <3>3, <3>4 DEF Here
  <2>4. ASSUME NEW f \in 1 .. Len(tracks), NEW t \in 1 .. Len(tracks), MoveTrack(f, t)
        PROVE  Here' = Here
    <3>1. PICK r : r = Moved(List, f, t)
      OBVIOUS
    <3>2. r.tracks[r.queue[r.index]] = tracks[queue[index]]
      BY <2>1, <3>1, MovedGood DEF List
    <3>3. tracks' = r.tracks /\ queue' = r.queue /\ index' = r.index
      BY <2>4, <3>1 DEF MoveTrack, Becomes
    <3> QED BY <3>2, <3>3 DEF Here
  <2> QED BY <2>2, <2>3, <2>4 DEF Edit
<1> QED BY <1>1, Invariance, PTL DEF Spec, EditKeepsPlace

-----------------------------------------------------------------------------
(* The order of a queue that is not shuffled.                               *)

LEMMA AppendedInOrder ==
  ASSUME NEW n \in Nat PROVE Append(Identity(n), n + 1) = Identity(n + 1)
BY DEF Identity

LEMMA InsertedInOrder ==
  ASSUME NEW n \in Nat, NEW k \in 1 .. (n + 1)
  PROVE  InsertAt([j \in 1 .. n |-> IF j >= k THEN j + 1 ELSE j], k, k) = Identity(n + 1)
<1> DEFINE up == [j \in 1 .. n |-> IF j >= k THEN j + 1 ELSE j]
<1>1. up \in Seq(Nat) /\ Len(up) = n /\ \A j \in 1 .. n : up[j] = IF j >= k THEN j + 1 ELSE j
  OBVIOUS
<1> HIDE DEF up
<1>2. up \in Seq(Nat) /\ k \in 1 .. (Len(up) + 1) /\ k \in Nat
  BY <1>1
<1>3. InsertAt(up, k, k)
        = [i \in 1 .. (Len(up) + 1) |->
             IF i < k THEN up[i] ELSE IF i = k THEN k ELSE up[i - 1]]
  BY <1>2, InsertAtFunction
<1>4. ASSUME NEW i \in 1 .. (n + 1)
      PROVE  (IF i < k THEN up[i] ELSE IF i = k THEN k ELSE up[i - 1]) = i
  <2>1. CASE i < k
    BY <1>1, <2>1
  <2>2. CASE i = k
    BY <2>2
  <2>3. CASE i > k
    <3>1. i - 1 \in 1 .. n /\ i - 1 >= k /\ (i - 1) + 1 = i
      BY <2>3
    <3> QED BY <1>1, <2>3, <3>1
  <2> QED BY <2>1, <2>2, <2>3
<1>5. InsertAt(up, k, k) = [i \in 1 .. (n + 1) |-> i]
  BY <1>1, <1>3, <1>4
<1> QED BY <1>5 DEF up, Identity

LEMMA EditInOrder ==
  ASSUME Inv, InListOrder, ~shuffle, Edit
  PROVE  InListOrder'
<1>1. PICK n \in Nat : n = Len(tracks) /\ tracks \in Seq(Ids)
  BY GoodFacts DEF Inv
<1>2. queue = Identity(n)
  BY <1>1 DEF InListOrder
<1>3. ASSUME NEW t \in Ids, AddTrack(t) PROVE InListOrder'
  <2>1. tracks' = Append(tracks, t) /\ queue' = Append(Identity(n), n + 1)
    BY <1>1, <1>2, <1>3 DEF AddTrack
  <2>2. Len(tracks') = n + 1
    BY <1>1, <2>1, AppendProperties
  <2> QED BY <2>1, <2>2, AppendedInOrder DEF InListOrder
<1>4. ASSUME NEW position \in 1 .. MaxTracks, NEW t \in Ids, InsertTrack(position, t)
      PROVE  InListOrder'
  <2>1. PICK k \in 1 .. (n + 1) : k = IF position > n THEN n + 1 ELSE position
    OBVIOUS
  <2>2. DOMAIN queue = 1 .. n /\ \A j \in 1 .. n : queue[j] = j
    BY <1>2 DEF Identity
  <2>3. PICK up : up = [j \in DOMAIN queue |-> IF queue[j] >= k THEN queue[j] + 1 ELSE queue[j]]
    OBVIOUS
  <2>4. up = [j \in 1 .. n |-> IF j >= k THEN j + 1 ELSE j]
    BY <2>2, <2>3
  <2>5. tracks' = InsertAt(tracks, k, t) /\ queue' = InsertAt(up, k, k)
    BY <1>1, <1>4, <2>1, <2>3 DEF InsertTrack, Becomes, Inserted, List
  <2>6. Len(tracks') = n + 1
    BY <1>1, <2>1, <2>5, InsertAtElements
  <2>7. queue' = Identity(n + 1)
    BY <2>4, <2>5, InsertedInOrder
  <2> QED BY <2>6, <2>7 DEF InListOrder
<1>5. ASSUME NEW f \in 1 .. Len(tracks), NEW t \in 1 .. Len(tracks), MoveTrack(f, t)
      PROVE  InListOrder'
  <2>1. PICK r : r = Moved(List, f, t)
    OBVIOUS
  <2>2. tracks' = r.tracks /\ queue' = r.queue
    BY <1>5, <2>1 DEF MoveTrack, Becomes
  <2>3. r.queue = Identity(n) /\ r.tracks = InsertAt(RemoveAt(tracks, f), t, tracks[f])
    BY <1>1, <2>1 DEF Moved, List
  <2>4. Len(r.tracks) = n
    <3>1. Len(InsertAt(RemoveAt(tracks, f), t, tracks[f])) = Len(tracks)
      BY <1>1, f \in 1 .. Len(tracks), ShiftedElement
    <3> QED BY <1>1, <2>3, <3>1
  <2> QED BY <2>2, <2>3, <2>4 DEF InListOrder
<1> QED BY <1>3, <1>4, <1>5 DEF Edit

LEMMA DiscardInOrder ==
  ASSUME Inv, ~shuffle, Discard
  PROVE  InListOrder'
<1>1. Identity(0) = <<>> /\ Len(<<>>) = 0
  BY DEF Identity
<1>2. CASE Clear \/ ClearKeepActive
  BY <1>1, <1>2 DEF Clear, ClearKeepActive, InListOrder
<1>3. ASSUME NEW i \in 1 .. Len(tracks), RemoveTrack(i) PROVE InListOrder'
  <2>1. tracks \in Seq(Ids) /\ Len(tracks) \in Nat
    BY GoodFacts DEF Inv
  <2>2. Len(tracks') = Len(tracks) - 1
    BY <1>3, <2>1, RemoveAtElements DEF RemoveTrack
  <2>3. CASE Len(tracks) = 1
    BY <1>1, <1>3, <2>2, <2>3 DEF RemoveTrack, InListOrder
  <2>4. CASE Len(tracks) # 1
    <3>0. PICK cur \in ReadQueue(index) :
            \E r \in Rebuilt(Len(tracks) - 1, shuffle, TRUE, cur) : queue' = r.queue
      BY <1>3, <2>4 DEF RemoveTrack
    <3>1. PICK r \in Rebuilt(Len(tracks) - 1, shuffle, TRUE, cur) : queue' = r.queue
      BY <3>0
    <3>2. r.queue = Identity(Len(tracks) - 1)
      BY <3>1 DEF Rebuilt
    <3> QED BY <2>2, <3>1, <3>2 DEF InListOrder
  <2> QED BY <2>3, <2>4
<1> QED BY <1>2, <1>3 DEF Discard

LEMMA ShuffleOff ==
  ASSUME Inv, SetShuffle(FALSE)
  PROVE  InListOrder'
<1>1. tracks' = tracks
  BY DEF SetShuffle
<1>2. CASE tracks # <<>>
  <2>0. PICK cur \in ReadQueue(index) :
          \E r \in Rebuilt(Len(tracks), FALSE, FALSE, cur) : queue' = r.queue
    BY <1>2 DEF SetShuffle
  <2>1. PICK r \in Rebuilt(Len(tracks), FALSE, FALSE, cur) : queue' = r.queue
    BY <2>0
  <2>2. r.queue = Identity(Len(tracks))
    BY <2>1 DEF Rebuilt
  <2> QED BY <1>1, <2>1, <2>2 DEF InListOrder
<1>3. CASE tracks = <<>>
  <2>1. queue' = queue
    BY <1>3 DEF SetShuffle
  <2>2. queue \in Orders(0) /\ Len(tracks) = 0
    BY <1>3 DEF Inv, Good
  <2>3. queue = Identity(0)
    <3>1. queue \in [1 .. 0 -> 1 .. 0]
      BY <2>2, OrderProperties
    <3> QED BY <3>1 DEF Identity
  <2> QED BY <1>1, <2>1, <2>2, <2>3 DEF InListOrder
<1> QED BY <1>2, <1>3

(* Without shuffle every step but PlayTrackNow leaves the queue in the       *)
(* order of the list, the edits, removals and ways of turning shuffle off    *)
(* among them.                                                              *)
THEOREM Ordered == Spec => OrderedUnlessShuffled
<1> DEFINE P == shuffle \/ InListOrder
<1>1. Inv /\ [Next]_vars
        => [P => shuffle' \/ InListOrder' \/ \E t \in Ids : PlayTrackNow(t)]_vars
  <2> SUFFICES ASSUME Inv, Next, P
               PROVE  shuffle' \/ InListOrder' \/ \E t \in Ids : PlayTrackNow(t)
    OBVIOUS
  <2>0. shuffle \in BOOLEAN
    BY DEF Inv
  <2>1. CASE Edit
    <3>1. shuffle' = shuffle
      BY <2>1 DEF Edit, AddTrack, InsertTrack, MoveTrack
    <3> QED BY <2>1, <3>1, EditInOrder
  <2>2. CASE Discard
    <3>1. shuffle' = shuffle
      BY <2>2 DEF Discard, RemoveTrack, Clear, ClearKeepActive
    <3> QED BY <2>2, <3>1, DiscardInOrder
  <2>3. CASE Choose
    <3>1. CASE NextTrack
      <4>1. shuffle' = shuffle /\ tracks' = tracks
        BY <3>1 DEF NextTrack
      <4>2. CASE shuffle
        BY <4>1, <4>2
      <4>3. CASE ~shuffle
        <5>1. queue' = queue
          BY <3>1, <4>3 DEF NextTrack
        <5> QED BY <4>1, <4>3, <5>1 DEF InListOrder
      <4> QED BY <4>2, <4>3
    <3>2. CASE \E t \in Ids : PlayTrackNow(t)
      BY <3>2
    <3>3. CASE ~NextTrack /\ ~\E t \in Ids : PlayTrackNow(t)
      <4>1. UNCHANGED <<tracks, queue, shuffle>>
        BY <2>3, <3>3 DEF Choose, PreviousTrack, JumpTo, JumpToQueueIndex, SetActiveTrack,
           AlignWithActiveTrack
      <4> QED BY <4>1 DEF InListOrder
    <3> QED BY <3>1, <3>2, <3>3
  <2>4. CASE Order
    <3>1. ASSUME NEW enable \in BOOLEAN, SetShuffle(enable)
          PROVE  shuffle' \/ InListOrder'
      <4>1. CASE enable
        BY <3>1, <4>1 DEF SetShuffle
      <4>2. CASE enable = FALSE
        BY <3>1, <4>2, ShuffleOff
      <4> QED BY <4>1, <4>2
    <3>2. ASSUME NEW ids \in SavedQueues, RestoreShuffleQueue(ids) PROVE shuffle'
      BY <3>2 DEF RestoreShuffleQueue
    <3>3. CASE ToggleRepeat \/ \E mode \in Modes \cup {"unknown"} : SetRepeatMode(mode)
      <4>1. UNCHANGED <<tracks, queue, shuffle>>
        BY <3>3 DEF ToggleRepeat, SetRepeatMode
      <4> QED BY <4>1 DEF InListOrder
    <3> QED BY <2>4, <3>1, <3>2, <3>3 DEF Order
  <2> QED BY <2>1, <2>2, <2>3, <2>4 DEF Next
<1> QED BY <1>1, Invariance, PTL DEF Spec, OrderedUnlessShuffled

(* Next makes the track active that PeekNextTrack announced before, but      *)
(* after an external track and when a shuffled queue starts over.           *)
THEOREM PeekIsKept == Spec => NextFollowsPeek
<1>1. Inv /\ [Next]_vars
        => [/\ NextTrack
            /\ External => repeat = "One"
            /\ shuffle /\ index >= Len(queue) => repeat = "One"
            => active' = PeekNextTrack]_vars
  <2> SUFFICES ASSUME Inv, NextTrack, External => repeat = "One",
                      shuffle /\ index >= Len(queue) => repeat = "One"
               PROVE  active' = PeekNextTrack
    OBVIOUS
  <2>1. tracks # <<>> /\ active' = tracks[queue'[index']]
    BY DEF NextTrack
  <2>2. Len(queue) \in Nat /\ index \in Nat
    BY GoodFacts DEF Inv
  <2>3. CASE repeat = "One"
    BY <2>1, <2>3 DEF NextTrack, PeekNextTrack, Here
  <2>4. CASE repeat # "One" /\ index < Len(queue)
    <3>1. ~(repeat = "One" \/ External)
      BY <2>4, Zenon
    <3>2. ~(index >= Len(queue))
      BY <2>2, <2>4
    <3>3. index' = index + 1 /\ queue' = queue
      BY <3>1, <3>2, Zenon DEF NextTrack
    <3> QED BY <2>1, <2>4, <3>3 DEF PeekNextTrack
  <2>5. CASE repeat # "One" /\ index >= Len(queue)
    <3>1. ~(repeat = "One" \/ External)
      BY <2>5, Zenon
    <3>2. ~(index < Len(queue))
      BY <2>2, <2>5
    <3>3. ~(shuffle /\ index >= Len(queue))
      BY <2>5, Zenon
    <3>4. repeat = "All" /\ index' = 1 /\ queue' = queue
      BY <2>5, <3>1, <3>2, <3>3, Zenon DEF NextTrack
    <3> QED BY <2>1, <2>5, <3>2, <3>4 DEF PeekNextTrack
  <2> QED BY <2>2, <2>3, <2>4, <2>5
<1> QED BY <1>1, Invariance, PTL DEF Spec, NextFollowsPeek
===============================================================================
