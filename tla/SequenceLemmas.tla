---------------------------- MODULE SequenceLemmas ----------------------------
(***************************************************************************)
(* Facts about sequences that the proofs about several modules use: the     *)
(* least element of a set, the first place of a value, insertion, removal   *)
(* and prefixes, and induction along a sequence, in a form that does not    *)
(* need an operator as a parameter.                                         *)
(***************************************************************************)
EXTENDS Integers, SequencesExt, FiniteSetTheorems, SequenceTheorems,
        WellFoundedInduction, TLAPS

-----------------------------------------------------------------------------
(* Least elements, and what follows from them.                              *)

LEMMA Least ==
  ASSUME NEW S \in SUBSET Nat, S # {}
  PROVE  \E m \in S : \A k \in S : m <= k
<1> DEFINE R == {ss \in Nat \X Nat : ss[1] < ss[2]}
<1>1. IsWellFoundedOn(R, Nat)
  BY NatLessThanWellFounded, Zenon DEF OpToRel
<1>2. PICK m \in S : \A y \in S : ~ (<<y, m>> \in R)
  <2> HIDE DEF R
  <2> QED BY <1>1, WFMin
<1>3. \A y \in S : ~(y < m)
  BY <1>2
<1> QED BY <1>3

LEMMA FirstPlace ==
  ASSUME NEW S, NEW s \in Seq(S), NEW x \in Range(s)
  PROVE  \E i \in DOMAIN s : s[i] = x /\ \A j \in 1 .. (i - 1) : s[j] # x
<1> DEFINE Places == {i \in DOMAIN s : s[i] = x}
<1>1. Places \in SUBSET Nat /\ Places # {} /\ DOMAIN s = 1 .. Len(s)
  BY DEF Range
<1>2. PICK m \in Places : \A k \in Places : m <= k
  <2> HIDE DEF Places
  <2> QED BY <1>1, Least
<1>3. m \in DOMAIN s /\ s[m] = x /\ \A j \in 1 .. (m - 1) : s[j] # x
  <2>1. \A j \in 1 .. (m - 1) : j \in DOMAIN s /\ ~(m <= j)
    BY <1>1, <1>2
  <2> QED BY <1>2, <2>1
<1> QED BY <1>3

\* Induction up to n: what holds at 0 and is handed on holds at n.
LEMMA UpTo ==
  ASSUME NEW n \in Nat, NEW T, 0 \in T, \A i \in 0 .. (n - 1) : i \in T => i + 1 \in T
  PROVE  \A i \in 0 .. n : i \in T
<1> DEFINE F == {i \in 0 .. n : i \notin T}
<1> SUFFICES ASSUME F # {} PROVE FALSE
  OBVIOUS
<1>1. F \in SUBSET Nat
  OBVIOUS
<1>2. PICK m \in F : \A k \in F : m <= k
  <2> HIDE DEF F
  <2> QED BY <1>1, Least
<1>3. m \in 0 .. n /\ m \notin T /\ m # 0
  BY <1>2
<1>4. m - 1 \in 0 .. (n - 1) /\ (m - 1) + 1 = m /\ ~(m <= m - 1)
  BY <1>3
<1>5. m - 1 \in 0 .. n
  BY <1>4
<1>6. m - 1 \in T
  BY <1>2, <1>4, <1>5
<1> QED BY <1>3, <1>4, <1>6

\* A recursive function along 0 .. n has the values its definition gives it.
Walks(g, S, base, n, step) ==
  /\ g \in [0 .. n -> S] /\ g[0] = base
  /\ \A i \in 1 .. n : g[i] = step[<<g[i - 1], i>>]

LEMMA Iterated ==
  ASSUME NEW S, NEW base \in S, NEW n \in Nat, NEW step \in [S \X (1 .. n) -> S]
  PROVE  \E g : Walks(g, S, base, n, step)
<1> DEFINE Fits(g, k) == /\ g \in [0 .. k -> S] /\ g[0] = base
                         /\ \A i \in 1 .. k : g[i] = step[<<g[i - 1], i>>]
           T == {k \in 0 .. n : \E g : Fits(g, k)}
<1>1. 0 \in T
  <2>1. PICK g : g = [i \in 0 .. 0 |-> base]
    OBVIOUS
  <2>2. Fits(g, 0)
    BY <2>1
  <2> QED BY <2>2
<1>2. ASSUME NEW k \in 0 .. (n - 1), k \in T PROVE k + 1 \in T
  <2>1. PICK g : Fits(g, k)
    BY <1>2
  <2>2. PICK m \in 1 .. n : m = k + 1
    OBVIOUS
  <2>3. g[k] \in S /\ <<g[k], m>> \in S \X (1 .. n)
    BY <2>1
  <2>4. PICK e \in S : e = step[<<g[k], m>>]
    BY <2>3
  <2>5. PICK h : h = [i \in 0 .. m |-> IF i = m THEN e ELSE g[i]]
    OBVIOUS
  <2>6. \A i \in 0 .. k : h[i] = g[i] /\ g[i] \in S
    BY <2>1, <2>2, <2>5
  <2>7. h \in [0 .. m -> S] /\ h[0] = base
    <3>1. \A i \in 0 .. m : i = m \/ i \in 0 .. k
      BY <2>2
    <3> QED BY <2>1, <2>2, <2>5, <2>6, <3>1
  <2>8. ASSUME NEW i \in 1 .. m PROVE h[i] = step[<<h[i - 1], i>>]
    <3>1. CASE i = m
      <4>1. i - 1 = k /\ h[k] = g[k] /\ h[m] = e
        BY <2>2, <2>5, <2>6, <3>1
      <4> QED BY <2>4, <3>1, <4>1
    <3>2. CASE i # m
      <4>1. i \in 1 .. k /\ i \in 0 .. k /\ i - 1 \in 0 .. k
        BY <2>2, <3>2
      <4>2. g[i] = step[<<g[i - 1], i>>]
        BY <2>1, <4>1
      <4> QED BY <2>6, <4>1, <4>2
    <3> QED BY <3>1, <3>2
  <2>9. Fits(h, m)
    BY <2>7, <2>8
  <2> QED BY <2>2, <2>9
<1>3. \A k \in 0 .. n : k \in T
  <2> HIDE DEF T
  <2> QED BY <1>1, <1>2, UpTo
<1>4. n \in T
  <2> HIDE DEF T
  <2>1. n \in 0 .. n
    OBVIOUS
  <2> QED BY <1>3, <2>1
<1>5. \E g : Fits(g, n)
  <2> HIDE DEF Fits
  <2> QED BY <1>4
<1>6. PICK g : Fits(g, n)
  BY <1>5
<1> QED BY <1>6 DEF Walks

-----------------------------------------------------------------------------
(* Insertion and removal.                                                   *)

LEMMA InsertAtFunction ==
  ASSUME NEW S, NEW s \in Seq(S), NEW k \in 1 .. (Len(s) + 1), NEW e \in S
  PROVE  InsertAt(s, k, e)
           = [i \in 1 .. (Len(s) + 1) |->
                IF i < k THEN s[i] ELSE IF i = k THEN e ELSE s[i - 1]]
<1> DEFINE a == SubSeq(s, 1, k - 1)
           b == SubSeq(s, k, Len(s))
<1>0. Len(s) \in Nat /\ k \in Nat
  OBVIOUS
<1>1. a \in Seq(S) /\ Len(a) = k - 1 /\ \A i \in 1 .. (k - 1) : a[i] = s[i]
  <2>1. \A i \in 1 .. (k - 1) : s[i] \in S
    OBVIOUS
  <2> QED BY <1>0, <2>1, SubSeqProperties
<1>2. /\ b \in Seq(S) /\ Len(b) = Len(s) - k + 1
      /\ \A i \in 1 .. (Len(s) - k + 1) : b[i] = s[k + i - 1]
  <2>1. \A i \in k .. Len(s) : s[i] \in S
    OBVIOUS
  <2> QED BY <1>0, <2>1, SubSeqProperties
<1>3. <<e>> \in Seq(S) /\ Len(<<e>>) = 1 /\ <<e>>[1] = e
  OBVIOUS
<1> HIDE DEF a, b
<1> DEFINE ae == a \o <<e>>
<1>4. /\ ae \in Seq(S) /\ Len(ae) = k
      /\ \A i \in 1 .. k : ae[i] = IF i <= k - 1 THEN a[i] ELSE <<e>>[i - (k - 1)]
  BY <1>0, <1>1, <1>3, ConcatProperties
<1> HIDE DEF ae
<1>5. /\ ae \o b \in Seq(S) /\ Len(ae \o b) = Len(s) + 1
      /\ \A i \in 1 .. (Len(s) + 1) : (ae \o b)[i] = IF i <= k THEN ae[i] ELSE b[i - k]
  <2>1. PICK d \in Nat : d = Len(s) - k + 1
    BY <1>0
  <2>2. /\ ae \o b \in Seq(S) /\ Len(ae \o b) = k + d
        /\ \A i \in 1 .. (k + d) : (ae \o b)[i] = IF i <= k THEN ae[i] ELSE b[i - k]
    <3>1. Len(ae) = k /\ Len(b) = d /\ ae \in Seq(S) /\ b \in Seq(S)
      BY <1>2, <1>4, <2>1
    <3> QED BY <1>0, <3>1, ConcatProperties
  <2>3. k + d = Len(s) + 1
    BY <1>0, <2>1
  <2> QED BY <2>2, <2>3
<1>6. InsertAt(s, k, e) = ae \o b
  BY DEF InsertAt, ae, a, b
<1>7. ASSUME NEW i \in 1 .. (Len(s) + 1)
      PROVE  /\ i < k => (ae \o b)[i] = s[i]
             /\ i = k => (ae \o b)[i] = e
             /\ i > k => (ae \o b)[i] = s[i - 1]
  <2>1. CASE i < k
    BY <1>0, <1>1, <1>4, <1>5, <2>1
  <2>2. CASE i = k
    BY <1>0, <1>3, <1>4, <1>5, <2>2
  <2>3. CASE i > k
    <3>1. i - k \in 1 .. (Len(s) - k + 1) /\ k + (i - k) - 1 = i - 1
      BY <1>0, <2>3
    <3>2. b[i - k] = s[i - 1]
      BY <1>2, <3>1
    <3> QED BY <1>0, <1>5, <2>3, <3>2
  <2>4. i < k \/ i = k \/ i > k
    BY <1>0
  <2> QED BY <1>0, <2>1, <2>2, <2>3, <2>4
<1>8. PICK n \in Nat : n = Len(s) + 1
  BY <1>0
<1>9. ae \o b \in [1 .. n -> S]
  <2>1. ae \o b \in [1 .. Len(ae \o b) -> S]
    BY <1>5, LenProperties
  <2> QED BY <1>5, <1>8, <2>1
<1> DEFINE g == [i \in 1 .. n |-> IF i < k THEN s[i] ELSE IF i = k THEN e ELSE s[i - 1]]
<1>10. ae \o b = g
  <2>1. ASSUME NEW i \in 1 .. n PROVE (ae \o b)[i] = g[i]
    <3>1. i \in 1 .. (Len(s) + 1) /\ (i < k \/ i = k \/ i > k)
      BY <1>0, <1>8
    <3>2. /\ i < k => (ae \o b)[i] = s[i]
          /\ i = k => (ae \o b)[i] = e
          /\ i > k => (ae \o b)[i] = s[i - 1]
      BY <1>7, <3>1
    <3>3. g[i] = IF i < k THEN s[i] ELSE IF i = k THEN e ELSE s[i - 1]
      OBVIOUS
    <3> HIDE DEF g
    <3> QED BY <1>0, <3>1, <3>2, <3>3
  <2> HIDE DEF ae
  <2> QED BY <1>9, <2>1
<1> QED BY <1>6, <1>8, <1>10

LEMMA InsertAtElements ==
  ASSUME NEW S, NEW s \in Seq(S), NEW k \in 1 .. (Len(s) + 1), NEW e \in S
  PROVE  InsertAt(s, k, e) \in Seq(S) /\ Len(InsertAt(s, k, e)) = Len(s) + 1
<1>1. PICK n \in Nat : n = Len(s) + 1 /\ k \in 1 .. n
  OBVIOUS
<1>2. PICK f : f = InsertAt(s, k, e)
  OBVIOUS
<1>3. f = [i \in 1 .. n |-> IF i < k THEN s[i] ELSE IF i = k THEN e ELSE s[i - 1]]
  BY <1>1, <1>2, InsertAtFunction
<1>4. ASSUME NEW i \in 1 .. n
      PROVE  (IF i < k THEN s[i] ELSE IF i = k THEN e ELSE s[i - 1]) \in S
  <2>1. i < k => i \in 1 .. Len(s)
    BY <1>1
  <2>2. i > k => i - 1 \in 1 .. Len(s)
    BY <1>1
  <2> QED BY <1>1, <2>1, <2>2
<1>5. f \in [1 .. n -> S]
  BY <1>3, <1>4
<1> QED BY <1>1, <1>2, <1>5

LEMMA InsertAtElement ==
  ASSUME NEW S, NEW s \in Seq(S), NEW k \in 1 .. (Len(s) + 1), NEW e \in S,
         NEW i \in 1 .. (Len(s) + 1)
  PROVE  /\ i < k => InsertAt(s, k, e)[i] = s[i]
         /\ i = k => InsertAt(s, k, e)[i] = e
         /\ i > k => InsertAt(s, k, e)[i] = s[i - 1]
<1>1. InsertAt(s, k, e)
        = [j \in 1 .. (Len(s) + 1) |->
             IF j < k THEN s[j] ELSE IF j = k THEN e ELSE s[j - 1]]
  BY InsertAtFunction
<1> QED BY <1>1

LEMMA RemoveAtElements ==
  ASSUME NEW S, NEW s \in Seq(S), NEW k \in 1 .. Len(s)
  PROVE  /\ RemoveAt(s, k) \in Seq(S)
         /\ Len(RemoveAt(s, k)) = Len(s) - 1
         /\ \A i \in 1 .. (Len(s) - 1) :
              /\ i < k => RemoveAt(s, k)[i] = s[i]
              /\ i >= k => RemoveAt(s, k)[i] = s[i + 1]
<1> DEFINE a == SubSeq(s, 1, k - 1)
           b == SubSeq(s, k + 1, Len(s))
<1>0. Len(s) \in Nat /\ k \in Nat
  OBVIOUS
<1>1. a \in Seq(S) /\ Len(a) = k - 1 /\ \A i \in 1 .. (k - 1) : a[i] = s[i]
  <2>1. \A i \in 1 .. (k - 1) : s[i] \in S
    OBVIOUS
  <2> QED BY <1>0, <2>1, SubSeqProperties
<1>2. /\ b \in Seq(S) /\ Len(b) = Len(s) - k
      /\ \A i \in 1 .. (Len(s) - k) : b[i] = s[k + i]
  <2>1. \A i \in k + 1 .. Len(s) : s[i] \in S
    OBVIOUS
  <2>2. PICK k1 \in Nat, n \in Nat : k1 = k + 1 /\ n = Len(s)
    BY <1>0
  <2>3. /\ SubSeq(s, k1, n) \in Seq(S)
        /\ Len(SubSeq(s, k1, n)) = IF k1 <= n THEN n - k1 + 1 ELSE 0
        /\ \A i \in 1 .. (n - k1 + 1) : SubSeq(s, k1, n)[i] = s[k1 + i - 1]
    BY <2>1, <2>2, SubSeqProperties
  <2> QED BY <1>0, <2>2, <2>3
<1> HIDE DEF a, b
<1>3. /\ a \o b \in Seq(S) /\ Len(a \o b) = Len(s) - 1
      /\ \A i \in 1 .. (Len(s) - 1) : (a \o b)[i] = IF i <= k - 1 THEN a[i] ELSE b[i - (k - 1)]
  <2>1. PICK c \in Nat, d \in Nat : c = k - 1 /\ d = Len(s) - k
    BY <1>0
  <2>2. /\ a \o b \in Seq(S) /\ Len(a \o b) = c + d
        /\ \A i \in 1 .. (c + d) : (a \o b)[i] = IF i <= c THEN a[i] ELSE b[i - c]
    <3>1. Len(a) = c /\ Len(b) = d /\ a \in Seq(S) /\ b \in Seq(S)
      BY <1>1, <1>2, <2>1
    <3> QED BY <3>1, ConcatProperties
  <2>3. c + d = Len(s) - 1
    BY <1>0, <2>1
  <2> QED BY <2>1, <2>2, <2>3
<1>4. RemoveAt(s, k) = a \o b
  BY DEF RemoveAt, a, b
<1>5. ASSUME NEW i \in 1 .. (Len(s) - 1)
      PROVE  /\ i < k => (a \o b)[i] = s[i]
             /\ i >= k => (a \o b)[i] = s[i + 1]
  <2>1. CASE i < k
    BY <1>0, <1>1, <1>3, <2>1
  <2>2. CASE i >= k
    <3>1. i - (k - 1) \in 1 .. (Len(s) - k) /\ k + (i - (k - 1)) = i + 1
      BY <1>0, <2>2
    <3>2. b[i - (k - 1)] = s[i + 1]
      BY <1>2, <3>1
    <3>3. (a \o b)[i] = b[i - (k - 1)]
      <4>1. ~(i <= k - 1)
        BY <1>0, <2>2
      <4> QED BY <1>3, <4>1
    <3> QED BY <1>0, <2>2, <3>2, <3>3
  <2>3. i < k \/ i >= k
    BY <1>0
  <2> QED BY <1>0, <2>1, <2>2, <2>3
<1> QED BY <1>3, <1>4, <1>5

LEMMA RemoveAtElement ==
  ASSUME NEW S, NEW s \in Seq(S), NEW k \in 1 .. Len(s), NEW i \in 1 .. (Len(s) - 1)
  PROVE  /\ i < k => RemoveAt(s, k)[i] = s[i]
         /\ i >= k => RemoveAt(s, k)[i] = s[i + 1]
BY RemoveAtElements

-----------------------------------------------------------------------------
(* What sequences consist of.                                               *)

LEMMA Places ==
  ASSUME NEW S, NEW s \in Seq(S)
  PROVE  /\ Len(s) \in Nat /\ DOMAIN s = 1 .. Len(s)
         /\ Range(s) = {s[i] : i \in 1 .. Len(s)} /\ Range(s) \subseteq S
         /\ s = <<>> <=> Len(s) = 0
         /\ s = <<>> <=> Range(s) = {}
<1>1. Len(s) \in Nat /\ DOMAIN s = 1 .. Len(s)
  OBVIOUS
<1>2. Range(s) = {s[i] : i \in 1 .. Len(s)}
  BY <1>1 DEF Range
<1>3. Range(s) \subseteq S
  BY <1>2
<1>4. s = <<>> <=> Len(s) = 0
  OBVIOUS
<1>5. Len(s) # 0 => s[1] \in Range(s)
  BY <1>1, <1>2
<1>6. Len(s) = 0 => Range(s) = {}
  BY <1>1, <1>2
<1> QED BY <1>1, <1>2, <1>3, <1>4, <1>5, <1>6

LEMMA AppendRange ==
  ASSUME NEW S, NEW s \in Seq(S), NEW e \in S
  PROVE  /\ Range(Append(s, e)) = Range(s) \cup {e}
         /\ IsInjective(s) /\ e \notin Range(s) => IsInjective(Append(s, e))
<1>1. PICK n \in Nat : n = Len(s)
  OBVIOUS
<1>2. PICK a : a = Append(s, e)
  OBVIOUS
<1>3. PICK m \in Nat : m = n + 1
  OBVIOUS
<1>4. /\ a \in Seq(S) /\ Len(a) = m /\ a[m] = e /\ \A i \in 1 .. n : a[i] = s[i]
  BY <1>1, <1>2, <1>3, AppendProperties
<1>5. DOMAIN a = 1 .. m /\ DOMAIN s = 1 .. n
  BY <1>1, <1>4
<1>6. \A i \in 1 .. m : i \in 1 .. n \/ i = m
  BY <1>3
<1>7. 1 .. n \subseteq 1 .. m /\ m \in 1 .. m
  BY <1>3
<1>8. Range(a) = Range(s) \cup {e}
  BY <1>4, <1>5, <1>6, <1>7 DEF Range
<1>9. ASSUME IsInjective(s), e \notin Range(s), NEW i \in 1 .. m, NEW j \in 1 .. m, a[i] = a[j]
      PROVE  i = j
  <2>1. \A k \in 1 .. n : a[k] # e
    BY <1>4, <1>5, <1>9 DEF Range
  <2> QED BY <1>4, <1>5, <1>6, <1>9, <2>1 DEF IsInjective
<1> QED BY <1>2, <1>5, <1>8, <1>9 DEF IsInjective

LEMMA ConcatInjective ==
  ASSUME NEW S, NEW s \in Seq(S), NEW t \in Seq(S), IsInjective(s), IsInjective(t),
         Range(s) \cap Range(t) = {}
  PROVE  IsInjective(s \o t)
<1>1. PICK n \in Nat, k \in Nat : n = Len(s) /\ k = Len(t)
  OBVIOUS
<1>2. DOMAIN s = 1 .. n /\ DOMAIN t = 1 .. k
  BY <1>1
<1>3. PICK c : c = s \o t
  OBVIOUS
<1>4. /\ c \in Seq(S) /\ Len(c) = n + k /\ DOMAIN c = 1 .. (n + k)
      /\ \A i \in 1 .. (n + k) : c[i] = IF i <= n THEN s[i] ELSE t[i - n]
  <2>1. /\ c \in Seq(S) /\ Len(c) = n + k
        /\ \A i \in 1 .. (n + k) : c[i] = IF i <= n THEN s[i] ELSE t[i - n]
    BY <1>1, <1>3, ConcatProperties
  <2> QED BY <2>1
<1>5. ASSUME NEW i \in 1 .. (n + k)
      PROVE  \/ i \in 1 .. n /\ c[i] = s[i] /\ c[i] \in Range(s)
             \/ i - n \in 1 .. k /\ c[i] = t[i - n] /\ c[i] \in Range(t) /\ ~(i <= n)
  <2>1. CASE i <= n
    BY <1>2, <1>4, <2>1 DEF Range
  <2>2. CASE ~(i <= n)
    <3>1. i - n \in 1 .. k
      BY <2>2
    <3>2. c[i] = t[i - n]
      BY <1>4, <2>2
    <3> QED BY <1>2, <2>2, <3>1, <3>2 DEF Range
  <2> QED BY <2>1, <2>2
<1>6. ASSUME NEW i \in 1 .. (n + k), NEW j \in 1 .. (n + k), c[i] = c[j]
      PROVE  i = j
  <2>1. CASE c[i] \in Range(s)
    <3>1. i \in 1 .. n /\ j \in 1 .. n /\ s[i] = s[j]
      BY <1>5, <1>6, <2>1
    <3> QED BY <1>2, <3>1 DEF IsInjective
  <2>2. CASE c[i] \notin Range(s)
    <3>1. i - n \in 1 .. k /\ j - n \in 1 .. k /\ t[i - n] = t[j - n]
      BY <1>5, <1>6, <2>2
    <3>2. i - n = j - n
      BY <1>2, <3>1 DEF IsInjective
    <3> QED BY <3>2
  <2> QED BY <2>1, <2>2
<1> QED BY <1>3, <1>4, <1>6 DEF IsInjective

LEMMA PrefixPlaces ==
  ASSUME NEW S, NEW s \in Seq(S), NEW t \in Seq(S)
  PROVE  IsPrefix(s, t) <=> Len(s) <= Len(t) /\ \A i \in 1 .. Len(s) : s[i] = t[i]
<1>1. PICK n \in Nat : n = Len(s)
  OBVIOUS
<1>2. SubSeq(s, 1, n) = s
  BY <1>1, SubSeqFull
<1>3. ASSUME n <= Len(t)
      PROVE  /\ SubSeq(t, 1, n) \in Seq(S) /\ Len(SubSeq(t, 1, n)) = n
             /\ \A i \in 1 .. n : SubSeq(t, 1, n)[i] = t[i]
  <2>1. \A i \in 1 .. n : t[i] \in S
    BY <1>3
  <2>2. /\ SubSeq(t, 1, n) \in Seq(S)
        /\ Len(SubSeq(t, 1, n)) = IF 1 <= n THEN n - 1 + 1 ELSE 0
        /\ \A i \in 1 .. (n - 1 + 1) : SubSeq(t, 1, n)[i] = t[1 + i - 1]
    BY <2>1, SubSeqProperties
  <2> QED BY <2>2
<1>4. ASSUME n <= Len(t)
      PROVE  s = SubSeq(t, 1, n) <=> \A i \in 1 .. n : s[i] = t[i]
  <2>1. PICK u \in Seq(S) : u = SubSeq(t, 1, n) /\ Len(u) = n /\ \A i \in 1 .. n : u[i] = t[i]
    BY <1>3, <1>4
  <2>2. (\A i \in 1 .. n : s[i] = u[i]) => s = u
    BY <1>1, <2>1, SeqEqual
  <2> QED BY <2>1, <2>2
<1> QED BY <1>1, <1>2, <1>4 DEF IsPrefix

LEMMA InsertAtRange ==
  ASSUME NEW S, NEW s \in Seq(S), NEW k \in 1 .. (Len(s) + 1), NEW e \in S
  PROVE  /\ Range(InsertAt(s, k, e)) = Range(s) \cup {e}
         /\ IsInjective(s) /\ e \notin Range(s) => IsInjective(InsertAt(s, k, e))
<1>1. PICK n \in Nat, m \in Nat : n = Len(s) /\ m = n + 1 /\ k \in 1 .. m
  OBVIOUS
<1>2. PICK r : r = InsertAt(s, k, e)
  OBVIOUS
<1>3. r \in Seq(S) /\ Len(r) = m
  BY <1>1, <1>2, InsertAtElements
<1>4. DOMAIN r = 1 .. m /\ DOMAIN s = 1 .. n
  BY <1>1, <1>3
<1>5. ASSUME NEW i \in 1 .. m
      PROVE  /\ i < k => r[i] = s[i]
             /\ i = k => r[i] = e
             /\ i > k => r[i] = s[i - 1]
  BY <1>1, <1>2, InsertAtElement
<1>6. ASSUME NEW i \in 1 .. m
      PROVE  \/ i = k /\ r[i] = e
             \/ i < k /\ i \in 1 .. n /\ r[i] = s[i]
             \/ i > k /\ i - 1 \in 1 .. n /\ r[i] = s[i - 1]
  BY <1>1, <1>5
<1>7. \A i \in 1 .. m : r[i] \in Range(s) \cup {e}
  BY <1>4, <1>6 DEF Range
<1>8. ASSUME NEW j \in 1 .. n PROVE s[j] \in Range(r)
  <2>1. CASE j < k
    <3>1. j \in 1 .. m /\ r[j] = s[j]
      BY <1>1, <1>5, <2>1
    <3> QED BY <1>4, <3>1 DEF Range
  <2>2. CASE ~(j < k)
    <3>1. PICK i \in 1 .. m : i = j + 1 /\ i > k /\ i - 1 = j
      BY <1>1, <2>2
    <3>2. r[i] = s[j]
      BY <1>5, <3>1
    <3> QED BY <1>4, <3>2 DEF Range
  <2> QED BY <2>1, <2>2
<1>9. e \in Range(r)
  BY <1>1, <1>4, <1>5 DEF Range
<1>10. Range(r) = Range(s) \cup {e}
  BY <1>4, <1>7, <1>8, <1>9 DEF Range
<1>11. ASSUME IsInjective(s), e \notin Range(s), NEW i \in 1 .. m, NEW j \in 1 .. m, r[i] = r[j]
       PROVE  i = j
  <2>1. \A l \in 1 .. n : s[l] # e
    BY <1>4, <1>11 DEF Range
  <2>2. \A l, o \in 1 .. n : s[l] = s[o] => l = o
    BY <1>4, <1>11 DEF IsInjective
  <2>3. /\ \/ i = k /\ r[i] = e
           \/ i < k /\ i \in 1 .. n /\ r[i] = s[i]
           \/ i > k /\ i - 1 \in 1 .. n /\ r[i] = s[i - 1]
        /\ \/ j = k /\ r[j] = e
           \/ j < k /\ j \in 1 .. n /\ r[j] = s[j]
           \/ j > k /\ j - 1 \in 1 .. n /\ r[j] = s[j - 1]
    BY <1>6
  <2>4. CASE i = k \/ j = k
    BY <1>11, <2>1, <2>3, <2>4
  <2>5. CASE i # k /\ j # k
    <3>1. PICK l \in 1 .. n : s[l] = r[i] /\ ((i < k /\ l = i) \/ (i > k /\ l = i - 1))
      BY <2>3, <2>5
    <3>2. PICK o \in 1 .. n : s[o] = r[j] /\ ((j < k /\ o = j) \/ (j > k /\ o = j - 1))
      BY <2>3, <2>5
    <3>3. l = o
      BY <1>11, <2>2, <3>1, <3>2
    <3> QED BY <3>1, <3>2, <3>3
  <2> QED BY <2>4, <2>5
<1> QED BY <1>2, <1>4, <1>10, <1>11 DEF IsInjective

LEMMA RemoveAtRange ==
  ASSUME NEW S, NEW s \in Seq(S), NEW k \in 1 .. Len(s)
  PROVE  /\ Range(RemoveAt(s, k)) \cup {s[k]} = Range(s)
         /\ IsInjective(s) => IsInjective(RemoveAt(s, k)) /\ s[k] \notin Range(RemoveAt(s, k))
<1>1. PICK n \in Nat, m \in Nat : n = Len(s) /\ m = n - 1 /\ k \in 1 .. n
  OBVIOUS
<1>2. PICK r : r = RemoveAt(s, k)
  OBVIOUS
<1>3. r \in Seq(S) /\ Len(r) = m
  BY <1>1, <1>2, RemoveAtElements
<1>4. DOMAIN r = 1 .. m /\ DOMAIN s = 1 .. n
  BY <1>1, <1>3
<1>5. ASSUME NEW i \in 1 .. m
      PROVE  \/ i < k /\ i \in 1 .. n /\ r[i] = s[i]
             \/ i >= k /\ i + 1 \in 1 .. n /\ r[i] = s[i + 1]
  <2>1. i \in 1 .. (Len(s) - 1)
    BY <1>1
  <2>2. (i < k => r[i] = s[i]) /\ (i >= k => r[i] = s[i + 1])
    BY <1>2, <2>1, RemoveAtElement
  <2> QED BY <1>1, <2>2
<1>6. \A i \in 1 .. m : r[i] \in Range(s)
  BY <1>4, <1>5 DEF Range
<1>7. ASSUME NEW j \in 1 .. n, j # k PROVE s[j] \in Range(r)
  <2>1. CASE j < k
    <3>1. j \in 1 .. m
      BY <1>1, <2>1
    <3>2. r[j] = s[j]
      BY <1>5, <2>1, <3>1
    <3> QED BY <1>4, <3>1, <3>2 DEF Range
  <2>2. CASE ~(j < k)
    <3>1. PICK i \in 1 .. m : i = j - 1 /\ i >= k /\ i + 1 = j
      BY <1>1, <1>7, <2>2
    <3>2. r[i] = s[j]
      BY <1>1, <1>5, <3>1
    <3> QED BY <1>4, <3>2 DEF Range
  <2> QED BY <2>1, <2>2
<1>8. Range(r) \cup {s[k]} = Range(s)
  BY <1>1, <1>4, <1>6, <1>7 DEF Range
<1>9. ASSUME IsInjective(s)
      PROVE  /\ \A i, j \in 1 .. m : r[i] = r[j] => i = j
             /\ \A i \in 1 .. m : r[i] # s[k]
  <2>1. \A l, o \in 1 .. n : s[l] = s[o] => l = o
    BY <1>4, <1>9 DEF IsInjective
  <2>2. ASSUME NEW i \in 1 .. m PROVE r[i] # s[k]
    <3>1. PICK l \in 1 .. n : s[l] = r[i] /\ l # k
      BY <1>1, <1>5
    <3> QED BY <1>1, <2>1, <3>1
  <2>3. ASSUME NEW i \in 1 .. m, NEW j \in 1 .. m, r[i] = r[j] PROVE i = j
    <3>1. PICK l \in 1 .. n : s[l] = r[i] /\ ((i < k /\ l = i) \/ (i >= k /\ l = i + 1))
      BY <1>5
    <3>2. PICK o \in 1 .. n : s[o] = r[j] /\ ((j < k /\ o = j) \/ (j >= k /\ o = j + 1))
      BY <1>5
    <3>3. l = o
      BY <2>1, <2>3, <3>1, <3>2
    <3> QED BY <1>1, <3>1, <3>2, <3>3
  <2> QED BY <2>2, <2>3
<1>10. IsInjective(s) => IsInjective(r) /\ s[k] \notin Range(r)
  BY <1>4, <1>9 DEF IsInjective, Range
<1> QED BY <1>2, <1>8, <1>10

\* What InsertAt(s, k, e), r, has of s.
Inserts(S, s, k, e, r) ==
  /\ r \in Seq(S) /\ Len(r) = Len(s) + 1 /\ Range(r) = Range(s) \cup {e} /\ r[k] = e
  /\ IsInjective(s) /\ e \notin Range(s) => IsInjective(r)
  /\ \A i \in 1 .. (k - 1) : r[i] = s[i]

LEMMA InsertFacts ==
  ASSUME NEW S, NEW s \in Seq(S), NEW k \in 1 .. (Len(s) + 1), NEW e \in S
  PROVE  Inserts(S, s, k, e, InsertAt(s, k, e))
<1>1. PICK r : r = InsertAt(s, k, e)
  OBVIOUS
<1>2. r \in Seq(S) /\ Len(r) = Len(s) + 1
  BY <1>1, InsertAtElements
<1>3. r = [i \in 1 .. (Len(s) + 1) |-> IF i < k THEN s[i] ELSE IF i = k THEN e ELSE s[i - 1]]
  BY <1>1, InsertAtFunction
<1>4. r[k] = e
  BY <1>3
<1>5. ASSUME NEW i \in 1 .. (k - 1) PROVE r[i] = s[i]
  <2>1. i \in 1 .. (Len(s) + 1) /\ i < k
    OBVIOUS
  <2> QED BY <1>3, <2>1
<1>6. /\ Range(r) = Range(s) \cup {e}
      /\ IsInjective(s) /\ e \notin Range(s) => IsInjective(r)
  BY <1>1, InsertAtRange
<1> QED BY <1>1, <1>2, <1>4, <1>5, <1>6 DEF Inserts

\* An element that goes to another place leaves the others what they were.
Moves(S, s, f, t, r) ==
  /\ r \in Seq(S) /\ Len(r) = Len(s) /\ Range(r) = Range(s) /\ r[t] = s[f]
  /\ IsInjective(s) => IsInjective(r)
  /\ t <= f => \A i \in 1 .. (t - 1) : r[i] = s[i]

LEMMA MoveFacts ==
  ASSUME NEW S, NEW s \in Seq(S), NEW f \in 1 .. Len(s), NEW t \in 1 .. Len(s)
  PROVE  Moves(S, s, f, t, InsertAt(RemoveAt(s, f), t, s[f]))
<1>1. PICK n \in Nat : n = Len(s) /\ f \in 1 .. n /\ t \in 1 .. n
  OBVIOUS
<1>2. PICK q : q = RemoveAt(s, f)
  OBVIOUS
<1>3. q \in Seq(S) /\ Len(q) = n - 1
  BY <1>1, <1>2, RemoveAtElements
<1>4. PICK e \in S : e = s[f]
  OBVIOUS
<1>5. t \in 1 .. (Len(q) + 1) /\ Len(q) + 1 = n
  BY <1>1, <1>3
<1>6. PICK r : r = InsertAt(q, t, e)
  OBVIOUS
<1>7. r \in Seq(S) /\ Len(r) = Len(q) + 1
  BY <1>3, <1>5, <1>6, InsertAtElements
<1>8. /\ Range(q) \cup {e} = Range(s)
      /\ IsInjective(s) => IsInjective(q) /\ e \notin Range(q)
  BY <1>2, <1>4, RemoveAtRange
<1>9. /\ Range(r) = Range(q) \cup {e}
      /\ IsInjective(q) /\ e \notin Range(q) => IsInjective(r)
  BY <1>3, <1>5, <1>6, InsertAtRange
<1>10. r = [i \in 1 .. (Len(q) + 1) |-> IF i < t THEN q[i] ELSE IF i = t THEN e ELSE q[i - 1]]
  BY <1>3, <1>5, <1>6, InsertAtFunction
<1>11. r[t] = e
  BY <1>5, <1>10
<1>12. ASSUME t <= f, NEW i \in 1 .. (t - 1) PROVE r[i] = s[i]
  <2>1. i \in 1 .. (Len(q) + 1) /\ i < t /\ i < f /\ i \in 1 .. (Len(s) - 1)
    BY <1>1, <1>3, <1>12
  <2>2. r[i] = q[i]
    BY <1>10, <2>1
  <2>3. q[i] = s[i]
    BY <1>2, <2>1, RemoveAtElement
  <2> QED BY <2>2, <2>3
<1>13. Moves(S, s, f, t, r)
  BY <1>1, <1>4, <1>5, <1>7, <1>8, <1>9, <1>11, <1>12 DEF Moves
<1> QED BY <1>2, <1>4, <1>6, <1>13
===============================================================================
