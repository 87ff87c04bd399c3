-------------------------- MODULE LibrarySync_proofs --------------------------
(***************************************************************************)
(* Proofs about LibrarySync, for any services, libraries, page size and     *)
(* number of fetches: the list has the tracks of the active source only, in *)
(* the order they were fetched in, none of them twice, the track that plays *)
(* is at the place in the list, and what is written to the database is      *)
(* stored under the source it comes from.                                   *)
(***************************************************************************)
EXTENDS LibrarySync, SequenceLemmas

-----------------------------------------------------------------------------
(* What the functions that walk along a list compute.                       *)

LEMMA EmptyFacts ==
  ASSUME NEW E, NEW s, s = <<>>
  PROVE  s \in Seq(E) /\ Range(s) = {} /\ IsInjective(s) /\ Len(s) = 0
<1>1. DOMAIN s = {} /\ Len(s) = 0
  OBVIOUS
<1>2. s \in Seq(E)
  BY EmptySeq, Zenon
<1> QED BY <1>1, <1>2 DEF Range, IsInjective

KeepsAlong(kept, ts, S, n) ==
  /\ kept[0] = <<>> /\ Kept(ts, S) = kept[n]
  /\ \A i \in 1 .. n :
       kept[i] = IF ts[i] \in S THEN Append(kept[i - 1], ts[i]) ELSE kept[i - 1]

LEMMA KeptWalk ==
  ASSUME NEW E, NEW ts \in Seq(E), NEW S, NEW n \in Nat, n = Len(ts)
  PROVE  \E kept : KeepsAlong(kept, ts, S, n)
<1>1. PICK Q : Q = Seq(E)
  OBVIOUS
<1>2. PICK step : step = [x \in Q \X (1 .. n) |->
                            IF ts[x[2]] \in S THEN Append(x[1], ts[x[2]]) ELSE x[1]]
  OBVIOUS
<1>3. step \in [Q \X (1 .. n) -> Q]
  <2>1. \A i \in 1 .. n : ts[i] \in E
    OBVIOUS
  <2> QED BY <1>1, <1>2, <2>1, AppendProperties
<1>4. PICK b \in Q : b = <<>>
  BY <1>1, EmptySeq, Zenon
<1>5. PICK g : /\ g \in [0 .. n -> Q] /\ g[0] = b
               /\ \A i \in 1 .. n : g[i] = step[<<g[i - 1], i>>]
  <2>1. \E g : Walks(g, Q, b, n, step)
    BY <1>3, Iterated
  <2> QED BY <2>1 DEF Walks
<1>6. ASSUME NEW i \in 0 .. n
      PROVE  g[i] = IF i = 0 THEN <<>>
                    ELSE IF ts[i] \in S THEN Append(g[i - 1], ts[i]) ELSE g[i - 1]
  <2>1. CASE i = 0
    BY <1>4, <1>5, <2>1
  <2>2. CASE i # 0
    <3>1. i \in 1 .. n /\ i - 1 \in 0 .. n /\ g[i - 1] \in Q
      BY <1>5, <2>2
    <3> QED BY <1>2, <1>5, <2>2, <3>1
  <2> QED BY <2>1, <2>2
<1> DEFINE eq(k) == k = [i \in 0 .. Len(ts) |->
                           IF i = 0 THEN <<>>
                           ELSE IF ts[i] \in S THEN Append(k[i - 1], ts[i]) ELSE k[i - 1]]
<1>7. eq(g)
  BY <1>5, <1>6
<1>8. PICK k : eq(k) /\ Kept(ts, S) = k[Len(ts)]
  <2>1. eq(CHOOSE k : eq(k))
    BY <1>7
  <2>2. Kept(ts, S) = (CHOOSE k : eq(k))[Len(ts)]
    BY DEF Kept
  <2> QED BY <2>1, <2>2
<1>9. ASSUME NEW i \in 0 .. n
      PROVE  k[i] = IF i = 0 THEN <<>>
                    ELSE IF ts[i] \in S THEN Append(k[i - 1], ts[i]) ELSE k[i - 1]
  BY <1>8
<1>10. k[0] = <<>>
  <2>1. 0 \in 0 .. n
    OBVIOUS
  <2> QED BY <1>9, <2>1
<1>11. ASSUME NEW i \in 1 .. n
       PROVE  k[i] = IF ts[i] \in S THEN Append(k[i - 1], ts[i]) ELSE k[i - 1]
  <2>1. i \in 0 .. n /\ i # 0
    OBVIOUS
  <2> QED BY <1>9, <2>1
<1> QED BY <1>8, <1>10, <1>11 DEF KeepsAlong

LEMMA KeptFacts ==
  ASSUME NEW E, NEW ts \in Seq(E), NEW S
  PROVE  /\ Kept(ts, S) \in Seq(E)
         /\ Range(Kept(ts, S)) \subseteq Range(ts) \cap S
         /\ IsInjective(ts) => IsInjective(Kept(ts, S))
<1>1. PICK n \in Nat : n = Len(ts) /\ DOMAIN ts = 1 .. n
  OBVIOUS
<1>2. PICK kept : /\ kept[0] = <<>> /\ Kept(ts, S) = kept[n]
                  /\ \A i \in 1 .. n :
                       kept[i] = IF ts[i] \in S THEN Append(kept[i - 1], ts[i]) ELSE kept[i - 1]
  <2>1. \E kept : KeepsAlong(kept, ts, S, n)
    BY <1>1, KeptWalk
  <2> QED BY <2>1 DEF KeepsAlong
<1> DEFINE Good(i) == /\ kept[i] \in Seq(E)
                      /\ Range(kept[i]) \subseteq {ts[j] : j \in 1 .. i} \cap S
                      /\ IsInjective(ts) => IsInjective(kept[i])
           T == {i \in 0 .. n : Good(i)}
<1>3. 0 \in T
  <2>1. kept[0] \in Seq(E) /\ Range(kept[0]) = {} /\ IsInjective(kept[0])
    BY <1>2, EmptyFacts
  <2> QED BY <2>1
<1>4. ASSUME NEW i \in 0 .. (n - 1), i \in T PROVE i + 1 \in T
  <2>1. PICK m \in 1 .. n : m = i + 1 /\ i = m - 1
    OBVIOUS
  <2>2. PICK s \in Seq(E) : s = kept[i] /\ Good(i)
    BY <1>4
  <2>3. /\ Range(s) \subseteq {ts[j] : j \in 1 .. i} \cap S
        /\ IsInjective(ts) => IsInjective(s)
    BY <2>2
  <2>4. kept[m] = IF ts[m] \in S THEN Append(s, ts[m]) ELSE s
    BY <1>2, <2>1, <2>2
  <2>5. \A j \in 1 .. i : j \in 1 .. m /\ j # m
    BY <2>1
  <2>6. CASE ts[m] \in S
    <3>1. PICK e \in E : e = ts[m]
      BY <1>1
    <3>2. /\ Append(s, e) \in Seq(E) /\ Range(Append(s, e)) = Range(s) \cup {e}
          /\ IsInjective(s) /\ e \notin Range(s) => IsInjective(Append(s, e))
      BY AppendProperties, AppendRange
    <3>3. IsInjective(ts) => e \notin Range(s)
      BY <1>1, <2>3, <2>5, <3>1 DEF IsInjective
    <3>4. Range(s) \cup {e} \subseteq {ts[j] : j \in 1 .. m} \cap S
      BY <2>3, <2>5, <2>6, <3>1
    <3>5. Good(m)
      BY <2>3, <2>4, <2>6, <3>1, <3>2, <3>3, <3>4
    <3> QED BY <2>1, <3>5
  <2>7. CASE ts[m] \notin S
    <3>1. Range(s) \subseteq {ts[j] : j \in 1 .. m} \cap S
      BY <2>3, <2>5
    <3>2. Good(m)
      BY <2>3, <2>4, <2>7, <3>1
    <3> QED BY <2>1, <3>2
  <2> QED BY <2>6, <2>7
<1>5. Good(n)
  <2>1. \A i \in 0 .. n : i \in T
    <3> HIDE DEF T
    <3> QED BY <1>3, <1>4, UpTo
  <2>2. n \in T
    <3> HIDE DEF T
    <3> QED BY <2>1
  <2> QED BY <2>2
<1>6. {ts[j] : j \in 1 .. n} = Range(ts)
  BY <1>1 DEF Range
<1> QED BY <1>2, <1>5, <1>6

NamesAlong(named, ids, S, n) ==
  /\ named[0] = <<>> /\ Named(ids, S) = named[n]
  /\ \A i \in 1 .. n :
       named[i] = IF ids[i] \in S \ Range(named[i - 1]) THEN Append(named[i - 1], ids[i])
                  ELSE named[i - 1]

LEMMA NamedWalk ==
  ASSUME NEW E, NEW ids \in Seq(E), NEW S, NEW n \in Nat, n = Len(ids)
  PROVE  \E named : NamesAlong(named, ids, S, n)
<1>1. PICK Q : Q = Seq(E)
  OBVIOUS
<1>2. PICK step : step = [x \in Q \X (1 .. n) |->
                            IF ids[x[2]] \in S \ Range(x[1]) THEN Append(x[1], ids[x[2]]) ELSE x[1]]
  OBVIOUS
<1>3. step \in [Q \X (1 .. n) -> Q]
  <2>1. \A i \in 1 .. n : ids[i] \in E
    OBVIOUS
  <2> QED BY <1>1, <1>2, <2>1, AppendProperties
<1>4. PICK b \in Q : b = <<>>
  BY <1>1, EmptySeq, Zenon
<1>5. PICK g : /\ g \in [0 .. n -> Q] /\ g[0] = b
               /\ \A i \in 1 .. n : g[i] = step[<<g[i - 1], i>>]
  <2>1. \E g : Walks(g, Q, b, n, step)
    BY <1>3, Iterated
  <2> QED BY <2>1 DEF Walks
<1>6. ASSUME NEW i \in 0 .. n
      PROVE  g[i] = IF i = 0 THEN <<>>
                    ELSE IF ids[i] \in S \ Range(g[i - 1]) THEN Append(g[i - 1], ids[i]) ELSE g[i - 1]
  <2>1. CASE i = 0
    BY <1>4, <1>5, <2>1
  <2>2. CASE i # 0
    <3>1. i \in 1 .. n /\ i - 1 \in 0 .. n /\ g[i - 1] \in Q
      BY <1>5, <2>2
    <3> QED BY <1>2, <1>5, <2>2, <3>1
  <2> QED BY <2>1, <2>2
<1> DEFINE eq(k) == k = [i \in 0 .. Len(ids) |->
                           IF i = 0 THEN <<>>
                           ELSE IF ids[i] \in S \ Range(k[i - 1]) THEN Append(k[i - 1], ids[i]) ELSE k[i - 1]]
<1>7. eq(g)
  BY <1>5, <1>6
<1>8. PICK k : eq(k) /\ Named(ids, S) = k[Len(ids)]
  <2>1. eq(CHOOSE k : eq(k))
    BY <1>7
  <2>2. Named(ids, S) = (CHOOSE k : eq(k))[Len(ids)]
    BY DEF Named
  <2> QED BY <2>1, <2>2
<1>9. ASSUME NEW i \in 0 .. n
      PROVE  k[i] = IF i = 0 THEN <<>>
                    ELSE IF ids[i] \in S \ Range(k[i - 1]) THEN Append(k[i - 1], ids[i]) ELSE k[i - 1]
  BY <1>8
<1>10. k[0] = <<>>
  <2>1. 0 \in 0 .. n
    OBVIOUS
  <2> QED BY <1>9, <2>1
<1>11. ASSUME NEW i \in 1 .. n
       PROVE  k[i] = IF ids[i] \in S \ Range(k[i - 1]) THEN Append(k[i - 1], ids[i]) ELSE k[i - 1]
  <2>1. i \in 0 .. n /\ i # 0
    OBVIOUS
  <2> QED BY <1>9, <2>1
<1> QED BY <1>8, <1>10, <1>11 DEF NamesAlong

LEMMA NamedFacts ==
  ASSUME NEW E, NEW ids \in Seq(E), NEW S
  PROVE  /\ Named(ids, S) \in Seq(E)
         /\ Range(Named(ids, S)) \subseteq S
         /\ IsInjective(Named(ids, S))
<1>1. PICK n \in Nat : n = Len(ids) /\ DOMAIN ids = 1 .. n
  OBVIOUS
<1>2. PICK named : /\ named[0] = <<>> /\ Named(ids, S) = named[n]
                   /\ \A i \in 1 .. n :
                        named[i] = IF ids[i] \in S \ Range(named[i - 1])
                                   THEN Append(named[i - 1], ids[i]) ELSE named[i - 1]
  <2>1. \E named : NamesAlong(named, ids, S, n)
    BY <1>1, NamedWalk
  <2> QED BY <2>1 DEF NamesAlong
<1> DEFINE Good(i) == named[i] \in Seq(E) /\ Range(named[i]) \subseteq S /\ IsInjective(named[i])
           T == {i \in 0 .. n : Good(i)}
<1>3. 0 \in T
  <2>1. named[0] \in Seq(E) /\ Range(named[0]) = {} /\ IsInjective(named[0])
    BY <1>2, EmptyFacts
  <2> QED BY <2>1
<1>4. ASSUME NEW i \in 0 .. (n - 1), i \in T PROVE i + 1 \in T
  <2>1. PICK m \in 1 .. n : m = i + 1 /\ i = m - 1
    OBVIOUS
  <2>2. PICK s \in Seq(E) : s = named[i] /\ Range(s) \subseteq S /\ IsInjective(s)
    BY <1>4
  <2>3. PICK e \in E : e = ids[m]
    BY <1>1
  <2>4. named[m] = IF e \in S \ Range(s) THEN Append(s, e) ELSE s
    BY <1>2, <2>1, <2>2, <2>3
  <2>5. /\ Append(s, e) \in Seq(E) /\ Range(Append(s, e)) = Range(s) \cup {e}
        /\ e \notin Range(s) => IsInjective(Append(s, e))
    BY <2>2, AppendProperties, AppendRange
  <2>6. Good(m)
    BY <2>2, <2>4, <2>5
  <2> QED BY <2>1, <2>6
<1>5. Good(n)
  <2>1. \A i \in 0 .. n : i \in T
    <3> HIDE DEF T
    <3> QED BY <1>3, <1>4, UpTo
  <2>2. n \in T
    <3> HIDE DEF T
    <3> QED BY <2>1
  <2> QED BY <2>2
<1> QED BY <1>2, <1>5
-----------------------------------------------------------------------------
(* The inductive invariant, part by part.  TypeOK and the other invariants  *)
(* are not inductive: what is read back from the database and what waits in *)
(* the pool has to be as good as what is in memory, and the place that the  *)
(* next fetched track gets has to be told from what has been seen.          *)

Everywhere == Services \cup {Offline}

\* What app may be while a handler works on it, and between two handlers.
Apps == [tracks : Seq(Ids), place : Nat \ {0}, current : Ids \cup {NoTrack},
         started : BOOLEAN, at : Nat, known : SUBSET Ids]

GoodApp(a) == a \in Apps /\ (a.place <= Len(a.tracks) \/ a.place = 1)

\* Nothing is in the list before playback has started.
GoodMemory(a) == GoodApp(a) /\ (~a.started => a.tracks = <<>> /\ a.current = NoTrack)

InPlace(a) == a.current \in Range(a.tracks) => a.tracks[a.place] = a.current

AllOf(ts, s) == s \in Services => \A t \in Range(ts) : SourceOf[t] = s

Sessions == [track : Ids \cup {NoTrack}, index : Nat]

GoodDisk(d) ==
  /\ d \in [rows : Seq(Ids), order : [Everywhere -> Seq(Ids)], session : [Everywhere -> Sessions]]
  /\ IsInjective(d.rows)
  /\ \A s \in Everywhere : AllOf(d.order[s], s)

GoodTask(task) ==
  /\ task \in [kind : {"tracks", "queue"}, of : Everywhere, ids : Seq(Ids)]
  /\ IF task.kind = "tracks" THEN IsInjective(task.ids) ELSE AllOf(task.ids, task.of)

\* Page 0 is waited for alone, and so is any page of a service that is asked
\* for one page after the other.
GoodFetch(f) ==
  /\ f \in [id : 1 .. begun, of : Services, out : SUBSET Nat] /\ f.out # {}
  /\ IF f.of \in Parallel THEN f.out = {0} \/ 0 \notin f.out
     ELSE \E p \in f.out : p # 0 /\ f.out = {p}

GoodFetches ==
  /\ begun \in Nat
  /\ \A f \in fetches : GoodFetch(f)
  /\ \A f, g \in fetches : f.id = g.id => f = g

\* The tracks that a fetch may still bring.
Ahead(f) ==
  {Library[f.of][i] : i \in {j \in DOMAIN Library[f.of] :
     \E p \in f.out : (p - 1) * PageSize < j /\ (f.of \in Parallel /\ p # 0 => j <= p * PageSize)}}

\* What one fetch has brought stands in front and does not come again.
InOrder ==
  seen.valid /\ Cardinality(seen.by) <= 1 =>
    /\ app.at = Len(seen.got) /\ IsPrefix(seen.got, app.tracks)
    /\ seen.by = {} => seen.got = <<>>
    /\ \A f \in fetches : f.id \in seen.by => Range(seen.got) \cap Ahead(f) = {}

\* The set of known tracks has all that are listed until the fetch is over.
NoneTwice ==
  ~seen.mixed =>
    /\ IsInjective(app.tracks)
    /\ \/ ~seen.valid
       \/ Range(app.tracks) \subseteq app.known
       \/ \E i \in seen.by : \A f \in fetches : f.id # i

SeenType(n) == [valid : BOOLEAN, by : SUBSET (1 .. n), got : Seq(Ids),
                mixed : BOOLEAN, lost : BOOLEAN]

GoodSeen ==
  /\ seen \in SeenType(begun)
  /\ seen.valid => app.known \subseteq Range(app.tracks)
  /\ InOrder /\ NoneTwice

GoodPool == \A task \in BagToSet(pool) : GoodTask(task)

GoodList ==
  /\ up \in BOOLEAN /\ source \in Everywhere /\ (~up => app = Fresh)
  /\ GoodMemory(app) /\ InPlace(app) /\ AllOf(app.tracks, source)

IInv == GoodList /\ GoodDisk(disk) /\ GoodPool /\ GoodFetches /\ GoodSeen

-----------------------------------------------------------------------------
(* The list: where a fetched track goes.  PL has its own copies of the       *)
(* operators of SequencesExt.                                               *)

LEMMA SameOperators ==
  /\ \A s, k, e : PL!InsertAt(s, k, e) = InsertAt(s, k, e)
  /\ \A s, k : PL!RemoveAt(s, k) = RemoveAt(s, k)
  /\ \A s : PL!Range(s) = Range(s)
BY DEF PL!InsertAt, PL!RemoveAt, PL!Range, InsertAt, RemoveAt, Range

LEMMA FirstAtFacts ==
  ASSUME NEW S, NEW s \in Seq(S), NEW x \in Range(s), NEW i, i = PL!FirstAt(s, x)
  PROVE  /\ i \in 1 .. Len(s) /\ s[i] = x
         /\ \A j \in 1 .. (i - 1) : s[j] # x
<1>1. \E k \in DOMAIN s : s[k] = x /\ \A j \in 1 .. (k - 1) : s[j] # x
  BY FirstPlace
<1>2. DOMAIN s = 1 .. Len(s)
  OBVIOUS
<1> QED BY <1>1, <1>2, Zenon DEF PL!FirstAt

\* What Placed(a, t), b, has of a.
PlacedAs(a, t, b) ==
  /\ GoodApp(b) /\ b.current = a.current /\ b.started = a.started
  /\ b.at = a.at + 1 /\ b.known = a.known \cup {t}
  /\ Range(b.tracks) \subseteq Range(a.tracks) \cup {t}
  /\ Range(a.tracks) \subseteq Range(b.tracks)
  /\ t \notin a.known => t \in Range(b.tracks)
  /\ IsInjective(a.tracks) /\ Range(a.tracks) \subseteq a.known => IsInjective(b.tracks)
  /\ (/\ a.at <= Len(a.tracks) /\ a.known \subseteq Range(a.tracks)
      /\ \A i \in 1 .. a.at : a.tracks[i] # t)
     => /\ a.at + 1 <= Len(b.tracks) /\ b.tracks[a.at + 1] = t
        /\ \A i \in 1 .. a.at : b.tracks[i] = a.tracks[i]

LEMMA PlacedInserted ==
  ASSUME NEW a, GoodApp(a), NEW t \in Ids, t \notin a.known
  PROVE  PlacedAs(a, t, Placed(a, t))
<1>1. PICK ts \in Seq(Ids), p \in Nat \ {0}, at \in Nat, n \in Nat :
        /\ ts = a.tracks /\ p = a.place /\ at = a.at /\ n = Len(ts)
        /\ p <= n \/ p = 1
  BY DEF GoodApp, Apps
<1>2. PICK k \in 1 .. (n + 1) : k = IF at + 1 > n THEN n + 1 ELSE at + 1
  OBVIOUS
<1>3. PICK q : q = PL!Identity(n) /\ (n = 0 => q = <<>>)
  <2>1. ASSUME n = 0 PROVE PL!Identity(n) = <<>>
    <3>1. 1 .. n = {}
      BY <2>1
    <3> QED BY <3>1 DEF PL!Identity
  <2> QED BY <2>1
<1>4. PICK r \in Seq(Ids) : r = InsertAt(ts, k, t) /\ Len(r) = n + 1 /\ Inserts(Ids, ts, k, t, r)
  <2>1. k \in 1 .. (Len(ts) + 1)
    BY <1>1
  <2>2. Inserts(Ids, ts, k, t, InsertAt(ts, k, t))
    BY <2>1, InsertFacts
  <2> QED BY <1>1, <2>2 DEF Inserts
<1>5. PICK pl \in Nat \ {0} :
        /\ pl = IF q # <<>> /\ k <= p THEN p + 1 ELSE p
        /\ pl <= n + 1
  <2>1. n = 0 => p = 1 /\ q = <<>>
    BY <1>1, <1>3
  <2> QED BY <1>1, <2>1
<1>6. PICK b : b = [a EXCEPT !.tracks = r, !.place = pl, !.at = at + 1, !.known = @ \cup {t}]
  OBVIOUS
<1>7. Placed(a, t) = b
  <2>1. PICK o : o = ListOf(a) /\ o.tracks = ts /\ o.queue = q /\ o.index = p
    <3>1. ListOf(a) = [tracks |-> ts, queue |-> q, index |-> p]
      BY <1>1, <1>3, Zenon DEF ListOf
    <3> QED BY <3>1
  <2>2. PICK l : l = PL!Inserted(o, at + 1, t) /\ l.tracks = r /\ l.index = pl
    <3>1. PL!Inserted(o, at + 1, t).tracks = InsertAt(ts, k, t)
      <4>1. (IF at + 1 > Len(o.tracks) THEN Len(o.tracks) + 1 ELSE at + 1) = k
        BY <1>1, <1>2, <2>1
      <4>2. PL!Inserted(o, at + 1, t).tracks
              = InsertAt(o.tracks, IF at + 1 > Len(o.tracks) THEN Len(o.tracks) + 1 ELSE at + 1, t)
        BY DEF PL!Inserted, PL!InsertAt, InsertAt
      <4> QED BY <2>1, <4>1, <4>2
    <3>2. PL!Inserted(o, at + 1, t).index = pl
      BY <1>1, <1>2, <1>5, <2>1 DEF PL!Inserted
    <3> QED BY <1>4, <3>1, <3>2
  <2>3. a \in Apps
    BY DEF GoodApp
  <2>4. Placed(a, t) = WithList([a EXCEPT !.at = @ + 1, !.known = @ \cup {t}], l)
    BY <1>1, <2>1, <2>2 DEF Placed
  <2> QED BY <1>1, <1>6, <2>2, <2>3, <2>4 DEF WithList, Apps
<1>8. /\ b \in Apps /\ b.tracks = r /\ b.place = pl /\ b.current = a.current
      /\ b.started = a.started /\ b.at = at + 1 /\ b.known = a.known \cup {t}
  <2>1. a \in Apps /\ at + 1 \in Nat /\ a.known \cup {t} \in SUBSET Ids
    BY <1>1 DEF GoodApp, Apps
  <2> QED BY <1>6, <2>1 DEF Apps
<1>9. /\ Range(r) = Range(ts) \cup {t}
      /\ IsInjective(ts) /\ t \notin Range(ts) => IsInjective(r)
  BY <1>4 DEF Inserts
<1>10. at <= n => k = at + 1 /\ r[k] = t /\ \A i \in 1 .. at : r[i] = ts[i]
  BY <1>1, <1>2, <1>4 DEF Inserts
<1>11. GoodApp(b)
  BY <1>4, <1>5, <1>8 DEF GoodApp
<1> QED BY <1>1, <1>4, <1>7, <1>8, <1>9, <1>10, <1>11 DEF PlacedAs
LEMMA PlacedMoved ==
  ASSUME NEW a, GoodApp(a), NEW t \in Ids, t \in a.known, t \in Range(a.tracks),
         PL!FirstAt(a.tracks, t) # a.at + 1, a.at + 1 <= Len(a.tracks)
  PROVE  PlacedAs(a, t, Placed(a, t))
<1>1. PICK ts \in Seq(Ids), p \in Nat \ {0}, at \in Nat, n \in Nat :
        /\ ts = a.tracks /\ p = a.place /\ at = a.at /\ n = Len(ts)
        /\ p <= n \/ p = 1
  BY DEF GoodApp, Apps
<1>2. PICK f \in 1 .. n : /\ f = PL!FirstAt(ts, t) /\ ts[f] = t
                          /\ f # at + 1 /\ \A j \in 1 .. (f - 1) : ts[j] # t
  BY <1>1, FirstAtFacts
<1>3. PICK k \in 1 .. n : k = at + 1
  BY <1>1
<1>4. p \in 1 .. n
  BY <1>1, <1>3
<1>5. PICK r : r = InsertAt(RemoveAt(ts, f), k, ts[f])
  OBVIOUS
<1>6. /\ r \in Seq(Ids) /\ Len(r) = n /\ Range(r) = Range(ts) /\ r[k] = t
      /\ IsInjective(ts) => IsInjective(r)
      /\ k <= f => \A i \in 1 .. (k - 1) : r[i] = ts[i]
  <2>1. f \in 1 .. Len(ts) /\ k \in 1 .. Len(ts)
    BY <1>1
  <2>2. Moves(Ids, ts, f, k, r)
    BY <1>5, <2>1, MoveFacts
  <2> QED BY <1>1, <1>2, <2>2 DEF Moves
<1>7. PICK o : o = ListOf(a) /\ o.tracks = ts /\ o.queue = PL!Identity(n) /\ o.index = p
  <2>1. ListOf(a) = [tracks |-> ts, queue |-> PL!Identity(n), index |-> p]
    BY <1>1, Zenon DEF ListOf
  <2> QED BY <2>1
<1>8. PICK l : l = PL!Moved(o, f, k)
  OBVIOUS
<1>9. l.tracks = r
  <2>1. l.tracks = InsertAt(RemoveAt(o.tracks, f), k, o.tracks[f])
    BY <1>8 DEF PL!Moved, PL!InsertAt, PL!RemoveAt, InsertAt, RemoveAt
  <2> QED BY <1>5, <1>7, <2>1
<1>10. l.index \in 1 .. n
  <2>1. PICK order : order = [j \in DOMAIN PL!Identity(n) |-> r[PL!Identity(n)[j]]]
    OBVIOUS
  <2>2. order = r
    <3>1. r = [j \in 1 .. n |-> r[j]]
      BY <1>6
    <3> QED BY <2>1, <3>1 DEF PL!Identity
  <2>3. PICK id : id = o.tracks[o.queue[o.index]]
    OBVIOUS
  <2>4. l.index = IF id \in Range(order) THEN PL!FirstAt(order, id) ELSE p
    <3>1. l.index = IF id \in PL!Range([j \in DOMAIN PL!Identity(Len(o.tracks)) |->
                                          l.tracks[PL!Identity(Len(o.tracks))[j]]])
                    THEN PL!FirstAt([j \in DOMAIN PL!Identity(Len(o.tracks)) |->
                                          l.tracks[PL!Identity(Len(o.tracks))[j]]], id)
                    ELSE o.index
      BY <1>8, <2>3 DEF PL!Moved
    <3>2. PL!Identity(Len(o.tracks)) = PL!Identity(n)
      BY <1>1, <1>7
    <3>3. [j \in DOMAIN PL!Identity(Len(o.tracks)) |-> l.tracks[PL!Identity(Len(o.tracks))[j]]] = order
      BY <1>9, <2>1, <3>2
    <3> QED BY <1>7, <3>1, <3>3, SameOperators
  <2>5. id \in Range(r) => PL!FirstAt(r, id) \in 1 .. Len(r)
    BY <1>6, FirstAtFacts
  <2> QED BY <1>4, <1>6, <2>2, <2>4, <2>5
<1>11. PICK pl \in Nat \ {0} : pl = l.index /\ pl <= n
  BY <1>10
<1>12. PICK b : b = [a EXCEPT !.tracks = r, !.place = pl, !.at = at + 1, !.known = @ \cup {t}]
  OBVIOUS
<1>13. Placed(a, t) = b
  <2>1. Placed(a, t) = WithList([a EXCEPT !.at = @ + 1, !.known = @ \cup {t}], l)
    <3>1. PL!FirstAt(a.tracks, t) = f /\ a.at + 1 = k
      BY <1>1, <1>2, <1>3
    <3>2. PL!Moved(ListOf(a), PL!FirstAt(a.tracks, t), a.at + 1) = l
      BY <1>7, <1>8, <3>1
    <3> QED BY <3>2 DEF Placed
  <2>2. a \in Apps
    BY DEF GoodApp
  <2> QED BY <1>1, <1>9, <1>11, <1>12, <2>1, <2>2 DEF WithList, Apps
<1>14. /\ b \in Apps /\ b.tracks = r /\ b.place = pl /\ b.current = a.current
       /\ b.started = a.started /\ b.at = at + 1 /\ b.known = a.known \cup {t}
  <2>1. a \in Apps /\ at + 1 \in Nat /\ a.known \cup {t} \in SUBSET Ids
    BY <1>1 DEF GoodApp, Apps
  <2> QED BY <1>6, <1>11, <1>12, <2>1 DEF Apps
<1>15. (\A i \in 1 .. at : ts[i] # t) => \A i \in 1 .. at : r[i] = ts[i]
  <2>1. (\A i \in 1 .. at : ts[i] # t) => k <= f
    BY <1>2, <1>3
  <2> QED BY <1>3, <1>6, <2>1
<1>16. GoodApp(b)
  BY <1>6, <1>11, <1>14 DEF GoodApp
<1>17. t \in Range(ts) /\ t \in a.known
  BY <1>1
<1> QED BY <1>1, <1>3, <1>6, <1>13, <1>14, <1>15, <1>16, <1>17 DEF PlacedAs

LEMMA PlacedKept ==
  ASSUME NEW a, GoodApp(a), NEW t \in Ids, t \in a.known,
         ~(/\ t \in Range(a.tracks) /\ PL!FirstAt(a.tracks, t) # a.at + 1
           /\ a.at + 1 <= Len(a.tracks))
  PROVE  PlacedAs(a, t, Placed(a, t))
<1>1. PICK ts \in Seq(Ids), at \in Nat, n \in Nat : ts = a.tracks /\ at = a.at /\ n = Len(ts)
  BY DEF GoodApp, Apps
<1>2. PICK b : b = [a EXCEPT !.at = @ + 1, !.known = @ \cup {t}]
  OBVIOUS
<1>3. Placed(a, t) = b
  BY <1>2, Zenon DEF Placed
<1>4. /\ b \in Apps /\ b.tracks = ts /\ b.place = a.place /\ b.current = a.current
      /\ b.started = a.started /\ b.at = at + 1 /\ b.known = a.known \cup {t}
  <2>1. a \in Apps /\ at + 1 \in Nat /\ a.known \cup {t} \in SUBSET Ids
    BY <1>1 DEF GoodApp, Apps
  <2> QED BY <1>1, <1>2, <2>1 DEF Apps
<1>5. ASSUME at <= n, t \in Range(ts), \A i \in 1 .. at : ts[i] # t
      PROVE  at + 1 <= n /\ ts[at + 1] = t
  <2>1. PICK f \in 1 .. n : f = PL!FirstAt(ts, t) /\ ts[f] = t
    BY <1>1, <1>5, FirstAtFacts
  <2>2. ~(f \in 1 .. at)
    BY <1>5, <2>1
  <2> QED BY <1>1, <1>5, <2>1, <2>2
<1>6. GoodApp(b)
  BY <1>1, <1>4 DEF GoodApp
<1> QED BY <1>1, <1>3, <1>4, <1>5, <1>6 DEF PlacedAs

LEMMA PlacedFacts ==
  ASSUME NEW a, GoodApp(a), NEW t \in Ids
  PROVE  PlacedAs(a, t, Placed(a, t))
BY PlacedInserted, PlacedMoved, PlacedKept
PlacesAlong(after, a, ts, n) ==
  /\ after[0] = a /\ AllPlaced(a, ts) = after[n]
  /\ \A i \in 1 .. n : after[i] = Placed(after[i - 1], ts[i])

LEMMA PlacedWalk ==
  ASSUME NEW a, GoodApp(a), NEW ts \in Seq(Ids), NEW n \in Nat, n = Len(ts)
  PROVE  \E after : PlacesAlong(after, a, ts, n)
<1>1. PICK Q : Q = {b \in Apps : GoodApp(b)}
  OBVIOUS
<1>2. PICK step : step = [x \in Q \X (1 .. n) |-> Placed(x[1], ts[x[2]])]
  OBVIOUS
<1>3. step \in [Q \X (1 .. n) -> Q]
  <2>1. ASSUME NEW b \in Q, NEW i \in 1 .. n PROVE Placed(b, ts[i]) \in Q
    <3>1. GoodApp(b) /\ ts[i] \in Ids
      BY <1>1
    <3>2. GoodApp(Placed(b, ts[i]))
      BY <3>1, PlacedFacts DEF PlacedAs
    <3> QED BY <1>1, <3>2 DEF GoodApp
  <2> QED BY <1>2, <2>1
<1>4. a \in Q
  BY <1>1 DEF GoodApp
<1>5. PICK g : /\ g \in [0 .. n -> Q] /\ g[0] = a
               /\ \A i \in 1 .. n : g[i] = step[<<g[i - 1], i>>]
  <2>1. \E g : Walks(g, Q, a, n, step)
    BY <1>3, <1>4, Iterated
  <2> QED BY <2>1 DEF Walks
<1>6. ASSUME NEW i \in 0 .. n
      PROVE  g[i] = IF i = 0 THEN a ELSE Placed(g[i - 1], ts[i])
  <2>1. CASE i = 0
    BY <1>5, <2>1
  <2>2. CASE i # 0
    <3>1. i \in 1 .. n /\ i - 1 \in 0 .. n /\ g[i - 1] \in Q
      BY <1>5, <2>2
    <3> QED BY <1>2, <1>5, <2>2, <3>1
  <2> QED BY <2>1, <2>2
<1> DEFINE eq(k) == k = [i \in 0 .. Len(ts) |-> IF i = 0 THEN a ELSE Placed(k[i - 1], ts[i])]
<1>7. eq(g)
  BY <1>5, <1>6
<1>8. PICK k : eq(k) /\ AllPlaced(a, ts) = k[Len(ts)]
  <2>1. eq(CHOOSE k : eq(k))
    BY <1>7
  <2>2. AllPlaced(a, ts) = (CHOOSE k : eq(k))[Len(ts)]
    BY DEF AllPlaced
  <2> QED BY <2>1, <2>2
<1>9. ASSUME NEW i \in 0 .. n
      PROVE  k[i] = IF i = 0 THEN a ELSE Placed(k[i - 1], ts[i])
  BY <1>8
<1>10. k[0] = a
  <2>1. 0 \in 0 .. n
    OBVIOUS
  <2> QED BY <1>9, <2>1
<1>11. ASSUME NEW i \in 1 .. n PROVE k[i] = Placed(k[i - 1], ts[i])
  <2>1. i \in 0 .. n /\ i # 0
    OBVIOUS
  <2> QED BY <1>9, <2>1
<1> QED BY <1>8, <1>10, <1>11 DEF PlacesAlong

\* What AllPlaced(a, ts), b, has of a.
AllPlacedAs(a, ts, b) ==
  /\ GoodApp(b) /\ b.current = a.current /\ b.started = a.started
  /\ b.at = a.at + Len(ts) /\ b.known = a.known \cup Range(ts)
  /\ Range(b.tracks) \subseteq Range(a.tracks) \cup Range(ts)
  /\ Range(a.tracks) \subseteq Range(b.tracks)
  /\ a.known \subseteq Range(a.tracks) => b.known \subseteq Range(b.tracks)
  /\ IsInjective(a.tracks) /\ Range(a.tracks) \subseteq a.known
     => IsInjective(b.tracks) /\ Range(b.tracks) \subseteq b.known

LEMMA AllPlacedFacts ==
  ASSUME NEW a, GoodApp(a), NEW ts \in Seq(Ids)
  PROVE  AllPlacedAs(a, ts, AllPlaced(a, ts))
<1>1. PICK n \in Nat, at \in Nat : n = Len(ts) /\ DOMAIN ts = 1 .. n /\ at = a.at
  BY DEF GoodApp, Apps
<1>2. PICK after : /\ after[0] = a /\ AllPlaced(a, ts) = after[n]
                   /\ \A i \in 1 .. n : after[i] = Placed(after[i - 1], ts[i])
  <2>1. \E after : PlacesAlong(after, a, ts, n)
    BY <1>1, PlacedWalk
  <2> QED BY <2>1 DEF PlacesAlong
<1> DEFINE First(i) == {ts[j] : j \in 1 .. i}
           Good(i, b) ==
             /\ GoodApp(b) /\ b.current = a.current /\ b.started = a.started
             /\ b.at = at + i /\ b.known = a.known \cup First(i)
             /\ Range(b.tracks) \subseteq Range(a.tracks) \cup First(i)
             /\ Range(a.tracks) \subseteq Range(b.tracks)
             /\ a.known \subseteq Range(a.tracks) => b.known \subseteq Range(b.tracks)
             /\ IsInjective(a.tracks) /\ Range(a.tracks) \subseteq a.known
                => IsInjective(b.tracks) /\ Range(b.tracks) \subseteq b.known
           T == {i \in 0 .. n : Good(i, after[i])}
<1>3. 0 \in T
  <2>1. First(0) = {}
    OBVIOUS
  <2> HIDE DEF First
  <2>2. Good(0, a)
    BY <1>1, <2>1
  <2> QED BY <1>2, <2>2
<1>4. ASSUME NEW i \in 0 .. (n - 1), i \in T PROVE i + 1 \in T
  <2>1. PICK m \in 1 .. n : m = i + 1 /\ i = m - 1
    OBVIOUS
  <2>2. PICK b : b = after[i] /\ Good(i, b)
    BY <1>4
  <2>3. PICK t \in Ids : t = ts[m]
    BY <1>1
  <2>4. PICK c : c = after[m] /\ c = Placed(b, t)
    BY <1>2, <2>1, <2>2, <2>3
  <2>5. PlacedAs(b, t, c)
    BY <2>2, <2>4, PlacedFacts
  <2>6. First(m) = First(i) \cup {t}
    <3>1. \A j \in 1 .. m : j \in 1 .. i \/ j = m
      BY <2>1
    <3>2. 1 .. i \subseteq 1 .. m /\ m \in 1 .. m
      BY <2>1
    <3> QED BY <2>3, <3>1, <3>2
  <2> HIDE DEF First
  <2>7. Good(m, c)
    <3>1. /\ GoodApp(c) /\ c.current = a.current /\ c.started = a.started
          /\ c.known = a.known \cup First(m)
      BY <2>2, <2>5, <2>6 DEF PlacedAs
    <3>2. c.at = at + m
      BY <2>1, <2>2, <2>5 DEF PlacedAs
    <3>3. /\ Range(c.tracks) \subseteq Range(a.tracks) \cup First(m)
          /\ Range(a.tracks) \subseteq Range(c.tracks)
      BY <2>2, <2>5, <2>6 DEF PlacedAs
    <3>4. a.known \subseteq Range(a.tracks) => c.known \subseteq Range(c.tracks)
      BY <2>2, <2>5 DEF PlacedAs
    <3>5. IsInjective(a.tracks) /\ Range(a.tracks) \subseteq a.known
            => IsInjective(c.tracks) /\ Range(c.tracks) \subseteq c.known
      BY <2>2, <2>5 DEF PlacedAs
    <3> QED BY <3>1, <3>2, <3>3, <3>4, <3>5
  <2> HIDE DEF Good
  <2> QED BY <2>1, <2>4, <2>7
<1>5. Good(n, after[n])
  <2>1. \A i \in 0 .. n : i \in T
    <3> HIDE DEF T
    <3> QED BY <1>3, <1>4, UpTo
  <2>2. n \in T
    <3> HIDE DEF T
    <3> QED BY <2>1
  <2> QED BY <2>2
<1>6. First(n) = Range(ts)
  BY <1>1 DEF Range
<1> HIDE DEF First
<1> QED BY <1>1, <1>2, <1>5, <1>6 DEF AllPlacedAs

\* As long as a track comes once, each goes behind those that came before it.
LEMMA AllPlacedInFront ==
  ASSUME NEW a, GoodApp(a), NEW ts \in Seq(Ids), NEW got \in Seq(Ids),
         a.known \subseteq Range(a.tracks), a.at = Len(got), IsPrefix(got, a.tracks),
         IsInjective(ts), Range(got) \cap Range(ts) = {}
  PROVE  IsPrefix(got \o ts, AllPlaced(a, ts).tracks)
<1>1. PICK n \in Nat, at \in Nat : n = Len(ts) /\ DOMAIN ts = 1 .. n /\ at = a.at /\ at = Len(got)
  OBVIOUS
<1>2. PICK after : /\ after[0] = a /\ AllPlaced(a, ts) = after[n]
                   /\ \A i \in 1 .. n : after[i] = Placed(after[i - 1], ts[i])
  <2>1. \E after : PlacesAlong(after, a, ts, n)
    BY <1>1, PlacedWalk
  <2> QED BY <2>1 DEF PlacesAlong
<1>3. a.tracks \in Seq(Ids) /\ at <= Len(a.tracks) /\ \A j \in 1 .. at : a.tracks[j] = got[j]
  <2>1. a.tracks \in Seq(Ids)
    BY DEF GoodApp, Apps
  <2> QED BY <1>1, <2>1, PrefixPlaces
<1> DEFINE Good(i, b) ==
             /\ GoodApp(b) /\ b.at = at + i /\ b.known \subseteq Range(b.tracks)
             /\ at + i <= Len(b.tracks)
             /\ \A j \in 1 .. at : b.tracks[j] = got[j]
             /\ \A j \in 1 .. i : b.tracks[at + j] = ts[j]
           T == {i \in 0 .. n : Good(i, after[i])}
<1>4. 0 \in T
  <2>1. Good(0, a)
    BY <1>1, <1>3
  <2> HIDE DEF Good
  <2> QED BY <1>2, <2>1
<1>5. ASSUME NEW i \in 0 .. (n - 1), i \in T PROVE i + 1 \in T
  <2>1. PICK m \in 1 .. n : m = i + 1 /\ i = m - 1
    OBVIOUS
  <2>2. PICK b : b = after[i] /\ Good(i, b)
    BY <1>5
  <2>3. PICK t \in Ids : t = ts[m]
    BY <1>1
  <2>4. PICK c : c = after[m] /\ c = Placed(b, t)
    BY <1>2, <2>1, <2>2, <2>3
  <2>5. PlacedAs(b, t, c)
    BY <2>2, <2>4, PlacedFacts
  <2>6. PICK k \in Nat : k = b.at /\ k = at + i
    BY <2>2
  <2>7. \A j \in 1 .. k : b.tracks[j] # t
    <3>1. ASSUME NEW j \in 1 .. at PROVE b.tracks[j] # t
      <4>1. got[j] \in Range(got) /\ t \in Range(ts)
        BY <1>1, <2>3 DEF Range
      <4> QED BY <2>2, <4>1
    <3>2. ASSUME NEW j \in 1 .. i PROVE b.tracks[at + j] # t
      <4>1. j \in 1 .. n /\ j # m
        BY <2>1
      <4> QED BY <1>1, <2>2, <2>3, <4>1 DEF IsInjective
    <3>3. ASSUME NEW j \in 1 .. k PROVE j \in 1 .. at \/ (j - at \in 1 .. i /\ at + (j - at) = j)
      BY <1>1, <2>6
    <3> QED BY <3>1, <3>2, <3>3
  <2>8. /\ k + 1 <= Len(c.tracks) /\ c.tracks[k + 1] = t
        /\ \A j \in 1 .. k : c.tracks[j] = b.tracks[j]
    <3>1. k <= Len(b.tracks) /\ b.known \subseteq Range(b.tracks)
      BY <2>2, <2>6
    <3> QED BY <2>5, <2>6, <2>7, <3>1 DEF PlacedAs
  <2>9. Good(m, c)
    <3>1. k + 1 = at + m /\ at \in Nat
      BY <2>1, <2>6
    <3>2. GoodApp(c) /\ c.at = at + m /\ at + m <= Len(c.tracks)
      BY <2>5, <2>6, <2>8, <3>1 DEF PlacedAs
    <3>3. c.known \subseteq Range(c.tracks)
      BY <2>2, <2>5 DEF PlacedAs
    <3>4. \A j \in 1 .. at : c.tracks[j] = got[j]
      <4>1. \A j \in 1 .. at : j \in 1 .. k
        BY <2>6
      <4> QED BY <2>2, <2>8, <4>1
    <3>5. ASSUME NEW j \in 1 .. m PROVE c.tracks[at + j] = ts[j]
      <4>1. CASE j = m
        BY <2>3, <2>8, <3>1, <4>1
      <4>2. CASE j # m
        <5>1. j \in 1 .. i /\ at + j \in 1 .. k
          BY <2>1, <2>6, <4>2
        <5> QED BY <2>2, <2>8, <5>1
      <4> QED BY <4>1, <4>2
    <3> QED BY <3>2, <3>3, <3>4, <3>5
  <2> HIDE DEF Good
  <2> QED BY <2>1, <2>4, <2>9
<1>6. Good(n, after[n])
  <2>1. \A i \in 0 .. n : i \in T
    <3> HIDE DEF T
    <3> QED BY <1>4, <1>5, UpTo
  <2>2. n \in T
    <3> HIDE DEF T
    <3> QED BY <2>1
  <2> QED BY <2>2
<1>7. PICK b : b = AllPlaced(a, ts) /\ Good(n, b)
  BY <1>2, <1>6
<1>8. PICK s \in Seq(Ids) : s = b.tracks
  BY <1>7 DEF GoodApp, Apps
<1>9. PICK c \in Seq(Ids) : /\ c = got \o ts /\ Len(c) = at + n
                            /\ \A i \in 1 .. (at + n) : c[i] = IF i <= at THEN got[i] ELSE ts[i - at]
  <2>1. /\ got \o ts \in Seq(Ids) /\ Len(got \o ts) = Len(got) + Len(ts)
        /\ \A i \in 1 .. (Len(got) + Len(ts)) :
             (got \o ts)[i] = IF i <= Len(got) THEN got[i] ELSE ts[i - Len(got)]
    BY ConcatProperties
  <2> QED BY <1>1, <2>1
<1>10. ASSUME NEW i \in 1 .. (at + n) PROVE c[i] = s[i]
  <2>1. CASE i <= at
    BY <1>7, <1>8, <1>9, <2>1
  <2>2. CASE ~(i <= at)
    <3>1. i - at \in 1 .. n /\ at + (i - at) = i
      BY <2>2
    <3>2. s[at + (i - at)] = ts[i - at]
      BY <1>7, <1>8, <3>1
    <3> QED BY <1>9, <2>2, <3>1, <3>2
  <2> QED BY <2>1, <2>2
<1>11. IsPrefix(c, s)
  BY <1>7, <1>8, <1>9, <1>10, PrefixPlaces
<1> QED BY <1>7, <1>8, <1>9, <1>11
-----------------------------------------------------------------------------
(* What is read back from the database.                                     *)

LEMMA RangeFinite ==
  ASSUME NEW E, NEW s \in Seq(E)
  PROVE  IsFiniteSet(Range(s))
<1>1. PICK n \in Nat : n = Len(s)
  OBVIOUS
<1>2. s \in Surjection(1 .. n, Range(s))
  BY <1>1 DEF Surjection, Range
<1>3. IsFiniteSet(1 .. n)
  BY FS_Interval
<1> QED BY <1>2, <1>3, FS_Surjection

LEMMA OrderedRest ==
  ASSUME NEW E, NEW S \in SUBSET E, IsFiniteSet(S), NEW s \in SetToSeqs(S)
  PROVE  s \in Seq(E) /\ Range(s) \subseteq S /\ IsInjective(s)
<1>1. PICK n \in Nat : n = Cardinality(S)
  BY FS_CardinalityType
<1>2. s \in [1 .. n -> S] /\ \A i, j \in 1 .. n : i # j => s[i] # s[j]
  BY <1>1 DEF SetToSeqs
<1>3. s \in Seq(S) /\ DOMAIN s = 1 .. n
  BY <1>2
<1> QED BY <1>2, <1>3 DEF Range, IsInjective

LEMMA LoadedFacts ==
  ASSUME NEW d, GoodDisk(d), NEW s \in Everywhere, NEW ts \in Loaded(d, s)
  PROVE  ts \in Seq(Ids) /\ IsInjective(ts) /\ AllOf(ts, s)
<1>1. PICK rows : rows = IF s = Offline THEN d.rows ELSE Kept(d.rows, OfSources({s}))
  OBVIOUS
<1>2. rows \in Seq(Ids) /\ IsInjective(rows) /\ AllOf(rows, s)
  <2>1. d.rows \in Seq(Ids) /\ IsInjective(d.rows)
    BY DEF GoodDisk
  <2>2. CASE s = Offline
    BY <1>1, <2>1, <2>2, LibraryAssumption DEF AllOf
  <2>3. CASE s # Offline
    <3>1. /\ rows \in Seq(Ids) /\ Range(rows) \subseteq Range(d.rows) \cap OfSources({s})
          /\ IsInjective(d.rows) => IsInjective(rows)
      BY <1>1, <2>1, <2>3, KeptFacts
    <3>2. AllOf(rows, s)
      BY <3>1 DEF AllOf, OfSources
    <3> QED BY <2>1, <3>1, <3>2
  <2> QED BY <2>2, <2>3
<1>3. PICK named : named = Named(d.order[s], Range(rows))
  OBVIOUS
<1>4. named \in Seq(Ids) /\ Range(named) \subseteq Range(rows) /\ IsInjective(named)
  <2>1. d.order[s] \in Seq(Ids)
    BY DEF GoodDisk
  <2> QED BY <1>3, <2>1, NamedFacts
<1>5. CASE ts = rows
  BY <1>2, <1>5
<1>6. ASSUME NEW rest \in SetToSeqs(Range(rows) \ Range(named)), ts = named \o rest
      PROVE  ts \in Seq(Ids) /\ IsInjective(ts) /\ AllOf(ts, s)
  <2>1. Range(rows) \ Range(named) \in SUBSET Ids /\ IsFiniteSet(Range(rows) \ Range(named))
    <3>1. IsFiniteSet(Range(rows)) /\ Range(rows) \subseteq Ids
      BY <1>2, RangeFinite, Places
    <3>2. Range(rows) \ Range(named) \in SUBSET Range(rows)
      OBVIOUS
    <3> QED BY <3>1, <3>2, FS_Subset
  <2>2. rest \in Seq(Ids) /\ Range(rest) \subseteq Range(rows) \ Range(named) /\ IsInjective(rest)
    <3>1. PICK S \in SUBSET Ids : S = Range(rows) \ Range(named) /\ IsFiniteSet(S)
      BY <2>1
    <3>2. rest \in SetToSeqs(S)
      BY <3>1
    <3> QED BY <3>1, <3>2, OrderedRest
  <2>3. IsInjective(ts)
    <3>1. Range(named) \cap Range(rest) = {}
      BY <2>2
    <3> QED BY <1>4, <1>6, <2>2, <3>1, ConcatInjective
  <2>4. ts \in Seq(Ids) /\ Range(ts) = Range(named) \cup Range(rest)
    BY <1>4, <1>6, <2>2, ConcatProperties, RangeConcatenation
  <2>5. Range(ts) \subseteq Range(rows)
    BY <1>4, <2>2, <2>4
  <2> QED BY <1>2, <2>3, <2>4, <2>5 DEF AllOf
<1>7. Loaded(d, s) = IF s = Offline \/ d.order[s] = <<>> THEN {rows}
                     ELSE {named \o rest : rest \in SetToSeqs(Range(rows) \ Range(named))}
  BY <1>1, <1>3, Zenon DEF Loaded
<1>8. ts = rows \/ \E rest \in SetToSeqs(Range(rows) \ Range(named)) : ts = named \o rest
  BY <1>7
<1> QED BY <1>5, <1>6, <1>8

-----------------------------------------------------------------------------
(* The handlers, as functions of app.                                       *)

SameList(a, b) ==
  b.tracks = a.tracks /\ b.started = a.started /\ b.at = a.at /\ b.known = a.known

LEMMA AlignedFacts ==
  ASSUME NEW a, GoodApp(a), NEW b, b = Aligned(a)
  PROVE  GoodApp(b) /\ InPlace(b) /\ SameList(a, b) /\ b.current = a.current
<1>1. a \in Apps /\ a.tracks \in Seq(Ids)
  BY DEF GoodApp, Apps
<1>2. CASE a.current \in Range(a.tracks)
  <2>1. PICK i : i = PL!FirstAt(a.tracks, a.current)
    OBVIOUS
  <2>2. i \in 1 .. Len(a.tracks) /\ a.tracks[i] = a.current
    BY <1>1, <1>2, <2>1, FirstAtFacts
  <2>3. b = [a EXCEPT !.place = i]
    BY <1>2, <2>1 DEF Aligned
  <2>4. b \in Apps /\ SameList(a, b) /\ b.place = i /\ b.current = a.current
    BY <1>1, <2>2, <2>3 DEF Apps, SameList
  <2>5. GoodApp(b)
    BY <1>1, <2>2, <2>4 DEF GoodApp, SameList
  <2>6. InPlace(b)
    BY <2>2, <2>4 DEF InPlace, SameList
  <2> QED BY <2>4, <2>5, <2>6
<1>3. CASE a.current \notin Range(a.tracks)
  BY <1>3 DEF Aligned, InPlace, SameList
<1> QED BY <1>2, <1>3

LEMMA JumpedFacts ==
  ASSUME NEW a, GoodApp(a), NEW i \in 1 .. Len(a.tracks), NEW b, b = JumpedTo(a, i)
  PROVE  GoodApp(b) /\ InPlace(b) /\ SameList(a, b)
<1>1. a \in Apps /\ a.tracks \in Seq(Ids)
  BY DEF GoodApp, Apps
<1>2. a.tracks[i] \in Ids /\ i \in Nat \ {0}
  BY <1>1
<1>3. b = [a EXCEPT !.place = i, !.current = a.tracks[i]]
  BY DEF JumpedTo
<1>4. b \in Apps /\ SameList(a, b) /\ b.place = i /\ b.current = a.tracks[i]
  BY <1>1, <1>2, <1>3 DEF Apps, SameList
<1>5. GoodApp(b)
  BY <1>1, <1>4 DEF GoodApp, SameList
<1>6. InPlace(b)
  BY <1>4 DEF InPlace, SameList
<1> QED BY <1>4, <1>5, <1>6

LEMMA ResumedFacts ==
  ASSUME NEW a, GoodApp(a), InPlace(a), NEW session, NEW b, b = Resumed(a, session)
  PROVE  GoodApp(b) /\ InPlace(b) /\ SameList(a, b) /\ (a.tracks = <<>> => b = a)
<1>1. a.tracks \in Seq(Ids) /\ DOMAIN a.tracks = 1 .. Len(a.tracks)
  BY DEF GoodApp, Apps
<1>2. a.tracks = <<>> => Range(a.tracks) = {} /\ DOMAIN a.tracks = {}
  BY <1>1 DEF Range
<1>3. CASE session.track \in Range(a.tracks)
  <2>1. PICK i : i = PL!FirstAt(a.tracks, session.track)
    OBVIOUS
  <2>2. i \in 1 .. Len(a.tracks)
    BY <1>1, <1>3, <2>1, FirstAtFacts
  <2>3. b = JumpedTo(a, i)
    BY <1>3, <2>1 DEF Resumed
  <2> QED BY <1>2, <1>3, <2>2, <2>3, JumpedFacts
<1>4. CASE session.track \notin Range(a.tracks) /\ session.index \in DOMAIN a.tracks
  <2>1. b = JumpedTo(a, session.index)
    BY <1>4 DEF Resumed
  <2> QED BY <1>1, <1>2, <1>4, <2>1, JumpedFacts
<1>5. CASE session.track \notin Range(a.tracks) /\ session.index \notin DOMAIN a.tracks
  <2>1. b = a
    BY <1>5 DEF Resumed
  <2> QED BY <2>1 DEF SameList
<1> QED BY <1>3, <1>4, <1>5

\* What a list that was empty, a, has become in b for source s.
FilledAs(a, s, b) ==
  /\ a.tracks # <<>> => b.tracks = a.tracks
  /\ a.tracks = <<>> => IsInjective(b.tracks) /\ AllOf(b.tracks, s)

LEMMA PopulatedFacts ==
  ASSUME NEW a, GoodApp(a), GoodDisk(disk), NEW s \in Everywhere, NEW online,
         NEW b \in Populated(a, s, online)
  PROVE  /\ GoodApp(b) /\ FilledAs(a, s, b) /\ b.started = a.started
         /\ b.current = a.current /\ b.at = a.at /\ b.known = a.known
<1>1. CASE a.tracks # <<>>
  <2>1. b = a
    BY <1>1, Zenon DEF Populated
  <2> QED BY <1>1, <2>1 DEF FilledAs
<1>2. CASE a.tracks = <<>>
  <2>1. PICK ts \in Loaded(disk, s) :
          b = [a EXCEPT !.tracks = IF online THEN ts ELSE Kept(ts, Downloaded)]
    BY <1>2 DEF Populated
  <2>2. ts \in Seq(Ids) /\ IsInjective(ts) /\ AllOf(ts, s)
    BY LoadedFacts
  <2>3. PICK us : us = IF online THEN ts ELSE Kept(ts, Downloaded)
    OBVIOUS
  <2>4. us \in Seq(Ids) /\ IsInjective(us) /\ AllOf(us, s)
    <3>1. CASE us = ts
      BY <2>2, <3>1
    <3>2. CASE us = Kept(ts, Downloaded)
      <4>1. us \in Seq(Ids) /\ Range(us) \subseteq Range(ts) /\ IsInjective(us)
        BY <2>2, <3>2, KeptFacts
      <4> QED BY <2>2, <4>1 DEF AllOf
    <3> QED BY <2>3, <3>1, <3>2
  <2>5. a \in Apps /\ a.place = 1
    <3>1. Len(a.tracks) = 0
      BY <1>2
    <3> QED BY <3>1 DEF GoodApp, Apps
  <2>6. /\ b \in Apps /\ b.tracks = us /\ b.place = 1 /\ b.current = a.current
        /\ b.started = a.started /\ b.at = a.at /\ b.known = a.known
    BY <2>1, <2>3, <2>4, <2>5 DEF Apps
  <2>7. GoodApp(b)
    BY <2>6 DEF GoodApp
  <2> QED BY <1>2, <2>4, <2>6, <2>7 DEF FilledAs
<1> QED BY <1>1, <1>2
LEMMA StartedFacts ==
  ASSUME NEW a, GoodApp(a), a.current = NoTrack, ~a.started, GoodDisk(disk),
         NEW s \in Everywhere, NEW online, NEW b \in InitPlaylistAndStart(a, s, online)
  PROVE  /\ GoodMemory(b) /\ InPlace(b) /\ FilledAs(a, s, b)
         /\ b.at = a.at /\ b.known = a.known
<1>1. PICK c \in Populated(a, s, online) :
        b = IF c.tracks = <<>> THEN c ELSE Resumed([c EXCEPT !.started = TRUE], disk.session[s])
  BY DEF InitPlaylistAndStart
<1>2. /\ GoodApp(c) /\ FilledAs(a, s, c) /\ c.started = a.started
      /\ c.current = a.current /\ c.at = a.at /\ c.known = a.known
  BY PopulatedFacts
<1>3. c.tracks \in Seq(Ids) /\ c.current \notin Range(c.tracks)
  <2>1. c.tracks \in Seq(Ids)
    BY <1>2 DEF GoodApp, Apps
  <2> QED BY <1>2, <2>1, LibraryAssumption, Places
<1>4. CASE c.tracks = <<>>
  <2>1. b = c
    BY <1>1, <1>4
  <2> QED BY <1>2, <1>3, <1>4, <2>1 DEF GoodMemory, InPlace
<1>5. CASE c.tracks # <<>>
  <2>1. PICK e : e = [c EXCEPT !.started = TRUE]
    OBVIOUS
  <2>2. /\ e \in Apps /\ e.tracks = c.tracks /\ e.place = c.place /\ e.current = c.current
        /\ e.started = TRUE /\ e.at = c.at /\ e.known = c.known
    BY <1>2, <2>1 DEF GoodApp, Apps
  <2>3. GoodApp(e) /\ InPlace(e)
    BY <1>2, <1>3, <2>2 DEF GoodApp, InPlace
  <2>4. b = Resumed(e, disk.session[s])
    BY <1>1, <1>5, <2>1
  <2>5. GoodApp(b) /\ InPlace(b) /\ SameList(e, b)
    BY <2>3, <2>4, ResumedFacts
  <2>6. GoodMemory(b)
    BY <2>2, <2>5 DEF GoodMemory, SameList
  <2> QED BY <1>2, <2>2, <2>5, <2>6 DEF FilledAs, SameList
<1> QED BY <1>4, <1>5

LEMMA ReadyFacts ==
  ASSUME NEW a, GoodMemory(a), GoodDisk(disk), NEW s \in Everywhere, NEW online,
         NEW b \in Ready(a, s, online)
  PROVE  /\ GoodMemory(b) /\ InPlace(b) /\ FilledAs(a, s, b)
         /\ b.at = 0 /\ b.known = Range(b.tracks)
<1>1. PICK c : /\ c \in IF a.started THEN {Aligned(e) : e \in Populated(a, s, online)}
                        ELSE InitPlaylistAndStart(a, s, online)
               /\ b = [c EXCEPT !.at = 0, !.known = Range(c.tracks)]
  BY DEF Ready
<1>2. GoodMemory(c) /\ InPlace(c) /\ FilledAs(a, s, c)
  <2>1. CASE a.started
    <3>1. PICK e \in Populated(a, s, online) : c = Aligned(e)
      BY <1>1, <2>1
    <3>2. GoodApp(e) /\ FilledAs(a, s, e) /\ e.started = a.started
      BY PopulatedFacts DEF GoodMemory
    <3>3. GoodApp(c) /\ InPlace(c) /\ SameList(e, c)
      BY <3>1, <3>2, AlignedFacts
    <3> QED BY <2>1, <3>2, <3>3 DEF GoodMemory, FilledAs, SameList
  <2>2. CASE ~a.started
    <3>1. c \in InitPlaylistAndStart(a, s, online)
      BY <1>1, <2>2
    <3>2. GoodApp(a) /\ a.current = NoTrack
      BY <2>2 DEF GoodMemory
    <3> QED BY <2>2, <3>1, <3>2, StartedFacts
  <2> QED BY <2>1, <2>2
<1>3. c \in Apps /\ c.tracks \in Seq(Ids) /\ Range(c.tracks) \in SUBSET Ids
  <2>1. c \in Apps /\ c.tracks \in Seq(Ids)
    BY <1>2 DEF GoodMemory, GoodApp, Apps
  <2> QED BY <2>1, Places
<1>4. /\ b \in Apps /\ b.tracks = c.tracks /\ b.place = c.place /\ b.current = c.current
      /\ b.started = c.started /\ b.at = 0 /\ b.known = Range(c.tracks)
  BY <1>1, <1>3 DEF Apps
<1>5. GoodMemory(b)
  BY <1>2, <1>4 DEF GoodMemory, GoodApp
<1>6. InPlace(b)
  BY <1>2, <1>4 DEF InPlace
<1>7. FilledAs(a, s, b)
  BY <1>2, <1>4 DEF FilledAs
<1> QED BY <1>4, <1>5, <1>6, <1>7

LEMMA FetchedFacts ==
  ASSUME NEW a, GoodMemory(a), GoodDisk(disk), source \in Everywhere, NEW ts \in Seq(Ids),
         NEW c, c = AllPlaced(a, ts), NEW b \in Fetched(a, ts)
  PROVE  /\ AllPlacedAs(a, ts, c)
         /\ GoodMemory(b) /\ InPlace(b) /\ FilledAs(c, source, b)
         /\ b.at = c.at /\ b.known = c.known
<1>1. AllPlacedAs(a, ts, c)
  BY AllPlacedFacts DEF GoodMemory
<1>2. PICK e : /\ e \in IF c.started THEN {c} ELSE InitPlaylistAndStart(c, source, TRUE)
               /\ b = Aligned(e)
  BY DEF Fetched
<1>3. GoodMemory(e) /\ FilledAs(c, source, e) /\ e.at = c.at /\ e.known = c.known
  <2>1. CASE c.started
    <3>1. e = c
      BY <1>2, <2>1
    <3>2. GoodMemory(e)
      BY <1>1, <2>1, <3>1 DEF AllPlacedAs, GoodMemory
    <3>3. FilledAs(c, source, c)
      <4>1. ASSUME c.tracks = <<>> PROVE IsInjective(c.tracks) /\ AllOf(c.tracks, source)
        BY <4>1, EmptyFacts DEF AllOf
      <4> QED BY <4>1 DEF FilledAs
    <3> QED BY <3>1, <3>2, <3>3
  <2>2. CASE ~c.started
    <3>1. e \in InitPlaylistAndStart(c, source, TRUE)
      BY <1>2, <2>2
    <3>2. GoodApp(c) /\ c.current = NoTrack
      BY <1>1, <2>2 DEF AllPlacedAs, GoodMemory
    <3> QED BY <2>2, <3>1, <3>2, StartedFacts
  <2> QED BY <2>1, <2>2
<1>4. GoodApp(b) /\ InPlace(b) /\ SameList(e, b) /\ b.current = e.current
  BY <1>2, <1>3, AlignedFacts DEF GoodMemory
<1>5. GoodMemory(b)
  BY <1>3, <1>4 DEF GoodMemory, SameList
<1>6. FilledAs(c, source, b)
  BY <1>3, <1>4 DEF FilledAs, SameList
<1>7. b.at = c.at /\ b.known = c.known
  BY <1>3, <1>4 DEF SameList
<1> QED BY <1>1, <1>4, <1>5, <1>6, <1>7

\* Whatever was in the list, a source's tracks stay its tracks.
LEMMA FilledAllOf ==
  ASSUME NEW a, NEW b, NEW s, FilledAs(a, s, b), AllOf(a.tracks, s)
  PROVE  AllOf(b.tracks, s)
BY DEF FilledAs

LEMMA FilledInjective ==
  ASSUME NEW a, NEW b, NEW s, FilledAs(a, s, b), IsInjective(a.tracks)
  PROVE  IsInjective(b.tracks)
BY DEF FilledAs

LEMMA FinishedFacts ==
  ASSUME NEW a, GoodMemory(a), NEW b, b = Finished(a)
  PROVE  /\ GoodMemory(b) /\ InPlace(b) /\ b.tracks = a.tracks
         /\ b.at = a.at /\ b.known = {}
<1>1. PICK c : c = [a EXCEPT !.known = {}]
  OBVIOUS
<1>2. /\ c \in Apps /\ c.tracks = a.tracks /\ c.place = a.place /\ c.current = a.current
      /\ c.started = a.started /\ c.at = a.at /\ c.known = {}
  BY <1>1 DEF GoodMemory, GoodApp, Apps
<1>3. GoodApp(c)
  BY <1>2 DEF GoodMemory, GoodApp
<1>4. b = Aligned(c)
  BY <1>1 DEF Finished
<1>5. GoodApp(b) /\ InPlace(b) /\ SameList(c, b) /\ b.current = c.current
  BY <1>3, <1>4, AlignedFacts
<1>6. GoodMemory(b)
  BY <1>2, <1>5 DEF GoodMemory, SameList
<1> QED BY <1>2, <1>5, <1>6 DEF SameList

LEMMA CurrentFacts ==
  ASSUME NEW a, GoodMemory(a), a.tracks # <<>>
  PROVE  Current(a) \in Ids
<1>1. /\ a.tracks \in Seq(Ids) /\ a.place \in Nat \ {0} /\ a.current \in Ids \cup {NoTrack}
      /\ (a.place <= Len(a.tracks) \/ a.place = 1)
  BY DEF GoodMemory, GoodApp, Apps
<1>2. Len(a.tracks) # 0 /\ Len(a.tracks) \in Nat
  BY <1>1
<1>3. a.place \in 1 .. Len(a.tracks)
  BY <1>1, <1>2
<1> QED BY <1>1, <1>3 DEF Current

\* An emptied list, whoever plays on.
LEMMA EmptiedFacts ==
  ASSUME NEW a, GoodMemory(a), NEW playing \in BOOLEAN, NEW b \in {Left(a, playing), LoggedOut(a)}
  PROVE  GoodMemory(b) /\ b.tracks = <<>> /\ b.known = a.known /\ b.at = a.at
<1>1. a \in Apps
  BY DEF GoodMemory, GoodApp
<1>2. PICK e \in Seq(Ids) : e = <<>> /\ Len(e) = 0
  BY EmptyFacts
<1>3. PICK current \in Ids \cup {NoTrack} :
        current = IF a.tracks = <<>> THEN a.current ELSE Current(a)
  BY <1>1, CurrentFacts DEF Apps
<1>4. CASE b = Left(a, playing) /\ (playing \/ a.started)
  <2>1. b = [a EXCEPT !.tracks = e, !.place = 1, !.current = current]
    BY <1>2, <1>3, <1>4 DEF Left, ClearedButCurrent
  <2>2. /\ b \in Apps /\ b.tracks = e /\ b.place = 1 /\ b.started = a.started
        /\ b.at = a.at /\ b.known = a.known
    <3>1. e \in Seq(Ids) /\ 1 \in Nat \ {0} /\ current \in Ids \cup {NoTrack}
      OBVIOUS
    <3> QED BY <1>1, <2>1, <3>1 DEF Apps
  <2>3. ~a.started => b.current = NoTrack
    BY <1>1, <1>3, <2>1 DEF GoodMemory, Apps
  <2> QED BY <1>2, <2>2, <2>3 DEF GoodMemory, GoodApp
<1>5. PICK c : /\ c = Cleared(a) /\ c = [a EXCEPT !.tracks = e, !.place = 1, !.current = NoTrack]
               /\ c \in Apps /\ c.tracks = e /\ c.place = 1 /\ c.current = NoTrack
               /\ c.started = a.started /\ c.at = a.at /\ c.known = a.known
  <2>1. PICK c : c = [a EXCEPT !.tracks = e, !.place = 1, !.current = NoTrack]
    OBVIOUS
  <2>2. c = Cleared(a)
    BY <1>2, <2>1 DEF Cleared
  <2>3. /\ c \in Apps /\ c.tracks = e /\ c.place = 1 /\ c.current = NoTrack
        /\ c.started = a.started /\ c.at = a.at /\ c.known = a.known
    <3>1. e \in Seq(Ids) /\ 1 \in Nat \ {0} /\ NoTrack \in Ids \cup {NoTrack}
      OBVIOUS
    <3> QED BY <1>1, <2>1, <3>1 DEF Apps
  <2> QED BY <2>1, <2>2, <2>3
<1>6. CASE b = Left(a, playing) /\ ~(playing \/ a.started)
  <2>1. b = c
    BY <1>5, <1>6 DEF Left
  <2> QED BY <1>2, <1>5, <2>1 DEF GoodMemory, GoodApp
<1>7. CASE b = LoggedOut(a)
  <2>1. b = [c EXCEPT !.started = FALSE]
    BY <1>5, <1>7 DEF LoggedOut
  <2>2. /\ b \in Apps /\ b.tracks = e /\ b.place = 1 /\ b.current = NoTrack
        /\ b.at = a.at /\ b.known = a.known
    BY <1>5, <2>1 DEF Apps
  <2> QED BY <1>2, <2>2 DEF GoodMemory, GoodApp
<1> QED BY <1>4, <1>6, <1>7
-----------------------------------------------------------------------------
(* Pages.                                                                   *)

\* ts is from page p of s.
PageOf(s, p, ts) ==
  /\ ts \in Seq(Ids) /\ IsInjective(ts) /\ AllOf(ts, s)
  /\ \A t \in Range(ts) : \E j \in DOMAIN Library[s] :
       Library[s][j] = t /\ (p - 1) * PageSize < j /\ j <= p * PageSize

LEMMA LibraryFacts ==
  ASSUME NEW s \in Services
  PROVE  \E L \in Seq(Ids), n \in Nat :
           /\ L = Library[s] /\ n = Len(L) /\ DOMAIN L = 1 .. n /\ IsInjective(L)
           /\ \A i \in 1 .. n : SourceOf[L[i]] = s
<1>1. PICK L \in Seq(Ids) : L = Library[s]
  BY LibraryAssumption
<1>2. PICK n \in Nat : n = Len(L) /\ DOMAIN L = 1 .. n
  OBVIOUS
<1>3. IsInjective(L) /\ \A i \in 1 .. n : SourceOf[L[i]] = s
  BY <1>1, <1>2, LibraryAssumption
<1> QED BY <1>1, <1>2, <1>3

\* Page p, but for page 0, has the z tracks of L from place x + 1 on.
SliceOf(L, n, x, y, z, ts) ==
  /\ y = x + PageSize /\ (z > 0 => x + z <= n /\ x + z <= y)
  /\ y < n => z = PageSize
  /\ \A j \in 1 .. n : x < j /\ j <= y => j <= x + z
  /\ ts \in Seq(Ids) /\ Len(ts) = z /\ \A i \in 1 .. z : ts[i] = L[x + i]

LEMMA ItemsFacts ==
  ASSUME NEW s \in Services, NEW p \in Nat \ {0},
         NEW L \in Seq(Ids), NEW n \in Nat, L = Library[s], n = Len(L), DOMAIN L = 1 .. n
  PROVE  \E x \in Nat, y \in Nat, z \in Nat :
           x = (p - 1) * PageSize /\ y = p * PageSize /\ SliceOf(L, n, x, y, z, Items(s, p))
<1>1. PICK x \in Nat, y \in Nat :
        x = (p - 1) * PageSize /\ y = p * PageSize /\ y = x + PageSize
  BY LibraryAssumption
<1>2. PICK k \in Nat : k = IF y < n THEN y ELSE n
  OBVIOUS
<1>3. PICK ts : ts = Items(s, p) /\ ts = SubSeq(L, x + 1, k)
  <2>1. Items(s, p) = SubSeq(L, x + 1, k)
    BY <1>1, <1>2 DEF Items
  <2> QED BY <2>1
<1>4. PICK m \in Nat : m = x + 1
  OBVIOUS
<1>5. PICK w \in Int : w = k - m + 1
  BY <1>4
<1>6. PICK z \in Nat : z = IF m <= k THEN w ELSE 0
  <2>1. m <= k => w \in Nat
    BY <1>4, <1>5
  <2>2. (IF m <= k THEN w ELSE 0) \in Nat
    BY <2>1
  <2> QED BY <2>2
<1>7. z > 0 => x + z <= n /\ x + z <= y
  <2>1. z > 0 => x + z = k
    BY <1>4, <1>5, <1>6
  <2>2. k <= n /\ k <= y
    BY <1>2
  <2> QED BY <2>1, <2>2
<1>8. y < n => z = PageSize
  BY <1>1, <1>2, <1>4, <1>5, <1>6, LibraryAssumption
<1>9. ASSUME NEW j \in 1 .. n, x < j, j <= y PROVE j <= x + z
  <2>1. j <= k /\ m <= k
    BY <1>2, <1>4, <1>9
  <2> QED BY <1>4, <1>5, <1>6, <2>1
<1>10. ts \in Seq(Ids) /\ Len(ts) = z /\ \A i \in 1 .. z : ts[i] = L[x + i]
  <2>1. \A i \in m .. k : L[i] \in Ids
    <3>1. \A i \in m .. k : i \in 1 .. n
      BY <1>2, <1>4
    <3> QED BY <3>1
  <2>2. /\ SubSeq(L, m, k) \in Seq(Ids)
        /\ Len(SubSeq(L, m, k)) = IF m <= k THEN k - m + 1 ELSE 0
        /\ \A i \in 1 .. (k - m + 1) : SubSeq(L, m, k)[i] = L[m + i - 1]
    BY <2>1, SubSeqProperties
  <2>3. \A i \in 1 .. z : i \in 1 .. (k - m + 1) /\ m + i - 1 = x + i
    BY <1>4, <1>5, <1>6
  <2> QED BY <1>3, <1>4, <1>5, <1>6, <2>2, <2>3
<1>11. SliceOf(L, n, x, y, z, ts)
  BY <1>1, <1>7, <1>8, <1>9, <1>10 DEF SliceOf
<1> QED BY <1>1, <1>3, <1>11

LEMMA PageFacts ==
  ASSUME NEW s \in Services, NEW p \in Nat
  PROVE  PageOf(s, p, Items(s, p)) /\ PageOf(s, p, <<>>)
<1>1. PICK L \in Seq(Ids), n \in Nat :
        /\ L = Library[s] /\ n = Len(L) /\ DOMAIN L = 1 .. n /\ IsInjective(L)
        /\ \A i \in 1 .. n : SourceOf[L[i]] = s
  BY LibraryFacts
<1>2. PageOf(s, p, <<>>)
  <2>1. PICK e : e = <<>>
    OBVIOUS
  <2>2. e \in Seq(Ids) /\ IsInjective(e) /\ Range(e) = {}
    BY <2>1, EmptyFacts
  <2>3. PageOf(s, p, e)
    BY <2>2 DEF PageOf, AllOf
  <2> QED BY <2>1, <2>3
<1>3. CASE p = 0
  <2>1. Items(s, p) = <<>>
    BY <1>3 DEF Items
  <2> QED BY <1>2, <2>1
<1>4. CASE p # 0
  <2>1. PICK x \in Nat, y \in Nat, z \in Nat :
          x = (p - 1) * PageSize /\ y = p * PageSize /\ SliceOf(L, n, x, y, z, Items(s, p))
    BY <1>1, <1>4, ItemsFacts
  <2>2. PICK ts : ts = Items(s, p)
    OBVIOUS
  <2>3. /\ ts \in Seq(Ids) /\ Len(ts) = z /\ DOMAIN ts = 1 .. z
        /\ (z > 0 => x + z <= n /\ x + z <= y) /\ \A i \in 1 .. z : ts[i] = L[x + i]
    BY <2>1, <2>2 DEF SliceOf
  <2>4. ASSUME NEW i \in 1 .. z
        PROVE  x + i \in 1 .. n /\ ts[i] = L[x + i] /\ x < x + i /\ x + i <= y
    BY <2>3
  <2>5. IsInjective(ts)
    <3>1. ASSUME NEW i \in 1 .. z, NEW j \in 1 .. z, ts[i] = ts[j] PROVE i = j
      <4>1. x + i \in 1 .. n /\ x + j \in 1 .. n /\ L[x + i] = L[x + j]
        BY <2>4, <3>1
      <4>2. x + i = x + j
        BY <1>1, <4>1 DEF IsInjective
      <4> QED BY <4>2
    <3> QED BY <2>3, <3>1 DEF IsInjective
  <2>6. AllOf(ts, s)
    <3>1. \A i \in 1 .. z : SourceOf[ts[i]] = s
      BY <1>1, <2>4
    <3> QED BY <2>3, <3>1 DEF AllOf, Range
  <2>7. ASSUME NEW t \in Range(ts)
        PROVE  \E j \in DOMAIN L : L[j] = t /\ x < j /\ j <= y
    <3>1. PICK i \in 1 .. z : t = ts[i]
      BY <2>3 DEF Range
    <3> QED BY <1>1, <2>4, <3>1
  <2>8. PageOf(s, p, ts)
    BY <1>1, <2>1, <2>3, <2>5, <2>6, <2>7 DEF PageOf
  <2> QED BY <1>2, <2>2, <2>8
<1> QED BY <1>3, <1>4

LEMMA DivisionFacts ==
  ASSUME NEW a \in Nat, NEW b \in Nat \ {0}
  PROVE  /\ a \div b \in Nat /\ b * (a \div b) <= a /\ a < b * (a \div b) + b
OBVIOUS

\* What page p has is ahead until it is answered, and not after that.
Turns(f, p, ts, out) ==
  /\ Range(ts) \subseteq Ahead(f)
  /\ \A g : /\ g = [f EXCEPT !.out = out] /\ out # {}
            => /\ GoodFetch(g) /\ g.id = f.id
               /\ Ahead(g) \subseteq Ahead(f) /\ Range(ts) \cap Ahead(g) = {}

LEMMA PageAnswered ==
  ASSUME NEW f, GoodFetch(f), NEW p \in f.out, NEW ok \in BOOLEAN,
         NEW ts, ts = IF ok THEN Items(f.of, p) ELSE <<>>
  PROVE  Turns(f, p, ts, StillOut(f, p, ok)) /\ PageOf(f.of, p, ts)
<1>1. PICK s \in Services, o \in SUBSET Nat :
        /\ s = f.of /\ o = f.out /\ p \in o
        /\ f \in [id : 1 .. begun, of : Services, out : SUBSET Nat]
        /\ IF s \in Parallel THEN o = {0} \/ 0 \notin o ELSE p # 0 /\ o = {p}
  BY DEF GoodFetch
<1>2. p \in Nat /\ PageSize \in Nat \ {0}
  BY <1>1, LibraryAssumption
<1>3. PageOf(s, p, ts)
  BY <1>1, <1>2, PageFacts
<1>4. PICK L \in Seq(Ids), n \in Nat : L = Library[s] /\ DOMAIN L = 1 .. n /\ IsInjective(L)
  BY LibraryFacts
<1> DEFINE Wanted(j, r) ==
             \E q \in r : (q - 1) * PageSize < j /\ (s \in Parallel /\ q # 0 => j <= q * PageSize)
<1>5. \A t : t \in Ahead(f) <=> \E j \in 1 .. n : Wanted(j, o) /\ t = L[j]
  BY <1>1, <1>4 DEF Ahead
<1>6. Range(ts) \subseteq Ahead(f)
  <2>1. ASSUME NEW t \in Range(ts) PROVE t \in Ahead(f)
    <3>1. PICK j \in 1 .. n : L[j] = t /\ (p - 1) * PageSize < j /\ j <= p * PageSize
      BY <1>3, <1>4 DEF PageOf
    <3>2. Wanted(j, o)
      BY <1>1, <3>1
    <3> HIDE DEF Wanted
    <3> QED BY <1>5, <3>1, <3>2
  <2> QED BY <2>1
<1>7. PICK out : out = StillOut(f, p, ok)
  OBVIOUS
<1>8. ASSUME NEW g, g = [f EXCEPT !.out = out], out # {}
      PROVE  /\ GoodFetch(g) /\ g.id = f.id
             /\ Ahead(g) \subseteq Ahead(f) /\ Range(ts) \cap Ahead(g) = {}
  <2>1. \/ /\ s \in Parallel /\ p = 0 /\ out = PagesOf(s)
        \/ /\ s \in Parallel /\ out = o \ {p} /\ 0 \notin o
        \/ /\ s \notin Parallel /\ out = {p + 1}
    <3>1. CASE s \in Parallel
      <4>1. out = IF p = 0 /\ ok THEN PagesOf(s) ELSE o \ {p}
        BY <1>1, <1>7, <3>1 DEF StillOut
      <4>2. out = o \ {p} => 0 \notin o
        BY <1>1, <1>8, <3>1
      <4> QED BY <3>1, <4>1, <4>2
    <3>2. CASE s \notin Parallel
      BY <1>1, <1>7, <1>8, <3>2 DEF StillOut
    <3> QED BY <3>1, <3>2
  <2>2. /\ out \in SUBSET Nat
        /\ s \in Parallel => 0 \notin out
        /\ s \notin Parallel => p + 1 # 0 /\ out = {p + 1}
    <3>1. PagesOf(s) \subseteq Nat /\ 0 \notin PagesOf(s)
      BY DEF PagesOf
    <3> QED BY <1>1, <1>2, <2>1, <3>1
  <2>3. /\ g.id = f.id /\ g.of = s /\ g.out = out
        /\ g \in [id : 1 .. begun, of : Services, out : SUBSET Nat]
    BY <1>1, <1>8, <2>2
  <2>4. GoodFetch(g)
    BY <1>8, <2>2, <2>3 DEF GoodFetch
  <2>5. \A t : t \in Ahead(g) <=> \E j \in 1 .. n : Wanted(j, out) /\ t = L[j]
    BY <1>4, <2>3 DEF Ahead
  <2>6. ASSUME NEW j \in 1 .. n, Wanted(j, out)
        PROVE  Wanted(j, o) /\ (p # 0 => ~((p - 1) * PageSize < j /\ j <= p * PageSize))
    <3>1. PICK q \in out : (q - 1) * PageSize < j /\ (s \in Parallel /\ q # 0 => j <= q * PageSize)
      BY <2>6
    <3>2. CASE s \in Parallel /\ p = 0
      <4>1. (p - 1) * PageSize < j
        BY <1>2, <3>2
      <4> QED BY <1>1, <3>2, <4>1
    <3>3. CASE s \in Parallel /\ out = o \ {p} /\ 0 \notin o
      <4>1. q \in o /\ q # p /\ q # 0 /\ q \in Nat /\ j <= q * PageSize
        BY <2>2, <3>1, <3>3
      <4>2. Wanted(j, o)
        BY <3>1, <4>1
      <4>3. CASE q < p
        <5>1. q * PageSize <= (p - 1) * PageSize
          <6>1. PICK k \in Nat : p - 1 = q + k
            BY <1>2, <4>1, <4>3
          <6>2. (q + k) * PageSize = q * PageSize + k * PageSize /\ k * PageSize >= 0
            BY <1>2, <4>1
          <6> QED BY <1>2, <4>1, <6>1, <6>2
        <5>2. PICK x \in Int, y \in Int : x = q * PageSize /\ y = (p - 1) * PageSize
          BY <1>2, <4>1
        <5>3. ~((p - 1) * PageSize < j)
          BY <4>1, <5>1, <5>2
        <5> QED BY <4>2, <5>3
      <4>4. CASE p < q
        <5>1. p * PageSize <= (q - 1) * PageSize
          <6>1. PICK k \in Nat : q - 1 = p + k
            BY <1>2, <4>1, <4>4
          <6>2. (p + k) * PageSize = p * PageSize + k * PageSize /\ k * PageSize >= 0
            BY <1>2
          <6> QED BY <1>2, <4>1, <6>1, <6>2
        <5>2. PICK x \in Int, y \in Int : x = p * PageSize /\ y = (q - 1) * PageSize
          BY <1>2, <4>1
        <5>3. ~(j <= p * PageSize)
          BY <3>1, <5>1, <5>2
        <5> QED BY <4>2, <5>3
      <4>5. q < p \/ p < q
        BY <1>2, <4>1
      <4> QED BY <4>3, <4>4, <4>5
    <3>4. CASE s \notin Parallel
      <4>1. q = p + 1 /\ o = {p}
        BY <1>1, <2>2, <3>1, <3>4
      <4>2. PICK y \in Int, x \in Int : y = p * PageSize /\ x = (p - 1) * PageSize /\ x < y
        BY <1>2
      <4>3. y < j
        BY <1>2, <3>1, <4>1, <4>2
      <4>4. x < j
        BY <4>2, <4>3
      <4>5. Wanted(j, o)
        BY <3>4, <4>1, <4>2, <4>4
      <4> QED BY <4>2, <4>3, <4>5
    <3> QED BY <2>1, <3>2, <3>3, <3>4
  <2>7. Ahead(g) \subseteq Ahead(f)
    <3> HIDE DEF Wanted
    <3> QED BY <1>5, <2>5, <2>6
  <2>8. ASSUME NEW t, t \in Range(ts), t \in Ahead(g) PROVE FALSE
    <3>1. PICK i \in 1 .. n : L[i] = t /\ (p - 1) * PageSize < i /\ i <= p * PageSize
      BY <1>3, <1>4, <2>8 DEF PageOf
    <3>2. PICK j \in 1 .. n : Wanted(j, out) /\ t = L[j]
      BY <2>5, <2>8
    <3>3. i = j
      BY <1>4, <3>1, <3>2 DEF IsInjective
    <3>4. p # 0
      <4>1. p = 0 => p * PageSize = 0
        BY <1>2
      <4> QED BY <3>1, <4>1
    <3> HIDE DEF Wanted
    <3> QED BY <2>6, <3>1, <3>2, <3>3, <3>4
  <2> QED BY <2>3, <2>4, <2>7, <2>8
<1> HIDE DEF Wanted
<1> QED BY <1>1, <1>3, <1>6, <1>7, <1>8 DEF Turns
-----------------------------------------------------------------------------
(* What is written to the database.                                         *)

LEMMA BagFacts ==
  /\ BagToSet(EmptyBag) = {}
  /\ \A B, S : BagToSet(B (+) SetToBag(S)) = BagToSet(B) \cup S
  /\ \A B, S : BagToSet(B (-) SetToBag(S)) \subseteq BagToSet(B)
BY DEF EmptyBag, SetToBag, BagToSet, (+), (-)

LEMMA PooledFacts ==
  ASSUME GoodPool, NEW tasks, \A task \in tasks : GoodTask(task), Pooled(tasks)
  PROVE  GoodPool'
<1>1. BagToSet(pool') = BagToSet(pool) \cup tasks
  BY BagFacts DEF Pooled
<1> QED BY <1>1 DEF GoodPool

LEMMA SaveTracksFacts ==
  ASSUME NEW ts \in Seq(Ids), IsInjective(ts)
  PROVE  GoodTask(SaveTracks(ts))
BY DEF GoodTask, SaveTracks, Everywhere

LEMMA SaveQueueFacts ==
  ASSUME NEW ts \in Seq(Ids), NEW s \in Everywhere, AllOf(ts, s)
  PROVE  GoodTask(SaveQueue(ts, s))
BY DEF GoodTask, SaveQueue

LEMMA WrittenFacts ==
  ASSUME NEW d, GoodDisk(d), NEW task, GoodTask(task)
  PROVE  GoodDisk(Written(d, task))
<1>1. PICK rows \in Seq(Ids), order \in [Everywhere -> Seq(Ids)], session \in [Everywhere -> Sessions] :
        /\ d = [rows |-> rows, order |-> order, session |-> session]
        /\ IsInjective(rows) /\ \A s \in Everywhere : AllOf(order[s], s)
  BY DEF GoodDisk
<1>2. PICK ids \in Seq(Ids), of \in Everywhere :
        /\ ids = task.ids /\ of = task.of
        /\ IF task.kind = "tracks" THEN IsInjective(ids) ELSE AllOf(ids, of)
  BY DEF GoodTask
<1>3. CASE task.kind = "tracks"
  <2>1. PICK new : new = Without(ids, Range(rows))
    OBVIOUS
  <2>2. /\ new \in Seq(Ids) /\ Range(new) \subseteq Range(ids) \cap (Range(ids) \ Range(rows))
        /\ IsInjective(ids) => IsInjective(new)
    BY <2>1, KeptFacts DEF Without
  <2>3. rows \o new \in Seq(Ids)
    BY <2>2, ConcatProperties
  <2>4. IsInjective(rows \o new)
    <3>1. Range(rows) \cap Range(new) = {}
      BY <2>2
    <3> QED BY <1>1, <1>2, <1>3, <2>2, <3>1, ConcatInjective
  <2>5. PICK all \in Seq(Ids) : all = rows \o new /\ IsInjective(all)
    BY <2>3, <2>4
  <2>6. Written(d, task) = [rows |-> all, order |-> order, session |-> session]
    BY <1>1, <1>2, <1>3, <2>1, <2>5 DEF Written
  <2>7. /\ Written(d, task) \in [rows : Seq(Ids), order : [Everywhere -> Seq(Ids)],
                                 session : [Everywhere -> Sessions]]
        /\ Written(d, task).rows = all /\ Written(d, task).order = order
    BY <2>6
  <2> QED BY <1>1, <2>5, <2>7 DEF GoodDisk
<1>4. CASE task.kind # "tracks"
  <2>1. PICK os : os = [order EXCEPT ![of] = ids]
    OBVIOUS
  <2>2. os \in [Everywhere -> Seq(Ids)] /\ \A s \in Everywhere : AllOf(os[s], s)
    <3>1. os \in [Everywhere -> Seq(Ids)]
      BY <2>1
    <3>2. ASSUME NEW s \in Everywhere PROVE AllOf(os[s], s)
      <4>1. CASE s = of
        BY <1>2, <1>4, <2>1, <4>1
      <4>2. CASE s # of
        BY <1>1, <2>1, <4>2
      <4> QED BY <4>1, <4>2
    <3> QED BY <3>1, <3>2
  <2>3. PICK one : one = IF session[of] = NoSession THEN [NoSession EXCEPT !.index = 1] ELSE session[of]
    OBVIOUS
  <2>4. one \in Sessions
    BY <2>3 DEF Sessions, NoSession
  <2>5. PICK ss \in [Everywhere -> Sessions] : ss = [session EXCEPT ![of] = one]
    BY <2>4
  <2>6. Written(d, task) = [rows |-> rows, order |-> os, session |-> ss]
    BY <1>1, <1>2, <1>4, <2>1, <2>3, <2>5 DEF Written
  <2>7. /\ Written(d, task) \in [rows : Seq(Ids), order : [Everywhere -> Seq(Ids)],
                                 session : [Everywhere -> Sessions]]
        /\ Written(d, task).rows = rows /\ Written(d, task).order = os
    BY <2>2, <2>6
  <2> QED BY <1>1, <2>2, <2>7 DEF GoodDisk
<1> QED BY <1>3, <1>4

LEMMA ForgottenFacts ==
  ASSUME NEW d, GoodDisk(d), NEW S
  PROVE  GoodDisk(Forgotten(d, S))
<1>1. PICK rows \in Seq(Ids), order \in [Everywhere -> Seq(Ids)], session \in [Everywhere -> Sessions] :
        /\ d = [rows |-> rows, order |-> order, session |-> session]
        /\ IsInjective(rows) /\ \A s \in Everywhere : AllOf(order[s], s)
  BY DEF GoodDisk
<1>2. PICK left : left = Kept(rows, OfSources(Services \ S))
  OBVIOUS
<1>3. left \in Seq(Ids) /\ IsInjective(left)
  BY <1>1, <1>2, KeptFacts
<1>4. PICK e \in Seq(Ids) : e = <<>> /\ Range(e) = {}
  BY EmptyFacts
<1>5. PICK os : os = [s \in Everywhere |-> IF s \in S THEN e ELSE order[s]]
  OBVIOUS
<1>6. os \in [Everywhere -> Seq(Ids)] /\ \A s \in Everywhere : AllOf(os[s], s)
  <2>1. \A s \in Everywhere : AllOf(e, s)
    BY <1>4 DEF AllOf
  <2> QED BY <1>1, <1>5, <2>1
<1>7. PICK ss : ss = [s \in Everywhere |-> IF s \in S THEN NoSession ELSE session[s]]
  OBVIOUS
<1>8. ss \in [Everywhere -> Sessions]
  BY <1>7 DEF Sessions, NoSession
<1>9. Forgotten(d, S) = [rows |-> left, order |-> os, session |-> ss]
  BY <1>1, <1>2, <1>4, <1>5, <1>7 DEF Forgotten
<1> QED BY <1>3, <1>6, <1>8, <1>9 DEF GoodDisk

LEMMA SavedFacts ==
  ASSUME GoodMemory(app), AllOf(app.tracks, source), source \in Everywhere,
         GoodDisk(disk), GoodPool, SaveSession(app)
  PROVE  GoodDisk(disk') /\ GoodPool'
<1>1. CASE app.tracks = <<>>
  BY <1>1 DEF SaveSession, GoodPool
<1>2. CASE app.tracks # <<>>
  <2>1. PICK rows \in Seq(Ids), order \in [Everywhere -> Seq(Ids)], session \in [Everywhere -> Sessions] :
          /\ disk = [rows |-> rows, order |-> order, session |-> session]
          /\ IsInjective(rows) /\ \A s \in Everywhere : AllOf(order[s], s)
    BY DEF GoodDisk
  <2>2. Current(app) \in Ids /\ app.place \in Nat /\ app.tracks \in Seq(Ids)
    BY <1>2, CurrentFacts DEF GoodMemory, GoodApp, Apps
  <2>3. PICK ss \in [Everywhere -> Sessions] :
          ss = [session EXCEPT ![source] = [track |-> Current(app), index |-> app.place]]
    BY <2>2 DEF Sessions
  <2>4. disk' = [rows |-> rows, order |-> order, session |-> ss]
    BY <1>2, <2>1, <2>3 DEF SaveSession
  <2>5. GoodDisk(disk')
    BY <2>1, <2>4 DEF GoodDisk
  <2>6. GoodPool'
    <3>1. Pooled({SaveQueue(app.tracks, source)})
      BY <1>2 DEF SaveSession
    <3>2. GoodTask(SaveQueue(app.tracks, source))
      BY <2>2, SaveQueueFacts
    <3> QED BY <3>1, <3>2, PooledFacts
  <2> QED BY <2>5, <2>6
<1> QED BY <1>1, <1>2

LEMMA AtMostOne ==
  ASSUME NEW n \in Nat, NEW S \in SUBSET (1 .. n), NEW x \in S, Cardinality(S) <= 1
  PROVE  S = {x}
<1>1. IsFiniteSet(S)
  <2>1. IsFiniteSet(1 .. n)
    BY FS_Interval
  <2> QED BY <2>1, FS_Subset
<1>2. IsFiniteSet(S \ {x}) /\ Cardinality(S \ {x}) = Cardinality(S) - 1
  BY <1>1, FS_RemoveElement
<1>3. Cardinality(S) \in Nat /\ Cardinality(S \ {x}) \in Nat
  BY <1>1, <1>2, FS_CardinalityType
<1>4. Cardinality(S \ {x}) = 0
  BY <1>2, <1>3
<1>5. S \ {x} = {}
  BY <1>2, <1>4, FS_EmptySet
<1> QED BY <1>5
-----------------------------------------------------------------------------
(* The steps of the router and the user.                                    *)

LEMMA FreshFacts == GoodMemory(Fresh) /\ InPlace(Fresh) /\ Fresh.tracks = <<>>
<1>1. PICK e \in Seq(Ids) : e = <<>> /\ Range(e) = {} /\ Len(e) = 0
  BY EmptyFacts
<1>2. Fresh = [tracks |-> e, place |-> 1, current |-> NoTrack, started |-> FALSE,
               at |-> 0, known |-> {}]
  BY <1>1 DEF Fresh
<1>3. Fresh \in Apps
  BY <1>2 DEF Apps
<1> QED BY <1>1, <1>2, <1>3 DEF GoodMemory, GoodApp, InPlace

LEMMA EmptyAllOf ==
  ASSUME NEW ts, ts = <<>>, NEW s
  PROVE  AllOf(ts, s) /\ IsInjective(ts) /\ Range(ts) = {}
BY EmptyFacts DEF AllOf

LEMMA SeenRecord ==
  ASSUME NEW v, v \in BOOLEAN, NEW m, m \in BOOLEAN, NEW l, l \in BOOLEAN,
         NEW n, NEW by, by \in SUBSET (1 .. n), NEW e, e \in Seq(Ids)
  PROVE  [valid |-> v, by |-> by, got |-> e, mixed |-> m, lost |-> l] \in SeenType(n)
BY DEF SeenType

\* A new count of what has been seen, valid or not.
Counting(v, m) == [valid |-> v, by |-> {}, got |-> <<>>, mixed |-> m, lost |-> FALSE]

LEMMA CountBegins ==
  ASSUME app' \in Apps, NEW v \in BOOLEAN, NEW m \in BOOLEAN,
         seen' = Counting(v, m),
         v = TRUE => app'.at = 0 /\ app'.known = Range(app'.tracks),
         m = FALSE => IsInjective(app'.tracks)
  PROVE  GoodSeen'
<1>1. PICK e : e = <<>> /\ e \in Seq(Ids) /\ Range(e) = {} /\ Len(e) = 0
  BY EmptyFacts
<1>2. seen' = [valid |-> v, by |-> {}, got |-> e, mixed |-> m, lost |-> FALSE]
  BY <1>1 DEF Counting
<1>3. /\ seen'.valid = v /\ seen'.by = {} /\ seen'.got = e /\ seen'.mixed = m
      /\ seen' \in SeenType(begun')
  <2>1. seen'.valid = v
    BY <1>2
  <2>2. seen'.by = {} /\ seen'.got = e
    BY <1>2
  <2>3. seen'.mixed = m
    BY <1>2
  <2>4. {} \in SUBSET (1 .. begun')
    OBVIOUS
  <2>5. seen' \in SeenType(begun')
    BY <1>1, <1>2, <2>4, SeenRecord
  <2> QED BY <2>1, <2>2, <2>3, <2>5
<1>4. app'.tracks \in Seq(Ids)
  BY DEF Apps
<1>5. IsPrefix(e, app'.tracks)
  <2>1. Len(e) <= Len(app'.tracks) /\ \A i \in 1 .. Len(e) : e[i] = app'.tracks[i]
    BY <1>1, <1>4
  <2> QED BY <1>1, <1>4, <2>1, PrefixPlaces
<1>6. InOrder'
  BY <1>1, <1>3, <1>5 DEF InOrder
<1>7. NoneTwice'
  BY <1>3 DEF NoneTwice
<1> QED BY <1>3, <1>6, <1>7 DEF GoodSeen

LEMMA CountStays ==
  ASSUME GoodSeen, UNCHANGED <<app, fetches, begun, seen>>
  PROVE  GoodSeen'
BY DEF GoodSeen, InOrder, NoneTwice

LEMMA FetchesStay ==
  ASSUME GoodFetches, UNCHANGED <<fetches, begun>>
  PROVE  GoodFetches'
BY DEF GoodFetches, GoodFetch

LEMMA FetchFacts ==
  ASSUME GoodFetches, NEW s \in Services, NEW n \in Nat, Fetch(s, n)
  PROVE  GoodFetches'
<1>1. PICK b \in Nat, c \in Nat : b = begun /\ c = begun' /\ c = b + n
  BY DEF GoodFetches, Fetch
<1>2. PICK o : o = FirstPages(s) /\ o \in SUBSET Nat /\ o # {}
               /\ IF s \in Parallel THEN o = {0} ELSE o = {1}
  <2>1. {0} \in SUBSET Nat /\ {1} \in SUBSET Nat /\ {0} # {} /\ {1} # {}
    OBVIOUS
  <2> QED BY <2>1, Zenon DEF FirstPages
<1>3. PICK new : /\ new = {[id |-> i, of |-> s, out |-> o] : i \in (b + 1) .. (b + n)}
                 /\ fetches' = fetches \cup new
  BY <1>1, <1>2 DEF Fetch
<1>4. ASSUME NEW f \in new
      PROVE  GoodFetch(f)' /\ f.id \in (b + 1) .. (b + n) /\ f = [id |-> f.id, of |-> s, out |-> o]
  <2>1. PICK i \in (b + 1) .. (b + n) : f = [id |-> i, of |-> s, out |-> o]
    BY <1>3
  <2>2. i \in 1 .. c
    BY <1>1
  <2>3. f \in [id : 1 .. begun', of : Services, out : SUBSET Nat]
    BY <1>1, <1>2, <2>1, <2>2
  <2>4. f.of = s /\ f.out = o /\ f.id = i
    BY <2>1
  <2>5. GoodFetch(f)'
    <3>1. f.of \notin Parallel => \E p \in f.out : p # 0 /\ f.out = {p}
      BY <1>2, <2>4
    <3> QED BY <1>2, <2>3, <2>4, <3>1 DEF GoodFetch
  <2> QED BY <2>1, <2>4, <2>5
<1>5. ASSUME NEW f \in fetches PROVE GoodFetch(f)' /\ f.id \in 1 .. b
  <2>1. GoodFetch(f)
    BY DEF GoodFetches
  <2>2. f \in [id : 1 .. b, of : Services, out : SUBSET Nat]
    BY <1>1, <2>1 DEF GoodFetch
  <2>3. 1 .. b \subseteq 1 .. c
    BY <1>1
  <2>4. f \in [id : 1 .. begun', of : Services, out : SUBSET Nat]
    BY <1>1, <2>2, <2>3
  <2> QED BY <2>1, <2>2, <2>4 DEF GoodFetch
<1>6. ASSUME NEW f \in fetches', NEW g \in fetches', f.id = g.id PROVE f = g
  <2>1. \A i \in 1 .. b : i \notin (b + 1) .. (b + n)
    BY <1>1
  <2>2. CASE f \in fetches /\ g \in fetches
    BY <1>6, <2>2 DEF GoodFetches
  <2>3. CASE f \in new /\ g \in new
    BY <1>4, <1>6, <2>3
  <2> QED BY <1>3, <1>4, <1>5, <1>6, <2>1, <2>2, <2>3
<1> QED BY <1>1, <1>3, <1>4, <1>5, <1>6 DEF GoodFetches

LEMMA ReadyStep ==
  ASSUME IInv, up, NEW online, ProviderReady(online), UNCHANGED <<up, source>>
  PROVE  GoodList' /\ GoodSeen'
<1>1. /\ source \in Everywhere /\ GoodMemory(app) /\ AllOf(app.tracks, source) /\ GoodDisk(disk)
      /\ GoodSeen
  BY DEF IInv, GoodList
<1>2. /\ GoodMemory(app') /\ InPlace(app') /\ FilledAs(app, source, app')
      /\ app'.at = 0 /\ app'.known = Range(app'.tracks)
  <2>1. app' \in Ready(app, source, online)
    BY DEF ProviderReady
  <2> QED BY <1>1, <2>1, ReadyFacts
<1>3. AllOf(app'.tracks, source)
  BY <1>1, <1>2, FilledAllOf
<1>4. GoodList'
  BY <1>1, <1>2, <1>3 DEF GoodList
<1>5. PICK m \in BOOLEAN : m = seen.mixed /\ (m = FALSE => IsInjective(app.tracks))
  BY <1>1 DEF GoodSeen, NoneTwice, SeenType
<1>6. seen' = Counting(TRUE, m)
  BY <1>5 DEF ProviderReady, SeenReady, Counting, Unseen
<1>7. m = FALSE => IsInjective(app'.tracks)
  BY <1>2, <1>5, FilledInjective
<1>8. GoodSeen'
  <2>1. app' \in Apps
    BY <1>2 DEF GoodMemory, GoodApp
  <2> QED BY <1>2, <1>6, <1>7, <2>1, CountBegins
<1> QED BY <1>4, <1>8

LEMMA AnswerStep ==
  ASSUME IInv, up, NEW s \in Services, Answer(s)
  PROVE  IInv'
<1>1. GoodDisk(disk') /\ GoodPool'
  BY DEF IInv, GoodPool, Answer
<1>2. CASE ProviderReady(TRUE) /\ Fetch(s, 1)
  <2>1. GoodFetches'
    BY <1>2, FetchFacts DEF IInv
  <2>2. GoodList' /\ GoodSeen'
    BY <1>2, ReadyStep DEF Answer
  <2> QED BY <1>1, <2>1, <2>2 DEF IInv
<1>3. ASSUME NEW online \in BOOLEAN, ProviderReady(online), UNCHANGED <<fetches, begun>>
      PROVE  IInv'
  <2>1. GoodFetches'
    BY <1>3, FetchesStay DEF IInv
  <2>2. GoodList' /\ GoodSeen'
    BY <1>3, ReadyStep DEF Answer
  <2> QED BY <1>1, <2>1, <2>2 DEF IInv
<1>4. CASE UNCHANGED <<app, fetches, begun, seen>>
  <2>1. GoodFetches' /\ GoodSeen'
    BY <1>4, FetchesStay, CountStays DEF IInv
  <2>2. GoodList'
    BY <1>4 DEF IInv, GoodList, Answer
  <2> QED BY <1>1, <2>1, <2>2 DEF IInv
<1> QED BY <1>2, <1>3, <1>4 DEF Answer

LEMMA SignInStep ==
  ASSUME IInv, up, NEW s \in Services, SignIn(s)
  PROVE  IInv'
<1>1. GoodDisk(disk') /\ GoodPool'
  BY DEF IInv, GoodPool, SignIn
<1>2. PICK n \in Nat : Fetch(s, n)
  BY DEF SignIn
<1>3. GoodFetches'
  BY <1>2, FetchFacts DEF IInv
<1>4. GoodList' /\ GoodSeen'
  BY ReadyStep DEF SignIn
<1> QED BY <1>1, <1>3, <1>4 DEF IInv

LEMMA RevalidatedStep ==
  ASSUME IInv, up, NEW online \in BOOLEAN, Revalidated(online)
  PROVE  IInv'
<1>1. GoodDisk(disk') /\ GoodPool'
  BY DEF IInv, GoodPool, Revalidated
<1>2. GoodFetches'
  BY FetchesStay DEF IInv, Revalidated
<1>3. GoodList' /\ GoodSeen'
  BY ReadyStep DEF Revalidated
<1> QED BY <1>1, <1>2, <1>3 DEF IInv
LEMMA SwitchFacts ==
  ASSUME IInv, NEW s \in Everywhere, NEW a, GoodMemory(a), a.tracks = <<>>,
         up' \in BOOLEAN, up', Enter(s, a)
  PROVE  GoodList' /\ GoodSeen'
<1>1. IsInjective(a.tracks) /\ AllOf(a.tracks, s) /\ Range(a.tracks) = {}
  BY EmptyAllOf
<1>2. CASE s = Offline
  <2>1. app' \in Ready(a, s, FALSE)
    BY <1>2 DEF Enter
  <2>2. /\ GoodMemory(app') /\ InPlace(app') /\ FilledAs(a, s, app')
        /\ app'.at = 0 /\ app'.known = Range(app'.tracks)
    BY <2>1, ReadyFacts DEF IInv
  <2>3. AllOf(app'.tracks, s) /\ IsInjective(app'.tracks)
    BY <1>1, <2>2, FilledAllOf, FilledInjective
  <2>4. GoodList'
    BY <2>2, <2>3 DEF GoodList, Enter
  <2>5. GoodSeen'
    <3>1. app' \in Apps
      BY <2>2 DEF GoodMemory, GoodApp
    <3>2. seen' = Counting(TRUE, FALSE)
      BY <1>2 DEF Enter, Counting, Unseen
    <3> QED BY <2>2, <2>3, <3>1, <3>2, CountBegins
  <2> QED BY <2>4, <2>5
<1>3. CASE s # Offline
  <2>1. app' = a
    BY <1>3 DEF Enter
  <2>2. GoodList'
    BY <1>1, <2>1 DEF GoodList, Enter, InPlace
  <2>3. GoodSeen'
    <3>1. app' \in Apps /\ IsInjective(app'.tracks)
      BY <1>1, <2>1 DEF GoodMemory, GoodApp
    <3>2. seen' = Counting(FALSE, FALSE)
      BY <1>3 DEF Enter, Counting, Unseen
    <3> QED BY <3>1, <3>2, CountBegins
  <2> QED BY <2>2, <2>3
<1> QED BY <1>2, <1>3

LEMMA SwitchStep ==
  ASSUME IInv, up, NEW s \in Everywhere, SwitchSource(s), UNCHANGED <<up, fetches, begun>>
  PROVE  IInv'
<1>1. /\ GoodMemory(app) /\ AllOf(app.tracks, source) /\ source \in Everywhere
      /\ GoodDisk(disk) /\ GoodPool
  BY DEF IInv, GoodList
<1>2. GoodDisk(disk') /\ GoodPool'
  BY <1>1, SavedFacts DEF SwitchSource
<1>3. GoodFetches'
  BY FetchesStay DEF IInv
<1>4. PICK playing \in BOOLEAN : Enter(s, Left(app, playing))
  BY DEF SwitchSource
<1>5. GoodMemory(Left(app, playing)) /\ Left(app, playing).tracks = <<>>
  BY <1>1, EmptiedFacts
<1>6. GoodList' /\ GoodSeen'
  <2>1. up' \in BOOLEAN /\ up'
    BY DEF IInv, GoodList
  <2> QED BY <1>4, <1>5, <2>1, SwitchFacts
<1> QED BY <1>2, <1>3, <1>6 DEF IInv

LEMMA UserSwitchesStep ==
  ASSUME IInv, up, NEW s \in Everywhere, UserSwitches(s)
  PROVE  IInv'
BY SwitchStep DEF UserSwitches

LEMMA NextSourceFoundStep ==
  ASSUME IInv, up, NEW s \in Services, NextSourceFound(s)
  PROVE  IInv'
BY SwitchStep DEF NextSourceFound, Everywhere

LEMMA StartStep ==
  ASSUME IInv, Start
  PROVE  IInv'
<1>1. app = Fresh /\ source \in Everywhere /\ GoodDisk(disk) /\ GoodFetches
  BY DEF IInv, GoodList, Start
<1>2. up' \in BOOLEAN /\ up'
  BY DEF Start
<1>3. GoodList' /\ GoodSeen'
  <2>1. Enter(source, app) /\ GoodMemory(app) /\ app.tracks = <<>>
    BY <1>1, FreshFacts DEF Start
  <2> QED BY <1>1, <1>2, <2>1, SwitchFacts
<1>4. GoodPool'
  BY BagFacts DEF Start, GoodPool
<1>5. GoodFetches'
  BY <1>1, FetchesStay DEF Start
<1>6. GoodDisk(disk')
  BY <1>1 DEF Start
<1> QED BY <1>3, <1>4, <1>5, <1>6 DEF IInv

LEMMA HandleLogoutStep ==
  ASSUME IInv, up, NEW s \in Services, HandleLogout(s)
  PROVE  IInv'
<1>1. GoodMemory(app) /\ GoodDisk(disk) /\ GoodPool /\ GoodFetches /\ GoodSeen
  BY DEF IInv, GoodList
<1>2. GoodDisk(disk')
  BY <1>1, ForgottenFacts DEF HandleLogout
<1>3. GoodPool' /\ GoodFetches'
  BY <1>1, FetchesStay DEF HandleLogout, GoodPool
<1>4. CASE s = source
  <2>1. app' = LoggedOut(app) /\ seen' = Unseen
    BY <1>4 DEF HandleLogout
  <2>2. GoodMemory(app') /\ app'.tracks = <<>>
    BY <1>1, <2>1, EmptiedFacts
  <2>3. IsInjective(app'.tracks) /\ AllOf(app'.tracks, source) /\ Range(app'.tracks) = {}
    BY <2>2, EmptyAllOf
  <2>4. GoodList'
    BY <2>2, <2>3 DEF IInv, GoodList, HandleLogout, InPlace
  <2>5. GoodSeen'
    <3>1. seen' = Counting(FALSE, FALSE)
      BY <2>1 DEF Counting, Unseen
    <3>2. app' \in Apps
      BY <2>2 DEF GoodMemory, GoodApp
    <3> QED BY <2>3, <3>1, <3>2, CountBegins
  <2> QED BY <1>2, <1>3, <2>4, <2>5 DEF IInv
<1>5. CASE s # source
  <2>1. UNCHANGED <<app, seen, up, source, fetches, begun>>
    BY <1>5 DEF HandleLogout
  <2>2. GoodSeen'
    BY <1>1, <2>1, CountStays
  <2>3. GoodList'
    BY <2>1 DEF IInv, GoodList
  <2> QED BY <1>2, <1>3, <2>2, <2>3 DEF IInv
<1> QED BY <1>4, <1>5

LEMMA HandleLogoutOfAllStep ==
  ASSUME IInv, up, HandleLogoutOfAll
  PROVE  IInv'
<1>1. GoodMemory(app) /\ GoodDisk(disk) /\ GoodPool /\ GoodFetches /\ GoodSeen
  BY DEF IInv, GoodList
<1>2. GoodDisk(disk')
  BY <1>1, ForgottenFacts DEF HandleLogoutOfAll
<1>3. GoodPool' /\ GoodFetches'
  BY <1>1, FetchesStay DEF HandleLogoutOfAll, GoodPool
<1>4. PICK a : a = LoggedOut(app) /\ GoodMemory(a) /\ a.tracks = <<>>
  BY <1>1, EmptiedFacts
<1>5. app' = [a EXCEPT !.at = 0, !.known = {}]
  BY <1>4 DEF HandleLogoutOfAll
<1>6. /\ app' \in Apps /\ app'.tracks = a.tracks /\ app'.place = a.place
      /\ app'.current = a.current /\ app'.started = a.started /\ app'.at = 0 /\ app'.known = {}
  BY <1>4, <1>5 DEF GoodMemory, GoodApp, Apps
<1>7. GoodMemory(app') /\ app'.tracks = <<>>
  BY <1>4, <1>6 DEF GoodMemory, GoodApp
<1>8. IsInjective(app'.tracks) /\ AllOf(app'.tracks, Offline) /\ Range(app'.tracks) = {}
  BY <1>7, EmptyAllOf
<1>9. GoodList'
  BY <1>7, <1>8 DEF IInv, GoodList, HandleLogoutOfAll, InPlace, Everywhere
<1>10. GoodSeen'
  <2>1. seen' = Counting(TRUE, FALSE)
    BY DEF HandleLogoutOfAll, Counting, Unseen
  <2> QED BY <1>6, <1>8, <2>1, CountBegins
<1> QED BY <1>2, <1>3, <1>9, <1>10 DEF IInv

LEMMA PlayStep ==
  ASSUME IInv, up, Play
  PROVE  IInv'
<1>1. /\ GoodMemory(app) /\ AllOf(app.tracks, source) /\ source \in Everywhere
      /\ GoodDisk(disk) /\ GoodPool /\ GoodFetches /\ GoodSeen
  BY DEF IInv, GoodList
<1>2. app.tracks \in Seq(Ids) /\ DOMAIN app.tracks = 1 .. Len(app.tracks)
  BY <1>1 DEF GoodMemory, GoodApp, Apps
<1>3. PICK i \in 1 .. Len(app.tracks) : app' = JumpedTo(app, i)
  BY <1>2 DEF Play
<1>4. GoodApp(app') /\ InPlace(app') /\ SameList(app, app')
  BY <1>1, <1>3, JumpedFacts DEF GoodMemory
<1>5. app.started
  <2>1. app.tracks # <<>>
    BY <1>3
  <2> QED BY <1>1, <2>1 DEF GoodMemory
<1>6. GoodMemory(app')
  BY <1>4, <1>5 DEF GoodMemory, SameList
<1>7. GoodList'
  BY <1>1, <1>4, <1>6 DEF IInv, GoodList, Play, SameList
<1>8. GoodSeen'
  <2>1. UNCHANGED <<fetches, begun, seen>>
    BY DEF Play
  <2>2. app'.tracks = app.tracks /\ app'.at = app.at /\ app'.known = app.known
    BY <1>4 DEF SameList
  <2>3. InOrder'
    BY <1>1, <2>1, <2>2 DEF GoodSeen, InOrder
  <2>4. NoneTwice'
    BY <1>1, <2>1, <2>2 DEF GoodSeen, NoneTwice
  <2> QED BY <1>1, <2>1, <2>2, <2>3, <2>4 DEF GoodSeen
<1>9. GoodDisk(disk') /\ GoodPool' /\ GoodFetches'
  BY <1>1, FetchesStay DEF Play, GoodPool
<1> QED BY <1>7, <1>8, <1>9 DEF IInv

\* What an answer that is not dropped adds to what has been seen.
Noted(by, got, lost, mixed) ==
  [seen EXCEPT !.by = by, !.got = got, !.lost = lost, !.mixed = mixed]

LEMMA NotedFacts ==
  ASSUME seen \in SeenType(begun), NEW by, by \in SUBSET (1 .. begun), NEW got \in Seq(Ids),
         NEW lost, lost \in BOOLEAN, NEW mixed, mixed \in BOOLEAN,
         seen' = Noted(by, got, lost, mixed)
  PROVE  /\ seen' \in SeenType(begun) /\ seen'.valid = seen.valid /\ seen'.by = by
         /\ seen'.got = got /\ seen'.mixed = mixed /\ seen'.lost = lost
<1>1. /\ seen.valid \in BOOLEAN
      /\ seen = [valid |-> seen.valid, by |-> seen.by, got |-> seen.got, mixed |-> seen.mixed,
                 lost |-> seen.lost]
  BY DEF SeenType
<1>2. PICK v, v0 : v = seen.valid /\ v0 = seen.valid /\ v \in BOOLEAN
  BY <1>1
<1>3. seen' = [valid |-> v, by |-> by, got |-> got, mixed |-> mixed, lost |-> lost]
  BY <1>1, <1>2 DEF Noted
<1>4. seen' \in SeenType(begun)
  BY <1>2, <1>3, SeenRecord
<1>5. seen'.valid = v /\ seen'.mixed = mixed /\ seen'.lost = lost
  BY <1>3
<1>6. seen'.by = by /\ seen'.got = got
  BY <1>3
<1> QED BY <1>2, <1>4, <1>5, <1>6

LEMMA OfflineModeRequestedStep ==
  ASSUME IInv, up, OfflineModeRequested
  PROVE  IInv'
<1>1. /\ GoodMemory(app) /\ AllOf(app.tracks, source) /\ source \in Everywhere
      /\ GoodDisk(disk) /\ GoodPool /\ GoodFetches /\ GoodSeen
  BY DEF IInv, GoodList
<1>2. app.tracks = <<>> /\ app.current = NoTrack /\ ~app.started /\ GoodApp(app)
  BY <1>1 DEF GoodMemory, OfflineModeRequested
<1>3. /\ GoodMemory(app') /\ InPlace(app') /\ FilledAs(app, source, app')
      /\ app'.at = app.at /\ app'.known = app.known
  <2>1. app' \in InitPlaylistAndStart(app, source, FALSE)
    BY DEF OfflineModeRequested
  <2> QED BY <1>1, <1>2, <2>1, StartedFacts
<1>4. AllOf(app'.tracks, source) /\ IsInjective(app'.tracks)
  BY <1>2, <1>3 DEF FilledAs
<1>5. GoodList'
  BY <1>3, <1>4 DEF IInv, GoodList, OfflineModeRequested
<1>6. PICK mixed \in BOOLEAN : mixed = (seen.mixed \/ seen.valid)
  BY <1>1 DEF GoodSeen, SeenType
<1>7. /\ seen' \in SeenType(begun') /\ seen'.valid = seen.valid /\ seen'.by = seen.by
      /\ seen'.got = seen.got /\ seen'.mixed = mixed
  <2>1. seen' = Noted(seen.by, seen.got, seen.lost, mixed) /\ begun' = begun
    BY <1>1, <1>6 DEF Noted, OfflineModeRequested, GoodSeen, SeenType
  <2> QED BY <1>1, <2>1, NotedFacts DEF GoodSeen, SeenType
<1>8. InOrder'
  <2> SUFFICES ASSUME seen.valid, Cardinality(seen.by) <= 1
               PROVE  /\ app'.at = Len(seen.got) /\ IsPrefix(seen.got, app'.tracks)
                      /\ seen.by = {} => seen.got = <<>>
                      /\ \A f \in fetches : f.id \in seen.by => Range(seen.got) \cap Ahead(f) = {}
    BY <1>7 DEF InOrder, OfflineModeRequested, Ahead
  <2>1. /\ app.at = Len(seen.got) /\ IsPrefix(seen.got, app.tracks)
        /\ seen.by = {} => seen.got = <<>>
        /\ \A f \in fetches : f.id \in seen.by => Range(seen.got) \cap Ahead(f) = {}
    BY <1>1 DEF GoodSeen, InOrder
  <2>2. seen.got \in Seq(Ids) /\ app'.tracks \in Seq(Ids) /\ app.tracks \in Seq(Ids)
    BY <1>1, <1>3 DEF GoodSeen, SeenType, GoodMemory, GoodApp, Apps
  <2>3. Len(seen.got) = 0
    <3>1. Len(seen.got) <= Len(app.tracks)
      BY <2>1, <2>2, PrefixPlaces
    <3>2. Len(app.tracks) = 0
      BY <1>2
    <3> QED BY <2>2, <3>1, <3>2
  <2>4. IsPrefix(seen.got, app'.tracks)
    <3>1. /\ Len(seen.got) <= Len(app'.tracks)
          /\ \A i \in 1 .. Len(seen.got) : seen.got[i] = app'.tracks[i]
      BY <2>2, <2>3
    <3> QED BY <2>2, <3>1, PrefixPlaces
  <2> QED BY <1>3, <2>1, <2>4
<1>9. NoneTwice'
  BY <1>4, <1>6, <1>7 DEF NoneTwice
<1>10. GoodSeen'
  <2>1. seen.valid => app.known \subseteq {}
    BY <1>1, <1>2, EmptyFacts DEF GoodSeen
  <2> QED BY <1>3, <1>7, <1>8, <1>9, <2>1 DEF GoodSeen
<1>11. GoodDisk(disk') /\ GoodPool' /\ GoodFetches'
  BY <1>1, FetchesStay DEF OfflineModeRequested, GoodPool
<1> QED BY <1>5, <1>10, <1>11 DEF IInv

LEMMA EndsFacts ==
  ASSUME IInv, Ends
  PROVE  GoodList' /\ GoodFetches' /\ GoodSeen'
<1>1. app' = Fresh /\ GoodMemory(Fresh) /\ InPlace(Fresh) /\ Fresh.tracks = <<>>
  BY FreshFacts DEF Ends
<1>2. IsInjective(app'.tracks) /\ AllOf(app'.tracks, source)
  BY <1>1, EmptyAllOf
<1>3. GoodList'
  BY <1>1, <1>2 DEF IInv, GoodList, Ends
<1>4. GoodFetches'
  BY DEF IInv, GoodFetches, Ends
<1>5. GoodSeen'
  <2>1. seen' = Counting(FALSE, FALSE)
    BY DEF Ends, Counting, Unseen
  <2>2. app' \in Apps
    BY <1>1 DEF GoodMemory, GoodApp
  <2> QED BY <1>2, <2>1, <2>2, CountBegins
<1> QED BY <1>3, <1>4, <1>5

LEMMA QuitStep ==
  ASSUME IInv, up, Quit
  PROVE  IInv'
<1>1. /\ GoodMemory(app) /\ AllOf(app.tracks, source) /\ source \in Everywhere
      /\ GoodDisk(disk) /\ GoodPool
  BY DEF IInv, GoodList
<1>2. GoodDisk(disk') /\ GoodPool'
  BY <1>1, SavedFacts DEF Quit
<1>3. GoodList' /\ GoodFetches' /\ GoodSeen'
  BY EndsFacts DEF Quit
<1> QED BY <1>2, <1>3 DEF IInv

LEMMA CrashStep ==
  ASSUME IInv, up, Crash
  PROVE  IInv'
<1>1. GoodDisk(disk') /\ GoodPool'
  BY BagFacts DEF Crash, GoodPool, IInv
<1>2. GoodList' /\ GoodFetches' /\ GoodSeen'
  BY EndsFacts DEF Crash
<1> QED BY <1>1, <1>2 DEF IInv

LEMMA RunTaskStep ==
  ASSUME IInv, RunTask
  PROVE  IInv'
<1>1. PICK task \in BagToSet(pool) :
        /\ pool' = pool (-) SetToBag({task}) /\ disk' = Written(disk, task)
        /\ UNCHANGED <<up, source, memory, turns, seen>>
  BY DEF RunTask, Takes
<1>2. GoodTask(task) /\ GoodDisk(disk)
  BY DEF IInv, GoodPool
<1>3. GoodDisk(disk')
  BY <1>1, <1>2, WrittenFacts
<1>4. BagToSet(pool') \subseteq BagToSet(pool)
  BY <1>1, BagFacts
<1>5. GoodPool'
  BY <1>4 DEF IInv, GoodPool
<1>6. UNCHANGED <<up, source, app, fetches, begun, seen>>
  BY <1>1 DEF memory
<1>7. GoodFetches' /\ GoodSeen'
  BY <1>6, FetchesStay, CountStays DEF IInv
<1>8. GoodList'
  BY <1>6 DEF IInv, GoodList
<1> QED BY <1>3, <1>5, <1>7, <1>8 DEF IInv
-----------------------------------------------------------------------------
(* An answer to a request for a page.                                       *)

\* What is still to come once ts has arrived.
StillToCome(f, ts, last) ==
  /\ Range(ts) \subseteq Ahead(f)
  /\ \A g \in fetches' :
       \/ g \in fetches /\ g.id # f.id
       \/ /\ ~last /\ g.id = f.id
          /\ Ahead(g) \subseteq Ahead(f) /\ Range(ts) \cap Ahead(g) = {}

LEMMA AnsweredFacts ==
  ASSUME GoodFetches, NEW f \in fetches, NEW p \in f.out, NEW ok \in BOOLEAN,
         NEW ts, ts = IF ok THEN Items(f.of, p) ELSE <<>>,
         Answered(f, p, ok), begun' = begun
  PROVE  /\ GoodFetches' /\ PageOf(f.of, p, ts)
         /\ StillToCome(f, ts, StillOut(f, p, ok) = {})
<1>1. PICK out : out = StillOut(f, p, ok)
  OBVIOUS
<1>2. GoodFetch(f) /\ f.id \in 1 .. begun
  BY DEF GoodFetches, GoodFetch
<1>3. Turns(f, p, ts, out) /\ PageOf(f.of, p, ts)
  BY <1>1, <1>2, PageAnswered
<1>4. fetches' = (fetches \ {f}) \cup (IF out = {} THEN {} ELSE {[f EXCEPT !.out = out]})
  BY <1>1 DEF Answered
<1>5. ASSUME NEW g \in fetches'
      PROVE  \/ g \in fetches /\ g.id # f.id /\ GoodFetch(g)
             \/ /\ out # {} /\ g = [f EXCEPT !.out = out] /\ GoodFetch(g) /\ g.id = f.id
                /\ Ahead(g) \subseteq Ahead(f) /\ Range(ts) \cap Ahead(g) = {}
  <2>1. CASE g \in fetches /\ g # f
    BY <2>1 DEF GoodFetches
  <2>2. CASE out # {} /\ g = [f EXCEPT !.out = out]
    BY <1>3, <2>2 DEF Turns
  <2> QED BY <1>4, <2>1, <2>2
<1>6. \A g \in fetches' : GoodFetch(g)'
  BY <1>5 DEF GoodFetch
<1>7. ASSUME NEW g \in fetches', NEW h \in fetches', g.id = h.id PROVE g = h
  BY <1>5, <1>7 DEF GoodFetches
<1>8. GoodFetches'
  BY <1>6, <1>7 DEF GoodFetches
<1>9. StillToCome(f, ts, out = {})
  BY <1>3, <1>5 DEF StillToCome, Turns
<1> QED BY <1>1, <1>3, <1>8, <1>9

\* An answer that is dropped, or brings nothing and is not the last.
LEMMA NothingReaches ==
  ASSUME GoodSeen, NEW f \in fetches, NEW ts, NEW last \in BOOLEAN, StillToCome(f, ts, last),
         UNCHANGED <<app, begun>>, seen' \in SeenType(begun), seen'.valid = seen.valid,
         seen'.by = seen.by, seen'.got = seen.got, seen'.mixed = FALSE => seen.mixed = FALSE
  PROVE  GoodSeen'
<1>1. ASSUME NEW g \in fetches' PROVE \E h \in fetches : g.id = h.id /\ Ahead(g) \subseteq Ahead(h)
  BY DEF StillToCome
<1>2. InOrder'
  <2>1. ASSUME seen.valid, Cardinality(seen.by) <= 1
        PROVE  \A g \in fetches' : g.id \in seen.by => Range(seen.got) \cap Ahead(g) = {}
    <3>1. \A h \in fetches : h.id \in seen.by => Range(seen.got) \cap Ahead(h) = {}
      BY <2>1 DEF GoodSeen, InOrder
    <3> QED BY <1>1, <3>1
  <2> QED BY <2>1 DEF GoodSeen, InOrder
<1>3. NoneTwice'
  <2>1. ASSUME NEW i, \A h \in fetches : h.id # i PROVE \A g \in fetches' : g.id # i
    BY <1>1, <2>1
  <2>2. seen.mixed \in BOOLEAN /\ seen'.mixed \in BOOLEAN
    BY DEF GoodSeen, SeenType
  <2> QED BY <2>1, <2>2 DEF GoodSeen, NoneTwice
<1> QED BY <1>2, <1>3 DEF GoodSeen

\* What the handlers of AudioFetched and FinishedFetching make of app.
LEMMA DeliveredFacts ==
  ASSUME IInv, source \in Services, NEW ts \in Seq(Ids), IsInjective(ts), AllOf(ts, source),
         NEW a \in IF ts = <<>> THEN {app} ELSE Fetched(app, ts)
  PROVE  /\ GoodMemory(a) /\ InPlace(a) /\ AllOf(a.tracks, source)
         /\ a.at = app.at + Len(ts)
         /\ app.known \subseteq Range(app.tracks) =>
              /\ a.known \subseteq Range(a.tracks)
              /\ IsInjective(app.tracks) /\ Range(app.tracks) \subseteq app.known
                   => IsInjective(a.tracks) /\ Range(a.tracks) \subseteq a.known
<1>1. /\ GoodMemory(app) /\ InPlace(app) /\ AllOf(app.tracks, source) /\ source \in Everywhere
      /\ GoodDisk(disk) /\ app.at \in Nat
  BY DEF IInv, GoodList, GoodMemory, GoodApp, Apps
<1>2. CASE ts = <<>>
  <2>1. a = app /\ Len(ts) = 0
    BY <1>2
  <2> QED BY <1>1, <2>1
<1>3. CASE ts # <<>>
  <2>1. PICK c : c = AllPlaced(app, ts)
    OBVIOUS
  <2>2. a \in Fetched(app, ts)
    BY <1>3
  <2>3. /\ AllPlacedAs(app, ts, c)
        /\ GoodMemory(a) /\ InPlace(a) /\ FilledAs(c, source, a)
        /\ a.at = c.at /\ a.known = c.known
    BY <1>1, <2>1, <2>2, FetchedFacts
  <2>4. AllOf(a.tracks, source)
    <3>1. AllOf(c.tracks, source)
      BY <1>1, <2>3 DEF AllPlacedAs, AllOf
    <3> QED BY <2>3, <3>1, FilledAllOf
  <2>5. ASSUME app.known \subseteq Range(app.tracks)
        PROVE  c.known \subseteq Range(c.tracks) /\ a.tracks = c.tracks
    <3>1. c.known \subseteq Range(c.tracks) /\ Range(ts) \subseteq c.known
      BY <2>3, <2>5 DEF AllPlacedAs
    <3>2. Range(ts) # {}
      BY <1>3, Places
    <3>3. c.tracks # <<>>
      BY <3>1, <3>2, EmptyAllOf
    <3> QED BY <2>3, <3>1, <3>3 DEF FilledAs
  <2>6. ASSUME app.known \subseteq Range(app.tracks)
        PROVE  /\ a.known \subseteq Range(a.tracks)
               /\ IsInjective(app.tracks) /\ Range(app.tracks) \subseteq app.known
                    => IsInjective(a.tracks) /\ Range(a.tracks) \subseteq a.known
    BY <2>3, <2>5, <2>6 DEF AllPlacedAs
  <2>7. a.at = app.at + Len(ts)
    BY <2>3 DEF AllPlacedAs
  <2> QED BY <2>3, <2>4, <2>6, <2>7
<1> QED BY <1>2, <1>3

\* The same, where what came before is in front.
LEMMA DeliveredInFront ==
  ASSUME IInv, source \in Services, NEW ts \in Seq(Ids), IsInjective(ts),
         NEW a \in IF ts = <<>> THEN {app} ELSE Fetched(app, ts),
         app.known \subseteq Range(app.tracks),
         app.at = Len(seen.got), IsPrefix(seen.got, app.tracks), seen.got \in Seq(Ids),
         Range(seen.got) \cap Range(ts) = {}
  PROVE  IsPrefix(seen.got \o ts, a.tracks)
<1>1. /\ GoodMemory(app) /\ source \in Everywhere /\ GoodDisk(disk)
  BY DEF IInv, GoodList
<1>2. CASE ts = <<>>
  <2>1. a = app /\ seen.got \o ts = seen.got
    BY <1>2, ConcatEmptySeq
  <2> QED BY <2>1
<1>3. CASE ts # <<>>
  <2>1. PICK c : c = AllPlaced(app, ts)
    OBVIOUS
  <2>2. a \in Fetched(app, ts)
    BY <1>3
  <2>3. AllPlacedAs(app, ts, c) /\ FilledAs(c, source, a)
    BY <1>1, <2>1, <2>2, FetchedFacts
  <2>4. IsPrefix(seen.got \o ts, c.tracks)
    BY <1>1, <2>1, AllPlacedInFront DEF GoodMemory
  <2>5. c.known \subseteq Range(c.tracks) /\ Range(ts) \subseteq c.known
    BY <2>3 DEF AllPlacedAs
  <2>6. Range(ts) # {}
    BY <1>3, Places
  <2>7. c.tracks # <<>>
    BY <2>5, <2>6, EmptyAllOf
  <2> QED BY <2>3, <2>4, <2>7 DEF FilledAs
<1> QED BY <1>2, <1>3
\* An answer that reaches the list and adds to it or is the last.
LEMMA AnswerReaches ==
  ASSUME IInv, source \in Services, NEW f \in fetches, NEW ts \in Seq(Ids), IsInjective(ts),
         AllOf(ts, source), NEW last \in BOOLEAN, StillToCome(f, ts, last),
         NEW a \in IF ts = <<>> THEN {app} ELSE Fetched(app, ts),
         app' = IF last THEN Finished(a) ELSE a, begun' = begun,
         seen' \in SeenType(begun), seen'.valid = seen.valid,
         seen'.by = seen.by \cup {f.id}, seen'.got = seen.got \o ts,
         seen'.mixed = FALSE =>
           seen.mixed = FALSE /\ seen.valid = TRUE /\ Cardinality(seen'.by) <= 1
  PROVE  GoodSeen'
<1>1. /\ begun \in Nat /\ seen.by \in SUBSET (1 .. begun) /\ seen'.by \in SUBSET (1 .. begun)
      /\ seen.valid \in BOOLEAN /\ seen.mixed \in BOOLEAN /\ seen'.mixed \in BOOLEAN
      /\ seen.got \in Seq(Ids) /\ f.id \in seen'.by
      /\ seen.valid => app.known \subseteq Range(app.tracks)
  BY DEF IInv, GoodFetches, GoodSeen, SeenType
<1>2. /\ GoodMemory(a) /\ a.at = app.at + Len(ts)
      /\ app.known \subseteq Range(app.tracks) =>
           /\ a.known \subseteq Range(a.tracks)
           /\ IsInjective(app.tracks) /\ Range(app.tracks) \subseteq app.known
                => IsInjective(a.tracks) /\ Range(a.tracks) \subseteq a.known
  BY DeliveredFacts
<1>3. /\ app'.tracks = a.tracks /\ app'.at = a.at
      /\ app'.known = IF last THEN {} ELSE a.known
  BY <1>2, FinishedFacts
<1>4. seen'.valid => app'.known \subseteq Range(app'.tracks)
  BY <1>1, <1>2, <1>3
<1>5. ASSUME Cardinality(seen'.by) <= 1
      PROVE  /\ seen'.by = {f.id} /\ Cardinality(seen.by) <= 1
             /\ seen.by = {} \/ seen.by = {f.id}
  <2>1. seen'.by = {f.id}
    BY <1>1, <1>5, AtMostOne
  <2>2. seen.by = {} \/ seen.by = {f.id}
    BY <2>1
  <2>3. Cardinality(seen.by) <= 1
    <3>1. CASE seen.by = {}
      <4>1. Cardinality(seen.by) = 0
        BY <3>1, FS_EmptySet
      <4> QED BY <4>1
    <3> QED BY <1>5, <2>1, <2>2, <3>1
  <2> QED BY <2>1, <2>2, <2>3
<1>6. InOrder'
  <2> SUFFICES ASSUME seen.valid, Cardinality(seen'.by) <= 1
               PROVE  /\ app'.at = Len(seen'.got) /\ IsPrefix(seen'.got, app'.tracks)
                      /\ seen'.by # {}
                      /\ \A g \in fetches' : g.id \in seen'.by => Range(seen'.got) \cap Ahead(g) = {}
    BY DEF InOrder
  <2>1. /\ app.at = Len(seen.got) /\ IsPrefix(seen.got, app.tracks)
        /\ seen.by = {} => seen.got = <<>>
        /\ f.id \in seen.by => Range(seen.got) \cap Ahead(f) = {}
    BY <1>5 DEF IInv, GoodSeen, InOrder
  <2>2. Range(seen.got) \cap Ahead(f) = {}
    <3>1. CASE seen.by = {}
      BY <2>1, <3>1, EmptyFacts
    <3> QED BY <1>5, <2>1, <3>1
  <2>3. Range(ts) \subseteq Ahead(f)
    BY DEF StillToCome
  <2>4. IsPrefix(seen'.got, app'.tracks)
    <3>1. Range(seen.got) \cap Range(ts) = {}
      BY <2>2, <2>3
    <3> QED BY <1>1, <1>3, <2>1, <3>1, DeliveredInFront
  <2>5. app'.at = Len(seen'.got)
    BY <1>1, <1>2, <1>3, <2>1
  <2>6. ASSUME NEW g \in fetches', g.id \in seen'.by
        PROVE  Range(seen'.got) \cap Ahead(g) = {}
    <3>1. Ahead(g) \subseteq Ahead(f) /\ Range(ts) \cap Ahead(g) = {}
      BY <1>5, <2>6 DEF StillToCome
    <3>2. Range(seen'.got) = Range(seen.got) \cup Range(ts)
      BY <1>1, RangeConcatenation
    <3> QED BY <2>2, <3>1, <3>2
  <2> QED BY <1>1, <2>4, <2>5, <2>6
<1>7. NoneTwice'
  <2> SUFFICES ASSUME seen'.mixed = FALSE
               PROVE  /\ IsInjective(app'.tracks)
                      /\ \/ Range(app'.tracks) \subseteq app'.known
                         \/ \E i \in seen'.by : \A g \in fetches' : g.id # i
    BY <1>1 DEF NoneTwice
  <2>1. seen.mixed = FALSE /\ seen.valid /\ (seen.by = {} \/ seen.by = {f.id})
    BY <1>5
  <2>2. IsInjective(app.tracks) /\ Range(app.tracks) \subseteq app.known
    BY <2>1 DEF IInv, GoodSeen, NoneTwice
  <2>3. IsInjective(a.tracks) /\ Range(a.tracks) \subseteq a.known
    BY <1>1, <1>2, <2>1, <2>2
  <2>4. CASE last
    <3>1. \A g \in fetches' : g.id # f.id
      BY <2>4 DEF StillToCome
    <3> QED BY <1>1, <1>3, <2>3, <3>1
  <2>5. CASE ~last
    BY <1>3, <2>3, <2>5
  <2> QED BY <2>4, <2>5
<1> QED BY <1>4, <1>6, <1>7 DEF GoodSeen
LEMMA ReplyStep ==
  ASSUME IInv, up, NEW f \in fetches, Reply(f)
  PROVE  IInv'
<1>1. PICK p \in f.out, ok \in BOOLEAN, told \in BOOLEAN :
        LET ts == IF ok THEN Items(f.of, p) ELSE <<>>
            last == told /\ StillOut(f, p, ok) = {}
            effect == ts # <<>> \/ last
            by == IF effect THEN seen.by \cup {f.id} ELSE seen.by
        IN  /\ told \/ (~ok /\ f.of \notin Parallel)
            /\ Answered(f, p, ok)
            /\ IF Dropped(f) THEN UNCHANGED <<app, pool>> ELSE Delivered(f, ts, last)
            /\ seen' = IF Dropped(f) THEN seen
                       ELSE [seen EXCEPT !.by = by, !.got = @ \o ts, !.lost = @ \/ ~ok,
                                         !.mixed = @ \/ Cardinality(by) > 1 \/ (effect /\ ~seen.valid)]
            /\ UNCHANGED <<up, source, starts, leaving, begun, disk, turns>>
  BY DEF Reply
<1> DEFINE ts == IF ok THEN Items(f.of, p) ELSE <<>>
           last == told /\ StillOut(f, p, ok) = {}
           effect == ts # <<>> \/ last
           by == IF effect THEN seen.by \cup {f.id} ELSE seen.by
           mixed == seen.mixed \/ Cardinality(by) > 1 \/ (effect /\ ~seen.valid)
           lost == seen.lost \/ ~ok
<1>2. /\ Answered(f, p, ok) /\ UNCHANGED <<up, source, begun, disk>>
      /\ Dropped(f) => UNCHANGED <<app, pool, seen>>
      /\ ~Dropped(f) => Delivered(f, ts, last) /\ seen' = Noted(by, seen.got \o ts, lost, mixed)
  BY <1>1, Zenon DEF Noted
<1>3. /\ GoodFetches' /\ PageOf(f.of, p, ts) /\ StillToCome(f, ts, last)
      /\ last \in BOOLEAN /\ effect \in BOOLEAN /\ mixed \in BOOLEAN /\ lost \in BOOLEAN
  <2>1. GoodFetches' /\ PageOf(f.of, p, ts) /\ StillToCome(f, ts, last)
    <3>1. GoodFetches' /\ PageOf(f.of, p, ts) /\ StillToCome(f, ts, StillOut(f, p, ok) = {})
      BY <1>2, AnsweredFacts DEF IInv
    <3>2. CASE last
      BY <3>1, <3>2 DEF StillToCome
    <3>3. CASE ~last
      BY <3>1, <3>3 DEF StillToCome
    <3> QED BY <3>1, <3>2, <3>3
  <2>2. last \in BOOLEAN /\ effect \in BOOLEAN
    BY Zenon
  <2>3. seen.mixed \in BOOLEAN /\ seen.lost \in BOOLEAN
    BY DEF IInv, GoodSeen, SeenType
  <2>4. mixed \in BOOLEAN /\ lost \in BOOLEAN
    BY <2>3, Zenon
  <2> QED BY <2>1, <2>2, <2>4
<1>4. /\ effect = TRUE => by = seen.by \cup {f.id}
      /\ effect = FALSE => by = seen.by /\ ts = <<>> /\ last = FALSE
      /\ effect = TRUE => ts # <<>> \/ last = TRUE
  BY <1>3, Zenon
<1>5. mixed = FALSE => /\ seen.mixed = FALSE /\ ~(Cardinality(by) > 1)
                       /\ effect = TRUE => seen.valid = TRUE
  <2>1. seen.mixed \in BOOLEAN /\ seen.valid \in BOOLEAN
    BY DEF IInv, GoodSeen, SeenType
  <2> QED BY <1>3, <2>1, Zenon
<1> HIDE DEF ts, last, effect, by, mixed, lost
<1>6. /\ GoodList /\ GoodPool /\ GoodSeen /\ begun \in Nat /\ f.of \in Services /\ f.id \in 1 .. begun
      /\ source \in Everywhere /\ seen \in SeenType(begun)
      /\ seen.by \in SUBSET (1 .. begun) /\ seen.got \in Seq(Ids)
  BY DEF IInv, GoodFetches, GoodFetch, GoodList, GoodSeen, SeenType
<1>7. GoodDisk(disk')
  BY <1>2 DEF IInv
<1>8. CASE Dropped(f)
  <2>1. UNCHANGED <<up, source, app, pool, seen, begun>>
    BY <1>2, <1>8
  <2>2. GoodSeen'
    <3>1. seen'.mixed = FALSE => seen.mixed = FALSE
      BY <2>1
    <3>2. seen' \in SeenType(begun) /\ seen'.valid = seen.valid /\ seen'.by = seen.by
          /\ seen'.got = seen.got
      BY <1>6, <2>1
    <3> QED BY <1>3, <1>6, <2>1, <3>1, <3>2, NothingReaches
  <2>3. GoodList' /\ GoodPool'
    BY <1>6, <2>1 DEF GoodList, GoodPool
  <2> QED BY <1>3, <1>7, <2>2, <2>3 DEF IInv
<1>9. CASE ~Dropped(f)
  <2>1. source \in Services /\ source = f.of
    BY <1>6, <1>9 DEF Dropped
  <2>2. ts \in Seq(Ids) /\ IsInjective(ts) /\ AllOf(ts, source)
    BY <1>3, <2>1 DEF PageOf
  <2>3. PICK a \in IF ts = <<>> THEN {app} ELSE Fetched(app, ts) :
          /\ app' = IF last THEN Finished(a) ELSE a
          /\ Pooled((IF ts = <<>> THEN {} ELSE {SaveTracks(ts)})
                    \cup (IF last THEN {SaveQueue(a.tracks, source)} ELSE {}))
    BY <1>2, <1>9 DEF Delivered
  <2>4. GoodMemory(a) /\ InPlace(a) /\ AllOf(a.tracks, source)
    BY <2>1, <2>2, <2>3, DeliveredFacts
  <2>5. GoodMemory(app') /\ InPlace(app') /\ AllOf(app'.tracks, source)
    BY <2>3, <2>4, FinishedFacts
  <2>6. GoodList'
    BY <1>2, <1>6, <2>5 DEF GoodList
  <2>7. GoodPool'
    <3>1. a.tracks \in Seq(Ids)
      BY <2>4 DEF GoodMemory, GoodApp, Apps
    <3>2. GoodTask(SaveTracks(ts)) /\ GoodTask(SaveQueue(a.tracks, source))
      BY <1>6, <2>2, <2>4, <3>1, SaveTracksFacts, SaveQueueFacts
    <3> QED BY <1>6, <2>3, <3>2, PooledFacts
  <2>8. GoodSeen'
    <3>1. seen' = Noted(by, seen.got \o ts, lost, mixed)
      BY <1>2, <1>9
    <3>2. by \in SUBSET (1 .. begun)
      BY <1>3, <1>4, <1>6
    <3>3. PICK got \in Seq(Ids) : got = seen.got \o ts
      <4>1. ASSUME NEW s \in Seq(Ids), NEW t \in Seq(Ids) PROVE s \o t \in Seq(Ids)
        OBVIOUS
      <4> QED BY <1>6, <2>2, <4>1, Zenon
    <3>4. /\ seen' \in SeenType(begun) /\ seen'.valid = seen.valid /\ seen'.by = by
          /\ seen'.got = got /\ seen'.mixed = mixed
      BY <1>3, <1>6, <3>1, <3>2, <3>3, NotedFacts
    <3>5. CASE effect = TRUE
      <4>1. ASSUME mixed = FALSE
            PROVE  seen.mixed = FALSE /\ seen.valid = TRUE /\ Cardinality(seen'.by) <= 1
        <5>1. IsFiniteSet(by)
          <6>1. IsFiniteSet(1 .. begun)
            BY <1>6, FS_Interval
          <6> QED BY <3>2, <6>1, FS_Subset
        <5>2. PICK c \in Nat : c = Cardinality(by)
          BY <5>1, FS_CardinalityType
        <5>3. ~(c > 1)
          BY <1>5, <4>1, <5>2
        <5> QED BY <1>5, <3>4, <3>5, <4>1, <5>2, <5>3
      <4>2. seen'.by = seen.by \cup {f.id} /\ begun' = begun
        BY <1>2, <1>4, <3>4, <3>5
      <4> QED BY <1>3, <2>1, <2>2, <2>3, <3>3, <3>4, <4>1, <4>2, AnswerReaches
    <3>6. CASE effect = FALSE
      <4>1. ts = <<>> /\ last = FALSE /\ by = seen.by
        BY <1>4, <3>6
      <4>2. app' = app /\ begun' = begun /\ got = seen.got
        BY <1>2, <1>6, <2>3, <3>3, <4>1, ConcatEmptySeq
      <4> QED BY <1>3, <1>5, <1>6, <3>4, <4>1, <4>2, NothingReaches
    <3> QED BY <1>3, <3>5, <3>6
  <2> QED BY <1>3, <1>7, <2>6, <2>7, <2>8 DEF IInv
<1> QED BY <1>8, <1>9
-----------------------------------------------------------------------------
(* Every reachable state.                                                   *)

LEMMA InitHolds ==
  ASSUME Init
  PROVE  IInv
<1>1. PICK e \in Seq(Ids) : e = <<>> /\ Range(e) = {} /\ Len(e) = 0
  BY EmptyFacts
<1>2. /\ app = Fresh /\ source \in Everywhere /\ up = FALSE /\ begun = 0 /\ fetches = {}
      /\ pool = EmptyBag /\ seen = Counting(FALSE, FALSE)
  BY DEF Init, Everywhere, Counting, Unseen
<1>3. GoodMemory(app) /\ InPlace(app) /\ app.tracks = <<>>
  BY <1>2, FreshFacts
<1>4. IsInjective(app.tracks) /\ AllOf(app.tracks, source)
  BY <1>3, EmptyAllOf
<1>5. GoodList
  BY <1>2, <1>3, <1>4 DEF GoodList
<1>6. GoodDisk(disk)
  <2>1. disk = [rows |-> e, order |-> [s \in Everywhere |-> e],
                session |-> [s \in Everywhere |-> NoSession]]
    BY <1>1 DEF Init, Everywhere
  <2>2. NoSession \in Sessions
    BY DEF NoSession, Sessions
  <2>3. disk.rows = e /\ \A s \in Everywhere : disk.order[s] = e
    BY <2>1
  <2>4. disk \in [rows : Seq(Ids), order : [Everywhere -> Seq(Ids)],
                  session : [Everywhere -> Sessions]]
    BY <2>1, <2>2
  <2>5. IsInjective(e) /\ \A s : AllOf(e, s)
    BY <1>1, EmptyAllOf
  <2> QED BY <2>3, <2>4, <2>5 DEF GoodDisk
<1>7. GoodPool
  BY <1>2, BagFacts DEF GoodPool
<1>8. GoodFetches
  BY <1>2 DEF GoodFetches
<1>9. GoodSeen
  <2>1. /\ seen = [valid |-> FALSE, by |-> {}, got |-> e, mixed |-> FALSE, lost |-> FALSE]
        /\ seen.valid = FALSE
    BY <1>1, <1>2 DEF Counting
  <2>2. {} \in SUBSET (1 .. begun)
    OBVIOUS
  <2>3. seen \in SeenType(begun)
    BY <1>1, <2>1, <2>2, SeenRecord
  <2> QED BY <1>4, <2>1, <2>3 DEF GoodSeen, InOrder, NoneTwice
<1> QED BY <1>5, <1>6, <1>7, <1>8, <1>9 DEF IInv

LEMMA StutterStep ==
  ASSUME IInv, UNCHANGED vars
  PROVE  IInv'
<1>1. UNCHANGED <<up, source, app, disk, pool, fetches, begun, seen>>
  BY DEF vars, memory
<1>2. GoodFetches' /\ GoodSeen'
  BY <1>1, FetchesStay, CountStays DEF IInv
<1>3. GoodList' /\ GoodPool' /\ GoodDisk(disk')
  BY <1>1 DEF IInv, GoodList, GoodPool
<1> QED BY <1>2, <1>3 DEF IInv

LEMMA RouterStep ==
  ASSUME IInv, up, Router
  PROVE  IInv'
<1>1. CASE \E s \in Services : Answer(s) \/ SignIn(s) \/ HandleLogout(s) \/ NextSourceFound(s)
  BY <1>1, AnswerStep, SignInStep, HandleLogoutStep, NextSourceFoundStep
<1>2. CASE \E s \in Services \cup {Offline} : UserSwitches(s)
  BY <1>2, UserSwitchesStep DEF Everywhere
<1>3. CASE \E online \in BOOLEAN : Revalidated(online)
  BY <1>3, RevalidatedStep
<1>4. CASE HandleLogoutOfAll
  BY <1>4, HandleLogoutOfAllStep
<1>5. CASE \E f \in fetches : Reply(f)
  BY <1>5, ReplyStep
<1> QED BY <1>1, <1>2, <1>3, <1>4, <1>5 DEF Router

LEMMA NextStep ==
  ASSUME IInv, [Next]_vars
  PROVE  IInv'
<1>1. CASE up /\ (Router \/ OfflineModeRequested \/ Play \/ Quit \/ Crash)
  BY <1>1, RouterStep, OfflineModeRequestedStep, PlayStep, QuitStep, CrashStep
<1>2. CASE RunTask
  BY <1>2, RunTaskStep
<1>3. CASE Start
  BY <1>3, StartStep
<1>4. CASE UNCHANGED vars
  BY <1>4, StutterStep
<1> QED BY <1>1, <1>2, <1>3, <1>4 DEF Next

\* Whatever answers, tasks, ends and starts come in whatever order, the list,
\* the database, the pool and the fetches under way fit together: the
\* handlers of ApplicationCore, the router, the repositories.
THEOREM Invariance == Spec => []IInv
<1>1. Init => IInv
  BY InitHolds
<1>2. IInv /\ [Next]_vars => IInv'
  BY NextStep
<1> QED BY <1>1, <1>2, PTL DEF Spec

\* The list, the place in it, what is stored and what is waited for are of
\* their types: the place is in the list or just behind it, no row of the
\* track table is there twice, and no fetch is kept that waits for nothing.
THEOREM TypeCorrect == Spec => []TypeOK
<1>1. IInv => TypeOK
  <2> SUFFICES ASSUME IInv PROVE TypeOK
    OBVIOUS
  <2>1. /\ up \in BOOLEAN /\ source \in Services \cup {Offline} /\ GoodMemory(app)
        /\ IsInjective(disk.rows)
    BY DEF IInv, GoodList, GoodDisk, Everywhere
  <2>2. /\ app.tracks \in Seq(Ids) /\ app.place \in Nat \ {0} /\ app.current \in Ids \cup {NoTrack}
        /\ app.started \in BOOLEAN /\ app.at \in Nat /\ app.known \subseteq Ids
        /\ (app.place <= Len(app.tracks) \/ app.place = 1)
    BY <2>1 DEF GoodMemory, GoodApp, Apps
  <2>3. app.place \in 1 .. Len(app.tracks) + 1
    BY <2>2
  <2>4. \A f \in fetches : f.of \in Services /\ f.out # {}
    BY DEF IInv, GoodFetches, GoodFetch
  <2> QED BY <2>1, <2>2, <2>3, <2>4 DEF TypeOK
<1> QED BY <1>1, Invariance, PTL

\* However late pages and sign-ins are answered, SwitchSource, OnSourceChanged
\* and the router's test of the provider keep every other service's tracks
\* out of the list of the active one.
THEOREM OnlyItsTracks == Spec => []OnlyActiveSource
<1>1. IInv => OnlyActiveSource
  <2> SUFFICES ASSUME IInv, source # Offline PROVE \A t \in Range(app.tracks) : SourceOf[t] = source
    BY DEF OnlyActiveSource
  <2> QED BY DEF IInv, GoodList, Everywhere, AllOf
<1> QED BY <1>1, Invariance, PTL

\* SaveSessionState and OnFinishedFetching store no queue, at once or through
\* the pool, under a source whose tracks it does not hold.
THEOREM StoredWhereItBelongs == Spec => []StoredUnderItsSource
<1>1. IInv => StoredUnderItsSource
  <2> SUFFICES ASSUME IInv, NEW s \in Services
               PROVE  /\ \A t \in Range(disk.order[s]) : SourceOf[t] = s
                      /\ \A task \in BagToSet(pool) :
                           task.kind = "queue" /\ task.of = s =>
                             \A t \in Range(task.ids) : SourceOf[t] = s
    BY DEF StoredUnderItsSource
  <2>1. AllOf(disk.order[s], s)
    BY DEF IInv, GoodDisk, Everywhere
  <2>2. ASSUME NEW task \in BagToSet(pool), task.kind = "queue", task.of = s
        PROVE  AllOf(task.ids, s)
    BY <2>2 DEF IInv, GoodPool, GoodTask
  <2> QED BY <2>1, <2>2 DEF AllOf
<1> QED BY <1>1, Invariance, PTL

\* AlignWithActiveTrack, called after every change of the list, and the
\* shifts of InsertTrack and MoveTrack leave the place at the active track.
THEOREM PlaceFollowsCurrent == Spec => []CurrentIsInPlace
<1>1. IInv => CurrentIsInPlace
  BY DEF IInv, GoodList, InPlace, CurrentIsInPlace
<1> QED BY <1>1, Invariance, PTL

\* With m_syncIndex and m_syncExistingIds, OnAudioFetched puts what one fetch
\* brings in front in the order of its pages and lists nothing twice.
THEOREM InFrontInOrder == Spec => []FetchedInFront
<1>1. IInv => FetchedInFront
  BY DEF IInv, GoodSeen, InOrder, NoneTwice, FetchedInFront
<1> QED BY <1>1, Invariance, PTL
-----------------------------------------------------------------------------
(* Nothing of a library falls between the list and the pages waited for: the *)
(* part of LibraryArrives that is safety.                                   *)

LEMMA PageExists ==
  ASSUME NEW k \in Nat \ {0}, NEW n \in Nat, NEW j \in 1 .. n
  PROVE  \E q \in 1 .. ((n + k - 1) \div k) : (q - 1) * k < j /\ j <= q * k
<1>1. PICK b : b = (n + k - 1) \div k
  OBVIOUS
<1>2. PICK y : b \in Nat /\ y = k * b /\ y \in Nat /\ n + k - 1 < y + k
  <2>1. n + k - 1 \in Nat
    OBVIOUS
  <2>2. b \in Nat /\ n + k - 1 < k * b + k
    BY <1>1, <2>1, DivisionFacts
  <2>3. k * b \in Nat
    BY <2>2
  <2> QED BY <2>2, <2>3
<1>3. \E a \in Nat : k * a <= j - 1 /\ j - 1 < k * a + k
  <2>1. PICK a : a = (j - 1) \div k
    OBVIOUS
  <2>2. j - 1 \in Nat
    OBVIOUS
  <2>3. a \in Nat /\ k * a <= j - 1 /\ j - 1 < k * a + k
    BY <2>1, <2>2, DivisionFacts
  <2> QED BY <2>3
<1>4. PICK a \in Nat, x \in Nat : x = k * a /\ x <= j - 1 /\ j - 1 < x + k
  BY <1>3
<1>5. (a + 1 - 1) * k = x /\ (a + 1) * k = x + k
  BY <1>4
<1>6. a < b
  <2> SUFFICES ASSUME b <= a PROVE FALSE
    BY <1>2
  <2>1. PICK c \in Nat : a = b + c
    <3>1. a - b \in Nat /\ a = b + (a - b)
      BY <1>2
    <3> QED BY <3>1
  <2>2. PICK z \in Nat : z = k * c /\ k * (b + c) = k * b + z
    BY <1>2
  <2>3. x = y + z
    BY <1>2, <1>4, <2>1, <2>2
  <2>4. x < n /\ n <= y
    BY <1>2, <1>4
  <2> QED BY <1>2, <2>2, <2>3, <2>4
<1>7. a + 1 \in 1 .. b
  BY <1>2, <1>6
<1>8. (a + 1 - 1) * k < j /\ j <= (a + 1) * k
  BY <1>4, <1>5
<1> QED BY <1>1, <1>7, <1>8

\* What was ahead is in the answer or still ahead.
LEMMA NoneSkipped ==
  ASSUME NEW f, GoodFetch(f), NEW p \in f.out, NEW t \in Ahead(f), t \notin Range(Items(f.of, p)),
         NEW out, out = StillOut(f, p, TRUE), NEW g, g = [f EXCEPT !.out = out]
  PROVE  out # {} /\ t \in Ahead(g)
<1>1. PICK s \in Services, o \in SUBSET Nat :
        /\ s = f.of /\ o = f.out /\ p \in o
        /\ f \in [id : 1 .. begun, of : Services, out : SUBSET Nat]
        /\ IF s \in Parallel THEN o = {0} \/ 0 \notin o ELSE p # 0 /\ o = {p}
  BY DEF GoodFetch
<1>2. p \in Nat /\ PageSize \in Nat \ {0}
  BY <1>1, LibraryAssumption
<1>3. PICK L \in Seq(Ids), n \in Nat : L = Library[s] /\ n = Len(L) /\ DOMAIN L = 1 .. n
  BY LibraryFacts
<1> DEFINE Wanted(j, r) ==
             \E q \in r : (q - 1) * PageSize < j /\ (s \in Parallel /\ q # 0 => j <= q * PageSize)
<1>4. PICK j \in 1 .. n : Wanted(j, o) /\ t = L[j]
  BY <1>1, <1>3 DEF Ahead
<1>5. p # 0 => ~((p - 1) * PageSize < j /\ j <= p * PageSize)
  <2> SUFFICES ASSUME p # 0, (p - 1) * PageSize < j, j <= p * PageSize PROVE FALSE
    OBVIOUS
  <2>1. PICK x \in Nat, y \in Nat, z \in Nat :
          x = (p - 1) * PageSize /\ y = p * PageSize /\ SliceOf(L, n, x, y, z, Items(s, p))
    BY <1>2, <1>3, ItemsFacts
  <2>2. PICK ts : ts = Items(s, p)
    OBVIOUS
  <2>3. ts \in Seq(Ids) /\ DOMAIN ts = 1 .. z /\ j <= x + z /\ \A i \in 1 .. z : ts[i] = L[x + i]
    BY <2>1, <2>2 DEF SliceOf
  <2>4. PICK i \in 1 .. z : x + i = j
    <3>1. j - x \in 1 .. z /\ x + (j - x) = j
      BY <2>1, <2>3
    <3> QED BY <3>1
  <2>5. t = ts[i]
    BY <1>4, <2>3, <2>4
  <2> QED BY <1>1, <2>2, <2>3, <2>5 DEF Range
<1>6. out \in SUBSET Nat /\ Wanted(j, out)
  <2>1. CASE s \in Parallel /\ p = 0
    <3>1. out = PagesOf(s)
      BY <1>1, <2>1 DEF StillOut
    <3>2. PICK q \in PagesOf(s) : (q - 1) * PageSize < j /\ j <= q * PageSize
      BY <1>2, <1>3, PageExists DEF PagesOf
    <3>3. \A r \in PagesOf(s) : r \in Nat
      BY DEF PagesOf
    <3> QED BY <3>1, <3>2, <3>3
  <2>2. CASE s \in Parallel /\ p # 0
    <3>1. out = o \ {p} /\ 0 \notin o
      BY <1>1, <2>2 DEF StillOut
    <3>2. PICK q \in o : (q - 1) * PageSize < j /\ (q # 0 => j <= q * PageSize)
      BY <1>4, <2>2
    <3>3. q # p
      BY <1>5, <2>2, <3>1, <3>2
    <3> QED BY <1>1, <3>1, <3>2, <3>3
  <2>3. CASE s \notin Parallel
    <3>1. p # 0 /\ o = {p} /\ (p - 1) * PageSize < j
      BY <1>1, <1>4, <2>3
    <3>2. PICK x \in Nat, y \in Nat, z \in Nat :
            x = (p - 1) * PageSize /\ y = p * PageSize /\ SliceOf(L, n, x, y, z, Items(s, p))
      BY <1>2, <1>3, <3>1, ItemsFacts
    <3>3. y < j
      BY <1>5, <3>1, <3>2
    <3>4. Len(Items(s, p)) = PageSize
      BY <3>2, <3>3 DEF SliceOf
    <3>5. out = {p + 1}
      BY <1>1, <2>3, <3>4 DEF StillOut
    <3>6. PICK r \in Nat : r = p + 1 /\ r - 1 = p
      BY <1>2
    <3>7. (r - 1) * PageSize = y
      BY <3>2, <3>6
    <3>8. out = {r} /\ (r - 1) * PageSize < j
      BY <3>3, <3>5, <3>6, <3>7
    <3>9. Wanted(j, {r}) /\ {r} \in SUBSET Nat
      BY <2>3, <3>8
    <3> HIDE DEF Wanted
    <3> QED BY <3>8, <3>9
  <2> QED BY <2>1, <2>2, <2>3
<1>7. g.of = s /\ g.out = out
  BY <1>1
<1>8. out # {}
  BY <1>6
<1>9. t \in Ahead(g)
  BY <1>3, <1>4, <1>6, <1>7 DEF Ahead
<1> QED BY <1>8, <1>9
\* The tracks of s are listed or may still be brought by fetch i.
Covered(i, s) ==
  \A t \in Range(Library[s]) :
    \/ t \in Range(app.tracks)
    \/ \E f \in fetches : f.id = i /\ f.of = s /\ t \in Ahead(f)

\* s is active, ProviderReady has come and no request has failed since.
InSync(s) == up /\ source = s /\ seen.valid /\ ~seen.lost

(* What a fetch of the active source was to bring is in the list or still   *)
(* waited for, whatever else signs in, is answered, saved or shown ready    *)
(* meanwhile: OnAudioFetched and the paging of the clients drop no track.    *)
NothingFallsBetween ==
  [][\A s \in Services : \A i \in Nat :
       InSync(s) /\ Covered(i, s) /\ InSync(s)' => Covered(i, s)']_vars

LEMMA FirstCovers ==
  ASSUME IInv, NEW f \in fetches, f.out = FirstPages(f.of)
  PROVE  Covered(f.id, f.of)
<1>1. PICK s \in Services : s = f.of
  BY DEF IInv, GoodFetches, GoodFetch
<1>2. PICK L \in Seq(Ids), n \in Nat : L = Library[s] /\ DOMAIN L = 1 .. n
  BY <1>1, LibraryFacts
<1>3. ASSUME NEW t \in Range(L) PROVE t \in Ahead(f)
  <2>1. PICK j \in 1 .. n : t = L[j]
    BY <1>2 DEF Range
  <2>2. PICK p : /\ p \in f.out /\ p \in {0, 1} /\ (s \in Parallel => p = 0)
                 /\ (s \notin Parallel => p = 1)
    BY <1>1 DEF FirstPages
  <2>3. (p - 1) * PageSize < j
    BY <2>2, LibraryAssumption
  <2>4. s \in Parallel /\ p # 0 => j <= p * PageSize
    BY <2>2
  <2> QED BY <1>1, <1>2, <2>1, <2>2, <2>3, <2>4 DEF Ahead
<1> QED BY <1>1, <1>2, <1>3 DEF Covered

LEMMA ListGrows ==
  ASSUME NEW a, NEW b, NEW s, FilledAs(a, s, b)
  PROVE  Range(a.tracks) \subseteq Range(b.tracks)
<1>1. CASE a.tracks = <<>>
  BY <1>1, EmptyAllOf
<1> QED BY <1>1 DEF FilledAs

LEMMA StaysCovered ==
  ASSUME NEW s, NEW i, Covered(i, s), fetches \subseteq fetches',
         Range(app.tracks) \subseteq Range(app'.tracks)
  PROVE  Covered(i, s)'
BY DEF Covered, Ahead

LEMMA ReadyCovers ==
  ASSUME IInv, NEW s, NEW i, Covered(i, s), NEW online, ProviderReady(online),
         fetches \subseteq fetches'
  PROVE  Covered(i, s)'
<1>1. FilledAs(app, source, app')
  <2>1. app' \in Ready(app, source, online)
    BY DEF ProviderReady
  <2> QED BY <2>1, ReadyFacts DEF IInv, GoodList
<1> QED BY <1>1, ListGrows, StaysCovered

LEMMA DeliveredGrows ==
  ASSUME IInv, source \in Services, NEW ts \in Seq(Ids),
         NEW a \in IF ts = <<>> THEN {app} ELSE Fetched(app, ts),
         app.known \subseteq Range(app.tracks)
  PROVE  Range(app.tracks) \cup Range(ts) \subseteq Range(a.tracks)
<1>1. /\ GoodMemory(app) /\ source \in Everywhere /\ GoodDisk(disk)
  BY DEF IInv, GoodList
<1>2. CASE ts = <<>>
  BY <1>2, EmptyFacts
<1>3. CASE ts # <<>>
  <2>1. PICK c : c = AllPlaced(app, ts)
    OBVIOUS
  <2>2. a \in Fetched(app, ts)
    BY <1>3
  <2>3. AllPlacedAs(app, ts, c) /\ FilledAs(c, source, a)
    BY <1>1, <2>1, <2>2, FetchedFacts
  <2>4. Range(app.tracks) \cup Range(ts) \subseteq Range(c.tracks)
    BY <2>3 DEF AllPlacedAs
  <2> QED BY <2>3, <2>4, ListGrows
<1> QED BY <1>2, <1>3
LEMMA ReplyCovers ==
  ASSUME IInv, NEW s \in Services, NEW i, InSync(s), Covered(i, s), NEW f \in fetches, Reply(f),
         InSync(s)'
  PROVE  Covered(i, s)'
<1>1. PICK p \in f.out, ok \in BOOLEAN, told \in BOOLEAN :
        LET ts == IF ok THEN Items(f.of, p) ELSE <<>>
            last == told /\ StillOut(f, p, ok) = {}
            effect == ts # <<>> \/ last
            by == IF effect THEN seen.by \cup {f.id} ELSE seen.by
        IN  /\ told \/ (~ok /\ f.of \notin Parallel)
            /\ Answered(f, p, ok)
            /\ IF Dropped(f) THEN UNCHANGED <<app, pool>> ELSE Delivered(f, ts, last)
            /\ seen' = IF Dropped(f) THEN seen
                       ELSE [seen EXCEPT !.by = by, !.got = @ \o ts, !.lost = @ \/ ~ok,
                                         !.mixed = @ \/ Cardinality(by) > 1 \/ (effect /\ ~seen.valid)]
            /\ UNCHANGED <<up, source, starts, leaving, begun, disk, turns>>
  BY DEF Reply
<1> DEFINE ts == IF ok THEN Items(f.of, p) ELSE <<>>
           last == told /\ StillOut(f, p, ok) = {}
           effect == ts # <<>> \/ last
           by == IF effect THEN seen.by \cup {f.id} ELSE seen.by
           mixed == seen.mixed \/ Cardinality(by) > 1 \/ (effect /\ ~seen.valid)
           lost == seen.lost \/ ~ok
<1>2. /\ Answered(f, p, ok)
      /\ Dropped(f) => app' = app
      /\ ~Dropped(f) => Delivered(f, ts, last) /\ seen' = Noted(by, seen.got \o ts, lost, mixed)
  BY <1>1, Zenon DEF Noted
<1>3. /\ ok = TRUE => ts = Items(f.of, p)
      /\ ok = FALSE => lost = TRUE
      /\ last \in BOOLEAN
  BY Zenon
<1> HIDE DEF ts, last, effect, by, mixed, lost
<1>4. /\ GoodFetch(f) /\ f.of \in Services /\ p \in Nat /\ source = s /\ seen.valid
      /\ seen \in SeenType(begun) /\ app.known \subseteq Range(app.tracks)
  BY DEF IInv, GoodFetches, GoodFetch, InSync, GoodSeen
<1>5. fetches \ {f} \subseteq fetches'
  BY <1>2 DEF Answered
<1>6. CASE Dropped(f)
  <2>1. f.of # s /\ app' = app
    BY <1>2, <1>4, <1>6 DEF Dropped
  <2>2. \A h \in fetches : h.of = s => h \in fetches'
    BY <1>5, <2>1
  <2> QED BY <2>1, <2>2 DEF Covered, Ahead
<1>7. CASE ~Dropped(f)
  <2>1. f.of = s
    BY <1>4, <1>7 DEF Dropped
  <2>2. ok = TRUE
    <3>1. seen' = Noted(by, seen.got \o ts, lost, mixed)
      BY <1>2, <1>7
    <3>2. seen'.lost = lost
      BY <1>4, <3>1 DEF Noted, SeenType
    <3>3. ~seen'.lost
      BY DEF InSync
    <3> QED BY <1>3, <3>2, <3>3
  <2>3. ts = Items(s, p) /\ ts \in Seq(Ids)
    BY <1>3, <1>4, <2>1, <2>2, PageFacts DEF PageOf
  <2>4. PICK a \in IF ts = <<>> THEN {app} ELSE Fetched(app, ts) :
          app' = IF last THEN Finished(a) ELSE a
    BY <1>2, <1>7 DEF Delivered
  <2>5. Range(app.tracks) \cup Range(ts) \subseteq Range(app'.tracks)
    <3>1. Range(app.tracks) \cup Range(ts) \subseteq Range(a.tracks)
      BY <1>4, <2>3, <2>4, DeliveredGrows
    <3>2. app'.tracks = a.tracks
      <4>1. GoodMemory(a)
        <5>1. IsInjective(ts) /\ AllOf(ts, source)
          BY <1>4, <2>1, <2>3, PageFacts DEF PageOf
        <5> QED BY <1>4, <2>3, <2>4, <5>1, DeliveredFacts
      <4> QED BY <2>4, <4>1, FinishedFacts
    <3> QED BY <3>1, <3>2
  <2>6. ASSUME NEW t \in Ahead(f), t \notin Range(ts)
        PROVE  \E g \in fetches' : g.id = f.id /\ g.of = s /\ t \in Ahead(g)
    <3>1. PICK out, g : out = StillOut(f, p, TRUE) /\ g = [f EXCEPT !.out = out]
      OBVIOUS
    <3>2. out # {} /\ t \in Ahead(g)
      BY <1>4, <2>1, <2>3, <2>6, <3>1, NoneSkipped
    <3>3. g \in fetches'
      BY <1>2, <2>2, <3>1, <3>2 DEF Answered
    <3>4. g.id = f.id /\ g.of = s
      BY <1>4, <2>1, <3>1 DEF GoodFetch
    <3> QED BY <3>2, <3>3, <3>4
  <2>7. ASSUME NEW t \in Range(Library[s]), t \notin Range(app'.tracks)
        PROVE  \E g \in fetches' : g.id = i /\ g.of = s /\ t \in Ahead(g)
    <3>1. PICK h \in fetches : h.id = i /\ h.of = s /\ t \in Ahead(h)
      BY <2>5, <2>7 DEF Covered
    <3>2. CASE h = f
      BY <2>5, <2>6, <2>7, <3>1, <3>2
    <3>3. CASE h # f
      BY <1>5, <3>1, <3>3
    <3> QED BY <3>2, <3>3
  <2> QED BY <2>7 DEF Covered, Ahead
<1> QED BY <1>6, <1>7
LEMMA RouterCovers ==
  ASSUME IInv, NEW s \in Services, NEW i, InSync(s), Covered(i, s), Router, InSync(s)'
  PROVE  Covered(i, s)'
<1>1. /\ up /\ source = s /\ source' = s /\ seen'.valid /\ s # Offline
  BY LibraryAssumption DEF InSync
<1>2. ASSUME NEW t \in Services, Answer(t) PROVE Covered(i, s)'
  <2>1. CASE ProviderReady(TRUE) /\ Fetch(t, 1)
    BY <2>1, ReadyCovers DEF Fetch
  <2>2. ASSUME NEW online \in BOOLEAN, ProviderReady(online), UNCHANGED <<fetches, begun>>
        PROVE  Covered(i, s)'
    BY <2>2, ReadyCovers
  <2>3. CASE UNCHANGED <<app, fetches, begun, seen>>
    BY <2>3, StaysCovered
  <2> QED BY <1>2, <2>1, <2>2, <2>3 DEF Answer
<1>3. ASSUME NEW t \in Services, SignIn(t) PROVE Covered(i, s)'
  BY <1>3, ReadyCovers DEF SignIn, Fetch
<1>4. ASSUME NEW t \in Services, HandleLogout(t) PROVE Covered(i, s)'
  <2>1. t # source
    <3>1. t = source => seen'.valid = FALSE
      BY <1>4 DEF HandleLogout, Unseen
    <3> QED BY <1>1, <3>1
  <2> QED BY <1>4, <2>1, StaysCovered DEF HandleLogout
<1>5. ASSUME NEW t \in Everywhere, SwitchSource(t) PROVE FALSE
  <2>1. source' = t /\ seen' = [Unseen EXCEPT !.valid = t = Offline]
    BY <1>5, Zenon DEF SwitchSource, Enter
  <2>2. t = s
    BY <1>1, <2>1
  <2>3. seen' = [Unseen EXCEPT !.valid = FALSE]
    BY <1>1, <2>1, <2>2, Zenon
  <2>4. seen'.valid = FALSE
    BY <2>3 DEF Unseen
  <2> QED BY <1>1, <2>4
<1>6. \A t \in Services : ~NextSourceFound(t)
  BY <1>5 DEF NextSourceFound, Everywhere
<1>7. \A t \in Everywhere : ~UserSwitches(t)
  BY <1>5 DEF UserSwitches
<1>8. ASSUME NEW online \in BOOLEAN, Revalidated(online) PROVE Covered(i, s)'
  BY <1>8, ReadyCovers DEF Revalidated
<1>9. ~HandleLogoutOfAll
  BY <1>1 DEF HandleLogoutOfAll
<1> QED BY <1>2, <1>3, <1>4, <1>6, <1>7, <1>8, <1>9, ReplyCovers DEF Router, Everywhere

(* The safety half of LibraryArrives: a fetch begun for the active source   *)
(* covers its library at first, and as long as the source stays and nothing  *)
(* fails no step of router, core or pool uncovers a track of it.  When the   *)
(* fetch is over, all of the library is therefore in the list.              *)
THEOREM NothingFalls == Spec => NothingFallsBetween
<1>1. ASSUME IInv, [Next]_vars, NEW s \in Services, NEW i \in Nat, InSync(s), Covered(i, s),
             InSync(s)'
      PROVE  Covered(i, s)'
  <2>1. up /\ up'
    BY <1>1 DEF InSync
  <2>2. CASE Router
    BY <1>1, <2>2, RouterCovers
  <2>3. CASE Play
    <3>1. UNCHANGED fetches
      BY <2>3 DEF Play
    <3>2. app'.tracks = app.tracks
      <4>1. PICK j \in DOMAIN app.tracks : app' = JumpedTo(app, j)
        BY <2>3 DEF Play
      <4>2. GoodMemory(app) /\ DOMAIN app.tracks = 1 .. Len(app.tracks)
        BY <1>1 DEF IInv, GoodList, GoodMemory, GoodApp, Apps
      <4> QED BY <4>1, <4>2, JumpedFacts DEF GoodMemory, SameList
    <3> QED BY <1>1, <3>1, <3>2, StaysCovered
  <2>4. CASE Quit \/ Crash
    BY <2>1, <2>4 DEF Quit, Crash, Ends
  <2>5. CASE RunTask \/ UNCHANGED vars
    <3>1. UNCHANGED <<app, fetches>>
      BY <2>5 DEF RunTask, vars, memory
    <3> QED BY <1>1, <3>1, StaysCovered
  <2>6. CASE Start
    BY <2>1, <2>6 DEF Start
  <2>7. CASE OfflineModeRequested
    <3>1. UNCHANGED fetches /\ Range(app.tracks) = {}
      BY <1>1, <2>7, EmptyFacts DEF OfflineModeRequested, IInv, GoodList, GoodMemory
    <3> QED BY <1>1, <3>1, StaysCovered
  <2> QED BY <1>1, <2>2, <2>3, <2>4, <2>5, <2>6, <2>7 DEF Next
<1>2. IInv /\ [Next]_vars
      => [\A s \in Services : \A i \in Nat :
            InSync(s) /\ Covered(i, s) /\ InSync(s)' => Covered(i, s)']_vars
  BY <1>1
<1> QED BY <1>2, Invariance, PTL DEF Spec, NothingFallsBetween

(* A fetch that has just begun covers the library of its service: every     *)
(* track of it is on a page that FetchAllUserAudio or FetchLikesIds leads to. *)
THEOREM FetchCovers ==
  Spec => [](\A f \in fetches : f.out = FirstPages(f.of) => Covered(f.id, f.of))
<1>1. IInv => \A f \in fetches : f.out = FirstPages(f.of) => Covered(f.id, f.of)
  BY FirstCovers
<1> QED BY <1>1, Invariance, PTL
===============================================================================
