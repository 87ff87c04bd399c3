--------------------------- MODULE RingBuffer_proofs ---------------------------
(***************************************************************************)
(* Proofs about RingBuffer, for every size of the buffer, every length of   *)
(* what is written and read, and clears at any moment the callers allow.    *)
(***************************************************************************)
EXTENDS RingBuffer, SequenceTheorems, TLAPS

-----------------------------------------------------------------------------
(* Positions that go round. *)

LEMMA Sizes ==
  ASSUME RingAssumption
  PROVE  /\ Size \in Nat /\ Size > 0
         /\ Capacity = Size + 1 /\ Capacity \in Nat \ {0}
         /\ \A i : i \in Slots <=> i \in Nat /\ i <= Size
  BY DEF RingAssumption, Capacity, Slots

(* A position and what is added to it never exceed two rounds.              *)
LEMMA GoingRound ==
  ASSUME RingAssumption, NEW p \in Slots, NEW k \in Nat, k <= Capacity
  PROVE  /\ (p + k) % Capacity = IF p + k < Capacity THEN p + k ELSE p + k - Capacity
         /\ (p + k) % Capacity \in Slots
  <1>1. p \in Nat /\ p < Capacity /\ Capacity \in Nat \ {0}
    BY Sizes
  <1>2. p + k \in Nat /\ p + k < Capacity + Capacity
    BY <1>1
  <1>3. CASE p + k < Capacity
    <2>1. (p + k) % Capacity = p + k
      BY <1>1, <1>2, <1>3
    <2> QED BY <1>1, <1>2, <1>3, <2>1, Sizes
  <1>4. CASE Capacity <= p + k
    <2>1. (p + k) % Capacity = p + k - Capacity
      BY <1>1, <1>2, <1>4
    <2> QED BY <1>1, <1>2, <1>4, <2>1, Sizes
  <1> QED BY <1>1, <1>2, <1>3, <1>4

LEMMA DistanceIs ==
  ASSUME RingAssumption, NEW r \in Slots, NEW w \in Slots
  PROVE  Distance(r, w) \in Nat /\ Distance(r, w) <= Size
  BY Sizes DEF Distance

(* The writer's position moves away from the reader's.                      *)
LEMMA Away ==
  ASSUME RingAssumption, NEW r \in Slots, NEW w \in Slots,
         NEW n \in Nat, n <= Size - Distance(r, w)
  PROVE  /\ Distance(r, (w + n) % Capacity) = Distance(r, w) + n
         /\ (w + n) % Capacity \in Slots
  <1>1. /\ r \in Nat /\ r <= Size /\ w \in Nat /\ w <= Size
        /\ Size \in Nat /\ Capacity = Size + 1
    BY Sizes
  <1>2. n <= Capacity
    BY <1>1, DistanceIs
  <1>3. /\ (w + n) % Capacity = IF w + n < Capacity THEN w + n ELSE w + n - Capacity
        /\ (w + n) % Capacity \in Slots
    BY <1>2, GoingRound
  <1> QED BY <1>1, <1>3 DEF Distance

(* The reader's position moves towards the writer's.                        *)
LEMMA Towards ==
  ASSUME RingAssumption, NEW r \in Slots, NEW w \in Slots,
         NEW n \in Nat, n <= Distance(r, w)
  PROVE  /\ Distance((r + n) % Capacity, w) = Distance(r, w) - n
         /\ (r + n) % Capacity \in Slots
  <1>1. /\ r \in Nat /\ r <= Size /\ w \in Nat /\ w <= Size
        /\ Size \in Nat /\ Capacity = Size + 1
    BY Sizes
  <1>2. n <= Capacity
    BY <1>1, DistanceIs
  <1>3. /\ (r + n) % Capacity = IF r + n < Capacity THEN r + n ELSE r + n - Capacity
        /\ (r + n) % Capacity \in Slots
    BY <1>2, GoingRound
  <1> QED BY <1>1, <1>3 DEF Distance

LEMMA Halves ==
  ASSUME RingAssumption, NEW r \in Slots, NEW w \in Slots
  PROVE  (IF w >= r THEN Capacity - 1 - (w - r) ELSE r - w - 1) = Size - Distance(r, w)
  <1>1. /\ r \in Nat /\ r <= Size /\ w \in Nat /\ w <= Size
        /\ Size \in Nat /\ Capacity = Size + 1
    BY Sizes
  <1> QED BY <1>1 DEF Distance

(* What is there to be read and what there is room for add up to the size.  *)
LEMMA Room ==
  ASSUME RingAssumption, TypeOK
  PROVE  /\ AvailableRead \in Nat /\ AvailableRead <= Size
         /\ AvailableWrite = Size - AvailableRead
         /\ readPos \in Slots /\ writePos \in Slots
  <1>1. readPos \in Slots /\ writePos \in Slots
    BY DEF TypeOK
  <1>2. AvailableRead \in Nat /\ AvailableRead <= Size
    BY <1>1, DistanceIs DEF AvailableRead
  <1>3. AvailableWrite = Size - AvailableRead
    BY <1>1, Halves DEF AvailableRead, AvailableWrite
  <1> QED BY <1>1, <1>2, <1>3

LEMMA LeastIs ==
  ASSUME NEW a \in Nat, NEW b \in Nat
  PROVE  Least(a, b) \in Nat /\ Least(a, b) <= a /\ Least(a, b) <= b
  BY DEF Least

-----------------------------------------------------------------------------
(* What the steps do, in terms of what is in the buffer. *)

LEMMA WriteBegins ==
  ASSUME RingAssumption, TypeOK, NEW data \in Seq(Items), WriteBegin(data)
  PROVE  \E n \in 1 .. Len(data) :
           /\ n <= AvailableWrite
           /\ writing' = [at |-> writePos, data |-> SubSeq(data, 1, n)]
           /\ SubSeq(data, 1, n) \in Seq(Items) /\ Len(SubSeq(data, 1, n)) = n
  <1> DEFINE n == Least(Len(data), AvailableWrite)
  <1>1. n > 0 /\ writing' = [at |-> writePos, data |-> SubSeq(data, 1, n)]
    BY DEF WriteBegin
  <1>2. Len(data) \in Nat /\ AvailableWrite \in Nat
    BY Room, Sizes
  <1>3. n \in Nat /\ n <= Len(data) /\ n <= AvailableWrite
    BY <1>2, LeastIs
  <1>4. n \in 1 .. Len(data)
    BY <1>1, <1>2, <1>3
  <1> HIDE DEF n
  <1>5. SubSeq(data, 1, n) \in Seq(Items) /\ Len(SubSeq(data, 1, n)) = n
    BY <1>4
  <1> QED BY <1>1, <1>3, <1>4, <1>5

LEMMA ReadBegins ==
  ASSUME RingAssumption, TypeOK, NEW k \in Nat, ReadBegin(k)
  PROVE  \E n \in 1 .. Size : n <= AvailableRead /\ reading' = [at |-> readPos, n |-> n]
  <1> DEFINE n == Least(k, AvailableRead)
  <1>1. n > 0 /\ reading' = [at |-> readPos, n |-> n]
    BY DEF ReadBegin
  <1>2. n \in Nat /\ n <= AvailableRead /\ AvailableRead <= Size
    BY Room, LeastIs
  <1> HIDE DEF n
  <1>3. Size \in Nat
    BY Sizes
  <1>4. n \in 1 .. Size
    BY <1>1, <1>2, <1>3, Room
  <1> QED BY <1>1, <1>2, <1>4

-----------------------------------------------------------------------------
(* The invariant. *)

LEMMA TypeStep ==
  ASSUME RingAssumption, TypeOK, WriterInv, ReaderInv, [Next]_vars
  PROVE  TypeOK'
  <1>1. ASSUME NEW data \in Seq(Items), WriteBegin(data) PROVE TypeOK'
    BY <1>1, WriteBegins DEF WriteBegin, TypeOK
  <1>2. CASE WriteEnd
    <2>1. writing.at \in Slots /\ writing.data \in Seq(Items) /\ Len(writing.data) \in Nat
      BY DEF TypeOK
    <2>2. Len(writing.data) <= Capacity
      BY <1>2, <2>1, Room, Sizes DEF WriterInv, WriteEnd
    <2>3. writePos' \in Slots
      BY <1>2, <2>1, <2>2, GoingRound DEF WriteEnd
    <2>4. \A i \in Slots : Distance(writing.at, i) \in Nat
      BY <2>1, DistanceIs
    <2>5. slots' \in [Slots -> Items]
      BY <1>2, <2>1, <2>4 DEF WriteEnd, TypeOK
    <2>6. writing' \in [at : Slots, data : Seq(Items)]
      BY <1>2, Sizes DEF WriteEnd, NoWrite
    <2> QED BY <1>2, <2>3, <2>5, <2>6 DEF WriteEnd, TypeOK
  <1>3. ASSUME NEW k \in Nat, ReadBegin(k) PROVE TypeOK'
    BY <1>3, ReadBegins, Sizes DEF ReadBegin, TypeOK
  <1>4. CASE ReadEnd
    <2>1. reading.at \in Slots /\ reading.n \in Nat /\ reading.n <= Capacity
      BY Sizes DEF TypeOK
    <2>2. readPos' \in Slots
      BY <1>4, <2>1, GoingRound DEF ReadEnd
    <2>3. reading' \in [at : Slots, n : 0 .. Size]
      BY <1>4, Sizes DEF ReadEnd, NoRead
    <2> QED BY <1>4, <2>2, <2>3 DEF ReadEnd, TypeOK
  <1>5. CASE Clear
    BY <1>5, Sizes DEF Clear, TypeOK
  <1>6. CASE UNCHANGED vars
    BY <1>6 DEF vars, TypeOK
  <1> QED BY <1>1, <1>2, <1>3, <1>4, <1>5, <1>6 DEF Next

LEMMA WriterStep ==
  ASSUME RingAssumption, TypeOK, WriterInv, ReaderInv, [Next]_vars
  PROVE  WriterInv'
  <1>0. Len(writing.data) \in Nat /\ AvailableWrite \in Nat
    BY Room, Sizes DEF TypeOK
  <1>1. ASSUME NEW data \in Seq(Items), WriteBegin(data) PROVE WriterInv'
    <2>1. AvailableWrite' = AvailableWrite /\ writePos' = writePos
      BY <1>1 DEF WriteBegin, AvailableWrite
    <2>2. writing'.at = writePos /\ Len(writing'.data) <= AvailableWrite
      BY <1>1, WriteBegins
    <2> QED BY <2>1, <2>2 DEF WriterInv
  <1>2. CASE WriteEnd
    BY <1>2 DEF WriteEnd, WriterInv, NoWrite
  <1>3. ASSUME NEW k \in Nat, ReadBegin(k) PROVE WriterInv'
    <2>1. AvailableRead > 0
      BY <1>3, ReadBegins, Room
    <2>2. ~(readPos = 0 /\ writePos = 0)
      BY <2>1 DEF AvailableRead, Distance
    <2> QED BY <1>3, <2>2 DEF ReadBegin, WriterInv, AvailableWrite
  <1>4. CASE ReadEnd
    <2>1. reading.n \in Nat /\ reading.at = readPos /\ reading.n <= AvailableRead
      BY <1>4, Sizes DEF ReadEnd, ReaderInv, TypeOK
    <2>2. AvailableRead' = AvailableRead - reading.n
      BY <1>4, <2>1, Room, Towards DEF ReadEnd, AvailableRead
    <2>3. AvailableWrite' = Size - AvailableRead'
      <3>1. readPos' \in Slots /\ writePos' \in Slots
        BY TypeStep DEF TypeOK
      <3> QED BY <3>1, Halves DEF AvailableRead, AvailableWrite
    <2>4. AvailableWrite' >= AvailableWrite /\ AvailableWrite' \in Int
      BY <2>1, <2>2, <2>3, Room, Sizes
    <2>5. UNCHANGED <<writing, writePos>> /\ reading.n > 0
      BY <1>4 DEF ReadEnd
    <2> QED BY <1>0, <2>4, <2>5 DEF WriterInv
  <1>5. CASE Clear
    <2>1. writing.data # <<>> => Len(writing.data) <= Size
      BY Room, Sizes DEF WriterInv
    <2> QED BY <1>5, <2>1 DEF Clear, WriterInv
  <1>6. CASE UNCHANGED vars
    BY <1>6 DEF vars, WriterInv, AvailableWrite
  <1> QED BY <1>1, <1>2, <1>3, <1>4, <1>5, <1>6 DEF Next

LEMMA ReaderStep ==
  ASSUME RingAssumption, TypeOK, WriterInv, ReaderInv, [Next]_vars
  PROVE  ReaderInv'
  <1>1. ASSUME NEW data \in Seq(Items), WriteBegin(data) PROVE ReaderInv'
    BY <1>1 DEF WriteBegin, ReaderInv, AvailableRead
  <1>2. CASE WriteEnd
    <2> SUFFICES ASSUME reading.n > 0 PROVE ReaderInv'
      BY <1>2 DEF WriteEnd, ReaderInv
    <2>1. writing.at = writePos /\ Len(writing.data) <= AvailableWrite
      BY <1>2, Sizes DEF WriteEnd, WriterInv
    <2>2. Len(writing.data) \in Nat /\ reading.n \in Nat
      BY Sizes DEF TypeOK
    <2>3. AvailableRead' = AvailableRead + Len(writing.data)
      BY <1>2, <2>1, <2>2, Room, Away DEF WriteEnd, AvailableRead
    <2> QED BY <1>2, <2>2, <2>3, Room DEF WriteEnd, ReaderInv
  <1>3. ASSUME NEW k \in Nat, ReadBegin(k) PROVE ReaderInv'
    <2>1. AvailableRead' = AvailableRead /\ readPos' = readPos
      BY <1>3 DEF ReadBegin, AvailableRead
    <2>2. reading'.at = readPos /\ reading'.n <= AvailableRead
      BY <1>3, ReadBegins
    <2> QED BY <2>1, <2>2 DEF ReaderInv
  <1>4. CASE ReadEnd
    BY <1>4 DEF ReadEnd, ReaderInv, NoRead
  <1>5. CASE Clear
    BY <1>5 DEF Clear, ReaderInv
  <1>6. CASE UNCHANGED vars
    BY <1>6 DEF vars, ReaderInv, AvailableRead
  <1> QED BY <1>1, <1>2, <1>3, <1>4, <1>5, <1>6 DEF Next

(* Together: a write under way fits or has been overtaken by a clear, and   *)
(* what is being read is at the front of what there is.                     *)
THEOREM Invariance == ASSUME RingAssumption PROVE Spec => []IInv
  <1>1. Init => IInv
    BY Sizes DEF RingAssumption, Init, IInv, TypeOK, WriterInv, ReaderInv, NoWrite, NoRead
  <1>2. IInv /\ [Next]_vars => IInv'
    BY TypeStep, WriterStep, ReaderStep DEF IInv
  <1> QED BY <1>1, <1>2, PTL DEF Spec

-----------------------------------------------------------------------------
(* The two threads keep apart. *)

LEMMA Apart == ASSUME RingAssumption, IInv PROVE NoSharedSlot
  <1> SUFFICES ASSUME NEW i \in Slots,
                      Distance(writing.at, i) < Len(writing.data),
                      Distance(reading.at, i) < reading.n
               PROVE  FALSE
    BY DEF NoSharedSlot
  <1>1. /\ writing.at \in Slots /\ Len(writing.data) \in Nat
        /\ reading.at \in Slots /\ reading.n \in Nat /\ TypeOK
    BY Sizes DEF IInv, TypeOK
  <1>2. reading.n > 0 /\ Len(writing.data) > 0
    <2>1. Distance(writing.at, i) \in Nat /\ Distance(reading.at, i) \in Nat
      BY <1>1, DistanceIs
    <2> QED BY <1>1, <2>1
  <1>3. reading.at = readPos /\ reading.n <= AvailableRead
    BY <1>2 DEF IInv, ReaderInv
  <1>4. writing.at = writePos /\ Len(writing.data) <= AvailableWrite
    BY <1>2 DEF IInv, WriterInv
  <1>5. Len(writing.data) <= Size - Distance(readPos, writePos)
    BY <1>1, <1>4, Room DEF AvailableRead
  <1>6. /\ Distance(writePos, i) < Size - Distance(readPos, writePos)
        /\ Distance(readPos, i) < Distance(readPos, writePos)
    <2>1. /\ Distance(writePos, i) \in Nat /\ Distance(readPos, i) \in Nat
          /\ Distance(readPos, writePos) \in Nat /\ Size \in Nat
      BY <1>1, <1>3, <1>4, DistanceIs, Sizes
    <2> QED BY <1>1, <1>3, <1>4, <1>5, <2>1 DEF AvailableRead
  <1>7. /\ readPos \in Nat /\ readPos <= Size /\ writePos \in Nat /\ writePos <= Size
        /\ i \in Nat /\ i <= Size /\ Size \in Nat /\ Capacity = Size + 1
    BY <1>1, Room, Sizes
  <1> QED BY <1>6, <1>7 DEF Distance

(* For every size, the decoder and the callback never copy to and from the  *)
(* same slot, although neither waits for the other.                         *)
THEOREM SlotsApart == ASSUME RingAssumption PROVE Spec => []NoSharedSlot
  <1>1. IInv => NoSharedSlot
    BY Apart
  <1> QED BY <1>1, Invariance, PTL

-----------------------------------------------------------------------------
(* What is before the reader, item by item. *)

(* The slot that lies j on from another.                                    *)
LEMMA Ahead ==
  ASSUME RingAssumption, NEW r \in Slots, NEW w \in Slots, NEW j \in Nat, j <= Size
  PROVE  /\ (r + j) % Capacity \in Slots
         /\ j >= Distance(r, w) => Distance(w, (r + j) % Capacity) = j - Distance(r, w)
         /\ j < Distance(r, w) => Distance(w, (r + j) % Capacity) >= Capacity - Distance(r, w)
  <1>1. /\ r \in Nat /\ r <= Size /\ w \in Nat /\ w <= Size
        /\ Size \in Nat /\ Capacity = Size + 1
    BY Sizes
  <1>2. j <= Capacity
    BY <1>1
  <1>3. /\ (r + j) % Capacity = IF r + j < Capacity THEN r + j ELSE r + j - Capacity
        /\ (r + j) % Capacity \in Slots
    BY <1>2, GoingRound
  <1> QED BY <1>1, <1>3 DEF Distance

LEMMA Further ==
  ASSUME RingAssumption, NEW r \in Slots, NEW n \in Nat, NEW j \in Nat, n + j <= Size
  PROVE  (((r + n) % Capacity) + j) % Capacity = (r + (n + j)) % Capacity
  <1>1. /\ r \in Nat /\ r <= Size /\ Size \in Nat /\ Capacity = Size + 1
    BY Sizes
  <1>2. n <= Capacity /\ j <= Capacity /\ n + j <= Capacity /\ n + j \in Nat
    BY <1>1
  <1>3. /\ (r + n) % Capacity = IF r + n < Capacity THEN r + n ELSE r + n - Capacity
        /\ (r + n) % Capacity \in Slots
    BY <1>2, GoingRound
  <1>4. (((r + n) % Capacity) + j) % Capacity
          = IF ((r + n) % Capacity) + j < Capacity THEN ((r + n) % Capacity) + j
                                                 ELSE ((r + n) % Capacity) + j - Capacity
    BY <1>2, <1>3, GoingRound
  <1>5. (r + (n + j)) % Capacity
          = IF r + (n + j) < Capacity THEN r + (n + j) ELSE r + (n + j) - Capacity
    BY <1>2, GoingRound
  <1> QED BY <1>1, <1>3, <1>4, <1>5

\* The items in n slots from one on, whatever is in the slots.
From(f, r, n) == [i \in 1 .. n |-> f[(r + i - 1) % Capacity]]

LEMMA ItemsAre ==
  ASSUME RingAssumption, NEW f \in [Slots -> Items], NEW r \in Slots,
         NEW n \in Nat, n <= Size
  PROVE  /\ From(f, r, n) \in Seq(Items) /\ Len(From(f, r, n)) = n
         /\ \A i \in 1 .. n : From(f, r, n)[i] = f[(r + (i - 1)) % Capacity]
  <1>1. r \in Nat /\ Size \in Nat
    BY Sizes
  <1>2. ASSUME NEW i \in 1 .. n
        PROVE  /\ (r + i - 1) % Capacity = (r + (i - 1)) % Capacity
               /\ f[(r + i - 1) % Capacity] \in Items
    <2>1. r + i - 1 = r + (i - 1) /\ i - 1 \in Nat /\ i - 1 <= Size
      BY <1>1
    <2>2. (r + (i - 1)) % Capacity \in Slots
      BY <2>1, Ahead
    <2> QED BY <2>1, <2>2
  <1> QED BY <1>1, <1>2 DEF From

LEMMA ContentsAre ==
  ASSUME RingAssumption, TypeOK
  PROVE  /\ Contents \in Seq(Items) /\ Len(Contents) = AvailableRead
         /\ \A i \in 1 .. AvailableRead : Contents[i] = slots[(readPos + (i - 1)) % Capacity]
  <1>1. slots \in [Slots -> Items] /\ readPos \in Slots
    BY DEF TypeOK
  <1>2. AvailableRead \in Nat /\ AvailableRead <= Size
    BY Room
  <1>3. Contents = From(slots, readPos, AvailableRead)
    BY DEF Contents, ItemsFrom, From
  <1> QED BY <1>1, <1>2, <1>3, ItemsAre

LEMMA ContentsThen ==
  ASSUME RingAssumption, TypeOK'
  PROVE  /\ Contents' \in Seq(Items) /\ Len(Contents') = AvailableRead'
         /\ AvailableRead' \in Nat /\ AvailableRead' <= Size
         /\ \A i \in 1 .. AvailableRead' :
              Contents'[i] = slots'[(readPos' + (i - 1)) % Capacity]
  <1>1. slots' \in [Slots -> Items] /\ readPos' \in Slots /\ writePos' \in Slots
    BY DEF TypeOK
  <1>2. AvailableRead' \in Nat /\ AvailableRead' <= Size
    BY <1>1, DistanceIs DEF AvailableRead
  <1>3. Contents' = From(slots', readPos', AvailableRead')
    BY DEF Contents, ItemsFrom, From
  <1> QED BY <1>1, <1>2, <1>3, ItemsAre

(* A write that no clear has overtaken adds what it has copied at the end.  *)
LEMMA WriteAppends ==
  ASSUME RingAssumption, IInv, WriteEnd, writing.at = writePos, TypeOK'
  PROVE  Contents' = Contents \o writing.data
  <1> DEFINE n == Len(writing.data)
             d == AvailableRead
  <1>1. /\ writing.data \in Seq(Items) /\ n \in Nat /\ Size \in Nat
        /\ Capacity = Size + 1 /\ d \in Nat /\ d <= Size
        /\ readPos \in Slots /\ writePos \in Slots /\ d = Distance(readPos, writePos)
    BY Room, Sizes DEF IInv, TypeOK, AvailableRead
  <1>2. n <= Size - d
    <2>1. writing.data # <<>>
      BY DEF WriteEnd
    <2>2. readPos = 0 /\ writePos = 0 => d = 0
      BY DEF AvailableRead, Distance
    <2> QED BY <1>1, <2>1, <2>2, Room DEF IInv, WriterInv
  <1>3. AvailableRead' = d + n
    BY <1>1, <1>2, Away DEF WriteEnd, AvailableRead
  <1>4. /\ Contents \o writing.data \in Seq(Items)
        /\ Len(Contents \o writing.data) = d + n
        /\ \A i \in 1 .. d + n : (Contents \o writing.data)[i]
             = IF i <= d THEN Contents[i] ELSE writing.data[i - d]
    <2>1. Contents \in Seq(Items) /\ Len(Contents) = d
      BY ContentsAre DEF IInv
    <2>2. /\ Contents \o writing.data \in Seq(Items)
          /\ Len(Contents \o writing.data) = Len(Contents) + Len(writing.data)
          /\ \A i \in 1 .. Len(Contents) + Len(writing.data) :
               (Contents \o writing.data)[i]
                 = IF i <= Len(Contents) THEN Contents[i]
                                         ELSE writing.data[i - Len(Contents)]
      <3> HIDE DEF n, d
      <3> QED BY <1>1, <2>1, ConcatProperties
    <2> QED BY <2>1, <2>2
  <1>5. ASSUME NEW i \in 1 .. d + n
        PROVE  Contents'[i] = (Contents \o writing.data)[i]
    <2> DEFINE at == (readPos + (i - 1)) % Capacity
    <2>1. i - 1 \in Nat /\ i - 1 <= Size
      BY <1>1, <1>2
    <2>2. /\ at \in Slots
          /\ i - 1 >= d => Distance(writePos, at) = i - 1 - d
          /\ i - 1 < d => Distance(writePos, at) >= Capacity - d
      BY <1>1, <2>1, Ahead
    <2>3. Contents'[i] = slots'[at]
      BY <1>3, ContentsThen DEF WriteEnd
    <2> HIDE DEF at
    <2>4. slots'[at] = IF Distance(writePos, at) < n
                         THEN writing.data[Distance(writePos, at) + 1] ELSE slots[at]
      BY <2>2 DEF WriteEnd
    <2>5. CASE i <= d
      <3>1. ~(Distance(writePos, at) < n)
        <4>1. Distance(writePos, at) \in Nat
          BY <1>1, <2>2, DistanceIs
        <4> QED BY <1>1, <1>2, <2>2, <2>5, <4>1
      <3>2. Contents[i] = slots[at]
        BY <1>1, <2>5, ContentsAre DEF IInv, at
      <3> QED BY <1>4, <2>3, <2>4, <2>5, <3>1, <3>2
    <2>6. CASE i > d
      <3>1. Distance(writePos, at) = i - 1 - d
        BY <1>1, <2>2, <2>6
      <3>2. Distance(writePos, at) < n /\ Distance(writePos, at) + 1 = i - d
        BY <1>1, <3>1
      <3> QED BY <1>1, <1>4, <2>3, <2>4, <2>6, <3>2
    <2>7. i <= d \/ i > d
      BY <1>1
    <2> QED BY <2>5, <2>6, <2>7
  <1>6. Contents' \in Seq(Items) /\ Len(Contents') = d + n
    BY <1>3, ContentsThen
  <1> QED BY <1>4, <1>5, <1>6, SeqEqual

(* A read takes what it has copied from the front.                          *)
LEMMA ReadTakes ==
  ASSUME RingAssumption, IInv, ReadEnd, TypeOK'
  PROVE  /\ reading.n \in 1 .. Len(Contents)
         /\ Contents' = SubSeq(Contents, reading.n + 1, Len(Contents))
  <1> DEFINE n == reading.n
             d == AvailableRead
  <1>1. /\ n \in Nat /\ n > 0 /\ reading.at = readPos /\ n <= d /\ Size \in Nat
        /\ d \in Nat /\ d <= Size /\ Len(Contents) = d /\ Contents \in Seq(Items)
        /\ readPos \in Slots /\ writePos \in Slots /\ d = Distance(readPos, writePos)
    <2>1. reading.n \in 0 .. Size /\ reading.n > 0 /\ TypeOK
      BY DEF IInv, TypeOK, ReadEnd
    <2>2. reading.at = readPos /\ reading.n <= AvailableRead
      BY <2>1 DEF IInv, ReaderInv
    <2>3. Len(Contents) = AvailableRead /\ Contents \in Seq(Items)
      BY <2>1, ContentsAre
    <2>4. AvailableRead = Distance(readPos, writePos)
      BY DEF AvailableRead
    <2> QED BY <2>1, <2>2, <2>3, <2>4, Room, Sizes
  <1>2. AvailableRead' = d - n
    BY <1>1, Towards DEF ReadEnd, AvailableRead
  <1>3. /\ SubSeq(Contents, n + 1, d) \in Seq(Items)
        /\ Len(SubSeq(Contents, n + 1, d)) = d - n
        /\ \A i \in 1 .. d - n : SubSeq(Contents, n + 1, d)[i] = Contents[n + i]
    BY <1>1
  <1>4. ASSUME NEW i \in 1 .. d - n
        PROVE  Contents'[i] = SubSeq(Contents, n + 1, d)[i]
    <2>1. /\ i - 1 \in Nat /\ n + (i - 1) <= Size /\ n + i \in 1 .. d
          /\ n + (i - 1) = n + i - 1 /\ (n + i) - 1 = n + (i - 1)
      BY <1>1
    <2>2. Contents'[i] = slots[(((readPos + n) % Capacity) + (i - 1)) % Capacity]
      BY <1>1, <1>2, ContentsThen DEF ReadEnd
    <2>3. Contents[n + i] = slots[(readPos + (n + (i - 1))) % Capacity]
      BY <1>1, <2>1, ContentsAre DEF IInv
    <2>4. (((readPos + n) % Capacity) + (i - 1)) % Capacity = (readPos + (n + (i - 1))) % Capacity
      BY <1>1, <2>1, Further
    <2> QED BY <1>3, <2>2, <2>3, <2>4
  <1>5. Contents' \in Seq(Items) /\ Len(Contents') = d - n
    BY <1>2, ContentsThen
  <1>6. Contents' = SubSeq(Contents, n + 1, d)
    BY <1>3, <1>4, <1>5, SeqEqual
  <1> QED BY <1>1, <1>6

-----------------------------------------------------------------------------
(* The refinement. *)

LEMMA QueueInit == ASSUME RingAssumption, Init PROVE Queue!Init
  <1>1. TypeOK
    BY Sizes DEF RingAssumption, Init, TypeOK, NoWrite, NoRead
  <1>2. AvailableRead = 0
    BY DEF Init, AvailableRead, Distance
  <1>3. Contents = <<>>
    BY <1>1, <1>2, ContentsAre, EmptySeq
  <1> QED BY <1>3 DEF Init, NoWrite, Queue!Init

LEMMA QueueStep ==
  ASSUME RingAssumption, IInv, [Next]_vars, TypeOK'
  PROVE  [Queue!Next]_(Queue!vars)
  <1> USE DEF Queue!Next, Queue!vars
  <1>0. TypeOK
    BY DEF IInv
  <1>1. ASSUME NEW data \in Seq(Items), WriteBegin(data) PROVE Queue!Start
    <2>1. PICK n \in 1 .. Len(data) :
            /\ n <= AvailableWrite
            /\ writing' = [at |-> writePos, data |-> SubSeq(data, 1, n)]
            /\ SubSeq(data, 1, n) \in Seq(Items) /\ Len(SubSeq(data, 1, n)) = n
      BY <1>0, <1>1, WriteBegins
    <2>2. writing'.data \in Seq(Items) /\ writing'.data # <<>> /\ Len(writing'.data) = n
      BY <2>1
    <2>3. Contents' = Contents
      BY <1>1 DEF WriteBegin, Contents, ItemsFrom, AvailableRead
    <2>4. Len(Contents) + Len(writing'.data) <= Size
      BY <1>0, <2>1, <2>2, Room, ContentsAre, Sizes
    <2>5. writing.data = <<>> /\ writing'.at = writePos'
      BY <1>1, <2>1 DEF WriteBegin
    <2> QED BY <2>2, <2>3, <2>4, <2>5 DEF Queue!Start
  <1>2. CASE WriteEnd /\ writing.at = writePos
    <2>1. Contents' = Contents \o writing.data
      BY <1>2, WriteAppends
    <2>2. Queue!Put
      BY <1>2, <2>1 DEF WriteEnd, NoWrite, Queue!Put
    <2> QED BY <2>2
  <1>3. CASE WriteEnd /\ writing.at # writePos
    <2>1. Contents' \in Seq(Items) /\ Len(Contents') <= Size
      BY ContentsThen
    <2>2. Queue!PutSpoilt
      BY <1>3, <2>1 DEF WriteEnd, NoWrite, Queue!PutSpoilt
    <2> QED BY <2>2
  <1>4. ASSUME NEW k \in Nat, ReadBegin(k) PROVE UNCHANGED Queue!vars
    BY <1>4 DEF ReadBegin, Contents, ItemsFrom, AvailableRead
  <1>5. CASE ReadEnd
    <2>1. Queue!Get
      BY <1>5, ReadTakes DEF ReadEnd, Queue!Get
    <2> QED BY <2>1
  <1>6. CASE Clear
    <2>1. AvailableRead' = 0
      BY <1>6 DEF Clear, AvailableRead, Distance
    <2>2. Contents' = <<>>
      BY <2>1, ContentsThen, EmptySeq
    <2>3. Queue!Clear
      BY <1>6, <2>2 DEF Clear, Queue!Clear
    <2> QED BY <2>3
  <1>7. CASE UNCHANGED vars
    BY <1>7 DEF vars, Contents, ItemsFrom, AvailableRead
  <1> QED BY <1>1, <1>2, <1>3, <1>4, <1>5, <1>6, <1>7 DEF Next

(* The buffer, in which both threads copy outside any lock, is a bounded    *)
(* queue to the threads at its ends: what is written is read in order, each *)
(* item once, for every size and every split into writes and reads; only a  *)
(* clear in the middle of a write may leave something else behind.          *)
THEOREM RingImplementsQueue == ASSUME RingAssumption PROVE Spec => IsPcmQueue
  <1>1. Init => Queue!Init
    BY QueueInit
  <1>2. IInv /\ [Next]_vars /\ IInv' => [Queue!Next]_(Queue!vars)
    BY QueueStep DEF IInv
  <1> QED BY <1>1, <1>2, Invariance, PTL DEF Spec, IsPcmQueue, Queue!Spec
================================================================================
