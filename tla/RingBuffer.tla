------------------------------ MODULE RingBuffer ------------------------------
(***************************************************************************)
(* utils/buffer/RingBuffer: the lock-free buffer between the thread that    *)
(* decodes and the audio callback.  One item stands for as many bytes as    *)
(* the threads always move together.                                        *)
(*                                                                         *)
(* Write and Read load both positions, copy outside any lock and then       *)
(* publish their own position; each is a step that loads and a step that    *)
(* has copied and publishes.  Clear sets both positions and may come from a *)
(* third thread: its callers hold the mutex the callback reads under, but   *)
(* nothing keeps the writer out.                                            *)
(***************************************************************************)
EXTENDS Integers, Sequences

CONSTANTS
  Items,    \* what is written
  Silence,  \* what a slot holds before that
  Size      \* what Init is called with

\* What the constants have to be; who instantiates the module assumes it.
RingAssumption == Size \in Nat \ {0} /\ Silence \in Items

Capacity == Size + 1
Slots == 0 .. Size

VARIABLES
  slots,     \* m_buffer
  readPos,   \* m_readPos
  writePos,  \* m_writePos
  writing,   \* what the Write under way copies, and to where
  reading    \* how much the Read under way copies, and from where

vars == <<slots, readPos, writePos, writing, reading>>

NoWrite == [at |-> 0, data |-> <<>>]
NoRead == [at |-> 0, n |-> 0]

Init == /\ slots = [i \in Slots |-> Silence]
        /\ readPos = 0 /\ writePos = 0
        /\ writing = NoWrite /\ reading = NoRead

\* Slots from one position to another, going round.
Distance(from, to) == IF to >= from THEN to - from ELSE Capacity - from + to

AvailableRead == Distance(readPos, writePos)

\* Mutant: no slot is kept free to tell full from empty.
AvailableWriteMutant == IF writePos >= readPos
                          THEN Capacity - (writePos - readPos)
                          ELSE readPos - writePos

AvailableWrite == IF writePos >= readPos
                    THEN Capacity - 1 - (writePos - readPos)
                    ELSE readPos - writePos - 1

Least(a, b) == IF a <= b THEN a ELSE b

WriteBegin(data) ==
  /\ writing.data = <<>>
  /\ LET n == Least(Len(data), AvailableWrite)
     IN /\ n > 0
        /\ writing' = [at |-> writePos, data |-> SubSeq(data, 1, n)]
  /\ UNCHANGED <<slots, readPos, writePos, reading>>

\* Mutant: the position goes round one slot too early.
WriteEndMutant ==
  /\ writing.data # <<>>
  /\ slots' = [i \in Slots |->
                 IF Distance(writing.at, i) < Len(writing.data)
                   THEN writing.data[Distance(writing.at, i) + 1]
                   ELSE slots[i]]
  /\ writePos' = (writing.at + Len(writing.data)) % Size
  /\ writing' = NoWrite
  /\ UNCHANGED <<readPos, reading>>

\* The copy goes on at the first slot when it has reached the last.
WriteEnd ==
  /\ writing.data # <<>>
  /\ slots' = [i \in Slots |->
                 IF Distance(writing.at, i) < Len(writing.data)
                   THEN writing.data[Distance(writing.at, i) + 1]
                   ELSE slots[i]]
  /\ writePos' = (writing.at + Len(writing.data)) % Capacity
  /\ writing' = NoWrite
  /\ UNCHANGED <<readPos, reading>>

ReadBegin(k) ==
  /\ reading.n = 0
  /\ LET n == Least(k, AvailableRead)
     IN n > 0 /\ reading' = [at |-> readPos, n |-> n]
  /\ UNCHANGED <<slots, readPos, writePos, writing>>

\* n items from a position on.
ItemsFrom(p, n) == [i \in 1 .. n |-> slots[(p + i - 1) % Capacity]]

\* What the Read under way hands out.
Copied == ItemsFrom(reading.at, reading.n)

ReadEnd ==
  /\ reading.n > 0
  /\ readPos' = (reading.at + reading.n) % Capacity
  /\ reading' = NoRead
  /\ UNCHANGED <<slots, writePos, writing>>

Clear ==
  /\ reading.n = 0
  /\ readPos' = 0 /\ writePos' = 0
  /\ UNCHANGED <<slots, writing, reading>>

Next == \/ \E data \in Seq(Items) : WriteBegin(data)
        \/ WriteEnd
        \/ \E k \in Nat : ReadBegin(k)
        \/ ReadEnd
        \/ Clear

Spec == Init /\ [][Next]_vars

-----------------------------------------------------------------------------
(* What makes the buffer correct. *)

(* The types of the members and of what the two threads have loaded.        *)
TypeOK ==
  /\ slots \in [Slots -> Items]
  /\ readPos \in Slots /\ writePos \in Slots
  /\ writing \in [at : Slots, data : Seq(Items)]
  /\ reading \in [at : Slots, n : 0 .. Size]

(* The two threads, which copy without a lock, never touch the same slot,   *)
(* also when a clear comes between what one of them loads and publishes.    *)
NoSharedSlot ==
  \A i \in Slots : ~ /\ Distance(writing.at, i) < Len(writing.data)
                     /\ Distance(reading.at, i) < reading.n

\* What the reader has before it.
Contents == ItemsFrom(readPos, AvailableRead)

(* To its two ends the buffer is a queue.                                   *)
Queue == INSTANCE PcmQueue WITH
           queue <- Contents,
           pending <- writing.data,
           spoilt <- writing.data # <<>> /\ writing.at # writePos
IsPcmQueue == Queue!Spec

-----------------------------------------------------------------------------
(* Why this holds. *)

\* A write under way fits behind what is in the buffer, unless it has been
\* overtaken by a clear; then there is nothing to read until it is done.
WriterInv ==
  writing.data # <<>> =>
    \/ writing.at = writePos /\ Len(writing.data) <= AvailableWrite
    \/ readPos = 0 /\ writePos = 0 /\ reading.n = 0 /\ Len(writing.data) <= Size

\* What is being read is at the front of what is in the buffer.
ReaderInv ==
  reading.n > 0 => reading.at = readPos /\ reading.n <= AvailableRead

IInv == TypeOK /\ WriterInv /\ ReaderInv
===============================================================================
