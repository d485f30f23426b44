-------------------------------- MODULE RingQueue --------------------------------
(* Queue<T>, the growing ring buffer behind the job and message queues of the  *)
(* program. Its users hold their own lock around every call, so a call is one  *)
(* step.  The n-th item pushed is labelled n; fresh memory is zero.            *)
EXTENDS Integers, Sequences, FiniteSets

CONSTANTS
    Granularity,    \* capacity of the first allocation
    MaxItems,       \* bound: how many items its user lets accumulate
    MaxPushes       \* bound: calls of Push

ASSUME SizeAssumption ==
    Granularity \in Nat /\ Granularity > 1 /\ MaxItems \in Nat /\ MaxPushes \in Nat

VARIABLES
    memory,      \* the cells, 0 .. capacity - 1
    mIn,         \* write index
    mOut,        \* read index
    count,       \* how much was pushed
    result       \* what the last Pop returned

vars == <<memory, mIn, mOut, count, result>>

Cells(capacity) == 0 .. capacity - 1

Init ==
    /\ memory = [c \in Cells(0) |-> 0]
    /\ mIn = 0 /\ mOut = 0
    /\ count = 0 /\ result = 0

Capacity(mem) == Cardinality(DOMAIN mem)

Inc(value, capacity) == IF value + 1 >= capacity THEN 0 ELSE value + 1

FreeSpace == mOut - mIn + (IF mOut <= mIn THEN Capacity(memory) ELSE 0)

Count == Capacity(memory) - FreeSpace

Empty == mIn = mOut

(* Resize to twice the capacity; the added memory is cleared. *)
Larger == IF Capacity(memory) = 0 THEN Granularity ELSE 2 * Capacity(memory)

Split == mIn < mOut /\ mIn # 0

(* Mutant: the lower part of a split queue stays where it was. *)
GrownInPlace == [c \in Cells(Larger) |-> IF c \in DOMAIN memory THEN memory[c] ELSE 0]

(* Grow: the lower part of a split queue moves to the top.                     *)
Grown == [c \in Cells(Larger) |->
            IF c \in DOMAIN memory THEN memory[c]
            ELSE IF Split /\ c < Capacity(memory) + mIn THEN memory[c - Capacity(memory)]
            ELSE 0]

GrownIn == IF Split THEN mIn + Capacity(memory) ELSE mIn

Store(mem, index) ==
    /\ memory' = [mem EXCEPT ![index] = count + 1]
    /\ mIn' = Inc(index, Capacity(mem))

Push ==
    /\ count < MaxPushes /\ Count < MaxItems
    /\ \/ FreeSpace < 2 /\ Store(Grown, GrownIn)
       \/ FreeSpace >= 2 /\ Store(memory, mIn)
    /\ count' = count + 1
    /\ UNCHANGED <<mOut, result>>

(* Mutant: the read index does not move on. *)
PopStays ==
    /\ ~Empty
    /\ result' = memory[mOut]
    /\ UNCHANGED <<memory, mIn, mOut, count>>

(* Every caller tests Empty first. *)
Pop ==
    /\ ~Empty
    /\ result' = memory[mOut]
    /\ mOut' = Inc(mOut, Capacity(memory))
    /\ UNCHANGED <<memory, mIn, count>>

Clear ==
    /\ mIn' = 0 /\ mOut' = 0
    /\ UNCHANGED <<memory, count, result>>

Next == Push \/ Pop \/ Clear

Spec == Init /\ [][Next]_vars

--------------------------------------------------------------------------------
(* The indices stay inside the memory. *)
TypeOK ==
    /\ count \in 0 .. MaxPushes /\ result \in 0 .. MaxPushes
    /\ \A c \in DOMAIN memory : memory[c] \in 0 .. MaxPushes
    /\ mIn \in DOMAIN memory \cup {0}
    /\ mOut \in DOMAIN memory \cup {0}

(* What the queue holds, oldest first. *)
Contents == [i \in 1 .. Count |-> memory[(mOut + i - 1) % Capacity(memory)]]

(* Through growing, wrapping and clearing, the indices stay inside the memory, *)
(* and what comes out was pushed, comes out once, and in the order in which it *)
(* was pushed.                                                                 *)
InOrder ==
    /\ TypeOK
    /\ \A i \in 1 .. Len(Contents) : result < Contents[i] /\ Contents[i] <= count
    /\ \A i, j \in 1 .. Len(Contents) : i < j => Contents[i] < Contents[j]

F == INSTANCE Fifo WITH items <- Contents

(* The call of Grow that Split misjudges: the content fills the array from     *)
(* place 1 to its end, so the write index has just wrapped to 0.               *)
GrowsWrapped == count' # count /\ FreeSpace < 2 /\ mOut = 1 /\ mIn = 0

(* Apart from that one call the ring buffer is a first-in first-out queue that *)
(* loses nothing, wherever its indices are when it grows.                      *)
FifoUnlessWrapped == F!Init /\ [][F!Next \/ GrowsWrapped]_(F!vars)

(* "Optimized queue with auto-expansion when necessary": a queue that loses    *)
(* nothing. Refuted: the push after GrowsWrapped empties it.                   *)
FifoSpec == F!Spec
================================================================================
