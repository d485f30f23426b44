----------------------------- MODULE RingQueueProofs -----------------------------
(* The ring buffer, for any granularity and however much is pushed.            *)
EXTENDS RingQueue, TLAPS, FiniteSetTheorems, SequenceTheorems

(* The memory is an array, and the indices are inside it.                       *)
Indices ==
    /\ Capacity(memory) \in Nat
    /\ memory \in [Cells(Capacity(memory)) -> 0 .. MaxPushes]
    /\ mIn \in Nat /\ mOut \in Nat
    /\ IF Capacity(memory) = 0 THEN mIn = 0 /\ mOut = 0
       ELSE mIn < Capacity(memory) /\ mOut < Capacity(memory)
    /\ count \in 0 .. MaxPushes /\ result \in 0 .. count

(* What is in the buffer was pushed after what came out, in its order.          *)
Ordered ==
    /\ \A i \in 1 .. Count : result < Contents[i] /\ Contents[i] <= count
    /\ \A i, j \in 1 .. Count : i < j => Contents[i] < Contents[j]

Inv == Indices /\ Ordered

--------------------------------------------------------------------------------
(* The array *)

USE SizeAssumption

LEMMA CapacityOfCells ==
    ASSUME NEW n \in Nat, NEW f, DOMAIN f = Cells(n)
    PROVE  Capacity(f) = n
<1>1. Cardinality(0 .. n - 1) = IF 0 > n - 1 THEN 0 ELSE n - 1 - 0 + 1
  BY FS_Interval
<1> QED
  BY <1>1 DEF Capacity, Cells

(* The place of the i-th item in a ring of cap cells whose read index is out.   *)
Place(out, cap, i) == IF out + i - 1 < cap THEN out + i - 1 ELSE out + i - 1 - cap

LEMMA Modulo ==
    ASSUME NEW x \in Nat, NEW cap \in Nat, cap > 0, x < 2 * cap
    PROVE  x % cap = IF x < cap THEN x ELSE x - cap
<1>1. CASE x < cap
  BY <1>1
<1>2. CASE x >= cap
  BY <1>2
<1> QED
  BY <1>1, <1>2

ContentsFacts ==
    /\ Count = IF mOut <= mIn THEN mIn - mOut ELSE Capacity(memory) - mOut + mIn
    /\ Count \in Nat /\ DOMAIN Contents = 1 .. Count
    /\ \A i \in 1 .. Count :
         /\ Contents[i] = memory[Place(mOut, Capacity(memory), i)]
         /\ Place(mOut, Capacity(memory), i) \in Cells(Capacity(memory))
         /\ Contents[i] \in 0 .. MaxPushes

LEMMA ContentsAre == Indices => ContentsFacts
<1> SUFFICES ASSUME Indices PROVE ContentsFacts
  OBVIOUS
<1> DEFINE cap == Capacity(memory)
<1>1. /\ cap \in Nat /\ mIn \in Nat /\ mOut \in Nat
      /\ (cap = 0 /\ mIn = 0 /\ mOut = 0) \/ (mIn < cap /\ mOut < cap)
  BY DEF Indices
<1>2. Count = cap - (mOut - mIn + (IF mOut <= mIn THEN cap ELSE 0))
  BY DEF Count, FreeSpace
<1>3. Contents = [i \in 1 .. Count |-> memory[(mOut + i - 1) % cap]]
  BY DEF Contents
<1>4. memory \in [Cells(cap) -> 0 .. MaxPushes]
  BY DEF Indices
<1> HIDE DEF cap
<1>5. Count = IF mOut <= mIn THEN mIn - mOut ELSE cap - mOut + mIn
  BY <1>1, <1>2
<1>6. Count \in Nat /\ (Count > 0 => cap > 0) /\ Count <= cap
  BY <1>1, <1>5
<1>7. ASSUME NEW i \in 1 .. Count
      PROVE  /\ Contents[i] = memory[Place(mOut, cap, i)] /\ Place(mOut, cap, i) \in Cells(cap)
             /\ Contents[i] \in 0 .. MaxPushes
  <2> DEFINE x == mOut + i - 1
  <2>1. x \in Nat /\ cap \in Nat /\ cap > 0 /\ x < 2 * cap
    BY <1>1, <1>6
  <2>2. Place(mOut, cap, i) = IF x < cap THEN x ELSE x - cap
    BY <1>1, <1>6 DEF Place
  <2> HIDE DEF x
  <2>3. x % cap = Place(mOut, cap, i) /\ Place(mOut, cap, i) \in Cells(cap)
    BY <2>1, <2>2, Modulo DEF Cells
  <2>4. Contents[i] = memory[x % cap]
    BY <1>3 DEF x
  <2> QED
    BY <1>4, <2>3, <2>4
<1> QED
  BY <1>3, <1>5, <1>6, <1>7 DEF cap, ContentsFacts

LEMMA ContentsAreNext == Indices' => ContentsFacts'
<1>1. (Indices => ContentsFacts)'
  BY ContentsAre, PTL
<1> QED
  BY <1>1

--------------------------------------------------------------------------------
(* What each call does to the contents                                         *)

(* The n-th item pushed goes to the end. *)
Pushed ==
    /\ count' = count + 1 /\ result' = result
    /\ Count' = Count + 1
    /\ \A i \in 1 .. Count : Contents'[i] = Contents[i]
    /\ Contents'[Count + 1] = count'

(* The oldest one comes out. *)
Popped ==
    /\ count' = count
    /\ Count > 0 /\ Count' = Count - 1
    /\ result' = Contents[1]
    /\ \A i \in 1 .. Count - 1 : Contents'[i] = Contents[i + 1]

Emptied == count' \in {count, count + 1} /\ result' = result /\ Count' = 0

LEMMA ClearShape ==
    ASSUME Indices, Clear
    PROVE  Indices' /\ Emptied /\ count' = count
<1>1. mIn' = 0 /\ mOut' = 0 /\ UNCHANGED <<memory, count, result>>
  BY DEF Clear
<1>2. Indices'
  BY <1>1 DEF Indices
<1>3. Count' = 0
  BY <1>1, <1>2, ContentsAreNext DEF ContentsFacts, Indices
<1> QED
  BY <1>1, <1>2, <1>3 DEF Emptied

LEMMA PopShape ==
    ASSUME Indices, Ordered, Pop
    PROVE  Indices' /\ Popped
<1> DEFINE cap == Capacity(memory)
<1>1. /\ mIn # mOut /\ result' = memory[mOut] /\ mOut' = Inc(mOut, cap)
      /\ UNCHANGED <<memory, mIn, count>>
  BY DEF Pop, Empty
<1>2. cap' = cap
  BY <1>1
<1>3. ContentsFacts
  BY ContentsAre
<1>4. /\ cap \in Nat /\ mIn \in Nat /\ mOut \in Nat /\ mIn < cap /\ mOut < cap
      /\ memory \in [Cells(cap) -> 0 .. MaxPushes]
      /\ count \in 0 .. MaxPushes
  BY <1>1 DEF Indices
<1>5. Count = IF mOut <= mIn THEN mIn - mOut ELSE cap - mOut + mIn
  BY <1>3 DEF ContentsFacts
<1>6. \A i \in 1 .. Count : Contents[i] = memory[Place(mOut, cap, i)]
  BY <1>3 DEF ContentsFacts
<1> HIDE DEF cap
<1>7. Count > 0 /\ Count \in Nat
  BY <1>1, <1>4, <1>5
<1>8. result' = Contents[1]
  <2>1. Place(mOut, cap, 1) = mOut
    BY <1>4 DEF Place
  <2> QED
    BY <1>1, <1>6, <1>7, <2>1
<1>9. mOut' \in Nat /\ mOut' < cap /\ mOut' = IF mOut + 1 = cap THEN 0 ELSE mOut + 1
  BY <1>1, <1>4 DEF Inc
<1>10. result' \in 0 .. count
  <2>1. Contents[1] <= count /\ Contents[1] \in 0 .. MaxPushes
    BY <1>3, <1>7 DEF Ordered, ContentsFacts
  <2> QED
    BY <1>4, <1>8, <2>1
<1>11. Indices'
  <2>1. cap' = Capacity(memory')
    BY DEF cap
  <2>2. /\ cap' = cap /\ memory' \in [Cells(cap') -> 0 .. MaxPushes] /\ mIn' = mIn /\ count' = count
    BY <1>1, <1>2, <1>4
  <2>3. mIn' < cap' /\ mOut' < cap' /\ cap' # 0
    BY <1>4, <1>9, <2>2
  <2> QED
    BY <1>4, <1>9, <1>10, <2>1, <2>2, <2>3 DEF Indices
<1>12. /\ Count' = IF mOut' <= mIn THEN mIn - mOut' ELSE cap - mOut' + mIn
       /\ \A i \in 1 .. Count' : Contents'[i] = memory[Place(mOut', cap, i)]
  <2>1. ContentsFacts'
    BY <1>11, ContentsAreNext
  <2> QED
    BY <1>1, <1>2, <2>1 DEF ContentsFacts, cap
<1>13. Count' = Count - 1
  BY <1>1, <1>4, <1>5, <1>9, <1>12
<1>14. ASSUME NEW i \in 1 .. Count - 1
       PROVE  Contents'[i] = Contents[i + 1]
  <2>1. Place(mOut', cap, i) = Place(mOut, cap, i + 1)
    <3>1. i \in Nat /\ i > 0 /\ i < cap
      BY <1>4, <1>5, <1>7
    <3> QED
      BY <1>4, <1>9, <3>1 DEF Place
  <2>2. i \in 1 .. Count' /\ i + 1 \in 1 .. Count
    BY <1>7, <1>13
  <2> QED
    BY <1>6, <1>12, <2>1, <2>2
<1> QED
  BY <1>1, <1>7, <1>8, <1>11, <1>13, <1>14 DEF Popped

(* Push, where the item fits: the write index does not catch up.               *)
LEMMA PushFits ==
    ASSUME Indices, FreeSpace >= 2, count < MaxPushes, Store(memory, mIn),
           count' = count + 1, UNCHANGED <<mOut, result>>
    PROVE  Indices' /\ Pushed
<1> DEFINE cap == Capacity(memory)
<1>1. memory' = [memory EXCEPT ![mIn] = count + 1] /\ mIn' = Inc(mIn, cap)
  BY DEF Store
<1>2. /\ cap \in Nat /\ mIn \in Nat /\ mOut \in Nat /\ count \in 0 .. MaxPushes
      /\ result \in 0 .. count /\ memory \in [Cells(cap) -> 0 .. MaxPushes]
      /\ (cap = 0 /\ mIn = 0 /\ mOut = 0) \/ (mIn < cap /\ mOut < cap)
  BY DEF Indices
<1>3. mOut - mIn + (IF mOut <= mIn THEN cap ELSE 0) >= 2
  BY DEF FreeSpace
<1>4. cap' = cap
  BY <1>1, <1>2 DEF Capacity
<1>5. ContentsFacts
  BY ContentsAre
<1>6. /\ Count = IF mOut <= mIn THEN mIn - mOut ELSE cap - mOut + mIn
      /\ \A i \in 1 .. Count : Contents[i] = memory[Place(mOut, cap, i)]
  BY <1>5 DEF ContentsFacts
<1> DEFINE cap2 == cap'
<1>7. cap2 = cap /\ cap2 = Capacity(memory')
  BY <1>4
<1> HIDE DEF cap, cap2
<1>8. mIn < cap /\ mOut < cap /\ Count \in Nat /\ Count < cap - 1
  BY <1>2, <1>3, <1>6
<1>9. mIn' \in Nat /\ mIn' < cap /\ mIn' = IF mIn + 1 = cap THEN 0 ELSE mIn + 1
  BY <1>1, <1>2, <1>8 DEF Inc
<1>10. memory' \in [Cells(cap) -> 0 .. MaxPushes]
  <2>1. count + 1 \in 0 .. MaxPushes
    BY <1>2
  <2> QED
    BY <1>1, <1>2, <2>1
<1>11. Indices'
  <2>1. count' \in 0 .. MaxPushes /\ result' \in 0 .. count'
    BY <1>2
  <2> QED
    BY <1>2, <1>7, <1>8, <1>9, <1>10, <2>1 DEF Indices
<1>12. /\ Count' = IF mOut <= mIn' THEN mIn' - mOut ELSE cap - mOut + mIn'
       /\ \A i \in 1 .. Count' : Contents'[i] = memory'[Place(mOut, cap, i)]
  <2>1. ContentsFacts'
    BY <1>11, ContentsAreNext
  <2> QED
    BY <1>7, <2>1 DEF ContentsFacts
<1>13. Count' = Count + 1
  BY <1>2, <1>3, <1>6, <1>8, <1>9, <1>12
<1>14. ASSUME NEW i \in 1 .. Count
       PROVE  Contents'[i] = Contents[i]
  <2>1. Place(mOut, cap, i) \in Cells(cap) /\ Place(mOut, cap, i) # mIn
    BY <1>2, <1>3, <1>6, <1>8 DEF Place, Cells
  <2>2. memory'[Place(mOut, cap, i)] = memory[Place(mOut, cap, i)]
    BY <1>1, <1>2, <2>1
  <2>3. i \in 1 .. Count'
    BY <1>8, <1>13
  <2> QED
    BY <1>6, <1>12, <2>2, <2>3
<1>15. Contents'[Count + 1] = count'
  <2>1. Place(mOut, cap, Count + 1) = mIn
    BY <1>2, <1>6, <1>8 DEF Place
  <2>2. memory'[mIn] = count + 1
    BY <1>1, <1>2, <1>8 DEF Cells
  <2>3. Count + 1 \in 1 .. Count'
    BY <1>8, <1>13
  <2> QED
    BY <1>12, <2>1, <2>2, <2>3
<1> QED
  BY <1>11, <1>13, <1>14, <1>15 DEF Pushed

(* Push, where it does not: the memory grows, and nothing moves but the lower   *)
(* part of a split queue.                                                      *)
LEMMA PushGrows ==
    ASSUME Indices, FreeSpace < 2, count < MaxPushes, Store(Grown, GrownIn),
           count' = count + 1, UNCHANGED <<mOut, result>>
    PROVE  /\ Indices'
           /\ \/ Pushed
              \/ mOut = 1 /\ mIn = 0 /\ Emptied
<1> DEFINE cap == Capacity(memory)
           big == Larger
<1>1. memory' = [Grown EXCEPT ![GrownIn] = count + 1] /\ mIn' = Inc(GrownIn, Capacity(Grown))
  BY DEF Store
<1>2. /\ cap \in Nat /\ mIn \in Nat /\ mOut \in Nat /\ count \in 0 .. MaxPushes
      /\ result \in 0 .. count /\ memory \in [Cells(cap) -> 0 .. MaxPushes]
      /\ (cap = 0 /\ mIn = 0 /\ mOut = 0) \/ (mIn < cap /\ mOut < cap)
  BY DEF Indices
<1>3. mOut - mIn + (IF mOut <= mIn THEN cap ELSE 0) < 2
  BY DEF FreeSpace
<1>4. /\ big = IF cap = 0 THEN Granularity ELSE 2 * cap
      /\ big \in Nat /\ big > 1 /\ big > cap
  <2>1. big = IF cap = 0 THEN Granularity ELSE 2 * cap
    BY DEF Larger
  <2> HIDE DEF big, cap
  <2> QED
    BY <1>2, <2>1
<1>5. /\ GrownIn = IF Split THEN mIn + cap ELSE mIn
      /\ Split <=> mIn < mOut /\ mIn # 0
  BY DEF GrownIn, Split
<1>6. Grown = [c \in Cells(big) |->
                 IF c \in DOMAIN memory THEN memory[c]
                 ELSE IF Split /\ c < cap + mIn THEN memory[c - cap] ELSE 0]
  BY DEF Grown
<1>7. ContentsFacts
  BY ContentsAre
<1>8. /\ Count = IF mOut <= mIn THEN mIn - mOut ELSE cap - mOut + mIn
      /\ \A i \in 1 .. Count : Contents[i] = memory[Place(mOut, cap, i)]
  BY <1>7 DEF ContentsFacts
<1> HIDE DEF cap, big
<1>9. /\ \A c \in Cells(cap) : c \in Cells(big) /\ Grown[c] = memory[c]
      /\ Split => \A c \in 0 .. mIn - 1 : c + cap \in Cells(big) /\ Grown[c + cap] = memory[c]
  <2>1. ASSUME NEW c \in Cells(cap)
        PROVE  c \in Cells(big) /\ Grown[c] = memory[c]
    BY <1>2, <1>4, <1>6 DEF Cells
  <2>2. ASSUME Split, NEW c \in 0 .. mIn - 1
        PROVE  c + cap \in Cells(big) /\ Grown[c + cap] = memory[c]
    <3>1. c \in Nat /\ c < mIn /\ mIn < cap /\ big = 2 * cap
      BY <1>2, <1>4, <1>5, <2>2
    <3>2. c + cap \in Cells(big) /\ c + cap \notin Cells(cap) /\ c + cap < cap + mIn /\ (c + cap) - cap = c
      BY <1>2, <3>1 DEF Cells
    <3>3. DOMAIN memory = Cells(cap)
      BY <1>2
    <3> QED
      BY <1>6, <2>2, <3>2, <3>3
  <2> QED
    BY <2>1, <2>2
<1>10. Grown \in [Cells(big) -> 0 .. MaxPushes]
  <2>1. \A c \in Cells(cap) : memory[c] \in 0 .. MaxPushes
    BY <1>2
  <2>2. 0 \in 0 .. MaxPushes
    OBVIOUS
  <2>3. ASSUME NEW c \in Cells(big)
        PROVE  Grown[c] \in 0 .. MaxPushes
    <3>1. CASE c \in Cells(cap)
      BY <1>9, <2>1, <3>1
    <3>2. CASE c \notin Cells(cap) /\ Split /\ c < cap + mIn
      <4>1. mIn < cap
        BY <1>2, <1>5, <3>2
      <4>2. c - cap \in Cells(cap)
        BY <1>2, <3>2, <4>1 DEF Cells
      <4> QED
        BY <1>2, <1>6, <2>1, <3>2, <4>2
    <3>3. CASE c \notin Cells(cap) /\ ~(Split /\ c < cap + mIn)
      BY <1>2, <1>6, <2>2, <3>3
    <3> QED
      BY <3>1, <3>2, <3>3
  <2> QED
    BY <1>6, <2>3
<1>11. Capacity(Grown) = big
  BY <1>4, <1>10, CapacityOfCells
<1>12. GrownIn \in Nat /\ GrownIn < big
  BY <1>2, <1>4, <1>5
<1>13. mIn' \in Nat /\ mIn' < big /\ mIn' = IF GrownIn + 1 = big THEN 0 ELSE GrownIn + 1
  BY <1>1, <1>4, <1>11, <1>12 DEF Inc
<1>14. memory' \in [Cells(big) -> 0 .. MaxPushes]
  <2>1. count + 1 \in 0 .. MaxPushes
    BY <1>2
  <2> QED
    BY <1>1, <1>10, <2>1
<1>15. Capacity(memory') = big
  BY <1>4, <1>14, CapacityOfCells
<1>16. Indices'
  <2>1. count' \in 0 .. MaxPushes /\ result' \in 0 .. count'
    BY <1>2
  <2>2. mOut' \in Nat /\ mOut' < big /\ big # 0
    BY <1>2, <1>4
  <2> QED
    BY <1>4, <1>13, <1>14, <1>15, <2>1, <2>2 DEF Indices
<1>17. /\ Count' = IF mOut <= mIn' THEN mIn' - mOut ELSE big - mOut + mIn'
       /\ \A i \in 1 .. Count' : Contents'[i] = memory'[Place(mOut, big, i)]
  <2>1. ContentsFacts'
    BY <1>16, ContentsAreNext
  <2> QED
    BY <1>15, <2>1 DEF ContentsFacts
<1>18. CASE mOut = 1 /\ mIn = 0
  <2>1. GrownIn = 0
    BY <1>5, <1>18
  <2>2. mIn' = 1
    BY <1>4, <1>13, <2>1
  <2>3. Count' = 0
    BY <1>17, <1>18, <2>2
  <2> QED
    BY <1>16, <1>18, <2>3 DEF Emptied
<1>19. CASE ~(mOut = 1 /\ mIn = 0)
  <2>1. GrownIn = mOut + Count /\ Count \in Nat /\ Count < big - 1 /\ Count <= cap
        /\ mOut + Count + 1 < big + 1
    BY <1>2, <1>3, <1>4, <1>5, <1>8, <1>19
  <2>2. Count' = Count + 1
    BY <1>2, <1>4, <1>13, <1>17, <2>1
  <2>3. ASSUME NEW i \in 1 .. Count
        PROVE  Contents'[i] = Contents[i]
    <3>1. Place(mOut, big, i) = mOut + i - 1 /\ mOut + i - 1 \in Cells(big) /\ mOut + i - 1 # GrownIn
      BY <1>2, <1>4, <2>1 DEF Place, Cells
    <3>2. memory'[mOut + i - 1] = Grown[mOut + i - 1]
      BY <1>1, <1>10, <3>1
    <3>3. Grown[mOut + i - 1] = memory[Place(mOut, cap, i)]
      <4>1. CASE mOut + i - 1 < cap
        <5>1. Place(mOut, cap, i) = mOut + i - 1 /\ mOut + i - 1 \in Cells(cap)
          BY <1>2, <2>1, <4>1 DEF Place, Cells
        <5> QED
          BY <1>9, <5>1
      <4>2. CASE mOut + i - 1 >= cap
        <5> DEFINE c == mOut + i - 1 - cap
        <5>1. Place(mOut, cap, i) = c /\ c + cap = mOut + i - 1
          BY <1>2, <2>1, <4>2 DEF Place
        <5>2. mIn < mOut /\ mIn # 0 /\ c \in 0 .. mIn - 1
          BY <1>2, <1>3, <1>8, <1>19, <2>1, <4>2
        <5>3. Split
          BY <1>5, <5>2
        <5> HIDE DEF c
        <5> QED
          BY <1>9, <5>1, <5>2, <5>3
      <4> QED
        BY <1>2, <2>1, <4>1, <4>2
    <3>4. i \in 1 .. Count'
      BY <2>1, <2>2
    <3> QED
      BY <1>8, <1>17, <3>1, <3>2, <3>3, <3>4
  <2>4. Contents'[Count + 1] = count'
    <3>1. Place(mOut, big, Count + 1) = GrownIn
      BY <1>2, <1>12, <2>1 DEF Place
    <3>2. memory'[GrownIn] = count + 1
      <4>1. GrownIn \in Cells(big)
        BY <1>4, <1>12 DEF Cells
      <4> QED
        BY <1>1, <1>10, <4>1
    <3>3. Count + 1 \in 1 .. Count'
      BY <2>1, <2>2
    <3> QED
      BY <1>17, <3>1, <3>2, <3>3
  <2> QED
    BY <1>16, <2>2, <2>3, <2>4 DEF Pushed
<1> QED
  BY <1>18, <1>19

LEMMA PushShape ==
    ASSUME Indices, Push
    PROVE  Indices' /\ (Pushed \/ (GrowsWrapped /\ Emptied))
<1>1. count < MaxPushes /\ count' = count + 1 /\ UNCHANGED <<mOut, result>>
  BY DEF Push
<1>2. count' # count
  BY <1>1 DEF Indices
<1>3. CASE FreeSpace < 2 /\ Store(Grown, GrownIn)
  BY <1>1, <1>2, <1>3, PushGrows DEF GrowsWrapped
<1>4. CASE FreeSpace >= 2 /\ Store(memory, mIn)
  BY <1>1, <1>4, PushFits
<1> QED
  BY <1>3, <1>4 DEF Push

--------------------------------------------------------------------------------
(* The order *)

LEMMA NextInv == Inv /\ [Next]_vars => Inv'
<1> SUFFICES ASSUME Inv, [Next]_vars PROVE Inv'
  OBVIOUS
<1>1. Indices /\ Ordered /\ ContentsFacts
  BY ContentsAre DEF Inv
<1>2. Count \in Nat /\ \A i \in 1 .. Count : Contents[i] \in Nat
  BY <1>1 DEF ContentsFacts
<1>3. count \in Nat /\ result \in Nat /\ result <= count
  BY <1>1 DEF Indices
<1>4. ASSUME Indices', Pushed
      PROVE  Inv'
  <2>1. /\ count' = count + 1 /\ result' = result /\ Count' = Count + 1
        /\ \A i \in 1 .. Count : Contents'[i] = Contents[i] /\ Contents[i] <= count
        /\ Contents'[Count + 1] = count'
    BY <1>1, <1>4 DEF Pushed, Ordered
  <2>2. ASSUME NEW i \in 1 .. Count'
        PROVE  result' < Contents'[i] /\ Contents'[i] <= count'
    <3>1. CASE i = Count + 1
      BY <1>3, <2>1, <3>1
    <3>2. CASE i \in 1 .. Count
      <4>1. result < Contents[i] /\ Contents[i] <= count /\ Contents[i] \in Nat
        BY <1>1, <1>2, <3>2 DEF Ordered
      <4> QED
        BY <1>3, <2>1, <3>2, <4>1
    <3> QED
      BY <1>2, <2>1, <3>1, <3>2
  <2>3. ASSUME NEW i \in 1 .. Count', NEW j \in 1 .. Count', i < j
        PROVE  Contents'[i] < Contents'[j]
    <3>1. i \in 1 .. Count /\ Contents'[i] = Contents[i] /\ Contents[i] <= count /\ Contents[i] \in Nat
      BY <1>2, <2>1, <2>3
    <3>2. CASE j = Count + 1
      BY <1>3, <2>1, <3>1, <3>2
    <3>3. CASE j \in 1 .. Count
      BY <1>1, <2>1, <2>3, <3>1, <3>3 DEF Ordered
    <3> QED
      BY <1>2, <2>1, <3>2, <3>3
  <2> QED
    BY <1>4, <2>2, <2>3 DEF Inv, Ordered
<1>5. ASSUME Indices', Popped
      PROVE  Inv'
  <2>1. /\ count' = count /\ Count > 0 /\ Count' = Count - 1 /\ result' = Contents[1]
        /\ \A i \in 1 .. Count - 1 : Contents'[i] = Contents[i + 1]
    BY <1>5 DEF Popped
  <2>2. ASSUME NEW i \in 1 .. Count'
        PROVE  result' < Contents'[i] /\ Contents'[i] <= count'
    <3>1. 1 \in 1 .. Count /\ i + 1 \in 1 .. Count /\ 1 < i + 1
      BY <1>2, <2>1
    <3>2. Contents'[i] = Contents[i + 1]
      BY <2>1
    <3> QED
      BY <1>1, <2>1, <3>1, <3>2 DEF Ordered
  <2>3. ASSUME NEW i \in 1 .. Count', NEW j \in 1 .. Count', i < j
        PROVE  Contents'[i] < Contents'[j]
    <3>1. i + 1 \in 1 .. Count /\ j + 1 \in 1 .. Count /\ i + 1 < j + 1
      BY <1>2, <2>1, <2>3
    <3>2. Contents'[i] = Contents[i + 1] /\ Contents'[j] = Contents[j + 1]
      BY <2>1
    <3> QED
      BY <1>1, <3>1, <3>2 DEF Ordered
  <2> QED
    BY <1>5, <2>2, <2>3 DEF Inv, Ordered
<1>6. ASSUME Indices', Emptied
      PROVE  Inv'
  BY <1>6 DEF Emptied, Inv, Ordered
<1>7. CASE UNCHANGED vars
  <2>1. Indices' /\ Count' = Count /\ Contents' = Contents /\ count' = count /\ result' = result
    BY <1>1, <1>7 DEF vars, Indices, Count, FreeSpace, Contents
  <2> QED
    BY <1>1, <2>1 DEF Inv, Ordered
<1> QED
  BY <1>1, <1>4, <1>5, <1>6, <1>7, PushShape, PopShape, ClearShape DEF Next

LEMMA InitInv == Init => Inv
<1> SUFFICES ASSUME Init PROVE Inv
  OBVIOUS
<1>1. memory \in [Cells(0) -> 0 .. MaxPushes] /\ mIn = 0 /\ mOut = 0 /\ count = 0 /\ result = 0
  BY DEF Init
<1>2. Capacity(memory) = 0
  BY <1>1, CapacityOfCells
<1>3. Indices
  BY <1>1, <1>2 DEF Indices
<1>4. Count = 0
  BY <1>1, <1>3, ContentsAre DEF ContentsFacts
<1> QED
  BY <1>3, <1>4 DEF Inv, Ordered

(* The indices of the ring stay inside its memory and the items between them    *)
(* are in the order of their pushes, across wrapping, growth and Clear.        *)
THEOREM InvHolds == Spec => []Inv
BY InitInv, NextInv, PTL DEF Spec

(* Whatever the granularity, and however often the buffer grows, wraps and is   *)
(* cleared: the indices stay inside it, and what comes out was pushed, once and *)
(* in that order (Queue.h).                                                    *)
THEOREM InOrderHolds == Spec => []InOrder
<1>1. Inv => InOrder
  <2> SUFFICES ASSUME Inv PROVE InOrder
    OBVIOUS
  <2>1. Indices /\ Ordered /\ ContentsFacts
    BY ContentsAre DEF Inv
  <2>2. DOMAIN memory = Cells(Capacity(memory)) /\ \A c \in DOMAIN memory : memory[c] \in 0 .. MaxPushes
    BY <2>1 DEF Indices
  <2>3. TypeOK
    <3>1. mIn \in DOMAIN memory \cup {0} /\ mOut \in DOMAIN memory \cup {0}
      BY <2>1, <2>2 DEF Indices, Cells
    <3>2. count \in 0 .. MaxPushes /\ result \in 0 .. MaxPushes
      BY <2>1 DEF Indices
    <3> QED
      BY <2>2, <3>1, <3>2 DEF TypeOK
  <2>4. Len(Contents) = Count
    BY <2>1 DEF ContentsFacts
  <2> QED
    BY <2>1, <2>3, <2>4 DEF InOrder, Ordered
<1> QED
  BY <1>1, InvHolds, PTL

--------------------------------------------------------------------------------
(* The refinement *)

LEMMA ContentsIsSeq == ContentsFacts => Contents \in Seq(Nat) /\ Len(Contents) = Count
<1> SUFFICES ASSUME ContentsFacts PROVE Contents \in Seq(Nat) /\ Len(Contents) = Count
  OBVIOUS
<1>1. /\ DOMAIN Contents = 1 .. Count /\ Count \in Nat
      /\ \A i \in 1 .. Count : Contents[i] \in Nat
  BY DEF ContentsFacts
<1>2. Contents = [i \in 1 .. Count |-> memory[(mOut + i - 1) % Capacity(memory)]]
  BY DEF Contents
<1>3. Contents \in [1 .. Count -> Nat]
  BY <1>1, <1>2
<1> QED
  BY <1>1, <1>3

LEMMA ContentsIsSeqNext == ContentsFacts' => Contents' \in Seq(Nat) /\ Len(Contents') = Count'
<1>1. (ContentsFacts => Contents \in Seq(Nat) /\ Len(Contents) = Count)'
  BY ContentsIsSeq, PTL
<1> QED
  BY <1>1

(* Each call is one of the abstract queue, but for the one that grows it when    *)
(* the write index has just wrapped.                                           *)
LEMMA FifoStep == Inv /\ Inv' /\ [Next]_vars => [F!Next \/ GrowsWrapped]_(F!vars)
<1> SUFFICES ASSUME Inv, Inv', [Next]_vars PROVE [F!Next \/ GrowsWrapped]_(F!vars)
  OBVIOUS
<1>1. Indices /\ Ordered /\ ContentsFacts /\ ContentsFacts'
  BY ContentsAre, ContentsAreNext DEF Inv
<1>2. Contents \in Seq(Nat) /\ Len(Contents) = Count /\ Count \in Nat
  BY <1>1, ContentsIsSeq DEF ContentsFacts
<1>3. Contents' \in Seq(Nat) /\ Len(Contents') = Count'
  BY <1>1, ContentsIsSeqNext
<1>4. count \in Nat
  BY <1>1 DEF Indices
<1> DEFINE c == Contents
           d == Contents'
<1>5. c \in Seq(Nat) /\ d \in Seq(Nat) /\ Len(c) = Count /\ Len(d) = Count'
  BY <1>2, <1>3
<1>6. CASE Pushed
  <2>1. /\ count' = count + 1 /\ result' = result /\ Count' = Count + 1
        /\ \A i \in 1 .. Count : d[i] = c[i]
        /\ d[Count + 1] = count'
    BY <1>6 DEF Pushed
  <2> HIDE DEF c, d
  <2>2. /\ Append(c, count + 1) \in Seq(Nat) /\ Len(Append(c, count + 1)) = Count + 1
        /\ \A i \in 1 .. Count + 1 : Append(c, count + 1)[i] = d[i]
    BY <1>2, <1>4, <1>5, <2>1
  <2>3. d = Append(c, count + 1)
    BY <1>5, <2>1, <2>2, SeqEqual
  <2>4. F!Push
    BY <2>1, <2>3 DEF F!Push, c, d
  <2> QED
    BY <2>4 DEF F!Next
<1>7. CASE Popped
  <2>1. /\ count' = count /\ Count > 0 /\ Count' = Count - 1 /\ result' = c[1]
        /\ \A i \in 1 .. Count - 1 : d[i] = c[i + 1]
    BY <1>7 DEF Popped
  <2> HIDE DEF c, d
  <2>2. /\ c # <<>> /\ Head(c) = c[1] /\ Tail(c) \in Seq(Nat) /\ Len(Tail(c)) = Count - 1
        /\ \A i \in 1 .. Count - 1 : Tail(c)[i] = c[i + 1]
    BY <1>2, <1>5, <2>1
  <2>3. d = Tail(c)
    <3>1. Len(d) = Len(Tail(c)) /\ \A i \in 1 .. Len(d) : d[i] = Tail(c)[i]
      BY <1>5, <2>1, <2>2
    <3> QED
      BY <1>5, <2>2, <3>1, SeqEqual
  <2>4. F!Pop
    BY <2>1, <2>2, <2>3 DEF F!Pop, c, d
  <2> QED
    BY <2>4 DEF F!Next
<1>8. CASE Emptied /\ count' = count
  <2>1. d = <<>>
    BY <1>5, <1>8 DEF Emptied
  <2>2. F!Clear
    BY <1>8, <2>1 DEF F!Clear, Emptied
  <2> QED
    BY <2>2 DEF F!Next
<1>9. CASE UNCHANGED vars
  BY <1>9 DEF vars, F!vars, Contents, Count, FreeSpace
<1>10. CASE GrowsWrapped
  BY <1>10
<1> QED
  BY <1>1, <1>6, <1>7, <1>8, <1>9, <1>10, PushShape, PopShape, ClearShape DEF Next

(* The ring buffer implements the first-in first-out queue, step by step, in    *)
(* every call but the one that grows it right after the write index wrapped.   *)
THEOREM FifoUnlessWrappedHolds == Spec => FifoUnlessWrapped
<1>1. Init => F!Init
  <2> SUFFICES ASSUME Init PROVE F!Init
    OBVIOUS
  <2>1. Indices
    BY InitInv DEF Inv
  <2>2. Capacity(memory) = 0
    <3>1. DOMAIN memory = Cells(0)
      BY DEF Init
    <3> QED
      BY <3>1, CapacityOfCells
  <2>3. Count = 0 /\ Contents \in Seq(Nat) /\ Len(Contents) = Count
    BY <2>1, <2>2, ContentsAre, ContentsIsSeq DEF ContentsFacts, Init
  <2> QED
    BY <2>3 DEF F!Init, Init
<1>2. Inv /\ Inv' /\ [Next]_vars => [F!Next \/ GrowsWrapped]_(F!vars)
  BY FifoStep
<1> QED
  BY <1>1, <1>2, InvHolds, PTL DEF Spec, FifoUnlessWrapped
================================================================================
