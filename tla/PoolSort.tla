------------------------------- MODULE PoolSort -------------------------------
(* ThreadPool::QuickSortAscending, which Run applies to the queue; PopFeed then *)
(* takes from the back.  The pivot is a reference: it names a place of the      *)
(* array, and what is in that place changes when the loop swaps into it.       *)
EXTENDS Integers, Sequences, FiniteSets

CONSTANTS
    Size,         \* how many feeds were pushed before Run
    Priorities    \* bound: priorities they may have

ASSUME SizeAssumption == Size \in Nat /\ Size > 1
ASSUME PriorityAssumption == Priorities \subseteq Int

Places == 0 .. Size - 1

VARIABLES
    items,      \* the queue, indexed as in the code
    low, high,  \* the arguments of the current call
    Low, High,  \* its two scanning indices
    calls,      \* calls still to make, the next one first
    input       \* history: the queue as it was pushed

sortVars == <<items, low, high, Low, High, calls, input>>

Feeds == [Index: Places, Priority: Priorities]

SortInit ==
    /\ \E p \in [Places -> Priorities] :
         items = [i \in Places |-> [Index |-> i, Priority |-> p[i]]]
    /\ input = items
    /\ low = 0 /\ high = Size - 1
    /\ Low = low /\ High = high
    /\ calls = <<>>

pivot == items[(low + high) \div 2].Priority

(* Mutant: the upward scan does not stop at a feed equal to the pivot. *)
StopsUpStrict == {k \in Places : k >= Low /\ items[k].Priority > pivot}

(* Where the two inner loops stop. *)
StopsUp   == {k \in Places : k >= Low  /\ items[k].Priority >= pivot}
StopsDown == {k \in Places : k <= High /\ items[k].Priority <= pivot}
FirstUp   == CHOOSE k \in StopsUp : \A m \in StopsUp : k <= m
LastDown  == CHOOSE k \in StopsDown : \A m \in StopsDown : k >= m

(* Mutant: the indices do not move on after a swap. *)
TurnInPlace ==
    /\ Low <= High
    /\ \/ /\ FirstUp <= LastDown
          /\ items' = [items EXCEPT ![FirstUp] = items[LastDown], ![LastDown] = items[FirstUp]]
          /\ Low' = FirstUp
          /\ High' = LastDown
       \/ /\ FirstUp > LastDown
          /\ Low' = FirstUp
          /\ High' = LastDown
          /\ UNCHANGED items
    /\ UNCHANGED <<low, high, calls, input>>

(* One turn of do ... while(Low <= High). *)
Turn ==
    /\ Low <= High
    /\ \/ /\ FirstUp <= LastDown
          /\ items' = [items EXCEPT ![FirstUp] = items[LastDown], ![LastDown] = items[FirstUp]]
          /\ Low' = FirstUp + 1
          /\ High' = LastDown - 1
       \/ /\ FirstUp > LastDown
          /\ Low' = FirstUp
          /\ High' = LastDown
          /\ UNCHANGED items
    /\ UNCHANGED <<low, high, calls, input>>

(* Mutant: a segment of two feeds is taken for sorted. *)
RecursionShort ==
    (IF High > low + 1 THEN <<<<low, High>>>> ELSE <<>>)
      \o (IF Low + 1 < high THEN <<<<Low, high>>>> ELSE <<>>)

(* The two recursive calls of a call whose loop has ended. *)
Recursion ==
    (IF High > low THEN <<<<low, High>>>> ELSE <<>>)
      \o (IF Low < high THEN <<<<Low, high>>>> ELSE <<>>)

NextCall ==
    /\ Low > High
    /\ Recursion \o calls # <<>>
    /\ low' = Head(Recursion \o calls)[1]
    /\ high' = Head(Recursion \o calls)[2]
    /\ Low' = low' /\ High' = high'
    /\ calls' = Tail(Recursion \o calls)
    /\ UNCHANGED <<items, input>>

Sorted == \A i, j \in Places : i < j => items[i].Priority <= items[j].Priority

SortNext == Turn \/ NextCall

SortSpec == SortInit /\ [][SortNext]_sortVars

FairSortSpec == SortSpec /\ WF_sortVars(SortNext)

Finished == Low > High /\ Recursion \o calls = <<>>

--------------------------------------------------------------------------------
(* The arguments of every recursive call are places of the array.               *)
SortTypeOK ==
    /\ items \in [Places -> Feeds]
    /\ low \in Places /\ high \in Places
    /\ Low \in Int /\ High \in Int
    /\ calls \in Seq(Places \X Places)

(* However the pivot moves, calls are given places of the array, and the inner *)
(* loops stop inside the segment of their call: they never read or swap        *)
(* outside it.                                                                 *)
ScansStayInside ==
    /\ SortTypeOK
    /\ Low <= High =>
        /\ StopsUp # {} /\ FirstUp <= high
        /\ StopsDown # {} /\ LastDown >= low

(* No feed is lost or doubled. *)
SameFeeds == {items[i] : i \in Places} = {input[i] : i \in Places}

(* The sorted queue holds the feeds it held, and the one a worker pops first    *)
(* has the highest priority of all, the one popped last the lowest: so PushFeed *)
(* documents it, against the comment of the field, see below.                  *)
EndsInPlace ==
    Finished =>
        /\ SameFeeds
        /\ \A i \in Places :
              /\ items[0].Priority <= items[i].Priority
              /\ items[i].Priority <= items[Size - 1].Priority

(* The sort ends. *)
Terminates == <>Finished

(* "Lowest priority are processed first", says the field IndexedFeed::Priority. *)
(* Refuted: Run sorts in ascending order and PopFeed takes from the back.      *)
LowestPriorityFirst == Finished => \A i \in Places : items[Size - 1].Priority <= items[i].Priority

(* "higher priorities are executed first": the queue ends up sorted. Refuted:  *)
(* the pivot is a reference into the array, and is swapped like the rest.      *)
HigherPriorityFirst == Finished => Sorted
================================================================================
