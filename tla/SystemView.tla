------------------------------- MODULE SystemView -------------------------------
(* The list of systems, and its thread that counts the games of the system     *)
(* under the cursor. No system is empty. mOrder is the slot of the thread       *)
(* (mSystemFromWitchToExtractData).                                            *)
EXTENDS EventQueue

CONSTANTS Systems, FirstSystem, NoSystem

VARIABLES
    selected,           \* the system under the cursor
    mSystemInfo,        \* the system whose count is on the screen
    mOrder,             \* the slot
    mSystemSignal,      \* its flag, see AutoResetEvent
    counter,            \* where the thread is
    counting,           \* the system it counts the games of
    count               \* the system whose count it has, NoSystem for 0

systemVars == <<selected, mSystemInfo, mOrder, mSystemSignal, counter, counting, count>>

(* The user went from here to a game list. *)
SystemInit ==
    /\ selected = FirstSystem /\ mSystemInfo = FirstSystem
    /\ mOrder = NoSystem /\ mSystemSignal = FALSE
    /\ counter = "waiting" /\ counting = NoSystem /\ count = NoSystem

--------------------------------------------------------------------------------
(* The main thread *)

SetNextSystem(system) == mOrder' = system /\ mSystemSignal' = TRUE

onCursorChanged(system) ==
    /\ selected' = system
    /\ SetNextSystem(system)
    /\ mSystemInfo' = NoSystem
    /\ UNCHANGED <<counter, counting, count>>

SelectSystem(system) ==
    /\ main = "loop" /\ mCurrentViewType = "SystemList" /\ system # selected
    /\ onCursorChanged(system)
    /\ UNCHANGED <<main, posted, mCurrentViewType>>

(* goToSystemView, the other half of LeaveList *)
goToSystem == onCursorChanged(selected)

(* Mutant: an answer is dropped when the thread is at work. *)
WorkToDoNow == counter # "waiting"
WorkToDoFirst == mOrder # NoSystem

ReceiveGameCount ==
    /\ Receive("systems")
    /\ mSystemInfo' = IF mCurrentViewType = "SystemList" /\ ~WorkToDoFirst
                      THEN Head(posted).count ELSE mSystemInfo
    /\ UNCHANGED <<main, mCurrentViewType, selected, mOrder, mSystemSignal, counter, counting, count>>

--------------------------------------------------------------------------------
(* The thread: WaitSignal, the slot until it is empty, then one message *)

CounterWaits ==
    /\ counter = "looping"
    /\ counter' = "waiting"
    /\ UNCHANGED <<main, posted, mCurrentViewType, selected, mSystemInfo, mOrder, mSystemSignal,
                   counting, count>>

CounterWakes ==
    /\ counter = "waiting" /\ mSystemSignal
    /\ mSystemSignal' = FALSE /\ count' = NoSystem
    /\ counter' = "working"
    /\ UNCHANGED <<main, posted, mCurrentViewType, selected, mSystemInfo, mOrder, counting>>

TakeSystem ==
    /\ counter = "working"
    /\ counting' = mOrder /\ mOrder' = NoSystem
    /\ counter' = IF mOrder # NoSystem THEN "counting"
                  ELSE IF count # NoSystem THEN "sending" ELSE "looping"
    /\ UNCHANGED <<main, posted, mCurrentViewType, selected, mSystemInfo, mSystemSignal, count>>

GameCount ==
    /\ counter = "counting"
    /\ count' = counting
    /\ counter' = "working"
    /\ UNCHANGED <<main, posted, mCurrentViewType, selected, mSystemInfo, mOrder, mSystemSignal,
                   counting>>

SendGameCount ==
    /\ counter = "sending"
    /\ Post([to |-> "systems", count |-> count])
    /\ counter' = "looping"
    /\ UNCHANGED <<main, mCurrentViewType, selected, mSystemInfo, mOrder, mSystemSignal, counting,
                   count>>

CounterStep == CounterWaits \/ CounterWakes \/ TakeSystem \/ GameCount \/ SendGameCount

SystemStep == ReceiveGameCount \/ CounterStep

--------------------------------------------------------------------------------
Counted == mSystemInfo = selected

(* The list of systems comes to show the count of the system under its cursor, *)
(* although a message does not say which system it counts and the handler      *)
(* drops the ones that come too early.                                         *)
CountComes == mCurrentViewType = "SystemList" ~> Counted \/ mCurrentViewType # "SystemList"

(* Refuted: the count on the screen is always the one of the cursor. An answer  *)
(* that comes after the thread has taken the next order is shown as its own.   *)
CountIsOfCursor == mSystemInfo \in {NoSystem, selected}
================================================================================
