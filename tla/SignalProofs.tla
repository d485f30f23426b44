----------------------------- MODULE SignalProofs -----------------------------
(* Signal for every set of threads. *)
EXTENDS Signal, TLAPS

LEMMA TypeNext == TypeOK /\ [Next]_vars => TypeOK'
<1> SUFFICES ASSUME TypeOK, [Next]_vars PROVE TypeOK'
  OBVIOUS
<1> USE DEF TypeOK, Labels, Goto
<1>1. ASSUME NEW t \in Threads, Fire(t) \/ Reset(t) \/ Enter(t) \/ Leave(t)
      PROVE  TypeOK'
  BY <1>1 DEF Fire, Reset, Enter, Leave
<1>2. ASSUME NEW t \in Threads, Notify(t)
      PROVE  TypeOK'
  BY <1>2 DEF Notify, At
<1>3. ASSUME NEW t \in Threads, Take(t) \/ Sleep(t) \/ GiveUp(t)
      PROVE  TypeOK'
  BY <1>3 DEF Take, Sleep, GiveUp
<1>4. ASSUME NEW t \in Threads, WakeSpuriously(t) \/ TimeOut(t)
      PROVE  TypeOK'
  BY <1>4 DEF WakeSpuriously, TimeOut
<1>5. CASE UNCHANGED vars
  BY <1>5 DEF vars
<1> QED
  BY <1>1, <1>2, <1>3, <1>4, <1>5 DEF Next, Proceed

(* The flag is a boolean and every thread is at a line of Signal.cpp. *)
THEOREM TypeCorrect == Spec => []TypeOK
<1>1. Init => TypeOK
  BY DEF Init, TypeOK, Labels
<1> QED
  BY <1>1, TypeNext, PTL DEF Spec

LEMMA NoLostWakeupNext == TypeOK /\ NoLostWakeup /\ [Next]_vars => NoLostWakeup'
<1> SUFFICES ASSUME TypeOK, NoLostWakeup, [Next]_vars, mSignal', At("asleep")' # {}
             PROVE  (At("notify") \cup At("awake") \cup At("entering"))' # {}
  BY DEF NoLostWakeup
<1> USE DEF TypeOK, Labels, Goto, At
<1>1. ASSUME NEW t \in Threads, Fire(t)
      PROVE  pc'[t] = "notify"
  BY <1>1 DEF Fire
<1>2. ASSUME NEW t \in Threads, Notify(t)
      PROVE  \E u \in Threads : pc'[u] = "awake"
  BY <1>2 DEF Notify
<1>3. ASSUME NEW t \in Threads, Reset(t) \/ Take(t) \/ Sleep(t) \/ GiveUp(t)
      PROVE  FALSE
  BY <1>3 DEF Reset, Take, Sleep, GiveUp
<1>4. ASSUME NEW t \in Threads, Enter(t) \/ WakeSpuriously(t)
      PROVE  pc'[t] \in {"entering", "awake"}
  BY <1>4 DEF Enter, WakeSpuriously
<1>5. ASSUME NEW t \in Threads, Leave(t) \/ TimeOut(t)
      PROVE  \E u \in Threads : pc'[u] \in {"notify", "awake", "entering"}
  <2>1. mSignal /\ At("asleep") # {}
    BY <1>5 DEF Leave, TimeOut
  <2>2. PICK u \in Threads : pc[u] \in {"notify", "awake", "entering"}
    BY <2>1 DEF NoLostWakeup
  <2>3. pc'[u] = pc[u]
    BY <1>5, <2>2 DEF Leave, TimeOut
  <2> QED
    BY <2>2, <2>3
<1>6. CASE UNCHANGED vars
  BY <1>6 DEF vars, NoLostWakeup
<1> QED
  BY <1>1, <1>2, <1>3, <1>4, <1>5, <1>6 DEF Next, Proceed

(* Firing after the unlock, and waking one sleeper only, loses no wakeup.      *)
THEOREM NoLostWakeupHolds == Spec => []NoLostWakeup
<1>1. Init => TypeOK /\ NoLostWakeup
  BY DEF Init, TypeOK, Labels, NoLostWakeup
<1> QED
  BY <1>1, TypeNext, NoLostWakeupNext, PTL DEF Spec

--------------------------------------------------------------------------------
(* Refinement *)

LEMMA EventStep == TypeOK /\ [Next]_vars => [E!Next]_(E!vars)
<1> SUFFICES ASSUME TypeOK, [Next]_vars PROVE [E!Next]_(E!vars)
  OBVIOUS
<1> DEFINE a == [t \in Threads |-> Abstract(pc[t])]
<1>0. a' = [t \in Threads |-> Abstract(pc'[t])]
  OBVIOUS
<1>1. ASSUME NEW t \in Threads, Fire(t)
      PROVE  mSignal' = TRUE /\ a' = a
  BY <1>1 DEF Fire, Goto, TypeOK, Abstract
<1>2. ASSUME NEW t \in Threads, Reset(t)
      PROVE  mSignal' = FALSE /\ a' = a
  BY <1>2 DEF Reset
<1>3. ASSUME NEW t \in Threads, Notify(t) \/ Sleep(t) \/ WakeSpuriously(t) \/ TimeOut(t)
      PROVE  mSignal' = mSignal /\ a' = a
  BY <1>3 DEF Notify, Sleep, WakeSpuriously, TimeOut, Goto, At, TypeOK, Abstract
<1>4. ASSUME NEW t \in Threads, Enter(t)
      PROVE  E!Enter(t)
  BY <1>4 DEF Enter, Goto, TypeOK, Abstract, E!Enter
<1>5. ASSUME NEW t \in Threads, Take(t)
      PROVE  E!Succeed(t)
  BY <1>5 DEF Take, Goto, TypeOK, Abstract, E!Succeed
<1>6. ASSUME NEW t \in Threads, Leave(t)
      PROVE  E!Leave(t)
  BY <1>6 DEF Leave, Goto, TypeOK, Abstract, E!Leave
<1>7. ASSUME NEW t \in Threads, GiveUp(t)
      PROVE  E!Expire(t)
  BY <1>7 DEF GiveUp, Goto, TypeOK, Abstract, E!Expire
<1>8. CASE UNCHANGED vars
  BY <1>8 DEF vars, E!vars
<1> QED
  BY <1>1, <1>2, <1>3, <1>4, <1>5, <1>6, <1>7, <1>8
     DEF Next, Proceed, E!Next, E!vars, E!Fire, E!Reset

(* Signal implements the event its users take it for: a wait succeeds exactly  *)
(* once per signal it uses up, and an untimed wait never gives up.             *)
THEOREM ImplementsEvent == Spec => EventSpec
<1>1. Init => TypeOK /\ E!Init
  BY DEF Init, TypeOK, Labels, E!Init, Abstract
<1>2. TypeOK /\ [Next]_vars => [E!Next]_(E!vars)
  BY EventStep
<1> QED
  BY <1>1, <1>2, TypeNext, PTL DEF Spec, E!Spec, EventSpec
================================================================================
