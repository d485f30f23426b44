--------------------------- MODULE SyncMessageProofs ---------------------------
(* Safety of SyncMessage for every set of senders, receivers, threads and      *)
(* messages.  Inv holds however the program destroys its senders; Orderly      *)
(* adds what only holds when senders are drained first.                        *)
EXTENDS SyncMessage, TLAPS, SequenceTheorems

(* A thread inside Send holds a message that is labelled with a live sender. *)
SendState ==
    \A t \in Threads : pc[t] # "idle" =>
        /\ hand[t] \in Messages
        /\ body[hand[t]] \in Payloads
        /\ status[body[hand[t]].via] = "alive"

(* Whatever is queued was labelled by a Send and routed by Push. *)
QueueState ==
    \A m \in Undelivered : body[m] \in Payloads /\ routing[m] \in 1 .. Len(slots)

(* A slot that is in use belongs to a live sender. *)
SlotsOwned ==
    \A i \in 1 .. Len(slots) : slots[i] # NoReceiver =>
        \E s \in Senders : status[s] = "alive" /\ identifier[s] = i

(* What the local variables of DispatchMessage hold at each of its lines. *)
MainState ==
    /\ mainPc = "idle" => batch = <<>> /\ cursor = 0
    /\ mainPc = "taken" => cursor = 0
    /\ mainPc = "recycling" => cursor = Len(batch)
    /\ mainPc = "calling" => /\ cursor < Len(batch)
                             /\ receiver = slots[routing[batch[cursor + 1]]]

Inv == TypeOK /\ OneOwner /\ NoLeak /\ SlotsMatch /\ SendState /\ QueueState
         /\ SlotsOwned /\ MainState

(* Every queued message is routed to the slot of its own, living sender. *)
WellRouted ==
    \A m \in Undelivered :
        status[body[m].via] = "alive" /\ routing[m] = identifier[body[m].via]

Orderly == Inv /\ WellRouted /\ RightReceiver

--------------------------------------------------------------------------------
(* Lemmas about the containers *)

(* Appending adds one element, at the end. *)
LEMMA AppendElements ==
    ASSUME NEW S, NEW q \in Seq(S), NEW x \in S
    PROVE  /\ Append(q, x) \in Seq(S)
           /\ Len(Append(q, x)) = Len(q) + 1
           /\ \A i \in 1 .. Len(q) : Append(q, x)[i] = q[i]
           /\ Append(q, x)[Len(q) + 1] = x
           /\ Elements(Append(q, x)) = Elements(q) \cup {x}
<1>1. /\ Append(q, x) \in Seq(S)
      /\ Len(Append(q, x)) = Len(q) + 1
      /\ \A i \in 1 .. Len(q) : Append(q, x)[i] = q[i]
      /\ Append(q, x)[Len(q) + 1] = x
  OBVIOUS
<1>2. Len(q) \in Nat
  OBVIOUS
<1>3. 1 .. Len(q) + 1 = 1 .. Len(q) \cup {Len(q) + 1}
  BY <1>2
<1>4. Elements(Append(q, x)) = Elements(q) \cup {x}
  BY <1>1, <1>2, <1>3 DEF Elements
<1> QED
  BY <1>1, <1>4

(* Appending a new element keeps the elements distinct. *)
LEMMA AppendDistinct ==
    ASSUME NEW S, NEW q \in Seq(S), NEW x \in S, Distinct(q), x \notin Elements(q)
    PROVE  Distinct(Append(q, x))
<1>1. Len(q) \in Nat
  OBVIOUS
<1>2. ASSUME NEW i \in 1 .. Len(q) + 1, NEW j \in 1 .. Len(q) + 1,
             Append(q, x)[i] = Append(q, x)[j]
      PROVE  i = j
  <2>1. CASE i \in 1 .. Len(q) /\ j \in 1 .. Len(q)
    BY <1>2, <2>1, AppendElements DEF Distinct
  <2>2. CASE i = Len(q) + 1 /\ j \in 1 .. Len(q)
    BY <1>2, <2>2, AppendElements DEF Elements
  <2>3. CASE j = Len(q) + 1 /\ i \in 1 .. Len(q)
    BY <1>2, <2>3, AppendElements DEF Elements
  <2>4. CASE i = Len(q) + 1 /\ j = Len(q) + 1
    BY <2>4
  <2> QED
    BY <1>1, <2>1, <2>2, <2>3, <2>4
<1> QED
  BY <1>2, AppendElements DEF Distinct

LEMMA EmptyElements == Elements(<<>>) = {} /\ Distinct(<<>>) /\ Len(<<>>) = 0
  BY DEF Elements, Distinct

--------------------------------------------------------------------------------
(* Inv is inductive *)

USE MainAssumption, ReceiverAssumption, MessageAssumption, BoundAssumption

LEMMA InitInv == Init => Inv
<1> SUFFICES ASSUME Init PROVE Inv
  OBVIOUS
<1>1. TypeOK
  BY DEF Init, TypeOK
<1>2. OneOwner /\ NoLeak
  BY EmptyElements DEF Init, OneOwner, NoLeak, Holding
<1>3. SlotsMatch /\ SendState /\ SlotsOwned /\ MainState
  BY DEF Init, SlotsMatch, SendState, SlotsOwned, MainState
<1>4. QueueState
  BY EmptyElements DEF Init, QueueState, Undelivered
<1> QED
  BY <1>1, <1>2, <1>3, <1>4 DEF Inv

(* Construct: the slot chosen was empty, so no live sender had that identifier. *)
LEMMA ConstructInv ==
    ASSUME NEW t \in Threads, NEW s \in Senders, Inv, Construct(t, s)
    PROVE  Inv'
<1> DEFINE n == identifier'[s]
<1>0. TypeOK /\ SlotsMatch /\ SlotsOwned /\ MainState /\ SendState /\ QueueState
  BY DEF Inv
<1>1. /\ status' = [status EXCEPT ![s] = "alive"]
      /\ status[s] = "unborn"
      /\ identifier' = [identifier EXCEPT ![s] = n]
      /\ n \in 1 .. Len(slots')
      /\ slots' \in Seq(Receivers \cup {NoReceiver})
      /\ Len(slots) \in Nat /\ Len(slots') \in Nat /\ Len(slots) <= Len(slots')
      /\ slots'[n] = ReceiverOf[s]
      /\ \A i \in 1 .. Len(slots') : i # n => i \in 1 .. Len(slots) /\ slots'[i] = slots[i]
      /\ n \in 1 .. Len(slots) => slots[n] = NoReceiver
  <2>1. CASE /\ slots' = Append(slots, ReceiverOf[s])
             /\ identifier' = [identifier EXCEPT ![s] = Len(slots) + 1]
    BY <1>0, <2>1 DEF Construct, TypeOK
  <2>2. CASE \E i \in EmptySlots :
               /\ slots' = [slots EXCEPT ![i] = ReceiverOf[s]]
               /\ identifier' = [identifier EXCEPT ![s] = i]
    BY <1>0, <2>2 DEF Construct, TypeOK, EmptySlots
  <2> QED
    BY <2>1, <2>2 DEF Construct
<1>2. UNCHANGED <<pool, pending, content, threads, dispatch, received>>
  BY DEF Construct
<1>3. TypeOK'
  BY <1>0, <1>1, <1>2 DEF TypeOK, pool, content, threads, dispatch
<1>4. OneOwner' /\ NoLeak'
  BY <1>2 DEF Inv, OneOwner, NoLeak, Holding, pool, content, threads, dispatch
<1>5. SlotsMatch'
  <2>1. \A u \in Senders : ReceiverOf[u] # NoReceiver
    OBVIOUS
  <2>2. \A u \in Senders : status[u] = "alive" => identifier[u] # n /\ u # s
    BY <1>0, <1>1, <2>1 DEF SlotsMatch
  <2>3. \A u \in Senders : u # s => identifier'[u] = identifier[u] /\ status'[u] = status[u]
    BY <1>0, <1>1 DEF TypeOK
  <2>4. identifier'[s] = n /\ slots'[n] = ReceiverOf[s] /\ n \in 1 .. Len(slots')
    BY <1>0, <1>1 DEF TypeOK
  <2>5. \A u \in Senders \ {s} : status[u] = "alive" =>
           identifier[u] \in 1 .. Len(slots') /\ slots'[identifier[u]] = ReceiverOf[u]
    BY <1>0, <1>1, <2>2 DEF SlotsMatch
  <2> HIDE DEF n
  <2> QED
    BY <1>0, <2>2, <2>3, <2>4, <2>5 DEF SlotsMatch
<1>6. SendState'
  BY <1>0, <1>1, <1>2 DEF TypeOK, SendState, Payloads, threads, content
<1>7. QueueState'
  BY <1>0, <1>1, <1>2 DEF QueueState, Undelivered, content, dispatch
<1>8. SlotsOwned'
  <2> SUFFICES ASSUME NEW i \in 1 .. Len(slots'), slots'[i] # NoReceiver
               PROVE  \E u \in Senders : status'[u] = "alive" /\ identifier'[u] = i
    BY DEF SlotsOwned
  <2>1. CASE i = n
    BY <1>0, <1>1, <2>1 DEF TypeOK
  <2>2. CASE i # n
    <3>1. PICK u \in Senders : status[u] = "alive" /\ identifier[u] = i
      BY <1>0, <1>1, <2>2 DEF SlotsOwned
    <3> QED
      BY <1>0, <1>1, <3>1 DEF TypeOK
  <2> QED
    BY <2>1, <2>2
<1>9. MainState'
  <2>1. CASE mainPc = "calling"
    BY <2>1 DEF Construct, Free, CanLockRegister
  <2>2. CASE mainPc # "calling"
    BY <1>0, <1>2, <2>2 DEF MainState, dispatch
  <2> QED
    BY <2>1, <2>2
<1> QED
  BY <1>3, <1>4, <1>5, <1>6, <1>7, <1>8, <1>9 DEF Inv

(* Destroy: only the slot of the sender itself becomes empty. *)
LEMMA DestroyInv ==
    ASSUME NEW t \in Threads, NEW s \in Senders, Inv, Destroy(t, s)
    PROVE  Inv'
<1> DEFINE n == identifier[s]
<1>0. TypeOK /\ SlotsMatch /\ SlotsOwned /\ MainState /\ SendState /\ QueueState
  BY DEF Inv
<1>1. /\ status' = [status EXCEPT ![s] = "dead"]
      /\ n \in 1 .. Len(slots)
      /\ slots' \in Seq(Receivers \cup {NoReceiver})
      /\ Len(slots') = Len(slots)
      /\ slots'[n] = NoReceiver
      /\ \A i \in 1 .. Len(slots) : i # n => slots'[i] = slots[i]
  BY <1>0 DEF Destroy, TypeOK, SlotsMatch
<1>2. UNCHANGED <<identifier, pool, pending, content, threads, dispatch, received>>
  BY DEF Destroy
<1>3. TypeOK'
  BY <1>0, <1>1, <1>2 DEF TypeOK, pool, content, threads, dispatch
<1>4. OneOwner' /\ NoLeak'
  BY <1>2 DEF Inv, OneOwner, NoLeak, Holding, pool, content, threads, dispatch
<1>5. SlotsMatch'
  BY <1>0, <1>1, <1>2 DEF TypeOK, SlotsMatch, Destroy
<1>6. SendState'
  BY <1>0, <1>1, <1>2 DEF TypeOK, SendState, Payloads, threads, content, Destroy, SendingThrough
<1>7. QueueState'
  BY <1>0, <1>1, <1>2 DEF QueueState, Undelivered, content, dispatch
<1>8. SlotsOwned'
  BY <1>0, <1>1, <1>2 DEF TypeOK, SlotsOwned
<1>9. MainState'
  <2>1. CASE mainPc = "calling"
    BY <2>1 DEF Destroy, Free, CanLockRegister
  <2>2. CASE mainPc # "calling"
    BY <1>0, <1>2, <2>2 DEF MainState, dispatch
  <2> QED
    BY <2>1, <2>2
<1> QED
  BY <1>3, <1>4, <1>5, <1>6, <1>7, <1>8, <1>9 DEF Inv

(* Obtain: the message taken is in nobody's hand and in no queue, so writing   *)
(* into it disturbs nobody.                                                    *)
LEMMA ObtainInv ==
    ASSUME NEW t \in Threads, NEW s \in Senders, Inv, Obtain(t, s)
    PROVE  Inv'
<1>0. TypeOK /\ OneOwner /\ NoLeak /\ SlotsMatch /\ SlotsOwned /\ MainState /\ SendState /\ QueueState
  BY DEF Inv
<1> DEFINE p == [via |-> s, by |-> t, no |-> sent[t] + 1]
<1>1. PICK m \in IF available # {} THEN available ELSE Messages \ allocated :
         /\ available' = available \ {m}
         /\ allocated' = allocated \cup {m}
         /\ hand' = [hand EXCEPT ![t] = m]
         /\ body' = [body EXCEPT ![m] = p]
  BY DEF Obtain
<1>2. /\ UNCHANGED <<registry, pending, routing, dispatch, received>>
      /\ sent' = [sent EXCEPT ![t] = @ + 1]
      /\ pc' = [pc EXCEPT ![t] = "obtained"]
      /\ pc[t] = "idle" /\ status[s] = "alive" /\ sent[t] + 1 \in 1 .. MaxSends
  BY <1>0 DEF Obtain, Free, TypeOK
<1>3. m \in Messages /\ m # NoMessage /\ p \in Payloads
  BY <1>0, <1>1, <1>2 DEF TypeOK, Payloads
<1>4. /\ m \notin Elements(pending) /\ m \notin Elements(batch)
      /\ \A u \in Threads : m \notin Holding(u)
  <2>1. CASE m \in available
    BY <1>0, <2>1 DEF OneOwner
  <2>2. CASE m \in Messages \ allocated
    BY <1>0, <2>2 DEF NoLeak
  <2> QED
    BY <1>1, <2>1, <2>2
<1>5. TypeOK'
  BY <1>0, <1>1, <1>2, <1>3, SMTT(30) DEF TypeOK, registry, dispatch
<1>6. /\ Holding(t)' = {m} /\ Holding(t) = {}
      /\ \A u \in Threads \ {t} : Holding(u)' = Holding(u)
  BY <1>0, <1>1, <1>2 DEF TypeOK, Holding
<1>7. OneOwner'
  <2>1. available' \subseteq available /\ m \notin available' /\ pending' = pending /\ batch' = batch
    BY <1>1, <1>2 DEF dispatch
  <2>2. \A u \in Threads :
          Holding(u)' \cap (available' \cup Elements(pending) \cup Elements(batch)) = {}
    BY <1>0, <1>4, <1>6, <2>1 DEF OneOwner
  <2>3. \A u, v \in Threads : u # v => Holding(u)' \cap Holding(v)' = {}
    BY <1>0, <1>4, <1>6 DEF OneOwner
  <2> QED
    BY <1>0, <2>1, <2>2, <2>3 DEF OneOwner
<1>8. NoLeak'
  <2>1. UNION {Holding(u)' : u \in Threads} = {m} \cup UNION {Holding(u) : u \in Threads}
    BY <1>6
  <2>2. pending' = pending /\ batch' = batch
    BY <1>2 DEF dispatch
  <2>3. available' \cup {m} = available \cup {m}
    BY <1>1
  <2> QED
    BY <1>0, <1>1, <2>1, <2>2, <2>3 DEF NoLeak
<1>9. SlotsMatch' /\ SlotsOwned' /\ MainState'
  BY <1>0, <1>2 DEF SlotsMatch, SlotsOwned, MainState, registry, dispatch
<1>10. SendState'
  <2> SUFFICES ASSUME NEW u \in Threads, pc'[u] # "idle"
               PROVE  /\ hand'[u] \in Messages
                      /\ body'[hand'[u]] \in Payloads
                      /\ status'[body'[hand'[u]].via] = "alive"
    BY DEF SendState
  <2>1. CASE u = t
    BY <1>0, <1>1, <1>2, <1>3, <2>1 DEF TypeOK, registry
  <2>2. CASE u # t
    <3>1. pc[u] # "idle" /\ hand'[u] = hand[u] /\ hand[u] # m
      BY <1>0, <1>1, <1>2, <1>4, <2>2 DEF TypeOK, Holding
    <3> QED
      BY <1>0, <1>1, <1>2, <1>3, <3>1 DEF SendState, TypeOK, registry
  <2> QED
    BY <2>1, <2>2
<1>11. QueueState'
  <2>1. Undelivered' = Undelivered
    BY <1>2 DEF Undelivered, dispatch
  <2>2. m \notin Undelivered
    BY <1>0, <1>4 DEF Undelivered, Elements, TypeOK
  <2> QED
    BY <1>0, <1>1, <1>2, <2>1, <2>2 DEF QueueState, TypeOK, registry
<1> QED
  BY <1>5, <1>7, <1>8, <1>9, <1>10, <1>11 DEF Inv

(* The message in a thread's hand is never in the free list: the check of Push *)
(* always succeeds.                                                            *)
LEMMA CheckRecycledInv ==
    ASSUME NEW t \in Threads, Inv, CheckRecycled(t)
    PROVE  Inv'
<1>0. TypeOK /\ OneOwner /\ NoLeak /\ SlotsMatch /\ SlotsOwned /\ MainState /\ SendState /\ QueueState
  BY DEF Inv
<1>1. pc[t] = "obtained" /\ hand[t] \notin available
  BY <1>0 DEF CheckRecycled, OneOwner, Holding
<1>2. /\ pc' = [pc EXCEPT ![t] = "checked"]
      /\ UNCHANGED <<hand, registry, pool, pending, content, sent, dispatch, received>>
  BY <1>1 DEF CheckRecycled
<1>3. TypeOK'
  BY <1>0, <1>2 DEF TypeOK, registry, pool, content, dispatch
<1>4. \A u \in Threads : Holding(u)' = Holding(u)
  BY <1>0, <1>1, <1>2 DEF TypeOK, Holding
<1>5. OneOwner' /\ NoLeak'
  BY <1>0, <1>2, <1>4 DEF OneOwner, NoLeak, pool, dispatch
<1>6. SlotsMatch' /\ SlotsOwned' /\ MainState'
  BY <1>0, <1>2 DEF SlotsMatch, SlotsOwned, MainState, registry, content, dispatch
<1>7. SendState' /\ QueueState'
  BY <1>0, <1>1, <1>2 DEF SendState, QueueState, Undelivered, TypeOK, registry, content, dispatch
<1> QED
  BY <1>3, <1>5, <1>6, <1>7 DEF Inv

(* Push: the message moves from the hand to the end of the queue, with the     *)
(* identifier of the live sender that labelled it.                             *)
LEMMA PushInv ==
    ASSUME NEW t \in Threads, Inv, Push(t)
    PROVE  Inv'
<1>0. TypeOK /\ OneOwner /\ NoLeak /\ SlotsMatch /\ SlotsOwned /\ MainState /\ SendState /\ QueueState
  BY DEF Inv
<1> DEFINE m == hand[t]  n == identifier[body[m].via]
<1>1. /\ m \in Messages /\ body[m] \in Payloads /\ Holding(t) = {m}
      /\ m \notin Elements(pending) /\ m \notin Elements(batch) /\ m \notin available
      /\ n \in 1 .. Len(slots)
  BY <1>0 DEF Push, OneOwner, Holding, SendState, SlotsMatch, Payloads
<1>2. /\ routing' = [routing EXCEPT ![m] = n]
      /\ pending' = Append(pending, m)
      /\ pc' = [pc EXCEPT ![t] = "idle"]
      /\ hand' = [hand EXCEPT ![t] = NoMessage]
      /\ UNCHANGED <<registry, pool, body, sent, dispatch, received>>
  BY <1>1 DEF Push
<1>3. TypeOK'
  BY <1>0, <1>1, <1>2 DEF TypeOK, registry, pool, dispatch
<1>4. Holding(t)' = {} /\ \A u \in Threads \ {t} : Holding(u)' = Holding(u)
  BY <1>0, <1>2 DEF TypeOK, Holding
<1>5. Elements(pending') = Elements(pending) \cup {m} /\ Distinct(pending')
  BY <1>0, <1>1, <1>2, AppendElements, AppendDistinct DEF TypeOK, OneOwner
<1>6. OneOwner'
  <2>1. available' = available /\ batch' = batch
    BY <1>2 DEF pool, dispatch
  <2>2. \A u \in Threads : m \notin Holding(u)'
    BY <1>0, <1>1, <1>4 DEF OneOwner
  <2>3. \A u \in Threads :
          Holding(u)' \cap (available \cup Elements(pending) \cup {m} \cup Elements(batch)) = {}
    BY <1>0, <1>4, <2>2 DEF OneOwner
  <2>4. \A u, v \in Threads : u # v => Holding(u)' \cap Holding(v)' = {}
    BY <1>0, <1>4 DEF OneOwner
  <2> HIDE DEF m
  <2> QED
    BY <1>0, <1>1, <1>5, <2>1, <2>3, <2>4 DEF OneOwner
<1>7. NoLeak'
  <2>1. UNION {Holding(u) : u \in Threads} = {m} \cup UNION {Holding(u)' : u \in Threads}
    BY <1>1, <1>4
  <2> QED
    BY <1>0, <1>2, <1>5, <2>1 DEF NoLeak, pool, dispatch
<1>8. SlotsMatch' /\ SlotsOwned'
  BY <1>0, <1>2 DEF SlotsMatch, SlotsOwned, registry
<1>9. MainState'
  <2>0. cursor < Len(batch) => cursor + 1 \in 1 .. Len(batch)
    BY <1>0 DEF TypeOK
  <2>1. cursor < Len(batch) => batch[cursor + 1] \in Elements(batch)
    BY <2>0 DEF Elements
  <2>2. cursor < Len(batch) => routing'[batch[cursor + 1]] = routing[batch[cursor + 1]]
    BY <1>0, <1>1, <1>2, <2>0, <2>1 DEF TypeOK
  <2> QED
    BY <1>0, <1>2, <2>2 DEF MainState, registry, dispatch
<1>10. SendState'
  BY <1>0, <1>2, <1>4 DEF SendState, TypeOK, registry
<1>11. QueueState'
  <2>1. Undelivered' = Undelivered \cup {m}
    BY <1>2, <1>5 DEF Undelivered, dispatch
  <2>2. \A k \in Undelivered : k # m /\ k \in Messages
    BY <1>0, <1>1 DEF Undelivered, Elements, TypeOK
  <2> HIDE DEF m
  <2> QED
    BY <1>0, <1>1, <1>2, <2>1, <2>2 DEF QueueState, TypeOK, registry
<1> QED
  BY <1>3, <1>6, <1>7, <1>8, <1>9, <1>10, <1>11 DEF Inv

(* TakePending: the batch is empty, so the queue moves as a whole. *)
LEMMA TakePendingInv == Inv /\ TakePending => Inv'
<1> SUFFICES ASSUME Inv, TakePending PROVE Inv'
  OBVIOUS
<1>0. TypeOK /\ OneOwner /\ NoLeak /\ SlotsMatch /\ SlotsOwned /\ MainState /\ SendState /\ QueueState
  BY DEF Inv
<1>1. /\ batch = <<>> /\ cursor = 0 /\ batch' = pending /\ pending' = <<>> /\ mainPc' = "taken"
      /\ UNCHANGED <<registry, pool, content, threads, cursor, receiver, received>>
  BY <1>0 DEF TakePending, MainState
<1>2. TypeOK'
  BY <1>0, <1>1 DEF TypeOK, registry, pool, content, threads
<1>3. OneOwner' /\ NoLeak'
  BY <1>0, <1>1, EmptyElements DEF OneOwner, NoLeak, Holding, pool, threads
<1>4. SlotsMatch' /\ SlotsOwned' /\ MainState'
  BY <1>0, <1>1 DEF SlotsMatch, SlotsOwned, MainState, registry
<1>5. Undelivered' = Undelivered
  BY <1>0, <1>1, EmptyElements DEF Undelivered, Elements, TypeOK
<1>6. SendState' /\ QueueState'
  BY <1>0, <1>1, <1>5 DEF SendState, QueueState, registry, content, threads
<1> QED
  BY <1>2, <1>3, <1>4, <1>6 DEF Inv

(* The steps of DispatchMessage that leave the queues alone. *)
LEMMA QuietDispatchInv ==
    Inv /\ (LockRegister \/ ReadSlot \/ HandlerReturns \/ UnlockRegister) => Inv'
<1> SUFFICES ASSUME Inv, LockRegister \/ ReadSlot \/ HandlerReturns \/ UnlockRegister
             PROVE  Inv'
  OBVIOUS
<1>0. TypeOK /\ OneOwner /\ NoLeak /\ SlotsMatch /\ SlotsOwned /\ MainState /\ SendState /\ QueueState
  BY DEF Inv
<1>1. UNCHANGED <<registry, pool, pending, content, threads, batch, cursor, received>>
  BY DEF LockRegister, ReadSlot, HandlerReturns, UnlockRegister
<1>2. cursor < Len(batch) => routing[batch[cursor + 1]] \in 1 .. Len(slots)
  <2> SUFFICES ASSUME cursor < Len(batch)
               PROVE  routing[batch[cursor + 1]] \in 1 .. Len(slots)
    OBVIOUS
  <2>1. cursor + 1 \in cursor + 1 .. Len(batch)
    BY <1>0 DEF TypeOK
  <2> QED
    BY <1>0, <2>1 DEF QueueState, Undelivered
<1>3. receiver' \in Receivers \cup {NoReceiver}
  BY <1>0, <1>2 DEF TypeOK, LockRegister, ReadSlot, HandlerReturns, UnlockRegister
<1>4. TypeOK'
  BY <1>0, <1>1, <1>3
     DEF TypeOK, registry, pool, content, threads, LockRegister, ReadSlot, HandlerReturns, UnlockRegister
<1>5. OneOwner' /\ NoLeak'
  BY <1>0, <1>1 DEF OneOwner, NoLeak, Holding, pool, threads
<1>6. SlotsMatch' /\ SlotsOwned' /\ SendState'
  BY <1>0, <1>1 DEF SlotsMatch, SlotsOwned, SendState, registry, content, threads
<1>7. QueueState'
  BY <1>0, <1>1 DEF QueueState, Undelivered, registry, content
<1>8. MainState'
  BY <1>0, <1>1
     DEF MainState, registry, content, LockRegister, ReadSlot, HandlerReturns, UnlockRegister
<1> QED
  BY <1>4, <1>5, <1>6, <1>7, <1>8 DEF Inv

(* Call and Skip: one more message of the batch is done with. *)
LEMMA AdvanceInv == Inv /\ (Call \/ Skip) => Inv'
<1> SUFFICES ASSUME Inv, Call \/ Skip PROVE Inv'
  OBVIOUS
<1>0. TypeOK /\ OneOwner /\ NoLeak /\ SlotsMatch /\ SlotsOwned /\ MainState /\ SendState /\ QueueState
  BY DEF Inv
<1>1. /\ mainPc = "calling" /\ cursor' = cursor + 1 /\ cursor < Len(batch)
      /\ mainPc' \in {"handling", "dispatching"}
      /\ UNCHANGED <<registry, pool, pending, content, threads, batch, receiver>>
  BY <1>0 DEF Call, Skip, MainState
<1>2. batch[cursor + 1] \in Undelivered /\ Undelivered' \subseteq Undelivered
  <2>1. /\ cursor + 1 \in cursor + 1 .. Len(batch)
        /\ (cursor + 1) + 1 .. Len(batch) \subseteq cursor + 1 .. Len(batch)
    BY <1>0, <1>1 DEF TypeOK
  <2> QED
    BY <1>1, <2>1 DEF Undelivered
<1>3. received' \in Seq([to: Receivers, body: Payloads])
  <2>1. CASE Call
    <3>1. [to |-> receiver, body |-> body[batch[cursor + 1]]] \in [to: Receivers, body: Payloads]
      BY <1>0, <1>2, <2>1 DEF Call, TypeOK, QueueState
    <3> QED
      BY <1>0, <2>1, <3>1 DEF Call, TypeOK
  <2>2. CASE Skip
    BY <1>0, <2>2 DEF Skip, TypeOK
  <2> QED
    BY <2>1, <2>2
<1>4. TypeOK'
  BY <1>0, <1>1, <1>3 DEF TypeOK, registry, pool, content, threads
<1>5. OneOwner' /\ NoLeak'
  BY <1>0, <1>1 DEF OneOwner, NoLeak, Holding, pool, threads
<1>6. SlotsMatch' /\ SlotsOwned' /\ SendState' /\ MainState'
  BY <1>0, <1>1 DEF SlotsMatch, SlotsOwned, SendState, MainState, registry, content, threads
<1>7. QueueState'
  BY <1>0, <1>1, <1>2 DEF QueueState, registry, content
<1> QED
  BY <1>4, <1>5, <1>6, <1>7 DEF Inv

(* Recycle: the whole batch, none of which is still to be delivered, moves to  *)
(* the free list.                                                              *)
LEMMA RecycleInv == Inv /\ Recycle => Inv'
<1> SUFFICES ASSUME Inv, Recycle PROVE Inv'
  OBVIOUS
<1>0. TypeOK /\ OneOwner /\ NoLeak /\ SlotsMatch /\ SlotsOwned /\ MainState /\ SendState /\ QueueState
  BY DEF Inv
<1>1. /\ available' = available \cup Elements(batch) /\ batch' = <<>> /\ cursor' = 0
      /\ mainPc' = "idle"
      /\ UNCHANGED <<registry, allocated, pending, content, threads, receiver, received>>
  BY DEF Recycle
<1>2. Elements(batch) \subseteq Messages
  BY <1>0 DEF TypeOK, Elements
<1>3. TypeOK'
  BY <1>0, <1>1, <1>2, EmptyElements DEF TypeOK, registry, content, threads
<1>4. OneOwner' /\ NoLeak'
  BY <1>0, <1>1, EmptyElements DEF OneOwner, NoLeak, Holding, threads
<1>5. SlotsMatch' /\ SlotsOwned' /\ SendState' /\ MainState'
  BY <1>0, <1>1 DEF SlotsMatch, SlotsOwned, SendState, MainState, registry, content, threads
<1>6. Undelivered' \subseteq Undelivered
  BY <1>0, <1>1, EmptyElements DEF Undelivered, TypeOK
<1>7. QueueState'
  BY <1>0, <1>1, <1>6 DEF QueueState, registry, content
<1> QED
  BY <1>3, <1>4, <1>5, <1>7 DEF Inv

LEMMA StutterInv == Inv /\ UNCHANGED vars => Inv'
<1> SUFFICES ASSUME Inv, UNCHANGED vars PROVE Inv'
  OBVIOUS
<1> USE DEF vars, registry, pool, content, threads, dispatch
<1>1. TypeOK'
  BY DEF Inv, TypeOK
<1>2. OneOwner' /\ NoLeak'
  BY DEF Inv, OneOwner, NoLeak, Holding
<1>3. SlotsMatch' /\ SendState' /\ SlotsOwned' /\ MainState'
  BY DEF Inv, SlotsMatch, SendState, SlotsOwned, MainState
<1>4. QueueState'
  BY DEF Inv, QueueState, Undelivered
<1> QED
  BY <1>1, <1>2, <1>3, <1>4 DEF Inv

LEMMA NextInv == Inv /\ [Next]_vars => Inv'
<1> SUFFICES ASSUME Inv, [Next]_vars PROVE Inv'
  OBVIOUS
<1>1. ASSUME NEW t \in Threads, NEW s \in Senders, Construct(t, s) \/ Destroy(t, s) \/ Obtain(t, s)
      PROVE  Inv'
  BY <1>1, ConstructInv, DestroyInv, ObtainInv
<1>2. ASSUME NEW t \in Threads, SendStep(t)
      PROVE  Inv'
  BY <1>2, CheckRecycledInv, PushInv DEF SendStep
<1>3. CASE Dispatch
  BY <1>3, TakePendingInv, QuietDispatchInv, AdvanceInv, RecycleInv DEF Dispatch
<1>4. CASE UNCHANGED vars
  BY <1>4, StutterInv
<1> QED
  BY <1>1, <1>2, <1>3, <1>4 DEF Next

(* Inv holds in every reachable state, however senders are destroyed. *)
THEOREM InvHolds == Spec => []Inv
  BY InitInv, NextInv, PTL DEF Spec

(* Every variable keeps its type: in particular DispatchMessage never reads    *)
(* outside mIdentifierToReceivers or its batch.                                *)
THEOREM TypeCorrect == Spec => []TypeOK
<1>1. Inv => TypeOK
  BY DEF Inv
<1> QED
  BY <1>1, InvHolds, PTL

(* A message object is never in two places at once: Obtain, Push and           *)
(* DispatchMessage pass it on and never share it.                              *)
THEOREM OwnershipHolds == Spec => []OneOwner
<1>1. Inv => OneOwner
  BY DEF Inv
<1> QED
  BY <1>1, InvHolds, PTL

(* No message object is ever lost: what Obtain creates always comes back.      *)
THEOREM NoLeakHolds == Spec => []NoLeak
<1>1. Inv => NoLeak
  BY DEF Inv
<1> QED
  BY <1>1, InvHolds, PTL

(* Register and Unregister keep live senders on distinct slots.                *)
THEOREM SlotsMatchHolds == Spec => []SlotsMatch
<1>1. Inv => SlotsMatch
  BY DEF Inv
<1> QED
  BY <1>1, InvHolds, PTL

(* A handler is only entered while a sender to its receiver is alive: the      *)
(* receiver was read from a slot under mRegisterLocker, which Unregister needs. *)
THEOREM NoCallAfterUnregisterHolds == Spec => NoCallAfterUnregister
<1>1. Inv /\ [Next]_vars =>
        [Call => \E s \in Senders : status[s] = "alive" /\ ReceiverOf[s] = receiver]_vars
  <2> SUFFICES ASSUME Inv, Call
               PROVE  \E s \in Senders : status[s] = "alive" /\ ReceiverOf[s] = receiver
    OBVIOUS
  <2> DEFINE i == routing[batch[cursor + 1]]
  <2>1. cursor + 1 \in cursor + 1 .. Len(batch) /\ receiver = slots[i] /\ receiver # NoReceiver
    BY DEF Inv, MainState, Call, TypeOK
  <2>2. i \in 1 .. Len(slots)
    BY <2>1 DEF Inv, QueueState, Undelivered
  <2>3. PICK s \in Senders : status[s] = "alive" /\ identifier[s] = i
    BY <2>1, <2>2 DEF Inv, SlotsOwned
  <2>4. ReceiverOf[s] = slots[i]
    BY <2>3 DEF Inv, SlotsMatch
  <2> QED
    BY <2>1, <2>3, <2>4
<1> QED
  BY <1>1, InvHolds, PTL DEF Spec, NoCallAfterUnregister

--------------------------------------------------------------------------------
(* When senders are drained before they are destroyed *)

(* The identifier of a queued message keeps naming the sender it was sent      *)
(* through, because that sender cannot be destroyed, so its slot is not reused. *)
LEMMA WellRoutedNext ==
    ASSUME Inv, WellRouted, DrainBeforeDestroy, Next
    PROVE  WellRouted'
<1>0. TypeOK /\ OneOwner /\ NoLeak /\ SlotsMatch /\ MainState /\ SendState /\ QueueState
  BY DEF Inv
<1>1. \A m \in Undelivered : m \in Messages /\ m \in Elements(pending) \cup Elements(batch)
  BY <1>0 DEF Undelivered, Elements, TypeOK
<1>2. \A m \in Undelivered : body[m].via \in Senders
  BY <1>0 DEF QueueState, Payloads
<1>3. ASSUME NEW t \in Threads, NEW s \in Senders, Construct(t, s)
      PROVE  WellRouted'
  <2>1. /\ status[s] = "unborn" /\ status' = [status EXCEPT ![s] = "alive"]
        /\ \E n : identifier' = [identifier EXCEPT ![s] = n]
        /\ UNCHANGED <<pending, content, dispatch>>
    BY <1>3 DEF Construct
  <2> QED
    BY <1>0, <1>2, <2>1 DEF WellRouted, Undelivered, TypeOK, content, dispatch
<1>4. ASSUME NEW t \in Threads, NEW s \in Senders, Destroy(t, s)
      PROVE  WellRouted'
  <2>1. /\ Drained(s) /\ status' = [status EXCEPT ![s] = "dead"]
        /\ UNCHANGED <<identifier, pending, content, dispatch>>
    BY <1>4 DEF Destroy
  <2> QED
    BY <1>0, <1>2, <2>1 DEF WellRouted, Drained, Undelivered, TypeOK, content, dispatch
<1>5. ASSUME NEW t \in Threads, NEW s \in Senders, Obtain(t, s)
      PROVE  WellRouted'
  <2>1. PICK m \in IF available # {} THEN available ELSE Messages \ allocated :
           body' = [body EXCEPT ![m] = [via |-> s, by |-> t, no |-> sent[t] + 1]]
    BY <1>5 DEF Obtain
  <2>2. UNCHANGED <<registry, pending, routing, dispatch>>
    BY <1>5 DEF Obtain
  <2>3. m \notin Undelivered
    BY <1>0, <1>1 DEF OneOwner, NoLeak
  <2>4. Undelivered' = Undelivered /\ UNCHANGED <<routing, identifier, status>>
    BY <2>2 DEF Undelivered, registry, dispatch
  <2>5. \A k \in Undelivered : body'[k] = body[k]
    BY <1>0, <1>1, <2>1, <2>3 DEF TypeOK
  <2> QED
    BY <2>4, <2>5 DEF WellRouted
<1>6. ASSUME NEW t \in Threads, CheckRecycled(t)
      PROVE  WellRouted'
  BY <1>6 DEF CheckRecycled, WellRouted, Undelivered, registry, content, dispatch
<1>7. ASSUME NEW t \in Threads, Push(t)
      PROVE  WellRouted'
  <2> DEFINE m == hand[t]  n == identifier[body[m].via]
  <2>1. /\ m \in Messages /\ m \notin Elements(pending) /\ m \notin Elements(batch)
        /\ status[body[m].via] = "alive"
    BY <1>0, <1>7 DEF Push, OneOwner, Holding, SendState
  <2>2. /\ routing' = [routing EXCEPT ![m] = n]
        /\ pending' = Append(pending, m)
        /\ UNCHANGED <<registry, body, dispatch>>
    BY <1>7, <2>1 DEF Push
  <2>3. Undelivered' = Undelivered \cup {m}
    BY <1>0, <2>1, <2>2, AppendElements DEF Undelivered, TypeOK, dispatch
  <2>4. m \notin Undelivered
    BY <1>1, <2>1
  <2> HIDE DEF m
  <2> QED
    BY <1>0, <1>1, <2>1, <2>2, <2>3, <2>4 DEF WellRouted, TypeOK, registry
<1>8. CASE Dispatch
  <2>1. Undelivered' \subseteq Undelivered
    <3>1. CASE TakePending
      BY <1>0, <3>1, EmptyElements DEF TakePending, MainState, Undelivered, Elements, TypeOK
    <3>2. CASE LockRegister \/ ReadSlot \/ HandlerReturns \/ UnlockRegister
      BY <3>2 DEF LockRegister, ReadSlot, HandlerReturns, UnlockRegister, Undelivered
    <3>3. CASE Call \/ Skip
      <4>1. cursor' = cursor + 1 /\ batch' = batch /\ pending' = pending
        BY <3>3 DEF Call, Skip
      <4>2. (cursor + 1) + 1 .. Len(batch) \subseteq cursor + 1 .. Len(batch)
        BY <1>0 DEF TypeOK
      <4> QED
        BY <4>1, <4>2 DEF Undelivered
    <3>4. CASE Recycle
      BY <1>0, <3>4, EmptyElements DEF Recycle, Undelivered, TypeOK
    <3> QED
      BY <1>8, <3>1, <3>2, <3>3, <3>4 DEF Dispatch
  <2>2. UNCHANGED <<registry, content>>
    BY <1>8 DEF Dispatch, TakePending, LockRegister, ReadSlot, HandlerReturns, UnlockRegister,
                Call, Skip, Recycle
  <2> QED
    BY <2>1, <2>2 DEF WellRouted, registry, content
<1> QED
  BY <1>3, <1>4, <1>5, <1>6, <1>7, <1>8 DEF Next, SendStep

LEMMA RightReceiverNext ==
    ASSUME Inv, WellRouted, RightReceiver, Next
    PROVE  RightReceiver'
<1>1. CASE Call
  <2> DEFINE m == batch[cursor + 1]
  <2>1. /\ receiver = slots[routing[m]]
        /\ received' = Append(received, [to |-> receiver, body |-> body[m]])
        /\ cursor + 1 \in cursor + 1 .. Len(batch)
        /\ received \in Seq([to: Receivers, body: Payloads])
    BY <1>1 DEF Inv, MainState, Call, TypeOK
  <2>2. m \in Undelivered
    BY <2>1 DEF Undelivered
  <2>3. receiver = ReceiverOf[body[m].via]
    BY <2>1, <2>2 DEF Inv, WellRouted, SlotsMatch, QueueState, Payloads
  <2>4. [to |-> receiver, body |-> body[m]] \in [to: Receivers, body: Payloads]
    BY <1>1, <2>2 DEF Inv, TypeOK, QueueState, Call
  <2> QED
    BY <2>1, <2>3, <2>4, AppendElements DEF RightReceiver
<1>2. CASE received' = received
  BY <1>2 DEF RightReceiver
<1>3. Call \/ received' = received
  BY DEF Next, SendStep, Construct, Destroy, Obtain, CheckRecycled, Push, Dispatch, TakePending,
         LockRegister, ReadSlot, HandlerReturns, UnlockRegister, Skip, Recycle
<1> QED
  BY <1>1, <1>2, <1>3

LEMMA OrderlyNext == DrainBeforeDestroy /\ Orderly /\ [Next]_vars => Orderly'
<1> SUFFICES ASSUME DrainBeforeDestroy, Orderly, [Next]_vars PROVE Orderly'
  OBVIOUS
<1>1. Inv'
  BY NextInv DEF Orderly
<1>2. CASE Next
  BY <1>1, <1>2, WellRoutedNext, RightReceiverNext DEF Orderly
<1>3. CASE UNCHANGED vars
  <2>1. UNCHANGED <<registry, pending, content, dispatch, received>>
    BY <1>3 DEF vars
  <2> QED
    BY <1>1, <2>1 DEF Orderly, WellRouted, Undelivered, RightReceiver, registry, content, dispatch
<1> QED
  BY <1>2, <1>3

(* If the program destroys a sender only when nothing sent through it is       *)
(* queued, every handler gets what was sent to its own receiver.  Without the  *)
(* assumption the run sync_reuse refutes it.                                   *)
THEOREM RightReceiverHolds == DrainBeforeDestroy => (Spec => []RightReceiver)
<1> SUFFICES ASSUME DrainBeforeDestroy PROVE Spec => []RightReceiver
  OBVIOUS
<1>1. Init => Orderly
  BY InitInv, EmptyElements
     DEF Init, Orderly, WellRouted, Undelivered, RightReceiver
<1>2. Orderly /\ [Next]_vars => Orderly'
  BY OrderlyNext
<1>3. Orderly => RightReceiver
  BY DEF Orderly
<1> QED
  BY <1>1, <1>2, <1>3, PTL DEF Spec

--------------------------------------------------------------------------------
(* The queue as a mailbox                                                      *)

(* Only what was pushed counts as posted. *)
Posted == [t \in Threads |-> IF pc[t] = "idle" THEN sent[t] ELSE sent[t] - 1]

(* What is on its way to the receivers, oldest first. *)
Letters == [i \in 1 .. Len(InFlight) |-> body[InFlight[i]]]

(* A thread inside Send holds the message it sends. *)
HandState ==
    \A t \in Threads :
        /\ sent[t] <= MaxSends
        /\ pc[t] # "idle" => body[hand[t]].by = t /\ body[hand[t]].no = sent[t]

(* Each thread's messages are numbered upwards, from what was received (r) over *)
(* what is queued (l) to what is posted next (p).                              *)
InTurn(r, l, p) ==
    /\ \A i, j \in 1 .. Len(r) :
         i < j /\ r[i].body.by = r[j].body.by => r[i].body.no < r[j].body.no
    /\ \A i, j \in 1 .. Len(l) : i < j /\ l[i].by = l[j].by => l[i].no < l[j].no
    /\ \A i \in 1 .. Len(r), j \in 1 .. Len(l) : r[i].body.by = l[j].by => r[i].body.no < l[j].no
    /\ \A i \in 1 .. Len(l) : l[i].no <= p[l[i].by]
    /\ \A i \in 1 .. Len(r) : r[i].body.no <= p[r[i].body.by]

OrderInv == InTurn(received, Letters, Posted)

LEMMA HandNext ==
    ASSUME Inv, HandState, [Next]_vars
    PROVE  HandState'
<1> USE DEF HandState
<1>0. TypeOK /\ OneOwner /\ NoLeak /\ SendState
  BY DEF Inv
<1>1. ASSUME NEW t \in Threads, NEW s \in Senders, Obtain(t, s)
      PROVE  HandState'
  <2>1. PICK m \in IF available # {} THEN available ELSE Messages \ allocated :
          /\ hand' = [hand EXCEPT ![t] = m]
          /\ body' = [body EXCEPT ![m] = [via |-> s, by |-> t, no |-> sent[t] + 1]]
    BY <1>1 DEF Obtain
  <2>2. /\ sent' = [sent EXCEPT ![t] = @ + 1] /\ sent[t] < MaxSends
        /\ pc' = [pc EXCEPT ![t] = "obtained"]
    BY <1>1 DEF Obtain
  <2>3. m \in Messages
    BY <1>0, <2>1 DEF TypeOK
  <2>4. ASSUME NEW u \in Threads, u # t, pc[u] # "idle"
        PROVE  hand[u] # m /\ body'[hand[u]] = body[hand[u]]
    <3>1. hand[u] \in Holding(u) /\ hand[u] \in Messages
      BY <1>0, <2>4 DEF Holding, SendState
    <3>2. hand[u] \notin available /\ hand[u] \in allocated
      BY <1>0, <3>1 DEF OneOwner, NoLeak
    <3> QED
      BY <1>0, <2>1, <3>1, <3>2 DEF TypeOK
  <2>5. ASSUME NEW u \in Threads, u # t
        PROVE  /\ sent'[u] <= MaxSends
               /\ pc'[u] # "idle" => body'[hand'[u]].by = u /\ body'[hand'[u]].no = sent'[u]
    BY <1>0, <2>1, <2>2, <2>4, <2>5 DEF TypeOK
  <2>6. /\ sent'[t] <= MaxSends
        /\ pc'[t] # "idle" => body'[hand'[t]].by = t /\ body'[hand'[t]].no = sent'[t]
    <3>1. hand'[t] = m /\ sent'[t] = sent[t] + 1
      BY <1>0, <2>1, <2>2 DEF TypeOK
    <3>2. body'[m] = [via |-> s, by |-> t, no |-> sent[t] + 1]
      BY <1>0, <2>1, <2>3 DEF TypeOK
    <3>3. sent[t] + 1 <= MaxSends
      BY <1>0, <2>2 DEF TypeOK
    <3> QED
      BY <3>1, <3>2, <3>3
  <2> QED
    BY <2>5, <2>6
<1>2. ASSUME NEW t \in Threads, SendStep(t)
      PROVE  HandState'
  <2>1. /\ UNCHANGED <<sent, body>>
        /\ \E l \in {"idle", "checked"} : pc' = [pc EXCEPT ![t] = l]
        /\ hand' = hand \/ (hand' = [hand EXCEPT ![t] = NoMessage] /\ pc' = [pc EXCEPT ![t] = "idle"])
        /\ pc[t] # "idle"
    BY <1>2 DEF SendStep, CheckRecycled, Push, content
  <2> QED
    BY <1>0, <2>1 DEF TypeOK
<1>3. CASE UNCHANGED <<body, threads>>
  BY <1>3 DEF threads
<1> QED
  BY <1>1, <1>2, <1>3 DEF Next, Construct, Destroy, Dispatch, TakePending, LockRegister, ReadSlot,
     Call, Skip, HandlerReturns, UnlockRegister, Recycle, content, vars

(* The queue of letters: what is left of the batch, then what is pending.        *)
LettersFacts ==
    /\ Letters \in Seq(Payloads)
    /\ Len(batch) \in Nat /\ cursor \in 0 .. Len(batch) /\ Len(pending) \in Nat
    /\ Len(Letters) = Len(batch) - cursor + Len(pending)
    /\ \A i \in 1 .. Len(InFlight) : InFlight[i] \in Undelivered
    /\ \A i \in 1 .. Len(Letters) :
         IF i <= Len(batch) - cursor
         THEN Letters[i] = body[batch[cursor + i]] /\ batch[cursor + i] \in Undelivered
         ELSE /\ Letters[i] = body[pending[i - (Len(batch) - cursor)]]
              /\ pending[i - (Len(batch) - cursor)] \in Undelivered

LEMMA LettersAre == Inv => LettersFacts
<1> SUFFICES ASSUME Inv PROVE LettersFacts
  OBVIOUS
<1>1. /\ batch \in Seq(Messages) /\ pending \in Seq(Messages) /\ cursor \in 0 .. Len(batch)
      /\ Len(batch) \in Nat /\ Len(pending) \in Nat
  BY DEF Inv, TypeOK
<1> DEFINE n == Len(batch) - cursor
           b == SubSeq(batch, cursor + 1, Len(batch))
<1>2. /\ b \in Seq(Messages) /\ Len(b) = n /\ n \in Nat
      /\ \A i \in 1 .. n : b[i] = batch[cursor + i]
  <2>1. \A i \in cursor + 1 .. Len(batch) : batch[i] \in Messages
    BY <1>1
  <2>2. cursor + 1 \in Int /\ Len(batch) \in Int
    BY <1>1
  <2>3. /\ b \in Seq(Messages)
        /\ Len(b) = IF cursor + 1 <= Len(batch) THEN Len(batch) - (cursor + 1) + 1 ELSE 0
        /\ \A i \in 1 .. Len(batch) - (cursor + 1) + 1 : b[i] = batch[cursor + 1 + i - 1]
    BY <2>1, <2>2, SubSeqProperties
  <2> HIDE DEF b
  <2> QED
    BY <1>1, <2>3
<1>3. /\ InFlight \in Seq(Messages) /\ Len(InFlight) = n + Len(pending)
      /\ \A i \in 1 .. n + Len(pending) : InFlight[i] = IF i <= n THEN b[i] ELSE pending[i - n]
  <2>1. InFlight = b \o pending
    BY DEF InFlight
  <2> HIDE DEF b, n
  <2>2. /\ b \o pending \in Seq(Messages) /\ Len(b \o pending) = Len(b) + Len(pending)
        /\ \A i \in 1 .. Len(b) + Len(pending) :
             (b \o pending)[i] = IF i <= Len(b) THEN b[i] ELSE pending[i - Len(b)]
    BY <1>1, <1>2, ConcatProperties
  <2> QED
    BY <1>2, <2>1, <2>2
<1> HIDE DEF b
<1>4. ASSUME NEW i \in 1 .. n + Len(pending)
      PROVE  IF i <= n THEN InFlight[i] = batch[cursor + i] /\ batch[cursor + i] \in Undelivered
             ELSE InFlight[i] = pending[i - n] /\ pending[i - n] \in Undelivered
  <2>1. CASE i <= n
    <3>1. i \in 1 .. n /\ cursor + i \in cursor + 1 .. Len(batch)
      BY <1>1, <1>2, <2>1
    <3> QED
      BY <1>2, <1>3, <2>1, <3>1 DEF Undelivered
  <2>2. CASE ~(i <= n)
    <3>1. i - n \in 1 .. Len(pending)
      BY <1>1, <1>2, <2>2
    <3> QED
      BY <1>3, <2>2, <3>1 DEF Undelivered, Elements
  <2> QED
    BY <2>1, <2>2
<1> HIDE DEF n
<1>5. \A i \in 1 .. n + Len(pending) : InFlight[i] \in Undelivered
  BY <1>4
<1>6. \A i \in 1 .. n + Len(pending) : body[InFlight[i]] \in Payloads
  BY <1>5 DEF Inv, QueueState
<1>7. Letters = [i \in 1 .. n + Len(pending) |-> body[InFlight[i]]]
  BY <1>3 DEF Letters
<1>8. n + Len(pending) \in Nat
  BY <1>1, <1>2
<1>9. Letters \in Seq(Payloads) /\ Len(Letters) = n + Len(pending)
  BY <1>6, <1>7, <1>8
<1>10. \A i \in 1 .. n + Len(pending) : Letters[i] = body[InFlight[i]]
  BY <1>7
<1> QED
  BY <1>1, <1>3, <1>4, <1>5, <1>9, <1>10 DEF LettersFacts, n

LEMMA LettersAreNext == Inv' => LettersFacts'
<1>1. (Inv => LettersFacts)'
  BY LettersAre, PTL
<1> QED
  BY <1>1

(* What a step does to the letters *)

QuietStep == Letters' = Letters /\ Posted' = Posted /\ received' = received

PostStep ==
    \E t \in Threads, s \in Senders :
        /\ status[s] = "alive" /\ Posted[t] < MaxSends
        /\ Posted' = [Posted EXCEPT ![t] = @ + 1]
        /\ Letters' = Append(Letters, [via |-> s, by |-> t, no |-> Posted[t] + 1])
        /\ UNCHANGED <<status, received>>

DropStep == Letters # <<>> /\ Letters' = Tail(Letters) /\ Posted' = Posted

HandedStep ==
    /\ DropStep
    /\ received' = Append(received, [to |-> receiver, body |-> Head(Letters)])

LEMMA PostedTyped == Inv => Posted \in [Threads -> Int]
BY DEF Inv, TypeOK, Posted

LEMMA ObtainLetters ==
    ASSUME Inv, NEW t \in Threads, NEW s \in Senders, Obtain(t, s)
    PROVE  QuietStep /\ UNCHANGED status
<1>0. TypeOK /\ OneOwner /\ NoLeak /\ LettersFacts
  BY LettersAre DEF Inv
<1>1. PICK m \in IF available # {} THEN available ELSE Messages \ allocated :
        body' = [body EXCEPT ![m] = [via |-> s, by |-> t, no |-> sent[t] + 1]]
  BY DEF Obtain
<1>2. /\ UNCHANGED <<batch, cursor, pending, received, status>>
      /\ sent' = [sent EXCEPT ![t] = @ + 1] /\ pc[t] = "idle"
      /\ pc' = [pc EXCEPT ![t] = "obtained"]
  BY DEF Obtain, Free, registry, dispatch
<1>3. InFlight' = InFlight
  BY <1>2 DEF InFlight
<1>4. \A k \in Undelivered : k \in Messages /\ k # m
  <2>1. \A k \in Undelivered : k \in Messages /\ k \in Elements(pending) \cup Elements(batch)
    BY <1>0 DEF Undelivered, Elements, TypeOK
  <2> QED
    BY <1>0, <1>1, <2>1 DEF OneOwner, NoLeak
<1>5. \A k \in Undelivered : body'[k] = body[k]
  BY <1>0, <1>1, <1>4 DEF TypeOK
<1>6. Undelivered' = Undelivered
  BY <1>2 DEF Undelivered
<1>7. \A i \in 1 .. Len(InFlight) : InFlight[i] \in Undelivered
  BY <1>0 DEF LettersFacts
<1>8. Letters' = Letters
  BY <1>3, <1>5, <1>7 DEF Letters
<1>9. Posted' = Posted
  BY <1>0, <1>2 DEF Posted, TypeOK
<1> QED
  BY <1>2, <1>8, <1>9 DEF QuietStep

(* A sequence is known by its length and its elements. *)
LEMMA AppendIs ==
    ASSUME NEW S, NEW b \in Seq(S), NEW d \in Seq(S), NEW p \in S,
           Len(d) = Len(b) + 1, d[Len(b) + 1] = p, \A i \in 1 .. Len(b) : d[i] = b[i]
    PROVE  d = Append(b, p)
<1> DEFINE a == Append(b, p)
<1>1. /\ a \in Seq(S) /\ Len(a) = Len(b) + 1 /\ a[Len(b) + 1] = p /\ Len(b) \in Nat
      /\ \A i \in 1 .. Len(b) : a[i] = b[i]
  OBVIOUS
<1>2. \A i \in 1 .. Len(b) + 1 : i = Len(b) + 1 \/ i \in 1 .. Len(b)
  BY <1>1
<1> HIDE DEF a
<1>3. \A i \in 1 .. Len(d) : d[i] = a[i]
  BY <1>1, <1>2
<1>4. Len(d) = Len(a)
  BY <1>1
<1>5. d = a
  BY <1>1, <1>3, <1>4, SeqEqual
<1> QED
  BY <1>5 DEF a

LEMMA PushLetters ==
    ASSUME Inv, Inv', HandState, NEW t \in Threads, Push(t)
    PROVE  PostStep
<1> DEFINE m == hand[t]
           s == body[m].via
<1>0. TypeOK /\ OneOwner /\ SendState /\ LettersFacts /\ LettersFacts'
  BY LettersAre, LettersAreNext DEF Inv
<1>1. pc[t] = "checked" /\ pc' = [pc EXCEPT ![t] = "idle"] /\ UNCHANGED <<sent, body, batch, cursor, status, received>>
  BY DEF Push, registry, dispatch
<1>2. /\ m \in Messages /\ body[m] \in Payloads /\ status[s] = "alive"
      /\ m \notin Elements(pending) /\ body[m].by = t /\ body[m].no = sent[t] /\ sent[t] <= MaxSends
  BY <1>0, <1>1 DEF SendState, OneOwner, Holding, HandState
<1>3. pending' = Append(pending, m)
  BY <1>2 DEF Push
<1>4. s \in Senders /\ body[m] = [via |-> s, by |-> t, no |-> sent[t]]
  BY <1>2 DEF Payloads
<1>5. Posted[t] = sent[t] - 1 /\ sent[t] \in Nat
  BY <1>0, <1>1 DEF Posted, TypeOK
<1>6. Posted' = [Posted EXCEPT ![t] = @ + 1]
  <2>1. \A u \in Threads : pc'[u] = IF u = t THEN "idle" ELSE pc[u]
    BY <1>0, <1>1 DEF TypeOK
  <2>2. ASSUME NEW u \in Threads
        PROVE  Posted'[u] = IF u = t THEN Posted[t] + 1 ELSE Posted[u]
    <3>1. CASE u = t
      BY <1>1, <1>5, <2>1, <3>1 DEF Posted
    <3>2. CASE u # t
      BY <1>1, <2>1, <3>2 DEF Posted
    <3> QED
      BY <3>1, <3>2
  <2>3. /\ Posted' = [u \in Threads |-> Posted'[u]]
        /\ Posted = [u \in Threads |-> Posted[u]]
    BY DEF Posted
  <2> HIDE DEF m, s
  <2> QED
    BY <2>2, <2>3
<1> DEFINE p == [via |-> s, by |-> t, no |-> Posted[t] + 1]
           b == Letters
           d == Letters'
<1>7. p = body[m] /\ p \in Payloads
  BY <1>2, <1>4, <1>5
<1>8. Letters' = Append(Letters, p)
  <2>1. Len(pending') = Len(pending) + 1 /\ pending'[Len(pending) + 1] = m
        /\ \A i \in 1 .. Len(pending) : pending'[i] = pending[i]
    BY <1>0, <1>2, <1>3 DEF TypeOK
  <2>2. /\ Len(batch) \in Nat /\ cursor \in Nat /\ cursor <= Len(batch) /\ Len(pending) \in Nat
        /\ Len(b) = Len(batch) - cursor + Len(pending)
        /\ Len(d) = Len(batch) - cursor + Len(pending) + 1
        /\ b \in Seq(Payloads) /\ d \in Seq(Payloads)
    BY <1>0, <1>1, <2>1 DEF LettersFacts
  <2> DEFINE n == Len(batch) - cursor
  <2>3. \A i \in 1 .. Len(b) :
          /\ i <= n => b[i] = body[batch[cursor + i]]
          /\ ~(i <= n) => b[i] = body[pending[i - n]]
    BY <1>0 DEF LettersFacts
  <2>4. \A i \in 1 .. Len(d) :
          /\ i <= n => d[i] = body[batch[cursor + i]]
          /\ ~(i <= n) => d[i] = body[pending'[i - n]]
    BY <1>0, <1>1 DEF LettersFacts
  <2>5. n \in Nat
    BY <2>2
  <2> HIDE DEF b, d, n, p, m
  <2>6. /\ Len(b) = n + Len(pending) /\ Len(d) = n + Len(pending) + 1
        /\ Len(b) \in Nat /\ Len(d) \in Nat
    BY <2>2 DEF n
  <2>7. ASSUME NEW i \in 1 .. Len(b)
        PROVE  d[i] = b[i]
    <3>1. i \in 1 .. Len(d) /\ i \in Nat
      BY <2>6
    <3>2. CASE i <= n
      BY <2>3, <2>4, <3>1, <3>2
    <3>3. CASE ~(i <= n)
      <4>1. i - n \in 1 .. Len(pending)
        BY <2>2, <2>5, <2>6, <3>1, <3>3
      <4>2. pending'[i - n] = pending[i - n]
        BY <2>1, <4>1
      <4>3. b[i] = body[pending[i - n]] /\ d[i] = body[pending'[i - n]]
        BY <2>3, <2>4, <3>1, <3>3
      <4> QED
        BY <4>2, <4>3
    <3> QED
      BY <3>2, <3>3
  <2>8. d[Len(b) + 1] = p
    <3>1. /\ Len(b) + 1 \in 1 .. Len(d) /\ ~(Len(b) + 1 <= n)
          /\ (Len(b) + 1) - n = Len(pending) + 1
      BY <2>2, <2>5, <2>6
    <3>2. d[Len(b) + 1] = body[pending'[(Len(b) + 1) - n]]
      BY <2>4, <3>1
    <3> QED
      BY <1>7, <2>1, <3>1, <3>2
  <2>9. d = Append(b, p)
    <3>1. /\ b \in Seq(Payloads) /\ d \in Seq(Payloads) /\ p \in Payloads
          /\ Len(d) = Len(b) + 1 /\ d[Len(b) + 1] = p
          /\ \A i \in 1 .. Len(b) : d[i] = b[i]
      BY <1>7, <2>2, <2>6, <2>7, <2>8
    <3> QED
      BY <3>1, AppendIs
  <2> QED
    BY <2>9 DEF b, d
<1>9. Posted[t] < MaxSends
  BY <1>2, <1>5
<1> QED
  BY <1>1, <1>2, <1>4, <1>6, <1>8, <1>9 DEF PostStep

(* TakePending and Recycle move whole queues. *)
LEMMA MovedLetters ==
    ASSUME Inv, Inv', TakePending \/ Recycle
    PROVE  QuietStep /\ UNCHANGED status
<1>0. LettersFacts /\ LettersFacts' /\ MainState /\ TypeOK
  BY LettersAre, LettersAreNext DEF Inv
<1>1. UNCHANGED <<body, pc, sent, status, received>>
  BY DEF TakePending, Recycle, registry, content, threads
<1> DEFINE b == Letters
           d == Letters'
<1>2. b \in Seq(Payloads) /\ d \in Seq(Payloads)
  BY <1>0 DEF LettersFacts
<1>3. Len(d) = Len(b) /\ \A i \in 1 .. Len(b) : d[i] = b[i]
  <2>1. CASE TakePending
    <3>1. /\ batch = <<>> /\ cursor = 0 /\ cursor' = 0 /\ batch' = pending /\ pending' = <<>>
      BY <1>0, <2>1 DEF TakePending, MainState
    <3>2. Len(batch) = 0 /\ Len(pending') = 0 /\ Len(pending) \in Nat
      BY <1>0, <3>1 DEF TypeOK
    <3>3. Len(b) = Len(pending) /\ Len(d) = Len(pending)
      BY <1>0, <3>1, <3>2 DEF LettersFacts
    <3>4. ASSUME NEW i \in 1 .. Len(b)
          PROVE  b[i] = body[pending[i]] /\ d[i] = body[pending[i]]
      <4>1. b[i] = body[pending[i - (Len(batch) - cursor)]]
        BY <1>0, <3>1, <3>2, <3>3 DEF LettersFacts
      <4>2. d[i] = body'[batch'[cursor' + i]]
        BY <1>0, <3>1, <3>2, <3>3 DEF LettersFacts
      <4>3. i - (Len(batch) - cursor) = i /\ cursor' + i = i
        BY <3>1, <3>2, <3>3
      <4> QED
        BY <1>1, <3>1, <4>1, <4>2, <4>3
    <3> QED
      BY <3>3, <3>4
  <2>2. CASE Recycle
    <3>1. cursor = Len(batch) /\ cursor' = 0 /\ batch' = <<>> /\ pending' = pending
      BY <1>0, <2>2 DEF Recycle, MainState
    <3>2. Len(batch') = 0 /\ Len(pending) \in Nat /\ Len(batch) \in Nat
      BY <1>0, <3>1 DEF TypeOK
    <3>3. Len(b) = Len(pending) /\ Len(d) = Len(pending)
      BY <1>0, <3>1, <3>2 DEF LettersFacts
    <3>4. ASSUME NEW i \in 1 .. Len(b)
          PROVE  b[i] = body[pending[i]] /\ d[i] = body[pending[i]]
      <4>1. b[i] = body[pending[i - (Len(batch) - cursor)]]
        BY <1>0, <3>1, <3>2, <3>3 DEF LettersFacts
      <4>2. d[i] = body'[pending'[i - (Len(batch') - cursor')]]
        BY <1>0, <3>1, <3>2, <3>3 DEF LettersFacts
      <4>3. i - (Len(batch) - cursor) = i /\ i - (Len(batch') - cursor') = i
        BY <3>1, <3>2, <3>3
      <4> QED
        BY <1>1, <3>1, <4>1, <4>2, <4>3
    <3> QED
      BY <3>3, <3>4
  <2> QED
    BY <2>1, <2>2
<1>4. d = b
  <2> HIDE DEF b, d
  <2> QED
    BY <1>2, <1>3, SeqEqual
<1>5. Posted' = Posted
  BY <1>1 DEF Posted
<1> QED
  BY <1>1, <1>4, <1>5 DEF QuietStep

LEMMA AdvanceLetters ==
    ASSUME Inv, Inv', Call \/ Skip
    PROVE  DropStep /\ UNCHANGED status /\ Head(Letters) = body[batch[cursor + 1]]
<1>0. LettersFacts /\ LettersFacts' /\ MainState
  BY LettersAre, LettersAreNext DEF Inv
<1>1. /\ UNCHANGED <<body, pc, sent, status, batch, pending>>
      /\ cursor' = cursor + 1 /\ cursor < Len(batch)
  BY <1>0 DEF Call, Skip, registry, content, threads, MainState
<1> DEFINE b == Letters
           d == Letters'
<1>2. /\ Len(batch) \in Nat /\ cursor \in Nat /\ Len(pending) \in Nat
      /\ Len(b) = Len(batch) - cursor + Len(pending) /\ Len(d) = Len(b) - 1 /\ Len(b) > 0
      /\ b \in Seq(Payloads) /\ d \in Seq(Payloads)
  BY <1>0, <1>1 DEF LettersFacts
<1> DEFINE n == Len(batch) - (cursor + 1)
<1>3. \A i \in 1 .. Len(b) :
        /\ i <= n + 1 => b[i] = body[batch[cursor + i]]
        /\ ~(i <= n + 1) => b[i] = body[pending[i - (n + 1)]]
  <2>1. \A i \in 1 .. Len(b) :
          /\ i <= Len(batch) - cursor => b[i] = body[batch[cursor + i]]
          /\ ~(i <= Len(batch) - cursor) => b[i] = body[pending[i - (Len(batch) - cursor)]]
    BY <1>0 DEF LettersFacts
  <2>2. Len(batch) - cursor = n + 1
    BY <1>2
  <2> QED
    BY <2>1, <2>2
<1>4. \A i \in 1 .. Len(d) :
        /\ i <= n => d[i] = body[batch[cursor + 1 + i]]
        /\ ~(i <= n) => d[i] = body[pending[i - n]]
  BY <1>0, <1>1 DEF LettersFacts
<1>5. n \in Nat /\ Len(b) = n + 1 + Len(pending)
  BY <1>1, <1>2
<1> HIDE DEF b, d, n
<1>5a. ASSUME NEW i \in 1 .. Len(d)
       PROVE  d[i] = b[i + 1]
  <2>1. /\ i \in Nat /\ i + 1 \in 1 .. Len(b) /\ cursor + (i + 1) = cursor + 1 + i
        /\ i + 1 <= n + 1 <=> i <= n
        /\ (i + 1) - (n + 1) = i - n
    BY <1>2, <1>5
  <2>2. CASE i <= n
    BY <1>3, <1>4, <2>1, <2>2
  <2>3. CASE ~(i <= n)
    <3>1. d[i] = body[pending[i - n]]
      BY <1>4, <2>3
    <3>2. b[i + 1] = body[pending[(i + 1) - (n + 1)]]
      BY <1>3, <2>1, <2>3
    <3> QED
      BY <2>1, <3>1, <3>2
  <2> QED
    BY <2>2, <2>3
<1>6. b[1] = body[batch[cursor + 1]]
  <2>1. 1 \in 1 .. Len(b) /\ 1 <= n + 1
    BY <1>2, <1>5
  <2> QED
    BY <1>3, <2>1
<1>7. b # <<>> /\ d = Tail(b) /\ Head(b) = b[1]
  <2> HIDE DEF b, d
  <2>1. /\ b # <<>> /\ Head(b) = b[1] /\ Tail(b) \in Seq(Payloads) /\ Len(Tail(b)) = Len(b) - 1
        /\ \A i \in 1 .. Len(b) - 1 : Tail(b)[i] = b[i + 1]
    BY <1>2
  <2>2. Len(d) = Len(Tail(b)) /\ \A i \in 1 .. Len(d) : d[i] = Tail(b)[i]
    BY <1>2, <1>5a, <2>1
  <2> QED
    BY <1>2, <2>1, <2>2, SeqEqual
<1>8. Posted' = Posted
  BY <1>1 DEF Posted
<1> QED
  BY <1>1, <1>6, <1>7, <1>8 DEF DropStep, b, d

LEMMA LetterSteps ==
    ASSUME Inv, Inv', HandState, [Next]_vars
    PROVE  \/ QuietStep
           \/ PostStep
           \/ Call /\ HandedStep /\ Head(Letters) = body[batch[cursor + 1]] /\ UNCHANGED status
           \/ Skip /\ DropStep /\ received' = received
<1>1. ASSUME NEW t \in Threads, NEW s \in Senders, Construct(t, s) \/ Destroy(t, s)
      PROVE  QuietStep
  BY <1>1 DEF Construct, Destroy, QuietStep, Letters, InFlight, Posted, content, threads, dispatch
<1>2. ASSUME NEW t \in Threads, NEW s \in Senders, Obtain(t, s)
      PROVE  QuietStep
  BY <1>2, ObtainLetters
<1>3. ASSUME NEW t \in Threads, CheckRecycled(t)
      PROVE  QuietStep
  <2>1. hand[t] \notin available
    BY <1>3 DEF CheckRecycled, Inv, OneOwner, Holding
  <2>2. /\ pc[t] = "obtained" /\ pc' = [pc EXCEPT ![t] = "checked"]
        /\ UNCHANGED <<sent, body, batch, cursor, pending, received>>
    BY <1>3, <2>1 DEF CheckRecycled, content, dispatch
  <2>3. Posted' = Posted
    BY <2>2 DEF Posted, Inv, TypeOK
  <2> QED
    BY <2>2, <2>3 DEF QuietStep, Letters, InFlight
<1>4. ASSUME NEW t \in Threads, Push(t)
      PROVE  PostStep
  BY <1>4, PushLetters
<1>5. CASE TakePending \/ Recycle
  BY <1>5, MovedLetters
<1>6. CASE LockRegister \/ ReadSlot \/ HandlerReturns \/ UnlockRegister \/ UNCHANGED vars
  <2>1. UNCHANGED <<body, pc, sent, batch, cursor, pending, received>>
    BY <1>6 DEF LockRegister, ReadSlot, HandlerReturns, UnlockRegister, content, threads, vars, dispatch
  <2> QED
    BY <2>1 DEF QuietStep, Letters, InFlight, Posted
<1>7. CASE Call
  <2>1. DropStep /\ UNCHANGED status /\ Head(Letters) = body[batch[cursor + 1]]
    BY <1>7, AdvanceLetters
  <2>2. received' = Append(received, [to |-> receiver, body |-> body[batch[cursor + 1]]])
    BY <1>7 DEF Call
  <2> QED
    BY <1>7, <2>1, <2>2 DEF HandedStep
<1>8. CASE Skip
  <2>1. DropStep
    BY <1>8, AdvanceLetters
  <2>2. received' = received
    BY <1>8 DEF Skip
  <2> QED
    BY <1>8, <2>1, <2>2
<1> QED
  BY <1>1, <1>2, <1>3, <1>4, <1>5, <1>6, <1>7, <1>8 DEF Next, SendStep, Dispatch
Deliveries == [to: Receivers, body: Payloads]

LEMMA PostInTurn ==
    ASSUME NEW r \in Seq(Deliveries), NEW l \in Seq(Payloads), NEW p \in [Threads -> Int],
           NEW x \in Payloads, InTurn(r, l, p), x.no = p[x.by] + 1
    PROVE  InTurn(r, Append(l, x), [p EXCEPT ![x.by] = @ + 1])
<1> DEFINE a == Append(l, x)
           q == [p EXCEPT ![x.by] = @ + 1]
<1>1. /\ Len(l) \in Nat /\ Len(a) = Len(l) + 1 /\ a[Len(l) + 1] = x
      /\ \A i \in 1 .. Len(l) : a[i] = l[i]
  OBVIOUS
<1>2. /\ x.by \in Threads /\ x.no \in Int
      /\ \A i \in 1 .. Len(l) : l[i].by \in Threads /\ l[i].no \in Int
      /\ \A i \in 1 .. Len(r) : r[i].body.by \in Threads /\ r[i].body.no \in Int
  <2>1. \A y \in Payloads : y.by \in Threads /\ y.no \in Int
    BY BoundAssumption DEF Payloads
  <2>2. \A i \in 1 .. Len(l) : l[i] \in Payloads
    OBVIOUS
  <2>3. \A i \in 1 .. Len(r) : r[i] \in Deliveries
    OBVIOUS
  <2>4. \A y \in Deliveries : y.body \in Payloads
    BY DEF Deliveries
  <2> QED
    BY <2>1, <2>2, <2>3, <2>4
<1>3. \A t \in Threads : p[t] \in Int /\ q[t] = IF t = x.by THEN p[t] + 1 ELSE p[t]
  BY <1>2
<1>4. \A t \in Threads : p[t] <= q[t]
  BY <1>3
<1> HIDE DEF a, q
<1>5. \A i \in 1 .. Len(a) : i \in 1 .. Len(l) \/ (i = Len(l) + 1 /\ a[i] = x)
  BY <1>1
<1>6. \A i, j \in 1 .. Len(a) : i < j => i \in 1 .. Len(l)
  BY <1>1
<1>7. \A i, j \in 1 .. Len(a) : i < j /\ a[i].by = a[j].by => a[i].no < a[j].no
  <2>1. ASSUME NEW i \in 1 .. Len(a), NEW j \in 1 .. Len(a), i < j, a[i].by = a[j].by
        PROVE  a[i].no < a[j].no
    <3>1. i \in 1 .. Len(l) /\ a[i] = l[i]
      BY <1>1, <1>6, <2>1
    <3>2. CASE j \in 1 .. Len(l)
      BY <1>1, <2>1, <3>1, <3>2 DEF InTurn
    <3>3. CASE a[j] = x
      <4>1. l[i].no <= p[l[i].by] /\ l[i].by = x.by /\ p[x.by] \in Int /\ l[i].no \in Int
        BY <1>2, <1>3, <2>1, <3>1, <3>3 DEF InTurn
      <4> QED
        BY <3>1, <3>3, <4>1
    <3> QED
      BY <1>5, <3>2, <3>3
  <2> QED
    BY <2>1
<1>8. \A i \in 1 .. Len(r), j \in 1 .. Len(a) : r[i].body.by = a[j].by => r[i].body.no < a[j].no
  <2>1. ASSUME NEW i \in 1 .. Len(r), NEW j \in 1 .. Len(a), r[i].body.by = a[j].by
        PROVE  r[i].body.no < a[j].no
    <3>1. CASE j \in 1 .. Len(l)
      BY <1>1, <2>1, <3>1 DEF InTurn
    <3>2. CASE a[j] = x
      <4>1. r[i].body.no <= p[x.by] /\ p[x.by] \in Int /\ r[i].body.no \in Int
        BY <1>2, <1>3, <2>1, <3>2 DEF InTurn
      <4> QED
        BY <3>2, <4>1
    <3> QED
      BY <1>5, <3>1, <3>2
  <2> QED
    BY <2>1
<1>9. \A i \in 1 .. Len(a) : a[i].no <= q[a[i].by]
  <2>1. ASSUME NEW i \in 1 .. Len(a)
        PROVE  a[i].no <= q[a[i].by]
    <3>1. CASE i \in 1 .. Len(l)
      <4>1. a[i] = l[i] /\ l[i].no <= p[l[i].by] /\ l[i].no \in Int /\ l[i].by \in Threads
        BY <1>1, <1>2, <3>1 DEF InTurn
      <4>2. p[l[i].by] \in Int /\ q[l[i].by] \in Int /\ p[l[i].by] <= q[l[i].by]
        BY <1>3, <1>4, <4>1
      <4>3. l[i].no <= q[l[i].by]
        BY <4>1, <4>2
      <4> QED
        BY <4>1, <4>3
    <3>2. CASE a[i] = x
      BY <1>2, <1>3, <3>2
    <3> QED
      BY <1>5, <3>1, <3>2
  <2> QED
    BY <2>1
<1>10. \A i \in 1 .. Len(r) : r[i].body.no <= q[r[i].body.by]
  <2>1. ASSUME NEW i \in 1 .. Len(r)
        PROVE  r[i].body.no <= q[r[i].body.by]
    <3>1. r[i].body.no <= p[r[i].body.by] /\ r[i].body.no \in Int /\ r[i].body.by \in Threads
      BY <1>2 DEF InTurn
    <3>2. p[r[i].body.by] \in Int /\ q[r[i].body.by] \in Int /\ p[r[i].body.by] <= q[r[i].body.by]
      BY <1>3, <1>4, <3>1
    <3> QED
      BY <3>1, <3>2
  <2> QED
    BY <2>1
<1>11. \A i, j \in 1 .. Len(r) :
         i < j /\ r[i].body.by = r[j].body.by => r[i].body.no < r[j].body.no
  BY DEF InTurn
<1>12. InTurn(r, a, q)
  BY <1>7, <1>8, <1>9, <1>10, <1>11 DEF InTurn
<1> QED
  BY <1>12 DEF a, q

LEMMA DropInTurn ==
    ASSUME NEW r \in Seq(Deliveries), NEW l \in Seq(Payloads), NEW p, l # <<>>, InTurn(r, l, p)
    PROVE  InTurn(r, Tail(l), p)
<1> DEFINE d == Tail(l)
<1>1. /\ Len(l) \in Nat /\ Len(d) = Len(l) - 1
      /\ \A i \in 1 .. Len(d) : d[i] = l[i + 1]
  OBVIOUS
<1> HIDE DEF d
<1>2. \A i \in 1 .. Len(d) : i + 1 \in 1 .. Len(l)
  BY <1>1
<1>3. \A i, j \in 1 .. Len(d) : i < j => i + 1 < j + 1
  BY <1>1
<1>4. \A i, j \in 1 .. Len(d) : i < j /\ d[i].by = d[j].by => d[i].no < d[j].no
  BY <1>1, <1>2, <1>3 DEF InTurn
<1>5. \A i \in 1 .. Len(r), j \in 1 .. Len(d) : r[i].body.by = d[j].by => r[i].body.no < d[j].no
  BY <1>1, <1>2 DEF InTurn
<1>6. \A i \in 1 .. Len(d) : d[i].no <= p[d[i].by]
  BY <1>1, <1>2 DEF InTurn
<1>7. InTurn(r, d, p)
  BY <1>4, <1>5, <1>6 DEF InTurn
<1> QED
  BY <1>7 DEF d

LEMMA HandInTurn ==
    ASSUME NEW r \in Seq(Deliveries), NEW l \in Seq(Payloads), NEW p, l # <<>>, InTurn(r, l, p),
           NEW e \in Deliveries, e.body = Head(l)
    PROVE  InTurn(Append(r, e), Tail(l), p)
<1> DEFINE d == Tail(l)
           a == Append(r, e)
<1>1. /\ Len(r) \in Nat /\ Len(a) = Len(r) + 1 /\ a[Len(r) + 1] = e
      /\ \A i \in 1 .. Len(r) : a[i] = r[i]
  OBVIOUS
<1>2. /\ Len(l) \in Nat /\ Len(l) > 0 /\ Len(d) = Len(l) - 1 /\ e.body = l[1]
      /\ \A i \in 1 .. Len(d) : d[i] = l[i + 1]
  OBVIOUS
<1>3. InTurn(r, d, p)
  BY DropInTurn
<1> HIDE DEF a, d
<1>4. \A i \in 1 .. Len(a) : i \in 1 .. Len(r) \/ (i = Len(r) + 1 /\ a[i] = e)
  BY <1>1
<1>5. \A i, j \in 1 .. Len(a) : i < j => i \in 1 .. Len(r)
  BY <1>1
<1>6. 1 \in 1 .. Len(l) /\ \A i \in 1 .. Len(d) : i + 1 \in 1 .. Len(l) /\ 1 < i + 1
  BY <1>2
<1>7. \A i, j \in 1 .. Len(a) :
        i < j /\ a[i].body.by = a[j].body.by => a[i].body.no < a[j].body.no
  <2>1. ASSUME NEW i \in 1 .. Len(a), NEW j \in 1 .. Len(a), i < j, a[i].body.by = a[j].body.by
        PROVE  a[i].body.no < a[j].body.no
    <3>1. i \in 1 .. Len(r) /\ a[i] = r[i]
      BY <1>1, <1>5, <2>1
    <3>2. CASE j \in 1 .. Len(r)
      BY <1>1, <2>1, <3>1, <3>2 DEF InTurn
    <3>3. CASE a[j] = e
      BY <1>2, <1>6, <2>1, <3>1, <3>3 DEF InTurn
    <3> QED
      BY <1>4, <3>2, <3>3
  <2> QED
    BY <2>1
<1>8. \A i \in 1 .. Len(a), j \in 1 .. Len(d) : a[i].body.by = d[j].by => a[i].body.no < d[j].no
  <2>1. ASSUME NEW i \in 1 .. Len(a), NEW j \in 1 .. Len(d), a[i].body.by = d[j].by
        PROVE  a[i].body.no < d[j].no
    <3>1. CASE i \in 1 .. Len(r)
      BY <1>1, <1>3, <2>1, <3>1 DEF InTurn
    <3>2. CASE a[i] = e
      BY <1>2, <1>6, <2>1, <3>2 DEF InTurn
    <3> QED
      BY <1>4, <3>1, <3>2
  <2> QED
    BY <2>1
<1>9. \A i \in 1 .. Len(a) : a[i].body.no <= p[a[i].body.by]
  BY <1>1, <1>2, <1>4, <1>6 DEF InTurn
<1>10. InTurn(a, d, p)
  BY <1>3, <1>7, <1>8, <1>9 DEF InTurn
<1> QED
  BY <1>10 DEF a, d

LEMMA OrderNext ==
    ASSUME Inv, Inv', HandState, OrderInv, [Next]_vars
    PROVE  OrderInv'
<1> USE DEF OrderInv
<1>0. /\ received \in Seq(Deliveries) /\ received' \in Seq(Deliveries)
      /\ Letters \in Seq(Payloads) /\ Letters' \in Seq(Payloads)
      /\ Posted \in [Threads -> Int]
  BY LettersAre, LettersAreNext, PostedTyped DEF LettersFacts, Inv, TypeOK, Deliveries
<1>1. CASE QuietStep
  BY <1>1 DEF QuietStep
<1>2. CASE PostStep
  <2>1. PICK t \in Threads, s \in Senders :
          /\ Posted' = [Posted EXCEPT ![t] = @ + 1]
          /\ Letters' = Append(Letters, [via |-> s, by |-> t, no |-> Posted[t] + 1])
          /\ received' = received
    BY <1>2 DEF PostStep
  <2> DEFINE x == [via |-> s, by |-> t, no |-> Posted[t] + 1]
             d == Letters'
  <2>2. Letters' = Append(Letters, x) /\ x.by = t /\ x.no = Posted[t] + 1
    BY <2>1
  <2> HIDE DEF x
  <2>3. Len(Letters) \in Nat /\ Len(d) = Len(Letters) + 1 /\ d[Len(Letters) + 1] = x
    BY <1>0, <2>2
  <2>4. Len(Letters) + 1 \in 1 .. Len(d)
    BY <2>3
  <2>5. x \in Payloads
    BY <1>0, <2>3, <2>4
  <2>6. InTurn(received, Append(Letters, x), [Posted EXCEPT ![x.by] = @ + 1])
    BY <1>0, <2>2, <2>5, PostInTurn
  <2> QED
    BY <2>1, <2>2, <2>6
<1>3. CASE DropStep /\ received' = received
  <2>1. InTurn(received, Tail(Letters), Posted)
    BY <1>0, <1>3, DropInTurn DEF DropStep
  <2> QED
    BY <1>3, <2>1 DEF DropStep
<1>4. CASE Call /\ HandedStep
  <2> DEFINE e == [to |-> receiver, body |-> Head(Letters)]
  <2>1. e \in Deliveries /\ e.body = Head(Letters)
    <3>1. Head(Letters) \in Payloads
      BY <1>0, <1>4 DEF HandedStep, DropStep
    <3>2. receiver \in Receivers
      BY <1>4 DEF Call, Inv, TypeOK
    <3> QED
      BY <3>1, <3>2 DEF Deliveries
  <2>2. received' = Append(received, e) /\ Letters # <<>> /\ Letters' = Tail(Letters) /\ Posted' = Posted
    BY <1>4 DEF HandedStep, DropStep
  <2> HIDE DEF e
  <2>3. InTurn(Append(received, e), Tail(Letters), Posted)
    BY <1>0, <2>1, <2>2, HandInTurn
  <2> QED
    BY <2>2, <2>3
<1> QED
  BY <1>1, <1>2, <1>3, <1>4, LetterSteps

OrderedInv == Inv /\ HandState /\ OrderInv

LEMMA OrderedInit == Init => OrderedInv
<1> SUFFICES ASSUME Init PROVE OrderedInv
  OBVIOUS
<1>1. Inv
  BY InitInv
<1>2. HandState
  BY BoundAssumption DEF Init, HandState
<1>3. received = <<>> /\ Len(batch) = 0 /\ Len(pending) = 0 /\ cursor = 0
  BY DEF Init
<1>4. Len(Letters) = 0 /\ Len(received) = 0
  BY <1>1, <1>3, LettersAre DEF LettersFacts
<1>5. OrderInv
  BY <1>4 DEF OrderInv, InTurn
<1> QED
  BY <1>1, <1>2, <1>5 DEF OrderedInv

LEMMA OrderedNext == OrderedInv /\ [Next]_vars => OrderedInv'
<1> SUFFICES ASSUME OrderedInv, [Next]_vars PROVE OrderedInv'
  OBVIOUS
<1>1. Inv'
  BY NextInv DEF OrderedInv
<1> QED
  BY <1>1, HandNext, OrderNext DEF OrderedInv

(* What one thread sends is handled in the order in which it was sent and never *)
(* twice, whatever senders it uses and whenever they are destroyed.             *)
THEOREM ThreadOrderHolds == Spec => []ThreadOrder
<1>1. OrderedInv => ThreadOrder
  BY DEF OrderedInv, OrderInv, InTurn, ThreadOrder
<1> QED
  BY <1>1, OrderedInit, OrderedNext, PTL DEF Spec
--------------------------------------------------------------------------------
(* The factory implements the mailbox *)

(* The senders open in the mailbox are the ones alive. *)
Living == {s \in Senders : status[s] = "alive"}

MailboxStep ==
    \/ \E s \in Senders :
         /\ s \notin Living /\ Living' = Living \cup {s}
         /\ UNCHANGED <<Posted, Letters, received>>
    \/ \E s \in Senders :
         /\ s \in Living /\ Living' = Living \ {s}
         /\ \A i \in 1 .. Len(Letters) : Letters[i].via # s
         /\ UNCHANGED <<Posted, Letters, received>>
    \/ \E t \in Threads, s \in Senders :
         /\ s \in Living /\ Posted[t] < MaxSends
         /\ Posted' = [Posted EXCEPT ![t] = @ + 1]
         /\ Letters' = Append(Letters, [via |-> s, by |-> t, no |-> Posted'[t]])
         /\ UNCHANGED <<Living, received>>
    \/ /\ Letters # <<>> /\ Letters' = Tail(Letters)
       /\ received' = Append(received, [to   |-> ReceiverOf[Head(Letters).via],
                                        body |-> Head(Letters)])
       /\ UNCHANGED <<Living, Posted>>
    \/ UNCHANGED <<Living, Posted, Letters, received>>

LEMMA MailboxStepIs == MailboxStep => [M!Next]_(M!vars)
BY DEF MailboxStep, Living, Posted, Letters, M!Next, M!vars, M!Open, M!Close, M!Post, M!Deliver

(* The receiver found is the one of the sender the message went through. *)
LEMMA FoundReceiver ==
    ASSUME Orderly, mainPc = "calling"
    PROVE  /\ receiver = ReceiverOf[body[batch[cursor + 1]].via]
           /\ receiver # NoReceiver
<1> DEFINE m == batch[cursor + 1]
<1>1. /\ receiver = slots[routing[m]] /\ cursor + 1 \in cursor + 1 .. Len(batch)
  BY DEF Orderly, Inv, MainState, TypeOK
<1>2. m \in Undelivered
  BY <1>1 DEF Undelivered
<1>3. body[m].via \in Senders
  BY <1>2 DEF Orderly, Inv, QueueState, Payloads
<1>4. receiver = ReceiverOf[body[m].via]
  BY <1>1, <1>2, <1>3 DEF Orderly, Inv, WellRouted, SlotsMatch
<1> QED
  BY <1>3, <1>4, ReceiverAssumption

LEMMA StepsOfMailbox ==
    ASSUME DrainBeforeDestroy, Orderly, Orderly', HandState, [Next]_vars
    PROVE  MailboxStep
<1>0. Inv /\ Inv' /\ TypeOK /\ LettersFacts
  BY LettersAre DEF Orderly, Inv
<1>1. ASSUME NEW t \in Threads, NEW s \in Senders, Construct(t, s)
      PROVE  MailboxStep
  <2>1. /\ status[s] = "unborn" /\ status' = [status EXCEPT ![s] = "alive"]
        /\ UNCHANGED <<pc, sent, body, batch, cursor, pending, received>>
    BY <1>1 DEF Construct, content, threads, dispatch
  <2>2. s \notin Living /\ Living' = Living \cup {s}
    BY <1>0, <2>1 DEF Living, TypeOK
  <2>3. UNCHANGED <<Posted, Letters, received>>
    BY <2>1 DEF Posted, Letters, InFlight
  <2> QED
    BY <2>2, <2>3 DEF MailboxStep
<1>2. ASSUME NEW t \in Threads, NEW s \in Senders, Destroy(t, s)
      PROVE  MailboxStep
  <2>1. /\ status[s] = "alive" /\ status' = [status EXCEPT ![s] = "dead"] /\ Drained(s)
        /\ UNCHANGED <<pc, sent, body, batch, cursor, pending, received>>
    BY <1>2 DEF Destroy, content, threads, dispatch
  <2>2. s \in Living /\ Living' = Living \ {s}
    BY <1>0, <2>1 DEF Living, TypeOK
  <2>3. UNCHANGED <<Posted, Letters, received>>
    BY <2>1 DEF Posted, Letters, InFlight
  <2>4. \A i \in 1 .. Len(Letters) : \E k \in Undelivered : Letters[i] = body[k]
    BY <1>0 DEF LettersFacts
  <2>5. \A i \in 1 .. Len(Letters) : Letters[i].via # s
    BY <2>1, <2>4 DEF Drained
  <2> QED
    BY <2>2, <2>3, <2>5 DEF MailboxStep
<1>3. CASE QuietStep /\ UNCHANGED status
  BY <1>3 DEF QuietStep, MailboxStep, Living
<1>4. CASE PostStep
  <2>1. PICK t \in Threads, s \in Senders :
          /\ status[s] = "alive" /\ Posted[t] < MaxSends
          /\ Posted' = [Posted EXCEPT ![t] = @ + 1]
          /\ Letters' = Append(Letters, [via |-> s, by |-> t, no |-> Posted[t] + 1])
          /\ UNCHANGED <<status, received>>
    BY <1>4 DEF PostStep
  <2>2. s \in Living /\ UNCHANGED <<Living, received>>
    BY <2>1 DEF Living
  <2>3. Posted'[t] = Posted[t] + 1
    BY <1>0, <2>1, PostedTyped
  <2>4. Letters' = Append(Letters, [via |-> s, by |-> t, no |-> Posted'[t]])
    BY <2>1, <2>3
  <2> QED
    BY <2>1, <2>2, <2>4 DEF MailboxStep
<1>5. CASE Call /\ HandedStep /\ Head(Letters) = body[batch[cursor + 1]] /\ UNCHANGED status
  <2>1. receiver = ReceiverOf[Head(Letters).via]
    BY <1>5, FoundReceiver DEF Call
  <2> QED
    BY <1>5, <2>1 DEF HandedStep, DropStep, MailboxStep, Living
<1>6. ~Skip
  BY FoundReceiver DEF Skip
<1>7. \/ \E t \in Threads, s \in Senders : Construct(t, s) \/ Destroy(t, s)
      \/ UNCHANGED status
  BY DEF Next, SendStep, Obtain, CheckRecycled, Push, Dispatch, TakePending, LockRegister, ReadSlot,
         Call, Skip, HandlerReturns, UnlockRegister, Recycle, registry, vars
<1> QED
  BY <1>0, <1>1, <1>2, <1>3, <1>4, <1>5, <1>6, <1>7, LetterSteps

(* If the program destroys a sender only when nothing sent through it is        *)
(* queued, the factory is a mailbox: what is posted through a living sender is  *)
(* handed to the receiver of that sender once, in the order of the posts.       *)
THEOREM MailboxHolds == DrainBeforeDestroy => (Spec => MailboxSpec)
<1> SUFFICES ASSUME DrainBeforeDestroy PROVE Spec => MailboxSpec
  OBVIOUS
<1>1. Init => Orderly /\ HandState
  BY InitInv, OrderedInit, EmptyElements
     DEF Init, Orderly, WellRouted, Undelivered, RightReceiver, OrderedInv
<1>2. Orderly /\ HandState /\ [Next]_vars => (Orderly /\ HandState)'
  BY OrderlyNext, HandNext DEF Orderly
<1>3. Init => M!Init
  <2> SUFFICES ASSUME Init PROVE M!Init
    OBVIOUS
  <2>1. Living = {} /\ Posted = [t \in Threads |-> 0] /\ received = <<>>
    BY DEF Init, Living, Posted
  <2>2. Letters \in Seq(Payloads) /\ Len(Letters) = 0
    BY LettersAre, <1>1 DEF LettersFacts, Orderly, Init
  <2>3. Letters = <<>>
    BY <2>2
  <2> QED
    BY <2>1, <2>3 DEF M!Init, Living, Posted, Letters
<1>4. Orderly /\ Orderly' /\ HandState /\ [Next]_vars => [M!Next]_(M!vars)
  BY StepsOfMailbox, MailboxStepIs
<1> QED
  BY <1>1, <1>2, <1>3, <1>4, PTL DEF Spec, MailboxSpec, M!Spec
================================================================================
