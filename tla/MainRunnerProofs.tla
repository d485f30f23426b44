---------------------------- MODULE MainRunnerProofs ----------------------------
(* The exit sequence and the two threads it outlives, for any systems and any  *)
(* notices.                                                                    *)
EXTENDS MainRunner, TLAPS, SequenceTheorems

(* How many notifications are through the hands of the thread. *)
Done == Len(sent) - Len(mRequestQueue) - InHand

(* The history is what is done, then what is in hand, then what is queued.      *)
NoticeInv ==
    /\ sent \in Seq(Notices) /\ mRequestQueue \in Seq(Notices) /\ published \in Seq(Notices)
    /\ request \in Notices \cup {NoNotice}
    /\ request # NoNotice <=> pc \in {"marking", "processing"}
    /\ Done \in Nat
    /\ \A i \in 1 .. Len(mRequestQueue) : mRequestQueue[i] = sent[Done + InHand + i]
    /\ request # NoNotice => request = sent[Done + 1]
    /\ mPreviousRequest = IF Done = 0 THEN NoNotice ELSE sent[Done]

(* A system is in the hands of the hasher while it hashes.                      *)
HasherInv ==
    /\ pushed \in Seq(Systems) /\ hashed \in Seq(Systems) /\ hasherQueue \in Seq(Systems)
    /\ system \in Seq(Systems)
    /\ hasherPc # "hashing" => system = <<>>

(* Systems are deleted behind the back of the hasher only once it has ended.    *)
QuitInv ==
    /\ caller = "stopped" => hasherPc = "ended"
    /\ ~systemsExist => caller = "stopped"

(* What was pushed is hashed, in hand or queued. *)
NoneLost == pushed = (hashed \o system) \o hasherQueue

HasherKept == HasherInv /\ (hasherRunning => NoneLost)

Inv == NoticeInv /\ PublishedInOrder /\ HasherKept /\ QuitInv

--------------------------------------------------------------------------------
(* The notifications                                                           *)

(* Nothing is sent, taken or published. *)
Quiet ==
    /\ UNCHANGED <<sent, mRequestQueue, published, request, mPreviousRequest>>
    /\ pc' \in {"marking", "processing"} <=> pc \in {"marking", "processing"}

TakenFacts ==
    /\ Taken \in Seq(Notices) /\ Len(Taken) = Done
    /\ \A i \in 1 .. Done : Taken[i] = sent[i]

LEMMA TakenIs == NoticeInv => TakenFacts
<1> SUFFICES ASSUME NoticeInv PROVE TakenFacts
  OBVIOUS
<1>1. Len(mRequestQueue) \in Nat /\ InHand \in {0, 1} /\ Len(sent) \in Nat /\ Done \in Nat
  BY DEF NoticeInv, InHand
<1>2. Done <= Len(sent) /\ Done = Len(sent) - Len(mRequestQueue) - InHand
  BY <1>1 DEF Done
<1>3. \A i \in 1 .. Done : sent[i] \in Notices
  BY <1>1, <1>2 DEF NoticeInv
<1> DEFINE n == Done
           q == sent
<1>4. /\ SubSeq(q, 1, n) \in Seq(Notices) /\ Len(SubSeq(q, 1, n)) = n
      /\ \A i \in 1 .. n : SubSeq(q, 1, n)[i] = q[i]
  <2>1. n \in Nat /\ q \in Seq(Notices) /\ n <= Len(q) /\ \A i \in 1 .. n : q[i] \in Notices
    BY <1>1, <1>2, <1>3 DEF NoticeInv
  <2> HIDE DEF n, q
  <2>2. 1 \in Int /\ n \in Int /\ (n - 1 + 1) = n
    BY <2>1
  <2> QED
    BY <2>1, <2>2, SubSeqProperties
<1>5. Taken = SubSeq(q, 1, n)
  BY DEF Taken, Done
<1> QED
  BY <1>4, <1>5 DEF TakenFacts

LEMMA TakenIsNext == NoticeInv' => TakenFacts'
<1>1. (NoticeInv => TakenFacts)'
  BY TakenIs, PTL
<1> QED
  BY <1>1

(* The next notification is published, unless it repeats the one before it.     *)
LEMMA PublishesMore ==
    ASSUME NEW p \in Seq(Notices), NEW q \in Seq(Notices), NEW r \in Notices,
           NEW last, last = IF Len(q) = 0 THEN NoNotice ELSE q[Len(q)],
           NEW q2 \in Seq(Notices), Len(q2) = Len(q) + 1, q2[Len(q) + 1] = r,
           \A i \in 1 .. Len(q) : q2[i] = q[i],
           WithoutRepeats(p, q)
    PROVE  WithoutRepeats(IF r = last THEN p ELSE Append(p, r), q2)
<1>1. PICK place \in [1 .. Len(p) -> Changes(q)] :
        /\ \A k \in 1 .. Len(p) : p[k] = q[place[k]]
        /\ \A j, k \in 1 .. Len(p) : j < k => place[j] < place[k]
        /\ Changes(q) = {place[k] : k \in 1 .. Len(p)}
  BY DEF WithoutRepeats
<1>2. Len(p) \in Nat /\ Len(q) \in Nat /\ Changes(q) \subseteq 1 .. Len(q)
  BY DEF Changes
<1>3. ASSUME NEW i \in 1 .. Len(q)
      PROVE  i \in Changes(q2) <=> i \in Changes(q)
  <2>1. i \in 1 .. Len(q2) /\ (i > 1 => i - 1 \in 1 .. Len(q))
    BY <1>2
  <2>2. i > 1 => q2[i] = q[i] /\ q2[i - 1] = q[i - 1]
    BY <2>1
  <2> QED
    BY <2>1, <2>2 DEF Changes
<1>4. Changes(q2) \subseteq Changes(q) \cup {Len(q) + 1}
  BY <1>2, <1>3 DEF Changes
<1>5. CASE r = last
  <2>1. Len(q) # 0 /\ r = q[Len(q)]
    BY <1>5, NoticeAssumption
  <2>2. Len(q) + 1 \notin Changes(q2)
    BY <1>2, <2>1 DEF Changes
  <2>3. Changes(q2) = Changes(q)
    BY <1>2, <1>3, <1>4, <2>2
  <2>4. \A k \in 1 .. Len(p) : p[k] = q2[place[k]]
    BY <1>1, <1>2
  <2> QED
    <3> HIDE DEF Changes
    <3>1. /\ place \in [1 .. Len(p) -> Changes(q2)]
          /\ Changes(q2) = {place[k] : k \in 1 .. Len(p)}
      BY <1>1, <2>3
    <3>2. WithoutRepeats(p, q2)
      BY <1>1, <2>4, <3>1, Zenon DEF WithoutRepeats
    <3> QED
      BY <1>5, <3>2
<1>6. CASE r # last
  <2> DEFINE n == Len(p) + 1
             p2 == Append(p, r)
             place2 == [k \in 1 .. n |-> IF k = n THEN Len(q) + 1 ELSE place[k]]
  <2>1. Len(q) + 1 \in Changes(q2)
    <3>1. CASE Len(q) = 0
      BY <3>1 DEF Changes
    <3>2. CASE Len(q) # 0
      BY <1>2, <1>6, <3>2 DEF Changes
    <3> QED
      BY <3>1, <3>2
  <2>2. Changes(q2) = Changes(q) \cup {Len(q) + 1}
    BY <1>2, <1>3, <1>4, <2>1
  <2>3. Len(p2) = n /\ p2[n] = r /\ \A k \in 1 .. Len(p) : p2[k] = p[k]
    BY <1>2
  <2>4. /\ \A k \in 1 .. n : k = n \/ k \in 1 .. Len(p)
        /\ \A k \in 1 .. Len(p) : k \in 1 .. n /\ k # n /\ place2[k] = place[k]
        /\ n \in 1 .. n /\ place2[n] = Len(q) + 1
    BY <1>2
  <2>5. place2 \in [1 .. n -> Changes(q2)]
    BY <1>1, <2>2, <2>4
  <2> HIDE DEF n, p2, place2
  <2>6. ASSUME NEW k \in 1 .. n
        PROVE  p2[k] = q2[place2[k]]
    <3>1. \A m \in 1 .. Len(p) : place[m] \in Changes(q) /\ p[m] = q[place[m]]
      BY <1>1
    <3>2. CASE k = n
      BY <1>2, <2>3, <2>4, <3>2
    <3>3. CASE k \in 1 .. Len(p)
      <4>1. /\ p2[k] = p[k] /\ place2[k] = place[k] /\ p[k] = q[place[k]]
            /\ place[k] \in 1 .. Len(q)
        BY <2>3, <2>4, <3>1, <3>3 DEF Changes
      <4> QED
        BY <4>1
    <3> QED
      BY <2>4, <3>2, <3>3
  <2>7. \A j, k \in 1 .. n : j < k => place2[j] < place2[k]
    <3>1. ASSUME NEW j \in 1 .. n, NEW k \in 1 .. n, j < k
          PROVE  place2[j] < place2[k]
      <4>1. n \in Nat /\ n = Len(p) + 1
        BY <1>2 DEF n
      <4>2. j \in 1 .. Len(p)
        BY <1>2, <3>1, <4>1
      <4>3. place2[j] = place[j] /\ place[j] \in 1 .. Len(q)
        BY <1>1, <1>2, <2>4, <4>2
      <4>4. CASE k = n
        BY <1>2, <2>4, <4>3, <4>4
      <4>5. CASE k \in 1 .. Len(p)
        BY <1>1, <2>4, <3>1, <4>2, <4>5
      <4> QED
        BY <2>4, <4>4, <4>5
    <3> QED
      BY <3>1
  <2>8. Changes(q2) = {place2[k] : k \in 1 .. n}
    <3>1. {place2[k] : k \in 1 .. n} = {place2[k] : k \in 1 .. Len(p)} \cup {place2[n]}
      BY <2>4
    <3>2. {place2[k] : k \in 1 .. Len(p)} = {place[k] : k \in 1 .. Len(p)}
      BY <2>4
    <3> QED
      BY <1>1, <2>2, <2>4, <3>1, <3>2
  <2>9. WithoutRepeats(p2, q2)
    BY <2>3, <2>5, <2>6, <2>7, <2>8 DEF WithoutRepeats
  <2> QED
    BY <1>6, <2>9 DEF p2
<1> QED
  BY <1>5, <1>6

LEMMA QuietKeeps ==
    ASSUME NoticeInv, PublishedInOrder, Quiet
    PROVE  NoticeInv' /\ PublishedInOrder'
<1>1. InHand' = InHand /\ Done' = Done /\ Taken' = Taken
  BY DEF Quiet, InHand, Done, Taken
<1> QED
  BY <1>1 DEF Quiet, NoticeInv, PublishedInOrder

LEMMA NotifyKeeps ==
    ASSUME NoticeInv, PublishedInOrder, NEW n \in Notices, Notify(n)
    PROVE  NoticeInv' /\ PublishedInOrder'
<1>1. /\ mRequestQueue' = Append(mRequestQueue, n) /\ sent' = Append(sent, n)
      /\ UNCHANGED <<published, request, mPreviousRequest, pc>>
  BY DEF Notify, thread
<1>2. /\ Len(mRequestQueue) \in Nat /\ InHand \in {0, 1} /\ Len(sent) \in Nat /\ Done \in Nat
      /\ Done = Len(sent) - Len(mRequestQueue) - InHand
  BY DEF NoticeInv, InHand, Done
<1>3. InHand' = InHand /\ Done' = Done
  BY <1>1, <1>2 DEF InHand, Done, NoticeInv
<1>4. \A i \in 1 .. Len(sent) : sent'[i] = sent[i]
  BY <1>1 DEF NoticeInv
<1>5. ASSUME NEW i \in 1 .. Len(mRequestQueue')
      PROVE  mRequestQueue'[i] = sent'[Done' + InHand' + i]
  <2>1. CASE i = Len(mRequestQueue) + 1
    <3>1. Done' + InHand' + i = Len(sent) + 1
      BY <1>2, <1>3, <2>1
    <3>2. mRequestQueue'[i] = n /\ sent'[Len(sent) + 1] = n
      BY <1>1, <2>1 DEF NoticeInv
    <3> QED
      BY <3>1, <3>2
  <2>2. CASE i \in 1 .. Len(mRequestQueue)
    <3>1. Done + InHand + i \in 1 .. Len(sent)
      BY <1>2, <2>2
    <3>2. mRequestQueue'[i] = mRequestQueue[i]
      BY <1>1, <2>2 DEF NoticeInv
    <3>3. mRequestQueue[i] = sent[Done + InHand + i]
      BY <2>2 DEF NoticeInv
    <3> QED
      BY <1>3, <1>4, <3>1, <3>2, <3>3
  <2>3. Len(mRequestQueue') = Len(mRequestQueue) + 1
    BY <1>1 DEF NoticeInv
  <2>4. i = Len(mRequestQueue) + 1 \/ i \in 1 .. Len(mRequestQueue)
    BY <1>2, <2>3
  <2> QED
    BY <2>1, <2>2, <2>4
<1>6. NoticeInv'
  <2>1. request' # NoNotice => request' = sent'[Done' + 1]
    <3>1. request # NoNotice => Done + 1 \in 1 .. Len(sent)
      BY <1>2 DEF InHand
    <3>2. request # NoNotice => request = sent[Done + 1]
      BY DEF NoticeInv
    <3> QED
      BY <1>1, <1>3, <1>4, <3>1, <3>2
  <2>2. mPreviousRequest' = IF Done' = 0 THEN NoNotice ELSE sent'[Done']
    <3>1. Done # 0 => Done \in 1 .. Len(sent)
      BY <1>2
    <3>2. mPreviousRequest = IF Done = 0 THEN NoNotice ELSE sent[Done]
      BY DEF NoticeInv
    <3> QED
      BY <1>1, <1>3, <1>4, <3>1, <3>2
  <2>3. sent' \in Seq(Notices) /\ mRequestQueue' \in Seq(Notices)
    BY <1>1 DEF NoticeInv
  <2>4. request' # NoNotice <=> pc' \in {"marking", "processing"}
    BY <1>1 DEF NoticeInv
  <2> QED
    BY <1>1, <1>2, <1>3, <1>5, <2>1, <2>2, <2>3, <2>4 DEF NoticeInv
<1>7. Taken' = Taken
  <2>1. /\ Taken \in Seq(Notices) /\ Len(Taken) = Done
        /\ \A i \in 1 .. Done : Taken[i] = sent[i]
    BY TakenIs DEF TakenFacts
  <2>2. /\ Taken' \in Seq(Notices) /\ Len(Taken') = Done'
        /\ \A i \in 1 .. Done' : Taken'[i] = sent'[i]
    BY <1>6, TakenIsNext DEF TakenFacts
  <2>3. \A i \in 1 .. Done : i \in 1 .. Len(sent)
    BY <1>2
  <2>4. Len(Taken') = Len(Taken) /\ \A i \in 1 .. Len(Taken) : Taken'[i] = Taken[i]
    BY <1>3, <1>4, <2>1, <2>2, <2>3
  <2> QED
    BY <2>1, <2>2, <2>4, SeqEqual
<1> QED
  BY <1>1, <1>6, <1>7 DEF PublishedInOrder

LEMMA PopKeeps ==
    ASSUME NoticeInv, PublishedInOrder, Pop, mRequestQueue # <<>>, pc' = "marking"
    PROVE  NoticeInv' /\ PublishedInOrder'
<1>1. /\ mRequestQueue' = Tail(mRequestQueue) /\ request' = Head(mRequestQueue)
      /\ pc = "popping" /\ pc' = "marking" /\ UNCHANGED <<published, mPreviousRequest, sent>>
  BY DEF Pop, Goto
<1>2. request = NoNotice /\ request' \in Notices /\ request' # NoNotice
  BY <1>1, NoticeAssumption DEF NoticeInv
<1>3. InHand = 0 /\ InHand' = 1
  BY <1>2 DEF InHand
<1>4. /\ Len(mRequestQueue) \in Nat /\ Len(mRequestQueue) > 0 /\ Len(sent) \in Nat /\ Done \in Nat
      /\ Len(mRequestQueue') = Len(mRequestQueue) - 1
  BY <1>1 DEF NoticeInv
<1>5. Done' = Done
  BY <1>1, <1>3, <1>4 DEF Done
<1>6. Taken' = Taken
  <2>1. Taken = SubSeq(sent, 1, Done)
    BY DEF Taken, Done
  <2>2. Taken' = SubSeq(sent', 1, Done')
    BY DEF Taken, Done
  <2> QED
    BY <1>1, <1>5, <2>1, <2>2
<1>7. request' = sent[Done + 1]
  BY <1>1, <1>3, <1>4 DEF NoticeInv
<1>8. ASSUME NEW i \in 1 .. Len(mRequestQueue')
      PROVE  mRequestQueue'[i] = sent'[Done' + InHand' + i]
  <2>1. mRequestQueue'[i] = mRequestQueue[i + 1] /\ i + 1 \in 1 .. Len(mRequestQueue)
    BY <1>1, <1>4 DEF NoticeInv
  <2>2. mRequestQueue[i + 1] = sent[Done + 0 + (i + 1)]
    BY <1>3, <2>1 DEF NoticeInv
  <2>3. Done + 0 + (i + 1) = Done' + InHand' + i
    BY <1>3, <1>4, <1>5
  <2> QED
    BY <1>1, <2>1, <2>2, <2>3
<1>9. mRequestQueue' \in Seq(Notices)
  BY <1>1 DEF NoticeInv
<1> QED
  BY <1>1, <1>2, <1>5, <1>6, <1>7, <1>8, <1>9 DEF NoticeInv, PublishedInOrder

LEMMA ProcessKeeps ==
    ASSUME NoticeInv, PublishedInOrder, Process
    PROVE  NoticeInv' /\ PublishedInOrder'
<1>1. /\ published' = IF request = mPreviousRequest THEN published ELSE Append(published, request)
      /\ mPreviousRequest' = request /\ request' = NoNotice
      /\ pc = "processing" /\ pc' = "looping" /\ UNCHANGED <<mRequestQueue, sent>>
  BY DEF Process, Goto
<1>2. request \in Notices /\ request # NoNotice /\ request = sent[Done + 1]
  BY <1>1 DEF NoticeInv
<1>3. InHand = 1 /\ InHand' = 0
  BY <1>1, <1>2 DEF InHand
<1>4. Len(mRequestQueue) \in Nat /\ Len(sent) \in Nat /\ Done \in Nat
  BY DEF NoticeInv
<1>5. Done' = Done + 1
  BY <1>1, <1>3, <1>4 DEF Done
<1>6. published' \in Seq(Notices)
  BY <1>1, <1>2 DEF NoticeInv
<1>7. ASSUME NEW i \in 1 .. Len(mRequestQueue')
      PROVE  mRequestQueue'[i] = sent'[Done' + InHand' + i]
  <2>1. Done' + InHand' + i = Done + InHand + i
    BY <1>3, <1>4, <1>5
  <2> QED
    BY <1>1, <2>1 DEF NoticeInv
<1>8. NoticeInv'
  BY <1>1, <1>2, <1>4, <1>5, <1>6, <1>7 DEF NoticeInv
<1>9. /\ Taken \in Seq(Notices) /\ Len(Taken) = Done
      /\ \A i \in 1 .. Done : Taken[i] = sent[i]
  BY TakenIs DEF TakenFacts
<1>10. /\ Taken' \in Seq(Notices) /\ Len(Taken') = Done + 1
       /\ \A i \in 1 .. Done + 1 : Taken'[i] = sent[i]
  <2>1. /\ Taken' \in Seq(Notices) /\ Len(Taken') = Done'
        /\ \A i \in 1 .. Done' : Taken'[i] = sent'[i]
    BY <1>8, TakenIsNext DEF TakenFacts
  <2> QED
    BY <1>1, <1>5, <2>1
<1>11. mPreviousRequest = IF Len(Taken) = 0 THEN NoNotice ELSE Taken[Len(Taken)]
  BY <1>4, <1>9 DEF NoticeInv
<1>12. /\ Len(Taken') = Len(Taken) + 1 /\ Taken'[Len(Taken) + 1] = request
       /\ \A i \in 1 .. Len(Taken) : Taken'[i] = Taken[i]
  BY <1>2, <1>4, <1>9, <1>10
<1>13. published \in Seq(Notices) /\ WithoutRepeats(published, Taken)
  BY DEF NoticeInv, PublishedInOrder
<1>14. WithoutRepeats(published', Taken')
  <2> DEFINE q == Taken
             q2 == Taken'
  <2>1. /\ q \in Seq(Notices) /\ q2 \in Seq(Notices) /\ WithoutRepeats(published, q)
        /\ mPreviousRequest = IF Len(q) = 0 THEN NoNotice ELSE q[Len(q)]
        /\ Len(q2) = Len(q) + 1 /\ q2[Len(q) + 1] = request
        /\ \A i \in 1 .. Len(q) : q2[i] = q[i]
    BY <1>9, <1>10, <1>11, <1>12, <1>13
  <2> HIDE DEF q, q2
  <2>2. WithoutRepeats(IF request = mPreviousRequest THEN published ELSE Append(published, request), q2)
    BY <1>2, <1>13, <2>1, PublishesMore
  <2> QED
    BY <1>1, <2>2 DEF q2
<1> QED
  BY <1>8, <1>14 DEF PublishedInOrder

LEMMA NoticeNext ==
    ASSUME NoticeInv, PublishedInOrder, [RunNext]_all
    PROVE  NoticeInv' /\ PublishedInOrder'
<1>1. ASSUME NEW n \in Notices, Notify(n)
      PROVE  NoticeInv' /\ PublishedInOrder'
  BY <1>1, NotifyKeeps
<1>2. CASE UNCHANGED vars
  BY <1>2, QuietKeeps DEF Quiet, vars, thread
<1>3. CASE DeleteAllSystems \/ MainStep
  <2>1. UNCHANGED <<sent, mRequestQueue, published, request, mPreviousRequest, pc>>
    BY <1>3 DEF DeleteAllSystems, MainStep, ReadQueue, ReadProcessing, Stop, Break, Join, thread
  <2> QED
    BY <2>1, QuietKeeps DEF Quiet
<1>4. CASE Pop
  <2>1. CASE mRequestQueue # <<>> /\ pc' = "marking"
    BY <1>4, <2>1, PopKeeps
  <2>2. CASE UNCHANGED <<request, mRequestQueue>> /\ pc' = "clearing"
    BY <1>4, <2>2, QuietKeeps DEF Quiet, Pop
  <2> QED
    BY <1>4, <2>1, <2>2 DEF Pop, Goto
<1>5. CASE Process
  BY <1>5, ProcessKeeps
<1>6. CASE TestOuter \/ TestInner \/ WaitSignal \/ Mark \/ Clear
  <2>1. Quiet
    BY <1>6 DEF TestOuter, TestInner, WaitSignal, Mark, Clear, Goto, Quiet
  <2> QED
    BY <2>1, QuietKeeps
<1> QED
  BY <1>1, <1>2, <1>3, <1>4, <1>5, <1>6 DEF RunNext, PushSystem, SendNotification, QuitHasher,
     DeleteSystems, InHasher, HasherThread, Waiting, Publishing, RunStep, all

--------------------------------------------------------------------------------
(* The hasher                                                                  *)

(* What is appended behind a concatenation is appended to its last part. *)
LEMMA AppendBehind ==
    ASSUME NEW S, NEW d \in Seq(S), NEW c \in Seq(S), NEW s \in S
    PROVE  d \o Append(c, s) = Append(d \o c, s)
OBVIOUS

LEMMA ConcatAppend ==
    ASSUME NEW S, NEW a \in Seq(S), NEW b \in Seq(S), NEW c \in Seq(S), NEW s \in S
    PROVE  (a \o b) \o Append(c, s) = Append((a \o b) \o c, s)
<1>1. PICK ab \in Seq(S) : ab = a \o b
  BY ConcatProperties
<1>2. ab \o Append(c, s) = Append(ab \o c, s)
  BY <1>1, AppendBehind
<1> QED
  BY <1>1, <1>2, Zenon

LEMMA HasherNext ==
    ASSUME HasherKept, [RunNext]_all
    PROVE  HasherKept'
<1> USE DEF HasherInv
<1>0. HasherInv /\ (hasherRunning => NoneLost)
  BY DEF HasherKept
<1>1. ASSUME NEW s \in Systems, H!Push(s)
      PROVE  HasherKept'
  <2>1. /\ hasherQueue' = Append(hasherQueue, s) /\ pushed' = Append(pushed, s)
        /\ UNCHANGED <<hasherPc, system, hashed>>
    BY <1>1 DEF H!Push
  <2>2. NoneLost => NoneLost'
    BY <1>0, <2>1, ConcatAppend DEF NoneLost
  <2>3. hasherRunning' <=> hasherRunning
    BY <1>1, Zenon DEF H!Push
  <2>4. HasherInv'
    BY <1>0, <2>1
  <2> QED
    BY <1>0, <2>2, <2>3, <2>4, Zenon DEF HasherKept
<1>2. CASE UNCHANGED <<pushed, hashed, hasherQueue, system>>
  <2>1. NoneLost' = NoneLost
    BY <1>2 DEF NoneLost
  <2>2. hasherRunning' => hasherRunning
    <3>1. CASE UNCHANGED hasher
      BY <3>1, Zenon DEF hasher
    <3>2. CASE QuitHasher
      BY <3>2, Zenon DEF QuitHasher, H!MustQuit
    <3>3. CASE InHasher \/ HasherThread
      BY <3>3, Zenon DEF InHasher, H!CallerStep, H!Fire, H!Break, H!Join, HasherThread,
                   H!HasherStep, H!TestRunning, H!WaitSignal, H!Dequeue, H!CheckMissingHashes
    <3>4. CASE PushSystem
      <4>1. PICK s \in Systems : H!Push(s)
        BY <3>4, Zenon DEF PushSystem
      <4> QED
        BY <4>1, Zenon DEF H!Push
    <3> QED
      BY <3>1, <3>2, <3>3, <3>4 DEF RunNext, SendNotification, DeleteSystems, Waiting, Publishing, all
  <2>3. hasherPc' = "hashing" => hasherPc = "hashing" \/ system = <<>>
    BY <1>0
  <2>4. HasherInv'
    <3>1. CASE hasherPc' = "hashing" \/ hasherPc # "hashing"
      BY <1>0, <1>2, <3>1
    <3>2. CASE hasherPc' # "hashing" /\ hasherPc = "hashing"
      <4>1. H!CheckMissingHashes
        BY <3>2 DEF RunNext, PushSystem, H!Push, SendNotification, QuitHasher, H!MustQuit,
           DeleteSystems, InHasher, H!CallerStep, H!Fire, H!Break, H!Join, HasherThread,
           H!HasherStep, H!TestRunning, H!WaitSignal, H!Dequeue, Waiting, Publishing, all, hasher
      <4> QED
        BY <1>0, <1>2, <4>1 DEF H!CheckMissingHashes
    <3> QED
      BY <3>1, <3>2
  <2> QED
    BY <1>0, <2>1, <2>2, <2>4, Zenon DEF HasherKept
<1>3. CASE H!Dequeue
  <2>1. CASE /\ hasherQueue # <<>> /\ system' = <<Head(hasherQueue)>>
             /\ hasherQueue' = Tail(hasherQueue) /\ hasherPc' = "hashing"
    <3>1. system = <<>> /\ UNCHANGED <<pushed, hashed>>
      BY <1>0, <1>3 DEF H!Dequeue
    <3>2. system' \in Seq(Systems) /\ hasherQueue' \in Seq(Systems) /\ system' \o hasherQueue' = hasherQueue
      BY <1>0, <2>1
    <3>3. hashed \o system = hashed
      BY <1>0, <3>1, ConcatEmptySeq
    <3>4. (hashed \o system') \o hasherQueue' = hashed \o (system' \o hasherQueue')
      <4> DEFINE a == system'
                 b == hasherQueue'
      <4>1. hashed \in Seq(Systems) /\ a \in Seq(Systems) /\ b \in Seq(Systems)
        BY <1>0, <3>2
      <4> HIDE DEF a, b
      <4>2. (hashed \o a) \o b = hashed \o (a \o b)
        BY <4>1, ConcatAssociative
      <4> QED
        BY <4>2 DEF a, b
    <3>5. NoneLost => NoneLost'
      BY <3>1, <3>2, <3>3, <3>4 DEF NoneLost
    <3>6. HasherInv'
      BY <1>0, <2>1, <3>1, <3>2
    <3>7. hasherRunning' <=> hasherRunning
      BY <1>3, Zenon DEF H!Dequeue
    <3> QED
      BY <1>0, <3>5, <3>6, <3>7, Zenon DEF HasherKept
  <2>2. CASE UNCHANGED <<system, hasherQueue>>
    BY <1>2, <1>3, <2>2 DEF H!Dequeue
  <2> QED
    BY <1>3, <2>1, <2>2 DEF H!Dequeue
<1>4. CASE H!CheckMissingHashes
  <2>1. system' = <<>> /\ hasherPc' = "testing" /\ UNCHANGED <<hasherQueue, pushed>>
    BY <1>4 DEF H!CheckMissingHashes
  <2>2. hashed' \in {hashed \o system, hashed}
    BY <1>4, Zenon DEF H!CheckMissingHashes
  <2>3. hashed' \in Seq(Systems) /\ HasherInv'
    <3>1. hashed \o system \in Seq(Systems) /\ hashed \in Seq(Systems)
      BY <1>0, ConcatProperties
    <3>2. hashed' \in Seq(Systems)
      BY <2>2, <3>1
    <3> QED
      BY <1>0, <2>1, <3>2
  <2>4. hasherRunning => hashed' = hashed \o system
    BY <1>4, Zenon DEF H!CheckMissingHashes
  <2>5. hashed' = hashed \o system /\ NoneLost => NoneLost'
    <3>1. hashed' \o <<>> = hashed'
      BY <2>3, ConcatEmptySeq
    <3> QED
      BY <2>1, <3>1 DEF NoneLost
  <2>6. hasherRunning' <=> hasherRunning
    BY <1>4, Zenon DEF H!CheckMissingHashes
  <2> QED
    BY <1>0, <2>3, <2>4, <2>5, <2>6, Zenon DEF HasherKept
<1>5. \/ \E s \in Systems : H!Push(s)
      \/ UNCHANGED <<pushed, hashed, hasherQueue, system>>
      \/ H!Dequeue \/ H!CheckMissingHashes
  BY DEF RunNext, PushSystem, SendNotification, QuitHasher, H!MustQuit, DeleteSystems, InHasher,
         H!CallerStep, H!Fire, H!Break, H!Join, HasherThread, H!HasherStep, H!TestRunning,
         H!WaitSignal, Waiting, Publishing, all, hasher
<1> QED
  BY <1>1, <1>2, <1>3, <1>4, <1>5

(* The systems are deleted after the hasher has ended.                          *)
LEMMA QuitNext ==
    ASSUME QuitInv, [RunNext]_all
    PROVE  QuitInv'
<1> USE DEF QuitInv
<1>1. CASE PushSystem \/ QuitHasher \/ InHasher \/ HasherThread
  <2>1. UNCHANGED systemsExist
    BY <1>1, Zenon DEF PushSystem, QuitHasher, InHasher, HasherThread, vars, runner
  <2>2. caller' = "stopped" => hasherPc' = "ended"
    BY <1>1 DEF PushSystem, QuitHasher, InHasher, HasherThread, H!Push, H!MustQuit, H!CallerStep,
                H!Fire, H!Break, H!Join, H!HasherStep, H!TestRunning, H!WaitSignal, H!Dequeue,
                H!CheckMissingHashes
  <2>3. caller = "stopped" => caller' = "stopped"
    BY <1>1 DEF PushSystem, QuitHasher, InHasher, HasherThread, H!Push, H!MustQuit, H!CallerStep,
                H!Fire, H!Break, H!Join, H!HasherStep, H!TestRunning, H!WaitSignal, H!Dequeue,
                H!CheckMissingHashes
  <2> QED
    BY <2>1, <2>2, <2>3, Zenon
<1>2. CASE SendNotification \/ Waiting \/ Publishing
  <2>1. UNCHANGED systemsExist
    BY <1>2, Zenon DEF SendNotification, Notify, Waiting, MainStep, ReadQueue, ReadProcessing, Stop,
       Break, Join, Publishing, RunStep, TestOuter, TestInner, WaitSignal, Pop, Mark, Process, Clear,
       runner
  <2>2. UNCHANGED <<caller, hasherPc>>
    BY <1>2 DEF SendNotification, Waiting, Publishing, hasher
  <2> QED
    BY <2>1, <2>2, Zenon
<1>3. CASE DeleteSystems
  BY <1>3 DEF DeleteSystems, hasher
<1>4. CASE UNCHANGED all
  BY <1>4 DEF all, hasher, vars, runner
<1> QED
  BY <1>1, <1>2, <1>3, <1>4 DEF RunNext

--------------------------------------------------------------------------------
(* The theorems                                                                *)

LEMMA InitInv == RunInit => Inv
<1> SUFFICES ASSUME RunInit PROVE Inv
  OBVIOUS
<1>1. /\ mRequestQueue = <<>> /\ request = NoNotice /\ pc = "testing"
      /\ mPreviousRequest = NoNotice /\ sent = <<>> /\ published = <<>>
  BY DEF RunInit, Init
<1>2. /\ hasherQueue = <<>> /\ system = <<>> /\ pushed = <<>> /\ hashed = <<>>
      /\ hasherPc = "testing" /\ caller = "idle"
  BY DEF RunInit, H!Init
<1>3. systemsExist
  BY DEF RunInit, Init
<1>4. InHand = 0 /\ Done = 0
  BY <1>1 DEF InHand, Done
<1>5. NoticeInv
  BY <1>1, <1>4 DEF NoticeInv
<1>6. HasherKept
  <2>1. NoneLost /\ HasherInv
    BY <1>2, ConcatEmptySeq DEF HasherInv, NoneLost
  <2> QED
    BY <2>1, Zenon DEF HasherKept
<1>7. QuitInv
  BY <1>2, <1>3, Zenon DEF QuitInv
<1>8. PublishedInOrder
  <2>1. Len(Taken) = 0
    BY <1>4, <1>5, TakenIs DEF TakenFacts
  <2>2. Changes(Taken) = {}
    BY <2>1 DEF Changes
  <2>3. Len(published) = 0 /\ 1 .. 0 = {}
    BY <1>1
  <2>4. [k \in {} |-> 0] \in [1 .. Len(published) -> Changes(Taken)]
    BY <2>2, <2>3
  <2> QED
    BY <2>2, <2>3, <2>4 DEF PublishedInOrder, WithoutRepeats
<1> QED
  BY <1>5, <1>6, <1>7, <1>8 DEF Inv

LEMMA NextInv == Inv /\ [RunNext]_all => Inv'
<1> SUFFICES ASSUME Inv, [RunNext]_all PROVE Inv'
  OBVIOUS
<1>1. NoticeInv' /\ PublishedInOrder'
  BY NoticeNext DEF Inv
<1>2. HasherKept'
  BY HasherNext DEF Inv
<1>3. QuitInv'
  BY QuitNext DEF Inv
<1> QED
  BY <1>1, <1>2, <1>3 DEF Inv

(* What the notification thread and the hasher have in hand, behind them and    *)
(* before them agrees with what they were given, through the exit sequence.    *)
THEOREM InvHolds == RunSpec => []Inv
BY InitInv, NextInv, PTL DEF RunSpec

(* Whatever is sent, and however the exit sequence falls in: the world sees it   *)
(* in order, once, less immediate repeats (NotificationManager.cpp, Run).      *)
THEOREM PublishedInOrderHolds == RunSpec => []PublishedInOrder
<1>1. Inv => PublishedInOrder
  BY DEF Inv
<1> QED
  BY <1>1, InvHolds, PTL

(* While the hasher runs no system is lost, hashed twice or overtaken, however   *)
(* many are pushed and however signals merge (SystemHasher.cpp, Push and Run). *)
THEOREM HashedInOrderHolds == RunSpec => []HashedInOrder
<1>1. Inv => HashedInOrder
  BY Zenon DEF Inv, HasherKept, NoneLost, HashedInOrder, H!HashedInOrder
<1> QED
  BY <1>1, InvHolds, PTL

(* SystemManager::DeleteAllSystems joins the hasher first: none of the games it   *)
(* deletes is being hashed.                                                    *)
THEOREM NoHashOfDeletedSystemHolds == RunSpec => []NoHashOfDeletedSystem
<1>1. Inv => NoHashOfDeletedSystem
  BY Zenon DEF Inv, QuitInv, NoHashOfDeletedSystem
<1> QED
  BY <1>1, InvHolds, PTL
================================================================================
