------------------------ MODULE TextureDataManagerProofs ------------------------
(* The cache of textures and its loader, for any textures and any budget.      *)
EXTENDS TextureDataManager, TLAPS, FiniteSetTheorems, SequenceTheorems

(* A list holds a texture once. *)
Distinct(q) == \A i, j \in 1 .. Len(q) : q[i] = q[j] => i = j

(* The main thread is in the loop of load. *)
InLoad == {"counting", "counting queue", "making room", "removing"}

(* A texture that is not constructed yet is nowhere.                           *)
BornInv ==
    /\ Elements(mTextures) \subseteq born /\ Elements(mTextureDataQ) \subseteq born
    /\ loaded \subseteq born \ Broken /\ tex \in born \cup {NoTexture}
    /\ textureData \in born \cup {NoTexture}
    /\ pc \in {"holding", "loaded"} => textureData # NoTexture
    /\ main \in {"requesting", "queueing"} \cup InLoad => tex # NoTexture

(* Of the textures in the cache: what the loader is to decode, in its queue or  *)
(* in its hands, and with it what is decoded, or what the main thread, out of   *)
(* load, may decode by force.                                                  *)
Cached  == Elements(mTextures) \ Broken
Pending == (Elements(mTextureDataQ) \cup (IF pc = "holding" THEN {textureData} ELSE {})) \cap Cached
Forced  == IF main = "idle" THEN {tex} \cap Cached ELSE {}
Kept    == Pending \cup (loaded \cap Cached) \cup Forced

(* What the loop of load has left behind, in the queue and in memory; a texture *)
(* is released before it is removed. Of that only the textures that the loader  *)
(* had to decode when the loop began can be in memory again.                   *)
Removed  == {mTextures[i] : i \in victim + 1 .. Len(mTextures)}
Released == Removed \cup (IF main = "removing" THEN {mTextures[victim]} ELSE {})

Narrow ==
    /\ Removed \cap Elements(mTextureDataQ) = {}
    /\ Cardinality(Pending \cup (Kept \cap Released)) <= Budget + 1

(* What the loader had to decode when the textures in memory were counted is    *)
(* all that the count can miss.                                                *)
Counted == Cardinality(Kept) <= committed + Budget + 1

(* There is room, as far as the main thread knows. *)
Roomy  == Cardinality(Pending) <= Budget /\ Cardinality(Kept) <= 2 * Budget

Bounds ==
    /\ Cardinality(Pending) <= Budget + 1
    /\ Cardinality(Kept) <= 2 * Budget + 1
    /\ main \in InLoad => victim <= Len(mTextures)
    /\ main = "removing" => victim > 0

BudgetInv ==
    /\ Bounds
    /\ main \in InLoad => Narrow
    /\ main = "counting queue" => Counted
    /\ (main = "making room" /\ room) => Roomy
    /\ main = "queueing" => Roomy

Inv == TypeOK /\ Distinct(mTextures) /\ QueueIndexed /\ BornInv /\ BudgetInv

--------------------------------------------------------------------------------
USE TextureAssumption

LEMMA BudgetNat == Budget \in Nat /\ Budget >= 1 /\ MaxReleases \in Nat /\ MaxOwned \in Nat
BY BudgetAssumption

(* The operations on a list that holds a texture once *)

LEMMA EraseProperties ==
    ASSUME NEW q \in Seq(Textures), Distinct(q), NEW t
    PROVE  /\ Erase(q, t) \in Seq(Textures) /\ Distinct(Erase(q, t))
           /\ Elements(Erase(q, t)) = Elements(q) \ {t}
<1>1. CASE t \notin Elements(q)
  BY <1>1 DEF Erase
<1>2. CASE t \in Elements(q)
  <2> DEFINE i == CHOOSE i \in 1 .. Len(q) : q[i] = t
             r == Erase(q, t)
  <2>1. i \in 1 .. Len(q) /\ q[i] = t
    BY <1>2 DEF Elements
  <2>2. r = SubSeq(q, 1, i - 1) \o SubSeq(q, i + 1, Len(q))
    BY <1>2 DEF Erase, RemoveAt
  <2> HIDE DEF i, r
  <2>3. Len(q) \in Nat /\ i \in Int /\ \A j \in 1 .. Len(q) : q[j] \in Textures
    BY <2>1
  <2>4. /\ SubSeq(q, 1, i - 1) \in Seq(Textures) /\ Len(SubSeq(q, 1, i - 1)) = i - 1
        /\ \A j \in 1 .. i - 1 : SubSeq(q, 1, i - 1)[j] = q[j]
    <3>1. \A j \in 1 .. i - 1 : q[j] \in Textures
      BY <2>1, <2>3
    <3> QED
      BY <2>1, <2>3, <3>1, SubSeqProperties
  <2>5. /\ SubSeq(q, i + 1, Len(q)) \in Seq(Textures) /\ Len(SubSeq(q, i + 1, Len(q))) = Len(q) - i
        /\ \A j \in 1 .. Len(q) - i : SubSeq(q, i + 1, Len(q))[j] = q[i + j]
    <3>1. \A j \in i + 1 .. Len(q) : q[j] \in Textures
      BY <2>1, <2>3
    <3> QED
      BY <2>1, <2>3, <3>1, SubSeqProperties
  <2>6. /\ r \in Seq(Textures) /\ Len(r) = Len(q) - 1
        /\ \A j \in 1 .. Len(q) - 1 : r[j] = IF j < i THEN q[j] ELSE q[j + 1]
    <3> DEFINE a == SubSeq(q, 1, i - 1)
               b == SubSeq(q, i + 1, Len(q))
    <3>1. /\ a \in Seq(Textures) /\ Len(a) = i - 1 /\ \A j \in 1 .. i - 1 : a[j] = q[j]
          /\ b \in Seq(Textures) /\ Len(b) = Len(q) - i /\ \A j \in 1 .. Len(q) - i : b[j] = q[i + j]
          /\ r = a \o b
      BY <2>2, <2>4, <2>5
    <3> HIDE DEF a, b
    <3>2. /\ r \in Seq(Textures) /\ Len(r) = (i - 1) + (Len(q) - i)
          /\ \A j \in 1 .. (i - 1) + (Len(q) - i) : r[j] = IF j <= i - 1 THEN a[j] ELSE b[j - (i - 1)]
      <4>1. /\ r \in Seq(Textures) /\ Len(r) = Len(a) + Len(b)
            /\ \A j \in 1 .. Len(a) + Len(b) : r[j] = IF j <= Len(a) THEN a[j] ELSE b[j - Len(a)]
        BY <3>1, ConcatProperties
      <4> QED
        BY <3>1, <4>1
    <3>3. ASSUME NEW j \in 1 .. Len(q) - 1
          PROVE  r[j] = IF j < i THEN q[j] ELSE q[j + 1]
      <4>1. CASE j < i
        <5>1. j \in 1 .. i - 1 /\ j \in 1 .. (i - 1) + (Len(q) - i) /\ j <= i - 1
          BY <2>1, <2>3, <4>1
        <5> QED
          BY <3>1, <3>2, <4>1, <5>1
      <4>2. CASE j >= i
        <5>1. r[j] = b[j - (i - 1)]
          BY <2>1, <2>3, <3>2, <4>2
        <5>2. j - (i - 1) \in 1 .. Len(q) - i /\ i + (j - (i - 1)) = j + 1 /\ ~(j < i)
          BY <2>1, <2>3, <4>2
        <5>3. b[j - (i - 1)] = q[i + (j - (i - 1))]
          BY <3>1, <5>2
        <5> QED
          BY <5>1, <5>2, <5>3
      <4> QED
        BY <2>1, <4>1, <4>2
    <3> QED
      BY <2>1, <2>3, <3>2, <3>3
  <2>7. Elements(r) = Elements(q) \ {t}
    <3>1. ASSUME NEW j \in 1 .. Len(r)
          PROVE  r[j] \in Elements(q) \ {t}
      <4>1. PICK k \in 1 .. Len(q) : k # i /\ r[j] = q[k]
        <5>1. CASE j < i
          BY <2>1, <2>3, <2>6, <5>1
        <5>2. CASE j >= i
          BY <2>1, <2>3, <2>6, <5>2
        <5> QED
          BY <2>1, <2>3, <2>6, <5>1, <5>2
      <4> QED
        BY <2>1, <4>1 DEF Elements, Distinct
    <3>2. ASSUME NEW j \in 1 .. Len(q), q[j] # t
          PROVE  q[j] \in Elements(r)
      <4>1. CASE j < i
        BY <2>1, <2>3, <2>6, <4>1 DEF Elements
      <4>2. CASE j > i
        <5>1. j - 1 \in 1 .. Len(r) /\ r[j - 1] = q[j]
          BY <2>1, <2>3, <2>6, <4>2
        <5> QED
          BY <5>1 DEF Elements
      <4> QED
        BY <2>1, <3>2, <4>1, <4>2
    <3> QED
      BY <3>1, <3>2 DEF Elements
  <2>8. Distinct(r)
    BY <2>1, <2>3, <2>6 DEF Distinct
  <2> QED
    BY <2>6, <2>7, <2>8 DEF r
<1> QED
  BY <1>1, <1>2

LEMMA PushProperties ==
    ASSUME NEW q \in Seq(Textures), Distinct(q), NEW t \in Textures, t \notin Elements(q)
    PROVE  /\ <<t>> \o q \in Seq(Textures) /\ Distinct(<<t>> \o q)
           /\ Elements(<<t>> \o q) = Elements(q) \cup {t}
<1> DEFINE r == <<t>> \o q
<1>1. /\ r \in Seq(Textures) /\ Len(r) = Len(q) + 1 /\ Len(q) \in Nat
      /\ r[1] = t /\ \A i \in 2 .. Len(q) + 1 : r[i] = q[i - 1]
  BY ConcatProperties
<1> HIDE DEF r
<1>2. \A i \in 1 .. Len(r) : i = 1 \/ (i \in 2 .. Len(q) + 1 /\ i - 1 \in 1 .. Len(q))
  BY <1>1
<1>3. \A i \in 1 .. Len(q) : i + 1 \in 1 .. Len(r) /\ r[i + 1] = q[i]
  BY <1>1
<1>4. Elements(r) = Elements(q) \cup {t}
  <2>1. \A i \in 1 .. Len(r) : r[i] \in Elements(q) \cup {t}
    BY <1>1, <1>2 DEF Elements
  <2>2. t \in Elements(r)
    BY <1>1, 1 \in 1 .. Len(r) DEF Elements
  <2>3. \A i \in 1 .. Len(q) : q[i] \in Elements(r)
    BY <1>3 DEF Elements
  <2> QED
    BY <2>1, <2>2, <2>3 DEF Elements
<1>5. Distinct(r)
  BY <1>1, <1>2 DEF Distinct, Elements
<1> QED
  BY <1>1, <1>4, <1>5 DEF r

LEMMA TailElements ==
    ASSUME NEW q \in Seq(Textures), Distinct(q), q # <<>>
    PROVE  /\ Tail(q) \in Seq(Textures) /\ Distinct(Tail(q)) /\ Head(q) \in Elements(q)
           /\ Elements(Tail(q)) = Elements(q) \ {Head(q)}
<1> DEFINE r == Tail(q)
<1>1. /\ r \in Seq(Textures) /\ Len(r) = Len(q) - 1 /\ Len(q) \in Nat /\ Head(q) = q[1]
      /\ 1 \in 1 .. Len(q) /\ \A i \in 1 .. Len(q) - 1 : r[i] = q[i + 1]
  OBVIOUS
<1> HIDE DEF r
<1>2. \A i \in 1 .. Len(q) : i = 1 \/ (i - 1 \in 1 .. Len(r) /\ r[i - 1] = q[i])
  BY <1>1
<1>3. \A i \in 1 .. Len(r) : i + 1 \in 1 .. Len(q) /\ i + 1 # 1
  BY <1>1
<1>4. Elements(r) = Elements(q) \ {Head(q)}
  BY <1>1, <1>2, <1>3 DEF Elements, Distinct
<1>5. Distinct(r)
  BY <1>1, <1>3 DEF Distinct
<1> QED
  BY <1>1, <1>4, <1>5 DEF r, Elements

(* It is not longer than there are textures. *)
LEMMA DistinctLength ==
    ASSUME NEW q \in Seq(Textures), Distinct(q)
    PROVE  Len(q) <= Cardinality(Textures)
<1>1. Len(q) \in Nat /\ q \in [1 .. Len(q) -> Textures]
  OBVIOUS
<1>2. q \in Injection(1 .. Len(q), Textures)
  BY <1>1 DEF Injection, IsInjective, Distinct
<1>3. Cardinality(1 .. Len(q)) <= Cardinality(Textures)
  BY <1>2, FS_Injection
<1>4. Cardinality(1 .. Len(q)) = Len(q)
  BY <1>1, FS_Interval
<1> QED
  BY <1>3, <1>4

LEMMA NoElements == Elements(<<>>) = {}
BY DEF Elements

LEMMA ElementsTyped ==
    ASSUME NEW q \in Seq(Textures)
    PROVE  Elements(q) \subseteq Textures
BY DEF Elements

--------------------------------------------------------------------------------
(* The lists, the index and the places                                         *)

Lists ==
    /\ mTextures \in Seq(Textures) /\ Distinct(mTextures)
    /\ mTextureDataQ \in Seq(Textures) /\ Distinct(mTextureDataQ)
    /\ mTextureDataLookup = Elements(mTextureDataQ)

(* What a step does to the cache and to the queue *)
LEMMA ListSteps ==
    ASSUME Lists, BornInv, TypeOK, [Next]_vars
    PROVE  /\ Lists'
           /\ \/ Elements(mTextures') = Elements(mTextures) \/ main = "idle"
<1> USE DEF Lists
<1>1. ASSUME NEW t \in Textures, Add(t)
      PROVE  Lists' /\ main = "idle"
  <2>1. t \notin Elements(mTextures)
    BY <1>1 DEF Add, BornInv
  <2> QED
    BY <1>1, <2>1, PushProperties DEF Add, queue
<1>2. ASSUME NEW t \in Textures, Get(t)
      PROVE  Lists' /\ main = "idle"
  <2> DEFINE r == Erase(mTextures, t)
  <2>1. r \in Seq(Textures) /\ Distinct(r) /\ t \notin Elements(r)
    BY EraseProperties
  <2>2. mTextures' = <<t>> \o r /\ UNCHANGED queue /\ main = "idle"
    BY <1>2 DEF Get
  <2> HIDE DEF r
  <2> QED
    BY <2>1, <2>2, PushProperties DEF queue
<1>3. ASSUME NEW t \in Textures, Drop(t)
      PROVE  Lists' /\ main = "idle"
  BY <1>3, EraseProperties DEF Drop, queue
<1>4. CASE RemoveVictim
  BY <1>4, EraseProperties DEF RemoveVictim
<1>5. CASE Enqueue
  <2> DEFINE r == Erase(mTextureDataQ, tex)
  <2>1. r \in Seq(Textures) /\ Distinct(r) /\ Elements(r) = Elements(mTextureDataQ) \ {tex}
    BY EraseProperties
  <2>2. /\ mTextureDataQ' = <<tex>> \o r /\ UNCHANGED mTextures
        /\ mTextureDataLookup' = mTextureDataLookup \cup {tex} /\ tex \in Textures
    BY <1>5 DEF Enqueue, TypeOK, BornInv
  <2> HIDE DEF r
  <2>3. /\ mTextureDataQ' \in Seq(Textures) /\ Distinct(mTextureDataQ')
        /\ Elements(mTextureDataQ') = Elements(r) \cup {tex}
    BY <2>1, <2>2, PushProperties
  <2> QED
    BY <2>1, <2>2, <2>3
<1>6. CASE Take
  BY <1>6, TailElements DEF Take, queue
<1>7. CASE Join
  <2>1. Elements(<<>>) = {} /\ Distinct(<<>>) /\ <<>> \in Seq(Textures)
    BY DEF Elements, Distinct
  <2> QED
    BY <1>7, <2>1 DEF Join
<1>8. CASE Request \/ CountCommitted \/ CountQueue \/ ReleaseVictim \/ LoadNow \/ TestLoaded
  BY <1>8 DEF Request, CountCommitted, CountQueue, ReleaseVictim, LoadNow, TestLoaded, queue
<1>9. CASE Release \/ ForceLoad \/ Own \/ Exit \/ NotifyExit
  BY <1>9 DEF Release, ForceLoad, Own, Exit, NotifyExit, queue
<1>10. CASE TestExit \/ Wait \/ Load \/ Abort \/ WakeSpuriously \/ UNCHANGED vars
  BY <1>10 DEF TestExit, Wait, Load, Abort, WakeSpuriously, vars, queue
<1> QED
  BY <1>1, <1>2, <1>3, <1>4, <1>5, <1>6, <1>7, <1>8, <1>9, <1>10 DEF Next, MainStep, LoaderStep

LEMMA BornNext ==
    ASSUME Lists, BornInv, TypeOK, [Next]_vars
    PROVE  BornInv'
<1> USE DEF BornInv, Lists, TypeOK, InLoad
<1>1. ASSUME NEW t \in Textures, Add(t)
      PROVE  BornInv'
  <2>1. Elements(mTextures') = Elements(mTextures) \cup {t}
    BY <1>1, PushProperties DEF Add
  <2> QED
    BY <1>1, <2>1 DEF Add, queue, loader
<1>2. ASSUME NEW t \in Textures, Get(t)
      PROVE  BornInv'
  <2> DEFINE r == Erase(mTextures, t)
  <2>1. r \in Seq(Textures) /\ Distinct(r) /\ Elements(r) = Elements(mTextures) \ {t}
    BY EraseProperties
  <2>2. mTextures' = <<t>> \o r
    BY <1>2 DEF Get
  <2> HIDE DEF r
  <2>3. Elements(mTextures') = Elements(mTextures) \cup {t}
    BY <2>1, <2>2, PushProperties
  <2> QED
    BY <1>2, <2>3 DEF Get, queue, loader
<1>3. ASSUME NEW t \in Textures, Drop(t)
      PROVE  BornInv'
  <2>1. Elements(mTextures') \subseteq Elements(mTextures)
    BY <1>3, EraseProperties DEF Drop
  <2> QED
    BY <1>3, <2>1 DEF Drop, queue, loader, call
<1>4. CASE RemoveVictim
  <2>1. Elements(mTextureDataQ') \subseteq Elements(mTextureDataQ)
    BY <1>4, EraseProperties DEF RemoveVictim
  <2> QED
    BY <1>4, <2>1 DEF RemoveVictim, loader
<1>5. CASE Enqueue
  <2> DEFINE r == Erase(mTextureDataQ, tex)
  <2>1. r \in Seq(Textures) /\ Distinct(r) /\ Elements(r) = Elements(mTextureDataQ) \ {tex}
    BY EraseProperties
  <2>2. mTextureDataQ' = <<tex>> \o r /\ tex \in Textures \cap born
    BY <1>5 DEF Enqueue
  <2> HIDE DEF r
  <2>3. Elements(mTextureDataQ') = Elements(r) \cup {tex}
    BY <2>1, <2>2, PushProperties
  <2> QED
    BY <1>5, <2>1, <2>2, <2>3 DEF Enqueue, Woken
<1>6. CASE Take
  <2>1. CASE mTextureDataQ # <<>> /\ textureData' = Head(mTextureDataQ) /\ mTextureDataQ' = Tail(mTextureDataQ)
    BY <1>6, <2>1, TailElements DEF Take, call
  <2>2. CASE textureData' = NoTexture /\ pc' = "testing" /\ UNCHANGED queue
    BY <1>6, <2>2 DEF Take, call, queue
  <2> QED
    BY <1>6, <2>1, <2>2 DEF Take
<1>7. CASE Join
  BY <1>7, NoElements DEF Join, loader
<1>8. CASE Request \/ CountCommitted \/ CountQueue \/ ReleaseVictim \/ LoadNow \/ TestLoaded
  BY <1>8 DEF Request, CountCommitted, CountQueue, ReleaseVictim, LoadNow, RoomMade, TestLoaded, queue,
              loader
<1>9. CASE Release \/ ForceLoad \/ Own \/ Exit \/ NotifyExit
  BY <1>9 DEF Release, ForceLoad, Own, Exit, NotifyExit, Woken, queue, loader, call
<1>10. CASE TestExit \/ Wait \/ WakeSpuriously \/ Load \/ Abort \/ UNCHANGED vars
  BY <1>10 DEF TestExit, Wait, WakeSpuriously, Load, Abort, Woken, vars, queue, loader, call
<1> QED
  BY <1>1, <1>2, <1>3, <1>4, <1>5, <1>6, <1>7, <1>8, <1>9, <1>10 DEF Next, MainStep, LoaderStep

LEMMA LessIsBoolean == \A a, b : (a < b) \in BOOLEAN
OBVIOUS

LEMMA FlagsNext ==
    ASSUME TypeOK, [Next]_vars
    PROVE  (mExit \in BOOLEAN /\ block \in BOOLEAN /\ room \in BOOLEAN)'
<1> USE DEF TypeOK, call, count
<1>1. ASSUME NEW t \in Textures, Add(t) \/ Get(t) \/ Drop(t)
      PROVE  (mExit \in BOOLEAN /\ block \in BOOLEAN /\ room \in BOOLEAN)'
  BY <1>1, Zenon DEF Add, Get, Drop
<1>2. CASE CountQueue
  <2> DEFINE less == committed + QueueSize(mTextureDataQ) < Budget
  <2>1. less \in BOOLEAN
    BY LessIsBoolean, Zenon
  <2>2. room' = less /\ UNCHANGED <<mExit, block>>
    BY <1>2, Zenon DEF CountQueue
  <2> HIDE DEF less
  <2> QED
    BY <2>1, <2>2, Zenon
<1>3. CASE Request \/ CountCommitted \/ ReleaseVictim \/ RemoveVictim
  BY <1>3, Zenon DEF Request, CountCommitted, ReleaseVictim, RemoveVictim
<1>4. CASE LoadNow \/ TestLoaded \/ Enqueue \/ NotifyExit \/ Join
  BY <1>4, Zenon DEF LoadNow, TestLoaded, Enqueue, NotifyExit, Join
<1>5. CASE Release \/ ForceLoad \/ Own \/ Exit
  BY <1>5, Zenon DEF Release, ForceLoad, Own, Exit
<1>6. CASE TestExit \/ Wait \/ Take \/ Load \/ Abort \/ WakeSpuriously \/ UNCHANGED vars
  BY <1>6, Zenon DEF TestExit, Wait, Take, Load, Abort, WakeSpuriously, vars
<1> QED
  BY <1>1, <1>2, <1>3, <1>4, <1>5, <1>6, Zenon DEF Next, MainStep, LoaderStep

(* Cardinalities of sets of textures                                           *)
LEMMA Smaller ==
    ASSUME NEW A, NEW B \in SUBSET Textures, A \subseteq B
    PROVE  Cardinality(A) \in Nat /\ Cardinality(B) \in Nat /\ Cardinality(A) <= Cardinality(B)
<1>1. IsFiniteSet(B)
  BY FS_Subset
<1>2. IsFiniteSet(A) /\ Cardinality(A) <= Cardinality(B)
  BY <1>1, FS_Subset
<1> QED
  BY <1>1, <1>2, FS_CardinalityType

LEMMA PlacesTyped ==
    TypeOK => /\ Len(mTextures) \in Nat /\ victim \in Nat
              /\ committed \in Nat /\ owned \in Nat
<1> SUFFICES ASSUME TypeOK
             PROVE  /\ Len(mTextures) \in Nat /\ victim \in Nat
                    /\ committed \in Nat /\ owned \in Nat
  OBVIOUS
<1>1. /\ mTextures \in Seq(Textures) /\ victim \in 0 .. Cardinality(Textures)
      /\ committed \in Nat /\ owned \in 0 .. MaxOwned
  BY Zenon DEF TypeOK
<1>2. Cardinality(Textures) \in Nat
  BY FS_CardinalityType
<1> QED
  BY <1>1, <1>2, BudgetNat

LEMMA BudgetParts == BudgetInv => Bounds
BY DEF BudgetInv

LEMMA TypeNext ==
    ASSUME Lists, BornInv, TypeOK, BudgetInv, [Next]_vars
    PROVE  TypeOK'
<1> DEFINE Places == /\ pc \in {"testing", "locking", "asleep", "woken", "holding", "loaded", "ended"}
                     /\ main \in {"idle", "requesting", "counting", "counting queue", "making room",
                                  "removing", "queueing", "exiting", "joining", "destroyed"}
                     /\ victim \in 0 .. Cardinality(Textures)
                     /\ committed \in Nat /\ owned \in 0 .. MaxOwned
                     /\ born \subseteq Textures /\ releases \in 0 .. MaxReleases
<1>0. /\ victim \in 0 .. Cardinality(Textures)
      /\ Len(mTextures) \in 0 .. Cardinality(Textures)
      /\ victim > 0 => victim - 1 \in 0 .. Cardinality(Textures)
      /\ victim \in Nat
  <2>1. Len(mTextures) \in Nat /\ Len(mTextures) <= Cardinality(Textures)
    BY DistinctLength DEF Lists
  <2>2. Cardinality(Textures) \in Nat
    BY FS_CardinalityType
  <2>3. victim \in 0 .. Cardinality(Textures)
    BY DEF TypeOK
  <2> QED
    BY <2>1, <2>2, <2>3
<1>1. CountCommitted => committed' \in Nat
  <2>1. Cardinality(loaded \cap Elements(mTextures)) \in Nat
    BY Smaller DEF TypeOK
  <2>2. owned \in Nat
    BY PlacesTyped
  <2>3. owned + Cardinality(loaded \cap Elements(mTextures)) \in Nat
    BY <2>1, <2>2
  <2> QED
    BY <2>3 DEF CountCommitted
<1>2. Release => releases' \in 0 .. MaxReleases
  <2>1. releases \in 0 .. MaxReleases
    BY Zenon DEF TypeOK
  <2>2. Release => releases < MaxReleases /\ releases' = releases + 1
    BY Zenon DEF Release
  <2> QED
    BY <2>1, <2>2, BudgetNat
<1>3. Places'
  <2> USE DEF TypeOK, call, count, loader
  <2>1. ASSUME NEW t \in Textures, Add(t) \/ Get(t) \/ Drop(t)
        PROVE  Places'
    BY <2>1 DEF Add, Get, Drop
  <2>2. CASE Request
    BY <1>0, <2>2 DEF Request
  <2>3. CASE CountCommitted
    BY <1>1, <2>3 DEF CountCommitted
  <2>4. CASE CountQueue \/ ReleaseVictim
    BY <2>4 DEF CountQueue, ReleaseVictim
  <2>5. CASE RemoveVictim
    <3>1. victim > 0
      BY <2>5, BudgetParts DEF RemoveVictim, Bounds
    <3> QED
      BY <1>0, <2>5, <3>1 DEF RemoveVictim
  <2>6. CASE LoadNow \/ TestLoaded \/ Enqueue \/ NotifyExit \/ Join
    BY <2>6 DEF LoadNow, TestLoaded, Enqueue, NotifyExit, Join, Woken
  <2>7. CASE Release
    BY <1>2, <2>7 DEF Release
  <2>8. CASE ForceLoad \/ Own \/ Exit
    BY <2>8 DEF ForceLoad, Own, Exit
  <2>9. CASE TestExit \/ Wait \/ Take \/ Load \/ Abort \/ WakeSpuriously \/ UNCHANGED vars
    BY <2>9 DEF TestExit, Wait, Take, Load, Abort, WakeSpuriously, Woken, vars
  <2> QED
    BY <2>1, <2>2, <2>3, <2>4, <2>5, <2>6, <2>7, <2>8, <2>9 DEF Next, MainStep, LoaderStep
<1>4. Lists' /\ BornInv'
  BY ListSteps, BornNext
<1>5. (mTextureDataLookup \subseteq Textures)'
  BY <1>4, ElementsTyped DEF Lists
<1> QED
  BY <1>3, <1>4, <1>5, FlagsNext DEF TypeOK, Lists, BornInv

--------------------------------------------------------------------------------
(* The budget                                                                  *)

LEMMA OneMore ==
    ASSUME NEW A, NEW B \in SUBSET Textures, NEW t, A \subseteq B \cup {t}
    PROVE  Cardinality(A) \in Nat /\ Cardinality(B) \in Nat /\ Cardinality(A) <= Cardinality(B) + 1
<1>1. IsFiniteSet(B)
  BY FS_Subset
<1>2. IsFiniteSet(B \cup {t}) /\ Cardinality(B) \in Nat
      /\ Cardinality(B \cup {t}) <= Cardinality(B) + 1
  <2>1. Cardinality(B) \in Nat
    BY <1>1, FS_CardinalityType
  <2>2. IsFiniteSet(B \cup {t})
        /\ Cardinality(B \cup {t}) = IF t \in B THEN Cardinality(B) ELSE Cardinality(B) + 1
    BY <1>1, FS_AddElement
  <2> QED
    BY <2>1, <2>2
<1>3. IsFiniteSet(A) /\ Cardinality(A) <= Cardinality(B \cup {t})
  BY <1>2, FS_Subset
<1> QED
  BY <1>2, <1>3, FS_CardinalityType

LEMMA KeptTyped == TypeOK => Kept \in SUBSET Textures /\ Pending \in SUBSET Kept
BY ElementsTyped DEF TypeOK, Kept, Pending, Forced, Cached

(* When load has made room, or has been through the whole cache               *)
LEMMA RoomBounds ==
    ASSUME TypeOK, BudgetInv, RoomMade
    PROVE  Roomy
<1>0. Kept \in SUBSET Textures /\ Pending \in SUBSET Kept
  BY KeptTyped
<1>1. Cardinality(Pending) \in Nat /\ Cardinality(Kept) \in Nat /\ Cardinality(Pending) <= Cardinality(Kept)
  BY <1>0, Smaller
<1>2. main = "making room" /\ Narrow /\ (Roomy \/ victim = 0)
  BY Zenon DEF BudgetInv, RoomMade, InLoad
<1>3. CASE victim = 0
  <2>1. Removed = Elements(mTextures) /\ Released = Removed
    <3>1. victim + 1 = 1
      BY <1>3
    <3> QED
      BY <1>2, <3>1 DEF Removed, Released, Elements
  <2>2. Kept \subseteq Pending \cup (Kept \cap Released)
    BY <1>2, <2>1 DEF Kept, Forced, Cached
  <2>3. Pending \subseteq {} \cup {textureData}
    BY <1>2, <2>1 DEF Narrow, Pending, Cached
  <2>4. /\ Cardinality(Kept) <= Cardinality(Pending \cup (Kept \cap Released))
        /\ Cardinality(Pending \cup (Kept \cap Released)) \in Nat
    BY <1>0, <2>2, Smaller
  <2>5. Cardinality(Pending \cup (Kept \cap Released)) <= Budget + 1
    BY <1>2 DEF Narrow
  <2>6. Cardinality(Pending) <= Cardinality({}) + 1 /\ Cardinality({}) = 0
    BY <2>3, OneMore, FS_EmptySet
  <2>7. Cardinality(Pending) <= Budget /\ Cardinality(Kept) <= 2 * Budget
    BY <1>1, <2>4, <2>5, <2>6, BudgetNat
  <2> QED
    BY <2>7 DEF Roomy
<1> QED
  BY <1>2, <1>3

(* A step that queues and decodes nothing more                                  *)
Less == Pending' \subseteq Pending /\ Kept' \subseteq Kept

LEMMA LessBounds ==
    ASSUME TypeOK, BudgetInv, Less
    PROVE  /\ Cardinality(Pending') <= Budget + 1 /\ Cardinality(Kept') <= 2 * Budget + 1
           /\ Cardinality(Pending') <= Cardinality(Pending) /\ Cardinality(Kept') <= Cardinality(Kept)
           /\ {Cardinality(Pending'), Cardinality(Pending), Cardinality(Kept'), Cardinality(Kept)} \subseteq Nat
<1>0. Kept \in SUBSET Textures /\ Pending \in SUBSET Textures
  BY KeptTyped
<1>1. Cardinality(Pending') \in Nat /\ Cardinality(Pending) \in Nat /\ Cardinality(Pending') <= Cardinality(Pending)
  BY <1>0, Smaller DEF Less
<1>2. Cardinality(Kept') \in Nat /\ Cardinality(Kept) \in Nat /\ Cardinality(Kept') <= Cardinality(Kept)
  BY <1>0, Smaller DEF Less
<1>3. Cardinality(Pending) <= Budget + 1 /\ Cardinality(Kept) <= 2 * Budget + 1
  BY BudgetParts DEF Bounds
<1>4. Cardinality(Pending') <= Budget + 1 /\ Cardinality(Kept') <= 2 * Budget + 1
  BY <1>1, <1>2, <1>3, BudgetNat
<1> QED
  BY <1>1, <1>2, <1>4

LEMMA LessRoomy ==
    ASSUME TypeOK, BudgetInv, Less, Roomy
    PROVE  Roomy'
<1> DEFINE p == Cardinality(Pending)
           k == Cardinality(Kept)
<1>1. p <= Budget /\ k <= 2 * Budget
  BY DEF Roomy
<1>2. p' <= p /\ k' <= k /\ {p', p, k', k} \subseteq Nat
  BY LessBounds
<1> HIDE DEF p, k
<1>3. p' <= Budget /\ k' <= 2 * Budget
  BY <1>1, <1>2, BudgetNat
<1> QED
  BY <1>3 DEF Roomy, p, k

(* The main thread is out of load. *)
LEMMA OutOfLoad ==
    ASSUME TypeOK, BudgetInv, Less, main' \notin InLoad \cup {"queueing"}
    PROVE  BudgetInv'
<1>1. Bounds'
  BY LessBounds DEF Bounds, InLoad
<1> QED
  BY <1>1 DEF BudgetInv, InLoad

(* What is left behind stays narrow while nothing new is queued, and what is    *)
(* newly left behind is in memory only if it is pending.                        *)
LEMMA NarrowStays ==
    ASSUME TypeOK, Narrow, Less, Kept' \cap Released' \subseteq Pending \cup (Kept \cap Released),
           Removed' \cap Elements(mTextureDataQ') = {}
    PROVE  Narrow'
<1> DEFINE M == Pending \cup (Kept \cap Released)
<1>1. M' \subseteq M /\ M \in SUBSET Textures
  BY KeptTyped DEF Less
<1>2. Cardinality(M) <= Budget + 1
  BY DEF Narrow
<1> HIDE DEF M
<1>3. Cardinality(M') \in Nat /\ Cardinality(M) \in Nat /\ Cardinality(M') <= Cardinality(M)
  BY <1>1, Smaller
<1>4. Cardinality(M') <= Budget + 1
  BY <1>2, <1>3, BudgetNat
<1> QED
  BY <1>4 DEF Narrow, M

(* The loader goes on while the main thread is anywhere.                       *)
LEMMA LoaderGoesOn ==
    ASSUME TypeOK, BudgetInv, Less, UNCHANGED <<mTextures, main, victim, committed>>, room' <=> room,
           Elements(mTextureDataQ') \subseteq Elements(mTextureDataQ)
    PROVE  BudgetInv'
<1>1. Bounds'
  BY BudgetParts, LessBounds DEF Bounds, InLoad
<1>2. Roomy => Roomy'
  BY LessRoomy
<1>3. Narrow => Narrow'
  <2>1. Removed' = Removed /\ Released' = Released
    BY DEF Removed, Released
  <2> QED
    BY <2>1, NarrowStays DEF Less, Narrow
<1>4. Counted => Counted'
  <2> DEFINE k == Cardinality(Kept)
  <2>1. k' <= k /\ {k', k} \subseteq Nat /\ committed \in Nat
    BY LessBounds, PlacesTyped
  <2> HIDE DEF k
  <2>2. k <= committed + Budget + 1 => k' <= committed + Budget + 1
    BY <2>1, BudgetNat
  <2> QED
    BY <2>2 DEF Counted, k
<1> QED
  BY <1>1, <1>2, <1>3, <1>4, Zenon DEF BudgetInv

(* The steps of the loader, and those that are of no interest here              *)
LEMMA LoaderBudget ==
    ASSUME Lists, BornInv, TypeOK, BudgetInv,
           TestExit \/ Wait \/ WakeSpuriously \/ Take \/ Load \/ Abort \/ UNCHANGED vars
    PROVE  BudgetInv'
<1>1. UNCHANGED <<mTextures, main, tex, victim, committed>>
  BY DEF TestExit, Wait, WakeSpuriously, Take, Load, Abort, vars, call, count
<1>2. room' <=> room
  <2>1. UNCHANGED call
    BY DEF TestExit, Wait, WakeSpuriously, Take, Load, Abort, vars
  <2> QED
    BY <2>1, Zenon DEF call, count
<1>3. Forced' = Forced
  BY <1>1 DEF Forced, Cached
<1>4. Less /\ Elements(mTextureDataQ') \subseteq Elements(mTextureDataQ)
  <2> USE <1>3 DEF Less, Pending, Kept, Cached
  <2>1. CASE TestExit \/ Wait \/ WakeSpuriously \/ UNCHANGED vars
    BY <2>1 DEF TestExit, Wait, WakeSpuriously, Woken, vars, queue, loader, call
  <2>2. CASE Take
    <3>1. UNCHANGED mTextures /\ loaded' \subseteq loaded /\ pc # "holding"
      BY <2>2 DEF Take
    <3>2. CASE /\ mTextureDataQ # <<>> /\ textureData' = Head(mTextureDataQ)
               /\ mTextureDataQ' = Tail(mTextureDataQ) /\ pc' = "holding"
      <4>1. /\ Elements(mTextureDataQ') \subseteq Elements(mTextureDataQ)
            /\ textureData' \in Elements(mTextureDataQ)
        BY <3>2, TailElements DEF Lists
      <4> QED
        BY <3>1, <4>1
    <3>3. CASE UNCHANGED mTextureDataQ /\ pc' = "testing"
      BY <3>1, <3>3
    <3> QED
      BY <2>2, <3>2, <3>3 DEF Take, queue
  <2>3. CASE Load
    BY <2>3 DEF Load, queue
  <2>4. CASE Abort
    BY <2>4 DEF Abort, queue
  <2> QED
    BY <2>1, <2>2, <2>3, <2>4
<1> QED
  BY <1>1, <1>2, <1>4, LoaderGoesOn

(* The calls, but for load                                                      *)
LEMMA CallBudget ==
    ASSUME Lists, Lists', BornInv, TypeOK, BudgetInv,
           \/ \E t \in Textures : Add(t) \/ Get(t) \/ Drop(t)
           \/ Release \/ ForceLoad \/ Own \/ Exit \/ NotifyExit \/ Join
    PROVE  BudgetInv'
<1>1. main' \notin InLoad \cup {"queueing"}
  BY DEF Add, Get, Drop, Release, ForceLoad, Own, Exit, NotifyExit, Join, call, InLoad
<1>2. Less
  <2> USE DEF Less, Pending, Kept, Cached, Forced
  <2>1. ASSUME NEW t \in Textures, Add(t)
        PROVE  Less
    <3>1. Elements(mTextures') = Elements(mTextures) \cup {t}
      BY <2>1, PushProperties DEF Add, BornInv, Lists
    <3>2. t \notin loaded /\ t \notin Elements(mTextureDataQ) /\ t # textureData
      BY <2>1 DEF Add, BornInv
    <3>3. UNCHANGED <<loaded, mTextureDataQ, pc, textureData>> /\ main' = "requesting"
      BY <2>1 DEF Add, queue, loader
    <3> QED
      BY <3>1, <3>2, <3>3
  <2>2. ASSUME NEW t \in Textures, Get(t)
        PROVE  Less
    <3> DEFINE r == Erase(mTextures, t)
    <3>1. r \in Seq(Textures) /\ Distinct(r) /\ Elements(r) = Elements(mTextures) \ {t}
      BY EraseProperties DEF Lists
    <3>2. mTextures' = <<t>> \o r /\ t \in Elements(mTextures)
      BY <2>2 DEF Get
    <3> HIDE DEF r
    <3>3. Elements(mTextures') = Elements(mTextures)
      <4>1. Elements(<<t>> \o r) = Elements(r) \cup {t}
        BY <3>1, PushProperties
      <4> QED
        BY <3>1, <3>2, <4>1
    <3>4. UNCHANGED <<loaded, mTextureDataQ, pc, textureData>> /\ main' = "requesting"
      BY <2>2 DEF Get, queue, loader
    <3> QED
      BY <3>3, <3>4
  <2>3. ASSUME NEW t \in Textures, Drop(t)
        PROVE  Less
    <3>1. Elements(mTextures') \subseteq Elements(mTextures)
      BY <2>3, EraseProperties DEF Drop, Lists
    <3>2. loaded' \subseteq loaded /\ UNCHANGED <<mTextureDataQ, pc, textureData, main, tex>>
      BY <2>3 DEF Drop, queue, loader, call
    <3> QED
      BY <3>1, <3>2
  <2>4. CASE Release \/ Own \/ Exit \/ NotifyExit
    BY <2>4 DEF Release, Own, Exit, NotifyExit, Woken, queue, loader, call
  <2>5. CASE ForceLoad
    BY <2>5 DEF ForceLoad, queue, loader, call
  <2>6. CASE Join
    <3>1. Elements(mTextureDataQ') = {}
      BY <2>6, NoElements DEF Join
    <3> QED
      BY <2>6, <3>1 DEF Join, loader
  <2> QED
    BY <2>1, <2>2, <2>3, <2>4, <2>5, <2>6
<1> QED
  BY <1>1, <1>2, OutOfLoad

(* load, from its test of isLoaded to its loop                                  *)
LEMMA RequestBudget ==
    ASSUME TypeOK, BudgetInv, Request
    PROVE  BudgetInv'
<1>1. main = "requesting" /\ UNCHANGED <<mTextures, loaded, mTextureDataQ, pc, textureData, tex>>
  BY DEF Request, queue, loader
<1>2. Pending' = Pending
  BY <1>1 DEF Pending, Cached
<1>3. CASE main' = "idle" /\ tex \in loaded
  <2>1. Less
    BY <1>1, <1>2, <1>3 DEF Less, Kept, Forced, Cached
  <2> QED
    BY <1>3, <2>1, OutOfLoad DEF InLoad
<1>4. CASE main' = "counting" /\ victim' = Len(mTextures)
  <2>1. Kept' = Kept
    BY <1>1, <1>2, <1>4 DEF Kept, Forced, Cached
  <2>2. Len(mTextures) \in Nat /\ Len(mTextures') = Len(mTextures)
    BY <1>1, PlacesTyped
  <2>3. Removed' = {} /\ Released' = {}
    BY <1>1, <1>4, <2>2 DEF Removed, Released
  <2>4. Bounds
    BY BudgetParts
  <2>5. Narrow'
    <3>1. Pending' \cup (Kept' \cap Released') = Pending
      BY <1>2, <2>3
    <3> QED
      BY <2>3, <2>4, <3>1 DEF Narrow, Bounds
  <2>6. Bounds'
    BY <1>2, <1>4, <2>1, <2>2, <2>4 DEF Bounds
  <2> QED
    BY <1>4, <2>5, <2>6 DEF BudgetInv
<1> QED
  BY <1>3, <1>4, Zenon DEF Request

(* The two parts of the memory in use                                           *)
LEMMA CountCommittedBudget ==
    ASSUME TypeOK, BudgetInv, CountCommitted
    PROVE  BudgetInv'
<1> DEFINE A == loaded \cap Elements(mTextures)
<1>1. /\ main = "counting" /\ main' = "counting queue"
      /\ UNCHANGED <<mTextures, loaded, mTextureDataQ, pc, textureData, victim>>
  BY DEF CountCommitted, queue, loader
<1>2. committed' = owned + Cardinality(A)
  BY DEF CountCommitted
<1>3. Pending' = Pending /\ Kept' = Kept /\ Kept \subseteq Pending \cup A
  BY <1>1 DEF Pending, Kept, Forced, Cached
<1>4. Bounds /\ Narrow
  BY <1>1 DEF BudgetInv, InLoad
<1>5. Bounds'
  BY <1>1, <1>3, <1>4 DEF Bounds, InLoad
<1>6. Narrow'
  BY <1>1, <1>3, <1>4 DEF Narrow, Removed, Released
<1>7. Counted'
  <2>1. A \in SUBSET Textures /\ Pending \in SUBSET Textures /\ Pending \cup A \in SUBSET Textures
    BY KeptTyped DEF TypeOK
  <2> HIDE DEF A
  <2>2. IsFiniteSet(A) /\ IsFiniteSet(Pending)
    BY <2>1, FS_Subset
  <2>3. /\ Cardinality(A) \in Nat /\ Cardinality(Pending) \in Nat /\ Cardinality(A \cap Pending) \in Nat
        /\ Cardinality(Kept) \in Nat /\ Cardinality(Pending \cup A) \in Nat
        /\ Cardinality(Kept) <= Cardinality(Pending \cup A)
    BY <1>3, <2>1, Smaller
  <2>4. Cardinality(Pending \cup A) = Cardinality(Pending) + Cardinality(A) - Cardinality(Pending \cap A)
    BY <2>2, FS_Union
  <2>5. Cardinality(Pending \cup A) <= Cardinality(Pending) + Cardinality(A)
    <3>1. Pending \cap A = A \cap Pending
      OBVIOUS
    <3>2. Cardinality(Pending \cap A) \in Nat
      BY <2>3, <3>1
    <3> QED
      BY <2>3, <2>4, <3>2
  <2>6. Cardinality(Pending) <= Budget + 1
    BY <1>4 DEF Bounds
  <2>7. owned \in Nat
    BY PlacesTyped
  <2>8. Cardinality(Kept) <= (owned + Cardinality(A)) + Budget + 1
    BY <2>3, <2>5, <2>6, <2>7, BudgetNat
  <2> QED
    BY <1>2, <1>3, <2>8 DEF Counted
<1> QED
  BY <1>1, <1>5, <1>6, <1>7 DEF BudgetInv

LEMMA CountQueueBudget ==
    ASSUME TypeOK, BudgetInv, CountQueue
    PROVE  BudgetInv'
<1> DEFINE B == Elements(mTextureDataQ) \ Broken
<1>1. /\ main = "counting queue" /\ main' = "making room"
      /\ UNCHANGED <<mTextures, loaded, mTextureDataQ, pc, textureData, victim>>
  BY Zenon DEF CountQueue, queue, loader
<1>2. room' <=> committed + Cardinality(B) < Budget
  BY Zenon DEF CountQueue, QueueSize
<1>3. Pending' = Pending /\ Kept' = Kept /\ Pending \subseteq B \cup {textureData}
  BY <1>1 DEF Pending, Kept, Forced, Cached
<1>4. Bounds /\ Narrow /\ Counted
  BY <1>1, Zenon DEF BudgetInv, InLoad
<1>5. Bounds'
  BY <1>1, <1>3, <1>4 DEF Bounds, InLoad
<1>6. Narrow'
  BY <1>1, <1>3, <1>4 DEF Narrow, Removed, Released
<1>7. room' => Roomy'
  <2>1. B \in SUBSET Textures /\ Kept \in SUBSET Textures
    BY ElementsTyped, KeptTyped DEF TypeOK
  <2> HIDE DEF B
  <2>2. /\ Cardinality(Pending) \in Nat /\ Cardinality(B) \in Nat
        /\ Cardinality(Pending) <= Cardinality(B) + 1
    BY <1>3, <2>1, OneMore
  <2>3. Cardinality(Kept) \in Nat /\ committed \in Nat
    BY <2>1, Smaller, PlacesTyped
  <2>4. Cardinality(Kept) <= committed + Budget + 1
    BY <1>4 DEF Counted
  <2>5. committed + Cardinality(B) < Budget
          => Cardinality(Pending) <= Budget /\ Cardinality(Kept) <= 2 * Budget
    BY <2>2, <2>3, <2>4, BudgetNat
  <2>6. (Cardinality(Pending) <= Budget /\ Cardinality(Kept) <= 2 * Budget) => Roomy'
    BY <1>3 DEF Roomy
  <2> QED
    BY <1>2, <2>5, <2>6, Zenon
<1>8. main' # "counting queue" /\ main' # "queueing"
  BY <1>1
<1> QED
  BY <1>5, <1>6, <1>7, <1>8, Zenon DEF BudgetInv

(* One turn of the loop: the texture is released, then removed from the queue   *)
LEMMA ReleaseVictimBudget ==
    ASSUME TypeOK, BudgetInv, ReleaseVictim
    PROVE  BudgetInv'
<1> DEFINE t == mTextures[victim]
<1>1. /\ main = "making room" /\ main' = "removing" /\ victim > 0 /\ loaded' = loaded \ {t}
      /\ UNCHANGED <<mTextures, mTextureDataQ, pc, textureData, victim>>
  BY Zenon DEF ReleaseVictim, queue, loader, count
<1>2. Bounds /\ Narrow
  BY <1>1, Zenon DEF BudgetInv, InLoad
<1>3. Removed' = Removed /\ Released = Removed /\ Released' = Removed \cup {t}
  BY <1>1 DEF Removed, Released
<1>4. Less /\ (t \in Kept' => t \in Pending')
  BY <1>1 DEF Less, Pending, Kept, Forced, Cached
<1>5. Bounds'
  BY <1>1, <1>2, <1>4, LessBounds DEF Bounds, InLoad
<1>6. Narrow'
  <2>1. Kept' \cap Released' \subseteq Pending \cup (Kept \cap Released)
    BY <1>3, <1>4 DEF Less
  <2>2. Removed' \cap Elements(mTextureDataQ') = {}
    BY <1>1, <1>2, <1>3 DEF Narrow
  <2> QED
    BY <1>2, <1>4, <2>1, <2>2, NarrowStays
<1> QED
  BY <1>1, <1>5, <1>6 DEF BudgetInv

LEMMA RemoveVictimBudget ==
    ASSUME Lists, TypeOK, BudgetInv, RemoveVictim
    PROVE  BudgetInv'
<1> DEFINE t == mTextures[victim]
<1>1. /\ main = "removing" /\ main' = "counting" /\ victim' = victim - 1
      /\ mTextureDataQ' = Erase(mTextureDataQ, t)
      /\ UNCHANGED <<mTextures, loaded, pc, textureData>>
  BY Zenon DEF RemoveVictim, loader
<1>2. Bounds /\ Narrow
  BY <1>1, Zenon DEF BudgetInv, InLoad
<1>3. Elements(mTextureDataQ') = Elements(mTextureDataQ) \ {t}
  BY <1>1, EraseProperties DEF Lists
<1>4. /\ victim \in 1 .. Len(mTextures) /\ Len(mTextures) \in Nat /\ Len(mTextures') = Len(mTextures)
      /\ victim' <= Len(mTextures')
  BY <1>1, <1>2, PlacesTyped DEF Bounds, InLoad
<1>5. Removed' = Removed \cup {t}
  <2>1. (victim - 1) + 1 .. Len(mTextures) = {victim} \cup (victim + 1 .. Len(mTextures))
    BY <1>4
  <2> QED
    BY <1>1, <2>1 DEF Removed
<1>6. Released = Removed \cup {t} /\ Released' = Removed'
  BY <1>1 DEF Released
<1> HIDE DEF t
<1>7. Less
  BY <1>1, <1>3 DEF Less, Pending, Kept, Forced, Cached
<1>8. Bounds'
  BY <1>1, <1>4, <1>7, LessBounds DEF Bounds
<1>9. Narrow'
  <2>1. Kept' \cap Released' \subseteq Pending \cup (Kept \cap Released)
    BY <1>5, <1>6, <1>7 DEF Less
  <2>2. Removed' \cap Elements(mTextureDataQ') = {}
    BY <1>2, <1>3, <1>5 DEF Narrow
  <2> QED
    BY <1>2, <1>7, <2>1, <2>2, NarrowStays
<1> QED
  BY <1>1, <1>8, <1>9 DEF BudgetInv

(* Room is made, or nothing is left to release: the texture is decoded here, or  *)
(* left to the loader.                                                         *)
LEMMA LoadNowBudget ==
    ASSUME TypeOK, BudgetInv, LoadNow
    PROVE  BudgetInv'
<1>1. /\ RoomMade /\ loaded' = loaded \cup ({tex} \ Broken) /\ main' = "requesting"
      /\ UNCHANGED <<mTextures, mTextureDataQ, pc, textureData>>
  BY Zenon DEF LoadNow, queue, loader
<1>2. Pending' = Pending /\ Kept' \subseteq Kept \cup {tex}
  BY <1>1 DEF Pending, Kept, Forced, Cached
<1>3. Cardinality(Pending) <= Budget /\ Cardinality(Kept) <= 2 * Budget
  BY <1>1, RoomBounds DEF Roomy
<1>4. /\ Cardinality(Kept') \in Nat /\ Cardinality(Kept) \in Nat
      /\ Cardinality(Kept') <= Cardinality(Kept) + 1
  BY <1>2, KeptTyped, OneMore
<1>5. Cardinality(Pending) \in Nat
  BY KeptTyped, Smaller
<1>6. Cardinality(Pending') <= Budget + 1 /\ Cardinality(Kept') <= 2 * Budget + 1
  BY <1>2, <1>3, <1>4, <1>5, BudgetNat
<1> QED
  BY <1>1, <1>6 DEF BudgetInv, Bounds, InLoad

LEMMA TestLoadedBudget ==
    ASSUME TypeOK, BudgetInv, TestLoaded
    PROVE  BudgetInv'
<1>1. /\ RoomMade /\ main = "making room"
      /\ UNCHANGED <<mTextures, loaded, mTextureDataQ, pc, textureData, tex>>
  BY Zenon DEF TestLoaded, RoomMade, queue, loader
<1>2. Pending' = Pending
  BY <1>1 DEF Pending, Cached
<1>3. CASE main' = "idle" /\ tex \in loaded
  <2>1. Less
    BY <1>1, <1>2, <1>3 DEF Less, Kept, Forced, Cached
  <2> QED
    BY <1>3, <2>1, OutOfLoad DEF InLoad
<1>4. CASE main' = "queueing"
  <2>1. Less
    BY <1>1, <1>2, <1>4 DEF Less, Kept, Forced, Cached
  <2>2. Roomy'
    BY <1>1, <2>1, RoomBounds, LessRoomy
  <2>3. Bounds'
    BY <1>4, <2>1, LessBounds DEF Bounds, InLoad
  <2> QED
    BY <1>4, <2>2, <2>3 DEF BudgetInv, InLoad
<1> QED
  BY <1>3, <1>4, Zenon DEF TestLoaded

LEMMA EnqueueBudget ==
    ASSUME Lists, BornInv, TypeOK, BudgetInv, Enqueue
    PROVE  BudgetInv'
<1> DEFINE r == Erase(mTextureDataQ, tex)
<1>1. /\ main = "queueing" /\ main' = "idle" /\ mTextureDataQ' = <<tex>> \o r
      /\ pc' = Woken /\ UNCHANGED <<mTextures, loaded, textureData, tex>>
  BY DEF Enqueue
<1>2. r \in Seq(Textures) /\ Distinct(r) /\ Elements(r) = Elements(mTextureDataQ) \ {tex}
  BY EraseProperties DEF Lists
<1>3. tex \in Textures
  BY <1>1 DEF TypeOK, BornInv
<1> HIDE DEF r
<1>4. Elements(mTextureDataQ') = Elements(mTextureDataQ) \cup {tex}
  <2>1. Elements(<<tex>> \o r) = Elements(r) \cup {tex}
    BY <1>2, <1>3, PushProperties
  <2> QED
    BY <1>1, <1>2, <2>1
<1>5. pc' = "holding" <=> pc = "holding"
  BY <1>1 DEF Woken
<1>6. Pending' \subseteq Pending \cup {tex} /\ Kept' \subseteq Kept \cup {tex}
  BY <1>1, <1>4, <1>5 DEF Pending, Kept, Forced, Cached
<1>7. Cardinality(Pending) <= Budget /\ Cardinality(Kept) <= 2 * Budget
  BY <1>1 DEF BudgetInv, Roomy
<1>8. /\ Cardinality(Pending') \in Nat /\ Cardinality(Pending) \in Nat
      /\ Cardinality(Pending') <= Cardinality(Pending) + 1
  BY <1>6, KeptTyped, OneMore
<1>9. /\ Cardinality(Kept') \in Nat /\ Cardinality(Kept) \in Nat
      /\ Cardinality(Kept') <= Cardinality(Kept) + 1
  BY <1>6, KeptTyped, OneMore
<1>10. Cardinality(Pending') <= Budget + 1 /\ Cardinality(Kept') <= 2 * Budget + 1
  BY <1>7, <1>8, <1>9, BudgetNat
<1> QED
  BY <1>1, <1>10 DEF BudgetInv, Bounds, InLoad

LEMMA BudgetNext ==
    ASSUME Lists, Lists', BornInv, TypeOK, BudgetInv, [Next]_vars
    PROVE  BudgetInv'
<1>1. CASE TestExit \/ Wait \/ WakeSpuriously \/ Take \/ Load \/ Abort \/ UNCHANGED vars
  BY <1>1, LoaderBudget
<1>2. CASE \/ \E t \in Textures : Add(t) \/ Get(t) \/ Drop(t)
           \/ Release \/ ForceLoad \/ Own \/ Exit \/ NotifyExit \/ Join
  BY <1>2, CallBudget
<1>3. CASE Request \/ CountCommitted \/ CountQueue
  BY <1>3, RequestBudget, CountCommittedBudget, CountQueueBudget
<1>4. CASE ReleaseVictim \/ RemoveVictim
  BY <1>4, ReleaseVictimBudget, RemoveVictimBudget
<1>5. CASE LoadNow \/ TestLoaded \/ Enqueue
  BY <1>5, LoadNowBudget, TestLoadedBudget, EnqueueBudget
<1> QED
  BY <1>1, <1>2, <1>3, <1>4, <1>5, Zenon DEF Next, MainStep, LoaderStep

--------------------------------------------------------------------------------
(* The theorems                                                                *)

LEMMA InitInv == Init => Inv
<1> SUFFICES ASSUME Init PROVE Inv
  OBVIOUS
<1>1. /\ mTextures = <<>> /\ loaded = {} /\ mTextureDataQ = <<>> /\ mTextureDataLookup = {}
      /\ pc = "testing" /\ textureData = NoTexture /\ main = "idle" /\ tex = NoTexture
      /\ victim = 0 /\ committed = 0 /\ owned = 0 /\ born = {} /\ releases = 0
  BY DEF Init
<1>2. mExit \in BOOLEAN /\ block \in BOOLEAN /\ room \in BOOLEAN
  BY Zenon DEF Init
<1>3. Cardinality(Textures) \in Nat
  BY FS_CardinalityType
<1>4. TypeOK
  BY <1>1, <1>2, <1>3, BudgetNat DEF TypeOK
<1>5. Distinct(mTextures) /\ QueueIndexed /\ BornInv
  BY <1>1, NoElements DEF Distinct, QueueIndexed, BornInv, InLoad
<1>6. Pending = {} /\ Kept = {}
  BY <1>1, NoElements DEF Pending, Kept, Forced, Cached
<1>7. Cardinality({}) = 0
  BY FS_EmptySet
<1>8. BudgetInv
  BY <1>1, <1>6, <1>7, BudgetNat DEF BudgetInv, Bounds, InLoad
<1> QED
  BY <1>4, <1>5, <1>8 DEF Inv

LEMMA NextInv == Inv /\ [Next]_vars => Inv'
<1> SUFFICES ASSUME Inv, [Next]_vars PROVE Inv'
  OBVIOUS
<1>1. TypeOK /\ BornInv /\ BudgetInv /\ Distinct(mTextures) /\ QueueIndexed
  BY DEF Inv
<1>2. Lists
  BY <1>1 DEF Lists, TypeOK, QueueIndexed, Distinct
<1>3. Lists' /\ BornInv' /\ TypeOK'
  BY <1>1, <1>2, ListSteps, BornNext, TypeNext
<1>4. BudgetInv'
  BY <1>1, <1>2, <1>3, BudgetNext
<1>5. Distinct(mTextures)' /\ QueueIndexed'
  BY <1>3 DEF Lists, QueueIndexed, Distinct
<1> QED
  BY <1>3, <1>4, <1>5 DEF Inv

(* Inv is an invariant: what load still has to look at, what it has passed and  *)
(* what the loader may yet add bound the memory in use.                        *)
THEOREM InvHolds == Spec => []Inv
BY InitInv, NextInv, PTL DEF Spec

(* The places of both threads, and an iterator inside the cache, whatever the  *)
(* textures and the budget.                                                    *)
THEOREM TypeCorrect == Spec => []TypeOK
<1>1. Inv => TypeOK
  BY DEF Inv
<1> QED
  BY <1>1, InvHolds, PTL

(* The loader finds in the index exactly what its queue holds, each once: what  *)
(* find returns may be erased untested (TextureDataManager.cpp, load).         *)
THEOREM QueueIndexedHolds == Spec => []QueueIndexed
<1>1. Inv => QueueIndexed
  BY DEF Inv
<1> QED
  BY <1>1, InvHolds, PTL

(* However many textures the screens ask for, the cache never holds more than   *)
(* twice its budget and one, though the memory in use is counted in two parts   *)
(* that the loader works between: what the count can miss is what the loader    *)
(* had to decode, and that is never more than the budget and one texture.       *)
THEOREM BudgetKeptHolds == Spec => []BudgetKept
<1>1. Inv => BudgetKept
  <2> SUFFICES ASSUME Inv PROVE BudgetKept
    OBVIOUS
  <2>1. TypeOK /\ BornInv /\ Cardinality(Kept) <= 2 * Budget + 1
    BY DEF Inv, BudgetInv, Bounds
  <2>2. loaded \cap Elements(mTextures) \subseteq Kept
    BY <2>1 DEF Kept, Cached, BornInv
  <2>3. /\ Cardinality(loaded \cap Elements(mTextures)) \in Nat /\ Cardinality(Kept) \in Nat
        /\ Cardinality(loaded \cap Elements(mTextures)) <= Cardinality(Kept)
    BY <2>1, <2>2, KeptTyped, Smaller
  <2> QED
    BY <2>1, <2>3, BudgetNat DEF BudgetKept
<1> QED
  BY <1>1, InvHolds, PTL
================================================================================
