--------------------------- MODULE TextureDataManager ---------------------------
(* TextureDataManager, a least-recently-used cache of textures, and the        *)
(* TextureLoader thread that decodes what the renderer asks for.               *)
(*                                                                             *)
(* Every texture occupies one unit of memory, and Budget units stand for the   *)
(* 80 megabytes of the code.  The memory in use is read in two parts, between  *)
(* which the loader may take and decode textures.  The condition variable of   *)
(* the loader is waited on without a predicate, so a notification that nobody  *)
(* sleeps for is lost.                                                         *)
EXTENDS Integers, Sequences, FiniteSets, SequencesExt

CONSTANTS
    Textures,      \* TextureResource objects, each constructed at most once
    Broken,        \* those whose file cannot be decoded; their width stays 0
    Budget,        \* max_texture
    NoTexture,     \* nullptr
    MaxOwned,      \* bound: units of the textures that own their data
    MaxReleases    \* bound: textures released by unload and rasterizeAt

ASSUME TextureAssumption ==
    IsFiniteSet(Textures) /\ Broken \subseteq Textures /\ NoTexture \notin Textures
ASSUME BudgetAssumption == Budget \in Nat \ {0} /\ MaxOwned \in Nat /\ MaxReleases \in Nat

VARIABLES
    mTextures,            \* the cache, most recently asked for first
    loaded,               \* textures with data in RAM or VRAM
    mTextureDataQ,        \* the queue of the loader, next one first
    mTextureDataLookup,   \* the keys of the index of that queue
    mExit,                \* asks the loader thread to end
    pc,                   \* where the loader thread is
    textureData,          \* the texture it took from the queue
    main,                 \* where the main thread is in a call
    tex,                  \* the texture that call is about
    block,                \* is it the blocking load of the constructor?
    owned,                \* memory of the textures that are not in the cache
    committed,            \* the first part of the memory in use, when last read
    room,                 \* size < max_texture, when last computed
    victim,               \* the place of the iterator in mTextures, 0 for rend
    born,                 \* history: the textures ever constructed
    releases              \* history: how many were released

queue  == <<mTextureDataQ, mTextureDataLookup>>
loader == <<pc, textureData>>
count  == <<committed, room, victim>>
call   == <<main, tex, block, count>>
vars   == <<mTextures, loaded, queue, mExit, loader, call, owned, born, releases>>

Elements(q) == {q[i] : i \in 1 .. Len(q)}

(* list::erase, at the place that the index of the list has for the texture.    *)
Erase(q, t) ==
    IF t \in Elements(q) THEN RemoveAt(q, CHOOSE i \in 1 .. Len(q) : q[i] = t) ELSE q

Init ==
    /\ mTextures = <<>> /\ loaded = {} /\ mTextureDataQ = <<>> /\ mTextureDataLookup = {}
    /\ mExit = FALSE /\ pc = "testing" /\ textureData = NoTexture
    /\ main = "idle" /\ tex = NoTexture /\ block = FALSE
    /\ committed = 0 /\ room = TRUE /\ victim = 0 /\ owned = 0
    /\ born = {} /\ releases = 0

--------------------------------------------------------------------------------
(* The main thread *)

(* The data of a texture lives as long as something points to it. *)
Alive(cache, q, held) == Elements(cache) \cup Elements(q) \cup {held}

(* A new TextureResource: add, then the blocking load. *)
Add(t) ==
    /\ main = "idle"
    /\ t \notin born
    /\ mTextures' = <<t>> \o mTextures
    /\ born' = born \cup {t}
    /\ tex' = t /\ block' = TRUE /\ main' = "requesting"
    /\ UNCHANGED <<loaded, queue, mExit, loader, count, owned, releases>>

(* get, called by every bind: the texture moves to the front. *)
Get(t) ==
    /\ main = "idle"
    /\ t \in Elements(mTextures)
    /\ mTextures' = <<t>> \o Erase(mTextures, t)
    /\ tex' = t /\ block' = FALSE /\ main' = "requesting"
    /\ UNCHANGED <<loaded, queue, mExit, loader, count, owned, born, releases>>

(* load: nothing to do for a loaded texture; else the iterator of its loop     *)
(* begins at the back of the cache.                                            *)
Request ==
    /\ main = "requesting"
    /\ IF tex \in loaded
       THEN main' = "idle" /\ UNCHANGED victim
       ELSE main' = "counting" /\ victim' = Len(mTextures)
    /\ UNCHANGED <<mTextures, loaded, queue, mExit, loader, tex, block, committed, room, owned, born,
                   releases>>

(* getTotalMemUsage: first what is in memory.  No lock is held, but while the   *)
(* main thread looks at one texture after the other the loader only adds, so   *)
(* that the sum is what was in memory at some moment of it...                  *)
CountCommitted ==
    /\ main = "counting"
    /\ committed' = owned + Cardinality(loaded \cap Elements(mTextures))
    /\ main' = "counting queue"
    /\ UNCHANGED <<mTextures, loaded, queue, mExit, loader, tex, block, room, victim, owned, born,
                   releases>>

(* TextureLoader::getQueueSize; a texture that cannot be decoded has no size.   *)
QueueSize(q) == Cardinality(Elements(q) \ Broken)

(* ... then, under the mutex of the loader, what is queued.                     *)
CountQueue ==
    /\ main = "counting queue"
    /\ room' = (committed + QueueSize(mTextureDataQ) < Budget)
    /\ main' = "making room"
    /\ UNCHANGED <<mTextures, loaded, queue, mExit, loader, tex, block, committed, victim, owned, born,
                   releases>>

(* One turn of the loop: release the texture, as the iterator finds it (the     *)
(* data in RAM goes last and decides)...                                       *)
ReleaseVictim ==
    /\ main = "making room"
    /\ ~room /\ victim > 0
    /\ loaded' = loaded \ {mTextures[victim]}
    /\ main' = "removing"
    /\ UNCHANGED <<mTextures, queue, mExit, loader, tex, block, count, owned, born, releases>>

(* ... take it out of the loader's queue, and count again.                      *)
RemoveVictim ==
    /\ main = "removing"
    /\ mTextureDataQ' = Erase(mTextureDataQ, mTextures[victim])
    /\ mTextureDataLookup' = mTextureDataLookup \ {mTextures[victim]}
    /\ victim' = victim - 1
    /\ main' = "counting"
    /\ UNCHANGED <<mTextures, loaded, mExit, loader, tex, block, committed, room, owned, born, releases>>

(* Mutant: no texture is evicted, room or not. *)
RoomMadeAlways == main = "making room"
RoomMade == main = "making room" /\ (room \/ victim = 0)

(* The blocking load; TextureResource::get then asks for the texture again. *)
LoadNow ==
    /\ RoomMade /\ block
    /\ loaded' = loaded \cup ({tex} \ Broken)
    /\ block' = FALSE /\ main' = "requesting"
    /\ UNCHANGED <<mTextures, queue, mExit, loader, tex, count, owned, born, releases>>

(* TextureLoader::load, up to its test of isLoaded. *)
TestLoaded ==
    /\ RoomMade /\ ~block
    /\ main' = IF tex \in loaded THEN "idle" ELSE "queueing"
    /\ UNCHANGED <<mTextures, loaded, queue, mExit, loader, tex, block, count, owned, born,
                   releases>>

(* Mutant: notify_one is missing. *)
WokenNever == pc

(* notify_one, or a spurious wakeup. *)
Woken == IF pc = "asleep" THEN "woken" ELSE pc

(* Mutant: a texture that is queued already is not taken out first. *)
EnqueueTwice ==
    /\ main = "queueing"
    /\ mTextureDataQ' = <<tex>> \o mTextureDataQ
    /\ mTextureDataLookup' = mTextureDataLookup \cup {tex}
    /\ pc' = Woken
    /\ main' = "idle"
    /\ UNCHANGED <<mTextures, loaded, mExit, textureData, tex, block, count, owned, born, releases>>

(* The rest of it, under the mutex: the texture goes to the start of the queue. *)
Enqueue ==
    /\ main = "queueing"
    /\ mTextureDataQ' = <<tex>> \o Erase(mTextureDataQ, tex)
    /\ mTextureDataLookup' = mTextureDataLookup \cup {tex}
    /\ pc' = Woken
    /\ main' = "idle"
    /\ UNCHANGED <<mTextures, loaded, mExit, textureData, tex, block, count, owned, born, releases>>

(* unload and rasterizeAt release the texture they have just got. *)
Release ==
    /\ main = "idle"
    /\ tex \in Elements(mTextures) /\ tex \in loaded
    /\ releases < MaxReleases
    /\ loaded' = loaded \ {tex}
    /\ releases' = releases + 1
    /\ UNCHANGED <<mTextures, queue, mExit, loader, call, owned, born>>

(* ... and rasterizeAt, and get for a texture whose load is forced, decode it   *)
(* at once, whatever the memory in use; the loader may be about to as well.    *)
ForceLoad ==
    /\ main = "idle"
    /\ tex \in Elements(mTextures) \ loaded
    /\ loaded' = loaded \cup ({tex} \ Broken)
    /\ UNCHANGED <<mTextures, queue, mExit, loader, call, owned, born, releases>>

(* The textures that own their data are made, filled and destroyed. *)
Own ==
    /\ main = "idle"
    /\ owned' \in 0 .. MaxOwned
    /\ UNCHANGED <<mTextures, loaded, queue, mExit, loader, call, born, releases>>

(* ~TextureResource: the loader may still point to the data. *)
Drop(t) ==
    /\ main = "idle"
    /\ t \in Elements(mTextures)
    /\ mTextures' = Erase(mTextures, t)
    /\ loaded' = loaded \cap Alive(mTextures', mTextureDataQ, textureData)
    /\ UNCHANGED <<queue, mExit, loader, call, owned, born, releases>>

(* ~TextureLoader: mExit, without the mutex... *)
Exit ==
    /\ main = "idle"
    /\ mExit' = TRUE
    /\ main' = "exiting"
    /\ UNCHANGED <<mTextures, loaded, queue, loader, tex, block, count, owned, born, releases>>

(* ... then notify_one... *)
NotifyExit ==
    /\ main = "exiting"
    /\ pc' = Woken
    /\ main' = "joining"
    /\ UNCHANGED <<mTextures, loaded, queue, mExit, textureData, tex, block, count, owned, born,
                   releases>>

(* ... then join, and the queue is emptied. *)
Join ==
    /\ main = "joining" /\ pc = "ended"
    /\ mTextureDataQ' = <<>> /\ mTextureDataLookup' = {}
    /\ loaded' = loaded \cap Alive(mTextures, mTextureDataQ', textureData)
    /\ main' = "destroyed"
    /\ UNCHANGED <<mTextures, mExit, loader, tex, block, count, owned, born, releases>>

--------------------------------------------------------------------------------
(* threadProc *)

(* while (!mExit) *)
TestExit ==
    /\ pc = "testing"
    /\ pc' = IF mExit THEN "ended" ELSE "locking"
    /\ UNCHANGED <<mTextures, loaded, queue, mExit, textureData, call, owned, born, releases>>

(* Take the mutex and wait, which gives it up in the same step. *)
Wait ==
    /\ pc = "locking"
    /\ pc' = "asleep"
    /\ UNCHANGED <<mTextures, loaded, queue, mExit, textureData, call, owned, born, releases>>

WakeSpuriously ==
    /\ pc = "asleep"
    /\ pc' = Woken
    /\ UNCHANGED <<mTextures, loaded, queue, mExit, textureData, call, owned, born, releases>>

(* Under the mutex: let go of the texture just loaded and take the first one   *)
(* of the queue, if there is one.                                              *)
Take ==
    /\ pc \in {"woken", "loaded"}
    /\ \/ /\ mTextureDataQ # <<>>
          /\ textureData' = Head(mTextureDataQ)
          /\ mTextureDataQ' = Tail(mTextureDataQ)
          /\ mTextureDataLookup' = mTextureDataLookup \ {Head(mTextureDataQ)}
          /\ pc' = "holding"
       \/ /\ mTextureDataQ = <<>>
          /\ textureData' = NoTexture
          /\ pc' = "testing"
          /\ UNCHANGED queue
    /\ loaded' = loaded \cap Alive(mTextures, mTextureDataQ', textureData')
    /\ UNCHANGED <<mTextures, mExit, call, owned, born, releases>>

(* while (textureData && !mExit): decode it. *)
Load ==
    /\ pc = "holding" /\ ~mExit
    /\ loaded' = loaded \cup ({textureData} \ Broken)
    /\ pc' = "loaded"
    /\ UNCHANGED <<mTextures, queue, mExit, textureData, call, owned, born, releases>>

Abort ==
    /\ pc = "holding" /\ mExit
    /\ textureData' = NoTexture
    /\ loaded' = loaded \cap Alive(mTextures, mTextureDataQ, textureData')
    /\ pc' = "testing"
    /\ UNCHANGED <<mTextures, queue, mExit, call, owned, born, releases>>

LoaderStep == TestExit \/ Wait \/ Take \/ Load \/ Abort
MainStep ==
    \/ Request \/ CountCommitted \/ CountQueue \/ ReleaseVictim \/ RemoveVictim
    \/ LoadNow \/ TestLoaded \/ Enqueue \/ NotifyExit \/ Join

Next ==
    \/ MainStep \/ LoaderStep
    \/ \E t \in Textures : Add(t) \/ Get(t) \/ Drop(t)
    \/ Release \/ ForceLoad \/ Own \/ Exit \/ WakeSpuriously

Spec == Init /\ [][Next]_vars

(* Both threads are scheduled whenever they can run. *)
FairSpec == Spec /\ WF_vars(MainStep) /\ WF_vars(LoaderStep)

(* Moreover, everything in the cache is on the screen: each frame binds it. *)
FrameSpec == FairSpec /\ \A t \in Textures : SF_vars(Get(t))

--------------------------------------------------------------------------------
(* The places of both threads; the loader never holds a texture it did not take, *)
(* and the iterator of load stays inside the cache.                             *)
TypeOK ==
    /\ mTextures \in Seq(Textures) /\ mTextureDataQ \in Seq(Textures)
    /\ loaded \subseteq Textures /\ mTextureDataLookup \subseteq Textures
    /\ mExit \in BOOLEAN /\ block \in BOOLEAN /\ room \in BOOLEAN
    /\ pc \in {"testing", "locking", "asleep", "woken", "holding", "loaded", "ended"}
    /\ main \in {"idle", "requesting", "counting", "counting queue", "making room", "removing",
                 "queueing", "exiting", "joining", "destroyed"}
    /\ textureData \in Textures \cup {NoTexture} /\ tex \in Textures \cup {NoTexture}
    /\ victim \in 0 .. Cardinality(Textures) /\ committed \in Nat /\ owned \in 0 .. MaxOwned
    /\ born \subseteq Textures /\ releases \in 0 .. MaxReleases

(* The queue holds a texture once, and the index has exactly the textures of   *)
(* the queue: the loader erases what find returns without testing it.          *)
QueueIndexed ==
    /\ \A i, j \in 1 .. Len(mTextureDataQ) : mTextureDataQ[i] = mTextureDataQ[j] => i = j
    /\ mTextureDataLookup = Elements(mTextureDataQ)

(* The cache never holds more than twice its budget and one texture: what the   *)
(* loader takes from its queue after the textures in memory were counted, and   *)
(* before the queue is, is in neither part, and the queue itself is held within *)
(* the budget.  The texture that is asked for comes on top.                    *)
BudgetKept == Cardinality(loaded \cap Elements(mTextures)) <= 2 * Budget + 1

(* A texture on the screen is loaded in the end, though notifications get      *)
(* lost, when everything fits in the budget twice: a texture that is bound     *)
(* while the loader decodes it is queued again, and then counted twice.        *)
ScreenIsLoaded ==
    \A t \in Textures \ Broken :
        t \in Elements(mTextures) ~>
            t \in loaded \/ t \notin Elements(mTextures) \/ mExit

(* "Wait for an event to say there is something in the queue": what is queued  *)
(* is taken by the loader. Refuted: a notification given between the loader's  *)
(* look at an empty queue and its wait is lost.                                *)
QueueIsServed ==
    \A t \in Textures : t \in Elements(mTextureDataQ) ~> t \notin Elements(mTextureDataQ) \/ mExit

(* "Exit the thread": the destructor of the loader returns. Refuted: the flag   *)
(* and the notification are given outside the mutex, and may fall between the  *)
(* loader's test of the flag and its wait.                                     *)
DestructorReturns == main = "joining" ~> main = "destroyed"
================================================================================
