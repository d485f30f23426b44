------------------------------ MODULE VideoEngine ------------------------------
(* VideoEngine: a thread that executes the orders of the main thread, play and *)
(* stop, and decodes frames that the main thread displays.                     *)
(*                                                                             *)
(* Frames come one per packet, and both RGB frames are allocated and freed     *)
(* together, of memory that is never short. The sound is left out.             *)
EXTENDS Integers, Sequences

CONSTANTS
    Videos,      \* video files
    Broken,      \* those InitializeDecoder fails on
    NoVideo      \* the empty path

ASSUME VideoAssumption == Broken \subseteq Videos /\ NoVideo \notin Videos

VARIABLES
    mPendingMessages,  \* orders, oldest first: the path to play, NoVideo to stop
    mSignal,           \* wakes the engine
    mWaitForStop,      \* tells that a stop was executed
    mIsRunning,        \* Thread::mIsRunning
    mFileName,
    mIsPlaying,
    opened,            \* what mContext is open on
    FrameRGB,          \* "none", "empty" (allocated, no buffer yet) or "filled"
    FrameInUse,        \* the frame the decoder writes next
    FrammeRGBLocker,   \* who holds the lock of each frame
    engine,            \* where the thread of the engine is
    nextMessage,       \* the order it took
    main,              \* where the main thread is in a call to the engine
    call,              \* the arguments of that call, and where it returns to
    frame              \* the frame GetDisplayableFrame has chosen

queue   == <<mPendingMessages, mSignal>>
player  == <<mFileName, mIsPlaying>>
context == <<opened, FrameRGB, FrameInUse>>
thread  == <<mIsRunning, engine, nextMessage>>
caller  == <<main, call, frame>>

EngineInit ==
    /\ mPendingMessages = <<>> /\ mSignal = FALSE /\ mWaitForStop = FALSE
    /\ mIsRunning = TRUE /\ mFileName = NoVideo /\ mIsPlaying = FALSE
    /\ opened = NoVideo /\ FrameRGB = "none" /\ FrameInUse = 0
    /\ FrammeRGBLocker = [f \in 0 .. 1 |-> "nobody"]
    /\ engine = "ordering" /\ nextMessage = NoVideo
    /\ main = "loop" /\ frame = 0
    /\ call = [path |-> NoVideo, wait |-> FALSE, return |-> "loop"]

IsStop(order) == order = NoVideo

(* Mutant: the decoder never looks for orders. *)
CheckPendingMessagesNever == FALSE
CheckPendingMessages == mPendingMessages # <<>>

(* Mutant: the locks of the frames are not taken. *)
LocksFreeUntested == TRUE
LocksFree == \A f \in 0 .. 1 : FrammeRGBLocker[f] = "nobody"

(* The memory of each RGB frame: one buffer is allocated for the two.          *)
Buffer == [f \in 0 .. 1 |-> "FrameBuffer"]

--------------------------------------------------------------------------------
(* The engine *)

(* GetNextOrder: the oldest order, or a wait for the signal. *)
GetNextOrder ==
    /\ engine = "ordering"
    /\ IF ~mIsRunning
       THEN engine' = "ending" /\ UNCHANGED <<mPendingMessages, nextMessage>>
       ELSE IF mPendingMessages = <<>>
       THEN engine' = "waiting" /\ UNCHANGED <<mPendingMessages, nextMessage>>
       ELSE /\ nextMessage' = Head(mPendingMessages)
            /\ mPendingMessages' = Tail(mPendingMessages)
            /\ engine' = "executing"
    /\ UNCHANGED <<mSignal, mWaitForStop, mIsRunning, player, context, FrammeRGBLocker, caller>>

WaitSignal ==
    /\ engine = "waiting" /\ mSignal
    /\ mSignal' = FALSE
    /\ engine' = "ordering"
    /\ UNCHANGED <<mPendingMessages, mWaitForStop, mIsRunning, player, context,
                   FrammeRGBLocker, nextMessage, caller>>

(* An order to play closes the decoder when it is open on the same file. *)
Execute ==
    /\ engine = "executing"
    /\ mFileName' = nextMessage
    /\ IF IsStop(nextMessage)
       THEN mIsPlaying' = FALSE /\ engine' = "stopping"
       ELSE /\ engine' = IF nextMessage = mFileName THEN "closing" ELSE "opening"
            /\ UNCHANGED mIsPlaying
    /\ UNCHANGED <<queue, mWaitForStop, mIsRunning, context, FrammeRGBLocker, nextMessage, caller>>

(* FinalizeDecoder frees the frames under both locks. After a stop it fires    *)
(* mWaitForStop; after the loop the thread ends.                               *)
FinalizeDecoder ==
    /\ engine \in {"closing", "stopping", "ending"}
    /\ LocksFree
    /\ opened' = NoVideo /\ FrameRGB' = "none" /\ FrameInUse' = 0
    /\ mWaitForStop' = (mWaitForStop \/ engine = "stopping")
    /\ mIsRunning' = (mIsRunning /\ engine # "ending")
    /\ engine' = CASE engine = "closing"  -> "opening"
                   [] engine = "stopping" -> "ordering"
                   [] engine = "ending"   -> "ended"
    /\ UNCHANGED <<queue, player, FrammeRGBLocker, nextMessage, caller>>

(* InitializeDecoder. avformat_open_input frees the context it fails on; given *)
(* one that is open it may go on reading the old file, so that anything may     *)
(* come of it. A later error leaves the file open, and the frames as they were  *)
(* or allocated without a buffer. No lock is taken; mIsPlaying is kept.         *)
MayFail == mFileName \in Broken \/ opened # NoVideo

Open ==
    /\ engine = "opening"
    /\ \/ /\ MayFail
          /\ engine' = "ordering" /\ opened' = NoVideo /\ UNCHANGED FrameRGB
       \/ /\ opened' \in {opened, mFileName} \ {NoVideo}
          /\ \/ MayFail /\ engine' = "ordering" /\ FrameRGB' \in {FrameRGB, "empty"}
             \/ /\ mFileName \notin Broken \/ opened # NoVideo
                /\ engine' = "filling" /\ FrameRGB' = "empty"
    /\ UNCHANGED <<queue, mWaitForStop, mIsRunning, player, FrameInUse, FrammeRGBLocker,
                   nextMessage, caller>>

(* av_image_fill_arrays makes both frames point to the buffer.                 *)
Fill ==
    /\ engine = "filling"
    /\ FrameRGB' = "filled"
    /\ mIsPlaying' = TRUE
    /\ engine' = "decoding"
    /\ UNCHANGED <<queue, mWaitForStop, mIsRunning, mFileName, opened, FrameInUse,
                   FrammeRGBLocker, nextMessage, caller>>

(* DecodeFrames: until an order is pending or the codec fails. *)
Decode ==
    /\ engine = "decoding"
    /\ \/ /\ engine' = "ordering"    \* an order, or "Error sending video packet to codec"
          /\ UNCHANGED FrammeRGBLocker
       \/ /\ ~CheckPendingMessages
          /\ FrammeRGBLocker[FrameInUse] = "nobody"
          /\ FrammeRGBLocker' = [FrammeRGBLocker EXCEPT ![FrameInUse] = "engine"]
          /\ engine' = "converting"
    /\ UNCHANGED <<queue, mWaitForStop, mIsRunning, player, context, nextMessage, caller>>

(* The frame is converted; the decoder goes on to the other one.               *)
Convert ==
    /\ engine = "converting"
    /\ FrammeRGBLocker' = [FrammeRGBLocker EXCEPT ![FrameInUse] = "nobody"]
    /\ FrameInUse' = 1 - FrameInUse
    /\ engine' = "decoding"
    /\ UNCHANGED <<queue, mWaitForStop, mIsRunning, player, opened, FrameRGB, nextMessage, caller>>

EngineStep ==
    \/ GetNextOrder \/ WaitSignal \/ Execute \/ FinalizeDecoder
    \/ Open \/ Fill \/ Decode \/ Convert

--------------------------------------------------------------------------------
(* The main thread: PlayVideo (path # NoVideo) and StopVideo *)

(* The oldest order is dropped when it is of the same kind. *)
Ask(path, wait, return) ==
    /\ mPendingMessages' =
         IF mPendingMessages # <<>> /\ (IsStop(Head(mPendingMessages)) <=> IsStop(path))
         THEN Tail(mPendingMessages) ELSE mPendingMessages
    /\ main' = "posting"
    /\ call' = [path |-> path, wait |-> wait, return |-> return]
    /\ UNCHANGED <<mSignal, mWaitForStop, player, context, FrammeRGBLocker, thread, frame>>

Post ==
    /\ main = "posting"
    /\ mPendingMessages' = Append(mPendingMessages, call.path)
    /\ mSignal' = TRUE
    /\ main' = IF IsStop(call.path) THEN "stopping" ELSE call.return
    /\ UNCHANGED <<mWaitForStop, player, context, FrammeRGBLocker, thread, call, frame>>

(* if (mIsPlaying && waitforstop) wait; else the signal is reset at once. *)
Stopping ==
    /\ main = "stopping"
    /\ IF mIsPlaying /\ call.wait
       THEN main' = "awaiting" /\ UNCHANGED mWaitForStop
       ELSE main' = call.return /\ mWaitForStop' = FALSE
    /\ UNCHANGED <<queue, player, context, FrammeRGBLocker, thread, call, frame>>

(* The wait ends, by the signal or after two seconds, and resets the signal. *)
StopSeen ==
    /\ main = "awaiting" /\ mWaitForStop
    /\ mWaitForStop' = FALSE
    /\ main' = call.return
    /\ UNCHANGED <<queue, player, context, FrammeRGBLocker, thread, call, frame>>

StopTimeout ==
    /\ main = "awaiting"
    /\ mWaitForStop' = FALSE
    /\ main' = call.return
    /\ UNCHANGED <<queue, player, context, FrammeRGBLocker, thread, call, frame>>

(* GetDisplayableFrame: FrameInUse is read before the lock is taken.           *)
GetDisplayableFrame ==
    /\ main = "loop"
    /\ frame' = 1 - FrameInUse
    /\ main' = "locking"
    /\ UNCHANGED <<queue, mWaitForStop, player, context, FrammeRGBLocker, thread, call>>

LockFrame ==
    /\ main = "locking"
    /\ FrammeRGBLocker[frame] = "nobody"
    /\ IF FrameRGB # "none"
       THEN FrammeRGBLocker' = [FrammeRGBLocker EXCEPT ![frame] = "main"] /\ main' = "showing"
       ELSE main' = "loop" /\ UNCHANGED FrammeRGBLocker
    /\ UNCHANGED <<queue, mWaitForStop, player, context, thread, call, frame>>

UpdateTexture ==
    /\ main = "showing"
    /\ FrammeRGBLocker' = [FrammeRGBLocker EXCEPT ![frame] = "nobody"]
    /\ main' = "loop"
    /\ UNCHANGED <<queue, mWaitForStop, player, context, thread, call, frame>>

(* Mutant: the destructor only stops the thread. *)
DestroyAtOnce ==
    /\ main = "loop"
    /\ main' = "breaking"
    /\ UNCHANGED <<queue, mWaitForStop, player, context, FrammeRGBLocker, thread, call, frame>>

(* ~VideoEngine: StopVideo(true), then Thread::Stop. *)
Destroy ==
    /\ main = "loop"
    /\ Ask(NoVideo, TRUE, "breaking")

Break ==
    /\ main = "breaking"
    /\ mIsRunning' = FALSE
    /\ mSignal' = TRUE
    /\ main' = "joining"
    /\ UNCHANGED <<mPendingMessages, mWaitForStop, player, context, FrammeRGBLocker, engine,
                   nextMessage, call, frame>>

Join ==
    /\ main = "joining" /\ engine = "ended"
    /\ main' = "destroyed"
    /\ UNCHANGED <<queue, mWaitForStop, player, context, FrammeRGBLocker, thread, call, frame>>

CallStep ==
    \/ Post \/ Stopping \/ StopSeen \/ StopTimeout \/ LockFrame \/ UpdateTexture
    \/ Break \/ Join
================================================================================
