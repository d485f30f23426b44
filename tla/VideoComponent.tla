----------------------------- MODULE VideoComponent -----------------------------
(* VideoComponent, the widget that plays a video through the engine, with the  *)
(* engine under it. One widget is on the screen at a time. Its three states    *)
(* that draw the video (StartVideo, DisplayVideo, StopVideo) are one here, and *)
(* its timers may elapse at any moment. The size of the widget is left out.    *)
EXTENDS VideoEngine

CONSTANT MaxCalls    \* bound: calls of setVideo, ResetAnimations, StopVideo, setMaxSize

ASSUME CallAssumption == MaxCalls \in Nat

VARIABLES
    mState,       \* VideoComponent::State
    mVideoPath,
    calls         \* how many calls were made

component == <<mState, mVideoPath>>
vars == <<queue, mWaitForStop, player, context, FrammeRGBLocker, thread, caller, component, calls>>

Init ==
    /\ EngineInit
    /\ mState = "Uninitialized" /\ mVideoPath = NoVideo /\ calls = 0

Called == main = "loop" /\ calls < MaxCalls /\ calls' = calls + 1

(* setVideo: StopVideo(true), then ResetAnimations. *)
setVideo(path) ==
    /\ Called
    /\ Ask(NoVideo, TRUE, "resetting")
    /\ mVideoPath' = path
    /\ UNCHANGED mState

(* ResetAnimations stops the video, without waiting, when it is playing. *)
ResetAnimations ==
    /\ \/ main = "resetting" /\ UNCHANGED calls
       \/ Called
    /\ mState' = "Uninitialized"
    /\ IF mIsPlaying
       THEN Ask(NoVideo, FALSE, "loop")
       ELSE main' = "loop" /\ UNCHANGED <<queue, mWaitForStop, player, context, FrammeRGBLocker,
                                          thread, call, frame>>
    /\ UNCHANGED mVideoPath

(* Views and the game runner stop the engine without telling the widget. *)
StopVideo(wait) ==
    /\ Called
    /\ Ask(NoVideo, wait, "loop")
    /\ UNCHANGED component

(* resize, of setResize and setMaxSize, takes a frame to know its size. *)
resize ==
    /\ Called
    /\ GetDisplayableFrame
    /\ UNCHANGED component

(* Render and ProcessDisplay, by the state of the widget. *)
Uninitialized ==
    /\ main = "loop" /\ mState = "Uninitialized" /\ mVideoPath # NoVideo
    /\ mState' = "InitializeVideo"
    /\ UNCHANGED <<queue, mWaitForStop, player, context, FrammeRGBLocker, thread, caller,
                   mVideoPath, calls>>

InitializeVideo ==
    /\ main = "loop" /\ mState = "InitializeVideo"
    /\ Ask(mVideoPath, FALSE, "loop")
    /\ mState' = "WaitForVideoToStart"
    /\ UNCHANGED <<mVideoPath, calls>>

(* The video has started: resize. *)
WaitForVideoToStart ==
    /\ mState = "WaitForVideoToStart" /\ mIsPlaying
    /\ mState' = "DisplayVideo"
    /\ GetDisplayableFrame
    /\ UNCHANGED <<mVideoPath, calls>>

DisplayVideo ==
    /\ mState = "DisplayVideo"
    /\ GetDisplayableFrame
    /\ UNCHANGED <<component, calls>>

LoopsElapsed ==
    /\ Called /\ mState = "DisplayVideo"
    /\ Ask(NoVideo, FALSE, "loop")
    /\ mState' = "Uninitialized"
    /\ UNCHANGED mVideoPath

Exit == Destroy /\ UNCHANGED <<component, calls>>

Widget ==
    \/ main = "resetting" /\ ResetAnimations
    \/ Uninitialized \/ InitializeVideo \/ WaitForVideoToStart

Next ==
    \/ EngineStep /\ UNCHANGED <<component, calls>>
    \/ CallStep /\ UNCHANGED <<component, calls>>
    \/ \E v \in Videos \cup {NoVideo} : setVideo(v)
    \/ \E w \in BOOLEAN : StopVideo(w)
    \/ ResetAnimations \/ Uninitialized \/ InitializeVideo \/ WaitForVideoToStart
    \/ resize \/ DisplayVideo \/ LoopsElapsed \/ Exit

Spec == Init /\ [][Next]_vars

(* The engine's thread runs, a call that was begun goes on, and the main loop  *)
(* renders the widget; the user may stop calling. A lock that the main thread   *)
(* holds for a moment in every frame is given to the engine in the end.        *)
FairSpec ==
    /\ Spec
    /\ WF_vars(EngineStep /\ UNCHANGED <<component, calls>>)
    /\ SF_vars(FinalizeDecoder /\ UNCHANGED <<component, calls>>)
    /\ WF_vars(CallStep /\ UNCHANGED <<component, calls>>)
    /\ WF_vars(Widget)

--------------------------------------------------------------------------------
(* The frame that is being displayed is not freed: Dispose waits for the lock. *)
(* It may be without a buffer yet, when the decoder is opened over an open one. *)
ShownFrameIsAlive == main = "showing" => FrameRGB # "none"

(* The last order wins: when the main thread orders nothing any more, the      *)
(* engine ends up as it was told, on the file of a last play that can be       *)
(* opened, or closed after a last stop.                                        *)
Obeyed ==
    IF IsStop(call.path) THEN opened = NoVideo /\ ~mIsPlaying
    ELSE call.path \in Broken \/ (opened = call.path /\ mIsPlaying)
LastOrderWins == <>[](main # "posting") => <>[](Obeyed \/ main = "destroyed")

(* ~VideoEngine returns, with the decoder closed, though DecodeFrames does not *)
(* test whether the thread must end.                                           *)
DestructorReturns == main = "breaking" ~> main = "destroyed" /\ opened = NoVideo

(* "Buffer in use by the decoder (0/1)", with an "RGB frame access locker" for *)
(* each: the decoder does not write the buffer that is being displayed. The     *)
(* two frames have the same one.                                               *)
ShownBufferNotDecoded ==
    ~(main = "showing" /\ engine = "converting" /\ Buffer[frame] = Buffer[FrameInUse])

(* "Force a signal reset so that a non waiting stop does not unlock the next   *)
(* waiting stop." Refuted: the engine may execute the first stop after its     *)
(* caller has reset the signal.                                                *)
WaitingStopStops == [][main = "awaiting" /\ mWaitForStop /\ main' # main => ~mIsPlaying]_vars

(* "If a video is already playing, a call to stop is performed playing the new *)
(* video": the decoder is never opened over an open one. Refuted, see README.  *)
OpensClosedDecoder == engine = "opening" => opened = NoVideo
================================================================================
