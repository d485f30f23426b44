-------------------------- MODULE VideoComponentProofs --------------------------
(* The frames of the video engine, for every set of videos and any number of   *)
(* calls: who may touch them, and that nobody touches one that is freed.       *)
EXTENDS VideoComponent, TLAPS

Holders == {"nobody", "engine", "main"}

(* A frame is locked by the thread that is using it, while it is using it.     *)
LocksOwned ==
    /\ FrammeRGBLocker \in [0 .. 1 -> Holders]
    /\ frame \in 0 .. 1 /\ FrameInUse \in 0 .. 1
    /\ \A f \in 0 .. 1 :
          /\ FrammeRGBLocker[f] = "main" <=> main = "showing" /\ frame = f
          /\ FrammeRGBLocker[f] = "engine" <=> engine = "converting" /\ FrameInUse = f

(* Decoding and converting go on between Fill and the next FinalizeDecoder.     *)
FramesFilled == engine \in {"decoding", "converting"} => FrameRGB = "filled"

(* A call to the engine does not return into the display of a frame.           *)
ReturnsElsewhere == call.return # "showing"

Inv == LocksOwned /\ FramesFilled /\ ReturnsElsewhere /\ ShownFrameIsAlive

--------------------------------------------------------------------------------
LEMMA InitInv == Init => Inv
  BY DEF Init, EngineInit, Inv, LocksOwned, FramesFilled, ReturnsElsewhere,
        ShownFrameIsAlive, Holders

(* Steps that touch neither the frames nor their locks *)
LEMMA FramesUntouched ==
    ASSUME Inv, UNCHANGED <<context, FrammeRGBLocker>>,
           main' = "showing" <=> main = "showing", frame' = frame \/ main # "showing",
           frame' \in 0 .. 1,
           engine' = "converting" <=> engine = "converting",
           engine' = "decoding" => engine = "decoding",
           call'.return # "showing"
    PROVE  Inv'
  BY DEF Inv, LocksOwned, FramesFilled, ReturnsElsewhere, ShownFrameIsAlive, context

LEMMA EngineInv == Inv /\ EngineStep => Inv'
<1> SUFFICES ASSUME Inv, EngineStep PROVE Inv'
  OBVIOUS
<1> USE DEF caller
<1>1. CASE GetNextOrder \/ WaitSignal \/ Execute
  <2>1. /\ UNCHANGED <<context, FrammeRGBLocker, main, frame>>
        /\ engine \notin {"decoding", "converting"} /\ engine' \notin {"decoding", "converting"}
        /\ call' = call
    BY <1>1 DEF GetNextOrder, WaitSignal, Execute, context
  <2>2. frame \in 0 .. 1 /\ call.return # "showing"
    BY DEF Inv, LocksOwned, ReturnsElsewhere
  <2> QED
    BY <2>1, <2>2, FramesUntouched
<1>2. CASE FinalizeDecoder
  <2>1. main # "showing" /\ engine # "converting" /\ engine' \notin {"decoding", "converting"}
    BY <1>2 DEF FinalizeDecoder, LocksFree, Inv, LocksOwned
  <2> QED
    BY <1>2, <2>1 DEF FinalizeDecoder, LocksFree, Inv, LocksOwned, FramesFilled, ReturnsElsewhere,
        ShownFrameIsAlive
<1>3. CASE Open \/ Fill
  BY <1>3 DEF Open, Fill, Inv, LocksOwned, FramesFilled, ReturnsElsewhere,
        ShownFrameIsAlive
<1>4. CASE Decode
  BY <1>4 DEF Decode, context, Inv, LocksOwned, FramesFilled, ReturnsElsewhere,
        ShownFrameIsAlive, Holders
<1>5. CASE Convert
  BY <1>5 DEF Convert, Inv, LocksOwned, FramesFilled, ReturnsElsewhere,
        ShownFrameIsAlive, Holders
<1> QED
  BY <1>1, <1>2, <1>3, <1>4, <1>5 DEF EngineStep

LEMMA CallInv == Inv /\ CallStep => Inv'
<1> SUFFICES ASSUME Inv, CallStep PROVE Inv'
  OBVIOUS
<1>1. CASE Post \/ Stopping \/ StopSeen \/ StopTimeout \/ Break \/ Join
  <2>1. UNCHANGED <<context, FrammeRGBLocker, engine, frame, call>>
    BY <1>1 DEF Post, Stopping, StopSeen, StopTimeout, Break, Join, thread
  <2>2. main # "showing" /\ main' # "showing"
    BY <1>1 DEF Post, Stopping, StopSeen, StopTimeout, Break, Join, Inv, ReturnsElsewhere
  <2>3. Inv => LocksOwned /\ ReturnsElsewhere
    BY DEF Inv
  <2> QED
    BY <2>1, <2>2, <2>3, FramesUntouched DEF LocksOwned, ReturnsElsewhere
<1>2. CASE LockFrame
  BY <1>2 DEF LockFrame, context, thread, Inv, LocksOwned, FramesFilled, ReturnsElsewhere,
              ShownFrameIsAlive, Holders
<1>3. CASE UpdateTexture
  BY <1>3 DEF UpdateTexture, context, thread, Inv, LocksOwned, FramesFilled, ReturnsElsewhere,
              ShownFrameIsAlive, Holders
<1> QED
  BY <1>1, <1>2, <1>3 DEF CallStep

LEMMA AskInv ==
    ASSUME Inv, NEW path, NEW wait, NEW return \in {"loop", "resetting", "breaking"},
           main # "showing", Ask(path, wait, return)
    PROVE  Inv'
<1>1. /\ UNCHANGED <<context, FrammeRGBLocker, engine, frame>>
      /\ main' # "showing"
      /\ call'.return # "showing"
  BY DEF Ask, thread
<1> QED
  BY <1>1, FramesUntouched DEF Inv, LocksOwned, ReturnsElsewhere

LEMMA NextInv == Inv /\ [Next]_vars => Inv'
<1> SUFFICES ASSUME Inv, [Next]_vars PROVE Inv'
  OBVIOUS
<1>1. CASE EngineStep \/ CallStep
  BY <1>1, EngineInv, CallInv
<1>2. CASE \E v \in Videos \cup {NoVideo} : setVideo(v)
  BY <1>2, AskInv DEF setVideo, Called
<1>3. CASE \E w \in BOOLEAN : StopVideo(w)
  BY <1>3, AskInv DEF StopVideo, Called
<1>4. CASE ResetAnimations
  <2>1. main # "showing"
    BY <1>4 DEF ResetAnimations, Called
  <2>2. CASE Ask(NoVideo, FALSE, "loop")
    BY <2>1, <2>2, AskInv
  <2>3. CASE main' = "loop" /\ UNCHANGED <<context, FrammeRGBLocker, engine, call, frame>>
    BY <2>1, <2>3, FramesUntouched DEF Inv, LocksOwned, ReturnsElsewhere
  <2> QED
    BY <1>4, <2>2, <2>3 DEF ResetAnimations, thread
<1>5. CASE Uninitialized \/ UNCHANGED vars
  BY <1>5, FramesUntouched
     DEF Uninitialized, vars, thread, caller, Inv, LocksOwned, ReturnsElsewhere
<1>6. CASE InitializeVideo \/ LoopsElapsed \/ Exit
  BY <1>6, AskInv DEF InitializeVideo, LoopsElapsed, Called, Exit, Destroy
<1>7. CASE resize \/ WaitForVideoToStart \/ DisplayVideo
  BY <1>7 DEF resize, Called, WaitForVideoToStart, DisplayVideo, GetDisplayableFrame, context, thread, Inv, LocksOwned, FramesFilled,
              ReturnsElsewhere, ShownFrameIsAlive
<1> QED
  BY <1>1, <1>2, <1>3, <1>4, <1>5, <1>6, <1>7 DEF Next

--------------------------------------------------------------------------------
(* The frame that is being displayed is not freed: GetDisplayableFrame picks it *)
(* before it takes its lock, and FinalizeDecoder frees both under both locks.   *)
THEOREM ShownFrameIsAliveHolds == Spec => []ShownFrameIsAlive
<1> QED
  BY InitInv, NextInv, PTL DEF Spec, Inv

(* The decoder never converts into a frame that has no buffer.                 *)
THEOREM FramesFilledHolds == Spec => []FramesFilled
<1> QED
  BY InitInv, NextInv, PTL DEF Spec, Inv
================================================================================
