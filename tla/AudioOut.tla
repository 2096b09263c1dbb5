------------------------------ MODULE AudioOut ------------------------------
(***************************************************************************)
(* Renders/AudioOut.cc: a renderer thread (AVOutBase::Svc) copies the      *)
(* samples of its frames into two buffers, hands every full buffer to the  *)
(* OpenSL ES device and waits until the device has played it; the device's *)
(* callback wakes it.  With each frame it advances m_render_time, which    *)
(* AVSync uses as its clock and may reset from the video renderer.  The    *)
(* samples that were copied since the device was opened are numbered from  *)
(* 1, so that what is heard can be compared with what was handed over.     *)
(***************************************************************************)
EXTENDS Integers, Sequences

CONSTANTS
  U32,          \* number of values of a timestamp
  BlockMs,      \* SAMPLE_BLOCK_SIZE_MS (20)
  AudioFrame,   \* frames: [rate, channels, bits, ticks: samples per channel]
  NoFrame,      \* on_frame has not been called yet
  Jumps,        \* ticks (modulo U32) missing before a frame, as packets are lost
  MaxFrames,    \* bound: frames taken from AVSync
  MaxResets     \* bound: times that AVSync stops the clock

BlockSamples(f) == ((BlockMs * f.rate) \div 1000) * f.channels
DurationMs(f) == (f.ticks * 1000) \div f.rate

ASSUME AudioFrameAssumption ==
  /\ \A f \in AudioFrame :
       /\ f.rate \in Nat \ {0} /\ f.channels \in Nat \ {0} /\ f.bits \in Nat
       /\ f.ticks \in Nat \ {0} /\ BlockSamples(f) \in Nat \ {0}
  /\ NoFrame \notin AudioFrame
  /\ U32 \in Nat \ {0} /\ Jumps \subseteq Nat
  /\ MaxFrames \in Nat /\ MaxResets \in Nat

Closed == [rate |-> 0, channels |-> 0]
Buffer == {0, 1}

VARIABLES
  audioPc,      \* where the renderer thread is
  audioExit,    \* m_exit
  frame, pts,   \* the frame in on_frame and its timestamp
  copied,       \* samples of it that are in the buffers
  format,       \* m_sample_rate and m_channels
  block,        \* m_outBufSamples
  buffer,       \* m_outputBuffer: the samples in it, 0 for none
  current,      \* m_currentOutputBuffer
  index,        \* m_currentOutputIndex, and its copy in on_frame
  playing,      \* the buffers in the queue of the device
  signalled,    \* m_cond: a signal that no wait has taken
  renderTime,   \* m_render_time, before it wraps
  lastPts, lastDuration,
  gap,          \* on_frame's local
  nextPts,      \* timestamp of the next frame if none is missing
  played,       \* history: samples heard since the device was opened
  accepted,     \* history: samples copied since then
  exact,        \* history: stream time that the clock has counted, in ms * rate
  steps,        \* history: frames that it has counted
  steady,       \* history: none of them was out of order
  taken, resets \* frames taken, and times the clock was stopped

threadVars == <<audioPc, audioExit, signalled>>
deviceVars == <<format, block, buffer, current, playing, played>>
copyVars   == <<frame, pts, copied, index, accepted>>
clockVars  == <<renderTime, lastPts, lastDuration, gap, exact, steps, steady, resets>>
inputVars  == <<nextPts, taken>>
audioVars  == <<threadVars, deviceVars, copyVars, clockVars, inputVars>>

AudioInit ==
  /\ audioPc = "svc" /\ audioExit = FALSE
  /\ frame = NoFrame /\ pts = 0 /\ copied = 0 /\ index = 0
  /\ format = Closed /\ block = 0
  /\ buffer = [b \in Buffer |-> <<>>] /\ current = 0
  /\ playing = <<>> /\ signalled = FALSE
  /\ renderTime = 0 /\ lastPts = 0 /\ lastDuration = 0 /\ gap = 0
  /\ nextPts \in {0, U32 - 1}
  /\ played = <<>> /\ accepted = 0
  /\ exact = 0 /\ steps = 0 /\ steady = TRUE
  /\ taken = 0 /\ resets = 0

AudioGoto(pc) == audioPc' = pc
Format(f) == [rate |-> f.rate, channels |-> f.channels]

-----------------------------------------------------------------------------
(* CProThreadMutexCondition: a signal is kept for the next wait, and a     *)
(* wait takes it.                                                          *)

(* Mutant: a signal that nobody waits for is lost. *)
SignalLost == signalled' = (audioPc = "wait")

Signal == signalled' = TRUE

(* Mutant: the wait does not wait. *)
WaitedNot == signalled' = FALSE

Waited == signalled /\ signalled' = FALSE

-----------------------------------------------------------------------------
(* Frames lost on the way here leave a hole before the one that is taken;  *)
(* a jump close to U32 is a frame out of order.                            *)
Takes(f, jump) ==
  /\ audioPc = "svc" /\ ~audioExit /\ taken < MaxFrames
  /\ taken' = taken + 1
  /\ pts' = (nextPts + jump) % U32
  /\ nextPts' = (nextPts + jump + f.ticks) % U32

(* Only 16 bit samples are played. *)
Refuse(f, jump) ==
  /\ f.bits # 16
  /\ Takes(f, jump)
  /\ UNCHANGED <<threadVars, deviceVars, frame, copied, index, accepted, clockVars>>

Accept(f, jump) ==
  /\ f.bits = 16 /\ format = Format(f)
  /\ Takes(f, jump)
  /\ frame' = f /\ copied' = 0
  /\ AudioGoto("copy")
  /\ UNCHANGED <<audioExit, signalled, deviceVars, index, accepted, clockVars>>

(* A frame of another format: clear, then init with new buffers (the old   *)
(* ones are not freed), in which the samples are numbered from 1 again.    *)
Reopen(f, jump) ==
  /\ f.bits = 16 /\ format # Format(f)
  /\ Takes(f, jump)
  /\ frame' = f /\ copied' = 0 /\ index' = 0 /\ accepted' = 0
  /\ format' = Format(f) /\ block' = BlockSamples(f)
  /\ buffer' = [b \in Buffer |-> [i \in 1 .. BlockSamples(f) |-> 0]]
  /\ current' = 0 /\ playing' = <<>> /\ played' = <<>>
  /\ renderTime' = 0
  /\ AudioGoto("copy")
  /\ UNCHANGED <<audioExit, signalled, lastPts, lastDuration, gap, exact, steps,
                 steady, resets>>

(* The device cannot be opened: the frame is dropped, and the next one     *)
(* tries again.                                                            *)
ReopenFails(f, jump) ==
  /\ f.bits = 16 /\ format # Format(f)
  /\ Takes(f, jump)
  /\ format' = Closed /\ playing' = <<>>
  /\ UNCHANGED <<threadVars, block, buffer, current, played, frame, copied,
                 index, accepted, clockVars>>

-----------------------------------------------------------------------------
Size == frame.ticks * frame.channels
Lesser(m, n) == IF m <= n THEN m ELSE n

(* Mutant: the end of the buffer is not looked for. *)
FittingAll == Size - copied

(* Samples until the frame ends or the buffer is full. *)
Fitting == Lesser(Size - copied, block - index)

Copy ==
  /\ audioPc = "copy"
  /\ buffer' = [buffer EXCEPT ![current] = [i \in 1 .. block |->
                  IF i \in index + 1 .. index + Fitting THEN accepted + (i - index) ELSE @[i]]]
  /\ copied' = copied + Fitting
  /\ index' = index + Fitting
  /\ accepted' = accepted + Fitting
  /\ AudioGoto(IF index' >= block THEN "enqueue" ELSE "gap")
  /\ UNCHANGED <<audioExit, signalled, format, block, current, playing, played,
                 frame, pts, clockVars, inputVars>>

Enqueue ==
  /\ audioPc = "enqueue"
  /\ playing' = Append(playing, current)
  /\ AudioGoto("enqueued")
  /\ UNCHANGED <<audioExit, signalled, format, block, buffer, current, played,
                 copyVars, clockVars, inputVars>>

(* The callback may come before the wait has begun. *)
BeginWait ==
  /\ audioPc = "enqueued"
  /\ AudioGoto("wait")
  /\ UNCHANGED <<audioExit, signalled, deviceVars, copyVars, clockVars, inputVars>>

Wait ==
  /\ audioPc = "wait"
  /\ Waited
  /\ current' = 1 - current /\ index' = 0
  /\ AudioGoto(IF copied < Size THEN "copy" ELSE "gap")
  /\ UNCHANGED <<audioExit, format, block, buffer, playing, played, frame, pts,
                 copied, accepted, clockVars, inputVars>>

(* The device has played a buffer, as its memory is now, and calls back.   *)
BufferFinished ==
  /\ playing # <<>>
  /\ played' = played \o buffer[Head(playing)]
  /\ playing' = Tail(playing)
  /\ Signal
  /\ UNCHANGED <<audioPc, audioExit, format, block, buffer, current, copyVars,
                 clockVars, inputVars>>

-----------------------------------------------------------------------------
Delta == (pts - lastPts) % U32

(* Mutant: the duration of the last frame is counted twice. *)
GapDoubled == ((Delta * 1000) % U32) \div frame.rate

Gap == ((Delta * 1000) % U32) \div frame.rate - lastDuration

(* The first frame since the clock was stopped starts it.                  *)
ComputeGap ==
  /\ audioPc = "gap"
  /\ \/ /\ renderTime = 0
        /\ lastPts' = pts /\ lastDuration' = 0 /\ gap' = 0
        /\ exact' = 0 /\ steps' = 0 /\ steady' = TRUE
     \/ /\ renderTime # 0
        /\ gap' = Gap
        /\ UNCHANGED <<lastPts, lastDuration, exact, steps, steady>>
  /\ AudioGoto("add")
  /\ UNCHANGED <<audioExit, signalled, deviceVars, copyVars, renderTime, resets,
                 inputVars>>

AddTime ==
  /\ audioPc = "add"
  /\ renderTime' = renderTime + gap + DurationMs(frame)
  /\ lastPts' = pts /\ lastDuration' = DurationMs(frame)
  /\ exact' = exact + Delta * 1000
  /\ steps' = steps + 1
  /\ steady' = (steady /\ Delta * 1000 < U32)
  /\ AudioGoto("svc")
  /\ UNCHANGED <<audioExit, signalled, deviceVars, copyVars, gap, resets, inputVars>>

(* AVSync::video_frame stops its clock; the frame that is being added then *)
(* counts from the end of the frame before.                                *)
StopClock ==
  /\ resets < MaxResets
  /\ resets' = resets + 1
  /\ renderTime' = 0
  /\ exact' = IF audioPc = "add" THEN - (lastDuration * frame.rate) ELSE exact
  /\ steps' = IF audioPc = "add" THEN 0 ELSE steps
  /\ UNCHANGED <<threadVars, deviceVars, copyVars, lastPts, lastDuration, gap,
                 steady, inputVars>>

-----------------------------------------------------------------------------
(* stop, and the destructor once the thread has ended.                     *)
Stop ==
  /\ ~audioExit
  /\ audioExit' = TRUE
  /\ UNCHANGED <<audioPc, signalled, deviceVars, copyVars, clockVars, inputVars>>

Ends ==
  /\ audioPc = "svc" /\ audioExit
  /\ AudioGoto("off")
  /\ UNCHANGED <<audioExit, signalled, deviceVars, copyVars, clockVars, inputVars>>

Delete ==
  /\ audioPc = "off"
  /\ AudioGoto("deleted")
  /\ format' = Closed /\ playing' = <<>>
  /\ UNCHANGED <<audioExit, signalled, block, buffer, current, played, copyVars,
                 clockVars, inputVars>>

OnFrame == Copy \/ Enqueue \/ BeginWait \/ Wait \/ ComputeGap \/ AddTime

AudioNext ==
  \/ \E f \in AudioFrame, jump \in Jumps :
       Refuse(f, jump) \/ Accept(f, jump) \/ Reopen(f, jump) \/ ReopenFails(f, jump)
  \/ OnFrame
  \/ BufferFinished
  \/ StopClock
  \/ Stop \/ Ends \/ Delete

AudioSpec == AudioInit /\ [][AudioNext]_audioVars

(* The renderer thread runs, and the device finishes what it is given.     *)
AudioFairness ==
  /\ WF_audioVars(OnFrame \/ Ends)
  /\ WF_audioVars(BufferFinished)

-----------------------------------------------------------------------------
InOnFrame == audioPc \in {"copy", "enqueue", "enqueued", "wait", "gap", "add"}

ThreadOK ==
  /\ InOnFrame \/ audioPc \in {"svc", "off", "deleted"}
  /\ audioExit \in BOOLEAN /\ signalled \in BOOLEAN

DeviceOK ==
  /\ format \in {Format(f) : f \in AudioFrame} \cup {Closed}
  /\ block \in Nat /\ index \in 0 .. block
  /\ current \in Buffer /\ buffer \in [Buffer -> [1 .. block -> Nat]]
  /\ playing \in Seq(Buffer) /\ played \in Seq(Nat)

FrameOK ==
  /\ frame \in AudioFrame \cup {NoFrame} /\ (InOnFrame => frame \in AudioFrame)
  /\ pts \in Nat /\ copied \in Nat /\ accepted \in Nat
  /\ nextPts \in Nat /\ taken \in Nat

ClockOK ==
  /\ renderTime \in Int /\ gap \in Int /\ exact \in Int
  /\ lastPts \in Nat /\ lastDuration \in Nat /\ steps \in Nat
  /\ steady \in BOOLEAN /\ resets \in Nat

(* Types; a buffer is never written beyond its end.                        *)
AudioTypeOK == ThreadOK /\ DeviceOK /\ FrameOK /\ ClockOK

(* What is heard since the device was opened are the samples that were     *)
(* handed over, each once and in order: a block that the device plays is   *)
(* not written until the callback has come, whatever comes first, the      *)
(* callback or the wait (AudioOut.cc:140, 142).                            *)
PlayedInOrder == \A i \in 1 .. Len(played) : played[i] = i

(* The renderer keeps less than a block to itself: between two frames the  *)
(* device has played all the rest, so that clear never destroys a player   *)
(* which still plays one of the buffers (AudioOut.cc:122, 25).             *)
NothingPlaysBetweenFrames ==
  ~InOnFrame => /\ playing = <<>> /\ ~signalled
                /\ format # Closed => Len(played) + index = accepted /\ index < block

(* The clock of AVSync follows the stream: as long as no frame was out of  *)
(* order it is not ahead of the time between the timestamps, lost frames   *)
(* included, and behind it by less than a millisecond for each frame       *)
(* (AudioOut.cc:158, 161), whenever it was stopped.                        *)
ClockFollowsStream ==
  ~InOnFrame /\ format # Closed /\ renderTime # 0 /\ steady =>
    LET counted == format.rate * (renderTime - lastDuration)
    IN counted <= exact /\ exact <= counted + steps * (format.rate - 1)

(* AVOutBase::stop returns: the thread it joins comes out of its wait for  *)
(* the device (AudioOut.cc:142).                                           *)
StopReturns == audioExit ~> audioPc \in {"off", "deleted"}
=============================================================================
