------------------------------- MODULE AVSync -------------------------------
(***************************************************************************)
(* Player/AVSync.cc with the four threads that use one AVSync: the decoder *)
(* task of each stream pushes frames (VideoPlayer::on_decoded_image,       *)
(* AudioPlayer::on_decoded_pcm), the two renderer threads take and release *)
(* them (AVOutBase::Svc), and the audio renderer advances the clock that   *)
(* paces video (AudioOut::on_frame).  A step is one region under           *)
(* AVSync::m_lock, or one access to state that no lock protects.           *)
(***************************************************************************)
EXTENDS AVTime, Sequences

CONSTANTS
  VideoFrame,   \* video AVFrames: [id: place in decoding order, pts]
  AudioFrame,   \* audio AVFrames; a freed one may be allocated again
  NoFrame,      \* a thread holds no frame
  BufferingMs,  \* latency at which push_video ends buffering (300)
  TimerSteps,   \* milliseconds that may pass between two steps
  AudioSteps,   \* gap + duration that one audio frame adds to its clock
  MaxClock      \* bound: no clock is advanced from this value on

ASSUME FrameAssumption ==
  /\ \A f \in VideoFrame : f.id \in Nat /\ f.pts \in Timestamp
  /\ VideoFrame \cap AudioFrame = {}
  /\ NoFrame \notin VideoFrame \cup AudioFrame
ASSUME StepAssumption ==
  /\ BufferingMs \in Nat
  /\ TimerSteps \subseteq Nat /\ AudioSteps \subseteq Nat
  /\ MaxClock \in Nat

VARIABLES
  videoQ, audioQ,   \* m_video_frames, m_audio_frames
  buffering,        \* m_buffering
  lastTs,           \* m_last_video_ts
  videoDuration,    \* m_video_duration
  clock,            \* which clock m_clock points to
  timer,            \* elapsed time of the internal AVTimer
  renderTime,       \* AudioOut's m_render_time
  refs,             \* m_ref_count of every AVFrame, 0 when deleted
  pc, held,         \* per thread: next step, frame whose reference it owns
  latency,          \* push_video's local latency
  sum,              \* m_render_time as the audio renderer loaded it
  device,           \* AudioOut has a device open (m_channels is not 0)
  decoded           \* number of video frames decoded so far

sync    == <<videoQ, audioQ, buffering>>
pacing  == <<lastTs, videoDuration>>
clocks  == <<clock, timer, renderTime, sum, device>>
frames  == <<refs, held>>
vars    == <<sync, pacing, clocks, frames, pc, latency, decoded>>

Frame  == VideoFrame \cup AudioFrame
Thread == {"vdec", "adec", "vout", "aout"}

-----------------------------------------------------------------------------
Init ==
  /\ videoQ = <<>> /\ audioQ = <<>>
  /\ buffering = FALSE
  /\ lastTs = 0 /\ videoDuration = 0
  /\ clock = "avtimer" /\ timer = 0 /\ renderTime = 0
  /\ refs = [f \in Frame |-> 0]
  /\ pc = [t \in Thread |-> "off"]
  /\ held = [t \in Thread |-> NoFrame]
  /\ latency = 0 /\ sum = 0 /\ decoded = 0
  /\ device = FALSE

Goto(t, label) == pc' = [pc EXCEPT ![t] = label]

(* RtpPlayer::play_video and play_audio: the renderer thread and the       *)
(* stream with its decoder task start.                                     *)
PlayVideo ==
  /\ pc["vout"] = "off"
  /\ pc' = [pc EXCEPT !["vout"] = "get", !["vdec"] = "decode"]
  /\ UNCHANGED <<sync, pacing, clocks, frames, latency, decoded>>

PlayAudio ==
  /\ pc["aout"] = "off"
  /\ pc' = [pc EXCEPT !["aout"] = "get", !["adec"] = "decode"]
  /\ UNCHANGED <<sync, pacing, clocks, frames, latency, decoded>>

(* The end of play_audio: AudioOut replaces the AVTimer. *)
SetClock ==
  /\ pc["aout"] # "off"
  /\ clock = "avtimer"
  /\ clock' = "audio"
  /\ UNCHANGED <<sync, pacing, timer, renderTime, sum, device, frames, pc,
                 latency, decoded>>

-----------------------------------------------------------------------------
(* Mutant: a new frame is not counted as its creator's. *)
OwnUncounted(t, f) == /\ refs' = refs
                      /\ held' = [held EXCEPT ![t] = f]

(* The decoder allocates a frame, which it owns until its callback ends.   *)
Own(t, f) == /\ refs' = [refs EXCEPT ![f] = 1]
             /\ held' = [held EXCEPT ![t] = f]

(* Mutant: the thread drops its frame without releasing it. *)
ReleaseForgotten(t) == /\ refs' = refs
                       /\ held' = [held EXCEPT ![t] = NoFrame]

(* frame->release() by the thread that owns a reference. *)
Release(t) == /\ refs' = [refs EXCEPT ![held[t]] = @ - 1]
              /\ held' = [held EXCEPT ![t] = NoFrame]

DecodeImage(f) ==
  /\ pc["vdec"] = "decode"
  /\ f.id = decoded + 1 /\ refs[f] = 0
  /\ Own("vdec", f)
  /\ decoded' = decoded + 1
  /\ Goto("vdec", "push")
  /\ UNCHANGED <<sync, pacing, clocks, latency>>

DecodePcm(f) ==
  /\ pc["adec"] = "decode"
  /\ refs[f] = 0
  /\ renderTime < MaxClock
  /\ Own("adec", f)
  /\ Goto("adec", "push")
  /\ UNCHANGED <<sync, pacing, clocks, latency, decoded>>

(* push_video takes m_lock three times: to append, to read the latency,    *)
(* and to end buffering if the latency it read was enough.                 *)
PushVideo ==
  /\ pc["vdec"] = "push"
  /\ refs' = [refs EXCEPT ![held["vdec"]] = @ + 1]
  /\ buffering' = (buffering \/ videoQ = <<>>)
  /\ videoQ' = Append(videoQ, held["vdec"])
  /\ Goto("vdec", "latency")
  /\ UNCHANGED <<audioQ, pacing, clocks, held, latency, decoded>>

(* Mutant: the oldest frame minus the newest. *)
VideoLatencySwapped ==
  IF videoQ = <<>> THEN 0 ELSE LatencyMs(videoQ[1].pts, videoQ[Len(videoQ)].pts)

VideoLatencyMs ==
  IF videoQ = <<>> THEN 0 ELSE LatencyMs(videoQ[Len(videoQ)].pts, videoQ[1].pts)

ReadLatency ==
  /\ pc["vdec"] = "latency"
  /\ latency' = VideoLatencyMs
  /\ Goto("vdec", "check")
  /\ UNCHANGED <<sync, pacing, clocks, frames, decoded>>

(* Mutant: the first pass through push_video ends buffering. *)
StopBufferingAlways ==
  /\ pc["vdec"] = "check"
  /\ buffering' = FALSE
  /\ Goto("vdec", "release")
  /\ UNCHANGED <<videoQ, audioQ, pacing, clocks, frames, latency, decoded>>

StopBuffering ==
  /\ pc["vdec"] = "check"
  /\ buffering' = (buffering /\ latency < BufferingMs)
  /\ Goto("vdec", "release")
  /\ UNCHANGED <<videoQ, audioQ, pacing, clocks, frames, latency, decoded>>

PushAudio ==
  /\ pc["adec"] = "push"
  /\ refs' = [refs EXCEPT ![held["adec"]] = @ + 1]
  /\ audioQ' = Append(audioQ, held["adec"])
  /\ Goto("adec", "release")
  /\ UNCHANGED <<videoQ, buffering, pacing, clocks, held, latency, decoded>>

(* The decoder callback ends with video_image->release(). *)
DecoderRelease(t) ==
  /\ pc[t] = "release"
  /\ Release(t)
  /\ Goto(t, "decode")
  /\ UNCHANGED <<sync, pacing, clocks, latency, decoded>>

-----------------------------------------------------------------------------
(* Mutant: video looks at the audio clock before set_clock. *)
ClockMsOfAudio == renderTime

ClockMs == IF clock = "avtimer" THEN timer ELSE renderTime

(* m_clock->stop_clock(); m_clock->start_clock(0) *)
RestartClock ==
  /\ timer' = IF clock = "avtimer" THEN 0 ELSE timer
  /\ renderTime' = IF clock = "avtimer" THEN renderTime ELSE 0
  /\ UNCHANGED <<clock, sum, device>>

(* Mutants: video_frame forgets m_buffering, or keeps one frame back. *)
VideoReadyUnbuffered == videoQ # <<>>
VideoReadyKeepingOne == Len(videoQ) > 1 /\ ~buffering

VideoReady == videoQ # <<>> /\ ~buffering

(* video_frame on the first frame: pacing starts at one frame time and the *)
(* clock at 0, so nothing is due yet.  (A call that finds the frame time   *)
(* already gone by is StartPacing, then Tick, then TakeVideo.)             *)
StartPacing ==
  /\ pc["vout"] = "get"
  /\ VideoReady
  /\ videoDuration = 0
  /\ lastTs' = Head(videoQ).pts
  /\ videoDuration' = FirstFrameMs
  /\ RestartClock
  /\ UNCHANGED <<sync, frames, pc, latency, decoded>>

(* video_frame when the oldest frame is due. *)
TakeVideo ==
  /\ pc["vout"] = "get"
  /\ VideoReady
  /\ videoDuration # 0
  /\ LET f   == Head(videoQ)
         due == (videoDuration + DurationMs(f.pts, lastTs)) % U32
     IN /\ ClockMs >= due
        /\ lastTs' = f.pts
        /\ videoDuration' = due
        /\ held' = [held EXCEPT !["vout"] = f]
  /\ videoQ' = Tail(videoQ)
  /\ Goto("vout", "release")
  /\ UNCHANGED <<audioQ, buffering, clocks, refs, latency, decoded>>

TakeAudio ==
  /\ pc["aout"] = "get"
  /\ audioQ # <<>> /\ ~buffering
  /\ held' = [held EXCEPT !["aout"] = Head(audioQ)]
  /\ audioQ' = Tail(audioQ)
  /\ Goto("aout", "render")
  /\ UNCHANGED <<videoQ, buffering, pacing, clocks, refs, latency, decoded>>

(* AudioOut::on_frame with a frame whose format is not the device's: the  *)
(* first one, one in a new format, and every one after an init that failed,*)
(* since clear leaves m_channels 0.  clear, then init.                     *)
CloseDevice ==
  /\ pc["aout"] = "render"
  /\ device' = FALSE
  /\ Goto("aout", "open")
  /\ UNCHANGED <<sync, pacing, clock, timer, renderTime, sum, frames, latency,
                 decoded>>

(* init restarts the clock at 0.  If it fails the frame is dropped and the *)
(* clock stays where it is.                                                *)
OpenDevice(ok) ==
  /\ pc["aout"] = "open"
  /\ device' = ok
  /\ renderTime' = IF ok THEN 0 ELSE renderTime
  /\ Goto("aout", IF ok THEN "load" ELSE "release")
  /\ UNCHANGED <<sync, pacing, clock, timer, sum, frames, latency, decoded>>

(* m_render_time += gap + duration, under no lock: a load and a store,     *)
(* between which the video renderer may reset m_render_time.  Only a frame *)
(* in the format of an open device gets here without opening it.           *)
LoadRenderTime ==
  /\ pc["aout"] = "load" \/ (pc["aout"] = "render" /\ device)
  /\ sum' = renderTime
  /\ Goto("aout", "store")
  /\ UNCHANGED <<sync, pacing, clock, timer, renderTime, device, frames,
                 latency, decoded>>

StoreRenderTime(step) ==
  /\ pc["aout"] = "store"
  /\ renderTime' = sum + step
  /\ Goto("aout", "release")
  /\ UNCHANGED <<sync, pacing, clock, timer, sum, device, frames, latency,
                 decoded>>

(* AVOutBase::Svc hands the frame back and asks for the next one. *)
RendererRelease(t) ==
  /\ pc[t] = "release"
  /\ Release(t)
  /\ Goto(t, "get")
  /\ UNCHANGED <<sync, pacing, clocks, latency, decoded>>

(* Time passes for the AVTimer. *)
Tick(step) ==
  /\ clock = "avtimer"
  /\ timer < MaxClock
  /\ timer' = timer + step
  /\ UNCHANGED <<sync, pacing, clock, renderTime, sum, device, frames, pc,
                 latency, decoded>>

VideoDecoder == \/ \E f \in VideoFrame : DecodeImage(f)
                \/ PushVideo
                \/ ReadLatency
                \/ StopBuffering
                \/ DecoderRelease("vdec")

AudioDecoder == \/ \E f \in AudioFrame : DecodePcm(f)
                \/ PushAudio
                \/ DecoderRelease("adec")

VideoRenderer == \/ StartPacing
                 \/ TakeVideo
                 \/ RendererRelease("vout")

AudioRenderer == \/ TakeAudio
                 \/ CloseDevice
                 \/ \E ok \in BOOLEAN : OpenDevice(ok)
                 \/ LoadRenderTime
                 \/ \E step \in AudioSteps : StoreRenderTime(step)
                 \/ RendererRelease("aout")

Next == \/ PlayVideo
        \/ PlayAudio
        \/ SetClock
        \/ VideoDecoder
        \/ AudioDecoder
        \/ VideoRenderer
        \/ AudioRenderer
        \/ \E step \in TimerSteps : Tick(step)

Spec == Init /\ [][Next]_vars

(***************************************************************************)
(* Fairness.  The renderer threads poll without end (AVOutBase::Svc), time *)
(* passes, and the sender keeps sending audio, which the decoder task      *)
(* delivers: what paces video when the clock is the audio renderer.        *)
(* Nothing is assumed of the video stream, of the formats of the audio     *)
(* frames, or of whether the device can be opened.                         *)
(***************************************************************************)
FairSpec == /\ Spec
            /\ WF_vars(VideoRenderer)
            /\ WF_vars(AudioRenderer)
            /\ WF_vars(AudioDecoder)
            /\ WF_vars(\E step \in TimerSteps : Tick(step))

-----------------------------------------------------------------------------
(* Types. *)
TypeOK ==
  /\ videoQ \in Seq(VideoFrame) /\ audioQ \in Seq(AudioFrame)
  /\ buffering \in BOOLEAN
  /\ lastTs \in Timestamp /\ videoDuration \in Nat
  /\ clock \in {"avtimer", "audio"}
  /\ timer \in Nat /\ renderTime \in Nat /\ sum \in Nat
  /\ refs \in [Frame -> Nat]
  /\ pc \in [Thread -> {"off", "decode", "push", "latency", "check", "release",
                        "get", "render", "open", "load", "store"}]
  /\ held \in [Thread -> Frame \cup {NoFrame}]
  /\ latency \in Nat /\ decoded \in Nat /\ device \in BOOLEAN

Bit(b) == IF b THEN 1 ELSE 0

InQ(q, f) == \E i \in 1 .. Len(q) : q[i] = f

Owners(f) == Bit(held["vdec"] = f) + Bit(held["vout"] = f)
           + Bit(held["adec"] = f) + Bit(held["aout"] = f)
           + Bit(InQ(videoQ, f)) + Bit(InQ(audioQ, f))

(* A frame's reference count is the number of its owners, whichever of the *)
(* four threads have it and whatever the queues hold: no frame is deleted  *)
(* while a queue or a renderer still has it, and none is leaked once all   *)
(* have let go (AVSync::push_video and push_audio take the queue's         *)
(* reference, video_frame and audio_frame pass it on, Svc releases it).    *)
RefsCountOwners == \A f \in Frame : refs[f] = Owners(f)

(* Why the count is right: which steps of a thread own a frame, that the   *)
(* frame about to be queued is not queued yet, and that no frame is queued *)
(* twice.                                                                  *)
Holding(t, labels, S) == IF pc[t] \in labels THEN held[t] \in S ELSE held[t] = NoFrame

HeldFrames ==
  /\ pc["vdec"] = "off" <=> pc["vout"] = "off"
  /\ pc["adec"] = "off" <=> pc["aout"] = "off"
  /\ Holding("vdec", {"push", "latency", "check", "release"}, VideoFrame)
  /\ Holding("adec", {"push", "release"}, AudioFrame)
  /\ Holding("vout", {"release"}, VideoFrame)
  /\ Holding("aout", {"render", "open", "load", "store", "release"}, AudioFrame)

NoDup(q) == \A i, j \in 1 .. Len(q) : q[i] = q[j] => i = j

QueuedOnce ==
  /\ NoDup(videoQ) /\ NoDup(audioQ)
  /\ pc["vdec"] = "push" => ~InQ(videoQ, held["vdec"])
  /\ pc["adec"] = "push" => ~InQ(audioQ, held["adec"])

OwnershipInv == TypeOK /\ HeldFrames /\ QueuedOnce /\ RefsCountOwners

(* Buffering holds back only while there is video to wait for: audio_frame *)
(* tests m_buffering too, so a player whose video queue is empty must not  *)
(* be buffering, or audio would be muted by a stream that sends nothing.   *)
BufferingHasVideo == buffering => videoQ # <<>>

(* push_video ends buffering on a latency it read in an earlier critical   *)
(* section; whenever it does, the frames that are queued now still span    *)
(* the threshold.                                                          *)
ResumesWhenFilled ==
  [][buffering /\ ~buffering' => VideoLatencyMs >= BufferingMs]_vars

(* Why it may act on the earlier reading: nobody takes video while         *)
(* buffering, and only this thread adds any.                               *)
LatencyIsCurrent == pc["vdec"] = "check" /\ buffering => latency = VideoLatencyMs

BufferingInv == BufferingHasVideo /\ LatencyIsCurrent

(* Paced by the internal AVTimer, the playout position is never more than  *)
(* the first frame time ahead of the time played (video_frame).            *)
PacedByTimer == clock = "avtimer" => videoDuration <= timer + FirstFrameMs

(* The clock that paces video goes on: the internal timer always does, the *)
(* audio renderer's only while it has a device.                            *)
ClockGoesOn == clock = "avtimer" \/ device

(* The oldest frame is shown in the end, if from some point on the clock   *)
(* goes on: then neither the pushing threads, nor the change of clock, nor *)
(* any number of failed and repeated openings of the audio device before,  *)
(* keep the video renderer waiting for ever.  A device that never opens, or*)
(* is closed for a new format again and again, stops m_render_time, and    *)
(* video_frame with it (AudioOut::on_frame, AVSync::video_frame).          *)
OldestIsShown ==
  <>[]ClockGoesOn =>
    \A f \in VideoFrame :
       (~buffering /\ videoQ # <<>> /\ Head(videoQ) = f) ~> held["vout"] = f

(* The three critical sections of push_video and the polling renderer      *)
(* implement the playout buffer whose operations are atomic.               *)
PB == INSTANCE PlayoutBuffer WITH queue <- videoQ
ImplementsPlayoutBuffer == PB!Spec
=============================================================================
