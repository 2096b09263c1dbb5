---------------------------- MODULE VideoPacing -----------------------------
(***************************************************************************)
(* How AVSync::video_frame paces one uninterrupted video stream against    *)
(* its clock: the arithmetic of a long run, which AVSync (whose concern is *)
(* the interleaving of threads) can only follow for a few frames.  The     *)
(* queue never runs dry here, and the clock is neither replaced nor        *)
(* restarted after the first frame.                                        *)
(***************************************************************************)
EXTENDS AVTime

CONSTANTS
  PtsSteps,     \* ticks from one frame to the next
  PollSteps,    \* milliseconds between two looks at the clock
  MaxShown      \* bound: frames taken after the first one

ASSUME PacingAssumption ==
  /\ \A s \in PtsSteps : s \in Nat /\ s * 1000 < U32
  /\ PollSteps \subseteq Nat
  /\ MaxShown \in Nat

VARIABLES
  lastVideoTs,  \* m_last_video_ts
  playedMs,     \* m_video_duration, before it wraps
  clockMs,      \* what m_clock->clock_ms() returns
  front,        \* timestamp of the frame at the front of the queue
  ticks,        \* history: timestamp ticks from the first to the last taken
  shown         \* history: frames taken after the first one

pacingVars == <<lastVideoTs, playedMs, clockMs, front, ticks, shown>>

(* The first frame has been looked at: lines 143 to 150. *)
PacingInit ==
  /\ lastVideoTs \in {0, U32 - 1}
  /\ playedMs = FirstFrameMs
  /\ clockMs = 0
  /\ front = lastVideoTs
  /\ ticks = 0 /\ shown = 0

(* Mutant: the duration is rounded up. *)
DueRoundedUp == playedMs + DurationMs(front, lastVideoTs) + 1

Due == playedMs + DurationMs(front, lastVideoTs)

(* The frame is taken, and the one after it moves to the front. *)
TakeFront(step) ==
  /\ shown < MaxShown
  /\ clockMs >= Due
  /\ ticks' = ticks + ((front - lastVideoTs) % U32)
  /\ shown' = shown + 1
  /\ lastVideoTs' = front
  /\ playedMs' = Due
  /\ front' = (front + step) % U32
  /\ UNCHANGED clockMs

(* Time passes; the renderer polls every millisecond, so it never passes   *)
(* far beyond the time at which the frame is due.                          *)
TimePasses(step) ==
  /\ clockMs < Due
  /\ clockMs' = clockMs + step
  /\ UNCHANGED <<lastVideoTs, playedMs, front, ticks, shown>>

PacingNext ==
  \/ \E step \in PtsSteps : TakeFront(step)
  \/ \E step \in PollSteps : TimePasses(step)

PacingSpec == PacingInit /\ [][PacingNext]_pacingVars

-----------------------------------------------------------------------------
PacingTypeOK ==
  /\ lastVideoTs \in Timestamp /\ front \in Timestamp
  /\ playedMs \in Nat /\ clockMs \in Nat /\ ticks \in Nat /\ shown \in Nat

(* The playout position may fall behind the stream's own time by less than *)
(* a millisecond per frame, and is never ahead of it: what the truncation  *)
(* in video_frame's duration costs, whatever the timestamps do at the wrap *)
(* of uint32_t.                                                            *)
DriftBounded ==
  LET played == (playedMs - FirstFrameMs) * RTP_VIDEO_CLOCK
  IN /\ played <= ticks * 1000
     /\ ticks * 1000 <= played + shown * (RTP_VIDEO_CLOCK - 1)
=============================================================================
