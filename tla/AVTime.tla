------------------------------- MODULE AVTime -------------------------------
(***************************************************************************)
(* The timestamp arithmetic of Player/AVSync.cc.  RTP timestamps are       *)
(* uint32_t counts of a 90 kHz clock; every difference, product and        *)
(* quotient is taken in uint32_t, so it wraps at U32 and truncates.        *)
(***************************************************************************)
EXTENDS Integers

CONSTANTS
  RTP_VIDEO_CLOCK,  \* ticks per second of an RTP video timestamp (90000)
  U32               \* the modulus of uint32_t (2^32)

ASSUME ClockAssumption == RTP_VIDEO_CLOCK \in Nat \ {0}
ASSUME WidthAssumption == U32 \in Nat \ {0}

Timestamp == 0 .. U32 - 1

(* What m_video_duration is given when the first frame is looked at. *)
FirstFrameMs == 40

(* Milliseconds from timestamp last to timestamp pts, as video_frame       *)
(* computes them: the product is truncated to 32 bits before the division. *)
DurationMs(pts, last) == (((pts - last) * 1000) % U32) \div RTP_VIDEO_CLOCK

(* Milliseconds between two timestamps, as video_latency_ms computes them: *)
(* the division comes first, so the result is a whole number of seconds.   *)
LatencyMs(back, front) == (((back - front) % U32) \div RTP_VIDEO_CLOCK) * 1000
=============================================================================
