------------------------------ MODULE OpusEnc ------------------------------
(***************************************************************************)
(* src/MediaCodec/jni/opusenc.c: opus_enc_encode cuts the audio of its     *)
(* callers into frames of a fixed length.  Frames being filled are a list  *)
(* linked by next, encoded ones go to a list of free frames and are used   *)
(* again.  Samples are numbered from 1 as they are handed over; a frame is *)
(* the sequence of the numbers written to it.  The encoder is used by one  *)
(* thread: a step is one pass of a loop.                                   *)
(***************************************************************************)
EXTENDS Integers, Sequences

CONSTANTS
  Frame, Null,   \* AudioFrames that can be allocated, and the NULL pointer
  FrameSamples,  \* frame_samples
  PerMs,         \* samples in a millisecond
  Blocks,        \* numbers of samples in a call
  MaxCalls       \* bound: calls of opus_enc_encode

ASSUME EncAssumption ==
  /\ Null \notin Frame
  /\ FrameSamples \in Nat \ {0} /\ PerMs \in Nat \ {0}
  /\ Blocks \subseteq Nat \ {0} /\ MaxCalls \in Nat

VARIABLES
  at,              \* where the program is: outside, or in one of the two loops
  frames, free,    \* heads of the lists frames and free_frames
  next,            \* next of every frame
  content,         \* the samples in it (frame->samples is their number)
  ntp,             \* of every frame (opaque is treated like it)
  allocated,       \* frames that opus_alloc has returned
  len, left,       \* samples of the call, and samples_left
  firstNtp,        \* first_sample_ntp
  calls, given,    \* history: calls, and samples handed over before this one
  out              \* what cb_out was given: [samples, ntp]

listVars == <<frames, free, next, allocated>>
dataVars == <<content, ntp>>
callVars == <<len, firstNtp, calls, given>>
encVars  == <<at, listVars, dataVars, callVars, left, out>>

EncInit ==
  /\ at = "idle"
  /\ frames = Null /\ free = Null /\ allocated = {}
  /\ next = [f \in Frame |-> Null]
  /\ content = [f \in Frame |-> <<>>]
  /\ ntp = [f \in Frame |-> 0]
  /\ len = 0 /\ left = 0 /\ firstNtp = 0 /\ calls = 0 /\ given = 0
  /\ out = <<>>

(* The frames of the list that begins with head: those in every set that   *)
(* holds head and, with a frame, the one that follows it.                  *)
Closed(S, link) == \A f \in S : link[f] \in S \cup {Null}

Reached(link, head) ==
  {f \in Frame : \A S \in SUBSET Frame :
                   {head} \ {Null} \subseteq S /\ Closed(S, link) => f \in S}

Listed(head) == Reached(next, head)

IsTail(f) == f \in Listed(frames) /\ next[f] = Null

(* get_sample_duration truncates to milliseconds.                          *)
DurationMs(samples) == samples \div PerMs

-----------------------------------------------------------------------------
(* A call: ntp_in_ms is the time of the last sample of the block, as a     *)
(* clock of the caller that counts milliseconds has it.                    *)
Encode(n) ==
  /\ at = "idle" /\ calls < MaxCalls
  /\ calls' = calls + 1
  /\ len' = n /\ left' = n
  /\ firstNtp' = DurationMs(given + n) - DurationMs(n)
  /\ at' = "write"
  /\ UNCHANGED <<listVars, dataVars, given, out>>

Smaller(m, n) == IF m <= n THEN m ELSE n

(* Mutant: a frame's time is that of the block it begins in. *)
NtpOfBlock(written) == firstNtp

NtpOf(written) == firstNtp + DurationMs(written)

(* memcpy into f, whose first sample gives it its time.                    *)
Write(f, before) ==
  LET n       == Smaller(FrameSamples - Len(before), left)
      written == len - left
  IN /\ content' = [content EXCEPT ![f] =
                      before \o [i \in 1 .. n |-> given + written + i]]
     /\ ntp' = [ntp EXCEPT ![f] = IF before = <<>> THEN NtpOf(written) ELSE @]
     /\ left' = left - n

(* get_writable_frame: the last frame is not full.                         *)
WriteToLast(f) ==
  /\ at = "write" /\ left > 0
  /\ IsTail(f) /\ Len(content[f]) < FrameSamples
  /\ Write(f, content[f])
  /\ UNCHANGED <<at, listVars, callVars, out>>

NeedsFrame ==
  /\ at = "write" /\ left > 0
  /\ \A f \in Listed(frames) : IsTail(f) => Len(content[f]) = FrameSamples

(* Mutant: a new frame goes to the front of the list. *)
LinkFirst(f, chain) ==
  /\ frames' = f
  /\ next' = [chain EXCEPT ![f] = frames]

Link(f, chain) ==
  IF frames = Null
  THEN frames' = f /\ next' = [chain EXCEPT ![f] = Null]
  ELSE /\ frames' = frames
       /\ next' = [g \in Frame |-> IF g = f THEN Null ELSE IF IsTail(g) THEN f ELSE chain[g]]

(* A free frame is used again, or a new one allocated.                     *)
WriteToFree ==
  /\ NeedsFrame /\ free # Null
  /\ free' = next[free]
  /\ Link(free, next) /\ Write(free, <<>>)
  /\ UNCHANGED <<at, allocated, callVars, out>>

WriteToNew(f) ==
  /\ NeedsFrame /\ free = Null
  /\ f \notin allocated /\ allocated' = allocated \cup {f}
  /\ Link(f, next) /\ Write(f, <<>>)
  /\ UNCHANGED <<at, free, callVars, out>>

(* opus_alloc fails: the rest of the block is dropped.                     *)
AllocFails ==
  /\ NeedsFrame /\ free = Null
  /\ at' = "encode"
  /\ UNCHANGED <<listVars, dataVars, callVars, left, out>>

Written ==
  /\ at = "write" /\ left = 0
  /\ at' = "encode"
  /\ UNCHANGED <<listVars, dataVars, callVars, left, out>>

-----------------------------------------------------------------------------
FrontIsFull == frames # Null /\ Len(content[frames]) = FrameSamples

(* Mutant: the frame is put on the free list before it is taken off the    *)
(* other one.                                                              *)
ReleaseFirst ==
  /\ next' = [next EXCEPT ![frames] = free]
  /\ free' = frames
  /\ frames' = next'[frames]

(* frames = frames->next, then release_audio_frame. *)
ShiftOut ==
  /\ frames' = next[frames]
  /\ next' = [next EXCEPT ![frames] = free]
  /\ free' = frames

(* Opus may fail to encode a frame, which is dropped then.                 *)
EncodeFrame(ok) ==
  /\ at = "encode" /\ FrontIsFull
  /\ out' = IF ok
            THEN Append(out, [samples |-> content[frames], ntp |-> ntp[frames]])
            ELSE out
  /\ ShiftOut
  /\ UNCHANGED <<at, allocated, dataVars, callVars, left>>

Return ==
  /\ at = "encode" /\ ~FrontIsFull
  /\ at' = "idle" /\ given' = given + len
  /\ UNCHANGED <<listVars, dataVars, len, left, firstNtp, calls, out>>

(* opus_enc_destroy follows next of frames that it has just freed: after   *)
(* that, nothing is known if there were any.                               *)
Destroy ==
  /\ at = "idle"
  /\ \/ frames = Null /\ free = Null /\ at' = "destroyed"
     \/ ~(frames = Null /\ free = Null) /\ at' \in {"destroyed", "undefined"}
  /\ UNCHANGED <<listVars, dataVars, callVars, left, out>>

EncNext ==
  \/ \E n \in Blocks : Encode(n)
  \/ \E f \in Frame : WriteToLast(f) \/ WriteToNew(f)
  \/ WriteToFree \/ AllocFails \/ Written
  \/ \E ok \in BOOLEAN : EncodeFrame(ok)
  \/ Return
  \/ Destroy

EncSpec == EncInit /\ [][EncNext]_encVars

-----------------------------------------------------------------------------
(* The two lists share no frame, end, and hold every frame that was ever   *)
(* allocated: none is leaked, none is written to while it is free          *)
(* (get_writable_frame, release_audio_frame).                              *)
EachFrameListed ==
  /\ Listed(frames) \cup Listed(free) = allocated
  /\ Listed(frames) \cap Listed(free) = {}
  /\ \A head \in {frames, free} \ {Null} : \E f \in Listed(head) : next[f] = Null

(* What is encoded is a full frame of samples that followed each other,    *)
(* later than all that were encoded before, although frames are used again,*)
(* blocks end anywhere and the end of a block is lost when no frame can be *)
(* allocated (opusenc.h:18).                                               *)
FramesInOrder ==
  \A i \in 1 .. Len(out) :
    /\ out[i].samples = [j \in 1 .. FrameSamples |-> out[i].samples[1] + j - 1]
    /\ i > 1 => out[i].samples[1] >= out[i - 1].samples[1] + FrameSamples

(* "ntp of the first sample" (opusenc.h:20): to two milliseconds, one for  *)
(* the clock of the caller and one for the truncated durations.            *)
NtpOfFirstSample ==
  \A i \in 1 .. Len(out) :
    LET exact == out[i].samples[1] - 1
    IN /\ out[i].ntp * PerMs > exact - 2 * PerMs
       /\ out[i].ntp * PerMs < exact + PerMs
=============================================================================
