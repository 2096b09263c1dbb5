--------------------------- MODULE PlayoutBuffer ----------------------------
(***************************************************************************)
(* What AVSync promises for video, with each operation in one step: frames *)
(* leave in the order they came, each at most once; playing stops when the *)
(* buffer runs dry and resumes only when the frames in the buffer at that  *)
(* moment span the threshold.                                              *)
(***************************************************************************)
EXTENDS AVTime, Sequences

CONSTANTS
  VideoFrame,    \* the frames, each with its timestamp in field pts
  BufferingMs    \* the latency at which playing resumes

VARIABLES
  queue,         \* the frames waiting to be shown, oldest first
  buffering      \* frames are being collected, none leaves

vars == <<queue, buffering>>

SpanMs(q) == IF q = <<>> THEN 0 ELSE LatencyMs(q[Len(q)].pts, q[1].pts)

Init == /\ queue = <<>>
        /\ buffering = FALSE

Offer(f) == /\ queue' = Append(queue, f)
            /\ buffering' = (buffering \/ queue = <<>>)

Resume == /\ buffering
          /\ SpanMs(queue) >= BufferingMs
          /\ buffering' = FALSE
          /\ UNCHANGED queue

Take == /\ ~buffering
        /\ queue # <<>>
        /\ queue' = Tail(queue)
        /\ UNCHANGED buffering

Next == \/ \E f \in VideoFrame : Offer(f)
        \/ Resume
        \/ Take

Spec == Init /\ [][Next]_vars
=============================================================================
