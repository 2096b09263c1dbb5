------------------------------ MODULE MCAVSync ------------------------------
(***************************************************************************)
(* Instances of AVSync for TLC, whose integers have 32 bits: the video     *)
(* clock ticks 90 times a second, so that a frame of 45 ticks lasts 500 ms *)
(* as one of 45000 ticks does in the code, and unsigned numbers have 17    *)
(* bits.                                                                   *)
(***************************************************************************)
EXTENDS AVSync

F(i, timestamps) == {[id |-> i, pts |-> t] : t \in timestamps}

(* Frames half a second or a second apart, before and after a wrap of the  *)
(* timestamp; the third may be out of order, or repeat a timestamp.        *)
AnyOrder == F(1, {U32 - 45}) \cup F(2, {0, 45}) \cup F(3, {0, 90})
=============================================================================
