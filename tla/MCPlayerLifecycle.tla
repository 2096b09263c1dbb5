------------------------- MODULE MCPlayerLifecycle --------------------------
(* Instances of PlayerLifecycle for TLC. *)
EXTENDS PlayerLifecycle

(* Two video frames, so that one is queued while the next is decoded, or   *)
(* one of each.                                                            *)
TwoAndOne == [video |-> 2, audio |-> 1]
=============================================================================
