---------------------------- MODULE MCRenderers ----------------------------
(***************************************************************************)
(* The two renderers for TLC.  Both are an AVOutBase, share nothing and    *)
(* run in threads of their own: a behaviour follows the one or the other.  *)
(* The audio formats are scaled down: a block of 20 ms has 2, 3 or 4       *)
(* samples, and the milliseconds of a frame are truncated at a rate of 150 *)
(* as they are at 44100; unsigned numbers have 20 bits.                    *)
(***************************************************************************)
EXTENDS AudioOut, VideoOut

VARIABLE renderer   \* the one that is followed

vars == <<renderer, audioVars, videoVars>>

Frames ==
  {[rate |-> 150, channels |-> 1, bits |-> 16, ticks |-> t] : t \in {1, 2, 5}}
  \cup {[rate |-> 100, channels |-> 2, bits |-> 16, ticks |-> 1],
        [rate |-> 100, channels |-> 1, bits |-> 8, ticks |-> 2]}

Lost == {0, 3, U32 - 2}

(* The one that is not followed has only one initial state.                *)
Init ==
  /\ AudioInit /\ VideoInit
  /\ \/ renderer = "audio" /\ ~display /\ surface = NoHandle /\ context = NoHandle
     \/ renderer = "video" /\ nextPts = 0

Next ==
  \/ renderer = "audio" /\ AudioNext /\ UNCHANGED <<renderer, videoVars>>
  \/ renderer = "video" /\ VideoNext /\ UNCHANGED <<renderer, audioVars>>

Spec ==
  /\ Init /\ [][Next]_vars
  /\ renderer = "audio" => AudioFairness
=============================================================================
