--------------------------- MODULE MCReceivePath -----------------------------
(* An instance of ReceivePath for TLC. *)
EXTENDS ReceivePath

Plain(size, pt) ==
  [size |-> size, v |-> 2, cc |-> 0, x |-> FALSE, words |-> 0, p |-> FALSE,
   last |-> 7, pt |-> pt]

(* Two packets of the stream, the second with all that a header can have,  *)
(* one of another payload type, one with nothing but padding, one whose    *)
(* extension ends after the datagram, and an empty datagram.               *)
Full == [Plain(40, 96) EXCEPT !.cc = 2, !.x = TRUE, !.words = 1, !.p = TRUE]

Datagrams ==
  <<Plain(20, 96), Full, Plain(20, 0), [Plain(19, 96) EXCEPT !.p = TRUE],
    [Plain(20, 96) EXCEPT !.x = TRUE, !.words = 2], Plain(0, 96)>>
=============================================================================
