-------------------------------- MODULE MCVp8 -------------------------------
(* Instances of RtpDepacketizerVp8 for TLC. *)
EXTENDS RtpDepacketizerVp8

(* Descriptors of 4 bytes: 16 bytes of packet are 12 of payload. *)
P(first, key, marker, len, offset) ==
  [bits |-> {"X", "I", "M"}, legal |-> TRUE, first |-> first, key |-> key,
   marker |-> marker, len |-> len, offset |-> offset]

Key == <<P(TRUE, TRUE, FALSE, 16, 0), P(FALSE, FALSE, TRUE, 12, 12)>>

Delta1 == <<P(TRUE, FALSE, TRUE, 12, 0)>>

(* Frames with packets that parse refuses (a descriptor with nothing after *)
(* it, an illegal partition, an empty packet, a key frame without its      *)
(* header), and one that is larger than 36 bytes.                          *)
Refusals ==
  <<P(TRUE, FALSE, FALSE, 12, 0), P(FALSE, FALSE, FALSE, 4, 8),
    [P(FALSE, TRUE, TRUE, 16, 8) EXCEPT !.legal = FALSE],
    [P(TRUE, FALSE, FALSE, 0, 0) EXCEPT !.bits = {}],
    P(FALSE, FALSE, TRUE, 12, 0),
    P(TRUE, TRUE, FALSE, 12, 0), P(FALSE, FALSE, TRUE, 12, 0)>>
TooLarge ==
  <<P(TRUE, FALSE, FALSE, 16, 0), P(FALSE, FALSE, FALSE, 16, 12),
    P(FALSE, FALSE, FALSE, 24, 24), P(FALSE, FALSE, TRUE, 12, 44)>>

Untidy == Key \o Delta1 \o Refusals \o TooLarge \o Delta1 \o Key
=============================================================================
