----------------------------- MODULE RtpPacket -------------------------------
(***************************************************************************)
(* Rtp/RtpPacket.cc: where parse finds the payload of a datagram, and      *)
(* which packets create_instance refuses.                                  *)
(***************************************************************************)
EXTENDS Integers

Bits(n) == 0 .. 2 ^ n - 1

(* A datagram: its length, the fields of the header that parse reads, the  *)
(* words that the extension claims to have, the last byte, which tells the *)
(* padding, and its payload type.                                          *)
Datagram ==
  [size : Nat, v : Bits(2), cc : Bits(4), x : BOOLEAN, words : Bits(16),
   p : BOOLEAN, last : Bits(8), pt : Bits(7)]

RTP_HEADER == 12
MAX_PAYLOAD_BYTES == 1024 * 63

CsrcEnd(d) == RTP_HEADER + 4 * d.cc

HeaderEnd(d) == CsrcEnd(d) + IF d.x THEN 4 + 4 * d.words ELSE 0

Padding(d) == IF ~d.p THEN 0 ELSE IF d.last < 1 THEN 1 ELSE d.last

(* parse returns true. *)
Parses(d) ==
  /\ d.size >= RTP_HEADER /\ d.v = 2
  /\ d.size >= CsrcEnd(d)
  /\ d.x => d.size >= CsrcEnd(d) + 4
  /\ d.size >= HeaderEnd(d)
  /\ d.p => d.size >= HeaderEnd(d) + 1
  /\ d.size >= HeaderEnd(d) + Padding(d)

PayloadSize(d) == d.size - HeaderEnd(d) - Padding(d)

(* create_instance returns a packet. *)
Creates(d) == PayloadSize(d) \in 1 .. MAX_PAYLOAD_BYTES
=============================================================================
