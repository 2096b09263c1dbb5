------------------------------- MODULE MCH264 -------------------------------
(* Instances of RtpDepacketizerH264 for TLC. *)
EXTENDS RtpDepacketizerH264

Unit(type, len, offset) == [type |-> type, len |-> len, offset |-> offset]

Of(kind, nals, marker) ==
  [kind |-> kind, nals |-> nals, start |-> FALSE, end |-> FALSE,
   broken |-> FALSE, marker |-> marker]

Single1(type, len, offset, marker) == Of("single", <<Unit(type, len, offset)>>, marker)
First(type, len, offset)  == [Of("fua", <<Unit(type, len, offset)>>, FALSE) EXCEPT !.start = TRUE]
Middle(type, len, offset) == Of("fua", <<Unit(type, len, offset)>>, FALSE)
Last(type, len, offset, marker) ==
  [Of("fua", <<Unit(type, len, offset)>>, marker) EXCEPT !.end = TRUE]

(* A slice before the stream can be decoded, then a random access point    *)
(* with its parameter sets aggregated, and frames of one unit, of two, of  *)
(* fragments and of an aggregation.  The longest takes all of 34 bytes.    *)
Access ==
  <<Of("stapa", <<Unit(SPS, 2, 0), Unit(PPS, 2, 6)>>, FALSE),
    First(IDR, 6, 12), Middle(IDR, 6, 23), Last(IDR, 5, 29, TRUE)>>
Frames ==
  <<Single1(1, 8, 0, FALSE), Single1(1, 8, 12, TRUE),
    First(1, 8, 0), Last(1, 8, 13, TRUE)>>

(* Packets that parse refuses, an aggregation that breaks off, and a unit  *)
(* and a frame that are too long.                                          *)
Untidy ==
  <<[Of("stapa", <<Unit(1, 4, 0), Unit(1, 4, 8)>>, TRUE) EXCEPT !.broken = TRUE],
    First(1, 8, 0), Of("error", <<>>, FALSE), Of("empty", <<>>, TRUE),
    Middle(1, 30, 13), Last(1, 4, 0, TRUE),
    Single1(1, 20, 0, FALSE), Single1(1, 20, 24, TRUE),
    Single1(1, 8, 0, TRUE)>>

(* Parameter sets and access point in packets of their own. *)
Again == <<Single1(SPS, 2, 0, FALSE), Single1(PPS, 2, 6, FALSE),
           Single1(IDR, 4, 12, TRUE), Single1(1, 8, 0, TRUE)>>

Packets ==
  <<Single1(1, 8, 0, TRUE)>> \o Access \o Frames
    \o <<Of("stapa", <<Unit(1, 4, 0), Unit(1, 4, 8)>>, TRUE)>> \o Untidy \o Again
=============================================================================
