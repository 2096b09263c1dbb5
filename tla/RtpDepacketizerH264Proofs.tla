--------------------- MODULE RtpDepacketizerH264Proofs ----------------------
(* For every stream of packets and every pattern of losses: m_nalu and     *)
(* m_frame of RtpDepacketizerH264 are never overrun, and a frame of which  *)
(* nothing is lost is delivered whole.                                     *)
EXTENDS RtpDepacketizerH264, TLAPS

LEMMA PacketFacts ==
  /\ Len(Stream) \in Nat
  /\ \A i \in Index :
       /\ Stream[i] \in Packet
       /\ \A k \in 1 .. Len(Stream[i].nals) :
            /\ <<i, k>> \in Piece /\ Stream[i].nals[k].len \in Nat
            /\ Stream[i].nals[k].offset \in Nat
<1>1. Len(Stream) \in Nat /\ \A i \in Index : Stream[i] \in Packet
  BY StreamAssumption DEF Index
<1>2. ASSUME NEW i \in Index, NEW k \in 1 .. Len(Stream[i].nals)
      PROVE  /\ <<i, k>> \in Piece /\ Stream[i].nals[k].len \in Nat
             /\ Stream[i].nals[k].offset \in Nat
  <2>1. Stream[i].nals \in Seq([type : NaluType, len : Nat \ {0}, offset : Nat])
    BY <1>1 DEF Packet
  <2>2. Stream[i].nals[k] \in [type : NaluType, len : Nat \ {0}, offset : Nat]
    <3> DEFINE s == Stream[i].nals
               S == [type : NaluType, len : Nat \ {0}, offset : Nat]
    <3>1. s \in Seq(S) /\ k \in 1 .. Len(s)
      BY <2>1
    <3> HIDE DEF s, S
    <3>2. s[k] \in S
      BY <3>1
    <3> QED BY <3>2 DEF s, S
  <2>3. <<i, k>> \in Piece
    BY DEF Piece
  <2> QED BY <2>2, <2>3
<1> QED BY <1>1, <1>2

LEMMA PieceLenType ==
  ASSUME NEW i \in Index, NEW k \in 1 .. Len(Stream[i].nals)
  PROVE  <<i, k>> \in Piece /\ PieceLen(<<i, k>>) \in Nat
<1>1. Stream[i].nals[k].len \in Nat /\ <<i, k>> \in Piece
  BY PacketFacts
<1>2. PieceLen(<<i, k>>) \in {Stream[i].nals[k].len + n : n \in {0, 4, 5}}
  BY <1>1 DEF PieceLen, STARTCODE_LENGTH
<1> QED BY <1>1, <1>2

(* parse is busy with a packet, and comes to one of its units. *)
PlaceInv ==
  /\ next \in 1 .. Len(Stream) + 1 /\ received \subseteq Index
  /\ todo \in Nat /\ (todo > 0 => next - 1 \in Index)

OutType == {NoFrame} \cup OutFrame

(* What decode_nalu and the two error exits change, in bounds. *)
FrameOK ==
  /\ frame \in Seq(Piece) /\ frameLen \in 0 .. MaxFrameSize
  /\ packets \in Nat /\ sentries \subseteq {SPS, PPS, IDR}
  /\ out \in OutType /\ lastOut \in Nat

NaluOK == nalu \in Seq(Piece) /\ naluLen \in 0 .. MaxFrameSize

TypeInv == PlaceInv /\ FrameOK /\ NaluOK /\ syncs \in Nat

LEMMA NoFrameType == NoFrame \in OutType
  BY DEF OutType

LEMMA DecodeKeepsType ==
  ASSUME TypeInv, todo > 0, NEW s \in Seq(Piece), NEW len \in 0 .. MaxFrameSize,
         NEW end \in BOOLEAN, DecNalu(s, len, end)
  PROVE  FrameOK' /\ NaluOK'
<1> USE DEF TypeInv, FrameOK
<1>1. NaluOK'
  BY StreamAssumption DEF DecNalu, NaluOK
<1>2. PICK type \in NaluTypes(s) : DecodeNalu(s, len, type, end)
  BY DEF DecNalu
<1> DEFINE tooLarge == len > MaxFrameSize - frameLen
           newLen   == IF tooLarge THEN MaxFrameSize ELSE frameLen + len
<1>3. newLen \in 0 .. MaxFrameSize /\ frame \o s \in Seq(Piece)
  BY StreamAssumption
<1>4. next - 1 \in Nat
  BY DEF PlaceInv
<1>5. CASE ~Passes(type)
  BY <1>1, <1>2, <1>5, NoFrameType DEF DecodeNalu
<1>6. CASE Passes(type) /\ ~(end \/ tooLarge)
  <2>1. /\ sentries' = sentries \ {type}
        /\ frame' = frame \o s /\ frameLen' = newLen
        /\ out' = NoFrame /\ packets' = packets /\ lastOut' = lastOut
    BY <1>2, <1>6 DEF DecodeNalu
  <2> QED BY <1>1, <1>3, <2>1, NoFrameType
<1>7. CASE Passes(type) /\ (end \/ tooLarge)
  <2>1. /\ sentries' = sentries \ {type}
        /\ frame' = <<>> /\ frameLen' = 0 /\ packets' = 0
        /\ out' = [parts |-> frame \o s, sync |-> type = IDR,
                   incomplete |-> tooLarge, packets |-> packets]
        /\ lastOut' = IF sentries' = {} THEN next - 1 ELSE lastOut
    BY <1>2, <1>7 DEF DecodeNalu, FrameLenReset
  <2>2. out' \in OutType
    BY <1>3, <2>1 DEF OutType, OutFrame
  <2>3. frame' \in Seq(Piece) /\ frameLen' \in 0 .. MaxFrameSize
    BY <2>1, StreamAssumption
  <2> QED BY <1>1, <1>4, <2>1, <2>2, <2>3
<1> HIDE DEF tooLarge, newLen
<1> QED BY <1>5, <1>6, <1>7

LEMMA GiveUpKeepsType == TypeInv /\ (GiveUp \/ Fail) => FrameOK' /\ NaluOK'
<1>1. <<>> \in Seq(Piece) /\ 0 \in 0 .. MaxFrameSize
  BY StreamAssumption
<1>2. TypeInv /\ GiveUp => FrameOK' /\ NaluOK'
  BY <1>1, NoFrameType DEF TypeInv, GiveUp, FrameOK, NaluOK
<1>3. TypeInv /\ Fail => FrameOK' /\ NaluOK'
  BY <1>1, NoFrameType DEF TypeInv, Fail, FrameOK, NaluOK
<1> QED BY <1>2, <1>3

(* The three kinds of packet that carry pieces. *)
LEMMA AddedType ==
  ASSUME TypeInv, NEW i \in Index, NEW k \in 1 .. Len(Stream[i].nals),
         FitsNalu(<<i, k>>)
  PROVE  /\ Added(<<i, k>>) \in Seq(Piece)
         /\ naluLen + PieceLen(<<i, k>>) \in 0 .. MaxFrameSize
<1>1. <<i, k>> \in Piece /\ PieceLen(<<i, k>>) \in Nat
  BY PieceLenType
<1> QED BY <1>1, StreamAssumption DEF TypeInv, NaluOK, Added, FitsNalu

LEMMA TypeStep == TypeInv /\ [Next]_vars => TypeInv'
<1> SUFFICES ASSUME TypeInv, [Next]_vars PROVE TypeInv'
  OBVIOUS
<1> DEFINE i == next - 1
<1>0. /\ todo > 0 => i \in Index /\ Stream[i] \in Packet
      /\ todo > 0 /\ Stream[i].kind \in {"single", "fua"} => Len(Stream[i].nals) = 1
  BY PacketFacts, StreamAssumption DEF TypeInv, PlaceInv, Index
<1>1. CASE Receive
  <2>0. received' = (IF next > 1 /\ Stream[next - 1].marker THEN {} ELSE received)
                      \cup {next}
    BY <1>1 DEF Receive
  <2>1. next \in Index /\ next' = next + 1 /\ received' \subseteq received \cup {next}
        /\ todo' \in {0, 1} /\ syncs' = syncs
    BY <1>1, <2>0 DEF Receive
  <2>2. PlaceInv'
    BY <2>1, PacketFacts DEF TypeInv, PlaceInv, Index
  <2>3. packets' \in Nat
    BY <1>1 DEF Receive, TypeInv, FrameOK
  <2>4. out' \in OutType
    BY <1>1, NoFrameType DEF Receive
  <2>5. FrameOK' /\ NaluOK'
    BY <1>1, <2>3, <2>4 DEF Receive, TypeInv, FrameOK, NaluOK
  <2> QED BY <2>1, <2>2, <2>5 DEF TypeInv
<1>2. CASE Single
  <2>0. todo > 0 /\ Stream[i].kind = "single"
    BY <1>2 DEF Single, Current
  <2>1. i \in Index /\ 1 \in 1 .. Len(Stream[i].nals)
        /\ Current.marker \in BOOLEAN /\ todo > 0
    <3>1. i \in Index /\ Stream[i] \in Packet /\ Len(Stream[i].nals) = 1
      BY <1>0, <2>0
    <3>2. Stream[i].marker \in BOOLEAN
      BY <3>1 DEF Packet
    <3> QED BY <2>0, <3>1, <3>2 DEF Current
  <2>2. FrameOK' /\ NaluOK'
    <3>1. CASE FitsNalu(<<i, 1>>)
      BY <1>2, <2>1, <3>1, AddedType, DecodeKeepsType DEF Single
    <3>2. CASE ~FitsNalu(<<i, 1>>)
      BY <1>2, <3>2, GiveUpKeepsType DEF Single
    <3> QED BY <3>1, <3>2
  <2> QED BY <1>2, <2>2 DEF Single, TypeInv, PlaceInv
<1>3. CASE StapA
  <2>1. i \in Index /\ todo \in 1 .. Len(Stream[i].nals)
        /\ Current.marker \in BOOLEAN
    BY <1>0, <1>3 DEF StapA, Current, Packet, TypeInv, PlaceInv
  <2>2. FrameOK' /\ NaluOK'
    <3>1. CASE FitsNalu(<<i, todo>>)
      BY <1>3, <2>1, <3>1, AddedType, DecodeKeepsType DEF StapA
    <3>2. CASE ~FitsNalu(<<i, todo>>)
      BY <1>3, <3>2, GiveUpKeepsType DEF StapA
    <3> QED BY <3>1, <3>2
  <2>3. todo' \in Nat /\ next' = next /\ received' = received /\ syncs' = syncs
    BY <1>3 DEF StapA, TypeInv, PlaceInv
  <2> QED BY <2>1, <2>2, <2>3 DEF TypeInv, PlaceInv
<1>4. CASE FuA
  <2>0. todo > 0 /\ Stream[i].kind = "fua"
    BY <1>4 DEF FuA, Current
  <2>1. i \in Index /\ 1 \in 1 .. Len(Stream[i].nals)
        /\ Current.marker \in BOOLEAN /\ todo > 0
    <3>1. i \in Index /\ Stream[i] \in Packet /\ Len(Stream[i].nals) = 1
      BY <1>0, <2>0
    <3>2. Stream[i].marker \in BOOLEAN
      BY <3>1 DEF Packet
    <3> QED BY <2>0, <3>1, <3>2 DEF Current
  <2>2. FrameOK' /\ NaluOK'
    <3>1. CASE FitsNalu(<<i, 1>>)
      <4> DEFINE s == Added(<<i, 1>>)
                 len == naluLen + PieceLen(<<i, 1>>)
      <4>1. s \in Seq(Piece) /\ len \in 0 .. MaxFrameSize
        BY <2>1, <3>1, AddedType
      <4>2. CASE DecNalu(s, len, Current.marker)
        BY <2>1, <4>1, <4>2, DecodeKeepsType
      <4>3. CASE /\ nalu' = s /\ naluLen' = len
                 /\ UNCHANGED <<frame, frameLen, packets, sentries, out, lastOut>>
        BY <4>1, <4>3 DEF TypeInv, FrameOK, NaluOK
      <4> QED BY <1>4, <3>1, <4>2, <4>3 DEF FuA
    <3>2. CASE ~FitsNalu(<<i, 1>>)
      BY <1>4, <3>2, GiveUpKeepsType DEF FuA
    <3> QED BY <3>1, <3>2
  <2> QED BY <1>4, <2>2 DEF FuA, TypeInv, PlaceInv
<1>5. CASE Refuse
  <2>1. FrameOK' /\ NaluOK'
    BY <1>5, GiveUpKeepsType DEF Refuse
  <2> QED BY <1>5, <2>1 DEF Refuse, TypeInv, PlaceInv
<1>6. CASE Lose
  <2>1. PlaceInv'
    BY <1>6, PacketFacts DEF Lose, TypeInv, PlaceInv, Index
  <2>2. FrameOK' /\ NaluOK' /\ syncs' \in Nat
    BY <1>6, NoFrameType DEF Lose, TypeInv, FrameOK, NaluOK
  <2> QED BY <2>1, <2>2 DEF TypeInv
<1>7. CASE SetSyncPoint
  BY <1>7, StreamAssumption
     DEF SetSyncPoint, TypeInv, PlaceInv, FrameOK, NaluOK, OutType
<1>8. CASE UNCHANGED vars
  BY <1>8 DEF vars, TypeInv, PlaceInv, FrameOK, NaluOK
<1> QED BY <1>1, <1>2, <1>3, <1>4, <1>5, <1>6, <1>7, <1>8 DEF Next

LEMMA TypeInit == Init => TypeInv
<1> SUFFICES ASSUME Init PROVE TypeInv
  OBVIOUS
<1>1. PlaceInv /\ syncs \in Nat
  BY PacketFacts DEF Init, PlaceInv
<1>2. FrameOK /\ NaluOK
  BY StreamAssumption DEF Init, FrameOK, NaluOK, OutType
<1> QED BY <1>1, <1>2 DEF TypeInv

(* The two buffers are never overrun, whatever the packets carry and       *)
(* whatever is lost (CHECK_SIZE and the first test of decode_nalu).        *)
THEOREM BuffersBounded == Spec => []TypeOK
<1>1. TypeInv => TypeOK
  BY PacketFacts DEF TypeInv, TypeOK, PlaceInv, FrameOK, NaluOK, OutType
<1> QED BY <1>1, TypeInit, TypeStep, PTL DEF Spec
-----------------------------------------------------------------------------
(* What m_frame and m_nalu hold while a frame arrives of which nothing has *)
(* been lost.                                                              *)
Whole(a, b) ==
  /\ Sent(a, b) /\ WellFormed(a, b)
  /\ Stream[a - 1].marker /\ ~Stream[a - 1].broken
  /\ \A piece \in PiecesOf(a, b) : FitsFrame(piece)

(* Its packets up to the one being parsed have arrived, and the frame      *)
(* before it was completed by its marker.                                  *)
Running(a, b) ==
  /\ Whole(a, b) /\ lastOut = a - 1
  /\ next \in a .. b + 1
  /\ (next = a => todo = 0) /\ (next = b + 1 => todo > 0)
  /\ a .. next - 1 \subseteq received

Done(a) ==
  {p \in Piece : /\ a <= p[1] /\ p[1] < next
                 /\ p[1] = next - 1 /\ todo > 0 => p[2] < todo}

Collected(a, b) ==
  /\ todo > 0 => todo <= Len(Stream[next - 1].nals)
  /\ packets = next - a
  /\ Consists(frame \o nalu, Done(a))
  /\ \A q \in PiecesOf(a, b) \ Done(a) : frameLen + naluLen <= Offset(q)

(* The packet that completes a frame with its marker leaves nothing behind,*)
(* although a unit of an aggregation packet may end the frame early.       *)
Empty == /\ frame = <<>> /\ frameLen = 0 /\ nalu = <<>> /\ naluLen = 0
         /\ packets = 0

Complete(i) == Stream[i].marker /\ ~Stream[i].broken

StartInv ==
  lastOut > 0 =>
    /\ sentries = {} /\ lastOut < next
    /\ lastOut = next - 1 /\ todo = 0 /\ Complete(lastOut) => Empty
    /\ lastOut = next - 1 /\ todo > 0 =>
         /\ Stream[lastOut].kind = "stapa"
         /\ ~Stream[lastOut].broken => todo <= Len(Stream[lastOut].nals)

CollectInv ==
  /\ TypeInv /\ received \subseteq 1 .. next - 1 /\ StartInv
  /\ \A a \in Index \ {1}, b \in Index : Running(a, b) => Collected(a, b)

LEMMA PieceShape ==
  \A p \in Piece : /\ p[1] \in Index /\ p[2] \in 1 .. Len(Stream[p[1]].nals)
                  /\ p = <<p[1], p[2]>>
  BY DEF Piece

LEMMA AppendFacts ==
  ASSUME NEW s \in Seq(Piece), NEW p \in Piece
  PROVE  /\ Append(s, p) \in Seq(Piece) /\ Len(Append(s, p)) = Len(s) + 1
         /\ Append(s, p)[Len(s) + 1] = p
         /\ \A j \in 1 .. Len(s) : Append(s, p)[j] = s[j]
  OBVIOUS

LEMMA ConcatAppend ==
  ASSUME NEW s \in Seq(Piece), NEW t \in Seq(Piece), NEW p \in Piece
  PROVE  s \o Append(t, p) = Append(s \o t, p)
  OBVIOUS

LEMMA AppendConsists ==
  ASSUME NEW s \in Seq(Piece), NEW p \in Piece, NEW S \in SUBSET Piece,
         Consists(s, S), \A q \in S : Before(q, p)
  PROVE  Consists(Append(s, p), S \cup {p})
<1> DEFINE t == Append(s, p)
<1>1. /\ Len(t) = Len(s) + 1 /\ t[Len(s) + 1] = p /\ Len(s) \in Nat
      /\ \A j \in 1 .. Len(s) : t[j] = s[j]
  BY AppendFacts
<1> HIDE DEF t
<1>2. \A j \in 1 .. Len(t) : j \in 1 .. Len(s) \/ j = Len(s) + 1
  BY <1>1
<1>3. \A j \in 1 .. Len(t) : t[j] \in S \cup {p}
  BY <1>1, <1>2 DEF Consists
<1>4. ASSUME NEW q \in S \cup {p} PROVE \E j \in 1 .. Len(t) : t[j] = q
  <2>1. CASE q \in S
    <3>1. PICK j \in 1 .. Len(s) : s[j] = q
      BY <2>1 DEF Consists
    <3> QED BY <1>1, <3>1
  <2>2. CASE q = p
    BY <1>1, <2>2
  <2> QED BY <2>1, <2>2
<1>5. ASSUME NEW j \in 1 .. Len(t), NEW k \in 1 .. Len(t), j < k
      PROVE  Before(t[j], t[k])
  <2>1. j \in 1 .. Len(s) /\ t[j] = s[j] /\ s[j] \in S
    BY <1>1, <1>2, <1>5 DEF Consists
  <2>2. CASE k \in 1 .. Len(s)
    BY <1>1, <1>5, <2>1, <2>2 DEF Consists
  <2>3. CASE k = Len(s) + 1
    BY <1>1, <2>1, <2>3
  <2> QED BY <1>2, <2>2, <2>3
<1>6. Consists(t, S \cup {p})
  BY <1>3, <1>4, <1>5 DEF Consists
<1> QED BY <1>6 DEF t

(* The unit s is decoded when no sentry is up and the frame has room.      *)
LEMMA DecodeFits ==
  ASSUME TypeInv, sentries = {}, NEW s \in Seq(Piece), NEW len \in Nat, NEW end \in BOOLEAN,
         frameLen + len <= MaxFrameSize, DecNalu(s, len, end)
  PROVE  /\ nalu' = <<>> /\ naluLen' = 0 /\ sentries' = {}
         /\ end => /\ frame' = <<>> /\ frameLen' = 0 /\ packets' = 0
                   /\ lastOut' = next - 1 /\ out'.parts = frame \o s
                   /\ ~out'.incomplete /\ out'.packets = packets /\ out' # NoFrame
         /\ ~end => /\ frame' = frame \o s /\ frameLen' = frameLen + len
                    /\ packets' = packets /\ lastOut' = lastOut
<1>1. PICK type \in NaluTypes(s) : DecodeNalu(s, len, type, end)
  BY DEF DecNalu
<1>2. Passes(type) /\ sentries \ {type} = {}
  BY DEF Passes
<1>3. frameLen \in Nat /\ MaxFrameSize \in Nat
  BY StreamAssumption DEF TypeInv, FrameOK
<1>4. ~(len > MaxFrameSize - frameLen)
  BY <1>3
<1>5. nalu' = <<>> /\ naluLen' = 0
  BY DEF DecNalu
<1>6. sentries' = {}
  BY <1>1, <1>2 DEF DecodeNalu
<1>7. CASE end
  <2>1. /\ frame' = <<>> /\ frameLen' = 0 /\ packets' = 0
        /\ lastOut' = next - 1
        /\ out' = [parts |-> frame \o s, sync |-> type = IDR,
                   incomplete |-> len > MaxFrameSize - frameLen, packets |-> packets]
    BY <1>1, <1>2, <1>6, <1>7 DEF DecodeNalu, FrameLenReset
  <2>2. out' \in OutFrame
    <3>1. frame \o s \in Seq(Piece) /\ packets \in Nat
      BY DEF TypeInv, FrameOK
    <3> QED BY <2>1, <3>1 DEF OutFrame
  <2> QED BY <1>4, <1>5, <1>6, <1>7, <2>1, <2>2, NoFrameAssumption
<1>8. CASE ~end
  BY <1>1, <1>2, <1>4, <1>5, <1>6, <1>8 DEF DecodeNalu
<1> QED BY <1>7, <1>8

(* A step of parse takes the next piece of a frame that is being collected:*)
(* the last one of a marker's packet delivers the frame.                   *)
TakesPiece(a, p) ==
  LET last == p[2] = Len(Stream[p[1]].nals)
      s    == frame \o nalu
  IN /\ todo' = IF last THEN 0 ELSE todo + 1
     /\ sentries' = {}
     /\ IF last /\ Stream[p[1]].marker
        THEN /\ out'.parts = Append(s, p) /\ ~out'.incomplete
             /\ out'.packets = packets /\ out' # NoFrame
             /\ lastOut' = next - 1 /\ Empty'
        ELSE /\ frame' \o nalu' = Append(s, p)
             /\ frameLen' + naluLen' = frameLen + naluLen + PieceLen(p)
             /\ packets' = packets /\ lastOut' = lastOut

LEMMA RunningFacts ==
  ASSUME CollectInv, NEW a \in Index \ {1}, NEW b \in Index, Running(a, b),
         Collected(a, b), todo > 0
  PROVE  LET n == next - 1
         IN /\ n \in a .. b /\ n \in Index /\ a - 1 \in Nat \ {0}
            /\ sentries = {} /\ todo \in 1 .. Len(Stream[n].nals)
            /\ Stream[n].kind \in {"single", "stapa", "fua"} /\ ~Stream[n].broken
            /\ Stream[n].kind # "stapa" => Len(Stream[n].nals) = 1
            /\ Stream[n].marker <=> n = b
            /\ Stream[n].kind = "fua" /\ n = b => Stream[n].end
            /\ Stream[n].marker \in BOOLEAN
<1> DEFINE n == next - 1
<1>1. a \in Nat \ {0, 1} /\ b \in Nat /\ Len(Stream) \in Nat /\ next \in Nat /\ todo \in Nat
  BY PacketFacts DEF Index, CollectInv, TypeInv, PlaceInv
<1>2. n \in a .. b /\ n \in Index
  BY <1>1 DEF Running, Index
<1>3. Stream[n] \in Packet /\ (Stream[n].kind \in {"single", "fua"} => Len(Stream[n].nals) = 1)
  BY <1>2, PacketFacts, StreamAssumption DEF Index
<1>4. Stream[n].kind \in {"single", "stapa", "fua"} /\ ~Stream[n].broken
  BY <1>2 DEF Running, Whole, WellFormed
<1>5. Stream[n].marker <=> n = b
  BY <1>1, <1>2 DEF Running, Whole, Sent
<1>6. Stream[n].kind = "fua" /\ n = b => Stream[n].end
  BY DEF Running, Whole, WellFormed, Open
<1>7. sentries = {}
  BY <1>1 DEF CollectInv, StartInv, Running
<1>8. Stream[n].marker \in BOOLEAN
  BY <1>3 DEF Packet
<1>9. todo \in 1 .. Len(Stream[n].nals)
  <2>1. Len(Stream[n].nals) \in Nat
    BY <1>3 DEF Packet
  <2> QED BY <1>1, <2>1 DEF Collected
<1> QED BY <1>1, <1>2, <1>3, <1>4, <1>5, <1>6, <1>7, <1>8, <1>9

(* The piece that parse comes to is the first of those still to come.      *)
LEMMA NextPiece ==
  ASSUME CollectInv, NEW a \in Index \ {1}, NEW b \in Index, Running(a, b),
         Collected(a, b), todo > 0
  PROVE  LET p == <<next - 1, todo>>
         IN /\ p \in PiecesOf(a, b) \ Done(a) /\ p \in Piece /\ PieceLen(p) \in Nat
            /\ Offset(p) \in Nat
            /\ \A q \in Done(a) : Before(q, p)
            /\ \A q \in PiecesOf(a, b) \ (Done(a) \cup {p}) :
                 Before(p, q) /\ Offset(p) + PieceLen(p) <= Offset(q)
            /\ frameLen + naluLen + PieceLen(p) <= MaxFrameSize
<1> DEFINE n == next - 1
           p == <<n, todo>>
<1>1. /\ n \in a .. b /\ n \in Index /\ todo \in 1 .. Len(Stream[n].nals)
  BY RunningFacts
<1>2. a \in Nat /\ b \in Nat /\ next \in Nat /\ todo \in Nat
  BY PacketFacts DEF Index, CollectInv, TypeInv, PlaceInv
<1>3. p \in Piece /\ PieceLen(p) \in Nat
  BY <1>1, PieceLenType
<1>4. p \in PiecesOf(a, b) /\ p \notin Done(a)
  BY <1>1, <1>2, <1>3 DEF PiecesOf, Done
<1>5. ASSUME NEW q \in Done(a) PROVE Before(q, p)
  <2>1. q \in Piece /\ q[1] \in Nat /\ q[1] < next /\ (q[1] = n => q[2] < todo)
    BY <1>1, <1>2, PieceShape DEF Done, Index
  <2> QED BY <1>2, <2>1 DEF Before
<1>6. ASSUME NEW q \in PiecesOf(a, b) \ (Done(a) \cup {p})
      PROVE  Before(p, q) /\ Offset(p) + PieceLen(p) <= Offset(q)
  <2>1. /\ q \in Piece /\ q[1] \in a .. b /\ q # p /\ q \notin Done(a)
        /\ q = <<q[1], q[2]>> /\ q[1] \in Nat /\ q[2] \in Nat
    BY <1>6, PieceShape DEF PiecesOf, Index
  <2>2. q[1] >= next \/ (q[1] = n /\ q[2] >= todo)
    BY <1>1, <1>2, <2>1 DEF Done
  <2>3. q[1] = n => q[2] # todo
    BY <2>1
  <2>4. Before(p, q)
    BY <1>2, <2>1, <2>2, <2>3 DEF Before
  <2>5. Sent(a, b) /\ WellFormed(a, b) /\ q \in PiecesOf(a, b)
    BY <1>6 DEF Running, Whole
  <2> QED BY <1>4, <2>4, <2>5, OffsetAssumption
<1>7. Offset(p) \in Nat
  BY <1>1, PacketFacts DEF Offset
<1>8. frameLen + naluLen <= Offset(p) /\ Offset(p) + PieceLen(p) <= MaxFrameSize
  BY <1>4 DEF Collected, Running, Whole, FitsFrame
<1>9. frameLen \in Nat /\ naluLen \in Nat /\ MaxFrameSize \in Nat
  BY StreamAssumption DEF CollectInv, TypeInv, FrameOK, NaluOK
<1>10. frameLen + naluLen + PieceLen(p) <= MaxFrameSize
  BY <1>3, <1>7, <1>8, <1>9
<1> HIDE DEF p
<1>11. /\ p \in PiecesOf(a, b) \ Done(a) /\ p \in Piece /\ PieceLen(p) \in Nat
       /\ Offset(p) \in Nat
       /\ frameLen + naluLen + PieceLen(p) <= MaxFrameSize
  BY <1>3, <1>4, <1>7, <1>10
<1> QED BY <1>5, <1>6, <1>11 DEF p

LEMMA PieceStep ==
  ASSUME CollectInv, NEW a \in Index \ {1}, NEW b \in Index, Running(a, b),
         Collected(a, b), todo > 0, Single \/ StapA \/ FuA \/ Refuse
  PROVE  TakesPiece(a, <<next - 1, todo>>)
<1> DEFINE n == next - 1
           p == <<n, todo>>
           s == frame \o nalu
           last == todo = Len(Stream[n].nals)
           len == naluLen + PieceLen(p)
<1>1. /\ n \in a .. b /\ n \in Index /\ sentries = {} /\ todo \in 1 .. Len(Stream[n].nals)
      /\ Stream[n].kind \in {"single", "stapa", "fua"} /\ ~Stream[n].broken
      /\ Stream[n].kind # "stapa" => Len(Stream[n].nals) = 1
      /\ Stream[n].marker <=> n = b
      /\ Stream[n].kind = "fua" /\ n = b => Stream[n].end
      /\ Stream[n].marker \in BOOLEAN
  BY RunningFacts
<1>2. /\ p \in Piece /\ PieceLen(p) \in Nat
      /\ frameLen + naluLen + PieceLen(p) <= MaxFrameSize
  BY NextPiece
<1>3. /\ TypeInv /\ frame \in Seq(Piece) /\ nalu \in Seq(Piece)
      /\ frameLen \in Nat /\ naluLen \in Nat /\ MaxFrameSize \in Nat
  BY StreamAssumption DEF CollectInv, TypeInv, FrameOK, NaluOK
<1>4. FitsNalu(p) /\ len \in Nat /\ frameLen + len <= MaxFrameSize
      /\ frameLen + len = frameLen + naluLen + PieceLen(p)
  BY <1>2, <1>3 DEF FitsNalu
<1>6. p[1] = n /\ p[2] = todo
  OBVIOUS
<1> HIDE DEF p
<1>5. Added(p) \in Seq(Piece) /\ frame \o Added(p) = Append(s, p) /\ s \in Seq(Piece)
  <2>1. Append(nalu, p) \in Seq(Piece)
    BY <1>2, <1>3, AppendFacts
  <2>2. frame \o Append(nalu, p) = Append(s, p)
    BY <1>2, <1>3, ConcatAppend
  <2> QED BY <1>3, <2>1, <2>2 DEF Added
<1> HIDE DEF s, len
(* The piece ends a unit, which is decoded. *)
<1>7. ASSUME NEW end \in BOOLEAN, DecNalu(Added(p), len, end),
             end <=> last /\ Stream[n].marker,
             todo' = IF last THEN 0 ELSE todo + 1
      PROVE  TakesPiece(a, p)
  <2>1. /\ nalu' = <<>> /\ naluLen' = 0 /\ sentries' = {}
        /\ end => /\ frame' = <<>> /\ frameLen' = 0 /\ packets' = 0
                  /\ lastOut' = next - 1 /\ out'.parts = frame \o Added(p)
                  /\ ~out'.incomplete /\ out'.packets = packets /\ out' # NoFrame
        /\ ~end => /\ frame' = frame \o Added(p) /\ frameLen' = frameLen + len
                   /\ packets' = packets /\ lastOut' = lastOut
    BY <1>1, <1>3, <1>4, <1>5, <1>7, DecodeFits
  <2>2. CASE end
    BY <1>5, <1>6, <1>7, <2>1, <2>2 DEF TakesPiece, Empty, s
  <2>3. CASE ~end
    <3>1. frame' \o nalu' = frame'
      BY <1>5, <2>1, <2>3
    <3>2. frameLen' + naluLen' = frameLen + naluLen + PieceLen(p)
      BY <1>3, <1>4, <2>1, <2>3
    <3>3. ~(last /\ Stream[n].marker)
      BY <1>7, <2>3
    <3> QED BY <1>5, <1>6, <1>7, <2>1, <2>3, <3>1, <3>2, <3>3 DEF TakesPiece, s
  <2> QED BY <2>2, <2>3
<1>8. CASE Single
  <2>1. todo = 1 /\ Stream[n].kind = "single" /\ todo' = 0 /\ last
    BY <1>1, <1>8 DEF Single, Current
  <2>2. DecNalu(Added(p), len, Stream[n].marker)
    BY <1>4, <1>8, <2>1 DEF Single, Current, p, len
  <2> QED BY <1>1, <1>7, <2>1, <2>2 DEF p
<1>9. CASE StapA
  <2> DEFINE l == last /\ ~Stream[n].broken
  <2>1. DecNalu(Added(p), len, l /\ Stream[n].marker) /\ todo' = IF l THEN 0 ELSE todo + 1
    BY <1>4, <1>9 DEF StapA, Current, p, len
  <2>2. l = last
    BY <1>1
  <2>3. (l /\ Stream[n].marker) \in BOOLEAN
    OBVIOUS
  <2>4. TakesPiece(a, p)
    BY <1>7, <2>1, <2>2, <2>3
  <2> QED BY <2>4 DEF p
<1>10. CASE FuA
  <2>1. todo = 1 /\ Stream[n].kind = "fua" /\ todo' = 0 /\ last
    BY <1>1, <1>10 DEF FuA, Current
  <2>2. CASE DecNalu(Added(p), len, Stream[n].marker)
    BY <1>1, <1>7, <2>1, <2>2 DEF p
  <2>3. CASE ~Stream[n].end
    <3>1. /\ nalu' = Added(p) /\ naluLen' = len
          /\ UNCHANGED <<frame, frameLen, packets, sentries, out, lastOut>>
      BY <1>4, <1>10, <2>1, <2>3 DEF FuA, Current, p, len
    <3>2. ~Stream[n].marker
      BY <1>1, <2>1, <2>3
    <3>3. frame' \o nalu' = Append(s, p)
      BY <1>5, <3>1
    <3>4. frameLen' + naluLen' = frameLen + naluLen + PieceLen(p)
      BY <1>4, <3>1
    <3>5. TakesPiece(a, p)
      BY <1>1, <1>6, <2>1, <3>1, <3>2, <3>3, <3>4 DEF TakesPiece, s
    <3> QED BY <3>5 DEF p
  <2> QED BY <1>4, <1>10, <2>1, <2>2, <2>3 DEF FuA, Current, p, len
<1>11. CASE Refuse
  BY <1>1, <1>11 DEF Refuse, Current
<1> QED BY <1>8, <1>9, <1>10, <1>11

(* What has been taken once parse has moved on. *)
LEMMA DoneStep ==
  ASSUME CollectInv, NEW a \in Index \ {1}, NEW b \in Index, Running(a, b),
         Collected(a, b), todo > 0, next' = next,
         todo' = IF todo = Len(Stream[next - 1].nals) THEN 0 ELSE todo + 1
  PROVE  Done(a)' = Done(a) \cup {<<next - 1, todo>>}
<1> DEFINE n == next - 1
           p == <<n, todo>>
<1>1. /\ n \in a .. b /\ n \in Index /\ todo \in 1 .. Len(Stream[n].nals)
      /\ Len(Stream[n].nals) \in Nat
  BY RunningFacts, PacketFacts DEF Packet
<1>2. a \in Nat /\ b \in Nat /\ next \in Nat /\ todo \in Nat
  BY PacketFacts DEF Index, CollectInv, TypeInv, PlaceInv
<1>3. p \in Piece
  BY <1>1, PieceLenType
<1>4. ASSUME NEW q \in Piece
      PROVE  q \in Done(a)' <=> q \in Done(a) \/ q = p
  <2>1. /\ q[1] \in Nat /\ q[2] \in 1 .. Len(Stream[q[1]].nals) /\ q = <<q[1], q[2]>>
        /\ Len(Stream[q[1]].nals) \in Nat
    BY PieceShape, PacketFacts DEF Index, Packet
  <2>2. CASE q[1] # n
    <3>1. q # p
      BY <2>2
    <3> QED BY <1>2, <2>1, <2>2, <3>1 DEF Done
  <2>3. CASE q[1] = n
    <3>1. q = p <=> q[2] = todo
      BY <2>1, <2>3
    <3>2. q \in Done(a) <=> q[2] < todo
      BY <1>1, <1>2, <2>3 DEF Done
    <3>3. CASE todo = Len(Stream[n].nals)
      <4>1. q \in Done(a)'
        BY <1>1, <1>2, <2>3, <3>3 DEF Done
      <4> QED BY <1>2, <2>1, <2>3, <3>1, <3>2, <3>3, <4>1
    <3>4. CASE todo # Len(Stream[n].nals)
      <4>1. q \in Done(a)' <=> q[2] < todo + 1
        BY <1>1, <1>2, <2>3, <3>4 DEF Done
      <4> QED BY <1>2, <2>1, <3>1, <3>2, <4>1
    <3> QED BY <3>3, <3>4
  <2> QED BY <2>2, <2>3
<1>5. Done(a) \subseteq Piece /\ Done(a)' \subseteq Piece
  BY DEF Done
<1> HIDE DEF p
<1>6. Done(a)' = Done(a) \cup {p}
  BY <1>3, <1>4, <1>5
<1> QED BY <1>6 DEF p

(* A unit decoded while no frame or another one was completed last.        *)
LEMMA DecodeStart ==
  ASSUME TypeInv, StartInv, next - 1 \in Nat \ {0}, NEW s, NEW len, NEW end \in BOOLEAN,
         DecNalu(s, len, end)
  PROVE  /\ lastOut' \in {lastOut, next - 1}
         /\ lastOut' > 0 => sentries' = {}
         /\ end /\ lastOut' = next - 1 => Empty'
<1>1. PICK type \in NaluTypes(s) : DecodeNalu(s, len, type, end)
  BY DEF DecNalu
<1>2. nalu' = <<>> /\ naluLen' = 0
  BY DEF DecNalu
<1>3. lastOut > 0 => sentries = {} /\ Passes(type)
  BY DEF StartInv, Passes
<1>4. CASE ~Passes(type)
  <2>1. lastOut' = lastOut
    BY <1>1, <1>4 DEF DecodeNalu
  <2>2. lastOut = 0
    BY <1>3, <1>4 DEF TypeInv, FrameOK
  <2> QED BY <2>1, <2>2
<1>5. CASE Passes(type) /\ UNCHANGED <<packets, lastOut>> /\ ~end
  <2>1. sentries' = sentries \ {type}
    BY <1>1, <1>5 DEF DecodeNalu
  <2> QED BY <1>3, <1>5, <2>1
<1>6. CASE /\ Passes(type) /\ sentries' = sentries \ {type}
           /\ frame' = <<>> /\ frameLen' = 0 /\ packets' = 0
           /\ lastOut' = IF sentries' = {} THEN next - 1 ELSE lastOut
  BY <1>2, <1>3, <1>6 DEF Empty
<1> QED BY <1>1, <1>4, <1>5, <1>6 DEF DecodeNalu, FrameLenReset

PieceActions == Single \/ StapA \/ FuA \/ Refuse

LEMMA StartPieceStep ==
  ASSUME TypeInv, StartInv, PieceActions
  PROVE  /\ next' = next /\ received' = received /\ todo > 0
         /\ lastOut' \in {lastOut, next - 1} /\ StartInv'
<1> DEFINE n == next - 1
<1>1. /\ next' = next /\ received' = received /\ todo > 0
  BY DEF PieceActions, Single, StapA, FuA, Refuse
<1>2. /\ n \in Index /\ n \in Nat \ {0} /\ next \in Nat /\ todo \in Nat
      /\ Stream[n].marker \in BOOLEAN /\ Stream[n].broken \in BOOLEAN
      /\ Len(Stream[n].nals) \in Nat
  BY <1>1, PacketFacts DEF TypeInv, PlaceInv, Index, Packet
<1>3. lastOut \in Nat
  BY DEF TypeInv, FrameOK
<1> SUFFICES /\ lastOut' \in {lastOut, n}
             /\ lastOut' > 0 => sentries' = {}
             /\ lastOut' = n /\ todo' = 0 /\ Complete(n) => Empty'
             /\ lastOut' = n /\ todo' > 0 =>
                  /\ Stream[n].kind = "stapa"
                  /\ ~Stream[n].broken => todo' <= Len(Stream[n].nals)
  <2>1. lastOut' > 0 => lastOut' < next
    BY <1>2, <1>3 DEF StartInv
  <2> QED BY <1>1, <2>1 DEF StartInv
<1>4. GiveUp => /\ lastOut' = lastOut /\ Empty' /\ (lastOut' > 0 => sentries' = {})
  BY DEF GiveUp, Empty, StartInv
<1>5. CASE Single
  <2>1. todo' = 0
    BY <1>5 DEF Single
  <2>2. CASE DecNalu(Added(<<n, 1>>), naluLen + PieceLen(<<n, 1>>), Stream[n].marker)
    BY <1>2, <2>1, <2>2, DecodeStart DEF Complete
  <2> QED BY <1>4, <1>5, <2>1, <2>2 DEF Single, Current
<1>6. CASE StapA
  <2> DEFINE last == todo = Len(Stream[n].nals) /\ ~Stream[n].broken
             len == naluLen + PieceLen(<<n, todo>>)
  <2>1. Stream[n].kind = "stapa" /\ todo <= Len(Stream[n].nals)
    BY <1>6 DEF StapA, Current
  <2>2. CASE DecNalu(Added(<<n, todo>>), len, last /\ Stream[n].marker)
             /\ todo' = IF last THEN 0 ELSE todo + 1
    <3>1. (last /\ Stream[n].marker) \in BOOLEAN
      OBVIOUS
    <3>2. /\ lastOut' \in {lastOut, n} /\ (lastOut' > 0 => sentries' = {})
          /\ last /\ Stream[n].marker /\ lastOut' = n => Empty'
      BY <1>2, <2>2, <3>1, DecodeStart
    <3>3. todo' = 0 => last
      BY <1>2, <2>2
    <3>4. todo' > 0 /\ ~Stream[n].broken => todo' <= Len(Stream[n].nals)
      BY <1>2, <2>1, <2>2
    <3> QED BY <2>1, <3>2, <3>3, <3>4 DEF Complete
  <2>3. CASE GiveUp /\ todo' = 0
    BY <1>4, <2>3
  <2> QED BY <1>6, <2>2, <2>3 DEF StapA, Current
<1>7. CASE FuA
  <2>1. todo' = 0 /\ Stream[n].kind = "fua"
    BY <1>7 DEF FuA, Current
  <2>2. CASE DecNalu(Added(<<n, 1>>), naluLen + PieceLen(<<n, 1>>), Stream[n].marker)
    BY <1>2, <2>1, <2>2, DecodeStart DEF Complete
  <2>3. CASE UNCHANGED <<sentries, lastOut>>
    BY <1>1, <1>2, <1>3, <2>1, <2>3 DEF StartInv
  <2> QED BY <1>4, <1>7, <2>1, <2>2, <2>3 DEF FuA, Current
<1>8. CASE Refuse
  <2>1. /\ UNCHANGED <<sentries, lastOut>> /\ todo' = 0
        /\ Stream[n].kind = "stapa" => todo > Len(Stream[n].nals)
    BY <1>2, <1>8 DEF Refuse, Fail, Current
  <2> QED BY <1>1, <1>2, <1>3, <2>1 DEF StartInv, Complete
<1> QED BY <1>5, <1>6, <1>7, <1>8 DEF PieceActions

LEMMA StartStep == TypeInv /\ StartInv /\ [Next]_vars => StartInv'
<1> SUFFICES ASSUME TypeInv, StartInv, [Next]_vars PROVE StartInv'
  OBVIOUS
<1>1. next \in Nat /\ lastOut \in Nat
  BY DEF TypeInv, PlaceInv, FrameOK
<1>2. CASE PieceActions
  BY <1>2, StartPieceStep
<1>3. CASE Receive \/ Lose
  <2>1. next' = next + 1 /\ lastOut' = lastOut /\ sentries' = sentries
    BY <1>3 DEF Receive, Lose
  <2> QED BY <1>1, <2>1 DEF StartInv
<1>4. CASE SetSyncPoint
  BY <1>4 DEF SetSyncPoint, StartInv
<1>5. CASE UNCHANGED vars
  BY <1>5 DEF vars, StartInv, Empty, Complete
<1> QED BY <1>2, <1>3, <1>4, <1>5 DEF Next, PieceActions

(* A packet that arrives continues the run.                                *)
LEMMA ReceiveStep ==
  ASSUME CollectInv, Receive, NEW a \in Index \ {1}, NEW b \in Index, Running(a, b)'
  PROVE  Collected(a, b)'
<1>1. /\ next \in Index /\ next' = next + 1 /\ todo = 0 /\ lastOut' = lastOut
      /\ UNCHANGED <<nalu, naluLen, frame, frameLen>>
      /\ received' = (IF next > 1 /\ Stream[next - 1].marker THEN {} ELSE received)
                        \cup {next}
  BY DEF Receive
<1>2. a \in Nat \ {0, 1} /\ b \in Nat /\ next \in Nat \ {0} /\ Len(Stream) \in Nat
  BY PacketFacts DEF Index, CollectInv, TypeInv, PlaceInv
<1>3. Whole(a, b) /\ lastOut = a - 1 /\ next + 1 <= b + 1
      /\ a .. next \subseteq received'
  BY <1>1, <1>2 DEF Running, Whole
<1>4. a <= next /\ next <= b
  BY <1>2, <1>3 DEF CollectInv, StartInv
<1>5. a .. next - 1 \subseteq received
  <2> SUFFICES ASSUME NEW i \in a .. next - 1 PROVE i \in received
    OBVIOUS
  <2>1. i \in a .. next /\ i # next /\ next - 1 \in a .. b - 1
    BY <1>2, <1>4
  <2>2. ~Stream[next - 1].marker
    BY <1>3, <2>1 DEF Whole, Sent
  <2> QED BY <1>1, <1>3, <2>1, <2>2
<1>6. Running(a, b)
  BY <1>1, <1>2, <1>3, <1>4, <1>5 DEF Running
<1>7. Collected(a, b)
  BY <1>6 DEF CollectInv
<1>8. next \in a .. b
  BY <1>2, <1>4
<1>9. /\ Stream[next].kind \in {"single", "stapa", "fua"} /\ ~Stream[next].broken
  BY <1>3, <1>8 DEF Whole, WellFormed
<1>10. todo' = 1 /\ packets' = packets + 1
  BY <1>9 DEF Receive
<1>11. 1 <= Len(Stream[next].nals)
  <2>1. /\ Stream[next].kind \in {"single", "fua"} => Len(Stream[next].nals) = 1
        /\ Stream[next].kind = "stapa" => Stream[next].nals # <<>>
    BY <1>1, <1>9, StreamAssumption DEF Index
  <2>2. Stream[next].nals \in Seq([type : NaluType, len : Nat \ {0}, offset : Nat])
    BY <1>1, PacketFacts DEF Packet
  <2>3. Stream[next].nals # <<>> => 1 <= Len(Stream[next].nals)
    <3> DEFINE s == Stream[next].nals
               S == [type : NaluType, len : Nat \ {0}, offset : Nat]
    <3>1. s \in Seq(S)
      BY <2>2
    <3> HIDE DEF s, S
    <3>2. s # <<>> => 1 <= Len(s)
      BY <3>1
    <3> QED BY <3>2 DEF s
  <2> QED BY <1>9, <2>1, <2>3
<1>12. Done(a)' = Done(a)
  <2>1. ASSUME NEW q \in Piece PROVE q \in Done(a)' <=> q \in Done(a)
    <3>1. q[1] \in Nat /\ q[2] \in Nat /\ q[2] >= 1
      BY PieceShape DEF Index
    <3> QED BY <1>1, <1>2, <1>10, <3>1 DEF Done
  <2> QED BY <2>1 DEF Done
<1>13. packets \in Nat
  BY DEF CollectInv, TypeInv, FrameOK
<1>14. packets' = next' - a
  BY <1>1, <1>2, <1>7, <1>10, <1>13 DEF Collected
<1>15. todo' > 0 => todo' <= Len(Stream[next' - 1].nals)
  BY <1>1, <1>2, <1>10, <1>11
<1> QED BY <1>1, <1>7, <1>12, <1>14, <1>15 DEF Collected

(* parse takes a piece of a run, or completes the frame before it.         *)
LEMMA TakeStep ==
  ASSUME CollectInv, PieceActions, NEW a \in Index \ {1}, NEW b \in Index, Running(a, b)'
  PROVE  Collected(a, b)'
<1>1. /\ next' = next /\ received' = received /\ todo > 0
      /\ lastOut' \in {lastOut, next - 1} /\ StartInv'
  BY StartPieceStep DEF CollectInv
<1>2. a \in Nat \ {0, 1} /\ b \in Nat /\ next \in Nat \ {0} /\ todo \in Nat
      /\ lastOut \in Nat
  BY PacketFacts DEF Index, CollectInv, TypeInv, PlaceInv, FrameOK
<1>3. /\ Whole(a, b) /\ lastOut' = a - 1 /\ next \in a .. b + 1
      /\ (next = a => todo' = 0) /\ a .. next - 1 \subseteq received
  BY <1>1 DEF Running, Whole
<1>4. CASE next = a
  <2>1. todo' = 0 /\ lastOut' = next' - 1 /\ lastOut' > 0 /\ Complete(lastOut')
    BY <1>1, <1>2, <1>3, <1>4 DEF Whole, Complete
  <2>2. Empty'
    BY <1>1, <2>1 DEF StartInv, Complete
  <2>3. Done(a)' = {}
    <3>1. ASSUME NEW q \in Done(a)' PROVE FALSE
      <4>1. q \in Piece /\ a <= q[1] /\ q[1] < next
        BY <1>1 DEF Done
      <4> QED BY <1>2, <1>4, <4>1, PieceShape DEF Index
    <3> QED BY <3>1
  <2>4. Consists(<<>>, {})
    BY DEF Consists
  <2>5. (frame \o nalu)' = <<>>
    BY <2>2 DEF Empty
  <2>6. \A q \in PiecesOf(a, b) : 0 <= Offset(q)
    <3> SUFFICES ASSUME NEW q \in Piece PROVE Offset(q) \in Nat
      BY DEF PiecesOf
    <3>1. q[1] \in Index /\ q[2] \in 1 .. Len(Stream[q[1]].nals)
      BY PieceShape
    <3> QED BY <3>1, PacketFacts DEF Offset
  <2>7. packets' = next' - a /\ frameLen' + naluLen' = 0
    BY <1>1, <1>2, <1>4, <2>2 DEF Empty
  <2> QED BY <2>1, <2>3, <2>4, <2>5, <2>6, <2>7 DEF Collected
<1>5. CASE next # a
  <2> DEFINE p == <<next - 1, todo>>
             s == frame \o nalu
  <2>1. lastOut = a - 1
    BY <1>1, <1>2, <1>3, <1>5
  <2>2. Running(a, b) /\ Collected(a, b)
    BY <1>1, <1>2, <1>3, <1>5, <2>1 DEF Running, CollectInv
  <2>3. TakesPiece(a, p)
    BY <1>1, <2>2, PieceStep DEF PieceActions
  <2>4. /\ todo' = IF todo = Len(Stream[next - 1].nals) THEN 0 ELSE todo + 1
        /\ frame' \o nalu' = Append(s, p)
        /\ frameLen' + naluLen' = frameLen + naluLen + PieceLen(p)
        /\ packets' = packets
    <3>1. p[1] = next - 1 /\ p[2] = todo /\ lastOut' # next - 1
      BY <1>2, <1>3, <1>5
    <3> HIDE DEF p
    <3> QED BY <2>3, <3>1 DEF TakesPiece, s
  <2>5. Done(a)' = Done(a) \cup {p}
    BY <1>1, <2>2, <2>4, DoneStep
  <2>6. todo \in 1 .. Len(Stream[next - 1].nals)
    BY <1>1, <2>2, RunningFacts
  <2>7. /\ p \in PiecesOf(a, b) \ Done(a) /\ p \in Piece /\ PieceLen(p) \in Nat
        /\ Offset(p) \in Nat
        /\ \A q \in Done(a) : Before(q, p)
        /\ \A q \in PiecesOf(a, b) \ (Done(a) \cup {p}) :
             Before(p, q) /\ Offset(p) + PieceLen(p) <= Offset(q)
    BY <1>1, <2>2, NextPiece
  <2>8. s \in Seq(Piece) /\ Done(a) \subseteq Piece
    BY DEF CollectInv, TypeInv, FrameOK, NaluOK, Done
  <2>9. frameLen \in Nat /\ naluLen \in Nat
    BY StreamAssumption DEF CollectInv, TypeInv, FrameOK, NaluOK
  <2> HIDE DEF p, s
  <2>10. Consists(s, Done(a)) /\ packets = next - a
         /\ \A q \in PiecesOf(a, b) \ Done(a) : frameLen + naluLen <= Offset(q)
    BY <2>2 DEF Collected, s
  <2>11. Consists(Append(s, p), Done(a) \cup {p})
    BY <2>7, <2>8, <2>10, AppendConsists
  <2>12. \A q \in PiecesOf(a, b) \ (Done(a) \cup {p}) : frameLen' + naluLen' <= Offset(q)
    <3> SUFFICES ASSUME NEW q \in PiecesOf(a, b) \ (Done(a) \cup {p})
                 PROVE  frameLen' + naluLen' <= Offset(q)
      OBVIOUS
    <3>1. frameLen + naluLen <= Offset(p) /\ Offset(p) + PieceLen(p) <= Offset(q)
      BY <2>7, <2>10
    <3>2. Offset(q) \in Nat
      <4>1. q[1] \in Index /\ q[2] \in 1 .. Len(Stream[q[1]].nals)
        BY PieceShape DEF PiecesOf
      <4> QED BY <4>1, PacketFacts DEF Offset
    <3> QED BY <2>4, <2>7, <2>9, <3>1, <3>2
  <2>13. todo' > 0 => todo' <= Len(Stream[next' - 1].nals)
    <3>1. todo # Len(Stream[next - 1].nals) => todo + 1 <= Len(Stream[next - 1].nals)
      BY <2>6
    <3> QED BY <1>1, <2>4, <3>1
  <2>14. packets' = next' - a
    BY <1>1, <2>4, <2>10
  <2>15. Consists((frame \o nalu)', Done(a)')
    BY <2>4, <2>5, <2>11
  <2>16. \A q \in PiecesOf(a, b) \ Done(a)' : frameLen' + naluLen' <= Offset(q)
    BY <2>5, <2>12
  <2> QED BY <2>13, <2>14, <2>15, <2>16 DEF Collected
<1> QED BY <1>4, <1>5

LEMMA CollectStep == CollectInv /\ [Next]_vars => CollectInv'
<1> SUFFICES ASSUME CollectInv, [Next]_vars PROVE CollectInv'
  OBVIOUS
<1>1. TypeInv' /\ StartInv'
  BY TypeStep, StartStep DEF CollectInv
<1>2. next \in Nat \ {0} /\ received \subseteq 1 .. next - 1
  BY DEF CollectInv, TypeInv, PlaceInv
<1>3. received' \subseteq 1 .. next' - 1
  <2>1. CASE PieceActions
    BY <1>2, <2>1, StartPieceStep DEF CollectInv
  <2>0. 1 .. next - 1 \subseteq 1 .. next /\ next \in 1 .. next /\ next = (next + 1) - 1
    BY <1>2
  <2>2. CASE Receive
    <3>1. received' \subseteq received \cup {next} /\ next' = next + 1
      BY <2>2 DEF Receive
    <3> QED BY <1>2, <2>0, <3>1
  <2>3. CASE Lose \/ SetSyncPoint
    <3>1. received' \subseteq received /\ next' \in {next, next + 1}
      BY <2>3 DEF Lose, SetSyncPoint
    <3> QED BY <1>2, <2>0, <3>1
  <2>4. CASE UNCHANGED vars
    BY <1>2, <2>4 DEF vars
  <2> QED BY <2>1, <2>2, <2>3, <2>4 DEF Next, PieceActions
<1>4. ASSUME NEW a \in Index \ {1}, NEW b \in Index, Running(a, b)'
      PROVE  Collected(a, b)'
  <2>0. a \in Nat \ {0, 1} /\ lastOut' = a - 1
    BY <1>4, PacketFacts DEF Index, Running
  <2>1. CASE PieceActions
    BY <1>4, <2>1, TakeStep
  <2>2. CASE Receive
    BY <1>4, <2>2, ReceiveStep
  <2>3. CASE Lose
    <3>1. next' = next + 1 /\ received' = received /\ lastOut' = lastOut
      BY <2>3 DEF Lose
    <3>2. a <= next
      BY <1>2, <2>0, <3>1 DEF CollectInv, StartInv
    <3>3. next \in a .. next' - 1
      BY <1>2, <2>0, <3>1, <3>2
    <3> QED BY <1>2, <1>4, <3>1, <3>3 DEF Running
  <2>4. CASE SetSyncPoint
    BY <2>0, <2>4 DEF SetSyncPoint
  <2>5. CASE UNCHANGED vars
    BY <1>4, <2>5 DEF vars, CollectInv, Running, Collected, Done, Whole
  <2> QED BY <2>1, <2>2, <2>3, <2>4, <2>5 DEF Next, PieceActions
<1> QED BY <1>1, <1>3, <1>4 DEF CollectInv

(* What is delivered when parse returns from the last packet of a frame.   *)
Delivered(a, b) ==
  /\ out # NoFrame /\ Consists(out.parts, PiecesOf(a, b))
  /\ out.packets = b - a + 1 /\ ~out.incomplete

LEMMA DeliverStep ==
  ASSUME CollectInv, [Next]_vars, todo > 0, todo' = 0, NEW a \in Index \ {1},
         Whole(a, next - 1), lastOut = a - 1, a .. next - 1 \subseteq received
  PROVE  Delivered(a, next - 1)'
<1> DEFINE p == <<next - 1, todo>>
           s == frame \o nalu
<1>1. PieceActions
  BY DEF Next, PieceActions, Receive, Lose, SetSyncPoint, vars
<1>2. a \in Nat \ {0, 1} /\ next \in Nat \ {0} /\ todo \in Nat
  BY PacketFacts DEF Index, CollectInv, TypeInv, PlaceInv
<1> PICK b \in Index : b = next - 1
  BY DEF CollectInv, TypeInv, PlaceInv
<1>3. a <= b /\ Stream[b].marker
  BY DEF Whole, Sent
<1>4. next' = next
  BY <1>1, StartPieceStep DEF CollectInv
<1>5. Running(a, b) /\ Collected(a, b)
  BY <1>2, <1>3 DEF Running, CollectInv
<1>6. TakesPiece(a, p)
  BY <1>1, <1>5, PieceStep DEF PieceActions
<1>7. todo = Len(Stream[next - 1].nals)
  BY <1>2, <1>6 DEF TakesPiece
<1>8. /\ out'.parts = Append(s, p) /\ ~out'.incomplete
      /\ out'.packets = packets /\ out' # NoFrame
  BY <1>3, <1>6, <1>7 DEF TakesPiece
<1>9. /\ p \in Piece /\ \A q \in Done(a) : Before(q, p)
  BY <1>5, NextPiece
<1>10. Done(a)' = Done(a) \cup {p}
  BY <1>4, <1>5, <1>7, DoneStep
<1>11. Done(a)' = PiecesOf(a, b)
  <2>1. ASSUME NEW q \in Piece PROVE q \in Done(a)' <=> q \in PiecesOf(a, b)
    <3>1. q[1] \in Nat
      BY PieceShape DEF Index
    <3> QED BY <1>2, <1>4, <3>1 DEF Done, PiecesOf
  <2> QED BY <2>1 DEF Done, PiecesOf
<1>12. s \in Seq(Piece) /\ Done(a) \subseteq Piece
  BY DEF CollectInv, TypeInv, FrameOK, NaluOK, Done
<1> HIDE DEF p, s
<1>13. Consists(s, Done(a)) /\ packets = next - a
  BY <1>5 DEF Collected, s
<1>14. Consists(Append(s, p), PiecesOf(a, b))
  BY <1>9, <1>10, <1>11, <1>12, <1>13, AppendConsists
<1>15. out'.packets = b - a + 1
  BY <1>2, <1>8, <1>13
<1> QED BY <1>4, <1>8, <1>14, <1>15 DEF Delivered, Consists, PiecesOf

(* A frame of which nothing is lost, after one that its own marker has     *)
(* completed, is delivered whole, in order, and rightly counted.           *)
THEOREM DeliveredWhole == Spec => WholeFrames
<1>1. Init => CollectInv
  <2> SUFFICES ASSUME Init PROVE CollectInv
    OBVIOUS
  <2>1. TypeInv
    BY TypeInit
  <2>2. \A a \in Index \ {1} : a - 1 # 0
    BY PacketFacts DEF Index
  <2> QED BY <2>1, <2>2 DEF Init, CollectInv, StartInv, Running
<1>2. CollectInv /\ [Next]_vars =>
        (todo > 0 /\ todo' = 0 =>
           LET b == next - 1
           IN \A a \in Index \ {1} :
                /\ Sent(a, b) /\ WellFormed(a, b)
                /\ Stream[a - 1].marker /\ ~Stream[a - 1].broken /\ lastOut = a - 1
                /\ a .. b \subseteq received
                /\ \A piece \in PiecesOf(a, b) : FitsFrame(piece)
                => /\ out' # NoFrame
                   /\ Consists(out'.parts, PiecesOf(a, b))
                   /\ out'.packets = b - a + 1 /\ ~out'.incomplete)
  <2> SUFFICES ASSUME CollectInv, [Next]_vars, todo > 0, todo' = 0, NEW a \in Index \ {1},
                      Whole(a, next - 1), lastOut = a - 1, a .. next - 1 \subseteq received
               PROVE  /\ out' # NoFrame
                      /\ Consists(out'.parts, PiecesOf(a, next - 1))
                      /\ out'.packets = next - 1 - a + 1 /\ ~out'.incomplete
    BY DEF Whole
  <2>1. Delivered(a, next - 1)'
    BY DeliverStep
  <2>2. next' = next
    BY StartPieceStep DEF CollectInv, Next, PieceActions, Receive, Lose, SetSyncPoint, vars
  <2> QED BY <2>1, <2>2 DEF Delivered
<1> QED BY <1>1, <1>2, CollectStep, PTL DEF Spec, WholeFrames
=============================================================================
