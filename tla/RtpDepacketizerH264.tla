------------------------ MODULE RtpDepacketizerH264 -------------------------
(***************************************************************************)
(* Depacketizers/RtpDepacketizerH264.cc: parse puts the NAL units of one   *)
(* stream's packets together in m_nalu, decode_nalu the frames in m_frame. *)
(* The network may lose any packet.  A piece <<i, k>> is what packet i     *)
(* carries of a NAL unit: the k-th unit of an aggregation packet, else the *)
(* only one.  parse runs under m_lock; the loop over an aggregation packet *)
(* takes one step a unit, and no other step is possible before it ends.    *)
(***************************************************************************)
EXTENDS Integers, Sequences

CONSTANTS
  Stream,         \* the packets of the stream in sending order
  MaxFrameSize,   \* MAX_ES_FRAME_SIZE
  NoFrame,        \* parse gave no frame
  MaxSyncs        \* bound: calls of set_sync_point

SPS == 7
PPS == 8
IDR == 5
NaluType == 1 .. 12

STARTCODE_LENGTH == 4

(* A packet: its kind ("error" stands for those that parse refuses at      *)
(* once), the NAL units it has a piece of, none of them empty, the FU-A    *)
(* bits start and end, whether an aggregation packet breaks off after      *)
(* these units, and its marker.  What only the sender knows is offset: the *)
(* bytes that the pieces before this one add to the frame.                 *)
Packet ==
  [kind : {"single", "stapa", "fua", "error", "empty"},
   nals : Seq([type : NaluType, len : Nat \ {0}, offset : Nat]),
   start : BOOLEAN, end : BOOLEAN, broken : BOOLEAN, marker : BOOLEAN]

ASSUME StreamAssumption ==
  /\ Stream \in Seq(Packet)
  /\ \A i \in 1 .. Len(Stream) :
       /\ Stream[i].kind \in {"single", "fua"} => Len(Stream[i].nals) = 1
       /\ Stream[i].kind = "stapa" /\ ~Stream[i].broken => Stream[i].nals # <<>>
       /\ ~(Stream[i].start /\ Stream[i].end)
  /\ MaxFrameSize \in Nat /\ MaxSyncs \in Nat

Index == 1 .. Len(Stream)
Piece == UNION {{<<i, k>> : k \in 1 .. Len(Stream[i].nals)} : i \in Index}

(* A frame that parse delivers. *)
OutFrame ==
  [parts : Seq(Piece), sync : BOOLEAN, incomplete : BOOLEAN, packets : Nat]

ASSUME NoFrameAssumption == NoFrame \notin OutFrame

VARIABLES
  next,         \* number of the packet that the network handles next
  received,     \* history: packets of the frame under way that were parsed
                \* since the last set_sync_point
  todo,         \* the unit that parse comes to next in an aggregation
                \* packet, 0 when it has returned
  nalu,         \* m_nalu: the pieces it holds, in order
  naluLen,      \* m_nalu_len
  frame,        \* m_frame: the pieces it holds, in order
  frameLen,     \* m_frame_len
  packets,      \* m_packets
  sentries,     \* those of m_sps_, m_pps_ and m_idr_sentry that are set
  out,          \* what the last call of parse put in *frame
  lastOut,      \* history: the packet that last completed a frame with all
                \* sentries down, 0 if none has since set_sync_point
  syncs         \* number of calls of set_sync_point

vars == <<next, received, todo, nalu, naluLen, frame, frameLen, packets,
          sentries, out, lastOut, syncs>>

Init ==
  /\ next = 1 /\ received = {} /\ todo = 0
  /\ nalu = <<>> /\ naluLen = 0
  /\ frame = <<>> /\ frameLen = 0 /\ packets = 0
  /\ sentries = {SPS, PPS, IDR}
  /\ out = NoFrame /\ lastOut = 0 /\ syncs = 0

-----------------------------------------------------------------------------
(* Bytes that parse adds to m_nalu for a piece: a start code before the    *)
(* first piece of a unit, and a header byte if that piece is an FU-A.      *)
BeginsNalu(piece) == Stream[piece[1]].kind = "fua" => Stream[piece[1]].start

PieceLen(piece) ==
  Stream[piece[1]].nals[piece[2]].len
    + (IF BeginsNalu(piece) THEN STARTCODE_LENGTH ELSE 0)
    + (IF BeginsNalu(piece) /\ Stream[piece[1]].kind = "fua" THEN 1 ELSE 0)

(* Mutant: the room left in m_nalu is not looked at. *)
FitsNaluUnchecked(piece) == TRUE

(* CHECK_SIZE of the start code, the header and the payload. *)
FitsNalu(piece) == PieceLen(piece) <= MaxFrameSize - naluLen

(* The byte at m_nalu[STARTCODE_LENGTH]: the header of the first unit in   *)
(* the buffer, or any byte of the payload if the beginning was lost.       *)
NaluTypes(s) == IF BeginsNalu(s[1]) THEN {Stream[s[1][1]].nals[s[1][2]].type}
                ELSE 0 .. 31

(* check_random_access_unit clears the sentry of the unit's type and tells *)
(* whether the unit is written.                                            *)
Passes(type) ==
  \/ sentries = {}
  \/ type \in {SPS, PPS}
  \/ type = IDR /\ sentries \cap {SPS, PPS} = {}

(* Mutant: m_frame_len is not reset when a frame is complete. *)
FrameLenKept(len) == len

FrameLenReset(len) == 0

(* decode_nalu(m_nalu, ..., type, end, ...) for the unit s of len bytes.   *)
(* A unit that does not fit ends the frame.                                *)
DecodeNalu(s, len, type, end) ==
  LET tooLarge == len > MaxFrameSize - frameLen
      newLen   == IF tooLarge THEN MaxFrameSize ELSE frameLen + len
  IN \/ /\ ~Passes(type)
        /\ UNCHANGED <<frame, frameLen, packets, sentries, lastOut>>
        /\ out' = NoFrame
     \/ /\ Passes(type)
        /\ sentries' = sentries \ {type}
        /\ ~(end \/ tooLarge)
        /\ frame' = frame \o s /\ frameLen' = newLen
        /\ out' = NoFrame
        /\ UNCHANGED <<packets, lastOut>>
     \/ /\ Passes(type)
        /\ sentries' = sentries \ {type}
        /\ end \/ tooLarge
        /\ frame' = <<>> /\ frameLen' = FrameLenReset(newLen)
        /\ packets' = 0
        /\ out' = [parts |-> frame \o s, sync |-> type = IDR,
                   incomplete |-> tooLarge, packets |-> packets]
        /\ lastOut' = IF sentries' = {} THEN next - 1 ELSE lastOut

(* DEC_NALU *)
DecNalu(s, len, end) ==
  /\ \E type \in NaluTypes(s) : DecodeNalu(s, len, type, end)
  /\ nalu' = <<>> /\ naluLen' = 0

(* CHECK_SIZE fails: unit, frame and count are given up. *)
GiveUp ==
  /\ nalu' = <<>> /\ naluLen' = 0
  /\ frame' = <<>> /\ frameLen' = 0 /\ packets' = 0
  /\ out' = NoFrame
  /\ UNCHANGED <<sentries, lastOut>>

(* The label fail: "abandon the current nalu". *)
Fail ==
  /\ nalu' = <<>> /\ naluLen' = 0
  /\ out' = NoFrame
  /\ UNCHANGED <<frame, frameLen, packets, sentries, lastOut>>

-----------------------------------------------------------------------------
(* A call of parse, up to the switch: m_packets is counted first.  The     *)
(* steps that follow belong to packet next - 1.                            *)
Receive ==
  /\ todo = 0
  /\ next \in Index
  /\ next' = next + 1
  /\ received' = (IF next > 1 /\ Stream[next - 1].marker THEN {} ELSE received)
                    \cup {next}
  /\ packets' = IF Stream[next].kind = "empty" THEN packets ELSE packets + 1
  /\ todo' = IF Stream[next].kind = "empty" THEN 0 ELSE 1
  /\ out' = NoFrame
  /\ UNCHANGED <<nalu, naluLen, frame, frameLen, sentries, lastOut, syncs>>

Current == Stream[next - 1]

(* The pieces to be decoded as a unit once this one is added. *)
Added(piece) == Append(nalu, piece)

Single ==
  /\ todo = 1 /\ Current.kind = "single"
  /\ LET piece == <<next - 1, 1>>
     IN \/ /\ FitsNalu(piece)
           /\ DecNalu(Added(piece), naluLen + PieceLen(piece), Current.marker)
        \/ ~FitsNalu(piece) /\ GiveUp
  /\ todo' = 0
  /\ UNCHANGED <<next, received, syncs>>

(* A turn of the loop over an aggregation packet; only its last unit can   *)
(* end the frame, and not if the packet breaks off after it.               *)
StapA ==
  /\ todo > 0 /\ Current.kind = "stapa"
  /\ todo <= Len(Current.nals)
  /\ LET piece == <<next - 1, todo>>
         last  == todo = Len(Current.nals) /\ ~Current.broken
     IN \/ /\ FitsNalu(piece)
           /\ DecNalu(Added(piece), naluLen + PieceLen(piece),
                      last /\ Current.marker)
           /\ todo' = IF last THEN 0 ELSE todo + 1
        \/ ~FitsNalu(piece) /\ GiveUp /\ todo' = 0
  /\ UNCHANGED <<next, received, syncs>>

FuA ==
  /\ todo = 1 /\ Current.kind = "fua"
  /\ LET piece == <<next - 1, 1>>
         len   == naluLen + PieceLen(piece)
     IN \/ FitsNalu(piece) /\ Current.end /\ DecNalu(Added(piece), len, Current.marker)
        \/ /\ FitsNalu(piece) /\ ~Current.end
           /\ nalu' = Added(piece) /\ naluLen' = len
           /\ UNCHANGED <<frame, frameLen, packets, sentries, out, lastOut>>
        \/ ~FitsNalu(piece) /\ GiveUp
  /\ todo' = 0
  /\ UNCHANGED <<next, received, syncs>>

(* The packets that parse refuses: an unknown type, an FU-A that is too    *)
(* short or both start and end, and the end of a broken aggregation.       *)
Refuse ==
  /\ todo > 0
  /\ \/ Current.kind = "error"
     \/ Current.kind = "stapa" /\ todo > Len(Current.nals)
  /\ Fail
  /\ todo' = 0
  /\ UNCHANGED <<next, received, syncs>>

Lose ==
  /\ todo = 0
  /\ next \in Index
  /\ next' = next + 1
  /\ out' = NoFrame
  /\ UNCHANGED <<received, todo, nalu, naluLen, frame, frameLen, packets,
                 sentries, lastOut, syncs>>

(* Called by nobody yet: VideoStream's call is compiled out. *)
SetSyncPoint ==
  /\ todo = 0
  /\ syncs < MaxSyncs
  /\ syncs' = syncs + 1
  /\ sentries' = {SPS, PPS, IDR}
  /\ nalu' = <<>> /\ naluLen' = 0
  /\ frame' = <<>> /\ frameLen' = 0
  /\ received' = {} /\ lastOut' = 0
  /\ out' = NoFrame
  /\ UNCHANGED <<next, todo, packets>>

Next == Receive \/ Single \/ StapA \/ FuA \/ Refuse \/ Lose \/ SetSyncPoint

Spec == Init /\ [][Next]_vars

-----------------------------------------------------------------------------
(* Types; what is in the two buffers fits in them. *)
TypeOK ==
  /\ next \in Nat \ {0} /\ received \subseteq Index /\ todo \in Nat
  /\ nalu \in Seq(Piece) /\ naluLen \in 0 .. MaxFrameSize
  /\ frame \in Seq(Piece) /\ frameLen \in 0 .. MaxFrameSize
  /\ packets \in Nat /\ sentries \subseteq {SPS, PPS, IDR}
  /\ out \in {NoFrame} \cup OutFrame
  /\ lastOut \in Nat /\ syncs \in Nat

(* The frame that packets a to b carry. *)
Sent(a, b) ==
  /\ a <= b /\ Stream[b].marker
  /\ \A i \in a .. b - 1 : ~Stream[i].marker

PiecesOf(a, b) == {piece \in Piece : piece[1] \in a .. b}

(* Its units are split as RFC 3984 says: an FU-A either begins a unit or   *)
(* goes on with the one that the packet before it left open.               *)
Open(i) == Stream[i].kind = "fua" /\ ~Stream[i].end

WellFormed(a, b) ==
  /\ \A i \in a .. b :
       /\ Stream[i].kind \in {"single", "stapa", "fua"} /\ ~Stream[i].broken
       /\ (Stream[i].kind = "fua" /\ ~Stream[i].start) <=> (i > a /\ Open(i - 1))
  /\ ~Open(b)

Offset(piece) == Stream[piece[1]].nals[piece[2]].offset

FitsFrame(piece) == Offset(piece) + PieceLen(piece) <= MaxFrameSize

Before(p, q) == p[1] < q[1] \/ (p[1] = q[1] /\ p[2] < q[2])

(* The offsets count at least the bytes of the pieces before. *)
ASSUME OffsetAssumption ==
  \A a, b \in Index :
     Sent(a, b) /\ WellFormed(a, b) =>
       \A p, q \in PiecesOf(a, b) :
          Before(p, q) => Offset(p) + PieceLen(p) <= Offset(q)

Consists(parts, S) ==
  /\ \A j \in 1 .. Len(parts) : parts[j] \in S
  /\ \A p \in S : \E j \in 1 .. Len(parts) : parts[j] = p
  /\ \A j, k \in 1 .. Len(parts) : j < k => Before(parts[j], parts[k])

(* Once decoding has begun, losses do no harm beyond the frames they hit:  *)
(* a frame of which nothing is lost, after one that was completed by its   *)
(* own marker, is delivered when its last packet is parsed; it consists of *)
(* all its pieces in the order sent and no other, and is counted right.    *)
WholeFrames ==
  [][todo > 0 /\ todo' = 0 =>
       LET b == next - 1
       IN \A a \in Index \ {1} :
            /\ Sent(a, b) /\ WellFormed(a, b)
            /\ Stream[a - 1].marker /\ ~Stream[a - 1].broken /\ lastOut = a - 1
            /\ a .. b \subseteq received
            /\ \A piece \in PiecesOf(a, b) : FitsFrame(piece)
            => /\ out' # NoFrame
               /\ Consists(out'.parts, PiecesOf(a, b))
               /\ out'.packets = b - a + 1 /\ ~out'.incomplete]_vars
=============================================================================
