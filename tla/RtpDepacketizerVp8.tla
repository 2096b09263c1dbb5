------------------------ MODULE RtpDepacketizerVp8 --------------------------
(***************************************************************************)
(* Depacketizers/RtpDepacketizerVp8.cc: parse collects the payloads of one *)
(* stream's packets in m_frame and gives a frame to VideoStream at every   *)
(* marker.  The sender's packets are numbered; the network may lose any of *)
(* them.  A payload is the number of the packet that carried it.           *)
(***************************************************************************)
EXTENDS Integers, Sequences

CONSTANTS
  Stream,         \* the packets of the stream in sending order
  MaxFrameSize,   \* MAX_ES_FRAME_SIZE
  NoFrame,        \* parse gave no frame
  MaxSyncs        \* bound: calls of set_sync_point

Bits == {"X", "I", "M", "L", "T", "K"}

(* A packet: the bits set in its descriptor, whether its partition id is   *)
(* at most 8, whether it begins partition 0, whether the payload header's  *)
(* P bit says key frame, its marker and its length.  What only the sender  *)
(* knows is offset: the bytes of the frame in the packets before it.       *)
Packet ==
  [bits : SUBSET Bits, legal : BOOLEAN, first : BOOLEAN, key : BOOLEAN,
   marker : BOOLEAN, len : Nat, offset : Nat]

ASSUME StreamAssumption ==
  /\ Stream \in Seq(Packet)
  /\ MaxFrameSize \in Nat /\ MaxSyncs \in Nat

Index == 1 .. Len(Stream)

VARIABLES
  next,         \* number of the packet that the network handles next
  received,     \* history: packets parsed since the last set_sync_point
  frame,        \* m_frame: the packets whose payloads it holds, in order
  frameLen,     \* m_frame_len
  packets,      \* m_packets
  frameType,    \* m_frame_type
  keyRequired,  \* m_key_required
  out,          \* what the last call of parse put in *frame
  syncs         \* number of calls of set_sync_point

vars == <<next, received, frame, frameLen, packets, frameType, keyRequired,
          out, syncs>>

Init ==
  /\ next = 1 /\ received = {}
  /\ frame = <<>> /\ frameLen = 0 /\ packets = 0
  /\ frameType = "empty" /\ keyRequired = TRUE
  /\ out = NoFrame /\ syncs = 0

-----------------------------------------------------------------------------
(* The descriptor.  Each helper takes the bytes that are left and returns  *)
(* how many are left after it, or Refused.                                 *)
Refused == -1

ParseVP8PictureID(p, left) ==
  IF left = 0 \/ ("M" \in p.bits /\ left = 1) THEN Refused
  ELSE IF "M" \in p.bits THEN left - 2 ELSE left - 1

ParseVP8Tl0PicIdx(left) == IF left = 0 THEN Refused ELSE left - 1

ParseVP8TIDAndKeyIdx(left) == IF left = 0 THEN Refused ELSE left - 1

ParseVP8Extension(p, left) ==
  LET afterFlags == left - 1
      afterId  == IF "I" \in p.bits THEN ParseVP8PictureID(p, afterFlags)
                  ELSE afterFlags
      afterTl0 == IF afterId # Refused /\ "L" \in p.bits
                  THEN ParseVP8Tl0PicIdx(afterId) ELSE afterId
  IN IF afterTl0 # Refused /\ p.bits \cap {"T", "K"} # {}
     THEN ParseVP8TIDAndKeyIdx(afterTl0) ELSE afterTl0

(* What parse leaves as payload, or Refused if it returns an error while   *)
(* it reads the descriptor; a payload is never empty.                      *)
PayloadLen(p) ==
  LET rest == IF "X" \in p.bits THEN ParseVP8Extension(p, p.len - 1)
              ELSE p.len - 1
  IN IF ~p.legal \/ p.len <= 1 \/ rest = 0 THEN Refused ELSE rest

(* The payload header of a key frame takes 10 bytes. *)
KeyHeader == 10

ParseVP8FrameSizeFails(p) == p.first /\ p.key /\ PayloadLen(p) < KeyHeader

(* The packets whose payload parse takes, if there is room for it. *)
Accepted(p) == PayloadLen(p) # Refused /\ ~ParseVP8FrameSizeFails(p)

(* The sender knows what it has sent of a frame. *)
ASSUME OffsetAssumption ==
  \A i \in Index :
     Stream[i].offset =
       IF i = 1 \/ Stream[i - 1].marker THEN 0
       ELSE IF Accepted(Stream[i - 1])
            THEN Stream[i - 1].offset + PayloadLen(Stream[i - 1])
            ELSE Stream[i - 1].offset

TypeAfter(p) == IF ~p.first THEN frameType ELSE IF p.key THEN "key" ELSE "delta"

-----------------------------------------------------------------------------
(* parse returns DEPACKETIZER_ERROR and has changed nothing but the count  *)
(* (not even that for an empty packet) and, if the packet seems to begin a *)
(* frame, the frame type.                                                  *)
Refuse(p) ==
  /\ ~Accepted(p)
  /\ packets' = IF p.len = 0 THEN packets ELSE packets + 1
  /\ frameType' = IF PayloadLen(p) = Refused THEN frameType ELSE TypeAfter(p)
  /\ out' = NoFrame
  /\ UNCHANGED <<frame, frameLen, keyRequired>>

Overflow(p) ==
  /\ Accepted(p)
  /\ PayloadLen(p) > MaxFrameSize - frameLen
  /\ frameType' = "empty"
  /\ frame' = <<>> /\ frameLen' = 0 /\ packets' = 0
  /\ out' = NoFrame
  /\ UNCHANGED keyRequired

(* Mutant: the room left in m_frame is not looked at. *)
FitsUnchecked(p) == Accepted(p)

Fits(p) == Accepted(p) /\ PayloadLen(p) <= MaxFrameSize - frameLen

Collect(i, p) ==
  /\ Fits(p) /\ ~p.marker
  /\ frameType' = TypeAfter(p)
  /\ frame' = Append(frame, i) /\ frameLen' = frameLen + PayloadLen(p)
  /\ packets' = packets + 1
  /\ out' = NoFrame
  /\ UNCHANGED keyRequired

(* Mutant: the buffer is emptied by a delivery only. *)
EmptyWhenDelivered(delivered, i, p) ==
  /\ frame' = IF delivered THEN <<>> ELSE Append(frame, i)
  /\ frameLen' = IF delivered THEN 0 ELSE frameLen + PayloadLen(p)
  /\ packets' = IF delivered THEN 0 ELSE packets + 1

(* m_packets = 0; m_frame_len = 0, at every marker. *)
Empty(delivered, i, p) == frame' = <<>> /\ frameLen' = 0 /\ packets' = 0

(* Mutant: the key frame is not awaited. *)
DroppedNever(p) == FALSE

Dropped(p) == keyRequired /\ TypeAfter(p) # "key"

EndFrame(i, p) ==
  /\ Fits(p) /\ p.marker
  /\ frameType' = TypeAfter(p)
  /\ Empty(~Dropped(p), i, p)
  /\ keyRequired' = (keyRequired /\ Dropped(p))
  /\ out' = IF Dropped(p) THEN NoFrame
            ELSE [parts |-> Append(frame, i), key |-> TypeAfter(p) = "key",
                  packets |-> packets + 1]

Parse(i) ==
  \/ Refuse(Stream[i])
  \/ Overflow(Stream[i])
  \/ Collect(i, Stream[i])
  \/ EndFrame(i, Stream[i])

Receive ==
  /\ next \in Index
  /\ Parse(next)
  /\ received' = received \cup {next}
  /\ next' = next + 1
  /\ UNCHANGED syncs

Lose ==
  /\ next \in Index
  /\ next' = next + 1
  /\ UNCHANGED <<received, frame, frameLen, packets, frameType, keyRequired,
                 out, syncs>>

(* Called by nobody yet: VideoStream's call is compiled out. *)
SetSyncPoint ==
  /\ syncs < MaxSyncs
  /\ syncs' = syncs + 1
  /\ keyRequired' = TRUE
  /\ frame' = <<>> /\ frameLen' = 0
  /\ received' = {}
  /\ out' = NoFrame
  /\ UNCHANGED <<next, packets, frameType>>

Next == Receive \/ Lose \/ SetSyncPoint

Spec == Init /\ [][Next]_vars

-----------------------------------------------------------------------------
(* Types; what is in the buffer fits in it. *)
TypeOK ==
  /\ next \in Nat \ {0} /\ received \subseteq Index
  /\ frame \in Seq(Index) /\ frameLen \in 0 .. MaxFrameSize
  /\ packets \in Nat /\ syncs \in Nat
  /\ frameType \in {"empty", "key", "delta"} /\ keyRequired \in BOOLEAN
  /\ out \in {NoFrame} \cup [parts : Seq(Index), key : BOOLEAN, packets : Nat]

(* The descriptor as RFC 7741 lays it out (the table above parse): parse   *)
(* accepts a legal packet with at least one byte after it, and takes       *)
(* exactly those bytes.                                                    *)
Bit(p, b) == IF b \in p.bits THEN 1 ELSE 0

DescriptorLen(p) ==
  IF "X" \notin p.bits THEN 1
  ELSE 2 + Bit(p, "I") * (1 + Bit(p, "M")) + Bit(p, "L")
         + (IF p.bits \cap {"T", "K"} # {} THEN 1 ELSE 0)

(* Packet a begins a frame, and b ends it. *)
Boundary(a) == a = 1 \/ Stream[a - 1].marker

Sent(a, b) ==
  /\ Boundary(a) /\ a <= b /\ Stream[b].marker
  /\ \A i \in a .. b - 1 : ~Stream[i].marker
  /\ \A i \in a .. b : Stream[i].first <=> i = a

(* Packet i arrived, and the frame is no longer than m_frame. *)
Arrived(i) ==
  /\ i \in received
  /\ Accepted(Stream[i])
  /\ Stream[i].offset + PayloadLen(Stream[i]) <= MaxFrameSize

(* Nothing of the frame got lost, nor did the packet before it, which      *)
(* empties the buffer.                                                     *)
Intact(a, b) ==
  /\ a > 1 => a - 1 \in received /\ Accepted(Stream[a - 1])
  /\ \A i \in a .. b : Arrived(i)

(* After a loss the depacketizer recovers at the next marker that arrives: *)
(* a frame delivered by packet b consists of all its packets and no other, *)
(* is counted right and flagged as what it is, unless a packet of it or    *)
(* the marker before it was lost.                                          *)
WholeFrames ==
  out # NoFrame =>
    LET b == next - 1
    IN \A a \in Index :
         Sent(a, b) /\ Intact(a, b) =>
           /\ out.parts = [j \in 1 .. b - a + 1 |-> a + j - 1]
           /\ out.packets = b - a + 1
           /\ out.key = Stream[a].key

KeyStart(p) == p.first /\ p.key

(* "a key frame is requested for the next frame, all others before it      *)
(* should be dropped" (RtpDepacketizer.h:34): the frame that ends the wait *)
(* has the first packet of a key frame in it.  True of the constructor's   *)
(* request, as long as no packet has come that begins a key frame and is   *)
(* refused for want of its header.                                         *)
FirstRequest ==
  syncs = 0 /\ \A i \in received : ~ParseVP8FrameSizeFails(Stream[i])

SyncPointHonoured ==
  [][FirstRequest /\ keyRequired /\ ~keyRequired' =>
       \E i \in Index : KeyStart(Stream[i])
                         /\ \E j \in 1 .. Len(out'.parts) : out'.parts[j] = i]_vars
=============================================================================
