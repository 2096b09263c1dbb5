---------------------- MODULE RtpDepacketizerVp8Proofs ----------------------
(* For every stream of packets and every pattern of losses: the descriptor *)
(* is parsed as it is laid out, the buffer is never overrun, and after a   *)
(* loss the depacketizer recovers at the next marker.                      *)
EXTENDS RtpDepacketizerVp8, TLAPS

(* The bytes that are left after the helpers of ParseVP8Extension are      *)
(* those that the descriptor takes.                                        *)
THEOREM DescriptorParsed ==
  ASSUME NEW p \in Packet
  PROVE  PayloadLen(p) = IF p.legal /\ p.len > DescriptorLen(p)
                         THEN p.len - DescriptorLen(p) ELSE Refused
<1> USE DEF Refused
<1>1. p.len \in Nat /\ p.legal \in BOOLEAN
  BY DEF Packet
<1>2. CASE "X" \notin p.bits
  BY <1>1, <1>2 DEF PayloadLen, DescriptorLen
<1>3. CASE "X" \in p.bits
  <2> DEFINE left == p.len - 1
             ext  == ParseVP8Extension(p, left)
             used == DescriptorLen(p) - 1
  <2>1. left \in Int
    BY <1>1
  <2>2. used \in 1 .. 5
    BY <1>3 DEF DescriptorLen, Bit
  <2>3. left >= 1 => ext = IF left >= used THEN left - used ELSE -1
    <3> DEFINE idLen  == IF "I" \in p.bits THEN (IF "M" \in p.bits THEN 2 ELSE 1) ELSE 0
               tl0Len == IF "L" \in p.bits THEN 1 ELSE 0
               tidLen == IF p.bits \cap {"T", "K"} # {} THEN 1 ELSE 0
               id     == IF "I" \in p.bits THEN ParseVP8PictureID(p, left - 1)
                         ELSE left - 1
               tl0    == IF id # -1 /\ "L" \in p.bits
                         THEN ParseVP8Tl0PicIdx(id) ELSE id
    <3> SUFFICES ASSUME left >= 1
                 PROVE  ext = IF left >= used THEN left - used ELSE -1
      OBVIOUS
    <3>1. id = IF left - 1 >= idLen THEN left - 1 - idLen ELSE -1
      <4> HIDE DEF left
      <4> QED BY <2>1 DEF ParseVP8PictureID
    <3>2. idLen \in 0 .. 2 /\ tl0Len \in 0 .. 1 /\ tidLen \in 0 .. 1
      OBVIOUS
    <3>3. used = 1 + idLen + tl0Len + tidLen
      BY <1>3 DEF DescriptorLen, Bit
    <3>4. tl0 = IF id >= tl0Len THEN id - tl0Len ELSE -1
      <4> HIDE DEF id, idLen, left
      <4> QED BY <2>1, <3>1, <3>2 DEF ParseVP8Tl0PicIdx
    <3>5. ext = IF tl0 >= tidLen THEN tl0 - tidLen ELSE -1
      <4>1. ext = IF tl0 # -1 /\ p.bits \cap {"T", "K"} # {}
                  THEN ParseVP8TIDAndKeyIdx(tl0) ELSE tl0
        BY DEF ParseVP8Extension
      <4>2. tl0 \in Int /\ tl0 >= -1
        <5> HIDE DEF id, idLen, tl0Len, left
        <5> QED BY <2>1, <3>1, <3>2, <3>4
      <4> HIDE DEF tl0, ext
      <4> QED BY <4>1, <4>2 DEF ParseVP8TIDAndKeyIdx
    <3> HIDE DEF idLen, tl0Len, tidLen, id, tl0, left, ext, used
    <3> QED BY <2>1, <3>1, <3>2, <3>3, <3>4, <3>5
  <2>4. PayloadLen(p) = IF ~p.legal \/ p.len <= 1 \/ ext = 0 THEN -1 ELSE ext
    BY <1>3 DEF PayloadLen
  <2>5. DescriptorLen(p) = used + 1 /\ p.len = left + 1
    <3>1. DescriptorLen(p) \in Int
      BY DEF DescriptorLen, Bit
    <3> QED BY <1>1, <3>1
  <2> HIDE DEF left, ext, used
  <2>6. p.len <= 1 <=> ~(left >= 1)
    BY <2>1, <2>5
  <2>7. p.len > DescriptorLen(p) <=> left > used
    BY <2>1, <2>2, <2>5
  <2>8. p.len - DescriptorLen(p) = left - used
    BY <2>1, <2>2, <2>5
  <2>9. CASE p.legal
    BY <2>1, <2>2, <2>3, <2>4, <2>6, <2>7, <2>8, <2>9
  <2>10. CASE ~p.legal
    BY <2>4, <2>10
  <2> QED BY <2>9, <2>10
<1> QED BY <1>2, <1>3

(* An accepted packet has a payload of at least one byte. *)
LEMMA PayloadType ==
  ASSUME NEW p \in Packet
  PROVE  /\ PayloadLen(p) \in Int
         /\ Accepted(p) => PayloadLen(p) \in Nat \ {0}
<1>1. p.len \in Nat /\ DescriptorLen(p) \in Int
  BY DEF Packet, DescriptorLen, Bit
<1>2. PayloadLen(p) \in Int /\ (PayloadLen(p) # Refused => PayloadLen(p) \in Nat \ {0})
  BY <1>1, DescriptorParsed DEF Refused
<1> QED BY <1>2 DEF Accepted

LEMMA IndexFacts ==
  /\ Len(Stream) \in Nat
  /\ \A i \in Index : Stream[i] \in Packet
  BY StreamAssumption DEF Index

LEMMA AppendFacts ==
  ASSUME NEW s \in Seq(Index), NEW i \in Index
  PROVE  /\ Append(s, i) \in Seq(Index)
         /\ Len(Append(s, i)) = Len(s) + 1
         /\ \A j \in 1 .. Len(s) : Append(s, i)[j] = s[j]
         /\ Append(s, i)[Len(s) + 1] = i
  OBVIOUS

-----------------------------------------------------------------------------
(* Types, with the network's place in the stream. *)
PlaceInv == next \in 1 .. Len(Stream) + 1 /\ received \subseteq 1 .. next - 1

TypeInv == TypeOK /\ PlaceInv

LEMMA TypeInit == Init => TypeInv
<1> SUFFICES ASSUME Init PROVE TypeInv
  OBVIOUS
<1> QED BY StreamAssumption DEF Init, TypeInv, TypeOK, PlaceInv, Index

LEMMA TypeStep == TypeInv /\ [Next]_vars => TypeInv'
<1> SUFFICES ASSUME TypeInv, [Next]_vars PROVE TypeInv'
  OBVIOUS
<1> USE DEF TypeInv
<1>1. CASE Receive
  <2> DEFINE p == Stream[next]
  <2>1. next \in Index /\ p \in Packet /\ next' = next + 1
        /\ received' = received \cup {next} /\ syncs' = syncs
    BY <1>1, IndexFacts DEF Receive
  <2>2. PlaceInv'
    BY <2>1, IndexFacts DEF PlaceInv, Index
  <2>3. PayloadLen(p) \in Int /\ (Accepted(p) => PayloadLen(p) \in Nat \ {0})
    BY <2>1, PayloadType
  <2>4. p.key \in BOOLEAN /\ TypeAfter(p) \in {"empty", "key", "delta"}
    BY <2>1 DEF Packet, TypeAfter, TypeOK
  <2>5. /\ frame' \in Seq(Index) /\ frameLen' \in 0 .. MaxFrameSize
        /\ packets' \in Nat /\ frameType' \in {"empty", "key", "delta"}
        /\ keyRequired' \in BOOLEAN
    <3>1. CASE Refuse(p)
      BY <2>4, <3>1 DEF Refuse, TypeOK
    <3>2. CASE Overflow(p)
      BY <3>2, StreamAssumption DEF Overflow, TypeOK
    <3>3. CASE Collect(next, p)
      BY <2>1, <2>3, <2>4, <3>3, AppendFacts, StreamAssumption
         DEF Collect, Fits, TypeOK
    <3>4. CASE EndFrame(next, p)
      BY <2>4, <3>4, StreamAssumption DEF EndFrame, Empty, Dropped, TypeOK
    <3> QED BY <1>1, <3>1, <3>2, <3>3, <3>4 DEF Receive, Parse
  <2>6. out' \in {NoFrame} \cup [parts : Seq(Index), key : BOOLEAN, packets : Nat]
    <3>1. CASE Refuse(p) \/ Overflow(p) \/ Collect(next, p)
      BY <3>1 DEF Refuse, Overflow, Collect
    <3>2. CASE EndFrame(next, p)
      <4>1. Append(frame, next) \in Seq(Index) /\ packets + 1 \in Nat
        BY <2>1, AppendFacts DEF TypeOK
      <4> QED BY <3>2, <4>1 DEF EndFrame
    <3> QED BY <1>1, <3>1, <3>2 DEF Receive, Parse
  <2>7. next' \in Nat \ {0} /\ received' \subseteq Index
    BY <2>1 DEF TypeOK
  <2> QED BY <2>1, <2>2, <2>5, <2>6, <2>7 DEF TypeOK
<1>2. CASE Lose
  BY <1>2, IndexFacts DEF Lose, TypeOK, PlaceInv, Index
<1>3. CASE SetSyncPoint
  BY <1>3, StreamAssumption DEF SetSyncPoint, TypeOK, PlaceInv
<1>4. CASE UNCHANGED vars
  BY <1>4 DEF vars, TypeOK, PlaceInv
<1> QED BY <1>1, <1>2, <1>3, <1>4 DEF Next

(* Whatever arrives, m_frame_len stays within m_frame. *)
THEOREM BufferBounded == Spec => []TypeOK
<1>1. TypeInv => TypeOK
  BY DEF TypeInv
<1> QED BY <1>1, TypeInit, TypeStep, PTL DEF Spec

-----------------------------------------------------------------------------
(* Since packet a, which began a frame, all packets have arrived. *)
Running(a) ==
  /\ a \in 1 .. next /\ Boundary(a)
  /\ a > 1 => a - 1 \in received /\ Accepted(Stream[a - 1])
  /\ \A i \in a .. next - 1 : Arrived(i) /\ ~Stream[i].marker

Bytes(i) == Stream[i].offset + PayloadLen(Stream[i])

(* Then the buffer holds these packets and no other. *)
Collected(a) ==
  /\ frame = [j \in 1 .. next - a |-> a + j - 1]
  /\ packets = next - a
  /\ frameLen = IF a = next THEN 0 ELSE Bytes(next - 1)

(* And m_frame_type is that of the frame, if only its first packet claims  *)
(* to begin a frame.                                                       *)
Typed(a) ==
  a < next /\ (\A i \in a .. next - 1 : Stream[i].first <=> i = a)
    => frameType = IF Stream[a].key THEN "key" ELSE "delta"

CollectInv ==
  TypeInv /\ \A a \in 1 .. next : Running(a) => Collected(a) /\ Typed(a)

LEMMA CollectInit == Init => CollectInv
<1> SUFFICES ASSUME Init PROVE CollectInv
  OBVIOUS
<1>1. TypeInv /\ next = 1 /\ frame = <<>> /\ frameLen = 0 /\ packets = 0
  BY TypeInit DEF Init
<1>2. ASSUME NEW a \in 1 .. next PROVE Collected(a) /\ Typed(a)
  <2>1. a = 1
    BY <1>1
  <2>2. [j \in 1 .. next - a |-> a + j - 1] = <<>>
    BY <1>1, <2>1
  <2> QED BY <1>1, <2>1, <2>2 DEF Collected, Typed
<1> QED BY <1>1, <1>2 DEF CollectInv

(* The next packet of a frame that is being collected fits. *)
LEMMA NextFits ==
  ASSUME CollectInv, NEW a \in 1 .. next, Running(a), next \in Index,
         Accepted(Stream[next]), Bytes(next) <= MaxFrameSize
  PROVE  Fits(Stream[next]) /\ frameLen + PayloadLen(Stream[next]) = Bytes(next)
<1> DEFINE p == Stream[next]
<1>1. Collected(a) /\ p \in Packet /\ PayloadLen(p) \in Nat
  BY IndexFacts, PayloadType DEF CollectInv
<1>2. frameLen = p.offset
  <2>1. CASE a = next
    BY <1>1, <2>1, OffsetAssumption DEF Running, Boundary, Collected
  <2>2. CASE a # next
    <3>1. next - 1 \in a .. next - 1 /\ next # 1 /\ next - 1 \in Index
      BY <2>2, IndexFacts DEF Index
    <3>2. Arrived(next - 1) /\ ~Stream[next - 1].marker
      BY <3>1 DEF Running
    <3>3. p.offset = Bytes(next - 1)
      BY <3>1, <3>2, OffsetAssumption DEF Arrived, Bytes
    <3> QED BY <1>1, <2>2, <3>3 DEF Collected
  <2> QED BY <2>1, <2>2
<1>3. p.offset \in Nat
  BY <1>1 DEF Packet
<1> QED BY <1>1, <1>2, <1>3, StreamAssumption DEF Fits, Bytes

(* A run that goes on was a run before the packet arrived. *)
LEMMA RunningBefore ==
  ASSUME CollectInv, Receive, NEW a \in 1 .. next,
         a > 1 => a - 1 \in received' /\ Accepted(Stream[a - 1]),
         Boundary(a),
         \A i \in a .. next - 1 : Arrived(i)' /\ ~Stream[i].marker
  PROVE  Running(a) /\ Collected(a) /\ Typed(a)
<1>1. next \in Nat /\ received' = received \cup {next}
  BY DEF CollectInv, TypeInv, PlaceInv, Receive
<1>2. a > 1 => a - 1 \in received
  BY <1>1
<1>3. \A i \in a .. next - 1 : Arrived(i)
  BY <1>1 DEF Arrived
<1> QED BY <1>1, <1>2, <1>3 DEF Running, CollectInv

LEMMA CollectStep == CollectInv /\ [Next]_vars => CollectInv'
<1> SUFFICES ASSUME CollectInv, [Next]_vars PROVE CollectInv'
  OBVIOUS
<1>1. TypeInv /\ TypeInv'
  BY TypeStep DEF CollectInv
<1>2. next \in Nat \ {0} /\ received \subseteq 1 .. next - 1
  BY <1>1 DEF TypeInv, PlaceInv
<1> SUFFICES ASSUME NEW a \in 1 .. next', Running(a)'
             PROVE  Collected(a)' /\ Typed(a)'
  BY <1>1 DEF CollectInv
<1>3. CASE Receive
  <2> DEFINE p == Stream[next]
  <2>1. next \in Index /\ next' = next + 1 /\ received' = received \cup {next}
    BY <1>3 DEF Receive
  <2>2. Parse(next)
    BY <1>3 DEF Receive
  <2>3. CASE a = next + 1
    <3>1. Accepted(p) /\ p.marker
      BY <1>2, <2>3 DEF Running, Boundary
    <3>2. Overflow(p) \/ EndFrame(next, p)
      BY <2>2, <3>1 DEF Parse, Refuse, Collect
    <3>3. frame' = <<>> /\ frameLen' = 0 /\ packets' = 0
      BY <3>2 DEF Overflow, EndFrame, Empty
    <3>4. [j \in 1 .. next' - a |-> a + j - 1] = <<>>
      BY <1>2, <2>1, <2>3
    <3> QED BY <1>2, <2>1, <2>3, <3>3, <3>4 DEF Collected, Typed
  <2>4. CASE a # next + 1
    <3>1. a \in 1 .. next /\ next \in a .. next' - 1
      BY <1>2, <2>1, <2>4
    <3>2. /\ Accepted(p) /\ Bytes(next) <= MaxFrameSize /\ ~p.marker
          /\ \A i \in a .. next - 1 : Arrived(i)' /\ ~Stream[i].marker
      BY <1>2, <2>1, <3>1 DEF Running, Arrived, Bytes
    <3>3. Boundary(a) /\ (a > 1 => a - 1 \in received' /\ Accepted(Stream[a - 1]))
      BY DEF Running, Boundary
    <3>4. Running(a) /\ Collected(a) /\ Typed(a)
      BY <1>3, <3>1, <3>2, <3>3, RunningBefore
    <3>5. Fits(p) /\ frameLen + PayloadLen(p) = Bytes(next)
      BY <2>1, <3>1, <3>2, <3>4, NextFits
    <3>6. p \in Packet /\ PayloadLen(p) \in Int /\ frameLen \in Int
      BY <1>1, <2>1, IndexFacts, PayloadType DEF TypeInv, TypeOK
    <3>7. Collect(next, p)
      BY <2>2, <3>2, <3>5, <3>6, StreamAssumption
         DEF Parse, Refuse, Overflow, EndFrame, Fits
    <3>8. frame' = [j \in 1 .. next' - a |-> a + j - 1]
      <4>1. frame' = Append(frame, next) /\ frame \in Seq(Index)
        BY <1>1, <3>7 DEF Collect, TypeInv, TypeOK
      <4>2. Len(frame) = next - a /\ \A j \in 1 .. next - a : frame[j] = a + j - 1
        BY <1>2, <3>1, <3>4 DEF Collected
      <4>3. /\ frame' \in Seq(Index) /\ Len(frame') = next + 1 - a
            /\ \A j \in 1 .. next + 1 - a : frame'[j] = a + j - 1
        <5>1. Len(frame) + 1 = next + 1 - a
          BY <1>2, <3>1, <4>2
        <5>2. frame' \in Seq(Index) /\ Len(frame') = next + 1 - a
          BY <2>1, <4>1, <5>1, AppendFacts
        <5>3. \A j \in 1 .. Len(frame) : frame'[j] = a + j - 1
          BY <2>1, <4>1, <4>2, AppendFacts
        <5>4. frame'[next + 1 - a] = next /\ a + (next + 1 - a) - 1 = next
          BY <1>2, <2>1, <3>1, <4>1, <5>1, AppendFacts
        <5>5. ASSUME NEW j \in 1 .. next + 1 - a PROVE frame'[j] = a + j - 1
          <6>1. j \in 1 .. Len(frame) \/ j = next + 1 - a
            BY <1>2, <3>1, <4>2
          <6> QED BY <5>3, <5>4, <6>1
        <5> QED BY <5>2, <5>5
      <4>4. frame' = [j \in 1 .. Len(frame') |-> frame'[j]]
        BY <4>3
      <4> QED BY <1>2, <2>1, <4>3, <4>4
    <3>9. Collected(a)'
      <4>1. packets' = next' - a
        BY <1>2, <2>1, <3>4, <3>7 DEF Collect, Collected
      <4>2. frameLen' = Bytes(next) /\ next' - 1 = next /\ a # next'
        BY <1>2, <2>1, <2>4, <3>5, <3>7 DEF Collect
      <4> QED BY <3>8, <4>1, <4>2 DEF Collected, Bytes
    <3>10. Typed(a)'
      <4> SUFFICES ASSUME \A i \in a .. next : Stream[i].first <=> i = a
                   PROVE  frameType' = IF Stream[a].key THEN "key" ELSE "delta"
        BY <1>2, <2>1 DEF Typed
      <4>1. frameType' = TypeAfter(p)
        BY <3>7 DEF Collect
      <4>2. CASE a = next
        BY <3>1, <4>1, <4>2 DEF TypeAfter
      <4>3. CASE a # next
        <5>1. ~p.first /\ a < next
          BY <1>2, <3>1, <4>3
        <5>2. frameType = IF Stream[a].key THEN "key" ELSE "delta"
          BY <1>2, <3>4, <5>1 DEF Typed
        <5> QED BY <4>1, <5>1, <5>2 DEF TypeAfter
      <4> QED BY <4>2, <4>3
    <3> QED BY <3>9, <3>10
  <2> QED BY <2>3, <2>4
<1>4. CASE Lose
  <2>1. next' = next + 1 /\ received' = received
    BY <1>4 DEF Lose
  <2>2. next \notin received'
    BY <1>2, <2>1
  <2>3. a \in 1 .. next \/ a = next + 1
    BY <1>2, <2>1
  <2>4. CASE a = next + 1
    BY <1>2, <2>2, <2>4 DEF Running
  <2>5. CASE a \in 1 .. next
    <3>1. next \in a .. next' - 1
      BY <1>2, <2>1, <2>5
    <3> QED BY <2>2, <3>1 DEF Running, Arrived
  <2> QED BY <2>3, <2>4, <2>5
<1>5. CASE SetSyncPoint
  <2>1. /\ next' = next /\ received' = {} /\ packets' = packets
        /\ frame' = <<>> /\ frameLen' = 0
    BY <1>5 DEF SetSyncPoint
  <2>2. a = 1
    BY <2>1 DEF Running
  <2>3. next = 1
    <3>1. next > 1 => 1 \in a .. next' - 1
      BY <1>2, <2>1, <2>2
    <3> QED BY <1>2, <2>1, <3>1 DEF Running, Arrived
  <2>4. Running(1)
    BY <2>3 DEF Running, Boundary
  <2>5. packets = 0
    BY <2>3, <2>4 DEF CollectInv, Collected
  <2>6. [j \in 1 .. next' - a |-> a + j - 1] = <<>>
    BY <2>1, <2>2, <2>3
  <2> QED BY <2>1, <2>2, <2>3, <2>5, <2>6 DEF Collected, Typed
<1>6. CASE UNCHANGED vars
  BY <1>6 DEF vars, CollectInv, Running, Collected, Typed, Arrived
<1> QED BY <1>3, <1>4, <1>5, <1>6 DEF Next

LEMMA WholeFramesStep == CollectInv /\ WholeFrames /\ [Next]_vars => WholeFrames'
<1> SUFFICES ASSUME CollectInv, WholeFrames, [Next]_vars PROVE WholeFrames'
  OBVIOUS
<1>1. next \in Nat \ {0} /\ received \subseteq 1 .. next - 1 /\ TypeInv
  BY DEF CollectInv, TypeInv, PlaceInv
<1>2. CASE Receive
  <2> DEFINE p == Stream[next]
  <2>1. next \in Index /\ next' = next + 1 /\ received' = received \cup {next}
    BY <1>2 DEF Receive
  <2> PICK b \in Index : b = next
    BY <2>1
  <2> SUFFICES ASSUME out' # NoFrame, NEW a \in Index, Sent(a, b), Intact(a, b)'
               PROVE  /\ out'.parts = [j \in 1 .. b - a + 1 |-> a + j - 1]
                      /\ out'.packets = b - a + 1
                      /\ out'.key = Stream[a].key
    <3>1. next' - 1 = b
      BY <1>1, <2>1
    <3> QED BY <3>1 DEF WholeFrames
  <2>2. a \in 1 .. next /\ next \in a .. next
    BY <1>1 DEF Sent, Index
  <2>3. EndFrame(next, p)
    BY <1>2 DEF Receive, Parse, Refuse, Overflow, Collect
  <2>4. Running(a) /\ Collected(a) /\ Typed(a)
    <3>1. \A i \in a .. next - 1 : Arrived(i)' /\ ~Stream[i].marker
      BY <1>1, <2>2 DEF Sent, Intact
    <3> QED BY <1>2, <2>2, <3>1, RunningBefore DEF Sent, Intact
  <2>5. out' = [parts |-> Append(frame, next), key |-> TypeAfter(p) = "key",
                packets |-> packets + 1]
    BY <2>3 DEF EndFrame
  <2>6. out'.packets = next - a + 1
    BY <1>1, <2>2, <2>4, <2>5 DEF Collected
  <2>7. out'.parts = [j \in 1 .. next - a + 1 |-> a + j - 1]
    <3> DEFINE s == Append(frame, next)
    <3>1. Len(frame) = next - a /\ \A j \in 1 .. next - a : frame[j] = a + j - 1
      BY <1>1, <2>2, <2>4 DEF Collected
    <3>2. /\ s \in Seq(Index) /\ Len(s) = next - a + 1
          /\ \A j \in 1 .. next - a + 1 : s[j] = a + j - 1
      BY <1>1, <2>1, <2>2, <3>1, AppendFacts DEF TypeInv, TypeOK
    <3> HIDE DEF s
    <3>3. s = [j \in 1 .. Len(s) |-> s[j]]
      BY <3>2
    <3>4. s = [j \in 1 .. next - a + 1 |-> a + j - 1]
      BY <3>2, <3>3
    <3> QED BY <2>5, <3>4 DEF s
  <2>8. out'.key = Stream[a].key
    <3>1. \A i \in a .. next : Stream[i].first <=> i = a
      BY DEF Sent
    <3>2. Stream[a].key \in BOOLEAN
      BY IndexFacts DEF Packet
    <3>3. TypeAfter(p) = IF Stream[a].key THEN "key" ELSE "delta"
      <4>1. CASE a = next
        BY <2>2, <3>1, <4>1 DEF TypeAfter
      <4>2. CASE a # next
        <5>1. a < next /\ ~p.first
          BY <1>1, <2>2, <3>1, <4>2
        <5>2. frameType = IF Stream[a].key THEN "key" ELSE "delta"
          BY <1>1, <2>2, <2>4, <3>1, <5>1 DEF Typed
        <5> QED BY <5>1, <5>2 DEF TypeAfter
      <4> QED BY <4>1, <4>2
    <3> QED BY <2>5, <3>2, <3>3
  <2> QED BY <2>6, <2>7, <2>8
<1>3. CASE Lose
  <2>1. next' - 1 = next /\ received' = received /\ next \notin received
    BY <1>1, <1>3 DEF Lose
  <2> PICK b \in Index : b = next
    BY <1>3 DEF Lose
  <2>2. ASSUME NEW a \in Index, Sent(a, b), Intact(a, b)' PROVE FALSE
    <3>1. b \in a .. b
      BY <1>1, <2>2 DEF Sent, Index
    <3> QED BY <2>1, <2>2, <3>1 DEF Intact, Arrived
  <2> QED BY <2>1, <2>2 DEF WholeFrames
<1>4. CASE SetSyncPoint
  BY <1>4 DEF SetSyncPoint, WholeFrames
<1>5. CASE UNCHANGED vars
  BY <1>5 DEF vars, WholeFrames, Sent, Intact, Arrived
<1> QED BY <1>2, <1>3, <1>4, <1>5 DEF Next

(* A frame of which nothing was lost, after a marker that was not lost, is *)
(* delivered as it was sent or not at all.                                 *)
THEOREM DeliveredWhole == Spec => []WholeFrames
<1>1. Init => CollectInv /\ WholeFrames
  BY CollectInit DEF Init, WholeFrames
<1> QED BY <1>1, CollectStep, WholeFramesStep, PTL DEF Spec

-----------------------------------------------------------------------------
(* Some packet in s begins a key frame. *)
HasKeyStart(s) ==
  \E i \in Index : KeyStart(Stream[i]) /\ \E j \in 1 .. Len(s) : s[j] = i

(* While a key frame is awaited, m_frame_type is that of a frame whose     *)
(* first packet is still in the buffer.                                    *)
AwaitInv ==
  /\ TypeInv
  /\ FirstRequest /\ keyRequired /\ frameType = "key" => HasKeyStart(frame)

LEMMA AppendKeepsKeyStart ==
  ASSUME NEW s \in Seq(Index), NEW i \in Index,
         HasKeyStart(s) \/ KeyStart(Stream[i])
  PROVE  HasKeyStart(Append(s, i))
<1>1. CASE HasKeyStart(s)
  <2>1. PICK k \in Index, j \in 1 .. Len(s) : KeyStart(Stream[k]) /\ s[j] = k
    BY <1>1 DEF HasKeyStart
  <2>2. j \in 1 .. Len(Append(s, i)) /\ Append(s, i)[j] = k
    BY <2>1, AppendFacts
  <2> QED BY <2>1, <2>2 DEF HasKeyStart
<1>2. CASE KeyStart(Stream[i])
  <2>1. Len(s) + 1 \in 1 .. Len(Append(s, i)) /\ Append(s, i)[Len(s) + 1] = i
    BY AppendFacts
  <2> QED BY <1>2, <2>1 DEF HasKeyStart
<1> QED BY <1>1, <1>2

(* The depacketizer starts with a key frame: before any set_sync_point,    *)
(* the first frame delivered contains the first packet of a key frame,     *)
(* unless a key frame without its header has come.                         *)
THEOREM StartsWithKeyFrame == Spec => SyncPointHonoured
<1>1. Init => AwaitInv
  BY TypeInit DEF Init, AwaitInv
<1>2. AwaitInv /\ [Next]_vars =>
        /\ AwaitInv'
        /\ FirstRequest /\ keyRequired /\ ~keyRequired' => HasKeyStart(out'.parts)
  <2> SUFFICES ASSUME AwaitInv, [Next]_vars
               PROVE  /\ AwaitInv'
                      /\ FirstRequest /\ keyRequired /\ ~keyRequired'
                           => HasKeyStart(out'.parts)
    OBVIOUS
  <2>1. TypeInv /\ TypeInv'
    BY TypeStep DEF AwaitInv
  <2>2. CASE Receive
    <3> DEFINE p == Stream[next]
    <3>1. next \in Index /\ Parse(next) /\ received' = received \cup {next}
          /\ syncs' = syncs
      BY <2>2 DEF Receive
    <3>2. frame \in Seq(Index)
      BY <2>1 DEF TypeInv, TypeOK
    <3>3. FirstRequest' => FirstRequest /\ ~ParseVP8FrameSizeFails(p)
      BY <3>1 DEF FirstRequest
    <3>4. FirstRequest /\ keyRequired /\ TypeAfter(p) = "key"
            => HasKeyStart(Append(frame, next))
      <4> SUFFICES ASSUME FirstRequest, keyRequired, TypeAfter(p) = "key"
                   PROVE  HasKeyStart(Append(frame, next))
        OBVIOUS
      <4>1. CASE p.first
        BY <3>1, <3>2, <4>1, AppendKeepsKeyStart DEF TypeAfter, KeyStart
      <4>2. CASE ~p.first
        BY <3>1, <3>2, <4>2, AppendKeepsKeyStart DEF TypeAfter, AwaitInv
      <4> QED BY <4>1, <4>2
    <3>5. CASE Refuse(p)
      <4>1. FirstRequest' => frameType' = frameType
        BY <3>3, <3>5 DEF Refuse, Accepted
      <4> QED BY <2>1, <3>3, <3>5, <4>1 DEF Refuse, AwaitInv
    <3>6. CASE Overflow(p)
      BY <2>1, <3>6 DEF Overflow, AwaitInv
    <3>7. CASE Collect(next, p)
      BY <2>1, <3>3, <3>4, <3>7 DEF Collect, AwaitInv
    <3>8. CASE EndFrame(next, p)
      <4>1. keyRequired' => TypeAfter(p) # "key" /\ frameType' = TypeAfter(p)
        BY <3>8 DEF EndFrame, Dropped
      <4>2. keyRequired /\ ~keyRequired' => TypeAfter(p) = "key" /\ ~Dropped(p)
        BY <3>8 DEF EndFrame, Dropped
      <4>3. ~Dropped(p) => out'.parts = Append(frame, next)
        BY <3>8 DEF EndFrame
      <4> QED BY <2>1, <3>4, <4>1, <4>2, <4>3 DEF AwaitInv
    <3> QED BY <3>1, <3>5, <3>6, <3>7, <3>8 DEF Parse
  <2>3. CASE Lose
    BY <2>1, <2>3 DEF Lose, AwaitInv, FirstRequest
  <2>4. CASE SetSyncPoint
    <3>1. ~FirstRequest' /\ keyRequired'
      BY <2>1, <2>4 DEF SetSyncPoint, FirstRequest, TypeInv, TypeOK
    <3> QED BY <2>1, <3>1 DEF AwaitInv
  <2>5. CASE UNCHANGED vars
    BY <2>1, <2>5 DEF vars, AwaitInv, FirstRequest
  <2> QED BY <2>2, <2>3, <2>4, <2>5 DEF Next
<1>3. AwaitInv /\ [Next]_vars =>
        [FirstRequest /\ keyRequired /\ ~keyRequired' => HasKeyStart(out'.parts)]_vars
  BY <1>2
<1> QED BY <1>1, <1>2, <1>3, PTL DEF Spec, SyncPointHonoured, HasKeyStart
=============================================================================
