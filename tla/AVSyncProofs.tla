---------------------------- MODULE AVSyncProofs ----------------------------
(***************************************************************************)
(* What AVSync does for any set of frames, any timestamps and any clock    *)
(* steps: its types, the ownership of frames, the buffering discipline,    *)
(* the pace of its internal timer, and that it implements PlayoutBuffer;   *)
(* and the drift of the pace over any number of frames (VideoPacing).      *)
(***************************************************************************)
EXTENDS AVSync, VideoPacing, TLAPS

-----------------------------------------------------------------------------
(* The arithmetic of AVTime, for every clock and every width. *)

(* Remainder and quotient by a positive number, as SMT knows them. *)
LEMMA DivMod ==
  ASSUME NEW a \in Int, NEW b \in Nat \ {0}
  PROVE  /\ a % b \in 0 .. b - 1
         /\ a \div b \in Int
         /\ b * (a \div b) <= a
         /\ a < b * (a \div b) + b
         /\ a >= 0 => a \div b \in Nat
  OBVIOUS

(* An amount below the modulus is its own remainder. *)
LEMMA SmallMod ==
  ASSUME NEW b \in Nat \ {0}, NEW a \in 0 .. b - 1
  PROVE  a % b = a
  OBVIOUS

(* Quotients and remainders are unique. *)
LEMMA ModUnique ==
  ASSUME NEW a \in Int, NEW b \in Nat \ {0}, NEW q \in Int, NEW r \in 0 .. b - 1,
         a = b * q + r
  PROVE  a % b = r
<1> DEFINE q2 == a \div b
           r2 == a % b
<1>1. q2 \in Int /\ r2 \in 0 .. b - 1 /\ a = b * q2 + r2
  OBVIOUS
<1> HIDE DEF q2, r2
<1>2. b * (q - q2) = r2 - r
  <2>1. b * (q - q2) = b * q - b * q2
    BY <1>1
  <2> QED BY <1>1, <2>1
<1>3. ~(q > q2)
  <2>1. q > q2 => b * (q - q2) >= b
    BY <1>1
  <2> QED BY <1>1, <1>2, <2>1
<1>4. ~(q < q2)
  <2>1. q < q2 => b * (q - q2) <= -b
    BY <1>1
  <2> QED BY <1>1, <1>2, <2>1
<1>5. r2 = r
  BY <1>1, <1>3, <1>4
<1> QED BY <1>5 DEF r2

(* Across the wrap of the timestamp, a step of s ticks is still s ticks. *)
LEMMA StepTicks ==
  ASSUME NEW last \in Timestamp, NEW s \in Nat, s < U32
  PROVE  /\ (last + s) % U32 \in Timestamp
         /\ (((last + s) % U32) - last) % U32 = s
<1> USE WidthAssumption DEF Timestamp
<1>1. CASE last + s < U32
  <2>1. (last + s) % U32 = last + s
    BY <1>1, SmallMod
  <2>2. s % U32 = s
    BY SmallMod
  <2> QED BY <1>1, <2>1, <2>2
<1>2. CASE last + s >= U32
  <2>1. (last + s) % U32 = last + s - U32
    <3>1. last + s = U32 * 1 + (last + s - U32) /\ last + s - U32 \in 0 .. U32 - 1
      BY <1>2
    <3> QED BY <3>1, ModUnique
  <2>2. (s - U32) % U32 = s
    <3>1. s - U32 = U32 * (-1) + s /\ s \in 0 .. U32 - 1
      OBVIOUS
    <3> QED BY <3>1, ModUnique
  <2> QED BY <1>2, <2>1, <2>2
<1> QED BY <1>1, <1>2

(* The difference that a step of s ticks leaves, before it is reduced. *)
LEMMA StepDifference ==
  ASSUME NEW last \in Timestamp, NEW s \in Nat, s < U32
  PROVE  \E k \in {0, 1} : ((last + s) % U32) - last = s - U32 * k
<1> USE WidthAssumption DEF Timestamp
<1>1. CASE last + s < U32
  <2>1. (last + s) % U32 = last + s
    BY <1>1, SmallMod
  <2> QED BY <2>1
<1>2. CASE last + s >= U32
  <2>1. last + s = U32 * 1 + (last + s - U32) /\ last + s - U32 \in 0 .. U32 - 1
    BY <1>2
  <2>2. (last + s) % U32 = last + s - U32
    BY <2>1, ModUnique
  <2>3. last + s - U32 - last = s - U32 * 1
    OBVIOUS
  <2> QED BY <2>2, <2>3
<1> QED BY <1>1, <1>2

(* The duration of a step of s ticks, if s * 1000 fits in uint32_t. *)
LEMMA StepDuration ==
  ASSUME NEW last \in Timestamp, NEW s \in Nat, s * 1000 < U32
  PROVE  DurationMs((last + s) % U32, last) = (s * 1000) \div RTP_VIDEO_CLOCK
<1> DEFINE z == (((last + s) % U32) - last) * 1000
           m == s * 1000
<1>1. PICK k \in {0, 1} : ((last + s) % U32) - last = s - U32 * k
  BY StepDifference, WidthAssumption
<1>2. z = U32 * (-1000 * k) + m /\ -1000 * k \in Int
  <2>1. z = (s - U32 * k) * 1000
    BY <1>1
  <2>2. (s - U32 * k) * 1000 = U32 * (-1000 * k) + s * 1000
    BY WidthAssumption
  <2> QED BY <2>1, <2>2
<1>3. m \in 0 .. U32 - 1 /\ z \in Int
  BY <1>1, WidthAssumption
<1>4. z % U32 = m
  <2> HIDE DEF z, m
  <2> QED BY <1>2, <1>3, ModUnique, WidthAssumption
<1> QED
  BY <1>4 DEF DurationMs

LEMMA DurationType ==
  ASSUME NEW p \in Timestamp, NEW q \in Timestamp
  PROVE  DurationMs(p, q) \in Nat
<1> DEFINE d == (p - q) * 1000
           r == d % U32
<1>1. d \in Int
  BY WidthAssumption DEF Timestamp
<1>2. r \in Nat
  <2> HIDE DEF d
  <2> QED BY <1>1, WidthAssumption
<1>3. r \div RTP_VIDEO_CLOCK \in Nat
  <2> HIDE DEF r
  <2> QED BY <1>2, ClockAssumption
<1> QED
  BY <1>3 DEF DurationMs

LEMMA LatencyType ==
  ASSUME NEW p \in Timestamp, NEW q \in Timestamp
  PROVE  LatencyMs(p, q) \in Nat
<1> DEFINE r == (p - q) % U32
           s == r \div RTP_VIDEO_CLOCK
<1>1. r \in Nat
  BY WidthAssumption DEF Timestamp
<1>2. s \in Nat
  <2> HIDE DEF r
  <2> QED BY <1>1, ClockAssumption
<1>3. s * 1000 \in Nat
  <2> HIDE DEF s
  <2> QED BY <1>2
<1> QED
  BY <1>3 DEF LatencyMs

-----------------------------------------------------------------------------
(* Queues. *)

LEMMA AppendFacts ==
  ASSUME NEW S, NEW q \in Seq(S), NEW f \in S
  PROVE  /\ Append(q, f) \in Seq(S)
         /\ Append(q, f) # <<>>
         /\ \A g : InQ(Append(q, f), g) <=> InQ(q, g) \/ g = f
         /\ NoDup(q) /\ ~InQ(q, f) => NoDup(Append(q, f))
BY DEF InQ, NoDup

LEMMA TailFacts ==
  ASSUME NEW S, NEW q \in Seq(S), q # <<>>
  PROVE  /\ Head(q) \in S
         /\ Tail(q) \in Seq(S)
         /\ InQ(q, Head(q))
         /\ NoDup(q) => NoDup(Tail(q))
         /\ NoDup(q) => \A g : InQ(Tail(q), g) <=> InQ(q, g) /\ g # Head(q)
<1>1. /\ Len(q) \in Nat \ {0} /\ Head(q) = q[1] /\ Head(q) \in S
      /\ Tail(q) \in Seq(S) /\ Len(Tail(q)) = Len(q) - 1
      /\ \A i \in 1 .. Len(q) - 1 : Tail(q)[i] = q[i + 1]
  OBVIOUS
<1>2. InQ(q, Head(q))
  BY <1>1 DEF InQ
<1>3. ASSUME NoDup(q) PROVE NoDup(Tail(q))
  BY <1>1, <1>3 DEF NoDup
<1>4. ASSUME NoDup(q), NEW g
      PROVE  InQ(Tail(q), g) <=> InQ(q, g) /\ g # Head(q)
  <2>1. ASSUME InQ(Tail(q), g) PROVE InQ(q, g) /\ g # Head(q)
    BY <1>1, <1>4, <2>1 DEF InQ, NoDup
  <2>2. ASSUME InQ(q, g), g # Head(q) PROVE InQ(Tail(q), g)
    <3>1. PICK i \in 1 .. Len(q) : q[i] = g
      BY <2>2 DEF InQ
    <3>2. i # 1
      BY <1>1, <2>2, <3>1
    <3>3. i - 1 \in 1 .. Len(q) - 1 /\ Tail(q)[i - 1] = g
      BY <1>1, <3>1, <3>2
    <3> QED
      BY <1>1, <3>3 DEF InQ
  <2> QED
    BY <2>1, <2>2
<1> QED
  BY <1>1, <1>2, <1>3, <1>4

LEMMA EmptyFacts ==
  /\ \A S : <<>> \in Seq(S)
  /\ NoDup(<<>>)
  /\ \A f : ~InQ(<<>>, f)
BY DEF NoDup, InQ

LEMMA VideoLatencyType == videoQ \in Seq(VideoFrame) => VideoLatencyMs \in Nat
<1> SUFFICES ASSUME videoQ \in Seq(VideoFrame), videoQ # <<>>
             PROVE  LatencyMs(videoQ[Len(videoQ)].pts, videoQ[1].pts) \in Nat
  BY DEF VideoLatencyMs
<1>1. videoQ[1] \in VideoFrame /\ videoQ[Len(videoQ)] \in VideoFrame
  OBVIOUS
<1>2. videoQ[1].pts \in Timestamp /\ videoQ[Len(videoQ)].pts \in Timestamp
  BY <1>1, FrameAssumption
<1> QED
  BY <1>2, LatencyType

-----------------------------------------------------------------------------
(* Ownership of frames. *)

LEMMA OwnershipInit == Init => OwnershipInv
<1> SUFFICES ASSUME Init PROVE OwnershipInv
  OBVIOUS
<1>1. TypeOK
  <2>1. <<>> \in Seq(VideoFrame) /\ <<>> \in Seq(AudioFrame)
    OBVIOUS
  <2>2. 0 \in Timestamp
    BY WidthAssumption DEF Timestamp
  <2> QED
    BY <2>1, <2>2 DEF Init, TypeOK, Thread
<1>2. HeldFrames
  BY DEF Init, HeldFrames, Holding, Thread
<1>3. QueuedOnce
  BY EmptyFacts DEF Init, QueuedOnce, Thread
<1>4. RefsCountOwners
  BY EmptyFacts, FrameAssumption
     DEF Init, RefsCountOwners, Owners, Bit, Thread, Frame
<1> QED
  BY <1>1, <1>2, <1>3, <1>4 DEF OwnershipInv

LEMMA OwnershipStep == OwnershipInv /\ [Next]_vars => OwnershipInv'
<1> SUFFICES ASSUME OwnershipInv, [Next]_vars PROVE OwnershipInv'
  OBVIOUS
<1> USE DEF OwnershipInv, Goto, Thread, sync, pacing, clocks, frames
<1>1. CASE PlayVideo
  <2>1. TypeOK'
    BY <1>1 DEF TypeOK, PlayVideo
  <2>2. HeldFrames'
    BY <1>1 DEF TypeOK, PlayVideo, HeldFrames, Holding
  <2>3. QueuedOnce'
    BY <1>1 DEF TypeOK, PlayVideo, QueuedOnce, NoDup, InQ
  <2>4. RefsCountOwners'
    BY <1>1 DEF PlayVideo, RefsCountOwners, Owners, Bit
  <2> QED BY <2>1, <2>2, <2>3, <2>4
<1>2. CASE PlayAudio
  <2>1. TypeOK'
    BY <1>2 DEF TypeOK, PlayAudio
  <2>2. HeldFrames'
    BY <1>2 DEF TypeOK, PlayAudio, HeldFrames, Holding
  <2>3. QueuedOnce'
    BY <1>2 DEF TypeOK, PlayAudio, QueuedOnce, NoDup, InQ
  <2>4. RefsCountOwners'
    BY <1>2 DEF PlayAudio, RefsCountOwners, Owners, Bit
  <2> QED BY <2>1, <2>2, <2>3, <2>4
<1>3. CASE SetClock
  <2>1. TypeOK'
    BY <1>3 DEF TypeOK, SetClock
  <2>2. HeldFrames'
    BY <1>3 DEF TypeOK, SetClock, HeldFrames, Holding
  <2>3. QueuedOnce'
    BY <1>3 DEF TypeOK, SetClock, QueuedOnce, NoDup, InQ
  <2>4. RefsCountOwners'
    BY <1>3 DEF SetClock, RefsCountOwners, Owners, Bit
  <2> QED BY <2>1, <2>2, <2>3, <2>4
<1>4. CASE \E f \in VideoFrame : DecodeImage(f)
  <2>0. PICK f \in VideoFrame : DecodeImage(f)
    BY <1>4
  <2>1. TypeOK'
    BY <2>0 DEF TypeOK, DecodeImage, Own, Frame
  <2>2. HeldFrames'
    BY <2>0 DEF TypeOK, DecodeImage, Own, HeldFrames, Holding
  <2>3. Owners(f) = 0
    BY <2>0 DEF DecodeImage, RefsCountOwners, Frame
  <2>4. /\ ~InQ(videoQ, f) /\ ~InQ(audioQ, f)
        /\ \A t \in Thread : held[t] # f
    BY <2>3 DEF Owners, Bit
  <2>5. QueuedOnce'
    BY <2>0, <2>4 DEF TypeOK, DecodeImage, Own, QueuedOnce, NoDup, InQ
  <2>6. held["vdec"] = NoFrame
    BY <2>0 DEF DecodeImage, HeldFrames, Holding
  <2>7. RefsCountOwners'
    <3> SUFFICES ASSUME NEW g \in Frame PROVE refs'[g] = Owners(g)'
      BY DEF RefsCountOwners
    <3>1. refs[g] = Owners(g)
      BY DEF RefsCountOwners
    <3> QED
      BY <2>0, <2>4, <2>6, FrameAssumption, <3>1
         DEF TypeOK, DecodeImage, Own, Owners, Bit, Frame
  <2> QED BY <2>1, <2>2, <2>5, <2>7
<1>5. CASE \E f \in AudioFrame : DecodePcm(f)
  <2>0. PICK f \in AudioFrame : DecodePcm(f)
    BY <1>5
  <2>1. TypeOK'
    BY <2>0 DEF TypeOK, DecodePcm, Own, Frame
  <2>2. HeldFrames'
    BY <2>0 DEF TypeOK, DecodePcm, Own, HeldFrames, Holding
  <2>3. Owners(f) = 0
    BY <2>0 DEF DecodePcm, RefsCountOwners, Frame
  <2>4. /\ ~InQ(videoQ, f) /\ ~InQ(audioQ, f)
        /\ \A t \in Thread : held[t] # f
    BY <2>3 DEF Owners, Bit
  <2>5. QueuedOnce'
    BY <2>0, <2>4 DEF TypeOK, DecodePcm, Own, QueuedOnce, NoDup, InQ
  <2>6. held["adec"] = NoFrame
    BY <2>0 DEF DecodePcm, HeldFrames, Holding
  <2>7. RefsCountOwners'
    <3> SUFFICES ASSUME NEW g \in Frame PROVE refs'[g] = Owners(g)'
      BY DEF RefsCountOwners
    <3>1. refs[g] = Owners(g)
      BY DEF RefsCountOwners
    <3> QED
      BY <2>0, <2>4, <2>6, FrameAssumption, <3>1
         DEF TypeOK, DecodePcm, Own, Owners, Bit, Frame
  <2> QED BY <2>1, <2>2, <2>5, <2>7
<1>6. CASE PushVideo
  <2> DEFINE f == held["vdec"]
  <2>0. f \in VideoFrame /\ videoQ \in Seq(VideoFrame) /\ ~InQ(videoQ, f) /\ NoDup(videoQ)
    BY <1>6 DEF TypeOK, PushVideo, HeldFrames, Holding, QueuedOnce
  <2>1. /\ videoQ' \in Seq(VideoFrame) /\ NoDup(videoQ')
        /\ \A g : InQ(videoQ', g) <=> InQ(videoQ, g) \/ g = f
    BY <1>6, <2>0, AppendFacts DEF PushVideo
  <2>2. TypeOK'
    BY <1>6, <2>0, <2>1 DEF TypeOK, PushVideo, Frame
  <2>3. HeldFrames'
    BY <1>6 DEF TypeOK, PushVideo, HeldFrames, Holding
  <2>4. QueuedOnce'
    <3>1. pc'["vdec"] # "push" /\ pc'["adec"] = pc["adec"]
      BY <1>6 DEF TypeOK, PushVideo
    <3>2. audioQ' = audioQ /\ held'["adec"] = held["adec"]
      BY <1>6 DEF PushVideo
    <3>3. NoDup(audioQ') /\ (pc["adec"] = "push" => ~InQ(audioQ', held["adec"]))
      BY <3>2 DEF QueuedOnce
    <3>4. pc'["adec"] = "push" => ~InQ(audioQ', held'["adec"])
      BY <3>1, <3>2, <3>3
    <3>5. NoDup(videoQ)' /\ NoDup(audioQ)'
      BY <2>1, <3>3 DEF NoDup
    <3>6. pc'["adec"] = "push" => ~InQ(audioQ, held["adec"])'
      BY <3>4 DEF InQ
    <3> QED BY <3>1, <3>5, <3>6 DEF QueuedOnce
  <2>5. RefsCountOwners'
    <3> SUFFICES ASSUME NEW g \in Frame PROVE refs'[g] = Owners(g)'
      BY DEF RefsCountOwners
    <3>1. refs[g] = Owners(g)
      BY DEF RefsCountOwners
    <3> QED
      BY <1>6, <2>0, <2>1, <3>1
         DEF TypeOK, PushVideo, Owners, Bit, Frame
  <2> QED BY <2>2, <2>3, <2>4, <2>5
<1>7. CASE PushAudio
  <2> DEFINE f == held["adec"]
  <2>0. f \in AudioFrame /\ audioQ \in Seq(AudioFrame) /\ ~InQ(audioQ, f) /\ NoDup(audioQ)
    BY <1>7 DEF TypeOK, PushAudio, HeldFrames, Holding, QueuedOnce
  <2>1. /\ audioQ' \in Seq(AudioFrame) /\ NoDup(audioQ')
        /\ \A g : InQ(audioQ', g) <=> InQ(audioQ, g) \/ g = f
    BY <1>7, <2>0, AppendFacts DEF PushAudio
  <2>2. TypeOK'
    BY <1>7, <2>0, <2>1 DEF TypeOK, PushAudio, Frame
  <2>3. HeldFrames'
    BY <1>7 DEF TypeOK, PushAudio, HeldFrames, Holding
  <2>4. QueuedOnce'
    BY <1>7, <2>1 DEF TypeOK, PushAudio, QueuedOnce, NoDup, InQ
  <2>5. RefsCountOwners'
    <3> SUFFICES ASSUME NEW g \in Frame PROVE refs'[g] = Owners(g)'
      BY DEF RefsCountOwners
    <3>1. refs[g] = Owners(g)
      BY DEF RefsCountOwners
    <3> QED
      BY <1>7, <2>0, <2>1, <3>1
         DEF TypeOK, PushAudio, Owners, Bit, Frame
  <2> QED BY <2>2, <2>3, <2>4, <2>5
<1>8. CASE ReadLatency
  <2>1. TypeOK'
    BY <1>8, VideoLatencyType DEF TypeOK, ReadLatency
  <2>2. HeldFrames'
    BY <1>8 DEF TypeOK, ReadLatency, HeldFrames, Holding
  <2>3. QueuedOnce'
    BY <1>8 DEF TypeOK, ReadLatency, QueuedOnce, NoDup, InQ
  <2>4. RefsCountOwners'
    BY <1>8 DEF ReadLatency, RefsCountOwners, Owners, Bit
  <2> QED BY <2>1, <2>2, <2>3, <2>4
<1>9. CASE StopBuffering
  <2>1. TypeOK'
    BY <1>9 DEF TypeOK, StopBuffering
  <2>2. HeldFrames'
    BY <1>9 DEF TypeOK, StopBuffering, HeldFrames, Holding
  <2>3. QueuedOnce'
    BY <1>9 DEF TypeOK, StopBuffering, QueuedOnce, NoDup, InQ
  <2>4. RefsCountOwners'
    BY <1>9 DEF StopBuffering, RefsCountOwners, Owners, Bit
  <2> QED BY <2>1, <2>2, <2>3, <2>4
<1>10. CASE DecoderRelease("vdec")
  <2>0. held["vdec"] \in Frame /\ refs[held["vdec"]] \in Nat \ {0}
    <3>1. held["vdec"] \in Frame
      BY <1>10 DEF DecoderRelease, HeldFrames, Holding, Frame
    <3>2. Owners(held["vdec"]) # 0
      BY DEF Owners, Bit
    <3> QED BY <3>1, <3>2 DEF RefsCountOwners, TypeOK
  <2>1. TypeOK'
    BY <1>10, <2>0 DEF TypeOK, DecoderRelease, Release, Frame
  <2>2. HeldFrames'
    BY <1>10 DEF TypeOK, DecoderRelease, Release, HeldFrames, Holding
  <2>3. QueuedOnce'
    BY <1>10 DEF TypeOK, DecoderRelease, Release, QueuedOnce, NoDup, InQ
  <2>4. RefsCountOwners'
    <3> SUFFICES ASSUME NEW g \in Frame PROVE refs'[g] = Owners(g)'
      BY DEF RefsCountOwners
    <3>1. refs[g] = Owners(g)
      BY DEF RefsCountOwners
    <3> QED
      BY <1>10, <2>0, FrameAssumption, <3>1
         DEF TypeOK, DecoderRelease, Release, Owners, Bit, Frame
  <2> QED BY <2>1, <2>2, <2>3, <2>4
<1>11. CASE DecoderRelease("adec")
  <2>0. held["adec"] \in Frame /\ refs[held["adec"]] \in Nat \ {0}
    <3>1. held["adec"] \in Frame
      BY <1>11 DEF DecoderRelease, HeldFrames, Holding, Frame
    <3>2. Owners(held["adec"]) # 0
      BY DEF Owners, Bit
    <3> QED BY <3>1, <3>2 DEF RefsCountOwners, TypeOK
  <2>1. TypeOK'
    BY <1>11, <2>0 DEF TypeOK, DecoderRelease, Release, Frame
  <2>2. HeldFrames'
    BY <1>11 DEF TypeOK, DecoderRelease, Release, HeldFrames, Holding
  <2>3. QueuedOnce'
    BY <1>11 DEF TypeOK, DecoderRelease, Release, QueuedOnce, NoDup, InQ
  <2>4. RefsCountOwners'
    <3> SUFFICES ASSUME NEW g \in Frame PROVE refs'[g] = Owners(g)'
      BY DEF RefsCountOwners
    <3>1. refs[g] = Owners(g)
      BY DEF RefsCountOwners
    <3> QED
      BY <1>11, <2>0, FrameAssumption, <3>1
         DEF TypeOK, DecoderRelease, Release, Owners, Bit, Frame
  <2> QED BY <2>1, <2>2, <2>3, <2>4
<1>12. CASE RendererRelease("vout")
  <2>0. held["vout"] \in Frame /\ refs[held["vout"]] \in Nat \ {0}
    <3>1. held["vout"] \in Frame
      BY <1>12 DEF RendererRelease, HeldFrames, Holding, Frame
    <3>2. Owners(held["vout"]) # 0
      BY DEF Owners, Bit
    <3> QED BY <3>1, <3>2 DEF RefsCountOwners, TypeOK
  <2>1. TypeOK'
    BY <1>12, <2>0 DEF TypeOK, RendererRelease, Release, Frame
  <2>2. HeldFrames'
    BY <1>12 DEF TypeOK, RendererRelease, Release, HeldFrames, Holding
  <2>3. QueuedOnce'
    BY <1>12 DEF TypeOK, RendererRelease, Release, QueuedOnce, NoDup, InQ
  <2>4. RefsCountOwners'
    <3> SUFFICES ASSUME NEW g \in Frame PROVE refs'[g] = Owners(g)'
      BY DEF RefsCountOwners
    <3>1. refs[g] = Owners(g)
      BY DEF RefsCountOwners
    <3> QED
      BY <1>12, <2>0, FrameAssumption, <3>1
         DEF TypeOK, RendererRelease, Release, Owners, Bit, Frame
  <2> QED BY <2>1, <2>2, <2>3, <2>4
<1>13. CASE RendererRelease("aout")
  <2>0. held["aout"] \in Frame /\ refs[held["aout"]] \in Nat \ {0}
    <3>1. held["aout"] \in Frame
      BY <1>13 DEF RendererRelease, HeldFrames, Holding, Frame
    <3>2. Owners(held["aout"]) # 0
      BY DEF Owners, Bit
    <3> QED BY <3>1, <3>2 DEF RefsCountOwners, TypeOK
  <2>1. TypeOK'
    BY <1>13, <2>0 DEF TypeOK, RendererRelease, Release, Frame
  <2>2. HeldFrames'
    BY <1>13 DEF TypeOK, RendererRelease, Release, HeldFrames, Holding
  <2>3. QueuedOnce'
    BY <1>13 DEF TypeOK, RendererRelease, Release, QueuedOnce, NoDup, InQ
  <2>4. RefsCountOwners'
    <3> SUFFICES ASSUME NEW g \in Frame PROVE refs'[g] = Owners(g)'
      BY DEF RefsCountOwners
    <3>1. refs[g] = Owners(g)
      BY DEF RefsCountOwners
    <3> QED
      BY <1>13, <2>0, FrameAssumption, <3>1
         DEF TypeOK, RendererRelease, Release, Owners, Bit, Frame
  <2> QED BY <2>1, <2>2, <2>3, <2>4
<1>14. CASE StartPacing
  <2>0. Head(videoQ).pts \in Timestamp
    <3>1. Head(videoQ) \in VideoFrame
      BY <1>14, TailFacts DEF StartPacing, VideoReady, TypeOK
    <3> QED BY <3>1, FrameAssumption
  <2>1. TypeOK'
    BY <1>14, <2>0 DEF TypeOK, StartPacing, VideoReady, RestartClock, FirstFrameMs
  <2>2. HeldFrames'
    BY <1>14 DEF TypeOK, StartPacing, VideoReady, RestartClock, HeldFrames, Holding
  <2>3. QueuedOnce'
    BY <1>14 DEF TypeOK, StartPacing, VideoReady, RestartClock, QueuedOnce, NoDup, InQ
  <2>4. RefsCountOwners'
    BY <1>14 DEF StartPacing, VideoReady, RestartClock, RefsCountOwners, Owners, Bit
  <2> QED BY <2>1, <2>2, <2>3, <2>4
<1>15. CASE TakeVideo
  <2> DEFINE f == Head(videoQ)
  <2>0. f \in VideoFrame /\ videoQ' \in Seq(VideoFrame) /\ InQ(videoQ, f)
    BY <1>15, TailFacts DEF TakeVideo, VideoReady, TypeOK
  <2>1. NoDup(videoQ') /\ \A g : InQ(videoQ', g) <=> InQ(videoQ, g) /\ g # f
    BY <1>15, TailFacts DEF TakeVideo, VideoReady, TypeOK, QueuedOnce
  <2>t. videoDuration' \in Nat /\ lastTs' \in Timestamp
    <3>1. Head(videoQ).pts \in Timestamp
      BY <2>0, FrameAssumption
    <3>2. DurationMs(Head(videoQ).pts, lastTs) \in Nat
      BY <3>1, DurationType DEF TypeOK
    <3> QED BY <1>15, <3>1, <3>2, WidthAssumption DEF TakeVideo, VideoReady, TypeOK
  <2>2. TypeOK'
    BY <1>15, <2>0, <2>t DEF TypeOK, TakeVideo, VideoReady, Frame
  <2>3. HeldFrames'
    BY <1>15, <2>0 DEF TypeOK, TakeVideo, VideoReady, HeldFrames, Holding
  <2>4. QueuedOnce'
    BY <1>15, <2>1 DEF TypeOK, TakeVideo, VideoReady, QueuedOnce, NoDup, InQ
  <2>5. held["vout"] = NoFrame
    BY <1>15 DEF TakeVideo, VideoReady, HeldFrames, Holding
  <2>6. RefsCountOwners'
    <3> SUFFICES ASSUME NEW g \in Frame PROVE refs'[g] = Owners(g)'
      BY DEF RefsCountOwners
    <3>1. refs[g] = Owners(g)
      BY DEF RefsCountOwners
    <3> QED
      BY <1>15, <2>0, <2>1, <2>5, FrameAssumption, <3>1
         DEF TypeOK, TakeVideo, VideoReady, Owners, Bit, Frame
  <2> QED BY <2>2, <2>3, <2>4, <2>6
<1>16. CASE TakeAudio
  <2> DEFINE f == Head(audioQ)
  <2>0. f \in AudioFrame /\ audioQ' \in Seq(AudioFrame) /\ InQ(audioQ, f)
    BY <1>16, TailFacts DEF TakeAudio, TypeOK
  <2>1. NoDup(audioQ') /\ \A g : InQ(audioQ', g) <=> InQ(audioQ, g) /\ g # f
    BY <1>16, TailFacts DEF TakeAudio, TypeOK, QueuedOnce
  <2>2. TypeOK'
    BY <1>16, <2>0 DEF TypeOK, TakeAudio, Frame
  <2>3. HeldFrames'
    BY <1>16, <2>0 DEF TypeOK, TakeAudio, HeldFrames, Holding
  <2>4. QueuedOnce'
    <3>1. pc'["vdec"] = pc["vdec"] /\ pc'["adec"] = pc["adec"]
      BY <1>16 DEF TypeOK, TakeAudio
    <3>2. videoQ' = videoQ /\ held'["vdec"] = held["vdec"] /\ held'["adec"] = held["adec"]
      BY <1>16 DEF TypeOK, TakeAudio
    <3>3. NoDup(videoQ') /\ (pc["vdec"] = "push" => ~InQ(videoQ', held["vdec"]))
      BY <3>2 DEF QueuedOnce
    <3>4. pc["adec"] = "push" => ~InQ(audioQ', held["adec"])
      BY <2>1 DEF QueuedOnce
    <3>5. pc'["adec"] = "push" => ~InQ(audioQ', held'["adec"])
      BY <3>1, <3>2, <3>4
    <3>6. pc'["vdec"] = "push" => ~InQ(videoQ', held'["vdec"])
      BY <3>1, <3>2, <3>3
    <3> HIDE DEF f
    <3> QED BY <2>1, <3>3, <3>5, <3>6 DEF QueuedOnce, NoDup, InQ
  <2>5. held["aout"] = NoFrame
    BY <1>16 DEF TakeAudio, HeldFrames, Holding
  <2>6. RefsCountOwners'
    <3> SUFFICES ASSUME NEW g \in Frame PROVE refs'[g] = Owners(g)'
      BY DEF RefsCountOwners
    <3>1. refs[g] = Owners(g)
      BY DEF RefsCountOwners
    <3> QED
      BY <1>16, <2>0, <2>1, <2>5, FrameAssumption, <3>1
         DEF TypeOK, TakeAudio, Owners, Bit, Frame
  <2> QED BY <2>2, <2>3, <2>4, <2>6
<1>17. CASE CloseDevice
  <2>1. TypeOK'
    BY <1>17 DEF TypeOK, CloseDevice
  <2>2. HeldFrames'
    BY <1>17 DEF TypeOK, CloseDevice, HeldFrames, Holding
  <2>3. QueuedOnce'
    BY <1>17 DEF TypeOK, CloseDevice, QueuedOnce, NoDup, InQ
  <2>4. RefsCountOwners'
    BY <1>17 DEF CloseDevice, RefsCountOwners, Owners, Bit
  <2> QED BY <2>1, <2>2, <2>3, <2>4
<1>22. CASE \E ok \in BOOLEAN : OpenDevice(ok)
  <2>0. PICK ok \in BOOLEAN : OpenDevice(ok)
    BY <1>22
  <2>1. TypeOK'
    BY <2>0 DEF TypeOK, OpenDevice
  <2>2. HeldFrames'
    BY <2>0 DEF TypeOK, OpenDevice, HeldFrames, Holding
  <2>3. QueuedOnce'
    BY <2>0 DEF TypeOK, OpenDevice, QueuedOnce, NoDup, InQ
  <2>4. RefsCountOwners'
    BY <2>0 DEF OpenDevice, RefsCountOwners, Owners, Bit
  <2> QED BY <2>1, <2>2, <2>3, <2>4
<1>18. CASE LoadRenderTime
  <2>1. TypeOK'
    BY <1>18 DEF TypeOK, LoadRenderTime
  <2>2. HeldFrames'
    BY <1>18 DEF TypeOK, LoadRenderTime, HeldFrames, Holding
  <2>3. QueuedOnce'
    BY <1>18 DEF TypeOK, LoadRenderTime, QueuedOnce, NoDup, InQ
  <2>4. RefsCountOwners'
    BY <1>18 DEF LoadRenderTime, RefsCountOwners, Owners, Bit
  <2> QED BY <2>1, <2>2, <2>3, <2>4
<1>19. CASE \E step \in AudioSteps : StoreRenderTime(step)
  <2>0. PICK step \in AudioSteps : StoreRenderTime(step)
    BY <1>19
  <2>1. TypeOK'
    BY <2>0, StepAssumption DEF TypeOK, StoreRenderTime
  <2>2. HeldFrames'
    BY <2>0 DEF TypeOK, StoreRenderTime, HeldFrames, Holding
  <2>3. QueuedOnce'
    BY <2>0 DEF TypeOK, StoreRenderTime, QueuedOnce, NoDup, InQ
  <2>4. RefsCountOwners'
    BY <2>0 DEF StoreRenderTime, RefsCountOwners, Owners, Bit
  <2> QED BY <2>1, <2>2, <2>3, <2>4
<1>20. CASE \E step \in TimerSteps : Tick(step)
  <2>0. PICK step \in TimerSteps : Tick(step)
    BY <1>20
  <2>1. TypeOK'
    BY <2>0, StepAssumption DEF TypeOK, Tick
  <2>2. HeldFrames'
    BY <2>0 DEF TypeOK, Tick, HeldFrames, Holding
  <2>3. QueuedOnce'
    BY <2>0 DEF TypeOK, Tick, QueuedOnce, NoDup, InQ
  <2>4. RefsCountOwners'
    BY <2>0 DEF Tick, RefsCountOwners, Owners, Bit
  <2> QED BY <2>1, <2>2, <2>3, <2>4
<1>21. CASE UNCHANGED vars
  BY <1>21 DEF vars, TypeOK, HeldFrames, Holding, QueuedOnce, NoDup, InQ,
     RefsCountOwners, Owners, Bit
<1> QED
  BY <1>1, <1>2, <1>3, <1>4, <1>5, <1>6, <1>7, <1>8, <1>9, <1>10, <1>11, <1>12, <1>13, <1>14, <1>15, <1>16, <1>17, <1>18, <1>19, <1>20, <1>21, <1>22
     DEF Next, VideoDecoder, AudioDecoder, VideoRenderer, AudioRenderer

(* Every variable of AVSync has its type, whatever the four threads do.    *)
THEOREM TypesHold == Spec => []TypeOK
<1>1. OwnershipInv => TypeOK
  BY DEF OwnershipInv
<1> QED
  BY <1>1, OwnershipInit, OwnershipStep, PTL DEF Spec

(* The reference count of every frame is the number of its owners.         *)
THEOREM FramesAreOwned == Spec => [](TypeOK /\ RefsCountOwners)
<1>1. OwnershipInv => TypeOK /\ RefsCountOwners
  BY DEF OwnershipInv
<1> QED
  BY <1>1, OwnershipInit, OwnershipStep, PTL DEF Spec

-----------------------------------------------------------------------------
(* Buffering. *)

(* The steps that leave video queue, buffering and push_video alone. *)
LEMMA BufferingFrame ==
  ASSUME BufferingInv, UNCHANGED <<videoQ, buffering, latency>>,
         pc'["vdec"] = "check" => pc["vdec"] = "check"
  PROVE  BufferingInv'
BY DEF BufferingInv, BufferingHasVideo, LatencyIsCurrent, VideoLatencyMs

LEMMA BufferingStep ==
  OwnershipInv /\ BufferingInv /\ [Next]_vars => BufferingInv'
<1> SUFFICES ASSUME OwnershipInv, BufferingInv, [Next]_vars
             PROVE  BufferingInv'
  OBVIOUS
<1>0. TypeOK
  BY DEF OwnershipInv
<1> USE DEF Goto, Thread, sync, pacing, clocks, frames
<1>1. CASE PushVideo
  <2>1. videoQ' # <<>>
    BY <1>1, <1>0, AppendFacts DEF PushVideo, OwnershipInv, HeldFrames, Holding, TypeOK
  <2>2. pc'["vdec"] = "latency"
    BY <1>1, <1>0 DEF PushVideo, TypeOK
  <2> QED
    BY <2>1, <2>2 DEF BufferingInv, BufferingHasVideo, LatencyIsCurrent
<1>2. CASE ReadLatency
  BY <1>2 DEF ReadLatency, BufferingInv, BufferingHasVideo, LatencyIsCurrent, VideoLatencyMs
<1>3. CASE StopBuffering
  BY <1>0, <1>3 DEF StopBuffering, TypeOK, BufferingInv, BufferingHasVideo, LatencyIsCurrent
<1>4. CASE TakeVideo
  BY <1>4 DEF TakeVideo, VideoReady, BufferingInv, BufferingHasVideo, LatencyIsCurrent
<1>5. CASE \/ PlayVideo \/ PlayAudio \/ SetClock \/ AudioDecoder \/ AudioRenderer
           \/ StartPacing \/ RendererRelease("vout") \/ DecoderRelease("vdec")
           \/ \E f \in VideoFrame : DecodeImage(f)
           \/ \E step \in TimerSteps : Tick(step)
           \/ UNCHANGED vars
  <2>1. UNCHANGED <<videoQ, buffering, latency>>
    BY <1>5 DEF PlayVideo, PlayAudio, SetClock, AudioDecoder, AudioRenderer,
       StartPacing, VideoReady, RendererRelease, DecoderRelease, DecodeImage, DecodePcm,
       PushAudio, TakeAudio, CloseDevice, OpenDevice, LoadRenderTime, StoreRenderTime,
       Tick, vars
  <2>2. pc'["vdec"] = "check" => pc["vdec"] = "check"
    BY <1>0, <1>5
       DEF TypeOK, PlayVideo, PlayAudio, SetClock, AudioDecoder, AudioRenderer,
       StartPacing, VideoReady, RendererRelease, DecoderRelease, DecodeImage, DecodePcm,
       PushAudio, TakeAudio, CloseDevice, OpenDevice, LoadRenderTime, StoreRenderTime,
       Tick, vars
  <2> QED
    BY <2>1, <2>2, BufferingFrame
<1> QED
  BY <1>1, <1>2, <1>3, <1>4, <1>5 DEF Next, VideoDecoder, VideoRenderer

LEMMA BufferingInvariant == Spec => [](OwnershipInv /\ BufferingInv)
<1>1. Init => BufferingInv
  BY DEF Init, BufferingInv, BufferingHasVideo, LatencyIsCurrent, Thread
<1> QED
  BY <1>1, OwnershipInit, OwnershipStep, BufferingStep, PTL DEF Spec

(* No audio is held back for a video queue that has nothing in it. *)
THEOREM BufferingNeedsVideo == Spec => []BufferingHasVideo
<1>1. BufferingInv => BufferingHasVideo
  BY DEF BufferingInv
<1> QED
  BY <1>1, BufferingInvariant, PTL

(* Each step of the four threads is a step of the playout buffer, or none. *)
LEMMA PlayoutStep ==
  OwnershipInv /\ BufferingInv /\ [Next]_vars => [PB!Next]_(PB!vars)
<1> SUFFICES ASSUME OwnershipInv, BufferingInv, [Next]_vars
             PROVE  [PB!Next]_(PB!vars)
  OBVIOUS
<1>0. TypeOK
  BY DEF OwnershipInv
<1> USE DEF sync, pacing, clocks, frames
<1>1. CASE PushVideo
  <2>1. held["vdec"] \in VideoFrame
    BY <1>1 DEF PushVideo, OwnershipInv, HeldFrames, Holding
  <2>2. PB!Offer(held["vdec"])
    BY <1>1 DEF PushVideo, PB!Offer
  <2> QED BY <2>1, <2>2 DEF PB!Next
<1>2. CASE StopBuffering
  <2>1. CASE buffering /\ ~buffering'
    <3>1. latency >= BufferingMs
      <4>1. ~(latency < BufferingMs)
        BY <1>2, <2>1, Zenon DEF StopBuffering
      <4> QED BY <1>0, <4>1, StepAssumption DEF TypeOK
    <3>2. PB!SpanMs(videoQ) = latency
      BY <1>2, <2>1
         DEF StopBuffering, BufferingInv, LatencyIsCurrent, VideoLatencyMs,
         LatencyMs, PB!SpanMs, PB!LatencyMs
    <3>3. PB!Resume
      BY <1>2, <2>1, <3>1, <3>2 DEF StopBuffering, PB!Resume
    <3> QED BY <3>3 DEF PB!Next
  <2>2. CASE ~(buffering /\ ~buffering')
    BY <1>0, <1>2, <2>2 DEF StopBuffering, TypeOK, PB!vars
  <2> QED BY <2>1, <2>2
<1>3. CASE TakeVideo
  BY <1>3 DEF TakeVideo, VideoReady, PB!Take, PB!Next
<1>4. CASE \/ PlayVideo \/ PlayAudio \/ SetClock \/ AudioDecoder \/ AudioRenderer
           \/ ReadLatency \/ StartPacing \/ RendererRelease("vout")
           \/ DecoderRelease("vdec")
           \/ \E f \in VideoFrame : DecodeImage(f)
           \/ \E step \in TimerSteps : Tick(step)
           \/ UNCHANGED vars
  <2>1. UNCHANGED <<videoQ, buffering>>
    BY <1>4 DEF PlayVideo, PlayAudio, SetClock, AudioDecoder, AudioRenderer,
       ReadLatency, StartPacing, VideoReady, RendererRelease, DecoderRelease, DecodeImage,
       DecodePcm, PushAudio, TakeAudio, CloseDevice, OpenDevice, LoadRenderTime,
       StoreRenderTime, Tick, vars
  <2> QED BY <2>1 DEF PB!vars
<1> QED
  BY <1>1, <1>2, <1>3, <1>4 DEF Next, VideoDecoder, VideoRenderer

(* push_video and video_frame, with their critical sections interleaved in *)
(* any order, implement the playout buffer.                                *)
THEOREM PlayoutRefinement == Spec => ImplementsPlayoutBuffer
<1>1. Init => PB!Init
  BY DEF Init, PB!Init
<1> QED
  BY <1>1, PlayoutStep, BufferingInvariant, PTL
     DEF Spec, ImplementsPlayoutBuffer, PB!Spec

(* Buffering ends only when the frames queued at that moment span the      *)
(* threshold.                                                              *)
THEOREM ResumesFilled == Spec => ResumesWhenFilled
<1>1. ASSUME OwnershipInv, BufferingInv, [Next]_vars, vars' # vars
      PROVE  buffering /\ ~buffering' => VideoLatencyMs >= BufferingMs
  <2>1. [PB!Next]_(PB!vars)
    BY <1>1, PlayoutStep
  <2>2. ASSUME buffering, ~buffering' PROVE PB!SpanMs(videoQ) >= BufferingMs
    <3>1. ~ \E f \in VideoFrame : PB!Offer(f)
      BY <2>2 DEF PB!Offer
    <3>2. ~PB!Take /\ PB!vars' # PB!vars
      BY <2>2 DEF PB!Take, PB!vars
    <3> QED BY <2>1, <3>1, <3>2 DEF PB!Next, PB!Resume
  <2> QED
    BY <2>2 DEF PB!SpanMs, PB!LatencyMs, VideoLatencyMs, LatencyMs
<1>2. OwnershipInv /\ BufferingInv /\ [Next]_vars
        => [buffering /\ ~buffering' => VideoLatencyMs >= BufferingMs]_vars
  BY <1>1
<1> QED
  BY <1>2, BufferingInvariant, PTL DEF Spec, ResumesWhenFilled

-----------------------------------------------------------------------------
(* Pacing. *)

LEMMA PacingStep == OwnershipInv /\ PacedByTimer /\ [Next]_vars => PacedByTimer'
<1> SUFFICES ASSUME OwnershipInv, PacedByTimer, [Next]_vars, clock' = "avtimer"
             PROVE  videoDuration' <= timer' + FirstFrameMs
  BY DEF PacedByTimer
<1>0. /\ timer \in Nat /\ videoDuration \in Nat
      /\ clock = "avtimer" => videoDuration <= timer + FirstFrameMs
  BY DEF OwnershipInv, TypeOK, PacedByTimer
<1> USE DEF sync, pacing, clocks, frames
<1>1. CASE StartPacing
  BY <1>1 DEF StartPacing, RestartClock, FirstFrameMs
<1>2. CASE TakeVideo
  <2>1. clock = "avtimer" /\ timer' = timer
    BY <1>2 DEF TakeVideo
  <2>2. PICK f \in VideoFrame : f = Head(videoQ)
    BY <1>2, TailFacts DEF TakeVideo, VideoReady, OwnershipInv, TypeOK
  <2>3. DurationMs(f.pts, lastTs) \in Nat
    BY FrameAssumption, DurationType DEF OwnershipInv, TypeOK
  <2>4. videoDuration' \in Nat
    BY <1>0, <1>2, <2>2, <2>3, WidthAssumption DEF TakeVideo
  <2>5. ClockMs >= videoDuration'
    BY <1>2 DEF TakeVideo
  <2>6. timer >= videoDuration'
    BY <2>1, <2>5 DEF ClockMs
  <2> QED BY <1>0, <2>1, <2>4, <2>6 DEF FirstFrameMs
<1>3. ASSUME NEW step \in TimerSteps, Tick(step)
      PROVE  videoDuration' <= timer' + FirstFrameMs
  BY <1>0, <1>3, StepAssumption DEF Tick, FirstFrameMs
<1>4. CASE \/ PlayVideo \/ PlayAudio \/ SetClock \/ AudioDecoder \/ AudioRenderer
           \/ VideoDecoder \/ RendererRelease("vout") \/ UNCHANGED vars
  <2>1. videoDuration' = videoDuration /\ timer' = timer
    BY <1>4 DEF PlayVideo, PlayAudio, SetClock, AudioDecoder, AudioRenderer,
       VideoDecoder, PushVideo, ReadLatency, StopBuffering, RendererRelease,
       DecoderRelease, DecodeImage, DecodePcm, PushAudio, TakeAudio, CloseDevice, OpenDevice,
       LoadRenderTime, StoreRenderTime, vars
  <2>2. clock = "avtimer"
    BY <1>4 DEF PlayVideo, PlayAudio, SetClock, AudioDecoder, AudioRenderer,
       VideoDecoder, PushVideo, ReadLatency, StopBuffering, RendererRelease,
       DecoderRelease, DecodeImage, DecodePcm, PushAudio, TakeAudio, CloseDevice, OpenDevice,
       LoadRenderTime, StoreRenderTime, vars
  <2> QED BY <1>0, <2>1, <2>2
<1> QED
  BY <1>1, <1>2, <1>3, <1>4 DEF Next, VideoRenderer

(* On its internal timer, video is never shown earlier than the first      *)
(* frame's 40 ms allow, whatever the timestamps are.                       *)
THEOREM TimerPaces == Spec => []PacedByTimer
<1>1. Init => PacedByTimer
  BY DEF Init, PacedByTimer, FirstFrameMs
<1> QED
  BY <1>1, OwnershipInit, OwnershipStep, PacingStep, PTL DEF Spec

-----------------------------------------------------------------------------
(* The drift of VideoPacing.  The front frame is a step after the last one *)
(* taken.                                                                  *)
FrontIsStep == \E s \in PtsSteps \cup {0} : front = (lastVideoTs + s) % U32

PacingInv == PacingTypeOK /\ FrontIsStep /\ DriftBounded /\ playedMs >= FirstFrameMs

(* A frame s ticks after the last one is due floor(s * 1000 / clock) later.*)
LEMMA TakeFacts ==
  ASSUME PacingInv
  PROVE  \E s \in Nat : \E d \in Nat :
            /\ (front - lastVideoTs) % U32 = s
            /\ DurationMs(front, lastVideoTs) = d
            /\ RTP_VIDEO_CLOCK * d <= s * 1000
            /\ s * 1000 <= RTP_VIDEO_CLOCK * d + (RTP_VIDEO_CLOCK - 1)
<1>1. PICK s \in PtsSteps \cup {0} : front = (lastVideoTs + s) % U32
  BY DEF PacingInv, FrontIsStep
<1>2. s \in Nat /\ s * 1000 < U32 /\ s < U32
  BY PacingAssumption, WidthAssumption
<1>3. lastVideoTs \in Timestamp /\ front \in Timestamp /\ (front - lastVideoTs) % U32 = s
  BY <1>1, <1>2, StepTicks DEF PacingInv, PacingTypeOK
<1>4. DurationMs(front, lastVideoTs) = (s * 1000) \div RTP_VIDEO_CLOCK
  BY <1>1, <1>2, <1>3, StepDuration
<1> DEFINE m == s * 1000
           C == RTP_VIDEO_CLOCK
           d == m \div C
<1>5. m \in Int /\ m >= 0 /\ C \in Nat \ {0}
  BY <1>2, ClockAssumption
<1> HIDE DEF m, C
<1>6. d \in Nat /\ C * d <= m /\ m < C * d + C
  BY <1>5, DivMod
<1>7. m <= C * d + (C - 1)
  <2> DEFINE x == C * d
  <2>1. x \in Int
    BY <1>5, <1>6
  <2> HIDE DEF x
  <2>2. m < x + C
    BY <1>6 DEF x
  <2>3. m <= x + (C - 1)
    BY <1>5, <2>1, <2>2
  <2> QED BY <2>3 DEF x
<1>8. DurationMs(front, lastVideoTs) = d
  BY <1>4 DEF m, C
<1> HIDE DEF d
<1>9. C * d <= m /\ m <= C * d + (C - 1) /\ d \in Nat
  BY <1>6, <1>7 DEF d
<1> QED
  BY <1>2, <1>3, <1>8, <1>9 DEF m, C

LEMMA DriftStep == PacingInv /\ [PacingNext]_pacingVars => PacingInv'
<1> SUFFICES ASSUME PacingInv, [PacingNext]_pacingVars PROVE PacingInv'
  OBVIOUS
<1> USE DEF PacingInv
<1>1. CASE \E step \in PtsSteps : TakeFront(step)
  <2>1. PICK step \in PtsSteps : TakeFront(step)
    BY <1>1
  <2>2. PICK s \in Nat : \E d \in Nat :
            /\ (front - lastVideoTs) % U32 = s
            /\ DurationMs(front, lastVideoTs) = d
            /\ RTP_VIDEO_CLOCK * d <= s * 1000
            /\ s * 1000 <= RTP_VIDEO_CLOCK * d + (RTP_VIDEO_CLOCK - 1)
    BY TakeFacts
  <2>3. PICK d \in Nat :
            /\ (front - lastVideoTs) % U32 = s
            /\ DurationMs(front, lastVideoTs) = d
            /\ RTP_VIDEO_CLOCK * d <= s * 1000
            /\ s * 1000 <= RTP_VIDEO_CLOCK * d + (RTP_VIDEO_CLOCK - 1)
    BY <2>2
  <2>4. /\ ticks' = ticks + s /\ shown' = shown + 1
        /\ playedMs' = playedMs + d
        /\ lastVideoTs' = front /\ front' = (front + step) % U32 /\ clockMs' = clockMs
    BY <2>1, <2>3 DEF TakeFront, Due
  <2>5. step \in Nat /\ step < U32
    BY PacingAssumption, WidthAssumption
  <2>6. PacingTypeOK' /\ FrontIsStep' /\ playedMs' >= FirstFrameMs
    BY <2>4, <2>5, StepTicks DEF PacingTypeOK, FrontIsStep, FirstFrameMs
  <2>7. DriftBounded'
    <3> DEFINE C == RTP_VIDEO_CLOCK
               v == playedMs - FirstFrameMs
               x == v * C
               y == C * d
               z == shown * (C - 1)
    <3>1. C \in Nat \ {0} /\ v \in Nat /\ ticks \in Nat /\ shown \in Nat
      BY ClockAssumption DEF PacingTypeOK, FirstFrameMs
    <3>2. /\ x \in Int /\ y \in Int /\ z \in Int
          /\ x <= ticks * 1000 /\ ticks * 1000 <= x + z
          /\ y <= s * 1000 /\ s * 1000 <= y + (C - 1)
      BY <2>3, <3>1 DEF DriftBounded
    <3>3. (v + d) * C = x + y /\ (shown + 1) * (C - 1) = z + (C - 1)
      BY <3>1
    <3>4. (ticks + s) * 1000 = ticks * 1000 + s * 1000
      BY <3>1
    <3>5. playedMs' - FirstFrameMs = v + d
      BY <2>4 DEF PacingTypeOK, FirstFrameMs
    <3>6. DriftBounded' = (LET played == (v + d) * C
                           IN /\ played <= (ticks + s) * 1000
                              /\ (ticks + s) * 1000 <= played + (shown + 1) * (C - 1))
      BY <2>4, <3>5 DEF DriftBounded
    <3> HIDE DEF x, y, z, v, C
    <3>7. x + y <= ticks * 1000 + s * 1000
          /\ ticks * 1000 + s * 1000 <= x + y + (z + (C - 1))
      BY <3>1, <3>2
    <3> QED BY <3>3, <3>4, <3>6, <3>7
  <2> QED BY <2>6, <2>7
<1>2. CASE \E step \in PollSteps : TimePasses(step)
  BY <1>2, PacingAssumption DEF TimePasses, PacingTypeOK, FrontIsStep, DriftBounded
<1>3. CASE UNCHANGED pacingVars
  BY <1>3 DEF pacingVars, PacingTypeOK, FrontIsStep, DriftBounded
<1> QED
  BY <1>1, <1>2, <1>3 DEF PacingNext

(* Playout never runs ahead of the stream, and falls behind by less than a *)
(* millisecond a frame.                                                    *)
THEOREM DriftTheorem == PacingSpec => [](PacingTypeOK /\ DriftBounded)
<1>1. PacingInit => PacingInv
  <2> SUFFICES ASSUME PacingInit PROVE PacingInv
    OBVIOUS
  <2>1. lastVideoTs \in Timestamp /\ front = (lastVideoTs + 0) % U32
    <3>1. lastVideoTs \in Timestamp
      BY WidthAssumption DEF PacingInit, Timestamp
    <3> QED BY <3>1, SmallMod, WidthAssumption DEF PacingInit, Timestamp
  <2> QED
    BY <2>1, ClockAssumption
       DEF PacingInit, PacingInv, PacingTypeOK, FrontIsStep, DriftBounded, FirstFrameMs
<1>2. PacingInv => PacingTypeOK /\ DriftBounded
  BY DEF PacingInv
<1> QED
  BY <1>1, <1>2, DriftStep, PTL DEF PacingSpec
=============================================================================
