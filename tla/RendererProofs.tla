--------------------------- MODULE RendererProofs ---------------------------
(* The safety properties of both renderers, for every sequence of frames   *)
(* and whatever call to the device, EGL or OpenGL fails.                   *)
EXTENDS AudioOut, VideoOut, FiniteSetTheorems, TLAPS

(* One buffer at most is with the device, and only while the renderer      *)
(* waits for it; then it has either not been played, or been signalled.    *)
Waiting == audioPc \in {"enqueued", "wait"}

HandOver ==
  /\ ~Waiting => playing = <<>> /\ ~signalled
  /\ Waiting => \/ playing = <<current>> /\ ~signalled
                \/ playing = <<>> /\ signalled

(* What is in on_frame has the format of the device, and a block is full   *)
(* from its last sample on until it has been played.                       *)
InFrame ==
  /\ InOnFrame => format = Format(frame)
  /\ audioPc = "copy" => copied < Size
  /\ Waiting \/ audioPc = "enqueue" => copied <= Size
  /\ format # Closed =>
       /\ block > 0
       /\ IF Waiting \/ audioPc = "enqueue" THEN index = block ELSE index < block

(* The samples of the current block follow those that were played.         *)
Copies ==
  format # Closed =>
    /\ signalled => Len(played) = accepted
    /\ ~signalled => /\ Len(played) + index = accepted
                     /\ \A i \in 1 .. index : buffer[current][i] = Len(played) + i

Follows(rate, counted, e, n) ==
  rate * counted <= e /\ e <= rate * counted + n * (rate - 1)

ClockInv ==
  /\ audioPc = "add" => gap = Gap
  /\ format # Closed /\ steady /\ (renderTime # 0 \/ audioPc = "add") =>
       Follows(format.rate, renderTime - lastDuration, exact, steps)

AudioInv == AudioTypeOK /\ HandOver /\ InFrame /\ Copies /\ PlayedInOrder /\ ClockInv

-----------------------------------------------------------------------------
LEMMA FrameFacts ==
  ASSUME NEW f \in AudioFrame
  PROVE  /\ f.rate \in Nat \ {0} /\ f.channels \in Nat \ {0} /\ f.ticks \in Nat \ {0}
         /\ BlockSamples(f) \in Nat \ {0} /\ DurationMs(f) \in Nat
         /\ f.ticks * f.channels \in Nat \ {0}
         /\ Format(f) # Closed
<1>1. f.rate \in Nat \ {0} /\ f.channels \in Nat \ {0} /\ f.ticks \in Nat \ {0}
      /\ BlockSamples(f) \in Nat \ {0}
  BY AudioFrameAssumption
<1>2. DurationMs(f) \in Nat
  BY <1>1 DEF DurationMs
<1>3. f.ticks * f.channels \in Nat \ {0}
  BY <1>1
<1>4. Format(f) # Closed
  BY <1>1 DEF Format, Closed
<1> QED
  BY <1>1, <1>2, <1>3, <1>4

LEMMA AudioInitInv == AudioInit => AudioInv
<1> SUFFICES ASSUME AudioInit PROVE AudioInv
  OBVIOUS
<1> USE AudioFrameAssumption DEF AudioInit
<1>1. AudioTypeOK
  <2>1. <<>> \in [1 .. 0 -> Nat]
    OBVIOUS
  <2>2. buffer \in [Buffer -> [1 .. block -> Nat]]
    BY <2>1
  <2>3. ThreadOK /\ FrameOK
    <3>1. ~InOnFrame
      BY DEF InOnFrame
    <3>2. ThreadOK
      BY DEF ThreadOK
    <3>3. FrameOK
      BY <3>1 DEF FrameOK
    <3> QED BY <3>2, <3>3
  <2>4. DeviceOK
    BY <2>2 DEF DeviceOK, Buffer, Closed
  <2>5. ClockOK
    BY DEF ClockOK
  <2> QED
    BY <2>3, <2>4, <2>5 DEF AudioTypeOK
<1>2. HandOver /\ InFrame /\ Copies /\ PlayedInOrder
  BY DEF HandOver, InFrame, Copies, PlayedInOrder, Waiting, InOnFrame, Closed
<1>3. ClockInv
  BY DEF ClockInv, Closed
<1> QED
  BY <1>1, <1>2, <1>3 DEF AudioInv

(* A frame that adds q whole milliseconds of its m / rate. *)
LEMMA FollowsOn ==
  ASSUME NEW r \in Nat \ {0}, NEW c \in Int, NEW e \in Int, NEW n \in Nat,
         NEW m \in Nat, Follows(r, c, e, n)
  PROVE  Follows(r, c + (m \div r), e + m, n + 1)
<1> DEFINE q == m \div r
<1>1. q \in Nat /\ r * q <= m /\ m < r * q + r
  OBVIOUS
<1> HIDE DEF q
<1> DEFINE x == r * q
           y == r * c
           z == n * (r - 1)
<1>2. x \in Int /\ y \in Int /\ z \in Int
  BY <1>1
<1>3. r * (c + q) = y + x
  BY <1>1
<1>4. (n + 1) * (r - 1) = z + (r - 1)
  OBVIOUS
<1>5. y <= e /\ e <= y + z
  BY DEF Follows
<1> HIDE DEF x, y, z
<1>6. x <= m /\ m < x + r
  BY <1>1 DEF x
<1>7. y + x <= e + m /\ e + m <= y + x + (z + (r - 1))
  BY <1>2, <1>5, <1>6
<1>8. r * (c + q) <= e + m /\ e + m <= r * (c + q) + (n + 1) * (r - 1)
  BY <1>3, <1>4, <1>7
<1> QED
  BY <1>8 DEF Follows, q

-----------------------------------------------------------------------------
LEMMA ModNat ==
  ASSUME NEW a \in Int, NEW b \in Nat \ {0}
  PROVE  a % b \in Nat
OBVIOUS

LEMMA TakesFacts ==
  ASSUME AudioInv, NEW f \in AudioFrame, NEW jump \in Jumps, Takes(f, jump)
  PROVE  /\ pts' \in Nat /\ nextPts' \in Nat /\ taken' \in Nat
         /\ audioPc = "svc" /\ ~InOnFrame /\ playing = <<>> /\ ~signalled
<1>1. jump \in Nat /\ U32 \in Nat \ {0} /\ f.ticks \in Nat /\ nextPts \in Nat
  BY AudioFrameAssumption DEF AudioInv, AudioTypeOK, FrameOK
<1>2. (nextPts + jump) % U32 \in Nat /\ (nextPts + jump + f.ticks) % U32 \in Nat
  <2>1. nextPts + jump \in Int /\ nextPts + jump + f.ticks \in Int
    BY <1>1
  <2> QED BY <1>1, <2>1, ModNat
<1>3. audioPc = "svc"
  BY DEF Takes
<1>4. playing = <<>> /\ ~signalled
  BY <1>3 DEF AudioInv, HandOver, Waiting
<1> QED
  BY <1>1, <1>2, <1>3, <1>4 DEF Takes, AudioInv, AudioTypeOK, FrameOK, InOnFrame

LEMMA RefuseStep ==
  ASSUME AudioInv, NEW f \in AudioFrame, NEW jump \in Jumps, Refuse(f, jump)
  PROVE  AudioInv'
<1> USE DEF AudioInv, Refuse, threadVars, deviceVars, clockVars
<1>1. AudioTypeOK'
  BY TakesFacts DEF AudioTypeOK, ThreadOK, DeviceOK, FrameOK, ClockOK, InOnFrame
<1>2. HandOver' /\ InFrame' /\ Copies' /\ PlayedInOrder'
  BY TakesFacts DEF HandOver, InFrame, Copies, PlayedInOrder, Waiting, InOnFrame
<1>3. ClockInv'
  BY TakesFacts DEF ClockInv, Follows
<1> QED BY <1>1, <1>2, <1>3

LEMMA AcceptStep ==
  ASSUME AudioInv, NEW f \in AudioFrame, NEW jump \in Jumps, Accept(f, jump)
  PROVE  AudioInv'
<1> USE DEF AudioInv, Accept, deviceVars, clockVars, AudioGoto
<1>1. AudioTypeOK'
  BY TakesFacts DEF AudioTypeOK, ThreadOK, DeviceOK, FrameOK, ClockOK, InOnFrame
<1>2. HandOver' /\ Copies' /\ PlayedInOrder'
  BY TakesFacts DEF HandOver, Copies, PlayedInOrder, Waiting
<1>3. InFrame'
  BY TakesFacts, FrameFacts DEF InFrame, Waiting, InOnFrame, Size, Takes
<1>4. ClockInv'
  BY TakesFacts DEF ClockInv, Follows
<1> QED BY <1>1, <1>2, <1>3, <1>4

LEMMA ReopenStep ==
  ASSUME AudioInv, NEW f \in AudioFrame, NEW jump \in Jumps, Reopen(f, jump)
  PROVE  AudioInv'
<1> USE DEF AudioInv, Reopen, AudioGoto
<1>1. BlockSamples(f) \in Nat \ {0}
  BY FrameFacts
<1>2. AudioTypeOK'
  <2>1. ThreadOK' /\ FrameOK'
    BY TakesFacts DEF AudioTypeOK, ThreadOK, FrameOK, InOnFrame
  <2>2. ClockOK'
    BY DEF AudioTypeOK, ClockOK
  <2>3. buffer' \in [Buffer -> [1 .. block' -> Nat]]
    BY <1>1
  <2>4. playing' \in Seq(Buffer) /\ played' \in Seq(Nat)
    OBVIOUS
  <2>5. DeviceOK'
    BY <1>1, <2>3, <2>4 DEF DeviceOK, Buffer
  <2> QED BY <2>1, <2>2, <2>5 DEF AudioTypeOK
<1>3. HandOver' /\ Copies' /\ PlayedInOrder'
  BY TakesFacts DEF HandOver, Copies, PlayedInOrder, Waiting
<1>4. InFrame'
  BY <1>1, TakesFacts, FrameFacts DEF InFrame, Waiting, InOnFrame, Size
<1>5. ClockInv'
  BY DEF ClockInv
<1> QED BY <1>2, <1>3, <1>4, <1>5

LEMMA ReopenFailsStep ==
  ASSUME AudioInv, NEW f \in AudioFrame, NEW jump \in Jumps, ReopenFails(f, jump)
  PROVE  AudioInv'
<1> USE DEF AudioInv, ReopenFails, threadVars, clockVars
<1>1. AudioTypeOK'
  BY TakesFacts DEF AudioTypeOK, ThreadOK, DeviceOK, FrameOK, ClockOK, InOnFrame
<1>2. HandOver' /\ InFrame' /\ Copies' /\ PlayedInOrder'
  BY TakesFacts DEF HandOver, InFrame, Copies, PlayedInOrder, Waiting, InOnFrame
<1>3. ClockInv'
  BY TakesFacts DEF ClockInv
<1> QED BY <1>1, <1>2, <1>3

-----------------------------------------------------------------------------
LEMMA FittingFacts ==
  ASSUME AudioInv, audioPc = "copy"
  PROVE  /\ Fitting \in Nat \ {0} /\ index + Fitting <= block /\ copied + Fitting <= Size
         /\ (copied + Fitting = Size \/ index + Fitting = block)
         /\ frame \in AudioFrame /\ format # Closed
         /\ Size \in Nat /\ block \in Nat /\ index \in Nat /\ copied \in Nat
         /\ accepted \in Nat
<1>1. InOnFrame /\ ~Waiting /\ audioPc # "enqueue"
  BY DEF InOnFrame, Waiting
<1>2. frame \in AudioFrame
  BY <1>1 DEF AudioInv, AudioTypeOK, FrameOK
<1>3. format = Format(frame) /\ Format(frame) # Closed
  BY <1>1, <1>2, FrameFacts DEF AudioInv, InFrame
<1>4. Size \in Nat \ {0}
  BY <1>2, FrameFacts DEF Size
<1>5. block \in Nat /\ index \in Nat /\ copied \in Nat /\ accepted \in Nat
  BY DEF AudioInv, AudioTypeOK, DeviceOK, FrameOK
<1>6. index < block /\ copied < Size
  BY <1>1, <1>3 DEF AudioInv, InFrame
<1> QED
  BY <1>2, <1>3, <1>4, <1>5, <1>6 DEF Fitting, Lesser

LEMMA CopyStep ==
  ASSUME AudioInv, Copy PROVE AudioInv'
<1> DEFINE n == Fitting
<1> HIDE DEF n
<1>1. audioPc = "copy"
  BY DEF Copy
<1>2. /\ n \in Nat \ {0} /\ index + n <= block /\ copied + n <= Size
      /\ (copied + n = Size \/ index + n = block)
      /\ frame \in AudioFrame /\ format # Closed
      /\ Size \in Nat /\ block \in Nat /\ index \in Nat /\ copied \in Nat
      /\ accepted \in Nat
  BY <1>1, FittingFacts DEF n
<1>3. /\ copied' = copied + n /\ index' = index + n /\ accepted' = accepted + n
      /\ audioPc' = IF index' >= block THEN "enqueue" ELSE "gap"
      /\ UNCHANGED <<audioExit, signalled, format, block, current, playing, played,
                     frame, pts, clockVars, inputVars>>
  BY DEF Copy, AudioGoto, n
<1>4. buffer' = [buffer EXCEPT ![current] = [i \in 1 .. block |->
                  IF i \in index + 1 .. index + n THEN accepted + (i - index) ELSE @[i]]]
  BY DEF Copy, n
<1>5. current \in Buffer /\ buffer \in [Buffer -> [1 .. block -> Nat]]
  BY DEF AudioInv, AudioTypeOK, DeviceOK
<1>6. ~Waiting /\ ~Waiting' /\ playing = <<>> /\ ~signalled
  BY <1>1, <1>3 DEF AudioInv, HandOver, Waiting
<1>7. \A i \in 1 .. block : buffer'[current][i] =
         IF i \in index + 1 .. index + n THEN accepted + (i - index) ELSE buffer[current][i]
  BY <1>4, <1>5
<1>8. Len(played) + index = accepted /\ \A i \in 1 .. index : buffer[current][i] = Len(played) + i
  BY <1>2, <1>6 DEF AudioInv, Copies
<1>9. AudioTypeOK'
  <2>1. buffer' \in [Buffer -> [1 .. block -> Nat]]
    <3>1. \A i \in 1 .. block : (IF i \in index + 1 .. index + n THEN accepted + (i - index)
                                 ELSE buffer[current][i]) \in Nat
      BY <1>2, <1>5
    <3> QED BY <1>4, <1>5, <3>1
  <2>2. DeviceOK'
    BY <1>2, <1>3, <2>1 DEF AudioInv, AudioTypeOK, DeviceOK
  <2>3. InOnFrame'
    BY <1>3 DEF InOnFrame
  <2>4. ThreadOK'
    BY <1>3, <2>3 DEF AudioInv, AudioTypeOK, ThreadOK
  <2>5. FrameOK'
    BY <1>2, <1>3 DEF AudioInv, AudioTypeOK, FrameOK, inputVars
  <2>6. ClockOK'
    BY <1>3 DEF AudioInv, AudioTypeOK, ClockOK, clockVars
  <2> QED BY <2>2, <2>4, <2>5, <2>6 DEF AudioTypeOK
<1>10. HandOver'
  BY <1>3, <1>6 DEF HandOver
<1>11. InFrame'
  <2>1. InOnFrame /\ format = Format(frame)
    BY <1>1 DEF AudioInv, InFrame, InOnFrame
  <2>2. Size' = Size
    BY <1>3 DEF Size
  <2>3. audioPc' # "copy"
    BY <1>3
  <2> QED BY <1>2, <1>3, <1>6, <2>1, <2>2, <2>3 DEF InFrame
<1>12. Copies'
  <2>1. Len(played') + index' = accepted'
    <3>1. Len(played) \in Nat
      BY DEF AudioInv, AudioTypeOK, DeviceOK
    <3> QED BY <1>2, <1>3, <1>8, <3>1
  <2>2. ASSUME NEW i \in 1 .. index'
        PROVE  buffer'[current'][i] = Len(played') + i
    <3>1. Len(played) \in Nat
      BY DEF AudioInv, AudioTypeOK, DeviceOK
    <3>2. i \in 1 .. block /\ i \in 1 .. index + n
      BY <1>2, <1>3
    <3>3. buffer'[current][i] =
         IF i \in index + 1 .. index + n THEN accepted + (i - index) ELSE buffer[current][i]
      BY <1>7, <3>2
    <3>4. buffer'[current][i] = Len(played) + i
      BY <1>2, <1>8, <3>1, <3>2, <3>3
    <3> QED BY <1>3, <3>4
  <2> QED BY <1>3, <1>6, <2>1, <2>2 DEF Copies
<1>13. PlayedInOrder'
  BY <1>3 DEF AudioInv, PlayedInOrder
<1>14. ClockInv'
  BY <1>1, <1>3 DEF AudioInv, ClockInv, clockVars, Follows
<1> QED BY <1>9, <1>10, <1>11, <1>12, <1>13, <1>14 DEF AudioInv

LEMMA EnqueueStep ==
  ASSUME AudioInv, Enqueue PROVE AudioInv'
<1> USE DEF AudioInv, Enqueue, AudioGoto, copyVars, clockVars, inputVars
<1>1. playing = <<>> /\ ~signalled /\ current \in Buffer
  BY DEF HandOver, Waiting, AudioTypeOK, DeviceOK
<1>2. playing' = <<current>>
  BY <1>1
<1>3. AudioTypeOK'
  <2>1. playing' \in Seq(Buffer)
    BY <1>1, <1>2
  <2> QED BY <2>1 DEF AudioTypeOK, ThreadOK, DeviceOK, FrameOK, ClockOK, InOnFrame
<1>4. HandOver'
  BY <1>1, <1>2 DEF HandOver, Waiting
<1>5. InFrame'
  BY DEF InFrame, Waiting, InOnFrame, Size
<1>6. Copies' /\ PlayedInOrder'
  BY DEF Copies, PlayedInOrder
<1>7. ClockInv'
  BY DEF ClockInv, Follows
<1> QED BY <1>3, <1>4, <1>5, <1>6, <1>7

LEMMA BeginWaitStep ==
  ASSUME AudioInv, BeginWait PROVE AudioInv'
<1> USE DEF AudioInv, BeginWait, AudioGoto, deviceVars, copyVars, clockVars, inputVars
<1>1. AudioTypeOK'
  BY DEF AudioTypeOK, ThreadOK, DeviceOK, FrameOK, ClockOK, InOnFrame
<1>2. HandOver'
  BY DEF HandOver, Waiting
<1>3. InFrame'
  BY DEF InFrame, Waiting, InOnFrame, Size
<1>4. Copies' /\ PlayedInOrder'
  BY DEF Copies, PlayedInOrder
<1>5. ClockInv'
  BY DEF ClockInv, Follows
<1> QED BY <1>1, <1>2, <1>3, <1>4, <1>5

LEMMA WaitStep ==
  ASSUME AudioInv, Wait PROVE AudioInv'
<1> USE DEF AudioInv, Wait, Waited, AudioGoto, clockVars, inputVars
<1>1. Waiting /\ InOnFrame /\ signalled /\ playing = <<>>
  BY DEF HandOver, Waiting, InOnFrame
<1>2. frame \in AudioFrame /\ format = Format(frame) /\ format # Closed
  BY <1>1, FrameFacts DEF AudioTypeOK, FrameOK, InFrame
<1>3. block = index /\ Len(played) = accepted /\ copied <= Size
  BY <1>1, <1>2 DEF InFrame, Copies
<1>4. block > 0 /\ block \in Nat /\ current \in Buffer
  BY <1>2 DEF InFrame, AudioTypeOK, DeviceOK
<1>5. AudioTypeOK'
  <2>1. DeviceOK'
    BY <1>4 DEF AudioTypeOK, DeviceOK, Buffer
  <2>2. ThreadOK' /\ FrameOK'
    BY <1>1, <1>2 DEF AudioTypeOK, ThreadOK, FrameOK, InOnFrame
  <2>3. ClockOK'
    BY DEF AudioTypeOK, ClockOK
  <2> QED BY <2>1, <2>2, <2>3 DEF AudioTypeOK
<1>6. HandOver'
  BY <1>1 DEF HandOver, Waiting
<1>7. InFrame'
  <2>1. copied \in Nat /\ Size \in Nat
    BY <1>2, FrameFacts DEF AudioTypeOK, FrameOK, Size
  <2> QED BY <1>1, <1>2, <1>3, <1>4, <2>1 DEF InFrame, Waiting, InOnFrame, Size
<1>8. Copies'
  <2>1. Len(played) \in Nat
    BY DEF AudioTypeOK, DeviceOK
  <2> QED BY <1>3, <2>1 DEF Copies
<1>9. PlayedInOrder'
  BY DEF PlayedInOrder
<1>10. ClockInv'
  BY DEF ClockInv, Follows
<1> QED BY <1>5, <1>6, <1>7, <1>8, <1>9, <1>10

LEMMA ConcatFacts ==
  ASSUME NEW s \in Seq(Nat), NEW t \in Seq(Nat)
  PROVE  /\ s \o t \in Seq(Nat) /\ Len(s \o t) = Len(s) + Len(t)
         /\ \A i \in 1 .. Len(s) + Len(t) :
              (s \o t)[i] = IF i <= Len(s) THEN s[i] ELSE t[i - Len(s)]
OBVIOUS

LEMMA BufferFinishedStep ==
  ASSUME AudioInv, BufferFinished PROVE AudioInv'
<1> USE DEF AudioInv, BufferFinished, Signal, copyVars, clockVars, inputVars
<1>1. Waiting /\ InOnFrame /\ playing = <<current>> /\ ~signalled
  BY DEF HandOver, Waiting, InOnFrame
<1>2. frame \in AudioFrame /\ format = Format(frame) /\ format # Closed
  BY <1>1, FrameFacts DEF AudioTypeOK, FrameOK, InFrame
<1>3. /\ index = block /\ Len(played) + index = accepted
      /\ \A i \in 1 .. index : buffer[current][i] = Len(played) + i
  BY <1>1, <1>2 DEF InFrame, Copies
<1>4. current \in Buffer /\ block \in Nat /\ played \in Seq(Nat)
      /\ buffer[current] \in [1 .. block -> Nat]
  BY <1>1 DEF AudioTypeOK, DeviceOK
<1>5. playing' = <<>> /\ played' = played \o buffer[current]
  <2> HIDE DEF AudioInv, Signal, copyVars, clockVars, inputVars
  <2> QED BY <1>1, <1>4
<1>6. buffer[current] \in Seq(Nat) /\ Len(buffer[current]) = block
  BY <1>4
<1>7. /\ played' \in Seq(Nat) /\ Len(played') = Len(played) + block
      /\ \A i \in 1 .. Len(played') : played'[i] =
           IF i <= Len(played) THEN played[i] ELSE buffer[current][i - Len(played)]
  <2>1. buffer[current] \in Seq(Nat) /\ played \in Seq(Nat)
    BY <1>4, <1>6
  <2> QED BY <1>5, <1>6, <2>1, ConcatFacts
<1>8. AudioTypeOK'
  <2>1. DeviceOK'
    BY <1>5, <1>7 DEF AudioTypeOK, DeviceOK
  <2>2. ThreadOK' /\ FrameOK' /\ ClockOK'
    BY <1>1, <1>2 DEF AudioTypeOK, ThreadOK, FrameOK, ClockOK, InOnFrame
  <2> QED BY <2>1, <2>2 DEF AudioTypeOK
<1>9. HandOver'
  BY <1>1, <1>5 DEF HandOver, Waiting
<1>10. InFrame'
  BY <1>1 DEF InFrame, Waiting, InOnFrame, Size
<1>11. Copies'
  BY <1>3, <1>4, <1>7 DEF Copies
<1>12. PlayedInOrder'
  <2> SUFFICES ASSUME NEW i \in 1 .. Len(played') PROVE played'[i] = i
    BY DEF PlayedInOrder
  <2>1. CASE i <= Len(played)
    BY <1>4, <1>7, <2>1 DEF PlayedInOrder
  <2>2. CASE i > Len(played)
    <3>1. i - Len(played) \in 1 .. index
      BY <1>3, <1>4, <1>7, <2>2
    <3>2. ~(i <= Len(played)) /\ played'[i] = buffer[current][i - Len(played)]
      <4>1. Len(played) \in Nat /\ i \in Int
        BY <1>4
      <4> HIDE DEF AudioInv, BufferFinished, Signal, copyVars, clockVars, inputVars
      <4> QED BY <1>7, <2>2, <4>1
    <3>3. buffer[current][i - Len(played)] = Len(played) + (i - Len(played))
      BY <1>3, <3>1
    <3> QED BY <1>4, <3>2, <3>3
  <2> QED BY <1>4, <1>7, <2>1, <2>2
<1>13. ClockInv'
  BY <1>1 DEF ClockInv, Follows, Waiting, Gap, Delta
<1> QED BY <1>8, <1>9, <1>10, <1>11, <1>12, <1>13

-----------------------------------------------------------------------------
LEMMA GapFacts ==
  ASSUME AudioInv, InOnFrame
  PROVE  /\ Delta \in Nat /\ Gap \in Int /\ frame \in AudioFrame
         /\ format = Format(frame) /\ format # Closed /\ format.rate = frame.rate
         /\ frame.rate \in Nat \ {0} /\ DurationMs(frame) \in Nat
<1>1. frame \in AudioFrame /\ format = Format(frame) /\ format # Closed
  BY FrameFacts DEF AudioInv, AudioTypeOK, FrameOK, InFrame
<1>2. frame.rate \in Nat \ {0} /\ DurationMs(frame) \in Nat /\ format.rate = frame.rate
  BY <1>1, FrameFacts DEF Format
<1>3. pts \in Nat /\ lastPts \in Nat /\ lastDuration \in Nat /\ U32 \in Nat \ {0}
  BY AudioFrameAssumption DEF AudioInv, AudioTypeOK, FrameOK, ClockOK
<1>4. Delta \in Nat
  <2>1. pts - lastPts \in Int
    BY <1>3
  <2> QED BY <1>3, <2>1, ModNat DEF Delta
<1>5. Gap \in Int
  <2>1. Delta * 1000 \in Int
    BY <1>4
  <2>2. (Delta * 1000) % U32 \in Nat
    BY <1>3, <2>1, ModNat
  <2>3. ((Delta * 1000) % U32) \div frame.rate \in Int
    BY <1>2, <2>2
  <2> QED BY <1>3, <2>3 DEF Gap
<1> QED BY <1>1, <1>2, <1>4, <1>5

LEMMA ModSmall ==
  ASSUME NEW a \in Nat, NEW b \in Nat \ {0}, a < b
  PROVE  a % b = a
OBVIOUS

LEMMA ComputeGapStep ==
  ASSUME AudioInv, ComputeGap PROVE AudioInv'
<1> USE DEF AudioInv, ComputeGap, AudioGoto, deviceVars, copyVars, inputVars
<1>1. InOnFrame /\ ~Waiting
  BY DEF InOnFrame, Waiting
<1>2. /\ Delta \in Nat /\ Gap \in Int /\ frame \in AudioFrame
      /\ format = Format(frame) /\ format # Closed /\ format.rate = frame.rate
      /\ frame.rate \in Nat \ {0}
  BY <1>1, GapFacts
<1>3. AudioTypeOK'
  <2>1. ThreadOK' /\ DeviceOK' /\ FrameOK'
    BY <1>1, <1>2 DEF AudioTypeOK, ThreadOK, DeviceOK, FrameOK, InOnFrame
  <2>2. ClockOK'
    <3>1. pts \in Nat /\ ClockOK
      BY DEF AudioTypeOK, FrameOK
    <3>2. lastPts' \in Nat /\ lastDuration' \in Nat /\ steps' \in Nat
      BY <3>1 DEF ClockOK
    <3>3. gap' \in Int
      BY <1>2
    <3>4. exact' \in Int
      BY <3>1 DEF ClockOK
    <3>5. steady' \in BOOLEAN
      BY <3>1 DEF ClockOK
    <3> QED BY <3>1, <3>2, <3>3, <3>4, <3>5 DEF ClockOK
  <2> QED BY <2>1, <2>2 DEF AudioTypeOK
<1>4. HandOver'
  BY <1>1 DEF HandOver, Waiting
<1>5. InFrame'
  BY <1>1, <1>2 DEF InFrame, Waiting, InOnFrame, Size
<1>6. Copies' /\ PlayedInOrder'
  BY DEF Copies, PlayedInOrder
<1>7. ClockInv'
  <2>1. CASE renderTime = 0
    <3>1. /\ lastPts' = pts /\ lastDuration' = 0 /\ gap' = 0 /\ exact' = 0 /\ steps' = 0
          /\ UNCHANGED <<pts, frame, format, renderTime>>
      BY <2>1
    <3>2. pts \in Nat /\ U32 \in Nat \ {0}
      BY AudioFrameAssumption DEF AudioTypeOK, FrameOK
    <3>3. Delta' = 0
      <4>1. pts' - lastPts' = 0
        BY <3>1, <3>2
      <4> QED BY <3>2, <4>1, ModSmall DEF Delta
    <3>4. Gap' = 0
      <4>1. (Delta' * 1000) % U32 = 0
        BY <3>2, <3>3, ModSmall
      <4>2. 0 \div frame.rate = 0
        BY <1>2
      <4> QED BY <3>1, <4>1, <4>2 DEF Gap
    <3>5. Follows(format.rate, 0, 0, 0)
      BY <1>2 DEF Follows
    <3>6. renderTime' - lastDuration' = 0
      BY <2>1, <3>1
    <3>7. Follows(format'.rate, renderTime' - lastDuration', exact', steps')
      BY <3>1, <3>5, <3>6
    <3> QED BY <3>1, <3>4, <3>7 DEF ClockInv
  <2>2. CASE renderTime # 0
    <3>1. gap' = Gap' /\ Gap' = Gap
      BY <2>2 DEF Gap, Delta
    <3> QED BY <2>2, <3>1 DEF ClockInv, Follows
  <2> QED BY <2>1, <2>2
<1> QED BY <1>3, <1>4, <1>5, <1>6, <1>7

LEMMA AddTimeStep ==
  ASSUME AudioInv, AddTime PROVE AudioInv'
<1> USE DEF AudioInv, AddTime, AudioGoto, deviceVars, copyVars, inputVars
<1>1. InOnFrame /\ ~Waiting /\ playing = <<>> /\ ~signalled
  BY DEF InOnFrame, Waiting, HandOver
<1>2. /\ Delta \in Nat /\ Gap \in Int /\ frame \in AudioFrame
      /\ format = Format(frame) /\ format # Closed /\ format.rate = frame.rate
      /\ frame.rate \in Nat \ {0} /\ DurationMs(frame) \in Nat
  BY <1>1, GapFacts
<1>3. AudioTypeOK'
  <2>1. ThreadOK' /\ DeviceOK' /\ FrameOK'
    BY <1>1, <1>2 DEF AudioTypeOK, ThreadOK, DeviceOK, FrameOK, InOnFrame
  <2>2. ClockOK'
    BY <1>2 DEF AudioTypeOK, FrameOK, ClockOK
  <2> QED BY <2>1, <2>2 DEF AudioTypeOK
<1>4. HandOver'
  BY <1>1 DEF HandOver, Waiting
<1>5. InFrame'
  BY <1>1, <1>2 DEF InFrame, Waiting, InOnFrame, Size
<1>6. Copies' /\ PlayedInOrder'
  BY DEF Copies, PlayedInOrder
<1>7. ClockInv'
  <2> SUFFICES ASSUME steady' PROVE Follows(format'.rate, renderTime' - lastDuration', exact', steps')
    BY DEF ClockInv
  <2>1. steady /\ Delta * 1000 < U32
    OBVIOUS
  <2>2. gap = Gap
    BY DEF ClockInv
  <2>3. U32 \in Nat \ {0} /\ renderTime \in Int /\ lastDuration \in Nat
        /\ exact \in Int /\ steps \in Nat
    BY AudioFrameAssumption DEF AudioTypeOK, ClockOK
  <2>4. Delta * 1000 \in Nat
    BY <1>2
  <2>5. (Delta * 1000) % U32 = Delta * 1000
    BY <2>1, <2>3, <2>4, ModSmall
  <2>6. gap = (Delta * 1000) \div frame.rate - lastDuration
    BY <2>2, <2>5 DEF Gap
  <2>7. (Delta * 1000) \div frame.rate \in Int
    BY <1>2, <2>4
  <2>8. renderTime' - lastDuration'
          = (renderTime - lastDuration) + ((Delta * 1000) \div frame.rate)
    BY <1>2, <2>3, <2>6, <2>7
  <2>9. Follows(frame.rate, renderTime - lastDuration, exact, steps)
    BY <1>2, <2>1 DEF ClockInv
  <2> DEFINE c == renderTime - lastDuration
             m == Delta * 1000
             r == frame.rate
  <2>10. c \in Int /\ m \in Nat /\ r \in Nat \ {0}
    BY <1>2, <2>3, <2>4
  <2>11. Follows(r, c, exact, steps)
    BY <2>9
  <2> HIDE DEF c, m, r
  <2>12. Follows(r, c + (m \div r), exact + m, steps + 1)
    BY <2>3, <2>10, <2>11, FollowsOn
  <2> QED BY <1>2, <2>8, <2>12 DEF c, m, r
<1> QED BY <1>3, <1>4, <1>5, <1>6, <1>7

LEMMA StopClockStep ==
  ASSUME AudioInv, StopClock PROVE AudioInv'
<1> USE DEF AudioInv, StopClock, threadVars, deviceVars, copyVars, inputVars
<1>1. AudioTypeOK'
  <2>1. ThreadOK' /\ DeviceOK' /\ FrameOK'
    BY DEF AudioTypeOK, ThreadOK, DeviceOK, FrameOK, InOnFrame
  <2>2. ClockOK'
    <3>1. audioPc = "add" => frame.rate \in Nat
      BY GapFacts DEF InOnFrame
    <3> QED BY <3>1 DEF AudioTypeOK, ClockOK
  <2> QED BY <2>1, <2>2 DEF AudioTypeOK
<1>2. HandOver' /\ InFrame' /\ Copies' /\ PlayedInOrder'
  BY DEF HandOver, InFrame, Copies, PlayedInOrder, Waiting, InOnFrame, Size
<1>3. ClockInv'
  <2>1. CASE audioPc = "add"
    <3>1. format.rate = frame.rate /\ frame.rate \in Nat \ {0} /\ lastDuration \in Nat
      BY <2>1, GapFacts DEF InOnFrame, AudioTypeOK, ClockOK
    <3>2. Follows(frame.rate, 0 - lastDuration, - (lastDuration * frame.rate), 0)
      <4> DEFINE x == frame.rate * lastDuration
      <4>1. frame.rate * (0 - lastDuration) = - x /\ - (lastDuration * frame.rate) = - x /\ x \in Int
        BY <3>1
      <4>2. 0 * (frame.rate - 1) = 0
        BY <3>1
      <4> QED BY <4>1, <4>2 DEF Follows
    <3>3. gap' = Gap'
      BY <2>1 DEF ClockInv, Gap, Delta
    <3> QED BY <2>1, <3>1, <3>2, <3>3 DEF ClockInv
  <2>2. CASE audioPc # "add"
    BY <2>2 DEF ClockInv
  <2> QED BY <2>1, <2>2
<1> QED BY <1>1, <1>2, <1>3

LEMMA StopStep ==
  ASSUME AudioInv, Stop PROVE AudioInv'
<1> USE DEF AudioInv, Stop, deviceVars, copyVars, clockVars, inputVars
<1>1. AudioTypeOK'
  BY DEF AudioTypeOK, ThreadOK, DeviceOK, FrameOK, ClockOK, InOnFrame
<1>2. HandOver' /\ InFrame' /\ Copies' /\ PlayedInOrder'
  BY DEF HandOver, InFrame, Copies, PlayedInOrder, Waiting, InOnFrame, Size
<1>3. ClockInv'
  BY DEF ClockInv, Follows, Gap, Delta
<1> QED BY <1>1, <1>2, <1>3

LEMMA EndsStep ==
  ASSUME AudioInv, Ends PROVE AudioInv'
<1> USE DEF AudioInv, Ends, AudioGoto, deviceVars, copyVars, clockVars, inputVars
<1>1. AudioTypeOK'
  BY DEF AudioTypeOK, ThreadOK, DeviceOK, FrameOK, ClockOK, InOnFrame
<1>2. HandOver' /\ InFrame' /\ Copies' /\ PlayedInOrder'
  BY DEF HandOver, InFrame, Copies, PlayedInOrder, Waiting, InOnFrame, Size
<1>3. ClockInv'
  BY DEF ClockInv, Follows, Gap, Delta
<1> QED BY <1>1, <1>2, <1>3

LEMMA DeleteStep ==
  ASSUME AudioInv, Delete PROVE AudioInv'
<1> USE DEF AudioInv, Delete, AudioGoto, copyVars, clockVars, inputVars
<1>1. AudioTypeOK'
  <2>1. playing' \in Seq(Buffer)
    OBVIOUS
  <2> QED BY <2>1 DEF AudioTypeOK, ThreadOK, DeviceOK, FrameOK, ClockOK, InOnFrame
<1>2. HandOver' /\ InFrame' /\ Copies' /\ PlayedInOrder'
  BY DEF HandOver, InFrame, Copies, PlayedInOrder, Waiting, InOnFrame, Size
<1>3. ClockInv'
  BY DEF ClockInv
<1> QED BY <1>1, <1>2, <1>3

-----------------------------------------------------------------------------
LEMMA AudioInvariant == AudioSpec => []AudioInv
<1>1. AudioInv /\ [AudioNext]_audioVars => AudioInv'
  <2> SUFFICES ASSUME AudioInv, [AudioNext]_audioVars PROVE AudioInv'
    OBVIOUS
  <2>1. ASSUME NEW f \in AudioFrame, NEW jump \in Jumps,
               Refuse(f, jump) \/ Accept(f, jump) \/ Reopen(f, jump) \/ ReopenFails(f, jump)
        PROVE  AudioInv'
    BY <2>1, RefuseStep, AcceptStep, ReopenStep, ReopenFailsStep
  <2>2. CASE OnFrame
    BY <2>2, CopyStep, EnqueueStep, BeginWaitStep, WaitStep, ComputeGapStep, AddTimeStep
       DEF OnFrame
  <2>3. CASE UNCHANGED audioVars
    <3> USE <2>3 DEF AudioInv, audioVars, threadVars, deviceVars, copyVars, clockVars, inputVars
    <3>1. AudioTypeOK'
      BY DEF AudioTypeOK, ThreadOK, DeviceOK, FrameOK, ClockOK, InOnFrame
    <3>2. HandOver' /\ InFrame' /\ Copies' /\ PlayedInOrder'
      BY DEF HandOver, InFrame, Copies, PlayedInOrder, Waiting, InOnFrame, Size
    <3>3. ClockInv'
      BY DEF ClockInv, Follows, Gap, Delta
    <3> QED BY <3>1, <3>2, <3>3
  <2> QED
    BY <2>1, <2>2, <2>3, BufferFinishedStep, StopClockStep, StopStep, EndsStep, DeleteStep
       DEF AudioNext
<1> QED BY <1>1, AudioInitInv, PTL DEF AudioSpec

(* The types, and that no write goes beyond the end of a buffer.           *)
THEOREM BlocksBounded == AudioSpec => []AudioTypeOK
<1>1. AudioInv => AudioTypeOK
  BY DEF AudioInv
<1> QED BY <1>1, AudioInvariant, PTL

(* What is heard is what was copied, each sample once and in order.        *)
THEOREM HeardInOrder == AudioSpec => []PlayedInOrder
<1>1. AudioInv => PlayedInOrder
  BY DEF AudioInv
<1> QED BY <1>1, AudioInvariant, PTL

(* Between two frames the device has nothing to play.                      *)
THEOREM DeviceIsIdle == AudioSpec => []NothingPlaysBetweenFrames
<1>1. AudioInv => NothingPlaysBetweenFrames
  <2> SUFFICES ASSUME AudioInv, ~InOnFrame PROVE NothingPlaysBetweenFrames
    BY DEF NothingPlaysBetweenFrames
  <2>1. ~Waiting /\ audioPc # "enqueue"
    BY DEF InOnFrame, Waiting
  <2> QED BY <2>1 DEF AudioInv, HandOver, InFrame, Copies, NothingPlaysBetweenFrames
<1> QED BY <1>1, AudioInvariant, PTL

(* The clock follows the timestamps, to a millisecond for each frame.      *)
THEOREM ClockFollows == AudioSpec => []ClockFollowsStream
<1>1. AudioInv => ClockFollowsStream
  <2> SUFFICES ASSUME AudioInv, format # Closed, renderTime # 0, steady
               PROVE  LET counted == format.rate * (renderTime - lastDuration)
                      IN counted <= exact /\ exact <= counted + steps * (format.rate - 1)
    BY DEF ClockFollowsStream
  <2> QED BY DEF AudioInv, ClockInv, Follows
<1> QED BY <1>1, AudioInvariant, PTL

-----------------------------------------------------------------------------
(* VideoOut.  What EGL holds is what the handles name, and nothing after   *)
(* clear; a context is bound for the size that was set up last, or clear   *)
(* is about to unbind it.                                                  *)
Cleared == surfaces = {} /\ contexts = {} /\ bound = NoHandle

EglInv ==
  /\ afterClear \in {"svc", "egl", "off"} /\ images \in Nat
  /\ surfaces \subseteq {surface} /\ contexts \subseteq {context}
  /\ ~display \/ videoPc \in {"egl", "off"} => Cleared

SizeInv ==
  /\ videoPc \in {"svc", "draw"} /\ bound # NoHandle => textures = imageSize
  /\ videoPc = "draw" => size = imageSize

VideoInv == EglInv /\ SizeInv /\ DrawnWhole

LEMMA EglStep == EglInv /\ [VideoNext]_videoVars => EglInv'
<1> SUFFICES ASSUME EglInv, [VideoNext]_videoVars PROVE EglInv'
  OBVIOUS
<1> USE DEF EglInv, Cleared, VideoGoto, ClearThen, eglVars, imageVars
<1>1. ASSUME NEW s \in ImageSize, TakeImage(s) PROVE EglInv'
  BY <1>1 DEF TakeImage
<1>2. CASE Clear
  BY <1>2 DEF Clear, ClearEgl
<1>3. CASE InitDisplayFails
  <2>1. Cleared /\ images' = images /\ videoPc' = "svc" /\ afterClear' = afterClear
    BY <1>3 DEF InitDisplayFails
  <2>2. CASE NoDisplay \/ NoConfig \/ NoSurface
    BY <2>1, <2>2 DEF NoDisplay, NoConfig, NoSurface
  <2>3. CASE NoContext \/ NotCurrent
    BY <2>1, <2>3 DEF NoContext, NotCurrent, CreatesSurface, CreatesContext
  <2> QED BY <1>3, <2>2, <2>3 DEF InitDisplayFails
<1>4. CASE InitDisplay
  BY <1>4 DEF InitDisplay, MakesCurrent, CreatesSurface, CreatesContext
<1>5. CASE InitGlFails \/ InitGl \/ Draw
  BY <1>5 DEF InitGlFails, AfterFailure, InitGl, Draw
<1>6. CASE StopVideo \/ EndRender
  BY <1>6 DEF StopVideo, EndRender
<1>7. CASE UNCHANGED videoVars
  BY <1>7 DEF videoVars, flowVars
<1> QED BY <1>1, <1>2, <1>3, <1>4, <1>5, <1>6, <1>7 DEF VideoNext, OnImage

LEMMA SizeStep == EglInv /\ SizeInv /\ [VideoNext]_videoVars => SizeInv'
<1> SUFFICES ASSUME EglInv, SizeInv, [VideoNext]_videoVars PROVE SizeInv'
  OBVIOUS
<1> USE DEF EglInv, Cleared, SizeInv, VideoGoto, ClearThen, eglVars, glVars, imageVars
<1>1. ASSUME NEW s \in ImageSize, TakeImage(s) PROVE SizeInv'
  BY <1>1 DEF TakeImage
<1>2. CASE Clear
  BY <1>2 DEF Clear, ClearEgl
<1>3. CASE InitDisplayFails
  <2>1. bound' = NoHandle /\ videoPc' = "svc"
    BY <1>3 DEF InitDisplayFails, NoDisplay, NoConfig, NoSurface, NoContext, NotCurrent
  <2> QED BY <2>1
<1>4. CASE InitDisplay
  BY <1>4 DEF InitDisplay
<1>5. CASE InitGlFails \/ InitGl \/ Draw
  BY <1>5 DEF InitGlFails, AfterFailure, InitGl, Draw
<1>6. CASE StopVideo \/ EndRender
  BY <1>6 DEF StopVideo, EndRender
<1>7. CASE UNCHANGED videoVars
  BY <1>7 DEF videoVars, flowVars
<1> QED BY <1>1, <1>2, <1>3, <1>4, <1>5, <1>6, <1>7 DEF VideoNext, OnImage

LEMMA DrawnStep == SizeInv /\ DrawnWhole /\ [VideoNext]_videoVars => DrawnWhole'
<1> SUFFICES ASSUME SizeInv, DrawnWhole, [VideoNext]_videoVars PROVE DrawnWhole'
  OBVIOUS
<1>1. CASE Draw
  BY <1>1 DEF Draw, SizeInv, DrawnWhole
<1>2. CASE ~Draw
  <2>1. drawn' = drawn
    BY <1>2 DEF VideoNext, OnImage, TakeImage, Clear, InitDisplayFails, InitDisplay,
       InitGlFails, InitGl, StopVideo, EndRender, videoVars
  <2> QED BY <2>1 DEF DrawnWhole
<1> QED BY <1>1, <1>2

LEMMA VideoInvariant == VideoSpec => []VideoInv
<1>1. VideoInit => VideoInv
  BY DEF VideoInit, VideoInv, EglInv, Cleared, SizeInv, DrawnWhole
<1>2. VideoInv /\ [VideoNext]_videoVars => VideoInv'
  BY EglStep, SizeStep, DrawnStep DEF VideoInv
<1> QED BY <1>1, <1>2, PTL DEF VideoSpec

(* However often the size changes and whichever call of EGL or OpenGL      *)
(* fails, the renderer has at most one surface and one context, and none   *)
(* is left when its thread has ended (egl_init_display, clear).            *)
THEOREM ContextIsOne == VideoSpec => []OneContext
<1>1. EglInv => OneContext
  <2> SUFFICES ASSUME EglInv PROVE OneContext
    OBVIOUS
  <2>1. ASSUME NEW S, NEW x, S \subseteq {x} PROVE Cardinality(S) <= 1
    <3>1. CASE S = {}
      BY <3>1, FS_EmptySet
    <3>2. CASE S = {x}
      BY <3>2, FS_Singleton
    <3> QED BY <2>1, <3>1, <3>2
  <2> QED BY <2>1 DEF EglInv, Cleared, OneContext
<1> QED BY <1>1, VideoInvariant, PTL DEF VideoInv

(* What comes to the screen fills textures of its own size, whatever an    *)
(* initialisation that failed has left in m_image_width, m_image_height.   *)
THEOREM DrawnIsWhole == VideoSpec => []DrawnWhole
  BY VideoInvariant, PTL DEF VideoInv
=============================================================================
