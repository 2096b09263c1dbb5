--------------------------- MODULE OpusEncProofs ----------------------------
(***************************************************************************)
(* What OpusEnc does for any frames, blocks, frame length and sample rate: *)
(* its two lists share no frame and lose none, what is encoded is full     *)
(* frames of consecutive samples in order, and each is given its time.     *)
(***************************************************************************)
EXTENDS OpusEnc, TLAPS

LEMMA DivMod ==
  ASSUME NEW a \in Nat, NEW b \in Nat \ {0}
  PROVE  a \div b \in Nat /\ b * (a \div b) <= a /\ a < b * (a \div b) + b
  OBVIOUS

-----------------------------------------------------------------------------
(* The frames reached from the head of a list, for any next pointers. *)
Pointers == [Frame -> Frame \cup {Null}]

LEMMA ReachedLeast ==
  ASSUME NEW link, NEW head, NEW S \in SUBSET Frame,
         {head} \ {Null} \subseteq S, Closed(S, link)
  PROVE  Reached(link, head) \subseteq S
  BY DEF Reached

LEMMA ReachedClosed ==
  ASSUME NEW link \in Pointers, NEW head \in Frame \cup {Null}
  PROVE  /\ Reached(link, head) \subseteq Frame
         /\ {head} \ {Null} \subseteq Reached(link, head)
         /\ Closed(Reached(link, head), link)
<1>1. /\ Reached(link, head) \subseteq Frame
      /\ {head} \ {Null} \subseteq Reached(link, head)
  BY DEF Reached
<1>2. ASSUME NEW f \in Reached(link, head), link[f] # Null
      PROVE  link[f] \in Reached(link, head)
  <2>1. f \in Frame /\ link[f] \in Frame
    BY <1>1, <1>2 DEF Pointers
  <2>2. ASSUME NEW S \in SUBSET Frame, {head} \ {Null} \subseteq S, Closed(S, link)
        PROVE  link[f] \in S
    <3>1. f \in S
      BY <2>2 DEF Reached
    <3> QED BY <1>2, <2>2, <3>1 DEF Closed
  <2> QED BY <2>1, <2>2 DEF Reached
<1> QED BY <1>1, <1>2 DEF Closed

LEMMA ReachedNull ==
  ASSUME NEW link
  PROVE  Reached(link, Null) = {}
<1>1. {Null} \ {Null} \subseteq {} /\ Closed({}, link)
  BY DEF Closed
<1> QED BY <1>1, ReachedLeast

(* The head and what is reached from the frame that follows it. *)
LEMMA ReachedUnfold ==
  ASSUME NEW link \in Pointers, NEW head \in Frame
  PROVE  Reached(link, head) = {head} \cup Reached(link, link[head])
<1> DEFINE F == Reached(link, head)
           G == Reached(link, link[head])
<1>1. link[head] \in Frame \cup {Null} /\ head # Null
  BY EncAssumption DEF Pointers
<1>2. /\ F \subseteq Frame /\ head \in F /\ Closed(F, link)
      /\ G \subseteq Frame /\ {link[head]} \ {Null} \subseteq G /\ Closed(G, link)
  BY <1>1, ReachedClosed
<1>3. Closed({head} \cup G, link)
  BY <1>1, <1>2 DEF Closed
<1>4. F \subseteq {head} \cup G
  BY <1>2, <1>3, ReachedLeast
<1>5. {link[head]} \ {Null} \subseteq F
  BY <1>2 DEF Closed
<1>6. G \subseteq F
  BY <1>2, <1>5, ReachedLeast
<1> QED BY <1>2, <1>4, <1>6

(* Pointers of other frames do not matter. *)
LEMMA ReachedSame ==
  ASSUME NEW link \in Pointers, NEW link2 \in Pointers, NEW head \in Frame \cup {Null},
         \A f \in Reached(link, head) : link2[f] = link[f]
  PROVE  Reached(link2, head) = Reached(link, head)
<1> DEFINE F == Reached(link, head)
           G == Reached(link2, head)
<1>1. /\ F \subseteq Frame /\ {head} \ {Null} \subseteq F /\ Closed(F, link)
      /\ G \subseteq Frame /\ {head} \ {Null} \subseteq G /\ Closed(G, link2)
  BY ReachedClosed
<1>2. Closed(F, link2)
  BY <1>1 DEF Closed
<1>3. G \subseteq F
  BY <1>1, <1>2, ReachedLeast
<1>4. Closed(F \cap G, link)
  BY <1>1 DEF Closed
<1>5. F \subseteq F \cap G
  BY <1>1, <1>4, ReachedLeast
<1> QED BY <1>3, <1>5

(* A frame that is linked behind the last one. *)
LEMMA ReachedAppend ==
  ASSUME NEW link \in Pointers, NEW link2 \in Pointers, NEW head \in Frame, NEW f \in Frame,
         \A g \in Reached(link, head) : link2[g] = IF link[g] = Null THEN f ELSE link[g],
         link2[f] = Null, \E t \in Reached(link, head) : link[t] = Null
  PROVE  Reached(link2, head) = Reached(link, head) \cup {f}
<1> DEFINE F == Reached(link, head)
           G == Reached(link2, head)
<1>1. /\ F \subseteq Frame /\ {head} \ {Null} \subseteq F /\ Closed(F, link)
      /\ G \subseteq Frame /\ {head} \ {Null} \subseteq G /\ Closed(G, link2)
      /\ f # Null
  BY ReachedClosed, EncAssumption
<1> HIDE DEF F, G
<1>2. \A g \in F : link2[g] = IF link[g] = Null THEN f ELSE link[g]
  BY DEF F
<1>3. Closed(F \cup {f}, link2)
  BY <1>1, <1>2 DEF Closed
<1>4. G \subseteq F \cup {f}
  BY <1>1, <1>3, ReachedLeast DEF G
<1>5. Closed(F \cap G, link)
  BY <1>1, <1>2 DEF Closed
<1>6. F \subseteq F \cap G
  BY <1>1, <1>5, ReachedLeast DEF F
<1>7. f \in G
  <2>1. PICK t \in F : link[t] = Null
    BY DEF F
  <2> QED BY <1>1, <1>2, <1>6, <2>1 DEF Closed
<1> QED BY <1>4, <1>6, <1>7 DEF F, G

(* A list has one end. *)
LEMMA OneTail ==
  ASSUME NEW link \in Pointers, NEW head \in Frame \cup {Null},
         NEW t \in Reached(link, head), NEW u \in Reached(link, head),
         link[t] = Null, link[u] = Null
  PROVE  t = u
<1> DEFINE F == Reached(link, head)
           S == {g \in F : t \in Reached(link, g)}
<1>1. F \subseteq Frame /\ {head} \ {Null} \subseteq F /\ Closed(F, link)
  BY ReachedClosed
<1>2. {head} \ {Null} \subseteq S
  BY <1>1
<1>3. Closed(S, link)
  <2> SUFFICES ASSUME NEW g \in S, link[g] # Null PROVE link[g] \in S
    BY DEF Closed
  <2>1. link[g] \in F /\ g \in Frame /\ t \in Reached(link, g) /\ t # g
    BY <1>1 DEF Closed
  <2>2. t \in Reached(link, link[g])
    BY <2>1, ReachedUnfold
  <2> QED BY <2>1, <2>2
<1>4. u \in S
  BY <1>1, <1>2, <1>3, ReachedLeast
<1>5. Reached(link, u) = {u}
  BY <1>1, ReachedUnfold, ReachedNull
<1> QED BY <1>4, <1>5
-----------------------------------------------------------------------------
(* The invariant. *)
OutFrame == [samples : Seq(Nat), ntp : Int]

TypeInv ==
  /\ at \in {"idle", "write", "encode", "destroyed", "undefined"}
  /\ frames \in Frame \cup {Null} /\ free \in Frame \cup {Null}
  /\ next \in Pointers /\ allocated \subseteq Frame
  /\ content \in [Frame -> Seq(Nat)] /\ ntp \in [Frame -> Int]
  /\ len \in Nat /\ left \in 0 .. len /\ given \in Nat /\ firstNtp \in Int
  /\ out \in Seq(OutFrame)

(* The number of the next sample. *)
Position == IF at \in {"write", "encode"} THEN given + len - left + 1 ELSE given + 1

Start(f) == content[f][1]
End(f)   == Start(f) + Len(content[f])

Consecutive(s) == \A j \in 1 .. Len(s) : s[j] = s[1] + j - 1

HasTail(S) == \E f \in S : next[f] = Null

ListInv ==
  /\ Listed(frames) \cup Listed(free) = allocated
  /\ Listed(frames) \cap Listed(free) = {}
  /\ frames # Null => HasTail(Listed(frames))
  /\ free # Null => HasTail(Listed(free))

(* Frames hold samples that have come, without gaps; one that is not full  *)
(* ends with the last of them.                                             *)
ContentInv ==
  /\ \A f \in allocated :
       /\ Len(content[f]) \in 1 .. FrameSamples /\ Consecutive(content[f])
       /\ End(f) <= Position
  /\ \A f \in Listed(frames) : next[f] = Null /\ Len(content[f]) < FrameSamples =>
       End(f) = Position /\ (at = "encode" => left = 0)

(* Along the list of frames they get later, along the free list earlier.   *)
OrderInv ==
  /\ \A f \in Listed(frames) : next[f] # Null =>
       Len(content[f]) = FrameSamples /\ End(f) <= Start(next[f])
  /\ \A f \in Listed(free) : next[f] # Null => Start(next[f]) < Start(f)
  /\ \A f \in Listed(frames), g \in Listed(free) : Start(g) < Start(f)

OutInv ==
  \A i \in 1 .. Len(out) :
    /\ Len(out[i].samples) = FrameSamples /\ Consecutive(out[i].samples)
    /\ i > 1 => out[i].samples[1] >= out[i - 1].samples[1] + FrameSamples
    /\ out[i].samples[1] + FrameSamples <= Position
    /\ \A f \in Listed(frames) : out[i].samples[1] + FrameSamples <= Start(f)

Near(time, sample) ==
  /\ time * PerMs > sample - 1 - 2 * PerMs
  /\ time * PerMs < sample - 1 + PerMs

TimeInv ==
  /\ at = "write" => firstNtp * PerMs > given - PerMs /\ firstNtp * PerMs < given + PerMs
  /\ \A f \in Listed(frames) : Near(ntp[f], Start(f))
  /\ \A i \in 1 .. Len(out) : Near(out[i].ntp, out[i].samples[1])

EncInv == TypeInv /\ ListInv /\ ContentInv /\ OrderInv /\ OutInv /\ TimeInv

-----------------------------------------------------------------------------
LEMMA Lists ==
  ASSUME TypeInv
  PROVE  /\ Listed(frames) \subseteq Frame /\ Listed(free) \subseteq Frame
         /\ {frames} \ {Null} \subseteq Listed(frames)
         /\ {free} \ {Null} \subseteq Listed(free)
         /\ Closed(Listed(frames), next) /\ Closed(Listed(free), next)
         /\ Position \in Nat \ {0}
         /\ FrameSamples \in Nat \ {0} /\ PerMs \in Nat \ {0} /\ Null \notin Frame
<1>1. /\ Listed(frames) \subseteq Frame /\ Listed(free) \subseteq Frame
      /\ {frames} \ {Null} \subseteq Listed(frames)
      /\ {free} \ {Null} \subseteq Listed(free)
      /\ Closed(Listed(frames), next) /\ Closed(Listed(free), next)
  BY ReachedClosed DEF TypeInv, Listed
<1> QED BY <1>1, EncAssumption DEF TypeInv, Position

LEMMA StartType ==
  ASSUME TypeInv, NEW f \in Frame, Len(content[f]) >= 1
  PROVE  Start(f) \in Nat /\ Len(content[f]) \in Nat /\ End(f) \in Nat
<1>1. content[f] \in Seq(Nat)
  BY DEF TypeInv
<1>2. ASSUME NEW s \in Seq(Nat), Len(s) >= 1 PROVE s[1] \in Nat /\ Len(s) \in Nat
  BY <1>2
<1>3. Start(f) \in Nat /\ Len(content[f]) \in Nat
  BY <1>1, <1>2 DEF Start
<1> QED BY <1>3 DEF End

LEMMA FirstSample ==
  ASSUME NEW e \in OutFrame, Len(e.samples) \in Nat \ {0}
  PROVE  e.samples \in Seq(Nat) /\ e.samples[1] \in Nat /\ e.ntp \in Int
<1>1. e.samples \in Seq(Nat) /\ e.ntp \in Int
  BY DEF OutFrame
<1>2. ASSUME NEW s \in Seq(Nat), Len(s) \in Nat \ {0} PROVE s[1] \in Nat
  BY <1>2
<1> QED BY <1>1, <1>2

(* The list of frames is ordered, not only its neighbours.                 *)
LEMMA FirstIsEarliest ==
  ASSUME EncInv, frames # Null
  PROVE  /\ frames \notin Listed(next[frames])
         /\ \A g \in Listed(next[frames]) :
              next[frames] # Null /\ End(frames) <= Start(g)
         /\ Listed(frames) = {frames} \cup Listed(next[frames])
<1> DEFINE F == Listed(frames)
           S == {g \in F : Start(g) \in Nat /\ End(frames) <= Start(g)}
<1>1. /\ F \subseteq Frame /\ frames \in F /\ frames \in Frame /\ Closed(F, next)
      /\ \A g \in F : next[g] # Null => Len(content[g]) = FrameSamples /\ End(g) <= Start(next[g])
      /\ \A g \in F : Start(g) \in Nat /\ End(g) \in Nat /\ Start(g) < End(g)
  <2>1. \A g \in F : Start(g) \in Nat /\ End(g) \in Nat /\ Start(g) < End(g)
    <3> SUFFICES ASSUME NEW g \in F PROVE Start(g) \in Nat /\ End(g) \in Nat /\ Start(g) < End(g)
      OBVIOUS
    <3>1. g \in Frame /\ Len(content[g]) \in 1 .. FrameSamples
      BY Lists DEF EncInv, ListInv, ContentInv
    <3>2. Start(g) \in Nat /\ Len(content[g]) \in Nat
      BY <3>1, StartType DEF EncInv
    <3> QED BY <3>1, <3>2 DEF End
  <2> QED BY <2>1, Lists DEF EncInv, OrderInv, TypeInv
<1>2. next[frames] \in Frame \cup {Null}
  BY <1>1 DEF EncInv, TypeInv, Pointers
<1>3. {next[frames]} \ {Null} \subseteq S
  BY <1>1 DEF Closed
<1>4. Closed(S, next)
  <2> SUFFICES ASSUME NEW g \in S, next[g] # Null PROVE next[g] \in S
    BY DEF Closed
  <2>1. g \in F /\ next[g] \in F /\ End(g) <= Start(next[g])
    BY <1>1 DEF Closed
  <2> QED BY <1>1, <2>1
<1>5. Listed(next[frames]) \subseteq S
  BY <1>1, <1>3, <1>4, ReachedLeast DEF Listed
<1>6. frames \notin S
  BY <1>1
<1>7. next[frames] = Null => Listed(next[frames]) = {}
  BY ReachedNull DEF Listed
<1>8. F = {frames} \cup Listed(next[frames])
  BY <1>1, ReachedUnfold DEF Listed, EncInv, TypeInv
<1> QED BY <1>5, <1>6, <1>7, <1>8

LEMMA FreeIsLatest ==
  ASSUME EncInv, free # Null
  PROVE  /\ free \notin Listed(next[free])
         /\ Listed(free) = {free} \cup Listed(next[free])
<1> DEFINE F == Listed(free)
           S == {g \in F : Start(g) < Start(free)}
<1>1. /\ F \subseteq Frame /\ free \in F /\ free \in Frame /\ Closed(F, next)
      /\ \A g \in F : next[g] # Null => Start(next[g]) < Start(g)
      /\ \A g \in F : Start(g) \in Nat
  <2>1. \A g \in F : Start(g) \in Nat
    <3> SUFFICES ASSUME NEW g \in F PROVE Start(g) \in Nat
      OBVIOUS
    <3>1. g \in Frame /\ Len(content[g]) \in 1 .. FrameSamples
      BY Lists DEF EncInv, ListInv, ContentInv
    <3> QED BY <3>1, StartType DEF EncInv
  <2> QED BY <2>1, Lists DEF EncInv, OrderInv, TypeInv
<1>2. {next[free]} \ {Null} \subseteq S
  BY <1>1 DEF Closed
<1>3. Closed(S, next)
  <2> SUFFICES ASSUME NEW g \in S, next[g] # Null PROVE next[g] \in S
    BY DEF Closed
  <2>1. g \in F /\ next[g] \in F /\ Start(next[g]) < Start(g)
    BY <1>1 DEF Closed
  <2> QED BY <1>1, <2>1
<1>4. Listed(next[free]) \subseteq S
  BY <1>1, <1>2, <1>3, ReachedLeast DEF Listed
<1>5. free \notin S
  BY <1>1
<1>6. F = {free} \cup Listed(next[free])
  BY <1>1, ReachedUnfold DEF Listed, EncInv, TypeInv
<1> QED BY <1>4, <1>5, <1>6

LEMMA ConcatFacts ==
  ASSUME NEW s \in Seq(Nat), NEW t \in Seq(Nat)
  PROVE  /\ s \o t \in Seq(Nat) /\ Len(s \o t) = Len(s) + Len(t)
         /\ \A j \in 1 .. Len(s) : (s \o t)[j] = s[j]
         /\ \A i \in 1 .. Len(t) : (s \o t)[Len(s) + i] = t[i]
  OBVIOUS

(* What memcpy leaves in a frame: the samples that follow. *)
LEMMA WriteFacts ==
  ASSUME TypeInv, at = "write", left > 0, NEW f \in Frame, NEW before \in Seq(Nat),
         Len(before) < FrameSamples, Write(f, before), UNCHANGED <<at, len, given>>,
         before = <<>> \/ (Consecutive(before) /\ before[1] + Len(before) = Position)
  PROVE  LET s == content'[f]
         IN /\ s \in Seq(Nat) /\ Len(s) \in 1 .. FrameSamples /\ Consecutive(s)
            /\ s[1] = IF before = <<>> THEN Position ELSE before[1]
            /\ s[1] + Len(s) = Position'
            /\ content' \in [Frame -> Seq(Nat)]
            /\ \A g \in Frame : g # f => content'[g] = content[g]
            /\ left' \in 0 .. len' /\ Position <= Position' /\ Position' \in Nat
<1> DEFINE n == Smaller(FrameSamples - Len(before), left)
           new == [i \in 1 .. n |-> given + (len - left) + i]
           s == before \o new
<1>1. /\ content' = [content EXCEPT ![f] = s] /\ left' = left - n
  BY DEF Write
<1>2. /\ len \in Nat /\ left \in 1 .. len /\ given \in Nat
      /\ Position = given + len - left + 1 /\ FrameSamples \in Nat \ {0}
      /\ Len(before) \in Nat
  BY EncAssumption DEF TypeInv, Position
<1>3. n \in 1 .. left /\ n <= FrameSamples - Len(before)
  BY <1>2 DEF Smaller
<1> HIDE DEF n
<1>4. /\ new \in Seq(Nat) /\ Len(new) = n
      /\ \A i \in 1 .. n : new[i] = Position - 1 + i
  BY <1>2, <1>3
<1> HIDE DEF new
<1>5. /\ s \in Seq(Nat) /\ Len(s) = Len(before) + n
      /\ \A j \in 1 .. Len(before) : s[j] = before[j]
      /\ \A i \in 1 .. n : s[Len(before) + i] = Position - 1 + i
  BY <1>4, ConcatFacts
<1> HIDE DEF s
<1>6. Len(s) \in 1 .. FrameSamples
  BY <1>2, <1>3, <1>5
<1>7. left' \in 0 .. len' /\ Position' = Position + n /\ Position \in Nat
  BY <1>1, <1>2, <1>3 DEF Position
<1>8. content' \in [Frame -> Seq(Nat)] /\ content'[f] = s
      /\ \A g \in Frame : g # f => content'[g] = content[g]
  BY <1>1, <1>5 DEF TypeInv
<1>9. s[1] = (IF before = <<>> THEN Position ELSE before[1]) /\ s[1] \in Nat
      /\ s[1] + Len(before) = Position
  <2>1. CASE before = <<>>
    <3>1. s[0 + 1] = Position - 1 + 1 /\ Len(before) = 0
      BY <1>3, <1>5, <2>1
    <3> QED BY <1>7, <2>1, <3>1
  <2>2. CASE before # <<>>
    <3>1. 1 \in 1 .. Len(before) /\ before[1] \in Nat
      BY <2>2
    <3> QED BY <1>5, <2>2, <3>1
  <2> QED BY <2>1, <2>2
<1>10. s[1] + Len(s) = Position'
  <2>1. Len(s) = Len(before) + n /\ n \in Nat /\ Len(before) \in Nat
    BY <1>2, <1>3, <1>5
  <2>2. s[1] + (Len(before) + n) = s[1] + Len(before) + n
    BY <1>9, <2>1
  <2> QED BY <1>7, <1>9, <2>1, <2>2
<1>11. Consecutive(s)
  <2> SUFFICES ASSUME NEW j \in 1 .. Len(s) PROVE s[j] = s[1] + j - 1
    BY DEF Consecutive
  <2>1. CASE j \in 1 .. Len(before)
    <3>1. before # <<>> /\ before[j] = before[1] + j - 1
      BY <2>1 DEF Consecutive
    <3> QED BY <1>5, <1>9, <2>1, <3>1
  <2>2. CASE j \notin 1 .. Len(before)
    <3>1. j - Len(before) \in 1 .. n /\ Len(before) + (j - Len(before)) = j
      BY <1>2, <1>3, <1>5, <2>2
    <3>2. s[j] = Position - 1 + (j - Len(before))
      BY <1>5, <3>1
    <3>3. ASSUME NEW x \in Int, NEW l \in Int, NEW p \in Int, x + l = p
          PROVE  p - 1 + (j - l) = x + j - 1
      BY <3>3
    <3>4. Position \in Int /\ Len(before) \in Int /\ s[1] \in Int
      BY <1>2, <1>7, <1>9
    <3>5. Position - 1 + (j - Len(before)) = s[1] + j - 1
      BY <1>9, <3>3, <3>4
    <3> QED BY <3>2, <3>5
  <2> QED BY <2>1, <2>2
<1>12. Position <= Position' /\ Position' \in Nat
  BY <1>3, <1>7
<1> QED BY <1>5, <1>6, <1>7, <1>8, <1>9, <1>10, <1>11, <1>12
-----------------------------------------------------------------------------
(* The time of a frame. *)
LEMMA Distribute ==
  ASSUME NEW a \in Int, NEW b \in Int, NEW p \in Int
  PROVE  (a + b) * p = a * p + p * b /\ (a - b) * p = p * a - p * b /\ a * p \in Int
  OBVIOUS

LEMMA NtpIsNear ==
  ASSUME TypeInv, TimeInv, at = "write"
  PROVE  NtpOf(len - left) \in Int /\ Near(NtpOf(len - left), Position)
<1> DEFINE w == len - left
           d == w \div PerMs
<1>1. /\ w \in Nat /\ given \in Nat /\ firstNtp \in Int /\ PerMs \in Nat \ {0}
      /\ Position = given + w + 1
  BY EncAssumption DEF TypeInv, Position
<1>2. firstNtp * PerMs > given - PerMs /\ firstNtp * PerMs < given + PerMs
  BY DEF TimeInv
<1> HIDE DEF w
<1>3. d \in Nat /\ PerMs * d <= w /\ w < PerMs * d + PerMs
  BY <1>1, DivMod
<1> HIDE DEF d
<1>4. (firstNtp + d) * PerMs = firstNtp * PerMs + PerMs * d
  BY <1>1, <1>3, Distribute
<1> DEFINE x == firstNtp * PerMs
           y == PerMs * d
<1>5. x \in Int /\ y \in Int
  BY <1>1, <1>3
<1>6. x > given - PerMs /\ x < given + PerMs /\ y <= w /\ w < y + PerMs
      /\ (firstNtp + d) * PerMs = x + y
  BY <1>2, <1>3, <1>4
<1> HIDE DEF x, y
<1>7. Near(firstNtp + d, Position)
  BY <1>1, <1>3, <1>5, <1>6 DEF Near
<1>8. NtpOf(w) = firstNtp + d
  BY DEF NtpOf, DurationMs, d
<1> QED BY <1>1, <1>3, <1>7, <1>8 DEF w

-----------------------------------------------------------------------------
(* Steps that do not move frames or samples. *)
LEMMA ControlStep ==
  ASSUME EncInv, UNCHANGED <<listVars, dataVars, out>>, Position' \in Nat,
         Position <= Position', TypeInv',
         at' = "write" => firstNtp' * PerMs > given' - PerMs /\ firstNtp' * PerMs < given' + PerMs,
         \A f \in Listed(frames) : next[f] = Null /\ Len(content[f]) < FrameSamples =>
           Position' = Position /\ (at' = "encode" => left' = 0)
  PROVE  EncInv'
<1>1. /\ frames' = frames /\ free' = free /\ next' = next /\ allocated' = allocated
      /\ content' = content /\ ntp' = ntp /\ out' = out
  BY DEF listVars, dataVars
<1>2. Listed(frames)' = Listed(frames) /\ Listed(free)' = Listed(free)
  BY <1>1 DEF Listed
<1>3. Position \in Nat
  BY Lists DEF EncInv
<1>4. ListInv' /\ OrderInv'
  BY <1>1, <1>2 DEF EncInv, ListInv, OrderInv, HasTail, Start, End
<1>5. ContentInv'
  <2>1. ASSUME NEW f \in allocated
        PROVE  /\ Len(content[f]) \in 1 .. FrameSamples /\ Consecutive(content[f])
               /\ End(f) <= Position'
    <3>1. Len(content[f]) \in 1 .. FrameSamples /\ End(f) <= Position
          /\ Consecutive(content[f]) /\ f \in Frame
      BY DEF EncInv, ContentInv, TypeInv
    <3>2. End(f) \in Nat
      BY <3>1, StartType DEF EncInv
    <3> QED BY <1>3, <3>1, <3>2
  <2> QED BY <1>1, <1>2, <2>1 DEF EncInv, ContentInv, End, Start
<1>6. OutInv'
  <2>1. ASSUME NEW i \in 1 .. Len(out)
        PROVE  out[i].samples[1] + FrameSamples <= Position'
    <3>1. out[i].samples[1] + FrameSamples <= Position
          /\ Len(out[i].samples) = FrameSamples
      BY DEF EncInv, OutInv
    <3>2. out[i].samples[1] \in Nat /\ FrameSamples \in Nat
      <4>1. FrameSamples \in Nat \ {0} /\ out \in Seq(OutFrame)
        BY EncAssumption DEF EncInv, TypeInv
      <4>2. out[i] \in OutFrame
        BY <4>1
      <4> QED BY <3>1, <4>1, <4>2, FirstSample
    <3> QED BY <1>3, <3>1, <3>2
  <2> QED BY <1>1, <1>2, <2>1 DEF EncInv, OutInv, Start
<1>7. TimeInv'
  BY <1>1, <1>2 DEF EncInv, TimeInv, Start
<1> QED BY <1>4, <1>5, <1>6, <1>7 DEF EncInv

LEMMA Transitive ==
  ASSUME NEW a \in Int, NEW b \in Int, NEW c \in Int, a <= b, b <= c
  PROVE  a <= c
  OBVIOUS

(* A frame's content grows at the end of the list.                         *)
LEMMA WriteToLastStep ==
  ASSUME EncInv, NEW f \in Frame, WriteToLast(f)
  PROVE  EncInv'
<1> DEFINE s == content'[f]
<1>1. /\ at = "write" /\ left > 0 /\ f \in Listed(frames) /\ next[f] = Null
      /\ Len(content[f]) < FrameSamples /\ Write(f, content[f])
      /\ frames' = frames /\ free' = free /\ next' = next /\ allocated' = allocated
      /\ out' = out /\ UNCHANGED <<at, len, given, firstNtp>>
  BY DEF WriteToLast, IsTail, listVars, callVars
<1>2. /\ Len(content[f]) \in 1 .. FrameSamples /\ Consecutive(content[f])
      /\ Start(f) + Len(content[f]) = Position
  BY <1>1 DEF EncInv, ContentInv, ListInv, End
<1>3. content[f] \in Seq(Nat) /\ content[f] # <<>>
  BY <1>2 DEF EncInv, TypeInv
<1>4. /\ s \in Seq(Nat) /\ Len(s) \in 1 .. FrameSamples /\ Consecutive(s)
      /\ s[1] = Start(f) /\ s[1] + Len(s) = Position'
      /\ content' \in [Frame -> Seq(Nat)]
      /\ \A g \in Frame : g # f => content'[g] = content[g]
      /\ left' \in 0 .. len' /\ Position <= Position' /\ Position' \in Nat
  BY <1>1, <1>2, <1>3, WriteFacts DEF EncInv, Start
<1>5. ntp' = ntp
  BY <1>1, <1>3 DEF Write, EncInv, TypeInv
<1>6. Listed(frames)' = Listed(frames) /\ Listed(free)' = Listed(free)
  BY <1>1 DEF Listed
<1>7. /\ \A g \in Frame : Start(g)' = Start(g)
      /\ \A g \in Frame : g # f => End(g)' = End(g)
      /\ End(f)' = Position'
  BY <1>4 DEF Start, End
<1>8. Position \in Nat /\ Position' \in Nat
  BY <1>4, Lists DEF EncInv
<1>9. TypeInv'
  BY <1>1, <1>4, <1>5 DEF EncInv, TypeInv
<1>10. ListInv'
  BY <1>1, <1>6 DEF EncInv, ListInv, HasTail
<1>11. Listed(frames) \subseteq Frame /\ Listed(free) \subseteq Frame /\ allocated \subseteq Frame
  BY Lists DEF EncInv, TypeInv
<1>12. ContentInv'
  <2>1. ASSUME NEW g \in allocated
        PROVE  /\ Len(content'[g]) \in 1 .. FrameSamples /\ Consecutive(content'[g])
               /\ End(g)' <= Position'
    <3>1. CASE g = f
      BY <1>4, <1>7, <1>8, <3>1
    <3>2. CASE g # f
      <4>1. Len(content[g]) \in 1 .. FrameSamples /\ End(g) <= Position
            /\ Consecutive(content[g]) /\ g \in Frame
        BY <1>11 DEF EncInv, ContentInv
      <4>2. End(g) \in Nat
        BY <4>1, StartType DEF EncInv
      <4> QED BY <1>4, <1>7, <1>8, <3>2, <4>1, <4>2
    <3> QED BY <3>1, <3>2
  <2>2. ASSUME NEW g \in Listed(frames), next[g] = Null PROVE g = f
    BY <1>1, <2>2, OneTail DEF Listed, EncInv, TypeInv
  <2> QED BY <1>1, <1>6, <1>7, <2>1, <2>2 DEF ContentInv
<1>13. OrderInv'
  <2>1. ASSUME NEW g \in Listed(frames), next[g] # Null
        PROVE  /\ Len(content'[g]) = FrameSamples /\ End(g)' <= Start(next[g])'
    <3>1. g # f /\ g \in Frame /\ next[g] \in Frame
      BY <1>1, <1>11, <2>1 DEF EncInv, TypeInv, Pointers
    <3>2. Start(next[g])' = Start(next[g])
      BY <1>1, <1>4, <3>1 DEF Start
    <3> QED BY <1>4, <1>7, <2>1, <3>1, <3>2 DEF EncInv, OrderInv
  <2>2. ASSUME NEW g \in Listed(free), next[g] # Null
        PROVE  Start(next[g])' < Start(g)'
    <3>1. g \in Frame /\ next[g] \in Frame
      BY <1>11, <2>2 DEF EncInv, TypeInv, Pointers
    <3>2. Start(next[g])' = Start(next[g])
      BY <1>1, <1>4, <3>1 DEF Start
    <3> QED BY <1>7, <2>2, <3>1, <3>2 DEF EncInv, OrderInv
  <2>3. ASSUME NEW g \in Listed(frames), NEW h \in Listed(free)
        PROVE  Start(h)' < Start(g)'
    BY <1>7, <1>11 DEF EncInv, OrderInv
  <2>4. /\ \A g \in Listed(frames)' : next'[g] # Null =>
             Len(content'[g]) = FrameSamples /\ End(g)' <= Start(next[g])'
        /\ \A g \in Listed(free)' : next'[g] # Null => Start(next[g])' < Start(g)'
        /\ \A g \in Listed(frames)', h \in Listed(free)' : Start(h)' < Start(g)'
    BY <1>1, <1>6, <2>1, <2>2, <2>3
  <2> QED BY <2>4 DEF OrderInv
<1>14. OutInv'
  <2>1. ASSUME NEW i \in 1 .. Len(out)
        PROVE  /\ out[i].samples[1] + FrameSamples <= Position'
               /\ \A g \in Listed(frames) : out[i].samples[1] + FrameSamples <= Start(g)'
    <3>1. out[i].samples[1] + FrameSamples <= Position
          /\ Len(out[i].samples) = FrameSamples
          /\ \A g \in Listed(frames) : out[i].samples[1] + FrameSamples <= Start(g)
      BY DEF EncInv, OutInv
    <3>2. out[i].samples[1] \in Nat /\ FrameSamples \in Nat
      <4>1. FrameSamples \in Nat \ {0} /\ out \in Seq(OutFrame)
        BY EncAssumption DEF EncInv, TypeInv
      <4>2. out[i] \in OutFrame
        BY <4>1
      <4> QED BY <3>1, <4>1, <4>2, FirstSample
    <3>3. out[i].samples[1] + FrameSamples \in Int
      BY <3>2
    <3>4. Position <= Position'
      BY <1>4
    <3>5. out[i].samples[1] + FrameSamples <= Position'
      BY <1>8, <3>1, <3>3, <3>4, Transitive
    <3> QED BY <1>7, <1>11, <3>1, <3>5
  <2> QED BY <1>1, <1>6, <2>1 DEF EncInv, OutInv
<1>15. TimeInv'
  BY <1>1, <1>5, <1>6, <1>7, <1>11 DEF EncInv, TimeInv
<1> QED BY <1>9, <1>10, <1>12, <1>13, <1>14, <1>15 DEF EncInv

(* A frame that is not in the list, be it new or taken off the free list,  *)
(* becomes its last one.                                                   *)
LEMMA LinkFacts ==
  ASSUME TypeInv, ListInv, NEW f \in Frame \ Listed(frames), Link(f, next)
  PROVE  /\ next' \in Pointers /\ frames' \in Frame /\ next'[f] = Null
         /\ Listed(frames)' = Listed(frames) \cup {f}
         /\ \A g \in Listed(frames) : next'[g] = IF next[g] = Null THEN f ELSE next[g]
         /\ \A g \in Frame \ (Listed(frames) \cup {f}) : next'[g] = next[g]
<1>1. Listed(frames) \subseteq Frame /\ next \in Pointers /\ f # Null
  BY Lists, EncAssumption DEF TypeInv
<1>2. CASE frames = Null
  <2>1. frames' = f /\ next' = [next EXCEPT ![f] = Null]
    BY <1>2 DEF Link
  <2>2. next' \in Pointers /\ next'[f] = Null /\ \A g \in Frame \ {f} : next'[g] = next[g]
    BY <1>1, <2>1 DEF Pointers
  <2>3. Listed(frames) = {}
    BY <1>2, ReachedNull DEF Listed
  <2>4. Listed(frames)' = {f}
    <3>1. Reached(next', f) = {f} \cup Reached(next', next'[f])
      BY <2>2, ReachedUnfold
    <3>2. Reached(next', Null) = {}
      BY ReachedNull
    <3> QED BY <2>1, <2>2, <3>1, <3>2 DEF Listed
  <2> QED BY <2>1, <2>2, <2>3, <2>4
<1>3. CASE frames # Null
  <2>1. /\ frames' = frames
        /\ next' = [g \in Frame |-> IF g = f THEN Null ELSE IF IsTail(g) THEN f ELSE next[g]]
    BY <1>3 DEF Link
  <2>2. \A g \in Frame : next[g] \in Frame \cup {Null}
    BY <1>1 DEF Pointers
  <2>3. next' \in Pointers
    BY <2>1, <2>2 DEF Pointers
  <2>4. next'[f] = Null
    BY <2>1
  <2>5. \A g \in Listed(frames) : next'[g] = IF next[g] = Null THEN f ELSE next[g]
    BY <1>1, <2>1 DEF IsTail
  <2>6. \A g \in Frame \ (Listed(frames) \cup {f}) : next'[g] = next[g]
    BY <2>1 DEF IsTail
  <2>7. frames \in Frame
    BY <1>3 DEF TypeInv
  <2>8. Reached(next', frames) = Reached(next, frames) \cup {f}
    BY <1>1, <1>3, <2>3, <2>4, <2>5, <2>7, ReachedAppend DEF Listed, ListInv, HasTail
  <2> QED BY <2>1, <2>3, <2>4, <2>5, <2>6, <2>7, <2>8 DEF Listed
<1> QED BY <1>2, <1>3

LEMMA NewTailStep ==
  ASSUME EncInv, NeedsFrame, NEW f \in Frame \ Listed(frames), Link(f, next), Write(f, <<>>),
         UNCHANGED <<at, len, given, firstNtp, out>>, free' \in Frame \cup {Null},
         Listed(free)' \subseteq Listed(free), f \notin Listed(free)',
         \A g \in Listed(free)' : next[g] # Null => next[g] \in Listed(free)',
         free' # Null => HasTail(Listed(free)'),
         allocated' = Listed(frames) \cup {f} \cup Listed(free)'
  PROVE  EncInv'
<1> DEFINE s == content'[f]
           F == Listed(frames)
           R == Listed(free)'
<1>1. /\ at = "write" /\ left > 0
      /\ \A g \in F : next[g] = Null => Len(content[g]) = FrameSamples
      /\ at' = at /\ len' = len /\ given' = given /\ firstNtp' = firstNtp /\ out' = out
  BY DEF NeedsFrame, IsTail
<1>2. <<>> \in Seq(Nat) /\ Len(<<>>) < FrameSamples
  BY EncAssumption
<1>3. /\ s \in Seq(Nat) /\ Len(s) \in 1 .. FrameSamples /\ Consecutive(s)
      /\ s[1] = Position /\ s[1] + Len(s) = Position'
      /\ content' \in [Frame -> Seq(Nat)]
      /\ \A g \in Frame : g # f => content'[g] = content[g]
      /\ left' \in 0 .. len' /\ Position <= Position' /\ Position' \in Nat
  BY <1>1, <1>2, WriteFacts DEF EncInv
<1>4. /\ ntp' \in [Frame -> Int] /\ Near(ntp'[f], Position)
      /\ \A g \in Frame : g # f => ntp'[g] = ntp[g]
  <2>1. ntp' = [ntp EXCEPT ![f] = NtpOf(len - left)]
    BY DEF Write
  <2> QED BY <1>1, <2>1, NtpIsNear DEF EncInv, TypeInv
<1>5. /\ next' \in Pointers /\ frames' \in Frame /\ next'[f] = Null
      /\ Listed(frames)' = F \cup {f}
      /\ \A g \in F : next'[g] = IF next[g] = Null THEN f ELSE next[g]
      /\ \A g \in Frame \ (F \cup {f}) : next'[g] = next[g]
  BY LinkFacts DEF EncInv
<1>6. /\ F \subseteq Frame /\ R \subseteq Frame /\ f \notin F /\ f \notin R /\ f # Null
      /\ F \cap R = {} /\ F \cup R \subseteq allocated /\ Position \in Nat
      /\ FrameSamples \in Nat \ {0} /\ Closed(F, next)
  BY Lists DEF EncInv, ListInv
<1>7. /\ \A g \in R : next'[g] = next[g]
      /\ \A g \in F : next'[g] # Null
  BY <1>5, <1>6
<1>8. /\ \A g \in F \cup R : /\ Len(content[g]) \in 1 .. FrameSamples
                             /\ Start(g) \in Nat /\ End(g) \in Nat
                             /\ Start(g) < End(g) /\ End(g) <= Position
                             /\ Consecutive(content[g])
                             /\ content'[g] = content[g]
      /\ \A g \in F \cup R : content'[g][1] = Start(g)
  <2> SUFFICES ASSUME NEW g \in F \cup R
               PROVE  /\ Len(content[g]) \in 1 .. FrameSamples
                      /\ Start(g) \in Nat /\ End(g) \in Nat
                      /\ Start(g) < End(g) /\ End(g) <= Position
                      /\ Consecutive(content[g])
                      /\ content'[g] = content[g] /\ content'[g][1] = Start(g)
    OBVIOUS
  <2>1. g \in Frame /\ g # f /\ g \in allocated
    BY <1>6
  <2>2. Len(content[g]) \in 1 .. FrameSamples /\ End(g) <= Position
        /\ Consecutive(content[g])
    BY <2>1 DEF EncInv, ContentInv
  <2>3. Start(g) \in Nat /\ End(g) \in Nat /\ Len(content[g]) \in Nat
    BY <2>1, <2>2, StartType DEF EncInv
  <2> QED BY <1>3, <2>1, <2>2, <2>3 DEF End, Start
<1> HIDE DEF s
<1>9. /\ Start(f)' = Position /\ End(f)' = Position'
      /\ \A g \in F \cup R : Start(g)' = Start(g) /\ End(g)' = End(g)
  BY <1>3, <1>8 DEF Start, End, s
<1>10. TypeInv'
  <2>1. allocated' \subseteq Frame
    BY <1>6
  <2> QED BY <1>1, <1>3, <1>4, <1>5, <2>1 DEF EncInv, TypeInv
<1>11. ListInv'
  BY <1>5, <1>6, <1>7 DEF ListInv, HasTail
<1>12. ContentInv'
  <2>1. ASSUME NEW g \in allocated'
        PROVE  /\ Len(content'[g]) \in 1 .. FrameSamples /\ Consecutive(content'[g])
               /\ End(g)' <= Position'
    <3>1. CASE g = f
      BY <1>3, <1>9, <3>1 DEF s
    <3>2. CASE g \in F \cup R
      <4>1. End(g)' = End(g) /\ End(g) <= Position /\ End(g) \in Nat
        BY <1>8, <1>9, <3>2
      <4>2. End(g)' <= Position'
        BY <1>3, <1>6, <4>1
      <4> QED BY <1>8, <3>2, <4>2
    <3> QED BY <3>1, <3>2
  <2>2. ASSUME NEW g \in Listed(frames)', next'[g] = Null PROVE g = f
    BY <1>5, <1>7, <2>2
  <2> QED BY <1>1, <1>9, <2>1, <2>2 DEF ContentInv
<1>13. OrderInv'
  <2>1. ASSUME NEW g \in F
        PROVE  /\ Len(content'[g]) = FrameSamples /\ End(g)' <= Start(next[g])'
    <3>1. CASE next[g] = Null
      <4>1. next'[g] = f
        BY <1>5, <3>1
      <4>2. Start(next[g])' = Position
        BY <1>3, <4>1 DEF Start, s
      <4> QED BY <1>1, <1>8, <1>9, <3>1, <4>2
    <3>2. CASE next[g] # Null
      <4>1. next'[g] = next[g] /\ next[g] \in F
        BY <1>5, <1>6, <3>2 DEF Closed
      <4>2. Start(next[g])' = Start(next[g])
        BY <1>8, <4>1 DEF Start
      <4> QED BY <1>8, <1>9, <3>2, <4>2 DEF EncInv, OrderInv
    <3> QED BY <3>1, <3>2
  <2>2. ASSUME NEW g \in R, next'[g] # Null
        PROVE  Start(next[g])' < Start(g)'
    <3>1. next'[g] = next[g] /\ next[g] \in R /\ g \in Listed(free)
      BY <1>7, <2>2
    <3>2. Start(next[g])' = Start(next[g])
      BY <1>8, <3>1 DEF Start
    <3> QED BY <1>9, <2>2, <3>1, <3>2 DEF EncInv, OrderInv
  <2>3. ASSUME NEW g \in F \cup {f}, NEW h \in R
        PROVE  Start(h)' < Start(g)'
    <3>1. CASE g = f
      BY <1>6, <1>8, <1>9, <3>1
    <3>2. CASE g \in F
      BY <1>9, <3>2 DEF EncInv, OrderInv
    <3> QED BY <3>1, <3>2
  <2>4. \A g \in Listed(frames)' : next'[g] # Null => g \in F
    BY <1>5
  <2> QED BY <1>5, <2>1, <2>2, <2>3, <2>4 DEF OrderInv
<1>14. OutInv'
  <2>1. ASSUME NEW i \in 1 .. Len(out)
        PROVE  /\ out[i].samples[1] + FrameSamples <= Position'
               /\ \A g \in Listed(frames)' : out[i].samples[1] + FrameSamples <= Start(g)'
    <3>1. out[i].samples[1] + FrameSamples <= Position
          /\ Len(out[i].samples) = FrameSamples
          /\ \A g \in F : out[i].samples[1] + FrameSamples <= Start(g)
      BY DEF EncInv, OutInv
    <3>2. out[i].samples[1] \in Nat /\ FrameSamples \in Nat
      <4>1. FrameSamples \in Nat \ {0} /\ out \in Seq(OutFrame)
        BY EncAssumption DEF EncInv, TypeInv
      <4>2. out[i] \in OutFrame
        BY <4>1
      <4> QED BY <3>1, <4>1, <4>2, FirstSample
    <3>3. out[i].samples[1] + FrameSamples \in Int
      BY <3>2
    <3>4. Position <= Position' /\ Position \in Int /\ Position' \in Int
      BY <1>3, <1>6
    <3>5. out[i].samples[1] + FrameSamples <= Position'
      BY <3>1, <3>3, <3>4, Transitive
    <3> QED BY <1>5, <1>9, <3>1, <3>5
  <2> QED BY <1>1, <2>1 DEF EncInv, OutInv
<1>15. TimeInv'
  <2>1. ASSUME NEW g \in F \cup {f} PROVE Near(ntp'[g], Start(g)')
    BY <1>4, <1>6, <1>9 DEF EncInv, TimeInv
  <2> QED BY <1>1, <1>5, <2>1 DEF EncInv, TimeInv
<1> QED BY <1>10, <1>11, <1>12, <1>13, <1>14, <1>15 DEF EncInv

LEMMA WriteToFreeStep ==
  ASSUME EncInv, WriteToFree
  PROVE  EncInv'
<1> DEFINE G == Listed(next[free])
<1>1. /\ NeedsFrame /\ free # Null /\ free' = next[free]
      /\ Link(free, next) /\ Write(free, <<>>)
      /\ UNCHANGED <<at, len, given, firstNtp, out>> /\ allocated' = allocated
  BY DEF WriteToFree, callVars
<1>2. /\ free \in Frame /\ free \in Listed(free) /\ Listed(free) \subseteq Frame
      /\ free \notin Listed(frames) /\ next \in Pointers
      /\ next[free] \in Frame \cup {Null}
      /\ Listed(frames) \cap Listed(free) = {}
      /\ Listed(frames) \cup Listed(free) = allocated
  BY <1>1, Lists DEF EncInv, ListInv, TypeInv, Pointers
<1>3. free \notin G /\ Listed(free) = {free} \cup G
  BY <1>1, FreeIsLatest
<1>4. next' \in Pointers
      /\ \A g \in Frame \ (Listed(frames) \cup {free}) : next'[g] = next[g]
  BY <1>1, <1>2, LinkFacts DEF EncInv
<1>5. Listed(free)' = G
  <2>1. \A g \in G : next'[g] = next[g]
    BY <1>2, <1>3, <1>4
  <2>2. Reached(next', next[free]) = Reached(next, next[free])
    BY <1>2, <1>4, <2>1, ReachedSame DEF Listed
  <2> QED BY <1>1, <2>2 DEF Listed
<1>6. Closed(G, next)
  BY <1>2, ReachedClosed DEF Listed
<1>7. free' # Null => HasTail(G)
  <2> SUFFICES ASSUME next[free] # Null PROVE HasTail(G)
    BY <1>1
  <2>1. PICK t \in Listed(free) : next[t] = Null
    BY <1>1 DEF EncInv, ListInv, HasTail
  <2>2. t \in G
    BY <1>3, <2>1
  <2> QED BY <2>1, <2>2 DEF HasTail
<1>8. allocated' = Listed(frames) \cup {free} \cup G
  BY <1>1, <1>2, <1>3
<1>9. /\ Listed(free)' \subseteq Listed(free) /\ free \notin Listed(free)'
      /\ \A g \in Listed(free)' : next[g] # Null => next[g] \in Listed(free)'
      /\ free' # Null => HasTail(Listed(free)')
      /\ allocated' = Listed(frames) \cup {free} \cup Listed(free)'
  BY <1>3, <1>5, <1>6, <1>7, <1>8 DEF Closed
<1> QED BY <1>1, <1>2, <1>9, NewTailStep

LEMMA WriteToNewStep ==
  ASSUME EncInv, NEW f \in Frame, WriteToNew(f)
  PROVE  EncInv'
<1>1. /\ NeedsFrame /\ free = Null /\ free' = free /\ f \notin allocated
      /\ Link(f, next) /\ Write(f, <<>>)
      /\ UNCHANGED <<at, len, given, firstNtp, out>> /\ allocated' = allocated \cup {f}
  BY DEF WriteToNew, callVars
<1>2. Listed(free) = {} /\ Listed(free)' = {}
  BY <1>1, ReachedNull DEF Listed
<1>3. f \in Frame \ Listed(frames) /\ allocated' = Listed(frames) \cup {f} \cup Listed(free)'
  BY <1>1, <1>2 DEF EncInv, ListInv
<1> QED BY <1>1, <1>2, <1>3, NewTailStep

(* The first frame moves from one list to the other. *)
LEMMA ShiftFacts ==
  ASSUME EncInv, frames # Null, ShiftOut
  PROVE  /\ next' \in Pointers /\ next'[frames] = free
         /\ \A g \in Frame : g # frames => next'[g] = next[g]
         /\ frames' \in Frame \cup {Null} /\ free' = frames /\ frames \in Listed(frames)
         /\ Listed(frames)' = Listed(next[frames])
         /\ Listed(free)' = {frames} \cup Listed(free)
         /\ Listed(frames) = {frames} \cup Listed(frames)'
         /\ frames \notin Listed(frames)' /\ frames \notin Listed(free)
<1>1. /\ frames' = next[frames] /\ next' = [next EXCEPT ![frames] = free] /\ free' = frames
  BY DEF ShiftOut
<1>2. /\ frames \in Frame /\ frames \in Listed(frames) /\ next \in Pointers
      /\ free \in Frame \cup {Null} /\ next[frames] \in Frame \cup {Null}
      /\ Listed(frames) \cap Listed(free) = {}
  BY Lists DEF EncInv, ListInv, TypeInv, Pointers
<1>3. /\ next' \in Pointers /\ next'[frames] = free
      /\ \A g \in Frame : g # frames => next'[g] = next[g]
  BY <1>1, <1>2 DEF Pointers
<1>4. /\ frames \notin Listed(next[frames])
      /\ Listed(frames) = {frames} \cup Listed(next[frames])
  BY FirstIsEarliest
<1>5. Reached(next', next[frames]) = Reached(next, next[frames])
  <2>1. Reached(next, next[frames]) \subseteq Frame
    BY <1>2, ReachedClosed
  <2>2. \A g \in Reached(next, next[frames]) : next'[g] = next[g]
    BY <1>3, <1>4, <2>1 DEF Listed
  <2> QED BY <1>2, <1>3, <2>2, ReachedSame
<1>6. Reached(next', free) = Reached(next, free)
  <2>1. Reached(next, free) \subseteq Frame
    BY <1>2, ReachedClosed
  <2>2. \A g \in Reached(next, free) : next'[g] = next[g]
    BY <1>2, <1>3, <2>1 DEF Listed
  <2> QED BY <1>2, <1>3, <2>2, ReachedSame
<1>7. Listed(frames)' = Listed(next[frames])
  BY <1>1, <1>5 DEF Listed
<1>8. Listed(free)' = {frames} \cup Listed(free)
  <2>1. Reached(next', frames) = {frames} \cup Reached(next', free)
    BY <1>2, <1>3, ReachedUnfold
  <2> QED BY <1>1, <1>6, <2>1 DEF Listed
<1> QED BY <1>1, <1>2, <1>3, <1>4, <1>7, <1>8

LEMMA EncodeFrameStep ==
  ASSUME EncInv, NEW ok \in BOOLEAN, EncodeFrame(ok)
  PROVE  EncInv'
<1> DEFINE F == Listed(frames)'
           R == Listed(free)
           s == content[frames]
<1>1. /\ at = "encode" /\ frames # Null /\ Len(content[frames]) = FrameSamples /\ ShiftOut
      /\ out' = IF ok THEN Append(out, [samples |-> content[frames], ntp |-> ntp[frames]])
                ELSE out
      /\ UNCHANGED <<at, allocated, content, ntp, len, firstNtp, given, left>>
  BY DEF EncodeFrame, FrontIsFull, dataVars, callVars
<1>2. /\ next' \in Pointers /\ next'[frames] = free
      /\ \A g \in Frame : g # frames => next'[g] = next[g]
      /\ frames' \in Frame \cup {Null} /\ free' = frames /\ frames \in Listed(frames)
      /\ Listed(frames)' = Listed(next[frames])
      /\ Listed(free)' = {frames} \cup Listed(free)
      /\ Listed(frames) = {frames} \cup Listed(frames)'
      /\ frames \notin Listed(frames)' /\ frames \notin Listed(free)
  BY <1>1, ShiftFacts
<1>3. /\ F \subseteq Frame /\ R \subseteq Frame /\ frames \in Frame
      /\ \A g \in F \cup R : next'[g] = next[g]
      /\ Position' = Position /\ Position \in Nat /\ FrameSamples \in Nat \ {0}
      /\ Closed(R, next) /\ {free} \ {Null} \subseteq R
      /\ frames' = next[frames]
  <2>1. Position' = Position
    BY <1>1 DEF Position
  <2> QED BY <1>1, <1>2, <2>1, Lists DEF EncInv, ShiftOut
<1>4. /\ \A g \in Listed(frames) : next[g] # Null =>
            Len(content[g]) = FrameSamples /\ End(g) <= Start(next[g])
      /\ \A g \in R : next[g] # Null => Start(next[g]) < Start(g)
      /\ \A g \in Listed(frames), h \in R : Start(h) < Start(g)
      /\ \A g \in F : End(frames) <= Start(g)
  <2>1. \A g \in F : End(frames) <= Start(g)
    BY <1>1, <1>2, FirstIsEarliest
  <2> QED BY <2>1 DEF EncInv, OrderInv
<1>5. \A g \in F \cup R \cup {frames} :
         Start(g) \in Nat /\ End(g) \in Nat /\ Start(g) < End(g) /\ End(g) <= Position
  <2> SUFFICES ASSUME NEW g \in Frame, g \in allocated
               PROVE  Start(g) \in Nat /\ End(g) \in Nat /\ Start(g) < End(g)
                      /\ End(g) <= Position
    BY <1>2, <1>3 DEF EncInv, ListInv
  <2>1. Len(content[g]) \in 1 .. FrameSamples /\ End(g) <= Position
    BY DEF EncInv, ContentInv
  <2>2. Start(g) \in Nat /\ Len(content[g]) \in Nat /\ End(g) \in Nat
    BY <2>1, StartType DEF EncInv
  <2> QED BY <2>1, <2>2 DEF End
<1>6. \A g : Start(g)' = Start(g) /\ End(g)' = End(g)
  BY <1>1 DEF Start, End
<1>7. [samples |-> s, ntp |-> ntp[frames]] \in OutFrame /\ out \in Seq(OutFrame)
      /\ s \in Seq(Nat) /\ ntp[frames] \in Int
  BY <1>3 DEF EncInv, TypeInv, OutFrame
<1>8. out' \in Seq(OutFrame)
  BY <1>1, <1>7
<1>9. TypeInv'
  BY <1>1, <1>2, <1>3, <1>8 DEF EncInv, TypeInv
<1>10. ListInv'
  <2>1. Listed(frames)' \cup Listed(free)' = allocated' /\ Listed(frames)' \cap Listed(free)' = {}
    BY <1>1, <1>2 DEF EncInv, ListInv
  <2>2. frames' # Null => HasTail(Listed(frames))'
    <3> SUFFICES ASSUME next[frames] # Null PROVE \E t \in F : next'[t] = Null
      BY <1>3 DEF HasTail
    <3>1. PICK t \in Listed(frames) : next[t] = Null
      BY <1>1 DEF EncInv, ListInv, HasTail
    <3>2. t \in F
      BY <1>2, <3>1
    <3> QED BY <1>3, <3>1, <3>2
  <2>3. HasTail(Listed(free))'
    <3>1. CASE free = Null
      BY <1>2, <3>1 DEF HasTail
    <3>2. CASE free # Null
      <4>1. PICK t \in R : next[t] = Null
        BY <3>2 DEF EncInv, ListInv, HasTail
      <4> QED BY <1>2, <1>3, <4>1 DEF HasTail
    <3> QED BY <3>1, <3>2
  <2> QED BY <2>1, <2>2, <2>3 DEF ListInv
<1>11. ContentInv'
  <2>1. \A g \in F : next'[g] = next[g] /\ g \in Listed(frames)
    BY <1>2, <1>3
  <2> QED BY <1>1, <1>3, <1>6, <2>1 DEF EncInv, ContentInv
<1>12. OrderInv'
  <2>1. ASSUME NEW g \in F, next'[g] # Null
        PROVE  Len(content'[g]) = FrameSamples /\ End(g)' <= Start(next[g])'
    <3>1. next'[g] = next[g] /\ g \in Listed(frames)
      BY <1>2, <1>3
    <3>2. Start(next[g])' = Start(next[g])
      BY <1>1, <3>1 DEF Start
    <3> QED BY <1>1, <1>4, <1>6, <2>1, <3>1, <3>2
  <2>2. ASSUME NEW g \in Listed(free)', next'[g] # Null
        PROVE  Start(next[g])' < Start(g)'
    <3>1. CASE g = frames
      <4>1. free \in R /\ Start(next[g])' = Start(free)
        BY <1>1, <1>2, <1>3, <2>2, <3>1 DEF Start
      <4> QED BY <1>2, <1>4, <1>6, <3>1, <4>1
    <3>2. CASE g \in R
      <4>1. Start(next[g])' = Start(next[g]) /\ next[g] # Null
        BY <1>1, <1>3, <2>2, <3>2 DEF Start
      <4> QED BY <1>4, <1>6, <3>2, <4>1
    <3> QED BY <1>2, <3>1, <3>2
  <2>3. ASSUME NEW g \in F, NEW h \in Listed(free)' PROVE Start(h)' < Start(g)'
    <3>1. CASE h = frames
      <4>1. /\ End(frames) <= Start(g) /\ Start(frames) < End(frames)
            /\ Start(frames) \in Nat /\ End(frames) \in Nat /\ Start(g) \in Nat
        BY <1>4, <1>5
      <4>2. Start(frames) < Start(g)
        BY <4>1
      <4> QED BY <1>6, <3>1, <4>2
    <3>2. CASE h \in R
      BY <1>2, <1>4, <1>6, <3>2
    <3> QED BY <1>2, <3>1, <3>2
  <2> QED BY <2>1, <2>2, <2>3 DEF OrderInv
<1>13. OutInv' /\ \A i \in 1 .. Len(out') : Near(out'[i].ntp, out'[i].samples[1])
  <2> DEFINE e == [samples |-> s, ntp |-> ntp[frames]]
             Good(i, o) ==
               /\ Len(o[i].samples) = FrameSamples /\ Consecutive(o[i].samples)
               /\ i > 1 => o[i].samples[1] >= o[i - 1].samples[1] + FrameSamples
               /\ o[i].samples[1] + FrameSamples <= Position
               /\ \A g \in F : o[i].samples[1] + FrameSamples <= Start(g)
               /\ Near(o[i].ntp, o[i].samples[1])
  <2>1. ASSUME NEW i \in 1 .. Len(out) PROVE Good(i, out)
    BY <1>2 DEF EncInv, OutInv, TimeInv
  <2>2. \A i \in 1 .. Len(out') : Good(i, out')
    <3>1. CASE ~ok
      BY <1>1, <2>1, <3>1
    <3>2. CASE ok
      <4> DEFINE n == Len(out) + 1
      <4>1. /\ Len(out') = n /\ out'[n] = e /\ Len(out) \in Nat
            /\ \A i \in 1 .. Len(out) : out'[i] = out[i]
        BY <1>1, <1>7, <3>2
      <4>2. ASSUME NEW i \in 1 .. Len(out) PROVE Good(i, out')
        <5>1. out'[i] = out[i] /\ (i > 1 => out'[i - 1] = out[i - 1])
          BY <4>1
        <5> QED BY <2>1, <5>1
      <4>3. Good(n, out')
        <5>1. Len(s) = FrameSamples /\ s[1] = Start(frames)
          BY <1>1 DEF Start
        <5>2. Consecutive(s) /\ frames \in allocated
          BY <1>2 DEF EncInv, ListInv, ContentInv
        <5>3. s[1] + FrameSamples = End(frames)
          BY <5>1 DEF End
        <5>4. n > 1 => s[1] >= out'[n - 1].samples[1] + FrameSamples
          <6> SUFFICES ASSUME n > 1 PROVE s[1] >= out'[n - 1].samples[1] + FrameSamples
            OBVIOUS
          <6>1. n - 1 \in 1 .. Len(out) /\ out'[n - 1] = out[n - 1]
            BY <4>1
          <6>2. out[n - 1].samples[1] + FrameSamples <= Start(frames)
                /\ Len(out[n - 1].samples) = FrameSamples
            BY <1>2, <6>1 DEF EncInv, OutInv
          <6>3. out[n - 1] \in OutFrame
            BY <1>7, <6>1
          <6>4. out[n - 1].samples[1] \in Nat
            BY <1>3, <6>2, <6>3, FirstSample
          <6>5. Start(frames) \in Nat
            BY <1>5
          <6> QED BY <1>3, <5>1, <6>1, <6>2, <6>4, <6>5
        <5>5. Near(ntp[frames], s[1])
          BY <1>2, <5>1 DEF EncInv, TimeInv
        <5>6. End(frames) <= Position
          BY <1>5
        <5>7. e.samples = s /\ e.ntp = ntp[frames]
          OBVIOUS
        <5> HIDE DEF s, e, n
        <5> QED BY <1>4, <4>1, <5>1, <5>2, <5>3, <5>4, <5>5, <5>6, <5>7
      <4> HIDE DEF Good
      <4> QED BY <4>1, <4>2, <4>3
    <3> QED BY <3>1, <3>2
  <2> QED BY <1>3, <1>6, <2>2 DEF OutInv
<1>14. TimeInv'
  BY <1>1, <1>2, <1>6, <1>13 DEF EncInv, TimeInv
<1> QED BY <1>9, <1>10, <1>11, <1>12, <1>13, <1>14 DEF EncInv

-----------------------------------------------------------------------------
LEMMA EncodeStep ==
  ASSUME EncInv, NEW n \in Blocks, Encode(n)
  PROVE  EncInv'
<1>1. /\ at = "idle" /\ at' = "write" /\ len' = n /\ left' = n /\ given' = given
      /\ firstNtp' = DurationMs(given + n) - DurationMs(n)
      /\ UNCHANGED <<listVars, dataVars, out>>
  BY DEF Encode
<1>2. n \in Nat /\ given \in Nat /\ PerMs \in Nat \ {0} /\ given + n \in Nat
  BY EncAssumption DEF EncInv, TypeInv
<1> DEFINE a == (given + n) \div PerMs
           b == n \div PerMs
<1>3. /\ a \in Nat /\ PerMs * a <= given + n /\ given + n < PerMs * a + PerMs
      /\ b \in Nat /\ PerMs * b <= n /\ n < PerMs * b + PerMs
  BY <1>2, DivMod
<1>4. firstNtp' = a - b
  BY <1>1 DEF DurationMs
<1> HIDE DEF a, b
<1>5. firstNtp' * PerMs = PerMs * a - PerMs * b
  BY <1>2, <1>3, <1>4, Distribute
<1> DEFINE x == PerMs * a
           y == PerMs * b
<1>6. x \in Int /\ y \in Int
  BY <1>2, <1>3
<1>7. /\ firstNtp' * PerMs = x - y /\ x <= given + n /\ given + n < x + PerMs
      /\ y <= n /\ n < y + PerMs
  BY <1>3, <1>5
<1> HIDE DEF x, y
<1>8. firstNtp' * PerMs > given' - PerMs /\ firstNtp' * PerMs < given' + PerMs
  BY <1>1, <1>2, <1>6, <1>7
<1>9. Position = given + 1 /\ Position' = given + 1
  BY <1>1, <1>2 DEF Position
<1>10. TypeInv'
  BY <1>1, <1>2, <1>3, <1>4 DEF EncInv, TypeInv, listVars, dataVars
<1> QED BY <1>1, <1>2, <1>8, <1>9, <1>10, ControlStep

LEMMA AllocFailsStep ==
  ASSUME EncInv, AllocFails
  PROVE  EncInv'
<1>1. /\ at = "write" /\ at' = "encode"
      /\ \A f \in Listed(frames) : next[f] = Null => Len(content[f]) = FrameSamples
      /\ UNCHANGED <<listVars, dataVars, len, left, firstNtp, given, out>>
  BY DEF AllocFails, NeedsFrame, IsTail, callVars
<1>2. Position' = Position /\ Position \in Nat /\ FrameSamples \in Nat
  BY <1>1, Lists DEF Position, EncInv
<1>3. TypeInv'
  BY <1>1 DEF EncInv, TypeInv, listVars, dataVars
<1> QED BY <1>1, <1>2, <1>3, ControlStep

LEMMA WrittenStep ==
  ASSUME EncInv, Written
  PROVE  EncInv'
<1>1. /\ at = "write" /\ at' = "encode" /\ left = 0
      /\ UNCHANGED <<listVars, dataVars, len, left, firstNtp, given, out>>
  BY DEF Written, callVars
<1>2. Position' = Position /\ Position \in Nat
  BY <1>1, Lists DEF Position, EncInv
<1>3. TypeInv'
  BY <1>1 DEF EncInv, TypeInv, listVars, dataVars
<1> QED BY <1>1, <1>2, <1>3, ControlStep

LEMMA ReturnStep ==
  ASSUME EncInv, Return
  PROVE  EncInv'
<1>1. /\ at = "encode" /\ at' = "idle" /\ given' = given + len
      /\ UNCHANGED <<listVars, dataVars, len, left, firstNtp, out>>
  BY DEF Return
<1>2. /\ given \in Nat /\ len \in Nat /\ left \in 0 .. len
  BY DEF EncInv, TypeInv
<1>3. /\ Position = given + len - left + 1 /\ Position' = given + len + 1
      /\ Position <= Position' /\ Position' \in Nat
  BY <1>1, <1>2 DEF Position
<1>4. ASSUME NEW f \in Listed(frames), next[f] = Null, Len(content[f]) < FrameSamples
      PROVE  Position' = Position
  <2>1. left = 0
    BY <1>1, <1>4 DEF EncInv, ContentInv
  <2> QED BY <1>2, <1>3, <2>1
<1>5. TypeInv'
  BY <1>1, <1>2 DEF EncInv, TypeInv, listVars, dataVars
<1> QED BY <1>1, <1>3, <1>4, <1>5, ControlStep

LEMMA DestroyStep ==
  ASSUME EncInv, Destroy
  PROVE  EncInv'
<1>1. /\ at = "idle" /\ at' \in {"destroyed", "undefined"}
      /\ UNCHANGED <<listVars, dataVars, len, left, firstNtp, given, out>>
  BY DEF Destroy, callVars
<1>2. Position' = Position /\ Position \in Nat
  BY <1>1, Lists DEF Position, EncInv
<1>3. TypeInv'
  BY <1>1 DEF EncInv, TypeInv, listVars, dataVars
<1> QED BY <1>1, <1>2, <1>3, ControlStep

LEMMA EncStutter ==
  ASSUME EncInv, UNCHANGED encVars
  PROVE  EncInv'
<1>1. UNCHANGED <<at, listVars, dataVars, len, left, firstNtp, given, out>>
  BY DEF encVars, callVars
<1>2. Position' = Position /\ Position \in Nat
  BY <1>1, Lists DEF Position, EncInv
<1>3. TypeInv'
  BY <1>1 DEF EncInv, TypeInv, listVars, dataVars
<1>4. /\ at' = "write" => firstNtp' * PerMs > given' - PerMs /\ firstNtp' * PerMs < given' + PerMs
      /\ \A f \in Listed(frames) : next[f] = Null /\ Len(content[f]) < FrameSamples =>
           (at' = "encode" => left' = 0)
  BY <1>1 DEF EncInv, TimeInv, ContentInv
<1> QED BY <1>1, <1>2, <1>3, <1>4, ControlStep

LEMMA EncInitInv == EncInit => EncInv
<1> SUFFICES ASSUME EncInit PROVE EncInv
  OBVIOUS
<1>1. /\ at = "idle" /\ frames = Null /\ free = Null /\ allocated = {} /\ out = <<>>
      /\ Len(out) = 0
  BY DEF EncInit
<1>2. Listed(frames) = {} /\ Listed(free) = {}
  BY <1>1, ReachedNull DEF Listed
<1>3. TypeInv
  BY DEF EncInit, TypeInv, Pointers
<1>4. ListInv /\ ContentInv /\ OrderInv
  BY <1>1, <1>2 DEF ListInv, ContentInv, OrderInv
<1>5. OutInv /\ TimeInv
  BY <1>1, <1>2 DEF OutInv, TimeInv
<1> QED BY <1>3, <1>4, <1>5 DEF EncInv

LEMMA EncStep == EncInv /\ [EncNext]_encVars => EncInv'
<1> SUFFICES ASSUME EncInv, [EncNext]_encVars PROVE EncInv'
  OBVIOUS
<1>1. CASE \E n \in Blocks : Encode(n)
  BY <1>1, EncodeStep
<1>2. CASE \E f \in Frame : WriteToLast(f)
  BY <1>2, WriteToLastStep
<1>3. CASE \E f \in Frame : WriteToNew(f)
  BY <1>3, WriteToNewStep
<1>4. CASE WriteToFree
  BY <1>4, WriteToFreeStep
<1>5. CASE AllocFails
  BY <1>5, AllocFailsStep
<1>6. CASE Written
  BY <1>6, WrittenStep
<1>7. CASE \E ok \in BOOLEAN : EncodeFrame(ok)
  BY <1>7, EncodeFrameStep
<1>8. CASE Return
  BY <1>8, ReturnStep
<1>9. CASE Destroy
  BY <1>9, DestroyStep
<1>10. CASE UNCHANGED encVars
  BY <1>10, EncStutter
<1> QED BY <1>1, <1>2, <1>3, <1>4, <1>5, <1>6, <1>7, <1>8, <1>9, <1>10 DEF EncNext

LEMMA EncInvariant == EncSpec => []EncInv
BY EncInitInv, EncStep, PTL DEF EncSpec

-----------------------------------------------------------------------------
(* However blocks, failed allocations and encoded frames follow each       *)
(* other, get_writable_frame and release_audio_frame keep two lists that   *)
(* end, share no frame and hold all that were allocated.                   *)
THEOREM ListsAreWhole == EncSpec => []EachFrameListed
<1>1. EncInv => EachFrameListed
  <2> SUFFICES ASSUME EncInv PROVE EachFrameListed
    OBVIOUS
  <2> QED BY DEF EncInv, ListInv, HasTail, EachFrameListed
<1> QED BY <1>1, EncInvariant, PTL

(* opus_enc_encode gives cb_out full frames of consecutive samples, each   *)
(* later than those before it.                                             *)
THEOREM EncodedInOrder == EncSpec => []FramesInOrder
<1>1. EncInv => FramesInOrder
  <2> SUFFICES ASSUME EncInv, NEW i \in 1 .. Len(out)
               PROVE  out[i].samples = [j \in 1 .. FrameSamples |-> out[i].samples[1] + j - 1]
    BY DEF FramesInOrder, EncInv, OutInv
  <2> DEFINE s == out[i].samples
  <2>1. Len(s) = FrameSamples /\ \A j \in 1 .. Len(s) : s[j] = s[1] + j - 1
    BY DEF EncInv, OutInv, Consecutive
  <2>2. s \in Seq(Nat)
    <3>1. out \in Seq(OutFrame)
      BY DEF EncInv, TypeInv
    <3>2. out[i] \in OutFrame
      BY <3>1
    <3> QED BY <3>2 DEF OutFrame
  <2> HIDE DEF s
  <2>3. s = [j \in 1 .. Len(s) |-> s[j]]
    BY <2>2
  <2>4. s = [j \in 1 .. FrameSamples |-> s[1] + j - 1]
    BY <2>1, <2>3
  <2> QED BY <2>4 DEF s
<1> QED BY <1>1, EncInvariant, PTL

(* A frame is encoded with the time of its first sample, to two            *)
(* milliseconds (first_sample_ntp and the durations that are added to it). *)
THEOREM TimesAreNear == EncSpec => []NtpOfFirstSample
<1>1. EncInv => NtpOfFirstSample
  BY DEF EncInv, TimeInv, Near, NtpOfFirstSample
<1> QED BY <1>1, EncInvariant, PTL
=============================================================================
