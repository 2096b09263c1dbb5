----------------------- MODULE PlayerLifecycleProofs ------------------------
(* Whatever the streams deliver and however the threads of the players     *)
(* run, plays that fail and the destructor of RtpPlayer count references   *)
(* right, destroy nothing that is in use, and leave nothing behind.        *)
EXTENDS PlayerLifecycle, FiniteSetTheorems, TLAPS

-----------------------------------------------------------------------------
(* The inductive invariant, one part for each group of variables. *)
BuildPc == {"renderer", "decoder", "stream", "built"}
TearPc == {"clear", "releaseStream", "stopClient", "joinClient", "joinTask",
           "releaseDecoder", "stopRenderer", "joinRenderer", "releaseSync",
           "deletePlayer"}
Busy(k) == ui.kind = k /\ ui.pc \in BuildPc \cup TearPc
Removing == ui.pc \in {"remove", "takeSync", "gone"} \/ (ui.pc \in TearPc /\ lock # "ui")

LockInv ==
  /\ ui.pc \in BuildPc => lock = "ui"
  /\ lock = "ui" => ui.pc \in BuildPc \cup TearPc /\ player[ui.kind]
  /\ lock = "poll" <=> poll # "out"
  /\ \A k \in Kind :
       /\ playerLock[k] = "ui" <=> ui.pc \in BuildPc /\ ui.kind = k
       /\ playerLock[k] = "poll" <=> poll = k
       /\ poll = k => player[k]
  /\ ui.pc \in TearPc /\ lock # "ui" => ~player[ui.kind]
  /\ Removing /\ ui.kind = "audio" => ~player["video"]
  /\ ui.pc \in {"takeSync", "gone"} => ui.kind = "audio" /\ ~player["audio"]

MemberInv ==
  /\ ui.pc \notin {"releaseStream", "stopClient", "joinClient", "joinTask",
                  "releaseDecoder", "stopRenderer", "joinRenderer", "releaseSync"}
       => local = {}
  /\ ui.pc # "releaseStream" => "stream" \notin local
  /\ ui.pc \in {"stopRenderer", "joinRenderer", "releaseSync"} => "decoder" \notin local
  /\ ui.pc \in {"joinRenderer", "releaseSync"} => "renderer" \notin local
  /\ \A k \in Kind :
       /\ alive[k] <=> player[k] \/ Busy(k)
       /\ ~Busy(k) => members[k] = IF player[k] THEN Member ELSE {}
       /\ Busy(k) =>
            /\ ui.pc = "renderer" => members[k] = {}
            /\ ui.pc = "decoder" => members[k] = {"renderer"}
            /\ ui.pc = "stream" => members[k] = {"renderer", "decoder"}
            /\ ui.pc = "built" => members[k] = {"renderer", "decoder", "stream"}
            /\ ui.pc \in TearPc \ {"clear"} => members[k] = {}

StreamInv ==
  \A k \in Kind :
    /\ stream[k] = "open" <=> "stream" \in members[k] \/ (ui.kind = k /\ "stream" \in local)
    /\ stream[k] = "closing" <=> ui.kind = k /\ ui.pc \in {"stopClient", "joinClient", "joinTask"}
    /\ stream[k] = "none" => net[k] = "off" /\ task[k] = "off"
    /\ ui.kind = k /\ ui.pc = "joinTask" => net[k] = "off"

RendererInv ==
  \A k \in Kind :
    /\ renderer[k] => \/ "renderer" \in members[k]
                      \/ ui.kind = k /\ ("renderer" \in local \/ ui.pc = "joinRenderer")
    /\ "renderer" \in members[k] \/ (ui.kind = k /\ "renderer" \in local) => renderer[k]
    /\ out[k] # "off" => renderer[k]

ClockInv ==
  clock = "audio" => \/ player["audio"] /\ ~Busy("audio")
                     \/ Removing /\ ui.kind = "audio"

FreshInv ==
  \A k \in Kind :
    \/ ~player[k] /\ ~Removing
    \/ lock = "ui" /\ ui.kind = k /\ ui.pc # "built"
    => net[k] = "off" /\ task[k] = "off" /\ decoded[k] = 0

(* Frames are decoded, queued and shown in the order they were sent.       *)
Decoding(k) == task[k] \in {"fetch", "decode"}

Counted(k) ==
  /\ decoded[k] + queued[k] + Bit(Decoding(k)) <= sent[k]
  /\ sent[k] <= MediaBound[k]

Sorted(k) ==
  /\ \A i \in 1 .. Len(queue[k]) :
       /\ shown[k] < queue[k][i] /\ queue[k][i] <= decoded[k]
       /\ task[k] \in {"output", "push"} => queue[k][i] < decoded[k]
  /\ \A i, j \in 1 .. Len(queue[k]) : i < j => queue[k][i] < queue[k][j]
  /\ shown[k] <= decoded[k]
  /\ task[k] \in {"output", "push"} => shown[k] < decoded[k]
  /\ TaskHasFrame(k) => decoded[k] > 0
  /\ shown[k] # 0 <=> out[k] = "render"

QueueInv ==
  /\ \A k \in Kind : Counted(k) /\ Sorted(k)
  /\ At("gone") => \A k \in Kind : queue[k] = <<>>

(* Counts never become negative because they count owners.                 *)
CountTypes ==
  /\ refs \in [sync : Int, video : Int, audio : Int]
  /\ DOMAIN frameRefs = Kind
  /\ \A k \in Kind : frameRefs[k] \in [1 .. MediaBound[k] -> Int]

(* The threads of the streams leave the players as they are.               *)
LEMMA ThreadsFrame ==
  ASSUME NEW k \in Kind, Network(k) \/ Task(k) \/ Renderer(k)
  PROVE  UNCHANGED <<uiVars, playerVars, stream, poll, renderer, clock>>
  BY DEF Network, Packet, Parsed, NetworkEnds, Task, MediaFrame, Fetch, Decode,
     Output, Push, TaskReleasesSync, TaskReleasesFrame, TaskReleasesDecoder,
     TaskEnds, Renderer, Test, GetFrame, Render, uiVars, playerVars, streamVars, TaskGoto

LEMMA PollFrame ==
  ASSUME PollCalls \/ PollReturns \/ \E k \in Kind : PollAsks(k)
  PROVE  UNCHANGED <<uiVars, player, alive, members, streamVars, frameVars,
                     threadVars, renderer, refs, clock>>
  BY DEF PollCalls, PollReturns, PollAsks

-----------------------------------------------------------------------------
(* Types of what the user interface thread and the polling thread change.  *)
UiTypes ==
  /\ ui \in [pc : UiPc, kind : Kind] /\ poll \in {"out", "in"} \cup Kind
  /\ lock \in {"none", "ui", "poll"} /\ playerLock \in [Kind -> {"none", "ui", "poll"}]
  /\ player \in [Kind -> BOOLEAN] /\ alive \in [Kind -> BOOLEAN]
  /\ members \in [Kind -> SUBSET Member] /\ local \in SUBSET Member
  /\ stream \in [Kind -> {"none", "open", "closing"}] /\ renderer \in [Kind -> BOOLEAN]
  /\ clock \in {"avtimer", "audio"}

(* ... and of where the threads of the streams are, and of their frames.   *)
ThreadTypes ==
  /\ net \in [Kind -> NetPc] /\ task \in [Kind -> TaskPc] /\ out \in [Kind -> OutPc]
  /\ exit \in SUBSET ({"net", "task", "out"} \X Kind)
  /\ crashed \in {"no", "stream", "sync"}

FrameTypes ==
  /\ sent \in [Kind -> Nat] /\ queued \in [Kind -> Nat]
  /\ decoded \in [Kind -> Nat] /\ shown \in [Kind -> Nat]
  /\ queue \in [Kind -> Seq(Nat)]

LEMMA UiTypesStep == UiTypes /\ [Next]_vars => UiTypes'
<1> SUFFICES ASSUME UiTypes, [Next]_vars PROVE UiTypes'
  OBVIOUS
<1> USE DEF UiTypes, UiPc, Kind, Member, Set, Add, At, Goto, Fail, playerVars, uiVars,
        streamVars
<1>1. ASSUME NEW k \in Kind, Play(k) PROVE UiTypes'
  BY <1>1 DEF Play
<1>2. CASE Building
  <2>1. CASE BuildRenderer
    <3>1. ui' \in [pc : UiPc, kind : Kind] /\ playerLock' \in [Kind -> {"none", "ui", "poll"}]
      BY <2>1 DEF BuildRenderer
    <3>2. members' \in [Kind -> SUBSET Member]
      BY <2>1 DEF BuildRenderer
    <3>3. renderer' = renderer \/ renderer' = [renderer EXCEPT ![ui.kind] = TRUE]
      BY <2>1 DEF BuildRenderer
    <3>4. renderer' \in [Kind -> BOOLEAN]
      BY <3>3
    <3>5. UNCHANGED <<lock, player, alive, local, stream, poll, clock>>
      BY <2>1 DEF BuildRenderer
    <3> QED BY <3>1, <3>2, <3>4, <3>5
  <2>2. CASE BuildDecoder
    BY <2>2 DEF BuildDecoder
  <2>3. CASE BuildStream
    BY <2>3 DEF BuildStream
  <2>4. CASE Built
    BY <2>4 DEF Built
  <2> QED BY <1>2, <2>1, <2>2, <2>3, <2>4 DEF Building
<1>3. CASE Destroy
  BY <1>3 DEF Destroy, Removal
<1>4. CASE Tearing
  <2>1. CASE Clear
    BY <2>1 DEF Clear
  <2>2. CASE ReleaseStream
    BY <2>2 DEF ReleaseStream
  <2>3. CASE StopClient \/ JoinClient \/ ReleaseDecoder \/ StopRenderer
    BY <2>3 DEF StopClient, JoinClient, ReleaseDecoder, StopRenderer
  <2>4. CASE ReleaseSync \/ TakeSync
    BY <2>4 DEF ReleaseSync, TakeSync
  <2>5. CASE JoinTask
    BY <2>5 DEF JoinTask
  <2>6. CASE JoinRenderer
    BY <2>6 DEF JoinRenderer
  <2>7. CASE DeletePlayer
    <3>1. ui' \in [pc : UiPc, kind : Kind]
      BY <2>7 DEF DeletePlayer, AfterRemoval, Removal
    <3>2. /\ lock' \in {"none", "ui", "poll"} /\ alive' \in [Kind -> BOOLEAN]
          /\ player' \in [Kind -> BOOLEAN]
      <4>1. /\ alive' = [alive EXCEPT ![ui.kind] = FALSE] /\ lock' \in {"none", lock}
            /\ player' = player \/ player' = [player EXCEPT ![ui.kind] = FALSE]
        BY <2>7 DEF DeletePlayer
      <4>2. alive' \in [Kind -> BOOLEAN]
        BY <4>1
      <4>3. player' \in [Kind -> BOOLEAN]
        BY <4>1
      <4>4. lock' \in {"none", "ui", "poll"}
        BY <4>1
      <4> QED BY <4>2, <4>3, <4>4
    <3> QED BY <2>7, <3>1, <3>2 DEF DeletePlayer
  <2>8. CASE Remove
    BY <2>8 DEF Remove, AfterRemoval, Removal
  <2> QED
    BY <1>4, <2>1, <2>2, <2>3, <2>4, <2>5, <2>6, <2>7, <2>8 DEF Tearing
<1>5. ASSUME NEW k \in Kind, Network(k) \/ Task(k) \/ Renderer(k) PROVE UiTypes'
  BY <1>5, ThreadsFrame
<1>6. CASE PollCalls \/ PollReturns \/ \E k \in Kind : PollAsks(k)
  <2>1. poll' \in {"out", "in"} \cup Kind /\ lock' \in {"none", "ui", "poll"}
    BY <1>6 DEF PollCalls, PollReturns, PollAsks
  <2>2. playerLock' \in [Kind -> {"none", "ui", "poll"}]
    BY <1>6 DEF PollCalls, PollReturns, PollAsks
  <2> QED BY <1>6, <2>1, <2>2, PollFrame
<1>7. CASE UNCHANGED vars
  BY <1>7 DEF vars
<1> QED BY <1>1, <1>2, <1>3, <1>4, <1>5, <1>6, <1>7 DEF Next

-----------------------------------------------------------------------------
(* Locks.                                                                  *)
LEMMA LockStep == UiTypes /\ LockInv /\ [Next]_vars => LockInv'
<1> SUFFICES ASSUME UiTypes, LockInv, [Next]_vars PROVE LockInv'
  OBVIOUS
<1> USE DEF UiTypes, UiPc, Kind, Set, At, Goto, Fail, LockInv, Removing, BuildPc, TearPc
<1>1. ASSUME NEW k \in Kind, Play(k) PROVE LockInv'
  BY <1>1 DEF Play
<1>2. CASE Building
  BY <1>2 DEF Building, BuildRenderer, BuildDecoder, BuildStream, Built
<1>3. CASE \/ Clear \/ ReleaseStream \/ StopClient \/ JoinClient \/ JoinTask
           \/ ReleaseDecoder \/ StopRenderer \/ JoinRenderer \/ ReleaseSync
  BY <1>3 DEF Clear, ReleaseStream, StopClient, JoinClient, JoinTask, ReleaseDecoder,
     StopRenderer, JoinRenderer, ReleaseSync, playerVars
<1>4. CASE DeletePlayer \/ Destroy \/ Remove \/ TakeSync
  BY <1>4 DEF DeletePlayer, Destroy, Remove, TakeSync, AfterRemoval, Removal, playerVars
<1>5. ASSUME NEW k \in Kind, Network(k) \/ Task(k) \/ Renderer(k) PROVE LockInv'
  BY <1>5, ThreadsFrame DEF uiVars, playerVars
<1>6. CASE PollCalls \/ PollReturns
  BY <1>6 DEF PollCalls, PollReturns, uiVars
<1>7. ASSUME NEW k \in Kind, PollAsks(k) PROVE LockInv'
  BY <1>7 DEF PollAsks, uiVars
<1>8. CASE UNCHANGED vars
  BY <1>8 DEF vars, uiVars, playerVars
<1> QED
  BY <1>1, <1>2, <1>3, <1>4, <1>5, <1>6, <1>7, <1>8 DEF Next, Tearing

-----------------------------------------------------------------------------
(* The members of the players, and what clear still has to release.        *)
LEMMA MemberStep == UiTypes /\ LockInv /\ MemberInv /\ [Next]_vars => MemberInv'
<1> SUFFICES ASSUME UiTypes, LockInv, MemberInv, [Next]_vars PROVE MemberInv'
  OBVIOUS
<1> USE DEF MemberInv, Busy, BuildPc, TearPc
<1>1. ASSUME NEW k \in Kind, Play(k) PROVE MemberInv'
  BY <1>1 DEF Play, LockInv, UiTypes, Kind, Set, At
<1>2. CASE Building
  <2> DEFINE k == ui.kind
  <2> USE DEF UiTypes, Kind, Add, At, Goto, Fail
  <2>1. CASE BuildRenderer
    <3>1. \/ ui'.pc = "clear" /\ members' = members
          \/ ui'.pc = "decoder" /\ members' = [members EXCEPT ![k] = {"renderer"}]
      BY <2>1 DEF BuildRenderer
    <3>2. ui'.kind = ui.kind /\ local' = local /\ alive' = alive /\ player' = player
      BY <2>1 DEF BuildRenderer
    <3> QED BY <2>1, <3>1, <3>2 DEF BuildRenderer, Member
  <2>2. CASE BuildDecoder
    <3>1. \/ ui'.pc = "clear" /\ \A j \in Kind : j # k => members'[j] = members[j]
          \/ ui'.pc = "stream" /\ members' = [members EXCEPT ![k] = {"renderer", "decoder"}]
      BY <2>2 DEF BuildDecoder
    <3>2. ui'.kind = ui.kind /\ local' = local /\ alive' = alive /\ player' = player
      BY <2>2 DEF BuildDecoder
    <3> QED BY <2>2, <3>1, <3>2 DEF BuildDecoder, Member
  <2>3. CASE BuildStream
    BY <2>3 DEF BuildStream, Member
  <2>4. CASE Built
    <3>1. members[k] = {"renderer", "decoder", "stream"} /\ player[k]
      BY <2>4 DEF Built, LockInv
    <3>2. members' = [members EXCEPT ![k] = Member]
      BY <2>4, <3>1 DEF Built, Member
    <3>3. ui'.pc = "ready" /\ local' = local /\ alive' = alive /\ player' = player
      BY <2>4 DEF Built
    <3> QED BY <2>4, <3>1, <3>2, <3>3
  <2> QED BY <1>2, <2>1, <2>2, <2>3, <2>4 DEF Building
<1>3. CASE \/ Clear \/ ReleaseStream \/ StopClient \/ JoinClient \/ JoinTask
           \/ ReleaseDecoder \/ StopRenderer \/ JoinRenderer \/ ReleaseSync
  BY <1>3 DEF Clear, ReleaseStream, StopClient, JoinClient, JoinTask, ReleaseDecoder,
     StopRenderer, JoinRenderer, ReleaseSync, playerVars, UiTypes, Kind, Set, At, Goto
<1>4. CASE DeletePlayer \/ Remove
  BY <1>4 DEF DeletePlayer, Remove, AfterRemoval, Removal, LockInv, UiTypes, Kind, Set,
     At, Goto
<1>5. CASE TakeSync \/ Destroy
  <2>1. /\ ui.pc \in {"takeSync", "ready"} /\ ui'.pc \in {"gone", "remove"}
        /\ UNCHANGED <<local, members, alive, player>>
    BY <1>5 DEF TakeSync, Destroy, Removal, playerVars, UiTypes, At, Goto
  <2> QED BY <2>1
<1>6. ASSUME NEW k \in Kind, Network(k) \/ Task(k) \/ Renderer(k) PROVE MemberInv'
  BY <1>6, ThreadsFrame DEF uiVars, playerVars
<1>7. CASE PollCalls \/ PollReturns \/ \E k \in Kind : PollAsks(k)
  BY <1>7, PollFrame DEF uiVars
<1>8. CASE UNCHANGED vars
  BY <1>8 DEF vars, uiVars, playerVars
<1> QED
  BY <1>1, <1>2, <1>3, <1>4, <1>5, <1>6, <1>7, <1>8 DEF Next, Tearing

-----------------------------------------------------------------------------
(* Where the threads of the streams are.                                   *)
LEMMA ThreadTypesStep == UiTypes /\ ThreadTypes /\ [Next]_vars => ThreadTypes'
<1> SUFFICES ASSUME UiTypes, ThreadTypes, [Next]_vars PROVE ThreadTypes'
  OBVIOUS
<1> USE DEF ThreadTypes
<1>1. ASSUME NEW k \in Kind, Play(k) PROVE ThreadTypes'
  BY <1>1 DEF Play, streamVars, threadVars
<1>2. CASE Building
  <2>1. ui.kind \in Kind
    BY DEF UiTypes
  <2>2. CASE BuildRenderer \/ BuildDecoder \/ Built
    BY <2>1, <2>2 DEF BuildRenderer, BuildDecoder, Built, Set, streamVars, threadVars, OutPc
  <2>3. CASE BuildStream
    BY <2>1, <2>3 DEF BuildStream, Set, NetPc, TaskPc
  <2> QED BY <1>2, <2>2, <2>3 DEF Building
<1>3. CASE Tearing \/ Destroy
  <2>1. ui.kind \in Kind
    BY DEF UiTypes
  <2>2. \/ exit' = exit
        \/ \E t \in {"net", "task", "out"} : exit' = exit \cup {<<t, ui.kind>>}
        \/ exit' = exit \ {<<t, ui.kind>> : t \in {"net", "task", "out"}}
    BY <1>3 DEF Destroy, Tearing, Clear, ReleaseStream, StopClient, JoinClient,
       JoinTask, ReleaseDecoder, StopRenderer, JoinRenderer, ReleaseSync, DeletePlayer,
       Remove, TakeSync, threadVars
  <2>3. exit' \in SUBSET ({"net", "task", "out"} \X Kind)
    BY <2>1, <2>2
  <2>4. UNCHANGED <<net, task, out, crashed>>
    BY <1>3 DEF Destroy, Tearing, Clear, ReleaseStream, StopClient, JoinClient,
       JoinTask, ReleaseDecoder, StopRenderer, JoinRenderer, ReleaseSync, DeletePlayer,
       Remove, TakeSync, streamVars, threadVars
  <2> QED BY <2>3, <2>4
<1>4. ASSUME NEW k \in Kind, Network(k) PROVE ThreadTypes'
  BY <1>4 DEF Network, Packet, Parsed, NetworkEnds, Set, NetPc, threadVars
<1>5. ASSUME NEW k \in Kind, Task(k) PROVE ThreadTypes'
  BY <1>5 DEF Task, MediaFrame, Fetch, Decode, Output, Push, TaskReleasesSync,
     TaskReleasesFrame, TaskReleasesDecoder, TaskEnds, TaskGoto, Set, TaskPc, streamVars
<1>6. ASSUME NEW k \in Kind, Renderer(k) PROVE ThreadTypes'
  BY <1>6 DEF Renderer, Test, GetFrame, Render, Set, OutPc, streamVars
<1>7. CASE PollCalls \/ PollReturns \/ \E k \in Kind : PollAsks(k)
  BY <1>7, PollFrame DEF streamVars, threadVars, PollCalls, PollReturns, PollAsks
<1>8. CASE UNCHANGED vars
  BY <1>8 DEF vars, streamVars, threadVars
<1> QED BY <1>1, <1>2, <1>3, <1>4, <1>5, <1>6, <1>7, <1>8 DEF Next

(* The frames of the streams.                                              *)
LEMMA UiLeavesFrames ==
  ASSUME (\E k \in Kind : Play(k)) \/ Building \/ Destroy \/ Tearing
         \/ PollCalls \/ PollReturns \/ \E k \in Kind : PollAsks(k)
  PROVE  /\ UNCHANGED <<sent, queued, decoded, shown>>
         /\ queue' = queue \/ ((ReleaseSync \/ TakeSync) /\ queue' = [k \in Kind |-> <<>>])
<1>1. UNCHANGED <<sent, queued, decoded, shown>>
  BY DEF Play, Building, BuildRenderer, BuildDecoder, BuildStream, Built, Destroy, Tearing,
     Clear, ReleaseStream, StopClient, JoinClient, JoinTask, ReleaseDecoder, StopRenderer,
     JoinRenderer, ReleaseSync, DeletePlayer, Remove, TakeSync, PollCalls, PollReturns,
     PollAsks, streamVars, frameVars
<1>2. CASE ReleaseSync \/ TakeSync
  BY <1>1, <1>2 DEF ReleaseSync, TakeSync, SyncReleased
<1>3. CASE ~(ReleaseSync \/ TakeSync)
  BY <1>1, <1>3 DEF Play, Building, BuildRenderer, BuildDecoder, BuildStream, Built, Destroy,
     Tearing, Clear, ReleaseStream, StopClient, JoinClient, JoinTask, ReleaseDecoder,
     StopRenderer, JoinRenderer, DeletePlayer, Remove, PollCalls, PollReturns, PollAsks,
     frameVars
<1> QED BY <1>1, <1>2, <1>3

LEMMA FrameTypesStep == FrameTypes /\ [Next]_vars => FrameTypes'
<1> SUFFICES ASSUME FrameTypes, [Next]_vars PROVE FrameTypes'
  OBVIOUS
<1> USE DEF FrameTypes
<1>1. CASE \/ (\E k \in Kind : Play(k)) \/ Building \/ Destroy \/ Tearing
           \/ PollCalls \/ PollReturns \/ \E k \in Kind : PollAsks(k)
  <2>1. queue' = queue \/ queue' = [k \in Kind |-> <<>>]
    BY <1>1, UiLeavesFrames
  <2>2. [k \in Kind |-> <<>>] \in [Kind -> Seq(Nat)]
    OBVIOUS
  <2>3. queue' \in [Kind -> Seq(Nat)]
    BY <2>1, <2>2
  <2> QED BY <1>1, <2>3, UiLeavesFrames
<1>2. ASSUME NEW k \in Kind, Network(k) PROVE FrameTypes'
  <2>1. UNCHANGED <<decoded, shown, queue>>
    BY <1>2 DEF Network, Packet, Parsed, NetworkEnds, frameVars
  <2>2. \/ sent' = sent /\ queued' = queued
        \/ /\ sent' = [sent EXCEPT ![k] = @ + 1]
           /\ queued' = [queued EXCEPT ![k] = @ + 1]
    BY <1>2 DEF Network, Packet, Parsed, NetworkEnds
  <2>3. sent[k] + 1 \in Nat /\ queued[k] + 1 \in Nat
    OBVIOUS
  <2>4. sent' \in [Kind -> Nat] /\ queued' \in [Kind -> Nat]
    BY <2>2, <2>3
  <2> QED BY <2>1, <2>4
<1>3. ASSUME NEW k \in Kind, Task(k) PROVE FrameTypes'
  <2>1. sent' = sent /\ shown' = shown
    BY <1>3 DEF Task, MediaFrame, Fetch, Decode, Output, Push, TaskReleasesSync,
       TaskReleasesFrame, TaskReleasesDecoder, TaskEnds, frameVars, streamVars
  <2>2. queued' \in [Kind -> Nat]
    BY <1>3 DEF Task, MediaFrame, Fetch, Decode, Output, Push, TaskReleasesSync,
       TaskReleasesFrame, TaskReleasesDecoder, TaskEnds, streamVars
  <2>3. decoded' \in [Kind -> Nat]
    BY <1>3 DEF Task, MediaFrame, Fetch, Decode, Output, Push, TaskReleasesSync,
       TaskReleasesFrame, TaskReleasesDecoder, TaskEnds, frameVars
  <2>4. \/ queue' = queue
        \/ queue' = [queue EXCEPT ![k] = Append(@, decoded[k])]
        \/ queue' = [j \in Kind |-> <<>>]
    BY <1>3 DEF Task, MediaFrame, Fetch, Decode, Output, Push, TaskReleasesSync,
       TaskReleasesFrame, TaskReleasesDecoder, TaskEnds, frameVars, SyncReleased
  <2>5. /\ Append(queue[k], decoded[k]) \in Seq(Nat)
        /\ [j \in Kind |-> <<>>] \in [Kind -> Seq(Nat)]
    OBVIOUS
  <2>6. queue' \in [Kind -> Seq(Nat)]
    BY <2>4, <2>5
  <2> QED BY <2>1, <2>2, <2>3, <2>6
<1>4. ASSUME NEW k \in Kind, Renderer(k) PROVE FrameTypes'
  <2>1. UNCHANGED <<sent, queued, decoded>>
    BY <1>4 DEF Renderer, Test, GetFrame, Render, streamVars, frameVars
  <2>2. \/ shown' = shown /\ queue' = queue
        \/ shown' = [shown EXCEPT ![k] = 0] /\ queue' = queue
        \/ /\ queue[k] # <<>>
           /\ shown' = [shown EXCEPT ![k] = Head(queue[k])]
           /\ queue' = [queue EXCEPT ![k] = Tail(queue[k])]
    BY <1>4 DEF Renderer, Test, GetFrame, Render, frameVars, Set
  <2>3. queue[k] \in Seq(Nat)
    OBVIOUS
  <2>4. queue[k] # <<>> => Head(queue[k]) \in Nat /\ Tail(queue[k]) \in Seq(Nat)
    BY <2>3
  <2>5. /\ \E f \in Nat : shown' = shown \/ shown' = [shown EXCEPT ![k] = f]
        /\ \E q \in Seq(Nat) : queue' = queue \/ queue' = [queue EXCEPT ![k] = q]
    <3>1. 0 \in Nat
      OBVIOUS
    <3> QED BY <2>2, <2>3, <2>4, <3>1
  <2>6. shown' \in [Kind -> Nat] /\ queue' \in [Kind -> Seq(Nat)]
    BY <2>5
  <2> QED BY <2>1, <2>6
<1>5. CASE UNCHANGED vars
  BY <1>5 DEF vars, streamVars, frameVars
<1> QED BY <1>1, <1>2, <1>3, <1>4, <1>5 DEF Next

-----------------------------------------------------------------------------
(* Streams and renderers exist as long as their threads run: clear joins   *)
(* them before it goes on.                                                 *)
LEMMA StreamStep ==
  UiTypes /\ LockInv /\ MemberInv /\ ThreadTypes /\ StreamInv /\ [Next]_vars => StreamInv'
<1> SUFFICES ASSUME UiTypes, LockInv, MemberInv, ThreadTypes, StreamInv, [Next]_vars
             PROVE  StreamInv'
  OBVIOUS
<1> USE DEF StreamInv
<1>1. ASSUME NEW k \in Kind, Play(k) PROVE StreamInv'
  BY <1>1 DEF Play, UiTypes, MemberInv, Kind, At, streamVars, threadVars
<1>2. CASE Building
  BY <1>2 DEF Building, BuildRenderer, BuildDecoder, BuildStream, Built, UiTypes,
     ThreadTypes, MemberInv, Busy, BuildPc, Kind, Set, Add, At, Goto, Fail, streamVars,
     threadVars
<1>3. CASE \/ Clear \/ ReleaseStream \/ StopClient \/ JoinClient \/ JoinTask
           \/ ReleaseDecoder \/ StopRenderer \/ JoinRenderer \/ ReleaseSync
  BY <1>3 DEF Clear, ReleaseStream, StopClient, JoinClient, JoinTask, ReleaseDecoder,
     StopRenderer, JoinRenderer, ReleaseSync, UiTypes, ThreadTypes, MemberInv, Busy,
     TearPc, Kind, Set, At, Goto, playerVars, streamVars, threadVars
<1>4. CASE DeletePlayer \/ Destroy \/ Remove \/ TakeSync
  BY <1>4 DEF DeletePlayer, Destroy, Remove, TakeSync, AfterRemoval, Removal, UiTypes,
     ThreadTypes, MemberInv, Kind, Set, At, Goto, playerVars, uiVars, streamVars,
     threadVars
<1>5. ASSUME NEW k \in Kind, Network(k) PROVE StreamInv'
  <2>1. task' = task /\ net[k] # "off" /\ \A j \in Kind : j # k => net'[j] = net[j]
    BY <1>5 DEF Network, Packet, Parsed, NetworkEnds, ThreadTypes, Set, threadVars
  <2> QED BY <1>5, <2>1, ThreadsFrame DEF uiVars, playerVars
<1>6. ASSUME NEW k \in Kind, Task(k) PROVE StreamInv'
  <2>1. net' = net /\ task[k] # "off" /\ \A j \in Kind : j # k => task'[j] = task[j]
    BY <1>6 DEF Task, MediaFrame, Fetch, Decode, Output, Push, TaskReleasesSync,
       TaskReleasesFrame, TaskReleasesDecoder, TaskEnds, TaskGoto, ThreadTypes, Set,
       streamVars
  <2> QED BY <1>6, <2>1, ThreadsFrame DEF uiVars, playerVars
<1>7. ASSUME NEW k \in Kind, Renderer(k) PROVE StreamInv'
  <2>1. net' = net /\ task' = task
    BY <1>7 DEF Renderer, Test, GetFrame, Render, streamVars
  <2> QED BY <1>7, <2>1, ThreadsFrame DEF uiVars, playerVars
<1>8. CASE PollCalls \/ PollReturns \/ \E k \in Kind : PollAsks(k)
  BY <1>8, PollFrame DEF uiVars, streamVars, threadVars
<1>9. CASE UNCHANGED vars
  BY <1>9 DEF vars, uiVars, playerVars, streamVars, threadVars
<1> QED
  BY <1>1, <1>2, <1>3, <1>4, <1>5, <1>6, <1>7, <1>8, <1>9 DEF Next, Tearing

LEMMA RendererStep ==
  UiTypes /\ MemberInv /\ ThreadTypes /\ RendererInv /\ [Next]_vars => RendererInv'
<1> SUFFICES ASSUME UiTypes, MemberInv, ThreadTypes, RendererInv, [Next]_vars
             PROVE  RendererInv'
  OBVIOUS
<1> USE DEF RendererInv
<1>1. ASSUME NEW k \in Kind, Play(k) PROVE RendererInv'
  BY <1>1 DEF Play, UiTypes, MemberInv, Kind, At, threadVars
<1>2. CASE Building
  BY <1>2 DEF Building, BuildRenderer, BuildDecoder, BuildStream, Built, UiTypes,
     ThreadTypes, MemberInv, Busy, BuildPc, Kind, Set, Add, At, Goto, Fail, threadVars
<1>3. CASE \/ Clear \/ ReleaseStream \/ StopClient \/ JoinClient \/ JoinTask
           \/ ReleaseDecoder \/ StopRenderer \/ JoinRenderer \/ ReleaseSync
  BY <1>3 DEF Clear, ReleaseStream, StopClient, JoinClient, JoinTask, ReleaseDecoder,
     StopRenderer, JoinRenderer, ReleaseSync, UiTypes, ThreadTypes, MemberInv, Busy,
     TearPc, Kind, Set, At, Goto, playerVars, threadVars
<1>4. CASE DeletePlayer \/ Destroy \/ Remove \/ TakeSync
  BY <1>4 DEF DeletePlayer, Destroy, Remove, TakeSync, AfterRemoval, Removal, UiTypes,
     ThreadTypes, MemberInv, Kind, Set, At, Goto, playerVars, uiVars, threadVars
<1>5. ASSUME NEW k \in Kind, Network(k) \/ Task(k) PROVE RendererInv'
  <2>1. out' = out
    BY <1>5 DEF Network, Packet, Parsed, NetworkEnds, Task, MediaFrame, Fetch, Decode,
       Output, Push, TaskReleasesSync, TaskReleasesFrame, TaskReleasesDecoder, TaskEnds,
       threadVars
  <2> QED BY <1>5, <2>1, ThreadsFrame DEF uiVars, playerVars
<1>6. ASSUME NEW k \in Kind, Renderer(k) PROVE RendererInv'
  <2>1. out[k] # "off" /\ \A j \in Kind : j # k => out'[j] = out[j]
    BY <1>6 DEF Renderer, Test, GetFrame, Render, ThreadTypes, Set
  <2> QED BY <1>6, <2>1, ThreadsFrame DEF uiVars, playerVars
<1>7. CASE PollCalls \/ PollReturns \/ \E k \in Kind : PollAsks(k)
  BY <1>7, PollFrame DEF uiVars, threadVars
<1>8. CASE UNCHANGED vars
  BY <1>8 DEF vars, uiVars, playerVars, threadVars
<1> QED
  BY <1>1, <1>2, <1>3, <1>4, <1>5, <1>6, <1>7, <1>8 DEF Next, Tearing

LEMMA ClockStep == UiTypes /\ LockInv /\ ClockInv /\ [Next]_vars => ClockInv'
<1> SUFFICES ASSUME UiTypes, LockInv, ClockInv, [Next]_vars PROVE ClockInv'
  OBVIOUS
<1> USE DEF ClockInv, LockInv, Removing, Busy, BuildPc, TearPc
<1>1. ASSUME NEW k \in Kind, Play(k) PROVE ClockInv'
  BY <1>1 DEF Play, UiTypes, Kind, Set, At
<1>2. CASE Building
  BY <1>2 DEF Building, BuildRenderer, BuildDecoder, BuildStream, Built, UiTypes, Kind,
     At, Goto, Fail
<1>3. CASE \/ Clear \/ ReleaseStream \/ StopClient \/ JoinClient \/ JoinTask
           \/ ReleaseDecoder \/ StopRenderer \/ JoinRenderer \/ ReleaseSync
  BY <1>3 DEF Clear, ReleaseStream, StopClient, JoinClient, JoinTask, ReleaseDecoder,
     StopRenderer, JoinRenderer, ReleaseSync, UiTypes, Kind, At, Goto, playerVars
<1>4. CASE DeletePlayer \/ Destroy \/ Remove \/ TakeSync
  BY <1>4 DEF DeletePlayer, Destroy, Remove, TakeSync, AfterRemoval, Removal, UiTypes,
     Kind, Set, At, Goto, playerVars
<1>5. ASSUME NEW k \in Kind, Network(k) \/ Task(k) \/ Renderer(k) PROVE ClockInv'
  BY <1>5, ThreadsFrame DEF uiVars, playerVars
<1>6. CASE PollCalls \/ PollReturns
  BY <1>6 DEF PollCalls, PollReturns, uiVars
<1>7. ASSUME NEW k \in Kind, PollAsks(k) PROVE ClockInv'
  BY <1>7 DEF PollAsks, uiVars
<1>8. CASE UNCHANGED vars
  BY <1>8 DEF vars, uiVars, playerVars
<1> QED
  BY <1>1, <1>2, <1>3, <1>4, <1>5, <1>6, <1>7, <1>8 DEF Next, Tearing

-----------------------------------------------------------------------------
(* Nothing is decoded before build has succeeded.                          *)
LEMMA FreshStep ==
  /\ UiTypes /\ LockInv /\ MemberInv /\ ThreadTypes /\ StreamInv /\ FrameTypes
  /\ FreshInv /\ [Next]_vars
  => FreshInv'
<1> SUFFICES ASSUME UiTypes, LockInv, MemberInv, ThreadTypes, StreamInv, FrameTypes,
                    FreshInv, [Next]_vars
             PROVE  FreshInv'
  OBVIOUS
<1> USE DEF FreshInv, Removing, TearPc
<1>0. (\E k \in Kind : Play(k)) \/ Building \/ Tearing \/ Destroy => decoded' = decoded
  BY UiLeavesFrames
<1>1. ASSUME NEW k \in Kind, Play(k) PROVE FreshInv'
  BY <1>0, <1>1 DEF Play, UiTypes, Kind, Set, At, streamVars, threadVars
<1>2. CASE Building
  BY <1>0, <1>2 DEF Building, BuildRenderer, BuildDecoder, BuildStream, Built, UiTypes,
     ThreadTypes, LockInv, BuildPc, Kind, Set, At, Goto, Fail, streamVars, threadVars
<1>3. CASE \/ Clear \/ ReleaseStream \/ StopClient \/ JoinClient \/ JoinTask
           \/ ReleaseDecoder \/ StopRenderer \/ JoinRenderer \/ ReleaseSync
  <2>1. decoded' = decoded
    BY <1>0, <1>3 DEF Tearing
  <2>2. UNCHANGED <<player, lock, net, task>>
    BY <1>3 DEF Clear, ReleaseStream, StopClient, JoinClient, JoinTask, ReleaseDecoder,
       StopRenderer, JoinRenderer, ReleaseSync, playerVars, streamVars, threadVars
  <2>3. ui.pc \in TearPc /\ ui'.pc \in TearPc /\ ui'.kind = ui.kind
    BY <1>3 DEF Clear, ReleaseStream, StopClient, JoinClient, JoinTask, ReleaseDecoder,
       StopRenderer, JoinRenderer, ReleaseSync, UiTypes, At, Goto
  <2> QED BY <2>1, <2>2, <2>3
<1>4. CASE DeletePlayer \/ Destroy \/ Remove \/ TakeSync
  <2>1. decoded' = decoded
    BY <1>0, <1>4 DEF Tearing
  <2>2. net' = net /\ task' = task
    BY <1>4 DEF DeletePlayer, Destroy, Remove, TakeSync, streamVars, threadVars
  <2> USE DEF UiTypes, Kind, At, Goto
  <2>3. CASE DeletePlayer /\ lock = "ui"
    BY <2>1, <2>2, <2>3 DEF DeletePlayer, Set, LockInv
  <2>4. CASE DeletePlayer /\ lock # "ui"
    <3>1. ui' = AfterRemoval(ui.kind) /\ lock' # "ui"
      BY <2>4 DEF DeletePlayer
    <3>2. ui'.pc \in {"remove", "takeSync"}
      BY <3>1 DEF AfterRemoval
    <3> QED BY <3>1, <3>2
  <2>5. CASE Remove
    BY <2>1, <2>2, <2>5 DEF Remove, AfterRemoval, Removal
  <2>6. CASE Destroy
    <3>1. ui'.pc = "remove" /\ lock' # "ui"
      BY <2>6 DEF Destroy, LockInv, BuildPc, playerVars
    <3> QED BY <3>1
  <2>7. CASE TakeSync
    BY <2>7 DEF TakeSync, LockInv, BuildPc, playerVars
  <2> QED BY <1>4, <2>3, <2>4, <2>5, <2>6, <2>7
<1>5. ASSUME NEW k \in Kind, Network(k) PROVE FreshInv'
  <2>1. /\ net[k] # "off" /\ \A j \in Kind : j # k => net'[j] = net[j]
        /\ task' = task /\ decoded' = decoded
    BY <1>5 DEF Network, Packet, Parsed, NetworkEnds, ThreadTypes, Set, threadVars, frameVars
  <2> QED BY <1>5, <2>1, ThreadsFrame DEF uiVars, playerVars
<1>6. ASSUME NEW k \in Kind, Task(k) PROVE FreshInv'
  <2>1. /\ task[k] # "off" /\ \A j \in Kind : j # k => task'[j] = task[j]
        /\ net' = net
    BY <1>6 DEF Task, MediaFrame, Fetch, Decode, Output, Push, TaskReleasesSync,
       TaskReleasesFrame, TaskReleasesDecoder, TaskEnds, TaskGoto, ThreadTypes, Set,
       streamVars
  <2>2. \A j \in Kind : j # k => decoded'[j] = decoded[j]
    BY <1>6 DEF Task, MediaFrame, Fetch, Decode, Output, Push, TaskReleasesSync,
       TaskReleasesFrame, TaskReleasesDecoder, TaskEnds, FrameTypes, frameVars
  <2> QED BY <1>6, <2>1, <2>2, ThreadsFrame DEF uiVars, playerVars
<1>7. ASSUME NEW k \in Kind, Renderer(k) PROVE FreshInv'
  <2>1. net' = net /\ task' = task /\ decoded' = decoded
    BY <1>7 DEF Renderer, Test, GetFrame, Render, streamVars, frameVars
  <2> QED BY <1>7, <2>1, ThreadsFrame DEF uiVars, playerVars
<1>8. CASE PollCalls \/ PollReturns
  BY <1>8, PollFrame DEF PollCalls, PollReturns, LockInv, uiVars, streamVars, threadVars,
     frameVars
<1>9. ASSUME NEW k \in Kind, PollAsks(k) PROVE FreshInv'
  BY <1>9, PollFrame DEF PollAsks, uiVars, streamVars, threadVars, frameVars
<1>10. CASE UNCHANGED vars
  BY <1>10 DEF vars, uiVars, playerVars, streamVars, threadVars, frameVars
<1> QED
  BY <1>1, <1>2, <1>3, <1>4, <1>5, <1>6, <1>7, <1>8, <1>9, <1>10 DEF Next, Tearing

-----------------------------------------------------------------------------
PlayerInv ==
  /\ UiTypes /\ LockInv /\ MemberInv /\ ThreadTypes /\ StreamInv /\ RendererInv
  /\ ClockInv /\ FrameTypes /\ FreshInv

LifecycleInv == PlayerInv /\ QueueInv /\ CountTypes /\ RefsCountOwners

(* A player that is not alive has no members and no threads.               *)
LEMMA NotAlive ==
  ASSUME PlayerInv, NEW k \in Kind, ~alive[k]
  PROVE  /\ members[k] = {} /\ stream[k] = "none" /\ ~renderer[k]
         /\ net[k] = "off" /\ task[k] = "off" /\ out[k] = "off"
         /\ ~player[k] /\ ~Busy(k)
<1>1. ~player[k] /\ ~Busy(k) /\ members[k] = {}
  BY DEF PlayerInv, MemberInv, UiTypes
<1>2. ui.kind = k => local = {}
  BY <1>1 DEF PlayerInv, MemberInv, UiTypes, Busy, TearPc
<1>3. stream[k] = "none" /\ ~renderer[k]
  BY <1>1, <1>2 DEF PlayerInv, StreamInv, RendererInv, UiTypes, Busy, TearPc
<1> QED BY <1>1, <1>3 DEF PlayerInv, StreamInv, RendererInv, UiTypes

LEMMA NobodyLeft ==
  ASSUME PlayerInv, ui.pc \in {"takeSync", "gone"}
  PROVE  local = {} /\ \A k \in Kind : ~alive[k]
  BY DEF PlayerInv, LockInv, Removing, MemberInv, UiTypes, Busy, BuildPc, TearPc, Kind

(* Who releases AVSync is not the last to hold it, except at the end.      *)
LEMMA OthersHoldSync ==
  ASSUME LifecycleInv,
         (\E k \in Kind : TaskReleasesSync(k)) \/ (ReleaseSync /\ "sync" \in local)
  PROVE  refs["sync"] > 1
<1>1. refs["sync"] = SyncOwners
  BY DEF LifecycleInv, RefsCountOwners
<1>2. ~At("gone") /\ (TaskHasSync("video") \/ TaskHasSync("audio") \/ "sync" \in local)
  <2>1. CASE ReleaseSync /\ "sync" \in local
    BY <2>1 DEF ReleaseSync, At
  <2>2. ASSUME NEW k \in Kind, TaskReleasesSync(k)
        PROVE  ~At("gone") /\ (TaskHasSync("video") \/ TaskHasSync("audio"))
    <3>1. TaskHasSync(k)
      BY <2>2 DEF TaskReleasesSync, TaskHasSync
    <3>2. task[k] # "off"
      BY <2>2 DEF TaskReleasesSync
    <3> QED BY <3>1, <3>2, NobodyLeft, NotAlive DEF LifecycleInv, At, Kind
  <2> QED BY <2>1, <2>2
<1> QED BY <1>1, <1>2 DEF SyncOwners, Bit

LEMMA SyncKeepsFrames ==
  ASSUME LifecycleInv, (\E k \in Kind : TaskReleasesSync(k)) \/ ReleaseSync
  PROVE  frameRefs' = frameRefs /\ queue' = queue
<1>1. CASE ReleaseSync /\ "sync" \notin local
  BY <1>1 DEF ReleaseSync
<1>2. CASE ~(ReleaseSync /\ "sync" \notin local)
  <2>1. refs["sync"] > 1
    BY <1>2, OthersHoldSync
  <2>2. SyncReleased
    BY <1>2 DEF TaskReleasesSync, ReleaseSync
  <2> QED BY <2>1, <2>2 DEF SyncReleased
<1> QED BY <1>1, <1>2

(* What the threads of one kind change, and what the others may.           *)
LEMMA OtherKind ==
  ASSUME LifecycleInv, NEW k \in Kind, Network(k) \/ Task(k) \/ Renderer(k),
         NEW j \in Kind, j # k
  PROVE  /\ task'[j] = task[j] /\ out'[j] = out[j] /\ sent'[j] = sent[j]
         /\ queued'[j] = queued[j] /\ decoded'[j] = decoded[j] /\ shown'[j] = shown[j]
         /\ queue'[j] = queue[j] /\ frameRefs'[j] = frameRefs[j]
<1> USE DEF Network, Packet, Parsed, NetworkEnds, Task, MediaFrame, Fetch, Decode, Output,
        Push, TaskReleasesFrame, TaskReleasesDecoder, TaskEnds, TaskGoto, Renderer, Test,
        GetFrame, Render, Set, FrameReleased, streamVars, frameVars, threadVars
<1>1. CASE TaskReleasesSync(k)
  BY <1>1, SyncKeepsFrames DEF TaskReleasesSync, LifecycleInv, PlayerInv, ThreadTypes
<1>2. CASE ~TaskReleasesSync(k)
  <2>1. task'[j] = task[j] /\ out'[j] = out[j]
    BY <1>2 DEF LifecycleInv, PlayerInv, ThreadTypes
  <2>2. /\ sent'[j] = sent[j] /\ queued'[j] = queued[j]
        /\ decoded'[j] = decoded[j] /\ shown'[j] = shown[j] /\ queue'[j] = queue[j]
    BY <1>2 DEF LifecycleInv, PlayerInv, FrameTypes
  <2>3. frameRefs'[j] = frameRefs[j]
    BY <1>2 DEF LifecycleInv, CountTypes
  <2> QED BY <2>1, <2>2, <2>3
<1> QED BY <1>1, <1>2

(* The other threads only start those of the streams.                      *)
LEMMA UiStarts ==
  ASSUME PlayerInv, (\E k \in Kind : Play(k)) \/ Building \/ Destroy \/ Tearing
         \/ PollCalls \/ PollReturns \/ \E k \in Kind : PollAsks(k),
         NEW k \in Kind
  PROVE  /\ task'[k] = task[k] \/ (task[k] = "off" /\ task'[k] = "wait")
         /\ out'[k] = out[k] \/ (out[k] = "off" /\ out'[k] = "test")
<1> USE DEF PlayerInv
<1>1. CASE BuildRenderer
  <2>1. ui.kind = k => out[k] = "off"
    BY <1>1 DEF BuildRenderer, At, RendererInv, MemberInv, UiTypes, Busy, BuildPc
  <2> QED BY <1>1, <2>1 DEF BuildRenderer, ThreadTypes, UiTypes, Set
<1>2. CASE BuildStream
  <2>1. ui.kind = k => task[k] = "off"
    BY <1>2 DEF BuildStream, At, StreamInv, MemberInv, UiTypes, Busy, BuildPc
  <2> QED BY <1>2, <2>1 DEF BuildStream, ThreadTypes, UiTypes, Set
<1>3. CASE ~BuildRenderer /\ ~BuildStream
  <2>1. task' = task /\ out' = out
    BY <1>3 DEF Play, Building, BuildDecoder, Built, Destroy, Tearing, Clear, ReleaseStream,
       StopClient, JoinClient, JoinTask, ReleaseDecoder, StopRenderer, JoinRenderer,
       ReleaseSync, DeletePlayer, Remove, TakeSync, PollCalls, PollReturns, PollAsks,
       threadVars
  <2> QED BY <2>1
<1> QED BY <1>1, <1>2, <1>3

-----------------------------------------------------------------------------
(* Order of the frames.                                                    *)
LEMMA AppendElements ==
  ASSUME NEW q \in Seq(Nat), NEW i \in Nat
  PROVE  /\ Len(Append(q, i)) = Len(q) + 1
         /\ \A j \in 1 .. Len(q) : Append(q, i)[j] = q[j]
         /\ Append(q, i)[Len(q) + 1] = i
  OBVIOUS

LEMMA TailElements ==
  ASSUME NEW q \in Seq(Nat), q # <<>>
  PROVE  /\ Len(q) \in Nat \ {0} /\ Len(Tail(q)) = Len(q) - 1 /\ Head(q) = q[1]
         /\ \A j \in 1 .. Len(q) - 1 : Tail(q)[j] = q[j + 1]
         /\ \A j \in 1 .. Len(q) : q[j] \in Nat
  OBVIOUS

LEMMA CountedStep == LifecycleInv /\ [Next]_vars => \A k \in Kind : Counted(k)'
<1> SUFFICES ASSUME LifecycleInv, [Next]_vars, NEW k \in Kind PROVE Counted(k)'
  OBVIOUS
<1>0. /\ Counted(k) /\ MediaBound[k] \in Nat
      /\ sent[k] \in Nat /\ queued[k] \in Nat /\ decoded[k] \in Nat
  BY MediaAssumption DEF LifecycleInv, QueueInv, PlayerInv, FrameTypes
<1> USE DEF Counted, Decoding, Bit
<1>1. CASE \/ (\E j \in Kind : Play(j)) \/ Building \/ Destroy \/ Tearing
           \/ PollCalls \/ PollReturns \/ \E j \in Kind : PollAsks(j)
  <2>1. UNCHANGED <<sent, queued, decoded>>
    BY <1>1, UiLeavesFrames
  <2>2. task'[k] = task[k] \/ (task[k] = "off" /\ task'[k] = "wait")
    BY <1>1, UiStarts DEF LifecycleInv
  <2> QED BY <1>0, <2>1, <2>2
<1>2. CASE Network(k)
  <2>1. task' = task /\ decoded' = decoded
    BY <1>2 DEF Network, Packet, Parsed, NetworkEnds, threadVars, frameVars
  <2>2. \/ sent' = sent /\ queued' = queued
        \/ /\ sent[k] < MediaBound[k]
           /\ sent'[k] = sent[k] + 1 /\ queued'[k] = queued[k] + 1
    BY <1>2 DEF Network, Packet, Parsed, NetworkEnds, LifecycleInv, PlayerInv, FrameTypes
  <2> QED BY <1>0, <2>1, <2>2
<1>3. CASE Task(k)
  <2>1. sent' = sent
    BY <1>3 DEF Task, MediaFrame, Fetch, Decode, Output, Push, TaskReleasesSync,
       TaskReleasesFrame, TaskReleasesDecoder, TaskEnds, streamVars
  <2> USE DEF TaskGoto, Set, LifecycleInv, PlayerInv, ThreadTypes, FrameTypes
  <2>2. CASE MediaFrame(k)
    BY <1>0, <2>1, <2>2 DEF MediaFrame, frameVars
  <2>3. CASE Decode(k)
    BY <1>0, <2>1, <2>3 DEF Decode, streamVars
  <2>4. CASE TaskEnds(k)
    BY <1>0, <2>1, <2>4 DEF TaskEnds, frameVars
  <2>5. CASE \/ Fetch(k) \/ Output(k) \/ Push(k) \/ TaskReleasesSync(k)
             \/ TaskReleasesFrame(k) \/ TaskReleasesDecoder(k)
    <3>1. queued' = queued /\ decoded' = decoded
      BY <2>5 DEF Fetch, Output, Push, TaskReleasesSync, TaskReleasesFrame,
         TaskReleasesDecoder, streamVars, frameVars
    <3>2. task'[k] \in {"fetch", "decode"} => task[k] \in {"fetch", "decode"}
      BY <2>5 DEF Fetch, Output, Push, TaskReleasesSync, TaskReleasesFrame,
         TaskReleasesDecoder
    <3> QED BY <1>0, <2>1, <3>1, <3>2
  <2> QED BY <1>3, <2>2, <2>3, <2>4, <2>5 DEF Task
<1>4. CASE Renderer(k)
  <2>1. UNCHANGED <<sent, queued, decoded, task>>
    BY <1>4 DEF Renderer, Test, GetFrame, Render, streamVars, frameVars
  <2> QED BY <1>0, <2>1
<1>5. ASSUME NEW j \in Kind, j # k, Network(j) \/ Task(j) \/ Renderer(j) PROVE Counted(k)'
  BY <1>0, <1>5, OtherKind
<1>6. CASE UNCHANGED vars
  BY <1>0, <1>6 DEF vars, streamVars, frameVars, threadVars
<1> QED BY <1>1, <1>2, <1>3, <1>4, <1>5, <1>6 DEF Next

(* Sorted(k) says nothing of the other kind.                               *)
LEMMA SortedSame ==
  ASSUME NEW k \in Kind, Sorted(k),
         task'[k] = task[k] \/ task'[k] \notin {"output", "push", "releaseSync", "releaseFrame"},
         UNCHANGED <<decoded[k], shown[k]>>,
         queue'[k] = queue[k] \/ queue'[k] = <<>>,
         out'[k] = out[k] \/ (out[k] # "render" /\ out'[k] # "render")
  PROVE  Sorted(k)'
  BY DEF Sorted, TaskHasFrame

LEMMA SortedStep == LifecycleInv /\ [Next]_vars => \A k \in Kind : Sorted(k)'
<1> SUFFICES ASSUME LifecycleInv, [Next]_vars, NEW k \in Kind PROVE Sorted(k)'
  OBVIOUS
<1>0. /\ Sorted(k) /\ queue[k] \in Seq(Nat) /\ decoded[k] \in Nat /\ shown[k] \in Nat
  BY DEF LifecycleInv, QueueInv, PlayerInv, FrameTypes
<1>1. CASE \/ (\E j \in Kind : Play(j)) \/ Building \/ Destroy \/ Tearing
           \/ PollCalls \/ PollReturns \/ \E j \in Kind : PollAsks(j)
  <2>1. /\ UNCHANGED <<decoded, shown>>
        /\ queue'[k] = queue[k] \/ queue'[k] = <<>>
    BY <1>1, UiLeavesFrames
  <2>2. /\ task'[k] = task[k] \/ task'[k] = "wait"
        /\ out'[k] = out[k] \/ (out[k] = "off" /\ out'[k] = "test")
    BY <1>1, UiStarts DEF LifecycleInv
  <2> QED BY <1>0, <2>1, <2>2, SortedSame
<1>2. CASE Network(k)
  BY <1>0, <1>2, SortedSame
     DEF Network, Packet, Parsed, NetworkEnds, threadVars, frameVars
<1>3. CASE Task(k)
  <2>1. out' = out /\ shown' = shown
    BY <1>3 DEF Task, MediaFrame, Fetch, Decode, Output, Push, TaskReleasesSync,
       TaskReleasesFrame, TaskReleasesDecoder, TaskEnds, frameVars
  <2> USE DEF TaskGoto, Set, LifecycleInv, PlayerInv, ThreadTypes, FrameTypes
  <2>2. CASE Decode(k)
    <3>1. queue' = queue /\ (decoded'[k] = decoded[k] \/ decoded'[k] = decoded[k] + 1)
          /\ task'[k] \in {"releaseDecoder", "output"}
          /\ (task'[k] = "output" => decoded'[k] = decoded[k] + 1)
      BY <2>2 DEF Decode
    <3>2. \A i \in 1 .. Len(queue[k]) : queue[k][i] \in Nat
      BY <1>0
    <3> QED BY <1>0, <2>1, <3>1, <3>2 DEF Sorted, TaskHasFrame
  <2>3. CASE Push(k)
    <3>1. /\ queue'[k] = Append(queue[k], decoded[k]) /\ decoded' = decoded
          /\ task[k] = "push" /\ task'[k] = "releaseSync"
      BY <2>3 DEF Push
    <3> DEFINE q == queue[k]
               n == Len(q)
    <3>2. n \in Nat /\ \A i \in 1 .. n : q[i] \in Nat
      BY <1>0
    <3>3. /\ Len(queue'[k]) = n + 1 /\ queue'[k][n + 1] = decoded[k]
          /\ \A i \in 1 .. n : queue'[k][i] = q[i]
      BY <1>0, <3>1, AppendElements
    <3>4. \A i \in 1 .. n : shown[k] < q[i] /\ q[i] < decoded[k]
      BY <1>0, <3>1 DEF Sorted
    <3>5. \A i, j \in 1 .. n : i < j => q[i] < q[j]
      BY <1>0 DEF Sorted
    <3>6. shown[k] < decoded[k] /\ decoded[k] > 0 /\ (shown[k] # 0 <=> out[k] = "render")
      BY <1>0, <3>1 DEF Sorted
    <3> HIDE DEF q, n
    <3>7. \A i \in 1 .. n + 1 : i = n + 1 \/ i \in 1 .. n
      BY <3>2
    <3>8. \A i \in 1 .. n + 1 : shown[k] < queue'[k][i] /\ queue'[k][i] <= decoded[k]
      <4> TAKE i \in 1 .. n + 1
      <4>1. CASE i = n + 1
        BY <1>0, <3>3, <3>6, <4>1
      <4>2. CASE i \in 1 .. n
        <5>1. queue'[k][i] = q[i] /\ shown[k] < q[i] /\ q[i] < decoded[k] /\ q[i] \in Nat
          BY <3>2, <3>3, <3>4, <4>2
        <5> QED BY <1>0, <5>1
      <4> QED BY <3>7, <4>1, <4>2
    <3>9. \A i, j \in 1 .. n + 1 : i < j => queue'[k][i] < queue'[k][j]
      <4> SUFFICES ASSUME NEW i \in 1 .. n + 1, NEW j \in 1 .. n + 1, i < j
                   PROVE  queue'[k][i] < queue'[k][j]
        OBVIOUS
      <4>1. i \in 1 .. n
        BY <3>2
      <4>2. CASE j = n + 1
        BY <3>3, <3>4, <4>1, <4>2
      <4>3. CASE j \in 1 .. n
        BY <3>3, <3>5, <4>1, <4>3
      <4> QED BY <3>7, <4>2, <4>3
    <3> QED BY <1>0, <2>1, <3>1, <3>3, <3>6, <3>8, <3>9 DEF Sorted, TaskHasFrame
  <2>4. CASE \/ MediaFrame(k) \/ Fetch(k) \/ TaskReleasesFrame(k) \/ TaskReleasesDecoder(k)
             \/ TaskEnds(k)
    <3>1. /\ task'[k] \in {"fetch", "decode", "wait", "releaseDecoder", "off"}
          /\ decoded' = decoded /\ queue' = queue
      BY <2>4 DEF MediaFrame, Fetch, TaskReleasesFrame, TaskReleasesDecoder, TaskEnds,
         frameVars
    <3> QED BY <1>0, <2>1, <3>1, SortedSame
  <2>5. CASE Output(k)
    <3>1. /\ task[k] = "output" /\ task'[k] \in {"push", "releaseFrame"}
          /\ decoded' = decoded /\ queue' = queue
      BY <2>5 DEF Output, frameVars
    <3> QED BY <1>0, <2>1, <3>1 DEF Sorted, TaskHasFrame
  <2>6. CASE TaskReleasesSync(k)
    <3>1. /\ task[k] = "releaseSync" /\ task'[k] = "releaseFrame" /\ decoded' = decoded
      BY <2>6 DEF TaskReleasesSync
    <3>2. queue' = queue
      BY <2>6, SyncKeepsFrames
    <3> QED BY <1>0, <2>1, <3>1, <3>2 DEF Sorted, TaskHasFrame
  <2> QED BY <1>3, <2>2, <2>3, <2>4, <2>5, <2>6 DEF Task
<1>4. CASE Renderer(k)
  <2>1. task' = task /\ decoded' = decoded
    BY <1>4 DEF Renderer, Test, GetFrame, Render, streamVars, frameVars
  <2> USE DEF Set, LifecycleInv, PlayerInv, ThreadTypes, FrameTypes
  <2>2. CASE Test(k)
    <3>1. /\ out[k] = "test" /\ out'[k] \in {"off", "get"}
          /\ shown' = shown /\ queue' = queue
      BY <2>2 DEF Test, frameVars
    <3> QED BY <1>0, <2>1, <3>1, SortedSame
  <2>3. CASE GetFrame(k) /\ out'[k] = "test"
    <3>1. out[k] = "get" /\ UNCHANGED <<queue, shown>>
      BY <2>3 DEF GetFrame
    <3> QED BY <1>0, <2>1, <2>3, <3>1, SortedSame
  <2>4. CASE GetFrame(k) /\ out'[k] # "test"
    <3> DEFINE q == queue[k]
               n == Len(q)
    <3>1. /\ q # <<>> /\ out[k] = "get" /\ out'[k] = "render"
          /\ shown'[k] = Head(q) /\ queue'[k] = Tail(q)
      BY <2>4 DEF GetFrame
    <3>2. /\ n \in Nat \ {0} /\ Len(queue'[k]) = n - 1 /\ shown'[k] = q[1]
          /\ \A i \in 1 .. n - 1 : queue'[k][i] = q[i + 1]
          /\ \A i \in 1 .. n : q[i] \in Nat
      BY <1>0, <3>1, TailElements
    <3>3. /\ \A i \in 1 .. n : shown[k] < q[i] /\ q[i] <= decoded[k]
          /\ \A i \in 1 .. n : task[k] \in {"output", "push"} => q[i] < decoded[k]
          /\ \A i, j \in 1 .. n : i < j => q[i] < q[j]
          /\ TaskHasFrame(k) => decoded[k] > 0
      BY <1>0 DEF Sorted
    <3> HIDE DEF q, n
    <3>4. /\ q[1] \in Nat \ {0} /\ q[1] <= decoded[k]
          /\ task[k] \in {"output", "push"} => q[1] < decoded[k]
      BY <1>0, <3>2, <3>3
    <3>5. \A i \in 1 .. n - 1 :
            /\ i + 1 \in 1 .. n
            /\ q[1] < q[i + 1] /\ q[i + 1] <= decoded[k]
            /\ task[k] \in {"output", "push"} => q[i + 1] < decoded[k]
      BY <3>2, <3>3
    <3>6. \A i, j \in 1 .. n - 1 : i < j => q[i + 1] < q[j + 1]
      <4> SUFFICES ASSUME NEW i \in 1 .. n - 1, NEW j \in 1 .. n - 1, i < j
                   PROVE  q[i + 1] < q[j + 1]
        OBVIOUS
      <4>1. i + 1 \in 1 .. n /\ j + 1 \in 1 .. n /\ i + 1 < j + 1
        BY <3>2
      <4> QED BY <3>3, <4>1
    <3> QED BY <2>1, <3>1, <3>2, <3>3, <3>4, <3>5, <3>6 DEF Sorted, TaskHasFrame
  <2>5. CASE Render(k)
    <3>1. out'[k] = "test" /\ shown'[k] = 0 /\ queue' = queue
      BY <2>5 DEF Render
    <3>2. \A i \in 1 .. Len(queue[k]) : queue[k][i] \in Nat
      BY <1>0
    <3> QED BY <1>0, <2>1, <3>1, <3>2 DEF Sorted, TaskHasFrame
  <2> QED BY <1>4, <2>2, <2>3, <2>4, <2>5 DEF Renderer
<1>5. ASSUME NEW j \in Kind, j # k, Network(j) \/ Task(j) \/ Renderer(j) PROVE Sorted(k)'
  BY <1>0, <1>5, OtherKind, SortedSame
<1>6. CASE UNCHANGED vars
  BY <1>0, <1>6, SortedSame DEF vars, streamVars, frameVars, threadVars
<1> QED BY <1>1, <1>2, <1>3, <1>4, <1>5, <1>6 DEF Next

(* Only the release of the last reference by RtpPlayer::tear ends all.     *)
LEMMA OnlyTakeSyncEnds ==
  ASSUME UiTypes, ~At("gone"), At("gone")',
         (\E k \in Kind : Play(k)) \/ Building \/ Destroy \/ Tearing
  PROVE  TakeSync
<1>0. ui \in [pc : UiPc, kind : Kind]
  BY DEF UiTypes
<1> USE DEF At, Goto, Fail
<1>1. ASSUME NEW k \in Kind, Play(k) PROVE FALSE
  BY <1>1 DEF Play
<1>2. ~Building
  BY <1>0 DEF Building, BuildRenderer, BuildDecoder, BuildStream, Built
<1>3. ~Destroy
  BY DEF Destroy
<1>4. ~DeletePlayer /\ ~Remove
  <2>1. AfterRemoval(ui.kind).pc # "gone"
    BY DEF AfterRemoval
  <2> QED BY <1>0, <2>1 DEF DeletePlayer, Remove
<1>5. ~Clear /\ ~ReleaseStream /\ ~StopClient /\ ~JoinClient /\ ~JoinTask
  BY <1>0 DEF Clear, ReleaseStream, StopClient, JoinClient, JoinTask
<1>6. ~ReleaseDecoder /\ ~StopRenderer /\ ~JoinRenderer /\ ~ReleaseSync
  BY <1>0 DEF ReleaseDecoder, StopRenderer, JoinRenderer, ReleaseSync
<1> QED BY <1>1, <1>2, <1>3, <1>4, <1>5, <1>6 DEF Tearing

LEMMA QueueStep == LifecycleInv /\ [Next]_vars => QueueInv'
<1> SUFFICES ASSUME LifecycleInv, [Next]_vars PROVE QueueInv'
  OBVIOUS
<1>1. \A k \in Kind : Counted(k)' /\ Sorted(k)'
  BY CountedStep, SortedStep
<1>2. ASSUME At("gone")', NEW k \in Kind PROVE queue'[k] = <<>>
  <2>1. CASE At("gone")
    <3>1. queue[k] = <<>>
      BY <2>1 DEF LifecycleInv, QueueInv
    <3>2. \A j \in Kind : task[j] = "off"
      BY <2>1, NobodyLeft, NotAlive DEF LifecycleInv, At
    <3>3. \A j \in Kind : out[j] = "off"
      BY <2>1, NobodyLeft, NotAlive DEF LifecycleInv, At
    <3>4. \A j \in Kind : ~Task(j) /\ ~Renderer(j)
      BY <3>2, <3>3 DEF Task, MediaFrame, Fetch, Decode, Output, Push, TaskReleasesSync,
         TaskReleasesFrame, TaskReleasesDecoder, TaskEnds, Renderer, Test, GetFrame, Render
    <3>5. CASE \E j \in Kind : Network(j)
      BY <3>1, <3>5 DEF Network, Packet, Parsed, NetworkEnds, frameVars
    <3>6. CASE UNCHANGED vars
      BY <3>1, <3>6 DEF vars, frameVars
    <3> QED BY <2>1, <3>1, <3>4, <3>5, <3>6, UiLeavesFrames DEF Next
  <2>2. CASE ~At("gone")
    <3>1. CASE \E j \in Kind : Network(j) \/ Task(j) \/ Renderer(j)
      BY <1>2, <2>2, <3>1, ThreadsFrame DEF At, uiVars
    <3>2. CASE PollCalls \/ PollReturns \/ \E j \in Kind : PollAsks(j)
      BY <1>2, <2>2, <3>2, PollFrame DEF At, uiVars
    <3>3. CASE UNCHANGED vars
      BY <1>2, <2>2, <3>3 DEF At, vars, uiVars
    <3>4. CASE (\E j \in Kind : Play(j)) \/ Building \/ Destroy \/ Tearing
      <4>1. TakeSync
        BY <1>2, <2>2, <3>4, OnlyTakeSyncEnds DEF LifecycleInv, PlayerInv
      <4>2. refs["sync"] = 1
        <5>1. ~TaskHasSync("video") /\ ~TaskHasSync("audio")
          BY <4>1, NobodyLeft, NotAlive DEF TakeSync, At, LifecycleInv, TaskHasSync, Kind
        <5>2. local = {} /\ members["video"] = {} /\ members["audio"] = {}
          BY <4>1, NobodyLeft, NotAlive DEF TakeSync, At, LifecycleInv, Kind
        <5> QED
          BY <4>1, <5>1, <5>2 DEF TakeSync, At, LifecycleInv, RefsCountOwners, SyncOwners, Bit
      <4> QED BY <4>1, <4>2 DEF TakeSync, SyncReleased
    <3> QED BY <3>1, <3>2, <3>3, <3>4 DEF Next
  <2> QED BY <2>1, <2>2
<1> QED BY <1>1, <1>2 DEF QueueInv

-----------------------------------------------------------------------------
(* Reference counts.                                                       *)
LEMMA ReleasedCounts ==
  ASSUME CountTypes, NEW k \in Kind, NEW i \in 1 .. MediaBound[k], FrameReleased(k, i)
  PROVE  /\ CountTypes'
         /\ refs'["sync"] = refs["sync"] /\ refs'["audio"] = refs["audio"]
         /\ frameRefs'[k][i] = frameRefs[k][i] - 1
         /\ \A j \in 1 .. MediaBound[k] : j # i => frameRefs'[k][j] = frameRefs[k][j]
         /\ \A h \in Kind : h # k => frameRefs'[h] = frameRefs[h]
         /\ refs'["video"] = refs["video"] - Bit(k = "video" /\ frameRefs[k][i] = 1)
<1>1. refs' \in [sync : Int, video : Int, audio : Int]
  BY DEF CountTypes, FrameReleased
<1>2. DOMAIN frameRefs' = Kind /\ \A h \in Kind : frameRefs'[h] \in [1 .. MediaBound[h] -> Int]
  <2>1. DOMAIN frameRefs' = Kind /\ \A h \in Kind : h # k => frameRefs'[h] = frameRefs[h]
    BY DEF CountTypes, FrameReleased
  <2>2. frameRefs'[k] = [frameRefs[k] EXCEPT ![i] = @ - 1]
    BY DEF CountTypes, FrameReleased
  <2>3. frameRefs[k] \in [1 .. MediaBound[k] -> Int]
    BY DEF CountTypes
  <2>4. frameRefs[k][i] \in Int /\ frameRefs[k][i] - 1 \in Int
    <3>1. frameRefs[k][i] \in Int
      BY <2>3
    <3> QED BY <3>1
  <2>5. frameRefs'[k] \in [1 .. MediaBound[k] -> Int]
    BY <2>2, <2>3, <2>4
  <2> QED BY <2>1, <2>5 DEF CountTypes
<1>3. /\ refs'["sync"] = refs["sync"] /\ refs'["audio"] = refs["audio"]
      /\ refs'["video"] = refs["video"] - Bit(k = "video" /\ frameRefs[k][i] = 1)
  BY DEF CountTypes, FrameReleased, Bit
<1> QED BY <1>1, <1>2, <1>3 DEF CountTypes, FrameReleased

LEMMA LiveFinite ==
  ASSUME NEW k \in Kind
  PROVE  IsFiniteSet(LiveFrames(k)) /\ Cardinality(LiveFrames(k)) \in Nat
<1>1. IsFiniteSet(1 .. MediaBound[k])
  BY MediaAssumption, FS_Interval
<1>2. LiveFrames(k) \in SUBSET (1 .. MediaBound[k])
  BY DEF LiveFrames
<1> QED BY <1>1, <1>2, FS_Subset, FS_CardinalityType

(* What the steps do to the frames: only these change their counts.        *)
FrameStep ==
  \/ frameRefs' = frameRefs
  \/ \E k \in Kind : Decode(k) \/ Push(k) \/ TaskReleasesFrame(k) \/ Render(k)
  \/ TakeSync

LEMMA FrameSteps == LifecycleInv /\ [Next]_vars => FrameStep
<1> SUFFICES ASSUME LifecycleInv, [Next]_vars PROVE FrameStep
  OBVIOUS
<1> USE DEF FrameStep
<1>1. CASE (\E k \in Kind : Play(k)) \/ Building \/ Destroy
  BY <1>1 DEF Play, Building, BuildRenderer, BuildDecoder, BuildStream, Built, Destroy,
     frameVars
<1>2. CASE Tearing
  BY <1>2, SyncKeepsFrames DEF Tearing, Clear, ReleaseStream, StopClient, JoinClient,
     JoinTask, ReleaseDecoder, StopRenderer, JoinRenderer, DeletePlayer, Remove, frameVars
<1>3. ASSUME NEW k \in Kind, Network(k) \/ Task(k) \/ Renderer(k) PROVE FrameStep
  BY <1>3, SyncKeepsFrames DEF Network, Packet, Parsed, NetworkEnds, Task, MediaFrame, Fetch,
     Output, TaskReleasesDecoder, TaskEnds, Renderer, Test, GetFrame, frameVars
<1>4. CASE PollCalls \/ PollReturns \/ \E k \in Kind : PollAsks(k)
  BY <1>4, PollFrame DEF frameVars
<1>5. CASE UNCHANGED vars
  BY <1>5 DEF vars, frameVars
<1> QED BY <1>1, <1>2, <1>3, <1>4, <1>5 DEF Next

LEMMA FrameOwnersType ==
  ASSUME NEW k \in Kind, NEW i \in 1 .. MediaBound[k] PROVE FrameOwners(k, i) \in Nat
  BY DEF FrameOwners, Bit

(* The frame that the task or the renderer holds is one of those counted.  *)
LEMMA HeldFrame ==
  ASSUME LifecycleInv, NEW k \in Kind
  PROVE  /\ decoded[k] \in 0 .. MediaBound[k]
         /\ TaskHasFrame(k) => decoded[k] \in 1 .. MediaBound[k]
         /\ task[k] = "decode" => decoded[k] + 1 \in 1 .. MediaBound[k]
         /\ out[k] = "render" => shown[k] \in 1 .. MediaBound[k]
<1>1. /\ Counted(k) /\ Sorted(k) /\ MediaBound[k] \in Nat /\ sent[k] \in Nat
      /\ queued[k] \in Nat /\ decoded[k] \in Nat /\ shown[k] \in Nat
  BY MediaAssumption DEF LifecycleInv, QueueInv, PlayerInv, FrameTypes
<1>2. decoded[k] <= MediaBound[k] /\ (task[k] = "decode" => decoded[k] + 1 <= MediaBound[k])
  BY <1>1 DEF Counted, Decoding, Bit
<1>3. TaskHasFrame(k) => decoded[k] > 0
  BY <1>1 DEF Sorted
<1>4. shown[k] <= decoded[k] /\ (out[k] = "render" => shown[k] # 0)
  BY <1>1 DEF Sorted
<1> QED BY <1>1, <1>2, <1>3, <1>4

LEMMA QueuedBounds ==
  ASSUME LifecycleInv, NEW k \in Kind, NEW i \in Queued(k)
  PROVE  /\ i \in Nat /\ shown[k] < i /\ i <= decoded[k]
         /\ task[k] \in {"output", "push"} => i < decoded[k]
<1>1. Sorted(k) /\ queue[k] \in Seq(Nat)
  BY DEF LifecycleInv, QueueInv, PlayerInv, FrameTypes
<1> QED BY <1>1 DEF Queued, Sorted

LEMMA FrameCountSame ==
  ASSUME NEW k \in Kind, NEW i \in 1 .. MediaBound[k],
         frameRefs[k][i] = FrameOwners(k, i), frameRefs'[k][i] = frameRefs[k][i],
         decoded'[k] = decoded[k], queue'[k] = queue[k], shown'[k] = shown[k],
         TaskHasFrame(k)' = TaskHasFrame(k)
  PROVE  frameRefs'[k][i] = FrameOwners(k, i)'
  BY DEF FrameOwners, Queued

LEMMA FrameCountStep ==
  LifecycleInv /\ [Next]_vars
    => \A k \in Kind : \A i \in 1 .. MediaBound[k] : frameRefs'[k][i] = FrameOwners(k, i)'
<1> SUFFICES ASSUME LifecycleInv, [Next]_vars, NEW k \in Kind, NEW i \in 1 .. MediaBound[k]
             PROVE  frameRefs'[k][i] = FrameOwners(k, i)'
  OBVIOUS
<1>0. /\ frameRefs[k][i] = FrameOwners(k, i) /\ CountTypes /\ Sorted(k)
      /\ queue[k] \in Seq(Nat) /\ decoded[k] \in Nat /\ shown[k] \in Nat
  BY DEF LifecycleInv, RefsCountOwners, QueueInv, PlayerInv, FrameTypes
<1> USE DEF TaskHasFrame
<1>1. CASE TakeSync
  <2>1. task[k] = "off" /\ out[k] = "off" /\ local = {} /\ ~TaskHasSync("video")
        /\ ~TaskHasSync("audio") /\ members["video"] = {} /\ members["audio"] = {}
    BY <1>1, NobodyLeft, NotAlive DEF TakeSync, At, LifecycleInv, Kind, TaskHasSync
  <2>2. refs["sync"] = 1
    BY <1>1, <2>1 DEF TakeSync, At, LifecycleInv, RefsCountOwners, SyncOwners, Bit
  <2>3. /\ frameRefs'[k][i] = frameRefs[k][i] - IF i \in Queued(k) THEN 1 ELSE 0
        /\ queue'[k] = <<>> /\ shown' = shown /\ task' = task
    <3>1. ~(refs["sync"] > 1) /\ SyncReleased
      BY <1>1, <2>2 DEF TakeSync
    <3>2. /\ queue' = [h \in Kind |-> <<>>]
          /\ frameRefs' = [h \in Kind |-> [j \in 1 .. MediaBound[h] |->
                             frameRefs[h][j] - IF j \in Queued(h) THEN 1 ELSE 0]]
      BY <3>1 DEF SyncReleased
    <3>3. shown' = shown /\ task' = task
      BY <1>1 DEF TakeSync, threadVars
    <3> QED BY <3>2, <3>3
  <2>4. shown[k] = 0
    BY <1>0, <2>1 DEF Sorted
  <2>5. i \notin Queued(k)'
    BY <2>3 DEF Queued
  <2> QED BY <1>0, <2>1, <2>3, <2>4, <2>5 DEF FrameOwners, Bit
<1>2. CASE Decode(k)
  <2>1. UNCHANGED <<queue, shown>> /\ task[k] = "decode"
    BY <1>2 DEF Decode
  <2>2. CASE task'[k] = "releaseDecoder"
    <3>1. UNCHANGED <<decoded, frameRefs>>
      BY <1>2, <2>2 DEF Decode, TaskGoto, Set, LifecycleInv, PlayerInv, ThreadTypes
    <3> QED BY <1>0, <2>1, <2>2, <3>1, FrameCountSame
  <2>3. CASE task'[k] # "releaseDecoder"
    <3> DEFINE d == decoded[k] + 1
    <3>1. /\ task'[k] = "output" /\ decoded'[k] = d
          /\ frameRefs' = [frameRefs EXCEPT ![k][d] = 1]
      BY <1>2, <2>3 DEF Decode, TaskGoto, Set, LifecycleInv, PlayerInv, ThreadTypes,
         FrameTypes
    <3>2. d \in 1 .. MediaBound[k]
      BY <2>1, HeldFrame
    <3>3. d \notin Queued(k) /\ shown[k] # d
      BY <1>0, <3>1, QueuedBounds DEF Sorted
    <3>4. frameRefs'[k][i] = IF i = d THEN 1 ELSE frameRefs[k][i]
      BY <1>0, <3>1, <3>2 DEF CountTypes
    <3>5. Queued(k)' = Queued(k)
      BY <2>1 DEF Queued
    <3>6. TaskHasFrame(k)' /\ ~TaskHasFrame(k) /\ shown'[k] = shown[k]
      BY <2>1, <3>1
    <3> HIDE DEF d, TaskHasFrame
    <3>7. CASE i = d
      <4>1. frameRefs'[k][i] = 1 /\ i \notin Queued(k) /\ shown[k] # i
        BY <3>3, <3>4, <3>7
      <4> QED BY <3>1, <3>5, <3>6, <3>7, <4>1 DEF FrameOwners, Bit
    <3>8. CASE i # d
      <4>1. frameRefs'[k][i] = frameRefs[k][i]
        BY <3>4, <3>8
      <4> QED BY <1>0, <3>1, <3>5, <3>6, <3>8, <4>1 DEF FrameOwners, Bit
    <3> QED BY <3>7, <3>8
  <2> QED BY <2>2, <2>3
<1>3. CASE Push(k)
  <2> DEFINE d == decoded[k]
  <2>1. /\ UNCHANGED <<decoded, shown>> /\ task[k] = "push" /\ task'[k] = "releaseSync"
        /\ queue'[k] = Append(queue[k], d)
        /\ frameRefs' = [frameRefs EXCEPT ![k][d] = @ + 1]
    BY <1>3 DEF Push, TaskGoto, Set, LifecycleInv, PlayerInv, ThreadTypes, FrameTypes
  <2>2. d \in 1 .. MediaBound[k] /\ d \notin Queued(k) /\ shown[k] # d
    BY <1>0, <2>1, HeldFrame, QueuedBounds DEF Sorted
  <2>3. frameRefs'[k][i] = IF i = d THEN frameRefs[k][i] + 1 ELSE frameRefs[k][i]
    BY <1>0, <2>1, <2>2 DEF CountTypes
  <2>4. Queued(k)' = Queued(k) \cup {d}
    <3> DEFINE q == queue[k]
               n == Len(q)
    <3>1. /\ n \in Nat /\ Len(queue'[k]) = n + 1 /\ queue'[k][n + 1] = d
          /\ \A j \in 1 .. n : queue'[k][j] = q[j]
      BY <1>0, <2>1, AppendElements
    <3> HIDE DEF n
    <3>2. 1 .. n + 1 = (1 .. n) \cup {n + 1}
      BY <3>1
    <3> QED BY <3>1, <3>2 DEF Queued, n
  <2> HIDE DEF d
  <2> QED BY <1>0, <2>1, <2>2, <2>3, <2>4 DEF FrameOwners, Bit, d
<1>4. CASE TaskReleasesFrame(k)
  <2> DEFINE d == decoded[k]
  <2>1. /\ UNCHANGED <<decoded, shown, queue>> /\ task[k] = "releaseFrame"
        /\ task'[k] = "releaseDecoder" /\ FrameReleased(k, d)
    BY <1>4 DEF TaskReleasesFrame, TaskGoto, Set, LifecycleInv, PlayerInv, ThreadTypes
  <2>2. d \in 1 .. MediaBound[k]
    BY <2>1, HeldFrame
  <2>3. frameRefs'[k][i] = IF i = d THEN frameRefs[k][i] - 1 ELSE frameRefs[k][i]
    BY <1>0, <2>1, <2>2, ReleasedCounts
  <2>4. Queued(k)' = Queued(k)
    BY <2>1 DEF Queued
  <2> QED BY <1>0, <2>1, <2>3, <2>4 DEF FrameOwners, Bit
<1>5. CASE Render(k)
  <2> DEFINE d == shown[k]
  <2>1. /\ UNCHANGED <<decoded, task, queue>> /\ out[k] = "render"
        /\ shown'[k] = 0 /\ FrameReleased(k, d)
    BY <1>5 DEF Render, Set, LifecycleInv, PlayerInv, FrameTypes
  <2>2. d \in 1 .. MediaBound[k]
    BY <2>1, HeldFrame
  <2>3. frameRefs'[k][i] = IF i = d THEN frameRefs[k][i] - 1 ELSE frameRefs[k][i]
    BY <1>0, <2>1, <2>2, ReleasedCounts
  <2>4. Queued(k)' = Queued(k)
    BY <2>1 DEF Queued
  <2> QED BY <1>0, <2>1, <2>2, <2>3, <2>4 DEF FrameOwners, Bit
<1>6. CASE GetFrame(k)
  <2>1. UNCHANGED <<decoded, task, frameRefs>>
    BY <1>6 DEF GetFrame
  <2>2. CASE UNCHANGED <<queue, shown>>
    BY <1>0, <2>1, <2>2, FrameCountSame
  <2>3. CASE ~UNCHANGED <<queue, shown>>
    <3> DEFINE q == queue[k]
               n == Len(q)
    <3>1. /\ q # <<>> /\ out[k] = "get" /\ shown'[k] = Head(q) /\ queue'[k] = Tail(q)
      BY <1>6, <2>3 DEF GetFrame, Set, LifecycleInv, PlayerInv, FrameTypes
    <3>2. /\ n \in Nat \ {0} /\ Len(queue'[k]) = n - 1 /\ shown'[k] = q[1]
          /\ \A j \in 1 .. n - 1 : queue'[k][j] = q[j + 1]
          /\ \A j \in 1 .. n : q[j] \in Nat
      BY <1>0, <3>1, TailElements
    <3>3. /\ \A j \in 2 .. n : q[1] < q[j]
          /\ shown[k] = 0
      BY <1>0, <3>1, <3>2 DEF Sorted
    <3> HIDE DEF q, n
    <3>4. Queued(k)' = {q[j] : j \in 2 .. n}
      <4>1. Queued(k)' = {q[j + 1] : j \in 1 .. n - 1}
        BY <3>2 DEF Queued
      <4>2. \A j \in 2 .. n : j - 1 \in 1 .. n - 1 /\ (j - 1) + 1 = j
        BY <3>2
      <4>3. \A j \in 1 .. n - 1 : j + 1 \in 2 .. n
        BY <3>2
      <4> QED BY <4>1, <4>2, <4>3
    <3>5. Queued(k) = {q[1]} \cup Queued(k)' /\ q[1] \notin Queued(k)'
      <4>1. 1 .. n = {1} \cup (2 .. n)
        BY <3>2
      <4>2. Queued(k) = {q[j] : j \in 1 .. n}
        BY DEF Queued, q, n
      <4> QED BY <3>2, <3>3, <3>4, <4>1, <4>2
    <3>6. q[1] # 0
      BY <1>0, <3>2, <3>3 DEF Sorted, q, n
    <3> QED BY <1>0, <2>1, <3>2, <3>3, <3>5, <3>6 DEF FrameOwners, Bit
  <2> QED BY <2>2, <2>3
<1>7. ASSUME NEW j \in Kind, j # k, Network(j) \/ Task(j) \/ Renderer(j)
      PROVE  frameRefs'[k][i] = FrameOwners(k, i)'
  BY <1>0, <1>7, OtherKind, FrameCountSame
<1>8. CASE /\ Network(k) \/ Task(k) \/ Renderer(k)
           /\ ~(Decode(k) \/ Push(k) \/ TaskReleasesFrame(k) \/ Render(k) \/ GetFrame(k))
  <2>1. UNCHANGED <<frameRefs, queue>>
    BY <1>8, SyncKeepsFrames DEF Network, Packet, Parsed, NetworkEnds, Task, MediaFrame,
       Fetch, Output, TaskReleasesDecoder, TaskEnds, Renderer, Test, frameVars
  <2>2. UNCHANGED <<decoded, shown>>
    BY <1>8 DEF Network, Packet, Parsed, NetworkEnds, Task, MediaFrame, Fetch, Output,
       TaskReleasesSync, TaskReleasesDecoder, TaskEnds, Renderer, Test, frameVars
  <2>3. TaskHasFrame(k)' = TaskHasFrame(k)
    BY <1>8 DEF Network, Packet, Parsed, NetworkEnds, Task, MediaFrame, Fetch, Output,
       TaskReleasesSync, TaskReleasesDecoder, TaskEnds, Renderer, Test, TaskGoto, Set,
       threadVars, LifecycleInv, PlayerInv, ThreadTypes
  <2> QED BY <1>0, <2>1, <2>2, <2>3, FrameCountSame
<1>9. CASE /\ \/ (\E j \in Kind : Play(j)) \/ Building \/ Destroy \/ Tearing
              \/ PollCalls \/ PollReturns \/ \E j \in Kind : PollAsks(j)
           /\ ~TakeSync
  <2>1. frameRefs' = frameRefs
    BY <1>9, SyncKeepsFrames, PollFrame DEF Play, Building, BuildRenderer, BuildDecoder,
       BuildStream, Built, Destroy, Tearing, Clear, ReleaseStream, StopClient, JoinClient,
       JoinTask, ReleaseDecoder, StopRenderer, JoinRenderer, DeletePlayer, Remove, frameVars
  <2>2. UNCHANGED <<decoded, shown, queue>>
    BY <1>9, UiLeavesFrames, SyncKeepsFrames
  <2>3. TaskHasFrame(k)' = TaskHasFrame(k)
    BY <1>9, UiStarts DEF LifecycleInv
  <2> QED BY <1>0, <2>1, <2>2, <2>3, FrameCountSame
<1>10. CASE UNCHANGED vars
  BY <1>0, <1>10, FrameCountSame DEF vars, frameVars, threadVars
<1> QED BY <1>1, <1>2, <1>3, <1>4, <1>5, <1>6, <1>7, <1>8, <1>9, <1>10 DEF Next, Tearing

(* The counts are integers, whatever they count.                           *)
RefStep ==
  \/ refs' = refs
  \/ BuildDecoder \/ Built \/ ReleaseDecoder \/ ReleaseSync \/ TakeSync
  \/ \E k \in Kind : \/ Fetch(k) \/ Decode(k) \/ Output(k) \/ TaskReleasesSync(k)
                     \/ TaskReleasesFrame(k) \/ TaskReleasesDecoder(k) \/ Render(k)

LEMMA RefSteps == [Next]_vars => RefStep
<1> SUFFICES ASSUME [Next]_vars PROVE RefStep
  OBVIOUS
<1> USE DEF RefStep
<1>1. CASE (\E k \in Kind : Play(k)) \/ Building \/ Destroy
  BY <1>1 DEF Play, Building, BuildRenderer, BuildStream, Destroy
<1>2. CASE Tearing
  BY <1>2 DEF Tearing, Clear, ReleaseStream, StopClient, JoinClient, JoinTask,
     StopRenderer, JoinRenderer, DeletePlayer, Remove
<1>3. ASSUME NEW k \in Kind, Network(k) \/ Task(k) \/ Renderer(k) PROVE RefStep
  BY <1>3 DEF Network, Packet, Parsed, NetworkEnds, Task, MediaFrame, Push, TaskEnds,
     Renderer, Test, GetFrame
<1>4. CASE PollCalls \/ PollReturns \/ \E k \in Kind : PollAsks(k)
  BY <1>4, PollFrame
<1>5. CASE UNCHANGED vars
  BY <1>5 DEF vars
<1> QED BY <1>1, <1>2, <1>3, <1>4, <1>5 DEF Next

LEMMA LiveQueued ==
  LET S == {i \in Queued("video") : frameRefs["video"][i] = 1}
  IN  LifecycleInv => S \subseteq 1 .. MediaBound["video"] /\ Cardinality(S) \in Nat
<1> DEFINE S == {i \in Queued("video") : frameRefs["video"][i] = 1}
<1> SUFFICES ASSUME LifecycleInv
             PROVE  S \subseteq 1 .. MediaBound["video"] /\ Cardinality(S) \in Nat
  OBVIOUS
<1>1. MediaBound["video"] \in Nat /\ "video" \in Kind
  BY MediaAssumption DEF Kind
<1>2. decoded["video"] \in 0 .. MediaBound["video"] /\ shown["video"] \in Nat
  BY <1>1, HeldFrame DEF LifecycleInv, PlayerInv, FrameTypes
<1>3. \A i \in Queued("video") : i \in 1 .. MediaBound["video"]
  BY <1>1, <1>2, QueuedBounds
<1>4. IsFiniteSet(1 .. MediaBound["video"])
  BY <1>1, FS_Interval
<1>5. S \subseteq 1 .. MediaBound["video"]
  BY <1>3
<1> QED BY <1>4, <1>5, FS_Subset, FS_CardinalityType

LEMMA CountTypesStep == LifecycleInv /\ [Next]_vars => CountTypes'
<1> SUFFICES ASSUME LifecycleInv, [Next]_vars PROVE CountTypes'
  OBVIOUS
<1>0. CountTypes
  BY DEF LifecycleInv
<1>1. refs' \in [sync : Int, video : Int, audio : Int]
  <2>0. refs \in [sync : Int, video : Int, audio : Int]
    BY <1>0 DEF CountTypes
  <2>1. CASE refs' = refs \/ BuildDecoder \/ Built \/ ReleaseDecoder
    <3>1. ui.kind \in Kind
      BY DEF LifecycleInv, PlayerInv, UiTypes
    <3> QED BY <2>0, <2>1, <3>1 DEF BuildDecoder, Built, ReleaseDecoder, DecoderReleased, Set, Kind
  <2>2. ASSUME NEW k \in Kind, Fetch(k) \/ Decode(k) \/ Output(k) \/ TaskReleasesDecoder(k)
        PROVE  refs' \in [sync : Int, video : Int, audio : Int]
    BY <2>0, <2>2 DEF Fetch, Decode, Output, TaskReleasesDecoder, DecoderReleased,
       HoldsDecoder, Kind
  <2>3. ASSUME NEW k \in Kind, TaskReleasesFrame(k) \/ Render(k)
        PROVE  refs' \in [sync : Int, video : Int, audio : Int]
    BY <2>0, <2>3 DEF TaskReleasesFrame, Render, FrameReleased
  <2>4. CASE \/ ReleaseSync \/ TakeSync \/ \E k \in Kind : TaskReleasesSync(k)
    <3>1. \/ refs' = refs
          \/ refs' = [refs EXCEPT !["sync"] = @ - 1]
          \/ \E n \in Nat : refs' = [refs EXCEPT !["sync"] = 0, !["video"] = @ - n]
      BY <2>4, LiveQueued DEF ReleaseSync, TakeSync, TaskReleasesSync, SyncReleased
    <3> QED BY <2>0, <3>1
  <2> QED BY <2>1, <2>2, <2>3, <2>4, RefSteps DEF RefStep
<1>2. DOMAIN frameRefs' = Kind /\ \A k \in Kind : frameRefs'[k] \in [1 .. MediaBound[k] -> Int]
  <2>1. CASE frameRefs' = frameRefs
    BY <1>0, <2>1 DEF CountTypes
  <2>2. ASSUME NEW k \in Kind, TaskReleasesFrame(k) \/ Render(k) PROVE CountTypes'
    <3>1. CASE TaskReleasesFrame(k)
      BY <1>0, <2>2, <3>1, HeldFrame, ReleasedCounts DEF TaskReleasesFrame, TaskHasFrame
    <3>2. CASE Render(k)
      BY <1>0, <2>2, <3>2, HeldFrame, ReleasedCounts DEF Render
    <3> QED BY <2>2, <3>1, <3>2
  <2>3. ASSUME NEW k \in Kind, NEW i \in 1 .. MediaBound[k], NEW n \in Int,
               frameRefs' = [frameRefs EXCEPT ![k][i] = n]
        PROVE  /\ DOMAIN frameRefs' = Kind
               /\ \A h \in Kind : frameRefs'[h] \in [1 .. MediaBound[h] -> Int]
    <3>1. DOMAIN frameRefs' = Kind /\ \A h \in Kind : h # k => frameRefs'[h] = frameRefs[h]
      BY <1>0, <2>3 DEF CountTypes
    <3>2. frameRefs'[k] = [frameRefs[k] EXCEPT ![i] = n]
      BY <1>0, <2>3 DEF CountTypes
    <3>3. frameRefs[k] \in [1 .. MediaBound[k] -> Int]
      BY <1>0 DEF CountTypes
    <3>4. frameRefs'[k] \in [1 .. MediaBound[k] -> Int]
      BY <3>2, <3>3
    <3> QED BY <1>0, <3>1, <3>4 DEF CountTypes
  <2>4. ASSUME NEW k \in Kind, Decode(k), frameRefs' # frameRefs
        PROVE  \E i \in 1 .. MediaBound[k] : frameRefs' = [frameRefs EXCEPT ![k][i] = 1]
    BY <2>4, HeldFrame DEF Decode
  <2>5. ASSUME NEW k \in Kind, Push(k)
        PROVE  \E i \in 1 .. MediaBound[k], n \in Int :
                 frameRefs' = [frameRefs EXCEPT ![k][i] = n]
    <3>1. decoded[k] \in 1 .. MediaBound[k]
      BY <2>5, HeldFrame DEF Push, TaskHasFrame
    <3>2. frameRefs[k] \in [1 .. MediaBound[k] -> Int]
      BY <1>0 DEF CountTypes
    <3>3. frameRefs[k][decoded[k]] \in Int
      BY <3>1, <3>2
    <3>4. frameRefs' = [frameRefs EXCEPT ![k][decoded[k]] = frameRefs[k][decoded[k]] + 1]
      BY <2>5 DEF Push
    <3>5. frameRefs[k][decoded[k]] + 1 \in Int
      BY <3>3
    <3> QED BY <3>1, <3>4, <3>5
  <2>6. CASE TakeSync
    <3>1. CASE frameRefs' = frameRefs
      BY <1>0, <3>1 DEF CountTypes
    <3>2. CASE frameRefs' = [k \in Kind |-> [i \in 1 .. MediaBound[k] |->
                               frameRefs[k][i] - IF i \in Queued(k) THEN 1 ELSE 0]]
      <4>1. \A k \in Kind : \A i \in 1 .. MediaBound[k] :
              frameRefs[k][i] - (IF i \in Queued(k) THEN 1 ELSE 0) \in Int
        <5> TAKE k \in Kind
        <5> TAKE i \in 1 .. MediaBound[k]
        <5>1. frameRefs[k] \in [1 .. MediaBound[k] -> Int]
          BY <1>0 DEF CountTypes
        <5>2. frameRefs[k][i] \in Int
          BY <5>1
        <5> QED BY <5>2
      <4> QED BY <3>2, <4>1
    <3> QED BY <2>6, <3>1, <3>2 DEF TakeSync, SyncReleased
  <2> QED BY <2>1, <2>2, <2>3, <2>4, <2>5, <2>6, FrameSteps DEF FrameStep, CountTypes
<1> QED BY <1>1, <1>2 DEF CountTypes

(* The references on AVSync.                                               *)
LEMMA SyncOwnersSame ==
  ASSUME LifecycleInv, refs'["sync"] = refs["sync"], At("gone")' = At("gone"),
         ("sync" \in local)' = ("sync" \in local),
         \A k \in Kind : ("sync" \in members[k])' = ("sync" \in members[k]),
         \A k \in Kind : TaskHasSync(k)' = TaskHasSync(k)
  PROVE  refs'["sync"] = SyncOwners'
  BY DEF LifecycleInv, RefsCountOwners, SyncOwners, Kind

LEMMA SyncCountStep == LifecycleInv /\ [Next]_vars => refs'["sync"] = SyncOwners'
<1> SUFFICES ASSUME LifecycleInv, [Next]_vars PROVE refs'["sync"] = SyncOwners'
  OBVIOUS
<1>0. /\ refs \in [sync : Int, video : Int, audio : Int] /\ refs["sync"] = SyncOwners
      /\ ui \in [pc : UiPc, kind : Kind] /\ members \in [Kind -> SUBSET Member]
      /\ task \in [Kind -> TaskPc]
  BY DEF LifecycleInv, RefsCountOwners, CountTypes, PlayerInv, UiTypes, ThreadTypes
<1>1. CASE \/ (\E j \in Kind : Play(j)) \/ Building \/ Destroy \/ Tearing
           \/ PollCalls \/ PollReturns \/ \E j \in Kind : PollAsks(j)
  <2>0. \A k \in Kind : TaskHasSync(k)' = TaskHasSync(k)
    BY <1>1, UiStarts DEF LifecycleInv, TaskHasSync
  <2>1. CASE Built
    <3>1. /\ members[ui.kind] = {"renderer", "decoder", "stream"}
          /\ ui.pc = "built" /\ ui.kind \in Kind
      BY <1>0, <2>1 DEF Built, At, LifecycleInv, PlayerInv, MemberInv, Busy, BuildPc
    <3>2. /\ refs'["sync"] = refs["sync"] + 1 /\ ui'.pc = "ready" /\ local' = local
          /\ members' = [members EXCEPT ![ui.kind] = @ \cup {"sync"}]
      BY <1>0, <2>1 DEF Built, Add, Goto
    <3>3. /\ "sync" \notin members[ui.kind] /\ "sync" \in members'[ui.kind]
          /\ \A k \in Kind : k # ui.kind => members'[k] = members[k]
      BY <1>0, <3>1, <3>2
    <3> QED BY <1>0, <2>0, <3>1, <3>2, <3>3 DEF SyncOwners, Bit, At, Kind
  <2>2. CASE Clear
    <3>1. local = {} /\ ui.pc = "clear" /\ ui.kind \in Kind
      BY <1>0, <2>2 DEF Clear, At, LifecycleInv, PlayerInv, MemberInv
    <3>2. /\ refs' = refs /\ ui'.pc = "releaseStream" /\ local' = members[ui.kind]
          /\ members'[ui.kind] = {} /\ \A k \in Kind : k # ui.kind => members'[k] = members[k]
      BY <1>0, <2>2 DEF Clear, Set, Goto
    <3> QED BY <1>0, <2>0, <3>1, <3>2 DEF SyncOwners, Bit, At, Kind
  <2>3. CASE ReleaseSync
    <3>1. ui.pc = "releaseSync" /\ ui'.pc = "deletePlayer" /\ local' = {} /\ members' = members
      BY <1>0, <2>3 DEF ReleaseSync, At, Goto, playerVars
    <3>2. CASE "sync" \in local
      <4>1. refs["sync"] > 1 /\ SyncReleased
        BY <2>3, <3>2, OthersHoldSync DEF ReleaseSync
      <4>2. refs'["sync"] = refs["sync"] - 1
        BY <1>0, <4>1 DEF SyncReleased
      <4> QED BY <1>0, <2>0, <3>1, <3>2, <4>2 DEF SyncOwners, Bit, At, Kind
    <3>3. CASE "sync" \notin local
      <4>1. refs' = refs
        BY <2>3, <3>3 DEF ReleaseSync
      <4> QED BY <2>0, <3>1, <3>3, <4>1, SyncOwnersSame DEF At
    <3> QED BY <3>2, <3>3
  <2>4. CASE TakeSync
    <3>1. /\ local = {} /\ members["video"] = {} /\ members["audio"] = {}
          /\ ~TaskHasSync("video") /\ ~TaskHasSync("audio") /\ ui.pc = "takeSync"
      BY <2>4, NobodyLeft, NotAlive DEF TakeSync, At, LifecycleInv, Kind, TaskHasSync
    <3>2. refs["sync"] = 1
      BY <1>0, <3>1 DEF SyncOwners, Bit, At
    <3>3. /\ refs'["sync"] = 0 /\ ui'.pc = "gone" /\ local' = local /\ members' = members
      BY <1>0, <2>4, <3>2 DEF TakeSync, SyncReleased, Goto, playerVars
    <3> QED BY <2>0, <3>1, <3>3 DEF SyncOwners, Bit, At, Kind
  <2>5. CASE ~Built /\ ~Clear /\ ~ReleaseSync /\ ~TakeSync
    <3>1. refs'["sync"] = refs["sync"]
      BY <1>0, <1>1, <2>5, PollFrame DEF Play, Building, BuildRenderer, BuildDecoder, BuildStream,
         Destroy, Tearing, ReleaseStream, StopClient, JoinClient, JoinTask, ReleaseDecoder,
         DecoderReleased, StopRenderer, JoinRenderer, DeletePlayer, Remove, Set, Kind
    <3>2. ("sync" \in local)' = ("sync" \in local)
      <4>1. CASE ReleaseStream \/ ReleaseDecoder \/ StopRenderer
        BY <4>1 DEF ReleaseStream, ReleaseDecoder, StopRenderer
      <4>2. CASE ~ReleaseStream /\ ~ReleaseDecoder /\ ~StopRenderer
        <5>1. local' = local
          BY <1>1, <2>5, <4>2, PollFrame DEF Play, Building, BuildRenderer, BuildDecoder,
             BuildStream, Destroy, Tearing, StopClient, JoinClient, JoinTask, JoinRenderer,
             DeletePlayer, Remove, uiVars
        <5> QED BY <5>1
      <4> QED BY <4>1, <4>2
    <3>3. \A k \in Kind : ("sync" \in members[k])' = ("sync" \in members[k])
      <4>1. CASE BuildRenderer \/ BuildDecoder \/ BuildStream
        <5>1. \/ members' = members
              \/ \E m \in {"renderer", "decoder", "stream"} :
                   members' = [members EXCEPT ![ui.kind] = @ \cup {m}]
          BY <4>1 DEF BuildRenderer, BuildDecoder, BuildStream, Add
        <5> QED BY <1>0, <5>1
      <4>2. CASE ~BuildRenderer /\ ~BuildDecoder /\ ~BuildStream
        <5>1. members' = members
          BY <1>1, <2>5, <4>2, PollFrame DEF Play, Building, Destroy, Tearing, ReleaseStream,
             StopClient, JoinClient, JoinTask, ReleaseDecoder, StopRenderer, JoinRenderer,
             DeletePlayer, Remove, playerVars
        <5> QED BY <5>1
      <4> QED BY <4>1, <4>2
    <3>4. At("gone")' = At("gone")
      <4>1. CASE PollCalls \/ PollReturns \/ \E j \in Kind : PollAsks(j)
        BY <4>1, PollFrame DEF uiVars, At
      <4>2. CASE (\E j \in Kind : Play(j)) \/ Building \/ Destroy \/ Tearing
        <5>1. ~At("gone")
          BY <2>5, <4>2 DEF Play, Building, BuildRenderer, BuildDecoder, BuildStream, Destroy,
             Tearing, ReleaseStream, StopClient, JoinClient, JoinTask, ReleaseDecoder,
             StopRenderer, JoinRenderer, DeletePlayer, Remove, At
        <5>2. ~At("gone")'
          BY <2>5, <4>2, <5>1, OnlyTakeSyncEnds DEF LifecycleInv, PlayerInv
        <5> QED BY <5>1, <5>2 DEF At
      <4> QED BY <1>1, <4>1, <4>2
    <3> QED BY <2>0, <3>1, <3>2, <3>3, <3>4, SyncOwnersSame
  <2> QED BY <2>1, <2>2, <2>3, <2>4, <2>5
<1>2. ASSUME NEW k \in Kind, Network(k) \/ Task(k) \/ Renderer(k)
      PROVE  refs'["sync"] = SyncOwners'
  <2>1. ui' = ui /\ local' = local /\ members' = members
    BY <1>2, ThreadsFrame DEF uiVars, playerVars
  <2>2. \A j \in Kind : j # k => TaskHasSync(j)' = TaskHasSync(j)
    BY <1>2, OtherKind DEF TaskHasSync
  <2>3. CASE Output(k) /\ "sync" \in members[k]
    <3>1. /\ refs'["sync"] = refs["sync"] + 1 /\ task[k] = "output" /\ task'[k] = "push"
      BY <1>0, <2>3 DEF Output, TaskGoto, Set
    <3>2. ~TaskHasSync(k) /\ TaskHasSync(k)'
      BY <3>1 DEF TaskHasSync
    <3> QED BY <1>0, <2>1, <2>2, <3>1, <3>2 DEF SyncOwners, Bit, At, Kind
  <2>4. CASE TaskReleasesSync(k)
    <3>1. /\ refs["sync"] > 1 /\ SyncReleased
      BY <2>4, OthersHoldSync DEF TaskReleasesSync
    <3>2. refs'["sync"] = refs["sync"] - 1
      BY <1>0, <3>1 DEF SyncReleased
    <3>3. task[k] = "releaseSync" /\ task'[k] = "releaseFrame"
      BY <1>0, <2>4 DEF TaskReleasesSync, TaskGoto, Set
    <3>4. TaskHasSync(k) /\ ~TaskHasSync(k)'
      BY <3>3 DEF TaskHasSync
    <3> QED BY <1>0, <2>1, <2>2, <3>2, <3>4 DEF SyncOwners, Bit, At, Kind
  <2>5. CASE ~(Output(k) /\ "sync" \in members[k]) /\ ~TaskReleasesSync(k)
    <3>1. refs'["sync"] = refs["sync"]
      BY <1>0, <1>2, <2>5 DEF Network, Packet, Parsed, NetworkEnds, Task, MediaFrame, Fetch,
         Decode, Output, Push, TaskReleasesFrame, TaskReleasesDecoder, TaskEnds, Renderer,
         Test, GetFrame, Render, FrameReleased, DecoderReleased, HoldsDecoder, Kind
    <3>2. TaskHasSync(k)' = TaskHasSync(k)
      <4>1. CASE Task(k)
        BY <1>0, <2>5, <4>1 DEF Task, MediaFrame, Fetch,
         Decode, Output, Push, TaskReleasesFrame, TaskReleasesDecoder, TaskEnds, TaskGoto,
         Set, TaskHasSync
      <4>2. CASE Network(k) \/ Renderer(k)
        BY <4>2 DEF Network, Packet, Parsed, NetworkEnds, Renderer, Test, GetFrame, Render,
           threadVars, TaskHasSync
      <4> QED BY <1>2, <4>1, <4>2
    <3>3. \A j \in Kind : TaskHasSync(j)' = TaskHasSync(j)
      BY <2>2, <3>2
    <3> QED BY <2>1, <3>1, <3>3, SyncOwnersSame DEF At
  <2> QED BY <2>3, <2>4, <2>5
<1>3. CASE UNCHANGED vars
  BY <1>3, SyncOwnersSame DEF vars, uiVars, playerVars, threadVars, At, TaskHasSync
<1> QED BY <1>1, <1>2, <1>3 DEF Next

(* The references on the decoders: each video frame that is live holds one. *)
LEMMA NoFrames ==
  ASSUME LifecycleInv, NEW k \in Kind, ~TaskHasFrame(k), queue[k] = <<>> \/ decoded[k] = 0,
         out[k] # "render"
  PROVE  LiveFrames(k) = {} /\ Cardinality(LiveFrames(k)) = 0
<1>1. ASSUME NEW i \in 1 .. MediaBound[k] PROVE frameRefs[k][i] = 0
  <2>1. frameRefs[k][i] = FrameOwners(k, i)
    BY DEF LifecycleInv, RefsCountOwners
  <2>2. shown[k] = 0
    BY DEF LifecycleInv, QueueInv, Sorted
  <2>3. i \notin Queued(k)
    <3>1. CASE queue[k] = <<>>
      BY <3>1 DEF Queued
    <3>2. CASE decoded[k] = 0
      BY <3>2, QueuedBounds
    <3> QED BY <3>1, <3>2
  <2> QED BY <2>1, <2>2, <2>3 DEF FrameOwners, Bit
<1>2. LiveFrames(k) = {}
  BY <1>1 DEF LiveFrames
<1> QED BY <1>2, FS_EmptySet

LEMMA LiveReleased ==
  ASSUME LifecycleInv, NEW k \in Kind, NEW i \in 1 .. MediaBound[k], frameRefs[k][i] > 0,
         FrameReleased(k, i)
  PROVE  Cardinality(LiveFrames(k))' = Cardinality(LiveFrames(k)) - Bit(frameRefs[k][i] = 1)
<1>1. /\ frameRefs'[k][i] = frameRefs[k][i] - 1
      /\ \A j \in 1 .. MediaBound[k] : j # i => frameRefs'[k][j] = frameRefs[k][j]
  BY ReleasedCounts DEF LifecycleInv
<1>2. frameRefs[k][i] \in Int
  <2>1. frameRefs[k] \in [1 .. MediaBound[k] -> Int]
    BY DEF LifecycleInv, CountTypes
  <2> QED BY <2>1
<1>3. CASE frameRefs[k][i] = 1
  <2>1. LiveFrames(k)' = LiveFrames(k) \ {i} /\ i \in LiveFrames(k)
    BY <1>1, <1>3 DEF LiveFrames
  <2> QED BY <1>3, <2>1, LiveFinite, FS_RemoveElement DEF Bit
<1>4. CASE frameRefs[k][i] # 1
  <2>1. frameRefs[k][i] - 1 > 0
    BY <1>2, <1>4
  <2>2. LiveFrames(k)' = LiveFrames(k)
    BY <1>1, <2>1 DEF LiveFrames
  <2> QED BY <1>4, <2>2, LiveFinite DEF Bit
<1> QED BY <1>3, <1>4

LEMMA DecoderOwnersSame ==
  ASSUME LifecycleInv, NEW k \in Kind, refs'[k] = refs[k],
         ("decoder" \in members[k])' = ("decoder" \in members[k]),
         (ui.kind = k /\ "decoder" \in local)' = (ui.kind = k /\ "decoder" \in local),
         TaskHasDecoder(k)' = TaskHasDecoder(k), LiveFrames(k)' = LiveFrames(k)
  PROVE  refs'[k] = DecoderOwners(k)'
  BY DEF LifecycleInv, RefsCountOwners, DecoderOwners

LEMMA UiDecoderCount ==
  ASSUME LifecycleInv, NEW k \in Kind,
         \/ (\E j \in Kind : Play(j)) \/ Building \/ Destroy \/ Tearing
         \/ PollCalls \/ PollReturns \/ \E j \in Kind : PollAsks(j)
  PROVE  refs'[k] = DecoderOwners(k)'
<1>0. /\ refs \in [sync : Int, video : Int, audio : Int] /\ refs[k] = DecoderOwners(k)
      /\ ui \in [pc : UiPc, kind : Kind] /\ members \in [Kind -> SUBSET Member]
  BY DEF LifecycleInv, RefsCountOwners, CountTypes, PlayerInv, UiTypes
<1>1. TaskHasDecoder(k)' = TaskHasDecoder(k)
  BY UiStarts DEF LifecycleInv, TaskHasDecoder, TaskHasFrame
<1>2. ~TakeSync => LiveFrames(k)' = LiveFrames(k)
  <2>1. ~TakeSync => frameRefs' = frameRefs
    BY SyncKeepsFrames, PollFrame DEF Play, Building, BuildRenderer, BuildDecoder,
       BuildStream, Built, Destroy, Tearing, Clear, ReleaseStream, StopClient, JoinClient,
       JoinTask, ReleaseDecoder, StopRenderer, JoinRenderer, DeletePlayer, Remove, frameVars
  <2> QED BY <2>1 DEF LiveFrames
<1>3. ui.pc \in {"ready", "remove", "deletePlayer"} => local = {}
  BY DEF LifecycleInv, PlayerInv, MemberInv
<1>4. CASE BuildDecoder /\ "decoder" \in members'[ui.kind]
  <2>1. ui.kind # k => refs'[k] = refs[k] /\ members'[k] = members[k]
    BY <1>0, <1>4 DEF BuildDecoder, Add, Set, Kind
  <2>2. local' = local /\ ui'.kind = ui.kind
    BY <1>0, <1>4 DEF BuildDecoder, Goto, Fail
  <2>3. CASE ui.kind = k
    <3>1. refs'[k] = 1 /\ "decoder" \in members'[k]
      <4>1. members[k] = {"renderer"}
        BY <1>4, <2>3 DEF BuildDecoder, At, LifecycleInv, PlayerInv, MemberInv, Busy, BuildPc
      <4> QED BY <1>0, <1>4, <2>3, <4>1 DEF BuildDecoder, Add, Set, Kind
    <3>2. task[k] = "off" /\ decoded[k] = 0 /\ local = {}
      BY <1>4, <2>3 DEF BuildDecoder, At, LifecycleInv, PlayerInv, LockInv, MemberInv, FreshInv,
         BuildPc
    <3>3. shown[k] = 0 /\ (shown[k] # 0 <=> out[k] = "render")
      <4>1. Sorted(k) /\ shown[k] \in Nat
        BY DEF LifecycleInv, QueueInv, PlayerInv, FrameTypes
      <4> QED BY <3>2, <4>1 DEF Sorted
    <3>4. Cardinality(LiveFrames(k)) = 0
      BY <3>2, <3>3, NoFrames DEF TaskHasFrame
    <3>5. LiveFrames(k)' = LiveFrames(k) /\ ~TaskHasDecoder(k)'
      BY <1>1, <1>2, <1>4, <3>2 DEF BuildDecoder, TakeSync, At, TaskHasDecoder, TaskHasFrame
    <3> QED BY <2>2, <3>1, <3>2, <3>4, <3>5 DEF DecoderOwners, Bit
  <2>4. CASE ui.kind # k
    <3>1. ~TakeSync
      BY <1>4 DEF BuildDecoder, TakeSync, At
    <3> QED BY <1>1, <1>2, <2>1, <2>2, <2>4, <3>1, DecoderOwnersSame
  <2> QED BY <2>3, <2>4
<1>5. CASE Clear
  <2>1. /\ refs' = refs /\ local = {} /\ local' = members[ui.kind] /\ ui'.kind = ui.kind
        /\ members' = [members EXCEPT ![ui.kind] = {}] /\ ~TakeSync
    BY <1>0, <1>5 DEF Clear, Set, Goto, At, TakeSync, LifecycleInv, PlayerInv, MemberInv
  <2>2. CASE ui.kind = k
    <3>1. members'[k] = {} /\ local' = members[k] /\ LiveFrames(k)' = LiveFrames(k)
      BY <1>0, <1>2, <2>1, <2>2
    <3> QED BY <1>0, <1>1, <2>1, <2>2, <3>1 DEF DecoderOwners, Bit
  <2>3. CASE ui.kind # k
    <3>1. members'[k] = members[k] /\ LiveFrames(k)' = LiveFrames(k)
      BY <1>0, <1>2, <2>1, <2>3
    <3> QED BY <1>1, <2>1, <2>3, <3>1, DecoderOwnersSame
  <2> QED BY <2>2, <2>3
<1>6. CASE ReleaseDecoder /\ "decoder" \in local /\ ui.kind = k
  <2>1. /\ refs'[k] = refs[k] - 1 /\ ui'.kind = k /\ local' = local \ {"decoder"}
        /\ members' = members /\ ~TakeSync
    BY <1>0, <1>6 DEF ReleaseDecoder, DecoderReleased, Goto, At, TakeSync, Kind, playerVars
  <2>2. LiveFrames(k)' = LiveFrames(k)
    BY <1>2, <2>1
  <2>3. refs[k] \in Int
    BY <1>0 DEF Kind
  <2>4. DecoderOwners(k)' = DecoderOwners(k) - 1
    <3>1. Cardinality(LiveFrames(k)) \in Nat
      BY LiveFinite
    <3> QED BY <1>1, <1>6, <2>1, <2>2, <3>1 DEF DecoderOwners, Bit
  <2> QED BY <1>0, <2>1, <2>3, <2>4
<1>7. CASE TakeSync
  <2>1. /\ local = {} /\ members[k] = {} /\ task[k] = "off" /\ out[k] = "off"
        /\ ~TaskHasSync("video") /\ ~TaskHasSync("audio")
        /\ members["video"] = {} /\ members["audio"] = {}
    BY <1>7, NobodyLeft, NotAlive DEF TakeSync, At, LifecycleInv, Kind, TaskHasSync
  <2>2. refs["sync"] = 1
    BY <1>7, <2>1 DEF TakeSync, At, LifecycleInv, RefsCountOwners, SyncOwners, Bit
  <2>3. ~(refs["sync"] > 1) /\ SyncReleased /\ members' = members /\ local' = local
    BY <1>7, <2>2 DEF TakeSync, playerVars
  <2>4. ~TaskHasDecoder(k) /\ ~TaskHasDecoder(k)'
    BY <1>1, <2>1 DEF TaskHasDecoder, TaskHasFrame
  <2>5. shown[k] = 0 /\ ~TaskHasFrame(k)
    <3>1. Sorted(k) /\ shown[k] \in Nat
      BY DEF LifecycleInv, QueueInv, PlayerInv, FrameTypes
    <3> QED BY <2>1, <3>1 DEF Sorted, TaskHasFrame
  <2>6. \A i \in 1 .. MediaBound[k] : frameRefs[k][i] = Bit(i \in Queued(k))
    <3> TAKE i \in 1 .. MediaBound[k]
    <3>1. frameRefs[k][i] = FrameOwners(k, i)
      BY DEF LifecycleInv, RefsCountOwners
    <3> QED BY <2>5, <3>1 DEF FrameOwners, Bit
  <2>7. frameRefs' = [h \in Kind |-> [j \in 1 .. MediaBound[h] |->
                             frameRefs[h][j] - IF j \in Queued(h) THEN 1 ELSE 0]]
    BY <2>3 DEF SyncReleased
  <2>8. \A i \in 1 .. MediaBound[k] : frameRefs'[k][i] = 0
    BY <2>6, <2>7 DEF Bit
  <2>9. LiveFrames(k)' = {} /\ Cardinality(LiveFrames(k))' = 0
    <3>1. LiveFrames(k)' = {}
      BY <2>8 DEF LiveFrames
    <3> QED BY <3>1, FS_EmptySet
  <2>10. refs'[k] = 0
    <3>1. CASE k = "video"
      <4>1. Queued("video") \cap 1 .. MediaBound["video"] = LiveFrames("video")
        BY <2>6, <3>1 DEF LiveFrames, Bit
      <4>2. {i \in Queued("video") : frameRefs["video"][i] = 1} = LiveFrames("video")
        BY <2>6, <3>1, <4>1, LiveQueued DEF Bit, LiveFrames
      <4>3. refs["video"] = Cardinality(LiveFrames("video"))
        BY <1>0, <2>1, <2>4, <3>1, LiveFinite DEF DecoderOwners, Bit
      <4>4. refs'["video"] = refs["video"] - Cardinality(LiveFrames("video"))
        BY <1>0, <2>3, <4>2 DEF SyncReleased
      <4> QED BY <3>1, <4>3, <4>4, LiveFinite
    <3>2. CASE k = "audio"
      <4>1. refs["audio"] = 0
        BY <1>0, <2>1, <2>4, <3>2 DEF DecoderOwners, Bit
      <4>2. refs'["audio"] = refs["audio"]
        BY <1>0, <2>3 DEF SyncReleased
      <4> QED BY <3>2, <4>1, <4>2
    <3> QED BY <3>1, <3>2 DEF Kind
  <2> QED BY <2>1, <2>3, <2>4, <2>9, <2>10 DEF DecoderOwners, Bit
<1>8. CASE /\ ~(BuildDecoder /\ "decoder" \in members'[ui.kind])
           /\ ~Clear /\ ~(ReleaseDecoder /\ "decoder" \in local /\ ui.kind = k)
           /\ ~TakeSync
  <2>0. BuildDecoder => UNCHANGED <<members, refs>>
    BY <1>0, <1>8 DEF BuildDecoder, Add
  <2>1. refs'[k] = refs[k]
    <3>1. CASE ReleaseSync
      <4>1. refs' = refs \/ refs' = [refs EXCEPT !["sync"] = @ - 1]
        BY <3>1, OthersHoldSync DEF ReleaseSync, SyncReleased
      <4> QED BY <1>0, <4>1 DEF Kind
    <3>2. CASE Built \/ ReleaseDecoder
      BY <1>0, <1>8, <3>2 DEF Built, ReleaseDecoder, DecoderReleased, Kind
    <3>3. CASE ~ReleaseSync /\ ~Built /\ ~ReleaseDecoder
      <4>1. refs' = refs
        BY <1>8, <2>0, <3>3, PollFrame DEF Play, Building, BuildRenderer, BuildStream, Destroy,
           Tearing, ReleaseStream, StopClient, JoinClient, JoinTask, StopRenderer, JoinRenderer,
           DeletePlayer, Remove
      <4> QED BY <4>1
    <3> QED BY <3>1, <3>2, <3>3
  <2>2. ("decoder" \in members[k])' = ("decoder" \in members[k])
    <3>1. \/ members' = members
          \/ \E m \in {"renderer", "stream", "sync"} :
               members' = [members EXCEPT ![ui.kind] = @ \cup {m}]
      BY <1>8, <2>0, PollFrame DEF Play, Building, BuildRenderer, BuildStream, Built, Add,
         Destroy, Tearing, ReleaseStream, StopClient, JoinClient, JoinTask, ReleaseDecoder,
         StopRenderer, JoinRenderer, ReleaseSync, DeletePlayer, Remove, playerVars
    <3> QED BY <1>0, <3>1
  <2>3. (ui.kind = k /\ "decoder" \in local)' = (ui.kind = k /\ "decoder" \in local)
    <3>1. CASE (\E j \in Kind : Play(j)) \/ Destroy \/ DeletePlayer \/ Remove
      <4>1. ui.pc \in {"ready", "remove", "deletePlayer"} /\ local' = local
        BY <3>1 DEF Play, Destroy, DeletePlayer, Remove, At, uiVars
      <4> QED BY <1>3, <4>1
    <3>2. CASE Building
      <4>1. ui'.kind = ui.kind /\ local' = local
        BY <1>0, <3>2 DEF Building, BuildRenderer, BuildDecoder, BuildStream, Built, Goto, Fail
      <4> QED BY <4>1
    <3>3. CASE ReleaseStream \/ StopRenderer \/ ReleaseSync
      <4>1. ui'.kind = ui.kind
        BY <1>0, <3>3 DEF ReleaseStream, StopRenderer, ReleaseSync, Goto
      <4>2. CASE ReleaseStream \/ StopRenderer
        BY <4>1, <4>2 DEF ReleaseStream, StopRenderer
      <4>3. CASE ReleaseSync
        <5>1. "decoder" \notin local /\ local' = {}
          BY <4>3 DEF ReleaseSync, At, LifecycleInv, PlayerInv, MemberInv
        <5> QED BY <5>1
      <4> QED BY <3>3, <4>2, <4>3
    <3>4. CASE ReleaseDecoder
      <4>1. ui.kind # k \/ "decoder" \notin local
        BY <1>0, <1>8, <3>4 DEF ReleaseDecoder, Goto
      <4>2. ui'.kind = ui.kind /\ local' = local \ {"decoder"}
        BY <1>0, <3>4 DEF ReleaseDecoder, Goto
      <4> QED BY <4>1, <4>2
    <3>5. CASE StopClient \/ JoinClient \/ JoinTask \/ JoinRenderer
      <4>1. ui'.kind = ui.kind /\ local' = local
        BY <1>0, <3>5 DEF StopClient, JoinClient, JoinTask, JoinRenderer, Goto
      <4> QED BY <4>1
    <3>6. CASE PollCalls \/ PollReturns \/ \E j \in Kind : PollAsks(j)
      BY <3>6, PollFrame DEF uiVars
    <3> QED BY <1>8, <3>1, <3>2, <3>3, <3>4, <3>5, <3>6 DEF Tearing
  <2> QED BY <1>1, <1>2, <1>8, <2>1, <2>2, <2>3, DecoderOwnersSame
<1> QED BY <1>4, <1>5, <1>6, <1>7, <1>8

LEMMA ThreadDecoderCount ==
  ASSUME LifecycleInv, NEW k \in Kind, NEW j \in Kind, Network(j) \/ Task(j) \/ Renderer(j)
  PROVE  refs'[k] = DecoderOwners(k)'
<1>0. /\ refs \in [sync : Int, video : Int, audio : Int] /\ refs[k] = DecoderOwners(k)
      /\ task \in [Kind -> TaskPc] /\ CountTypes /\ refs[k] \in Int
  BY DEF LifecycleInv, RefsCountOwners, CountTypes, PlayerInv, ThreadTypes, Kind
<1>1. ui' = ui /\ local' = local /\ members' = members
  BY ThreadsFrame DEF uiVars, playerVars
<1>2. Cardinality(LiveFrames(k)) \in Nat
  BY LiveFinite
<1>3. TaskReleasesSync(j) => refs'[k] = refs[k]
  <2>1. ASSUME TaskReleasesSync(j) PROVE refs' = [refs EXCEPT !["sync"] = @ - 1]
    <3>1. refs["sync"] > 1 /\ SyncReleased /\ refs["sync"] \in Int
      BY <1>0, <2>1, OthersHoldSync DEF TaskReleasesSync
    <3> QED BY <3>1 DEF SyncReleased
  <2> QED BY <1>0, <2>1 DEF Kind
<1>4. CASE j # k
  <2>1. TaskHasDecoder(k)' = TaskHasDecoder(k) /\ LiveFrames(k)' = LiveFrames(k)
    BY <1>4, OtherKind DEF TaskHasDecoder, TaskHasFrame, LiveFrames
  <2>2. refs'[k] = refs[k]
    BY <1>0, <1>3, <1>4 DEF Network, Packet, Parsed, NetworkEnds, Task, MediaFrame, Fetch,
       Decode, Output, Push, TaskReleasesFrame, TaskReleasesDecoder, TaskEnds, Renderer,
       Test, GetFrame, Render, FrameReleased, DecoderReleased, HoldsDecoder, Kind
  <2> QED BY <1>1, <2>1, <2>2, DecoderOwnersSame
<1>5. CASE j = k
  <2>1. CASE Fetch(k) /\ "decoder" \in members[k]
    <3>1. /\ refs'[k] = refs[k] + 1 /\ task[k] = "fetch" /\ task'[k] = "decode"
          /\ frameRefs' = frameRefs
      BY <1>0, <2>1 DEF Fetch, TaskGoto, Set, frameVars, Kind
    <3>2. ~TaskHasDecoder(k) /\ TaskHasDecoder(k)' /\ LiveFrames(k)' = LiveFrames(k)
      BY <3>1 DEF TaskHasDecoder, TaskHasFrame, LiveFrames
    <3> QED BY <1>0, <1>1, <1>2, <3>1, <3>2 DEF DecoderOwners, Bit
  <2>2. CASE TaskReleasesDecoder(k)
    <3>1. /\ refs'[k] = refs[k] - 1 /\ task[k] = "releaseDecoder" /\ task'[k] = "wait"
          /\ frameRefs' = frameRefs
      BY <1>0, <2>2 DEF TaskReleasesDecoder, DecoderReleased, TaskGoto, Set, frameVars, Kind
    <3>2. TaskHasDecoder(k) /\ ~TaskHasDecoder(k)' /\ LiveFrames(k)' = LiveFrames(k)
      BY <3>1 DEF TaskHasDecoder, TaskHasFrame, LiveFrames
    <3> QED BY <1>0, <1>1, <1>2, <3>1, <3>2 DEF DecoderOwners, Bit
  <2>3. CASE Decode(k) /\ task'[k] = "output"
    <3> DEFINE d == decoded[k] + 1
    <3>1. /\ task[k] = "decode" /\ HoldsDecoder(k)
          /\ frameRefs' = [frameRefs EXCEPT ![k][d] = 1]
      BY <1>0, <2>3 DEF Decode, TaskGoto, Set
    <3>2. TaskHasDecoder(k) /\ TaskHasDecoder(k)'
      BY <2>3, <3>1 DEF TaskHasDecoder, TaskHasFrame
    <3>3. d \in 1 .. MediaBound[k] /\ decoded[k] \in Nat
      BY <3>1, HeldFrame DEF LifecycleInv, PlayerInv, FrameTypes
    <3>4. frameRefs[k][d] = 0
      <4>1. frameRefs[k][d] = FrameOwners(k, d)
        BY <3>3 DEF LifecycleInv, RefsCountOwners
      <4>2. shown[k] <= decoded[k] /\ shown[k] \in Nat
        BY DEF LifecycleInv, QueueInv, Sorted, PlayerInv, FrameTypes
      <4>3. d \notin Queued(k) /\ shown[k] # d /\ decoded[k] # d
        BY <3>3, <4>2, QueuedBounds
      <4> HIDE DEF d
      <4> QED BY <4>1, <4>3 DEF FrameOwners, Bit
    <3>5. frameRefs'[k] = [frameRefs[k] EXCEPT ![d] = 1]
      BY <1>0, <3>1 DEF CountTypes
    <3>6. \A i \in 1 .. MediaBound[k] :
            frameRefs'[k][i] = IF i = d THEN 1 ELSE frameRefs[k][i]
      BY <1>0, <3>3, <3>5 DEF CountTypes
    <3> HIDE DEF d
    <3>7. LiveFrames(k)' = LiveFrames(k) \cup {d} /\ d \notin LiveFrames(k)
      BY <3>3, <3>4, <3>6 DEF LiveFrames
    <3>8. Cardinality(LiveFrames(k))' = Cardinality(LiveFrames(k)) + 1
      BY <3>7, LiveFinite, FS_AddElement
    <3>9. refs'[k] = refs[k] + IF k = "video" THEN 1 ELSE 0
      BY <1>0, <3>1 DEF HoldsDecoder, Kind
    <3> QED BY <1>0, <1>1, <1>2, <3>2, <3>8, <3>9 DEF DecoderOwners, Bit
  <2>4. CASE Push(k)
    <3> DEFINE d == decoded[k]
    <3>1. /\ task[k] = "push" /\ task'[k] = "releaseSync" /\ refs' = refs
          /\ frameRefs' = [frameRefs EXCEPT ![k][d] = @ + 1]
      BY <1>0, <2>4 DEF Push, TaskGoto, Set
    <3>2. d \in 1 .. MediaBound[k] /\ TaskHasFrame(k)
      BY <3>1, HeldFrame DEF TaskHasFrame
    <3>3. frameRefs[k][d] \in Nat /\ frameRefs[k][d] > 0
      <4>1. frameRefs[k][d] = FrameOwners(k, d)
        BY <3>2 DEF LifecycleInv, RefsCountOwners
      <4> QED BY <3>2, <4>1 DEF FrameOwners, Bit
    <3>4. \A i \in 1 .. MediaBound[k] :
            frameRefs'[k][i] = IF i = d THEN frameRefs[k][d] + 1 ELSE frameRefs[k][i]
      BY <1>0, <3>1, <3>2 DEF CountTypes
    <3> HIDE DEF d
    <3>5. LiveFrames(k)' = LiveFrames(k)
      BY <3>3, <3>4 DEF LiveFrames
    <3>6. TaskHasDecoder(k)' = TaskHasDecoder(k)
      BY <3>1 DEF TaskHasDecoder, TaskHasFrame
    <3> QED BY <1>1, <3>1, <3>5, <3>6, DecoderOwnersSame
  <2>5. ASSUME TaskReleasesFrame(k) \/ Render(k) PROVE refs'[k] = DecoderOwners(k)'
    <3>1. \E i \in 1 .. MediaBound[k] : FrameReleased(k, i) /\ frameRefs[k][i] > 0
      <4>1. CASE TaskReleasesFrame(k)
        <5>1. TaskHasFrame(k) /\ decoded[k] \in 1 .. MediaBound[k]
          BY <4>1, HeldFrame DEF TaskReleasesFrame, TaskHasFrame
        <5>2. frameRefs[k][decoded[k]] = FrameOwners(k, decoded[k])
          BY <5>1 DEF LifecycleInv, RefsCountOwners
        <5>3. FrameOwners(k, decoded[k]) > 0
          BY <5>1 DEF FrameOwners, Bit
        <5> QED BY <4>1, <5>1, <5>2, <5>3 DEF TaskReleasesFrame
      <4>2. CASE Render(k)
        <5>1. shown[k] \in 1 .. MediaBound[k]
          BY <4>2, HeldFrame DEF Render
        <5>2. frameRefs[k][shown[k]] = FrameOwners(k, shown[k])
          BY <5>1 DEF LifecycleInv, RefsCountOwners
        <5>3. FrameOwners(k, shown[k]) > 0
          BY <5>1 DEF FrameOwners, Bit
        <5> QED BY <4>2, <5>1, <5>2, <5>3 DEF Render
      <4> QED BY <2>5, <4>1, <4>2
    <3>2. PICK i \in 1 .. MediaBound[k] : FrameReleased(k, i) /\ frameRefs[k][i] > 0
      BY <3>1
    <3>3. Cardinality(LiveFrames(k))' = Cardinality(LiveFrames(k)) - Bit(frameRefs[k][i] = 1)
      BY <3>2, LiveReleased
    <3>4. refs'[k] = refs[k] - Bit(k = "video" /\ frameRefs[k][i] = 1)
      <4>1. /\ refs'["audio"] = refs["audio"]
            /\ refs'["video"] = refs["video"] - Bit(k = "video" /\ frameRefs[k][i] = 1)
        BY <1>0, <3>2, ReleasedCounts
      <4> QED BY <1>0, <4>1 DEF Kind, Bit
    <3>5. TaskHasDecoder(k)' = TaskHasDecoder(k)
      BY <1>0, <2>5 DEF TaskReleasesFrame, Render, TaskGoto, Set, TaskHasDecoder, TaskHasFrame,
         threadVars
    <3> QED BY <1>0, <1>1, <1>2, <3>3, <3>4, <3>5 DEF DecoderOwners, Bit
  <2>6. CASE /\ ~(Fetch(k) /\ "decoder" \in members[k]) /\ ~TaskReleasesDecoder(k)
             /\ ~(Decode(k) /\ task'[k] = "output") /\ ~Push(k)
             /\ ~TaskReleasesFrame(k) /\ ~Render(k)
    <3>1. refs'[k] = refs[k]
      BY <1>0, <1>3, <1>5, <2>6 DEF Network, Packet, Parsed, NetworkEnds, Task, MediaFrame,
         Fetch, Decode, Output, TaskEnds, Renderer, Test, GetFrame, Kind, TaskGoto, Set
    <3>2. frameRefs' = frameRefs
      BY <1>0, <1>5, <2>6, SyncKeepsFrames DEF Network, Packet, Parsed, NetworkEnds, Task,
         MediaFrame, Fetch, Decode, Output, TaskEnds, Renderer, Test, GetFrame, TaskGoto, Set,
         frameVars
    <3>3. TaskHasDecoder(k)' = TaskHasDecoder(k)
      <4>1. CASE Task(k)
        BY <1>0, <2>6, <4>1 DEF Task, MediaFrame, Fetch, Decode, Output, TaskReleasesSync,
           TaskEnds, TaskGoto, Set, TaskHasDecoder, TaskHasFrame
      <4>2. CASE Network(k) \/ Renderer(k)
        BY <2>6, <4>2 DEF Network, Packet, Parsed, NetworkEnds, Renderer, Test, GetFrame,
           threadVars, TaskHasDecoder, TaskHasFrame
      <4> QED BY <1>5, <4>1, <4>2
    <3> QED BY <1>1, <3>1, <3>2, <3>3, DecoderOwnersSame DEF LiveFrames
  <2> QED BY <2>1, <2>2, <2>3, <2>4, <2>5, <2>6
<1> QED BY <1>4, <1>5

LEMMA RefsCountOwnersStep == LifecycleInv /\ [Next]_vars => RefsCountOwners'
<1> SUFFICES ASSUME LifecycleInv, [Next]_vars PROVE RefsCountOwners'
  OBVIOUS
<1>1. ASSUME NEW k \in Kind PROVE refs'[k] = DecoderOwners(k)'
  <2>1. CASE UNCHANGED vars
    <3>1. LiveFrames(k)' = LiveFrames(k) /\ TaskHasDecoder(k)' = TaskHasDecoder(k)
      BY <2>1 DEF vars, frameVars, threadVars, LiveFrames, TaskHasDecoder, TaskHasFrame
    <3> QED BY <2>1, <3>1, DecoderOwnersSame DEF vars, uiVars, playerVars
  <2> QED BY <2>1, UiDecoderCount, ThreadDecoderCount DEF Next
<1> QED BY <1>1, SyncCountStep, FrameCountStep DEF RefsCountOwners

-----------------------------------------------------------------------------
(* The invariant.                                                          *)
LEMMA InitLifecycleInv == Init => LifecycleInv
<1> SUFFICES ASSUME Init PROVE LifecycleInv
  OBVIOUS
<1> USE DEF Init, Kind
<1>1. UiTypes /\ ThreadTypes /\ LockInv /\ ClockInv
  BY DEF UiTypes, ThreadTypes, LockInv, ClockInv, UiPc, NetPc, TaskPc, OutPc, BuildPc, TearPc,
     Removing
<1>2. MemberInv /\ StreamInv /\ RendererInv /\ FreshInv
  BY DEF MemberInv, StreamInv, RendererInv, FreshInv, Busy, BuildPc, TearPc
<1>3. FrameTypes
  BY DEF FrameTypes
<1>4. QueueInv
  <2>1. \A k \in Kind : MediaBound[k] \in Nat
    BY MediaAssumption
  <2> QED BY <2>1 DEF QueueInv, Counted, Sorted, Decoding, Bit, TaskHasFrame, At
<1>5. CountTypes
  BY DEF CountTypes
<1>6. RefsCountOwners
  <2>1. ASSUME NEW k \in Kind, NEW i \in 1 .. MediaBound[k]
        PROVE  frameRefs[k][i] = FrameOwners(k, i)
    BY <2>1 DEF FrameOwners, Queued, TaskHasFrame, Bit
  <2>2. \A k \in Kind : LiveFrames(k) = {} /\ Cardinality(LiveFrames(k)) = 0
    <3>1. \A k \in Kind : LiveFrames(k) = {}
      BY DEF LiveFrames
    <3> QED BY <3>1, FS_EmptySet
  <2>3. \A k \in Kind : refs[k] = DecoderOwners(k)
    BY <2>2 DEF DecoderOwners, TaskHasDecoder, TaskHasFrame, Bit
  <2>4. refs["sync"] = SyncOwners
    BY DEF SyncOwners, TaskHasSync, Bit, At
  <2> QED BY <2>1, <2>3, <2>4 DEF RefsCountOwners
<1> QED BY <1>1, <1>2, <1>3, <1>4, <1>5, <1>6 DEF LifecycleInv, PlayerInv

LEMMA LifecycleInvariant == Spec => []LifecycleInv
<1>1. LifecycleInv /\ [Next]_vars => LifecycleInv'
  <2> SUFFICES ASSUME LifecycleInv, [Next]_vars PROVE LifecycleInv'
    OBVIOUS
  <2>1. UiTypes' /\ LockInv' /\ MemberInv' /\ ThreadTypes'
    BY UiTypesStep, LockStep, MemberStep, ThreadTypesStep DEF LifecycleInv, PlayerInv
  <2>2. StreamInv' /\ RendererInv' /\ ClockInv'
    BY StreamStep, RendererStep, ClockStep DEF LifecycleInv, PlayerInv
  <2>3. FrameTypes' /\ FreshInv'
    BY FrameTypesStep, FreshStep DEF LifecycleInv, PlayerInv
  <2> QED BY <2>1, <2>2, <2>3, QueueStep, CountTypesStep, RefsCountOwnersStep
          DEF LifecycleInv, PlayerInv
<1> QED BY <1>1, InitLifecycleInv, PTL DEF Spec

-----------------------------------------------------------------------------
LEMMA OwnersTypes ==
  ASSUME LifecycleInv, NEW k \in Kind
  PROVE  DecoderOwners(k) \in Nat /\ SyncOwners \in Nat
  BY LiveFinite DEF DecoderOwners, SyncOwners, Bit

LEMMA TypesHold == LifecycleInv => TypeOK
<1> SUFFICES ASSUME LifecycleInv PROVE TypeOK
  OBVIOUS
<1>1. refs \in [sync : Nat, video : Nat, audio : Nat]
  <2>1. refs \in [sync : Int, video : Int, audio : Int]
    BY DEF LifecycleInv, CountTypes
  <2>2. refs["sync"] \in Nat /\ refs["video"] \in Nat /\ refs["audio"] \in Nat
    BY OwnersTypes DEF LifecycleInv, RefsCountOwners, Kind
  <2> QED BY <2>1, <2>2
<1>2. ASSUME NEW k \in Kind PROVE frameRefs[k] \in [1 .. MediaBound[k] -> Nat]
  <2>1. \A i \in 1 .. MediaBound[k] : frameRefs[k][i] \in Nat
    BY FrameOwnersType DEF LifecycleInv, RefsCountOwners
  <2> QED BY <2>1 DEF LifecycleInv, CountTypes
<1>3. DOMAIN frameRefs = Kind
  BY DEF LifecycleInv, CountTypes
<1> QED BY <1>1, <1>2, <1>3 DEF LifecycleInv, PlayerInv, UiTypes, ThreadTypes, FrameTypes, TypeOK

(* Types: above all, no reference count becomes negative, however clear    *)
(* and the three threads of a player share what they release.              *)
THEOREM TypeCorrect == Spec => []TypeOK
  BY TypesHold, LifecycleInvariant, PTL

(* The reference counts of AVSync, of the decoders and of every frame are  *)
(* the numbers of those who hold them, between any two steps of the user   *)
(* interface, the polling thread and the threads of both streams           *)
(* (add_ref, release; build, clear, on_media_frame, ~AVFrame, ~AVSync).    *)
THEOREM CountsAreOwners == Spec => []RefsCountOwners
<1>1. LifecycleInv => RefsCountOwners
  BY DEF LifecycleInv
<1> QED BY <1>1, LifecycleInvariant, PTL

(* The codec outlives every image (VideoDecoder.cc:49): clear may release  *)
(* the decoder at any time, images wait in AVSync or are on the screen.    *)
THEOREM ContextKept == Spec => []ContextOutlivesFrames
<1>1. LifecycleInv => ContextOutlivesFrames
  <2> SUFFICES ASSUME LifecycleInv, LiveFrames("video") # {} PROVE refs["video"] > 0
    BY DEF ContextOutlivesFrames
  <2>1. "video" \in Kind
    BY DEF Kind
  <2>2. Cardinality(LiveFrames("video")) # 0 /\ Cardinality(LiveFrames("video")) \in Nat
    BY <2>1, LiveFinite, FS_EmptySet
  <2>3. refs["video"] = DecoderOwners("video")
    BY <2>1 DEF LifecycleInv, RefsCountOwners
  <2> QED BY <2>2, <2>3 DEF DecoderOwners, Bit
<1> QED BY <1>1, LifecycleInvariant, PTL

(* No thread uses an object that is gone: the network and task threads     *)
(* their stream, the task its player and decoder, the renderer thread      *)
(* itself and AVSync, the polling thread what it found under the locks     *)
(* (BasePlayer::clear, RtpPlayer::remove_video, remove_audio, tear).       *)
THEOREM UsedObjectsExist == Spec => []InUseExists
<1>1. LifecycleInv => InUseExists
  <2> SUFFICES ASSUME LifecycleInv PROVE InUseExists
    OBVIOUS
  <2>0. PlayerInv
    BY DEF LifecycleInv
  <2>1. ASSUME NEW k \in Kind
        PROVE  /\ net[k] # "off" => stream[k] # "none"
               /\ task[k] # "off" => stream[k] # "none" /\ alive[k]
               /\ out[k] # "off" => renderer[k]
    BY <2>0, NotAlive DEF PlayerInv, StreamInv, RendererInv
  <2>2. ASSUME NEW k \in Kind, task[k] = "decode" PROVE refs[k] > 0
    <3>1. refs[k] = DecoderOwners(k) /\ TaskHasDecoder(k)
      BY <2>2 DEF LifecycleInv, RefsCountOwners, TaskHasDecoder
    <3> QED BY <3>1, LiveFinite DEF DecoderOwners, Bit
  <2>3. ASSUME NEW k \in Kind, out[k] # "off" PROVE refs["sync"] > 0
    <3>1. ~At("gone")
      BY <2>0, <2>3, NobodyLeft, NotAlive DEF At
    <3> QED BY <3>1 DEF LifecycleInv, RefsCountOwners, SyncOwners, Bit
  <2>4. ASSUME poll \in Kind
        PROVE  /\ alive[poll]
               /\ "stream" \in members[poll] => stream[poll] = "open"
               /\ "renderer" \in members[poll] => renderer[poll]
    BY <2>0, <2>4 DEF PlayerInv, LockInv, MemberInv, StreamInv, RendererInv
  <2> QED BY <2>1, <2>2, <2>3, <2>4 DEF InUseExists
<1> QED BY <1>1, LifecycleInvariant, PTL

(* The audio renderer that is the clock lives as long as a video renderer  *)
(* may read it: RtpPlayer::tear removes video first, and a play that fails *)
(* has not made its renderer the clock.                                    *)
THEOREM ClockKept == Spec => []ClockExists
<1>1. LifecycleInv => ClockExists
  <2> SUFFICES ASSUME LifecycleInv, clock = "audio", out["video"] # "off"
               PROVE  renderer["audio"]
    BY DEF ClockExists
  <2>0. PlayerInv /\ "video" \in Kind /\ "audio" \in Kind
    BY DEF LifecycleInv, Kind
  <2>1. CASE player["audio"] /\ ~Busy("audio")
    BY <2>0, <2>1 DEF PlayerInv, MemberInv, RendererInv, Member
  <2>2. CASE Removing /\ ui.kind = "audio"
    <3>1. ~player["video"] /\ ~Busy("video")
      BY <2>0, <2>2 DEF PlayerInv, LockInv, Busy
    <3>2. ~alive["video"]
      BY <2>0, <3>1 DEF PlayerInv, MemberInv
    <3> QED BY <2>0, <3>2, NotAlive
  <2> QED BY <2>0, <2>1, <2>2 DEF PlayerInv, ClockInv
<1> QED BY <1>1, LifecycleInvariant, PTL

(* A play that fails at any step of build, and the destructor, leave no    *)
(* thread, no object and no frame behind.                                  *)
THEOREM NothingStays == Spec => []NothingLeft
<1>1. LifecycleInv => NothingLeft
  <2> SUFFICES ASSUME LifecycleInv PROVE NothingLeft
    OBVIOUS
  <2>0. PlayerInv
    BY DEF LifecycleInv
  <2>1. ASSUME NEW k \in Kind, ~alive[k], local = {}, queue[k] = <<>> \/ decoded[k] = 0
        PROVE  Nothing(k)
    <3>1. /\ members[k] = {} /\ stream[k] = "none" /\ ~renderer[k]
          /\ net[k] = "off" /\ task[k] = "off" /\ out[k] = "off"
      BY <2>0, <2>1, NotAlive
    <3>2. LiveFrames(k) = {} /\ Cardinality(LiveFrames(k)) = 0
      BY <2>1, <3>1, NoFrames DEF TaskHasFrame
    <3>3. refs[k] = DecoderOwners(k)
      BY DEF LifecycleInv, RefsCountOwners
    <3>4. refs[k] = 0
      BY <2>1, <3>1, <3>2, <3>3 DEF DecoderOwners, TaskHasDecoder, TaskHasFrame, Bit
    <3> QED BY <2>1, <3>1, <3>2, <3>4 DEF Nothing
  <2>2. ASSUME At("ready"), NEW k \in Kind, ~player[k] PROVE Nothing(k)
    <3>1. local = {} /\ ~Busy(k) /\ ~Removing
      BY <2>0, <2>2 DEF At, PlayerInv, LockInv, MemberInv, Busy, Removing, BuildPc, TearPc
    <3>2. ~alive[k] /\ decoded[k] = 0
      BY <2>0, <2>2, <3>1 DEF PlayerInv, MemberInv, FreshInv
    <3> QED BY <2>1, <3>1, <3>2
  <2>3. ASSUME At("gone") PROVE refs["sync"] = 0 /\ \A k \in Kind : Nothing(k)
    <3>1. local = {} /\ \A k \in Kind : ~alive[k] /\ queue[k] = <<>>
      BY <2>0, <2>3, NobodyLeft DEF At, LifecycleInv, QueueInv
    <3>2. \A k \in Kind : members[k] = {} /\ task[k] = "off"
      BY <2>0, <3>1, NotAlive
    <3>3. refs["sync"] = 0
      BY <2>3, <3>1, <3>2 DEF LifecycleInv, RefsCountOwners, SyncOwners, TaskHasSync, Bit, Kind
    <3> QED BY <2>1, <3>1, <3>3
  <2> QED BY <2>2, <2>3 DEF NothingLeft
<1> QED BY <1>1, LifecycleInvariant, PTL
=============================================================================
