-------------------------- MODULE PlayerLifecycle ---------------------------
(***************************************************************************)
(* How RtpPlayer builds and tears down a video and an audio player while   *)
(* the threads of their streams run: the objects, who holds a reference on *)
(* them, and the order in which BasePlayer::clear joins threads and        *)
(* releases objects.  The user interface thread calls play_video,          *)
(* play_audio and the destructor, another thread polls video_info and      *)
(* audio_info; each player has a network thread (RtpClient::Svc), a task   *)
(* thread (RtpStream::m_task, which decodes) and a renderer thread         *)
(* (AVOutBase::Svc).  What is in a frame does not matter here: frame i of  *)
(* a stream is the i-th that its decoder delivers.                         *)
(***************************************************************************)
EXTENDS Integers, Sequences, FiniteSets

CONSTANTS
  MediaBound,  \* bound: media frames that each stream receives
  MediaTotal   \* bound: media frames that both receive

Kind == {"video", "audio"}

ASSUME MediaAssumption == MediaBound \in [Kind -> Nat] /\ MediaTotal \in Nat

Member == {"stream", "decoder", "renderer", "sync"}

VARIABLES
  ui,           \* where the user interface thread is: [pc, kind]
  poll,         \* the polling thread: "out", "in" RtpPlayer, or in a player
  lock,         \* who holds RtpPlayer::m_lock
  playerLock,   \* who holds BasePlayer::m_lock beyond one step
  player,       \* m_video_player, m_audio_player are set
  alive,        \* the VideoPlayer, AudioPlayer exists
  members,      \* its members m_stream, ... that are not NULL
  local,        \* what clear has moved to its locals and not released yet
  stream,       \* "none", "open", or "closing" in its destructor
  renderer,     \* the VideoOut, AudioOut exists
  refs,         \* reference counts of AVSync and of the decoders
  frameRefs,    \* reference counts of the AVFrames
  clock,        \* AVSync::m_clock
  net, task, out,          \* the threads of a stream
  exit,         \* those whose loop has been told to end
  sent, queued, \* media frames received, and waiting in m_task
  decoded,      \* frames decoded, the last one in the hands of the task
  queue,        \* the frames in AVSync
  shown,        \* the frame in the hands of the renderer, 0 if none
  crashed       \* undefined behaviour has ended the program: "no" or why

uiVars     == <<ui, local>>
playerVars == <<player, alive, members, lock, playerLock>>
streamVars == <<stream, net, sent, queued>>
frameVars  == <<frameRefs, queue, decoded, shown>>
threadVars == <<task, out, exit>>
vars == <<uiVars, playerVars, streamVars, frameVars, threadVars, poll,
          renderer, refs, clock, crashed>>

Init ==
  /\ ui = [pc |-> "ready", kind |-> "video"] /\ local = {}
  /\ poll = "out" /\ lock = "none"
  /\ playerLock = [k \in Kind |-> "none"]
  /\ player = [k \in Kind |-> FALSE] /\ alive = [k \in Kind |-> FALSE]
  /\ members = [k \in Kind |-> {}]
  /\ stream = [k \in Kind |-> "none"] /\ renderer = [k \in Kind |-> FALSE]
  /\ refs = [sync |-> 1, video |-> 0, audio |-> 0]
  /\ frameRefs = [k \in Kind |-> [i \in 1 .. MediaBound[k] |-> 0]]
  /\ clock = "avtimer"
  /\ net = [k \in Kind |-> "off"] /\ task = net /\ out = net
  /\ exit = {}
  /\ sent = [k \in Kind |-> 0] /\ queued = sent /\ decoded = sent /\ shown = sent
  /\ queue = [k \in Kind |-> <<>>]
  /\ crashed = "no"

At(pc) == ui.pc = pc
Goto(pc) == ui' = [ui EXCEPT !.pc = pc]
Set(f, k, v) == [f EXCEPT ![k] = v]
Add(k, m) == members' = [members EXCEPT ![k] = @ \cup {m}]

-----------------------------------------------------------------------------
(* Reference counts.  The last release of a video frame also releases its  *)
(* decoder (~AVFrame), the last one of AVSync the frames in it (~AVSync).  *)
FrameReleased(k, i) ==
  /\ frameRefs' = [frameRefs EXCEPT ![k][i] = @ - 1]
  /\ refs' = [refs EXCEPT !["video"] =
                IF k = "video" /\ frameRefs[k][i] = 1 THEN @ - 1 ELSE @]

Queued(k) == {queue[k][j] : j \in 1 .. Len(queue[k])}

SyncReleased ==
  \/ /\ refs["sync"] > 1
     /\ refs' = [refs EXCEPT !["sync"] = @ - 1]
     /\ UNCHANGED <<frameRefs, queue>>
  \/ /\ refs["sync"] = 1
     /\ refs' = [refs EXCEPT !["sync"] = 0, !["video"] =
                   @ - Cardinality({i \in Queued("video") : frameRefs["video"][i] = 1})]
     /\ frameRefs' = [k \in Kind |-> [i \in 1 .. MediaBound[k] |->
                        frameRefs[k][i] - IF i \in Queued(k) THEN 1 ELSE 0]]
     /\ queue' = [k \in Kind |-> <<>>]

DecoderReleased(k) == refs' = [refs EXCEPT ![k] = @ - 1]

-----------------------------------------------------------------------------
(* play_video, play_audio: the locks are held until build has succeeded or *)
(* left its guarded scope for tear.                                        *)
Play(k) ==
  /\ At("ready") /\ lock = "none" /\ ~player[k]
  /\ ui' = [pc |-> "renderer", kind |-> k]
  /\ lock' = "ui" /\ playerLock' = Set(playerLock, k, "ui")
  /\ player' = Set(player, k, TRUE) /\ alive' = Set(alive, k, TRUE)
  /\ UNCHANGED <<members, local, streamVars, frameVars, threadVars, poll,
                 renderer, refs, clock, crashed>>

(* A step of build fails. *)
Fail(k) == Goto("clear") /\ playerLock' = Set(playerLock, k, "none")

BuildRenderer ==
  /\ At("renderer")
  /\ LET k == ui.kind
     IN \/ /\ Fail(k)
           /\ UNCHANGED <<members, renderer, out>>
        \/ /\ Goto("decoder")
           /\ Add(k, "renderer")
           /\ renderer' = Set(renderer, k, TRUE) /\ out' = Set(out, k, "test")
           /\ UNCHANGED playerLock
  /\ UNCHANGED <<lock, player, alive, local, streamVars, frameVars, task, exit,
                 poll, refs, clock, crashed>>

(* The decoder may fail to be created, or created to be built. *)
BuildDecoder ==
  /\ At("decoder")
  /\ LET k == ui.kind
     IN \/ Fail(k) /\ UNCHANGED <<members, refs>>
        \/ /\ Add(k, "decoder") /\ refs' = Set(refs, k, 1)
           /\ \/ Fail(k)
              \/ Goto("stream") /\ UNCHANGED playerLock
  /\ UNCHANGED <<lock, player, alive, local, streamVars, frameVars, threadVars,
                 poll, renderer, clock, crashed>>

(* The stream may fail to be created or to get its client.  When the       *)
(* socket cannot be bound, build goes on without on_client_opened, so the  *)
(* task does not start and nothing is received.                            *)
BuildStream ==
  /\ At("stream")
  /\ LET k == ui.kind
     IN \/ Fail(k) /\ UNCHANGED <<members, stream, net, task>>
        \/ /\ Add(k, "stream") /\ stream' = Set(stream, k, "open")
           /\ \/ Fail(k) /\ UNCHANGED <<net, task>>
              \/ /\ Goto("built")
                 /\ \/ net' = Set(net, k, "wait") /\ task' = Set(task, k, "wait")
                    \/ net' = Set(net, k, "unbound") /\ UNCHANGED task
                 /\ UNCHANGED playerLock
  /\ UNCHANGED <<lock, player, alive, local, sent, queued, frameVars, out, exit,
                 poll, renderer, refs, clock, crashed>>

(* build and play return; audio becomes the clock. *)
Built ==
  /\ At("built")
  /\ Goto("ready")
  /\ Add(ui.kind, "sync") /\ refs' = [refs EXCEPT !["sync"] = @ + 1]
  /\ clock' = IF ui.kind = "audio" THEN "audio" ELSE clock
  /\ lock' = "none" /\ playerLock' = Set(playerLock, ui.kind, "none")
  /\ UNCHANGED <<player, alive, local, streamVars, frameVars, threadVars, poll,
                 renderer, crashed>>

-----------------------------------------------------------------------------
(* Mutant: clear keeps the lock until the player is gone. *)
ClearLocked ==
  /\ At("clear") /\ playerLock[ui.kind] = "none"
  /\ local' = members[ui.kind]
  /\ members' = Set(members, ui.kind, {})
  /\ playerLock' = Set(playerLock, ui.kind, "ui")
  /\ Goto("releaseStream")
  /\ UNCHANGED <<lock, player, alive, streamVars, frameVars,
                 threadVars, poll, renderer, refs, clock, crashed>>

(* BasePlayer::clear takes the members under the lock ...                  *)
Clear ==
  /\ At("clear") /\ playerLock[ui.kind] = "none"
  /\ local' = members[ui.kind]
  /\ members' = Set(members, ui.kind, {})
  /\ Goto("releaseStream")
  /\ UNCHANGED <<lock, playerLock, player, alive, streamVars, frameVars,
                 threadVars, poll, renderer, refs, clock, crashed>>

(* ... and releases them outside: the destructor of the stream ends its    *)
(* client's thread, and the client closed ends the task.                   *)
ReleaseStream ==
  /\ At("releaseStream")
  /\ \/ "stream" \notin local /\ Goto("releaseDecoder") /\ UNCHANGED stream
     \/ "stream" \in local /\ Goto("stopClient")
        /\ stream' = Set(stream, ui.kind, "closing")
  /\ local' = local \ {"stream"}
  /\ UNCHANGED <<playerVars, net, sent, queued, frameVars, threadVars,
                 poll, renderer, refs, clock, crashed>>

StopClient ==
  /\ At("stopClient")
  /\ exit' = exit \cup {<<"net", ui.kind>>}
  /\ Goto("joinClient")
  /\ UNCHANGED <<local, playerVars, streamVars, frameVars, task, out, poll,
                 renderer, refs, clock, crashed>>

JoinClient ==
  /\ At("joinClient") /\ net[ui.kind] = "off"
  /\ exit' = exit \cup {<<"task", ui.kind>>}
  /\ Goto("joinTask")
  /\ UNCHANGED <<local, playerVars, streamVars, frameVars, task, out, poll,
                 renderer, refs, clock, crashed>>

JoinTask ==
  /\ At("joinTask") /\ task[ui.kind] = "off"
  /\ stream' = Set(stream, ui.kind, "none")
  /\ Goto("releaseDecoder")
  /\ UNCHANGED <<local, playerVars, net, sent, queued, frameVars, threadVars,
                 poll, renderer, refs, clock, crashed>>

(* Mutant: the player keeps its reference. *)
ReleaseDecoderForgotten ==
  /\ At("releaseDecoder")
  /\ local' = local \ {"decoder"}
  /\ Goto("stopRenderer")
  /\ UNCHANGED <<playerVars, streamVars, frameVars, threadVars, poll,
                 renderer, refs, clock, crashed>>

ReleaseDecoder ==
  /\ At("releaseDecoder")
  /\ IF "decoder" \in local THEN DecoderReleased(ui.kind) ELSE UNCHANGED refs
  /\ local' = local \ {"decoder"}
  /\ Goto("stopRenderer")
  /\ UNCHANGED <<playerVars, streamVars, frameVars, threadVars, poll,
                 renderer, clock, crashed>>

StopRenderer ==
  /\ At("stopRenderer")
  /\ exit' = IF "renderer" \in local THEN exit \cup {<<"out", ui.kind>>} ELSE exit
  /\ local' = local \ {"renderer"}
  /\ Goto("joinRenderer")
  /\ UNCHANGED <<playerVars, streamVars, frameVars, task, out, poll,
                 renderer, refs, clock, crashed>>

(* Mutant: stop does not wait for the thread. *)
JoinRendererNot ==
  /\ At("joinRenderer")
  /\ renderer' = Set(renderer, ui.kind, FALSE)
  /\ Goto("releaseSync")
  /\ UNCHANGED <<local, playerVars, streamVars, frameVars, threadVars, poll,
                 refs, clock, crashed>>

JoinRenderer ==
  /\ At("joinRenderer") /\ out[ui.kind] = "off"
  /\ renderer' = Set(renderer, ui.kind, FALSE)
  /\ Goto("releaseSync")
  /\ UNCHANGED <<local, playerVars, streamVars, frameVars, threadVars, poll,
                 refs, clock, crashed>>

ReleaseSync ==
  /\ At("releaseSync")
  /\ IF "sync" \in local THEN SyncReleased ELSE UNCHANGED <<refs, frameRefs, queue>>
  /\ local' = {}
  /\ Goto("deletePlayer")
  /\ UNCHANGED <<playerVars, streamVars, decoded, shown, threadVars, poll,
                 renderer, clock, crashed>>

(* Mutant: the destructor removes audio first. *)
RemovalReversed == <<"audio", "video">>

(* The order in which the destructor removes the players. *)
Removal == <<"video", "audio">>

AfterRemoval(k) == IF k = Removal[1] THEN [pc |-> "remove", kind |-> Removal[2]]
                   ELSE [pc |-> "takeSync", kind |-> k]

(* After a failed play under its lock, after remove_video and remove_audio *)
(* in the destructor; the threads of the player have ended.                *)
DeletePlayer ==
  /\ At("deletePlayer")
  /\ alive' = Set(alive, ui.kind, FALSE)
  /\ exit' = exit \ {<<t, ui.kind>> : t \in {"net", "task", "out"}}
  /\ \/ /\ lock = "ui"
        /\ Goto("ready")
        /\ lock' = "none" /\ player' = Set(player, ui.kind, FALSE)
     \/ /\ lock # "ui"
        /\ ui' = AfterRemoval(ui.kind)
        /\ UNCHANGED <<lock, player>>
  /\ UNCHANGED <<local, playerLock, members, streamVars, frameVars, task, out,
                 poll, renderer, refs, clock, crashed>>

(* ~RtpPlayer: remove_video, remove_audio, and the last reference.         *)
Destroy ==
  /\ At("ready")
  /\ ui' = [pc |-> "remove", kind |-> Removal[1]]
  /\ UNCHANGED <<local, playerVars, streamVars, frameVars, threadVars, poll,
                 renderer, refs, clock, crashed>>

Remove ==
  /\ At("remove") /\ lock = "none"
  /\ player' = Set(player, ui.kind, FALSE)
  /\ ui' = IF player[ui.kind] THEN [ui EXCEPT !.pc = "clear"]
           ELSE AfterRemoval(ui.kind)
  /\ UNCHANGED <<local, alive, members, lock, playerLock, streamVars, frameVars,
                 threadVars, poll, renderer, refs, clock, crashed>>

TakeSync ==
  /\ At("takeSync") /\ lock = "none"
  /\ SyncReleased
  /\ Goto("gone")
  /\ UNCHANGED <<local, playerVars, streamVars, decoded, shown, threadVars,
                 poll, renderer, clock, crashed>>

-----------------------------------------------------------------------------
(* The network thread hands packets to its stream until it is told to end. *)
(* A stream in its destructor has no on_rtp_packet left, and the video     *)
(* stream no depacketizer: what happens then is undefined.                 *)
Packet(k) ==
  /\ net[k] = "wait" /\ <<"net", k>> \notin exit
  /\ \/ /\ stream[k] = "open" \/ k = "video"
        /\ net' = Set(net, k, "parse")
        /\ UNCHANGED crashed
     \/ /\ stream[k] = "closing"
        /\ crashed' = "stream"
        /\ UNCHANGED net
  /\ UNCHANGED <<uiVars, playerVars, stream, sent, queued, frameVars,
                 threadVars, poll, renderer, refs, clock>>

Parsed(k) ==
  /\ net[k] = "parse"
  /\ net' = Set(net, k, "wait")
  /\ \/ UNCHANGED <<sent, queued>>
     \/ /\ sent[k] < MediaBound[k] /\ sent["video"] + sent["audio"] < MediaTotal
        /\ sent' = [sent EXCEPT ![k] = @ + 1]
        /\ queued' = [queued EXCEPT ![k] = @ + 1]
  /\ crashed' \in {"no"} \cup (IF k = "video" /\ stream[k] = "closing" THEN {"stream"} ELSE {})
  /\ UNCHANGED <<uiVars, playerVars, stream, frameVars, threadVars, poll,
                 renderer, refs, clock>>

NetworkEnds(k) ==
  /\ net[k] \in {"wait", "unbound"} /\ <<"net", k>> \in exit
  /\ net' = Set(net, k, "off")
  /\ UNCHANGED <<uiVars, playerVars, stream, sent, queued, frameVars,
                 threadVars, poll, renderer, refs, clock, crashed>>

-----------------------------------------------------------------------------
(* The task: BasePlayer::on_media_frame.                                   *)
TaskGoto(k, pc) == task' = Set(task, k, pc)

MediaFrame(k) ==
  /\ task[k] = "wait" /\ queued[k] > 0
  /\ queued' = [queued EXCEPT ![k] = @ - 1]
  /\ TaskGoto(k, "fetch")
  /\ UNCHANGED <<uiVars, playerVars, stream, net, sent, frameVars, out, exit,
                 poll, renderer, refs, clock, crashed>>

(* Mutant: the decoder is used without a reference. *)
FetchUncounted(k) ==
  /\ task[k] = "fetch" /\ playerLock[k] = "none"
  /\ TaskGoto(k, IF "decoder" \in members[k] THEN "decode" ELSE "wait")
  /\ UNCHANGED <<uiVars, playerVars, streamVars, frameVars, out, exit, poll,
                 renderer, refs, clock, crashed>>

Fetch(k) ==
  /\ task[k] = "fetch" /\ playerLock[k] = "none"
  /\ \/ /\ "decoder" \in members[k]
        /\ refs' = [refs EXCEPT ![k] = @ + 1]
        /\ TaskGoto(k, "decode")
     \/ "decoder" \notin members[k] /\ TaskGoto(k, "wait") /\ UNCHANGED refs
  /\ UNCHANGED <<uiVars, playerVars, streamVars, frameVars, out, exit, poll,
                 renderer, clock, crashed>>

(* Mutant: a video frame holds no reference on its decoder. *)
HoldsNothing(k) == UNCHANGED refs

HoldsDecoder(k) ==
  refs' = [refs EXCEPT !["video"] = IF k = "video" THEN @ + 1 ELSE @]

(* A media frame gives a valid frame or none. *)
Decode(k) ==
  /\ task[k] = "decode"
  /\ \/ TaskGoto(k, "releaseDecoder") /\ UNCHANGED <<decoded, frameRefs, refs>>
     \/ /\ decoded' = [decoded EXCEPT ![k] = @ + 1]
        /\ frameRefs' = [frameRefs EXCEPT ![k][decoded[k] + 1] = 1]
        /\ HoldsDecoder(k)
        /\ TaskGoto(k, "output")
  /\ UNCHANGED <<uiVars, playerVars, streamVars, queue, shown, out, exit, poll,
                 renderer, clock, crashed>>

(* on_decoded_image, on_decoded_pcm: with the first frame, m_av_sync is    *)
(* used before it is tested.                                               *)
Output(k) ==
  /\ task[k] = "output" /\ playerLock[k] = "none"
  /\ \/ /\ "sync" \in members[k]
        /\ refs' = [refs EXCEPT !["sync"] = @ + 1]
        /\ TaskGoto(k, "push")
        /\ UNCHANGED crashed
     \/ /\ "sync" \notin members[k]
        /\ crashed' = IF decoded[k] = 1 THEN "sync" ELSE "no"
        /\ TaskGoto(k, "releaseFrame")
        /\ UNCHANGED refs
  /\ UNCHANGED <<uiVars, playerVars, streamVars, frameVars, out, exit, poll,
                 renderer, clock>>

Push(k) ==
  /\ task[k] = "push"
  /\ frameRefs' = [frameRefs EXCEPT ![k][decoded[k]] = @ + 1]
  /\ queue' = [queue EXCEPT ![k] = Append(@, decoded[k])]
  /\ TaskGoto(k, "releaseSync")
  /\ UNCHANGED <<uiVars, playerVars, streamVars, decoded, shown, out, exit,
                 poll, renderer, refs, clock, crashed>>

TaskReleasesSync(k) ==
  /\ task[k] = "releaseSync"
  /\ SyncReleased
  /\ TaskGoto(k, "releaseFrame")
  /\ UNCHANGED <<uiVars, playerVars, streamVars, decoded, shown, out, exit,
                 poll, renderer, clock, crashed>>

TaskReleasesFrame(k) ==
  /\ task[k] = "releaseFrame"
  /\ FrameReleased(k, decoded[k])
  /\ TaskGoto(k, "releaseDecoder")
  /\ UNCHANGED <<uiVars, playerVars, streamVars, queue, decoded, shown, out,
                 exit, poll, renderer, clock, crashed>>

TaskReleasesDecoder(k) ==
  /\ task[k] = "releaseDecoder"
  /\ DecoderReleased(k)
  /\ TaskGoto(k, "wait")
  /\ UNCHANGED <<uiVars, playerVars, streamVars, frameVars, out, exit, poll,
                 renderer, clock, crashed>>

(* m_task.Stop(): what is still queued may be done before, or dropped.     *)
TaskEnds(k) ==
  /\ task[k] = "wait" /\ <<"task", k>> \in exit
  /\ TaskGoto(k, "off")
  /\ queued' = [queued EXCEPT ![k] = 0]
  /\ UNCHANGED <<uiVars, playerVars, stream, net, sent, frameVars, out, exit,
                 poll, renderer, refs, clock, crashed>>

-----------------------------------------------------------------------------
(* The renderer: AVOutBase::Svc.  AVSync may keep a frame back.            *)
Test(k) ==
  /\ out[k] = "test"
  /\ out' = Set(out, k, IF <<"out", k>> \in exit THEN "off" ELSE "get")
  /\ UNCHANGED <<uiVars, playerVars, streamVars, frameVars, task, exit, poll,
                 renderer, refs, clock, crashed>>

GetFrame(k) ==
  /\ out[k] = "get"
  /\ \/ out' = Set(out, k, "test") /\ UNCHANGED <<queue, shown>>
     \/ /\ queue[k] # <<>>
        /\ shown' = Set(shown, k, Head(queue[k]))
        /\ queue' = Set(queue, k, Tail(queue[k]))
        /\ out' = Set(out, k, "render")
  /\ UNCHANGED <<uiVars, playerVars, streamVars, frameRefs, decoded, task, exit,
                 poll, renderer, refs, clock, crashed>>

Render(k) ==
  /\ out[k] = "render"
  /\ FrameReleased(k, shown[k])
  /\ shown' = Set(shown, k, 0)
  /\ out' = Set(out, k, "test")
  /\ UNCHANGED <<uiVars, playerVars, streamVars, queue, decoded, task, exit,
                 poll, renderer, clock, crashed>>

-----------------------------------------------------------------------------
(* video_info, audio_info, play_time_ms: a player is asked under both      *)
(* locks.                                                                  *)
PollCalls ==
  /\ poll = "out" /\ lock = "none" /\ ~At("gone")
  /\ poll' = "in" /\ lock' = "poll"
  /\ UNCHANGED <<uiVars, playerLock, player, alive, members, streamVars,
                 frameVars, threadVars, renderer, refs, clock, crashed>>

PollAsks(k) ==
  /\ poll = "in" /\ player[k] /\ playerLock[k] = "none"
  /\ poll' = k /\ playerLock' = Set(playerLock, k, "poll")
  /\ UNCHANGED <<uiVars, lock, player, alive, members, streamVars, frameVars,
                 threadVars, renderer, refs, clock, crashed>>

PollReturns ==
  /\ poll # "out"
  /\ poll' = "out" /\ lock' = "none"
  /\ playerLock' = IF poll \in Kind THEN Set(playerLock, poll, "none") ELSE playerLock
  /\ UNCHANGED <<uiVars, player, alive, members, streamVars, frameVars,
                 threadVars, renderer, refs, clock, crashed>>

-----------------------------------------------------------------------------
Building == BuildRenderer \/ BuildDecoder \/ BuildStream \/ Built

Tearing ==
  \/ Clear \/ ReleaseStream \/ StopClient \/ JoinClient \/ JoinTask
  \/ ReleaseDecoder \/ StopRenderer \/ JoinRenderer \/ ReleaseSync
  \/ DeletePlayer \/ Remove \/ TakeSync

Network(k) == Packet(k) \/ Parsed(k) \/ NetworkEnds(k)

Task(k) ==
  \/ MediaFrame(k) \/ Fetch(k) \/ Decode(k) \/ Output(k) \/ Push(k)
  \/ TaskReleasesSync(k) \/ TaskReleasesFrame(k) \/ TaskReleasesDecoder(k)
  \/ TaskEnds(k)

Renderer(k) == Test(k) \/ GetFrame(k) \/ Render(k)

Next ==
  /\ crashed = "no"
  /\ \/ \E k \in Kind : Play(k)
     \/ Building
     \/ Destroy
     \/ Tearing
     \/ \E k \in Kind : Network(k) \/ Task(k) \/ Renderer(k) \/ PollAsks(k)
     \/ PollCalls
     \/ PollReturns

Spec == Init /\ [][Next]_vars

(***************************************************************************)
(* Fairness.  Every thread runs; a thread that waits for a mutex gets it   *)
(* although the polling thread, which sleeps for a second between its      *)
(* calls, takes it again and again (strong fairness).  Nothing makes the   *)
(* user play or destroy, nor the sender send.                              *)
(***************************************************************************)
Alive(A) == crashed = "no" /\ A

FairSpec ==
  /\ Spec
  /\ SF_vars(Alive(Building \/ Tearing))
  /\ WF_vars(Alive(PollReturns))
  /\ \A k \in Kind : /\ WF_vars(Alive(Network(k)))
                     /\ SF_vars(Alive(Task(k)))
                     /\ WF_vars(Alive(Renderer(k)))

-----------------------------------------------------------------------------
NetPc  == {"off", "unbound", "wait", "parse"}
TaskPc == {"off", "wait", "fetch", "decode", "output", "push", "releaseSync",
           "releaseFrame", "releaseDecoder"}
OutPc  == {"off", "test", "get", "render"}
UiPc   == {"ready", "renderer", "decoder", "stream", "built", "clear",
           "releaseStream", "stopClient", "joinClient", "joinTask",
           "releaseDecoder", "stopRenderer", "joinRenderer", "releaseSync",
           "deletePlayer", "remove", "takeSync", "gone"}

(* Types. *)
TypeOK ==
  /\ ui \in [pc : UiPc, kind : Kind] /\ poll \in {"out", "in"} \cup Kind
  /\ lock \in {"none", "ui", "poll"} /\ playerLock \in [Kind -> {"none", "ui", "poll"}]
  /\ player \in [Kind -> BOOLEAN] /\ alive \in [Kind -> BOOLEAN]
  /\ members \in [Kind -> SUBSET Member] /\ local \in SUBSET Member
  /\ stream \in [Kind -> {"none", "open", "closing"}] /\ renderer \in [Kind -> BOOLEAN]
  /\ refs \in [sync : Nat, video : Nat, audio : Nat]
  /\ DOMAIN frameRefs = Kind
  /\ \A k \in Kind : frameRefs[k] \in [1 .. MediaBound[k] -> Nat]
  /\ clock \in {"avtimer", "audio"}
  /\ net \in [Kind -> NetPc] /\ task \in [Kind -> TaskPc] /\ out \in [Kind -> OutPc]
  /\ exit \in SUBSET ({"net", "task", "out"} \X Kind)
  /\ sent \in [Kind -> Nat] /\ queued \in [Kind -> Nat]
  /\ decoded \in [Kind -> Nat] /\ shown \in [Kind -> Nat]
  /\ queue \in [Kind -> Seq(Nat)]
  /\ crashed \in {"no", "stream", "sync"}

Bit(b) == IF b THEN 1 ELSE 0

TaskHasFrame(k) == task[k] \in {"output", "push", "releaseSync", "releaseFrame"}
TaskHasDecoder(k) == TaskHasFrame(k) \/ task[k] \in {"decode", "releaseDecoder"}
TaskHasSync(k) == task[k] \in {"push", "releaseSync"}

FrameOwners(k, i) ==
  Bit(TaskHasFrame(k) /\ decoded[k] = i) + Bit(i \in Queued(k)) + Bit(shown[k] = i)

LiveFrames(k) == {i \in 1 .. MediaBound[k] : frameRefs[k][i] > 0}

DecoderOwners(k) ==
  Bit("decoder" \in members[k]) + Bit(ui.kind = k /\ "decoder" \in local)
  + Bit(TaskHasDecoder(k)) + (IF k = "video" THEN Cardinality(LiveFrames(k)) ELSE 0)

SyncOwners ==
  Bit(~At("gone")) + Bit("sync" \in local)
  + Bit("sync" \in members["video"]) + Bit("sync" \in members["audio"])
  + Bit(TaskHasSync("video")) + Bit(TaskHasSync("audio"))

(* Who owns AVSync, a decoder or a frame changes hands between the user    *)
(* interface, the members, the task, the queue and the renderer, in every  *)
(* order; the counts are the numbers of owners (add_ref and release in     *)
(* build, clear, on_media_frame, on_decoded_image and ~AVFrame).           *)
RefsCountOwners ==
  /\ refs["sync"] = SyncOwners
  /\ \A k \in Kind :
       /\ refs[k] = DecoderOwners(k)
       /\ \A i \in 1 .. MediaBound[k] : frameRefs[k][i] = FrameOwners(k, i)

(* "the context should be kept valid until no one is referencing us"       *)
(* (VideoDecoder.cc:49): the codec, which its decoder destroys when it is  *)
(* deleted, outlives every image, although clear releases the decoder      *)
(* while images are queued in AVSync or on the screen.                     *)
ContextOutlivesFrames == LiveFrames("video") # {} => refs["video"] > 0

(* A thread only ever uses objects that exist: the network and task thread *)
(* their stream and player, the renderer thread itself and the AVSync to   *)
(* which it has no more than a pointer, the polling thread the player it   *)
(* found under the lock.                                                   *)
InUseExists ==
  /\ \A k \in Kind :
       /\ net[k] # "off" => stream[k] # "none"
       /\ task[k] # "off" => stream[k] # "none" /\ alive[k]
       /\ task[k] = "decode" => refs[k] > 0
       /\ out[k] # "off" => renderer[k] /\ refs["sync"] > 0
  /\ poll \in Kind => /\ alive[poll]
                      /\ "stream" \in members[poll] => stream[poll] = "open"
                      /\ "renderer" \in members[poll] => renderer[poll]

(* AVSync's clock is a bare pointer to the AudioOut, which the video       *)
(* renderer reads: it must have ended when the audio player is removed     *)
(* (RtpPlayer::tear).                                                      *)
ClockExists ==
  clock = "audio" /\ out["video"] # "off" => renderer["audio"]

(* A play that fails, at whatever step, and a destructor that has returned *)
(* leave nothing behind: no thread, no object, no frame.                   *)
Nothing(k) ==
  /\ ~alive[k] /\ members[k] = {} /\ stream[k] = "none" /\ ~renderer[k]
  /\ net[k] = "off" /\ task[k] = "off" /\ out[k] = "off"
  /\ refs[k] = 0 /\ LiveFrames(k) = {}

NothingLeft ==
  /\ At("ready") => \A k \in Kind : ~player[k] => Nothing(k)
  /\ At("gone") => refs["sync"] = 0 /\ \A k \in Kind : Nothing(k)

(* Destroying a player ends, whatever its threads are doing and whoever    *)
(* polls it: clear waits for threads that wait for locks.                  *)
DestroyEnds == At("remove") ~> At("gone") \/ crashed # "no"

(* "if (m_av_sync)" (VideoPlayer.cc:147, AudioPlayer.cc:149): a frame may  *)
(* come after clear has set m_av_sync to NULL, and is then dropped.        *)
SyncIsTested == crashed # "sync"

(* "error on_rtp_packet, invalid param or depacketizer"                    *)
(* (VideoStream.cc:62): no packet is parsed without a depacketizer.        *)
ParsesWithDepacketizer == net["video"] = "parse" => stream["video"] = "open"
=============================================================================
