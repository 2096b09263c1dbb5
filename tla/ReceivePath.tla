---------------------------- MODULE ReceivePath ------------------------------
(***************************************************************************)
(* How a stream receives: RtpStream::set_media opens an RtpClient, whose   *)
(* network thread runs the io_service; every read of the UDP session that  *)
(* completes is parsed, handed to the stream, and followed by the next     *)
(* read; the stream sends media frames to its task thread.  ~RtpStream     *)
(* ends all of it.  The depacketizer is left out: any packet may complete  *)
(* a media frame.  Packet i of the sender may be lost or overtaken.        *)
(***************************************************************************)
EXTENDS RtpPacket, Sequences

CONSTANTS
  Sent,          \* the datagrams that are sent to the stream's port
  PayloadType,   \* the payload type that the stream is set to
  MaxWaiting     \* bound: datagrams in the socket's receive buffer

Index == 1 .. Len(Sent)

ASSUME ReceiveAssumption ==
  Sent \in Seq(Datagram) /\ PayloadType \in 1 .. 127 /\ MaxWaiting \in Nat

VARIABLES
  ui,          \* where the thread is that builds and deletes the stream
  typeSeen,    \* the network thread sees the m_payload_type of set_media
  exit,        \* m_exit
  service,     \* m_service: "none", "up" or "stopped"
  udpSession,  \* m_udp_session is set
  pending,     \* number of reads that the session has started
  arrived,     \* datagrams that have reached the socket
  waiting,     \* those in its buffer
  handled,     \* history: those that a read has returned
  failed,      \* history: a read has completed with an error
  net,         \* where the network thread is
  current,     \* the datagram that its handler works on, 0 if none
  task,        \* where the task thread is
  taskExit,    \* m_task has been told to stop
  commands,    \* the commands in m_task, each named for its media frame
  inTask,      \* the media frame that the task works on, 0 if none
  frames,      \* the media frames that are allocated
  dropped      \* history: those whose command was dropped with the task

clientVars == <<exit, service, udpSession>>
socketVars == <<arrived, waiting, handled, failed>>
taskVars   == <<task, taskExit, commands, inTask, dropped>>
vars == <<ui, typeSeen, exit, service, udpSession, pending, arrived, waiting,
          handled, failed, net, current, task, taskExit, commands, inTask, dropped, frames>>

Init ==
  /\ ui = "new" /\ typeSeen = FALSE
  /\ exit = FALSE /\ service = "none" /\ udpSession = FALSE /\ pending = 0
  /\ arrived = {} /\ waiting = <<>> /\ handled = {} /\ failed = FALSE
  /\ net = "off" /\ current = 0
  /\ task = "off" /\ taskExit = FALSE /\ commands = <<>> /\ inTask = 0
  /\ frames = {} /\ dropped = {}

-----------------------------------------------------------------------------
(* RtpClient::build: accept binds the socket, starts the task and the      *)
(* first read, and only then the network thread.  When the socket cannot   *)
(* be bound there is no session and no task, and build succeeds.  Nobody   *)
(* looks whether the task could be started.                                *)
Build ==
  /\ ui = "new"
  /\ ui' = "open" /\ service' = "up" /\ net' = "run"
  /\ \/ udpSession' = TRUE /\ pending' = 1 /\ task' \in {"wait", "off"}
     \/ UNCHANGED <<udpSession, pending, task>>
  /\ UNCHANGED <<typeSeen, exit, current, taskExit, commands, inTask,
                 frames, dropped>>
  /\ UNCHANGED socketVars

(* set_media sets m_payload_type after build, when the network thread runs *)
(* already; under no lock, it sees the value at some later time.           *)
SeeType ==
  /\ ui # "new" /\ ~typeSeen
  /\ typeSeen' = TRUE
  /\ UNCHANGED <<ui, pending, net, current, frames>>
  /\ UNCHANGED clientVars /\ UNCHANGED socketVars /\ UNCHANGED taskVars

(* RtpClient::tear, called by ~RtpStream. *)
SetExit ==
  /\ ui = "open"
  /\ ui' = "stop" /\ exit' = TRUE
  /\ UNCHANGED <<typeSeen, service, udpSession, pending, net, current, frames>>
  /\ UNCHANGED socketVars /\ UNCHANGED taskVars

(* Mutant: the io_service is not stopped. *)
StopServiceNot ==
  /\ ui = "stop"
  /\ ui' = "join"
  /\ UNCHANGED <<typeSeen, pending, net, current, frames>>
  /\ UNCHANGED clientVars /\ UNCHANGED socketVars /\ UNCHANGED taskVars

StopService ==
  /\ ui = "stop"
  /\ ui' = "join" /\ service' = "stopped"
  /\ UNCHANGED <<typeSeen, exit, udpSession, pending, net, current, frames>>
  /\ UNCHANGED socketVars /\ UNCHANGED taskVars

(* Mutant: the network thread is not waited for. *)
JoinNot ==
  /\ ui = "join"
  /\ ui' = "closed" /\ taskExit' = TRUE
  /\ UNCHANGED <<typeSeen, pending, net, current, task, commands, inTask, frames,
                 dropped>>
  /\ UNCHANGED clientVars /\ UNCHANGED socketVars

(* Wait() returns, and on_client_closed stops the task. *)
Join ==
  /\ ui = "join" /\ net = "off"
  /\ ui' = "closed" /\ taskExit' = TRUE
  /\ UNCHANGED <<typeSeen, pending, net, current, task, commands, inTask, frames,
                 dropped>>
  /\ UNCHANGED clientVars /\ UNCHANGED socketVars

JoinTask ==
  /\ ui = "closed" /\ task = "off"
  /\ ui' = "session"
  /\ UNCHANGED <<typeSeen, pending, net, current, frames>>
  /\ UNCHANGED clientVars /\ UNCHANGED socketVars /\ UNCHANGED taskVars

(* m_udp_session.reset(): a pending read still holds the session. *)
ResetSession ==
  /\ ui = "session"
  /\ ui' = "service" /\ udpSession' = FALSE
  /\ UNCHANGED <<typeSeen, exit, service, pending, net, current, frames>>
  /\ UNCHANGED socketVars /\ UNCHANGED taskVars

(* m_service.reset() destroys the handlers that were never called. *)
ResetService ==
  /\ ui = "service"
  /\ ui' = "gone" /\ service' = "none" /\ pending' = 0
  /\ UNCHANGED <<typeSeen, exit, udpSession, net, current, frames>>
  /\ UNCHANGED socketVars /\ UNCHANGED taskVars

-----------------------------------------------------------------------------
SessionExists == udpSession \/ pending > 0

(* UDP: datagrams arrive in any order, or never; one that finds the buffer *)
(* full is lost.                                                           *)
Arrive(i) ==
  /\ SessionExists /\ i \notin arrived
  /\ Len(waiting) < MaxWaiting
  /\ arrived' = arrived \cup {i} /\ waiting' = Append(waiting, i)
  /\ UNCHANGED <<ui, typeSeen, pending, handled, failed, net, current, frames>>
  /\ UNCHANGED clientVars /\ UNCHANGED taskVars

(* The io_service calls Session::on_read for a read that has completed.    *)
(* Once it is stopped it calls nothing any more.                           *)
Complete ==
  /\ net = "run" /\ service = "up"
  /\ pending > 0 /\ waiting # <<>>
  /\ pending' = pending - 1
  /\ waiting' = Tail(waiting) /\ current' = Head(waiting)
  /\ handled' = handled \cup {Head(waiting)}
  /\ net' = "read"
  /\ UNCHANGED <<ui, typeSeen, arrived, failed, frames>>
  /\ UNCHANGED clientVars /\ UNCHANGED taskVars

(* A read that completes with an error returns no bytes: on_read calls no  *)
(* m_read_handler, check_error has it logged, and no further read starts.  *)
ReadFails ==
  /\ net = "run" /\ service = "up"
  /\ pending > 0
  /\ pending' = pending - 1
  /\ failed' = TRUE
  /\ UNCHANGED <<ui, typeSeen, arrived, waiting, handled, net, current, frames>>
  /\ UNCHANGED clientVars /\ UNCHANGED taskVars

(* Mutant: on_network_read returns when there is no packet. *)
NextAfterCreateStops(d) == IF Creates(d) THEN "packet" ELSE "run"

NextAfterCreate(d) == IF Creates(d) THEN "packet" ELSE "rearm"

(* on_read, on_network_read: an empty datagram, or one that is not RTP,    *)
(* starts no further read.                                                 *)
Read ==
  /\ net = "read"
  /\ LET d == Sent[current]
     IN \/ /\ d.size > 0 /\ Parses(d)
           /\ net' = NextAfterCreate(d)
           /\ UNCHANGED current
        \/ /\ ~(d.size > 0 /\ Parses(d))
           /\ net' = "run" /\ current' = 0
  /\ UNCHANGED <<ui, typeSeen, pending, frames>>
  /\ UNCHANGED clientVars /\ UNCHANGED socketVars /\ UNCHANGED taskVars

(* RtpStream::on_rtp_packet: m_payload_type is 0 until set_media sets it.  *)
(* A packet may complete a media frame, which send_frame copies.           *)
OnRtpPacket ==
  /\ net = "packet"
  /\ \/ net' = "rearm" /\ UNCHANGED frames
     \/ /\ Sent[current].pt = IF typeSeen THEN PayloadType ELSE 0
        /\ net' = "put" /\ frames' = frames \cup {current}
  /\ UNCHANGED <<ui, typeSeen, pending, current>>
  /\ UNCHANGED clientVars /\ UNCHANGED socketVars /\ UNCHANGED taskVars

(* Mutant: a frame that could not be put is kept. *)
FreedNever == frames

(* What is left when the command could not be put. *)
FreedUnput == frames \ {current}

SendFrame ==
  /\ net = "put"
  /\ \/ /\ task # "off"
        /\ commands' = Append(commands, current)
        /\ UNCHANGED frames
     \/ /\ frames' = FreedUnput
        /\ UNCHANGED commands
  /\ net' = "rearm"
  /\ UNCHANGED <<ui, typeSeen, pending, current, task, taskExit, inTask, dropped>>
  /\ UNCHANGED clientVars /\ UNCHANGED socketVars

(* Mutant: Session::on_read starts the next read as well. *)
ReadTwice == pending + 2

(* RtpClient::read, unless there is nothing to read from any more. *)
StartRead == pending + 1

Rearm ==
  /\ net = "rearm"
  /\ pending' = IF ~exit /\ udpSession THEN StartRead ELSE pending
  /\ net' = "run" /\ current' = 0
  /\ UNCHANGED <<ui, typeSeen, frames>>
  /\ UNCHANGED clientVars /\ UNCHANGED socketVars /\ UNCHANGED taskVars

(* run() returns. *)
NetworkEnds ==
  /\ net = "run" /\ service = "stopped"
  /\ net' = "off"
  /\ UNCHANGED <<ui, typeSeen, pending, current, frames>>
  /\ UNCHANGED clientVars /\ UNCHANGED socketVars /\ UNCHANGED taskVars

-----------------------------------------------------------------------------
(* The task calls on_send_frame, which frees the frame. *)
TakeCommand ==
  /\ task = "wait" /\ commands # <<>>
  /\ task' = "media" /\ inTask' = Head(commands) /\ commands' = Tail(commands)
  /\ UNCHANGED <<ui, typeSeen, pending, net, current, taskExit, frames, dropped>>
  /\ UNCHANGED clientVars /\ UNCHANGED socketVars

OnSendFrame ==
  /\ task = "media"
  /\ task' = "wait" /\ inTask' = 0 /\ frames' = frames \ {inTask}
  /\ UNCHANGED <<ui, typeSeen, pending, net, current, taskExit, commands, dropped>>
  /\ UNCHANGED clientVars /\ UNCHANGED socketVars

(* A task that stops may first do what is left in it, or drop it. *)
TaskEnds ==
  /\ task = "wait" /\ taskExit
  /\ task' = "off" /\ commands' = <<>>
  /\ dropped' = dropped \cup {commands[j] : j \in 1 .. Len(commands)}
  /\ UNCHANGED <<ui, typeSeen, pending, net, current, taskExit, inTask, frames>>
  /\ UNCHANGED clientVars /\ UNCHANGED socketVars

-----------------------------------------------------------------------------
Tear == StopService \/ Join \/ JoinTask \/ ResetSession \/ ResetService

Network == Complete \/ Read \/ OnRtpPacket \/ SendFrame \/ Rearm \/ NetworkEnds

Task == TakeCommand \/ OnSendFrame \/ TaskEnds

Next ==
  \/ Build \/ SeeType \/ SetExit \/ Tear
  \/ \E i \in Index : Arrive(i)
  \/ ReadFails
  \/ Network
  \/ Task

Spec == Init /\ [][Next]_vars

(* Every thread runs; nothing makes the user delete a stream, the sender   *)
(* send, or a read fail.                                                   *)
FairSpec == Spec /\ WF_vars(Tear) /\ WF_vars(Network) /\ WF_vars(Task)

-----------------------------------------------------------------------------
(* Types; the session has one buffer, and so at most one read pending. *)
TypeOK ==
  /\ ui \in {"new", "open", "stop", "join", "closed", "session", "service", "gone"}
  /\ typeSeen \in BOOLEAN /\ exit \in BOOLEAN /\ udpSession \in BOOLEAN
  /\ service \in {"none", "up", "stopped"}
  /\ pending \in {0, 1}
  /\ arrived \subseteq Index /\ waiting \in Seq(Index) /\ handled \subseteq Index
  /\ failed \in BOOLEAN
  /\ net \in {"off", "run", "read", "packet", "put", "rearm"}
  /\ current \in Index \cup {0}
  /\ task \in {"off", "wait", "media"} /\ taskExit \in BOOLEAN
  /\ commands \in Seq(Index) /\ inTask \in Index \cup {0}
  /\ frames \subseteq Index /\ dropped \subseteq Index

InHandler == net \in {"read", "packet", "put", "rearm"}

(* A datagram after which on_network_read starts no further read. *)
Breaks(i) == Sent[i].size = 0 \/ ~Parses(Sent[i])

(* The chain of reads has ended: a read failed, or a handler is done with  *)
(* a datagram that breaks it.                                              *)
ChainEnded == failed \/ \E i \in handled : Breaks(i) /\ i # current

(* A live session always has exactly one read under way, pending or in its *)
(* handler, whatever packets come, the ones nobody wants included; only an *)
(* empty datagram, one that is not RTP, or a read that fails ends the      *)
(* chain, for good (Session::on_read, RtpClient::on_network_read).         *)
OneRead ==
  udpSession /\ ~exit =>
    pending + (IF InHandler THEN 1 ELSE 0)
      = IF ChainEnded THEN 0 ELSE 1

(* tear deletes nothing that a thread still uses (RtpClient::tear): the    *)
(* io_service outlives the network thread and the reads, the session the   *)
(* handler, the stream's task the commands that the handler puts.          *)
InUseExists ==
  /\ net # "off" \/ pending > 0 => service # "none"
  /\ InHandler => udpSession /\ ~taskExit
  /\ ui = "gone" => net = "off" /\ task = "off" /\ ~SessionExists

Occurrences(i) == {j \in 1 .. Len(commands) : commands[j] = i}

(* Every media frame that is allocated has exactly one owner: send_frame,  *)
(* a command, or the task; none is freed that somebody still has           *)
(* (RtpStream::send_frame, on_send_frame).  Frames dropped with the task   *)
(* are never freed.                                                        *)
FramesOwned ==
  \A i \in Index :
    /\ i \in frames <=> \/ net = "put" /\ current = i
                        \/ Occurrences(i) # {}
                        \/ inTask = i
                        \/ i \in dropped
    /\ inTask = i => Occurrences(i) = {}
    /\ \A j, k \in Occurrences(i) : j = k

(* What has reached a live session is read in the end, unless the chain of *)
(* reads has ended or the stream is deleted.                               *)
AllRead ==
  \A i \in Index :
    i \in arrived ~> i \in handled \/ exit \/ failed \/ \E j \in handled : Breaks(j)

(* Deleting a stream ends, whatever its threads are doing. *)
TearEnds == ui = "stop" ~> ui = "gone"
=============================================================================
