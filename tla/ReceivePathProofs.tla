------------------------- MODULE ReceivePathProofs ---------------------------
(***************************************************************************)
(* Proofs about ReceivePath for any datagrams, payload type and buffer: a  *)
(* live session has exactly one read under way, tear deletes nothing that  *)
(* a thread still uses, and every media frame has exactly one owner.       *)
(***************************************************************************)
EXTENDS ReceivePath, TLAPS

(* What is there and what runs while the thread that builds and deletes    *)
(* the stream is where it is.                                              *)
PlaceInv ==
  /\ ui = "new" => /\ service = "none" /\ net = "off" /\ task = "off"
                   /\ ~udpSession /\ pending = 0 /\ handled = {} /\ ~failed
  /\ ui \in {"open", "stop"} => service = "up"
  /\ ui \in {"join", "closed", "session", "service"} => service = "stopped"
  /\ ui \in {"closed", "session", "service", "gone"} => net = "off"
  /\ ui \in {"session", "service", "gone"} => task = "off"
  /\ ui \in {"service", "gone"} => ~udpSession
  /\ ui \in {"open", "stop"} /\ pending > 0 => udpSession
  /\ ui = "gone" => pending = 0
  /\ taskExit => ui \in {"closed", "session", "service", "gone"}
  /\ exit <=> ui \notin {"new", "open"}

(* A handler works on a datagram that was read, for a session that has no  *)
(* other read pending; only a datagram that gives a packet gets beyond     *)
(* on_network_read's first tests.                                          *)
HandlerInv ==
  /\ InHandler <=> current # 0
  /\ InHandler => udpSession /\ pending = 0 /\ current \in handled
  /\ net \in {"packet", "put", "rearm"} => ~Breaks(current)

ReceiveInv == TypeOK /\ PlaceInv /\ HandlerInv /\ OneRead

-----------------------------------------------------------------------------
LEMMA ReceiveInit == Init => ReceiveInv
<1> SUFFICES ASSUME Init PROVE ReceiveInv
  OBVIOUS
<1>1. TypeOK
  <2>1. <<>> \in Seq(Index)
    OBVIOUS
  <2> QED BY <2>1 DEF Init, TypeOK
<1>2. PlaceInv
  BY DEF Init, PlaceInv
<1>3. HandlerInv /\ OneRead
  BY DEF Init, HandlerInv, OneRead, ChainEnded, InHandler
<1> QED BY <1>1, <1>2, <1>3 DEF ReceiveInv

(* The sequences of the model stay sequences of packet numbers. *)
LEMMA QueueFacts ==
  ASSUME NEW s \in Seq(Index)
  PROVE  /\ \A i \in Index : Append(s, i) \in Seq(Index)
         /\ s # <<>> => Head(s) \in Index /\ Tail(s) \in Seq(Index)
         /\ {s[j] : j \in 1 .. Len(s)} \subseteq Index
  OBVIOUS

LEMMA IndexNotZero == 0 \notin Index
  BY DEF Index

LEMMA SizeIsNat ==
  ASSUME NEW d \in Datagram
  PROVE  d.size \in Nat
  BY DEF Datagram

LEMMA TypeStep == ReceiveInv /\ [Next]_vars => TypeOK'
<1> SUFFICES ASSUME ReceiveInv, [Next]_vars PROVE TypeOK'
  OBVIOUS
<1> USE DEF ReceiveInv, clientVars, socketVars, taskVars
<1>1. CASE Build
  BY <1>1 DEF Build, TypeOK
<1>2. CASE SeeType
  BY <1>2 DEF SeeType, TypeOK
<1>3. CASE SetExit
  BY <1>3 DEF SetExit, TypeOK
<1>4. CASE Tear
  <2>1. CASE StopService
    BY <2>1 DEF StopService, TypeOK
  <2>2. CASE Join
    BY <2>2 DEF Join, TypeOK
  <2>3. CASE JoinTask
    BY <2>3 DEF JoinTask, TypeOK
  <2>4. CASE ResetSession
    <3>1. /\ ui' = "service" /\ udpSession' = FALSE
          /\ UNCHANGED <<typeSeen, exit, service, pending, net, current, frames, arrived,
                         waiting, handled, failed, task, taskExit, commands, inTask, dropped>>
      BY <2>4 DEF ResetSession
    <3>2. commands' \in Seq(Index) /\ waiting' \in Seq(Index)
      BY <3>1 DEF TypeOK
    <3>3. udpSession' \in BOOLEAN /\ failed' \in BOOLEAN
      BY <3>1 DEF TypeOK
    <3>4. ui' \in {"new", "open", "stop", "join", "closed", "session", "service", "gone"}
      BY <3>1
    <3> QED BY <3>1, <3>2, <3>3, <3>4 DEF TypeOK
  <2>5. CASE ResetService
    BY <2>5 DEF ResetService, TypeOK
  <2> QED BY <1>4, <2>1, <2>2, <2>3, <2>4, <2>5 DEF Tear
<1>5. ASSUME NEW i \in Index, Arrive(i) PROVE TypeOK'
  BY <1>5, QueueFacts DEF Arrive, TypeOK
<1>6. CASE Complete
  BY <1>6, QueueFacts DEF Complete, TypeOK
<1>7. CASE Read
  BY <1>7 DEF Read, NextAfterCreate, TypeOK
<1>8. CASE OnRtpPacket
  BY <1>8, IndexNotZero DEF OnRtpPacket, HandlerInv, InHandler, TypeOK
<1>9. CASE SendFrame
  <2>1. current \in Index
    BY <1>9 DEF SendFrame, HandlerInv, InHandler, TypeOK
  <2> QED BY <1>9, <2>1, QueueFacts DEF SendFrame, FreedUnput, TypeOK
<1>10. CASE Rearm
  BY <1>10 DEF Rearm, StartRead, HandlerInv, InHandler, TypeOK
<1>11. CASE NetworkEnds
  BY <1>11 DEF NetworkEnds, TypeOK
<1>12. CASE TakeCommand
  BY <1>12, QueueFacts DEF TakeCommand, TypeOK
<1>13. CASE OnSendFrame
  BY <1>13 DEF OnSendFrame, TypeOK
<1>14. CASE TaskEnds
  BY <1>14, QueueFacts DEF TaskEnds, TypeOK
<1>15. CASE UNCHANGED vars
  BY <1>15 DEF vars, TypeOK
<1>16. CASE ReadFails
  BY <1>16 DEF ReadFails, TypeOK
<1> QED
  BY <1>1, <1>2, <1>3, <1>4, <1>5, <1>6, <1>7, <1>8, <1>9, <1>10, <1>11, <1>12,
     <1>13, <1>14, <1>15, <1>16 DEF Next, Network, Task

LEMMA PlaceStep == ReceiveInv /\ [Next]_vars => PlaceInv'
<1> SUFFICES ASSUME ReceiveInv, [Next]_vars PROVE PlaceInv'
  OBVIOUS
<1> USE DEF ReceiveInv, TypeOK, clientVars, socketVars, taskVars
<1>1. CASE Build
  BY <1>1 DEF Build, PlaceInv
<1>2. CASE SeeType
  BY <1>2 DEF SeeType, PlaceInv
<1>3. CASE SetExit
  BY <1>3 DEF SetExit, PlaceInv
<1>4. CASE Tear
  <2>1. CASE StopService
    BY <2>1 DEF StopService, PlaceInv
  <2>2. CASE Join
    BY <2>2 DEF Join, PlaceInv
  <2>3. CASE JoinTask
    BY <2>3 DEF JoinTask, PlaceInv
  <2>4. CASE ResetSession
    BY <2>4 DEF ResetSession, PlaceInv
  <2>5. CASE ResetService
    BY <2>5 DEF ResetService, PlaceInv
  <2> QED BY <1>4, <2>1, <2>2, <2>3, <2>4, <2>5 DEF Tear
<1>5. ASSUME NEW i \in Index, Arrive(i) PROVE PlaceInv'
  BY <1>5 DEF Arrive, PlaceInv
<1>6. CASE Complete
  BY <1>6 DEF Complete, PlaceInv
<1>7. CASE Read
  BY <1>7 DEF Read, NextAfterCreate, PlaceInv
<1>8. CASE OnRtpPacket
  BY <1>8 DEF OnRtpPacket, PlaceInv
<1>9. CASE SendFrame
  BY <1>9 DEF SendFrame, PlaceInv
<1>10. CASE Rearm
  BY <1>10 DEF Rearm, StartRead, PlaceInv
<1>11. CASE NetworkEnds
  BY <1>11 DEF NetworkEnds, PlaceInv
<1>12. CASE Task
  BY <1>12 DEF Task, TakeCommand, OnSendFrame, TaskEnds, PlaceInv
<1>13. CASE UNCHANGED vars
  BY <1>13 DEF vars, PlaceInv
<1>14. CASE ReadFails
  BY <1>14 DEF ReadFails, PlaceInv
<1> QED
  BY <1>1, <1>2, <1>3, <1>4, <1>5, <1>6, <1>7, <1>8, <1>9, <1>10, <1>11, <1>12,
     <1>13, <1>14 DEF Next, Network

(* The reads: what a step does to the handler and to the pending read. *)
LEMMA ReadStep == ReceiveInv /\ [Next]_vars => HandlerInv' /\ OneRead'
<1> SUFFICES ASSUME ReceiveInv, [Next]_vars PROVE HandlerInv' /\ OneRead'
  OBVIOUS
<1> USE DEF ReceiveInv, clientVars, socketVars, taskVars
<1>1. CASE Build
  BY <1>1 DEF Build, PlaceInv, HandlerInv, OneRead, ChainEnded, InHandler, Breaks
<1>2. CASE SeeType
  BY <1>2 DEF SeeType, HandlerInv, OneRead, ChainEnded, InHandler, Breaks
<1>3. CASE SetExit
  BY <1>3 DEF SetExit, HandlerInv, OneRead, ChainEnded, InHandler, Breaks
<1>4. CASE Tear
  <2>1. exit' = exit /\ net' = net /\ current' = current /\ handled' = handled
    BY <1>4 DEF Tear, StopService, Join, JoinTask, ResetSession, ResetService
  <2>2. exit
    BY <1>4 DEF Tear, StopService, Join, JoinTask, ResetSession, ResetService, PlaceInv
  <2>3. InHandler => udpSession' = udpSession /\ pending' = pending
    BY <1>4 DEF Tear, StopService, Join, JoinTask, ResetSession, ResetService,
       PlaceInv, InHandler
  <2> QED BY <2>1, <2>2, <2>3 DEF HandlerInv, OneRead, ChainEnded, InHandler, Breaks
<1>5. ASSUME NEW i \in Index, Arrive(i) PROVE HandlerInv' /\ OneRead'
  BY <1>5 DEF Arrive, HandlerInv, OneRead, ChainEnded, InHandler, Breaks
<1>6. CASE Complete
  <2>1. /\ net = "run" /\ net' = "read" /\ pending = 1 /\ pending' = 0
        /\ current = 0 /\ current' \in Index /\ handled' = handled \cup {current'}
        /\ udpSession' = udpSession /\ exit' = exit /\ failed' = failed
    BY <1>6, QueueFacts DEF Complete, TypeOK, HandlerInv, InHandler
  <2>2. udpSession
    BY <1>6 DEF Complete, PlaceInv, TypeOK
  <2>3. HandlerInv'
    BY <2>1, <2>2, IndexNotZero DEF HandlerInv, InHandler
  <2>4. OneRead'
    <3>1. ~exit => ~failed /\ \A i \in handled : ~Breaks(i)
      BY <2>1, <2>2, IndexNotZero DEF OneRead, ChainEnded, InHandler, TypeOK
    <3>2. ~exit => ~ChainEnded'
      BY <2>1, <3>1 DEF ChainEnded, Breaks
    <3>3. pending' + (IF InHandler' THEN 1 ELSE 0) = 1
      BY <2>1 DEF InHandler
    <3> QED BY <2>1, <3>2, <3>3 DEF OneRead
  <2> QED BY <2>3, <2>4
<1>7. CASE Read
  <2>1. /\ net = "read" /\ handled' = handled /\ pending' = pending /\ failed' = failed
        /\ udpSession' = udpSession /\ exit' = exit
        /\ current \in handled /\ pending = 0 /\ udpSession /\ current # 0
    BY <1>7 DEF Read, HandlerInv, InHandler
  <2>0. Sent[current].size \in Nat
    <3>1. current \in 1 .. Len(Sent)
      BY <2>1 DEF TypeOK, Index
    <3>2. Sent[current] \in Datagram
      BY <3>1, ReceiveAssumption
    <3> QED BY <3>2, SizeIsNat
  <2>2. CASE ~Breaks(current)
    <3>1. net' \in {"packet", "rearm"} /\ current' = current
      BY <1>7, <2>0, <2>2 DEF Read, NextAfterCreate, Breaks
    <3>2. HandlerInv'
      BY <2>1, <2>2, <3>1 DEF HandlerInv, InHandler, Breaks
    <3>3. ChainEnded' = ChainEnded /\ InHandler' /\ InHandler
      BY <2>1, <3>1 DEF ChainEnded, InHandler, Breaks
    <3>4. OneRead'
      BY <2>1, <3>3 DEF OneRead
    <3> QED BY <3>2, <3>4
  <2>3. CASE Breaks(current)
    <3>1. net' = "run" /\ current' = 0
      BY <1>7, <2>0, <2>3 DEF Read, Breaks
    <3>2. \E i \in handled : Breaks(i) /\ i # 0
      BY <2>1, <2>3
    <3> QED BY <2>1, <3>1, <3>2 DEF HandlerInv, OneRead, ChainEnded, InHandler, Breaks
  <2> QED BY <2>2, <2>3
<1>8. CASE OnRtpPacket
  BY <1>8 DEF OnRtpPacket, HandlerInv, OneRead, ChainEnded, InHandler, Breaks
<1>9. CASE SendFrame
  BY <1>9 DEF SendFrame, HandlerInv, OneRead, ChainEnded, InHandler, Breaks
<1>10. CASE Rearm
  <2>1. /\ net = "rearm" /\ net' = "run" /\ current' = 0 /\ handled' = handled
        /\ udpSession' = udpSession /\ exit' = exit
        /\ pending = 0 /\ ~Breaks(current) /\ failed' = failed
        /\ udpSession /\ ~exit => pending' = 1
    BY <1>10 DEF Rearm, StartRead, HandlerInv, InHandler
  <2>2. udpSession /\ ~exit => ~failed /\ \A i \in handled : ~Breaks(i)
    BY <2>1 DEF OneRead, ChainEnded, InHandler
  <2>3. HandlerInv'
    BY <2>1 DEF HandlerInv, InHandler
  <2>4. udpSession /\ ~exit => ~ChainEnded'
    BY <2>1, <2>2 DEF ChainEnded, Breaks
  <2>5. OneRead'
    BY <2>1, <2>4 DEF OneRead, InHandler
  <2> QED BY <2>3, <2>5
<1>11. CASE NetworkEnds
  BY <1>11 DEF NetworkEnds, HandlerInv, OneRead, ChainEnded, InHandler, Breaks
<1>12. CASE Task
  BY <1>12 DEF Task, TakeCommand, OnSendFrame, TaskEnds, HandlerInv, OneRead,
     ChainEnded, InHandler, Breaks
<1>13. CASE UNCHANGED vars
  BY <1>13 DEF vars, HandlerInv, OneRead, ChainEnded, InHandler, Breaks
<1>14. CASE ReadFails
  <2>1. /\ net = "run" /\ net' = net /\ pending = 1 /\ pending' = 0 /\ failed'
        /\ UNCHANGED <<current, handled, udpSession, exit>>
    BY <1>14 DEF ReadFails, TypeOK
  <2> QED BY <2>1 DEF HandlerInv, OneRead, ChainEnded, InHandler
<1> QED
  BY <1>1, <1>2, <1>3, <1>4, <1>5, <1>6, <1>7, <1>8, <1>9, <1>10, <1>11, <1>12,
     <1>13, <1>14 DEF Next, Network

(* The invariant of the receive path. *)
THEOREM ReceiveInvariant == Spec => []ReceiveInv
<1>1. ReceiveInv /\ [Next]_vars => ReceiveInv'
  BY TypeStep, PlaceStep, ReadStep DEF ReceiveInv
<1> QED BY ReceiveInit, <1>1, PTL DEF Spec

(* A live session has exactly one read under way, until an empty datagram, *)
(* one that is not RTP, or a read that fails ends the chain of reads.      *)
THEOREM ReadsGoOn == Spec => []OneRead
<1>1. ReceiveInv => OneRead
  BY DEF ReceiveInv
<1> QED BY ReceiveInvariant, <1>1, PTL

(* Never are two reads pending on the session's one buffer. *)
THEOREM OneBuffer == Spec => []TypeOK
<1>1. ReceiveInv => TypeOK
  BY DEF ReceiveInv
<1> QED BY ReceiveInvariant, <1>1, PTL

(* RtpClient::tear deletes nothing that a thread or a read still uses. *)
THEOREM TearIsSafe == Spec => []InUseExists
<1>1. ReceiveInv => InUseExists
  <2> SUFFICES ASSUME ReceiveInv PROVE InUseExists
    OBVIOUS
  <2>1. net # "off" \/ pending > 0 => service # "none"
    BY DEF ReceiveInv, TypeOK, PlaceInv
  <2>2. InHandler => udpSession /\ ~taskExit
    BY DEF ReceiveInv, TypeOK, PlaceInv, HandlerInv, InHandler
  <2>3. ui = "gone" => net = "off" /\ task = "off" /\ ~SessionExists
    BY DEF ReceiveInv, PlaceInv, SessionExists
  <2> QED BY <2>1, <2>2, <2>3 DEF InUseExists
<1> QED BY ReceiveInvariant, <1>1, PTL

-----------------------------------------------------------------------------
(* A datagram is read once: those in the socket have not been read yet.    *)
SocketInv ==
  /\ \A j, k \in 1 .. Len(waiting) : waiting[j] = waiting[k] => j = k
  /\ \A j \in 1 .. Len(waiting) : waiting[j] \in arrived /\ waiting[j] \notin handled
  /\ handled \subseteq arrived

(* A media frame is named for the packet that completes it, so that its    *)
(* name is new when the packet is handled; frames are dropped only when    *)
(* nobody is left who could free one.                                      *)
OwnerInv ==
  /\ frames \subseteq handled
  /\ net \in {"read", "packet"} => current \notin frames
  /\ net = "put" => Occurrences(current) = {} /\ inTask # current
  /\ task = "media" <=> inTask # 0
  /\ task = "off" => commands = <<>>
  /\ dropped # {} => task = "off" /\ taskExit

FrameInv == ReceiveInv /\ SocketInv /\ OwnerInv /\ FramesOwned

(* What the ends of a sequence of packet numbers do to its elements.       *)
LEMMA AppendElements ==
  ASSUME NEW s \in Seq(Index), NEW i \in Index
  PROVE  /\ Len(Append(s, i)) = Len(s) + 1
         /\ \A j \in 1 .. Len(s) : Append(s, i)[j] = s[j]
         /\ Append(s, i)[Len(s) + 1] = i
  OBVIOUS

LEMMA TailElements ==
  ASSUME NEW s \in Seq(Index), s # <<>>
  PROVE  /\ Len(s) \in Nat \ {0} /\ Len(Tail(s)) = Len(s) - 1 /\ Head(s) = s[1]
         /\ \A j \in 1 .. Len(s) - 1 : Tail(s)[j] = s[j + 1]
  OBVIOUS

LEMMA FrameInit == Init => FrameInv
<1> SUFFICES ASSUME Init PROVE FrameInv
  OBVIOUS
<1>1. ReceiveInv
  BY ReceiveInit
<1>2. SocketInv /\ OwnerInv
  BY DEF Init, SocketInv, OwnerInv
<1>3. FramesOwned
  BY IndexNotZero DEF Init, FramesOwned, Occurrences
<1> QED BY <1>1, <1>2, <1>3 DEF FrameInv

LEMMA SocketStep == FrameInv /\ [Next]_vars => SocketInv'
<1> SUFFICES ASSUME FrameInv, [Next]_vars PROVE SocketInv'
  OBVIOUS
<1>0. waiting \in Seq(Index)
  BY DEF FrameInv, ReceiveInv, TypeOK
<1>1. ASSUME NEW i \in Index, Arrive(i) PROVE SocketInv'
  <2>1. \A j \in 1 .. Len(waiting) : waiting[j] # i
    BY <1>1 DEF Arrive, FrameInv, SocketInv
  <2>2. i \notin handled
    BY <1>1 DEF Arrive, FrameInv, SocketInv
  <2> QED BY <1>0, <1>1, <2>1, <2>2, AppendElements DEF Arrive, FrameInv, SocketInv
<1>2. CASE Complete
  <2>1. waiting # <<>> /\ waiting' = Tail(waiting)
        /\ handled' = handled \cup {waiting[1]} /\ arrived' = arrived
    BY <1>0, <1>2, TailElements DEF Complete
  <2> QED BY <1>0, <2>1, TailElements DEF FrameInv, SocketInv
<1>3. CASE UNCHANGED <<arrived, waiting, handled>>
  BY <1>3 DEF FrameInv, SocketInv
<1> QED
  BY <1>1, <1>2, <1>3 DEF Next, vars, socketVars, Build, SeeType, SetExit, Tear,
     StopService, Join, JoinTask, ResetSession, ResetService, ReadFails, Network, Read,
     OnRtpPacket, SendFrame, Rearm, NetworkEnds, Task, TakeCommand, OnSendFrame,
     TaskEnds

(* Where a frame's number occurs among the commands.                       *)
LEMMA CommandsAppended ==
  ASSUME commands \in Seq(Index), NEW c \in Index, commands' = Append(commands, c),
         NEW i \in Index
  PROVE  Occurrences(i)' = Occurrences(i) \cup IF i = c THEN {Len(commands) + 1} ELSE {}
<1> Len(commands) \in Nat
  OBVIOUS
<1> QED BY AppendElements DEF Occurrences

LEMMA CommandTaken ==
  ASSUME commands \in Seq(Index), commands # <<>>, commands' = Tail(commands),
         NEW i \in Index
  PROVE  /\ Occurrences(i)' = {j - 1 : j \in Occurrences(i) \ {1}}
         /\ 1 \in Occurrences(i) <=> i = Head(commands)
<1>1. /\ Len(commands) \in Nat \ {0} /\ Len(commands') = Len(commands) - 1
      /\ Head(commands) = commands[1]
      /\ \A j \in 1 .. Len(commands) - 1 : commands'[j] = commands[j + 1]
  BY TailElements
<1>2. Occurrences(i)' = {j \in 1 .. Len(commands) - 1 : commands[j + 1] = i}
  BY <1>1 DEF Occurrences
<1>3. ASSUME NEW j \in 1 .. Len(commands) - 1, commands[j + 1] = i
      PROVE  \E k \in Occurrences(i) \ {1} : j = k - 1
  BY <1>1, <1>3 DEF Occurrences
<1>4. ASSUME NEW k \in Occurrences(i) \ {1}
      PROVE  k - 1 \in {j \in 1 .. Len(commands) - 1 : commands[j + 1] = i}
  BY <1>1 DEF Occurrences
<1>5. 1 \in Occurrences(i) <=> i = Head(commands)
  BY <1>1 DEF Occurrences
<1> QED BY <1>2, <1>3, <1>4, <1>5

LEMMA OwnerStep == FrameInv /\ [Next]_vars => OwnerInv' /\ FramesOwned'
<1> SUFFICES ASSUME FrameInv, [Next]_vars PROVE OwnerInv' /\ FramesOwned'
  OBVIOUS
<1> USE DEF FrameInv, clientVars, socketVars, taskVars
<1>0. ReceiveInv /\ commands \in Seq(Index)
  BY DEF ReceiveInv, TypeOK
<1>1. CASE /\ UNCHANGED <<commands, inTask, task, taskExit, frames, dropped>>
           /\ handled \subseteq handled'
           /\ net' = "put" => net = "put" /\ current' = current
           /\ net = "put" => net' = "put"
           /\ net' \in {"read", "packet"} =>
                \/ net \in {"read", "packet"} /\ current' = current
                \/ current' \notin handled
  <2>1. OwnerInv'
    BY <1>1 DEF OwnerInv, Occurrences
  <2>2. FramesOwned'
    BY <1>1 DEF FramesOwned, Occurrences
  <2> QED BY <2>1, <2>2
<1>2. CASE Build
  <2>1. /\ net = "off" /\ net' = "run" /\ commands = <<>> /\ inTask = 0
        /\ task' # "media" /\ handled' = handled
        /\ UNCHANGED <<commands, inTask, taskExit, frames, dropped>> /\ dropped = {}
    BY <1>0, <1>2 DEF Build, ReceiveInv, PlaceInv, OwnerInv
  <2> QED BY <2>1 DEF OwnerInv, FramesOwned, Occurrences
<1>3. CASE Join
  BY <1>3 DEF Join, OwnerInv, FramesOwned, Occurrences
<1>4. CASE Complete
  <2>1. current' = waiting[1] /\ 1 \in 1 .. Len(waiting)
    BY <1>0, <1>4, TailElements DEF Complete, ReceiveInv, TypeOK
  <2> QED BY <1>1, <1>4, <2>1 DEF Complete, SocketInv
<1>5. CASE OnRtpPacket
  <2>1. current \in Index /\ current \in handled /\ ~taskExit
    BY <1>0, <1>5 DEF OnRtpPacket, ReceiveInv, TypeOK, PlaceInv, HandlerInv, InHandler
  <2>2. CASE net' = "rearm"
    <3>1. frames' = frames
      BY <1>5, <2>2 DEF OnRtpPacket
    <3> QED BY <1>5, <2>2, <3>1 DEF OnRtpPacket, OwnerInv, FramesOwned, Occurrences
  <2>3. CASE net' = "put"
    <3>1. frames' = frames \cup {current} /\ current' = current /\ current \notin frames
      BY <1>5, <2>3 DEF OnRtpPacket, OwnerInv
    <3>2. Occurrences(current) = {} /\ inTask # current
      BY <2>1, <3>1 DEF FramesOwned
    <3> QED BY <1>5, <2>1, <2>3, <3>1, <3>2 DEF OnRtpPacket, OwnerInv, FramesOwned,
               Occurrences
  <2> QED BY <1>5, <2>2, <2>3 DEF OnRtpPacket
<1>6. CASE SendFrame
  <2>1. current \in Index /\ ~taskExit
    BY <1>0, <1>6 DEF SendFrame, ReceiveInv, TypeOK, PlaceInv, HandlerInv, InHandler
  <2>2. /\ dropped = {} /\ Occurrences(current) = {} /\ inTask # current
        /\ net = "put" /\ net' = "rearm" /\ current' = current
        /\ UNCHANGED <<task, taskExit, inTask, dropped, handled>>
    BY <1>6, <2>1 DEF SendFrame, OwnerInv
  <2>3. CASE task # "off" /\ commands' = Append(commands, current) /\ frames' = frames
    <3>1. \A i \in Index : Occurrences(i)' =
            IF i = current THEN {Len(commands) + 1} ELSE Occurrences(i)
      BY <1>0, <2>1, <2>2, <2>3, CommandsAppended
    <3>2. OwnerInv'
      BY <2>2, <2>3 DEF OwnerInv
    <3>3. FramesOwned'
      BY <2>1, <2>2, <2>3, <3>1 DEF FramesOwned
    <3> QED BY <3>2, <3>3
  <2>4. CASE frames' = frames \ {current} /\ commands' = commands
    BY <2>1, <2>2, <2>4 DEF OwnerInv, FramesOwned, Occurrences
  <2> QED BY <1>6, <2>3, <2>4 DEF SendFrame, FreedUnput
<1>7. CASE TakeCommand
  <2>1. /\ commands # <<>> /\ commands' = Tail(commands) /\ inTask' = Head(commands)
        /\ task = "wait" /\ task' = "media" /\ inTask = 0 /\ Head(commands) \in Index
        /\ dropped = {} /\ handled' = handled
        /\ UNCHANGED <<net, current, taskExit, frames, dropped>>
    BY <1>0, <1>7, QueueFacts DEF TakeCommand, OwnerInv
  <2>2. \A i \in Index : /\ Occurrences(i)' = {j - 1 : j \in Occurrences(i) \ {1}}
                         /\ 1 \in Occurrences(i) <=> i = Head(commands)
    BY <1>0, <2>1, CommandTaken
  <2>3. \A i \in Index : Occurrences(i)' = {} <=> Occurrences(i) \subseteq {1}
    BY <2>2
  <2>4. OwnerInv'
    <3>1. net = "put" => current \in Index
      BY <1>0 DEF ReceiveInv, TypeOK, HandlerInv, InHandler
    <3>2. net = "put" => Occurrences(current)' = {} /\ inTask' # current
      BY <2>1, <2>2, <3>1 DEF OwnerInv
    <3> QED BY <2>1, <3>2, IndexNotZero DEF OwnerInv
  <2>5. FramesOwned'
    <3> SUFFICES ASSUME NEW i \in Index
                 PROVE  /\ i \in frames' <=> \/ net' = "put" /\ current' = i
                                             \/ Occurrences(i)' # {}
                                             \/ inTask' = i
                                             \/ i \in dropped'
                        /\ inTask' = i => Occurrences(i)' = {}
                        /\ \A j, k \in Occurrences(i)' : j = k
      BY DEF FramesOwned
    <3>1. \A j, k \in Occurrences(i) : j = k
      BY DEF FramesOwned
    <3>2. CASE i = Head(commands)
      <4>1. Occurrences(i) = {1} /\ Occurrences(i)' = {}
        BY <2>2, <3>1, <3>2
      <4> QED BY <2>1, <3>2, <4>1 DEF FramesOwned
    <3>3. CASE i # Head(commands)
      <4>1. 1 \notin Occurrences(i) /\ (Occurrences(i)' # {} <=> Occurrences(i) # {})
        BY <2>2, <3>3
      <4>2. \A j, k \in Occurrences(i)' : j = k
        BY <2>2, <3>1
      <4> QED BY <2>1, <3>3, <4>1, <4>2, IndexNotZero DEF FramesOwned
    <3> QED BY <3>2, <3>3
  <2> QED BY <2>4, <2>5
<1>8. CASE OnSendFrame
  <2>1. /\ task = "media" /\ task' = "wait" /\ inTask' = 0 /\ frames' = frames \ {inTask}
        /\ dropped = {} /\ UNCHANGED <<net, current, taskExit, commands, dropped, handled>>
    BY <1>8 DEF OnSendFrame, OwnerInv
  <2>2. \A i \in Index : Occurrences(i)' = Occurrences(i)
    BY <2>1 DEF Occurrences
  <2>3. net = "put" => Occurrences(current)' = {} /\ current # 0
    BY <1>0, <2>1 DEF OwnerInv, Occurrences, ReceiveInv, HandlerInv, InHandler
  <2>4. OwnerInv'
    BY <2>1, <2>3 DEF OwnerInv
  <2>5. inTask \in Index
    BY <1>0, <2>1 DEF ReceiveInv, TypeOK, OwnerInv
  <2>6. net = "put" => current # inTask
    BY <2>1 DEF OwnerInv
  <2>7. FramesOwned'
    BY <2>1, <2>2, <2>5, <2>6, IndexNotZero DEF FramesOwned
  <2> QED BY <2>4, <2>7
<1>9. CASE TaskEnds
  <2>1. /\ task = "wait" /\ taskExit /\ net = "off" /\ inTask = 0 /\ dropped = {}
        /\ task' = "off" /\ commands' = <<>> /\ net' = net /\ handled' = handled
        /\ dropped' = {commands[j] : j \in 1 .. Len(commands)}
        /\ UNCHANGED <<current, taskExit, inTask, frames>>
    BY <1>0, <1>9 DEF TaskEnds, OwnerInv, ReceiveInv, PlaceInv
  <2>2. \A i \in Index : Occurrences(i)' = {} /\ (i \in dropped' <=> Occurrences(i) # {})
    BY <2>1 DEF Occurrences
  <2> QED BY <2>1, <2>2, IndexNotZero DEF OwnerInv, FramesOwned
<1>10. CASE SeeType \/ SetExit \/ StopService \/ JoinTask \/ ResetSession \/ ResetService
  BY <1>1, <1>10 DEF SeeType, SetExit, StopService, JoinTask, ResetSession, ResetService
<1>11. ASSUME NEW i \in Index, Arrive(i) PROVE OwnerInv' /\ FramesOwned'
  BY <1>1, <1>11 DEF Arrive
<1>12. CASE Read
  BY <1>1, <1>12 DEF Read, NextAfterCreate
<1>13. CASE Rearm \/ NetworkEnds
  BY <1>1, <1>13 DEF Rearm, NetworkEnds
<1>14. CASE UNCHANGED vars
  BY <1>1, <1>14 DEF vars
<1>15. CASE ReadFails
  BY <1>1, <1>15 DEF ReadFails
<1> QED
  BY <1>2, <1>3, <1>4, <1>5, <1>6, <1>7, <1>8, <1>9, <1>10, <1>11, <1>12, <1>13, <1>14, <1>15
     DEF Next, Tear, Network, Task

(* Every media frame that is allocated has exactly one owner, and none is  *)
(* freed that somebody still has (RtpStream::send_frame, on_send_frame).   *)
THEOREM EachFrameHasAnOwner == Spec => []FramesOwned
<1>1. FrameInv /\ [Next]_vars => FrameInv'
  BY TypeStep, PlaceStep, ReadStep, SocketStep, OwnerStep DEF FrameInv, ReceiveInv
<1>2. FrameInv => FramesOwned
  BY DEF FrameInv
<1> QED BY FrameInit, <1>1, <1>2, PTL DEF Spec
=============================================================================
