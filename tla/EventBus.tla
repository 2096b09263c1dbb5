------------------------------ MODULE EventBus ------------------------------
(***************************************************************************)
(* Events/EventBus.cc: modules register themselves when they are           *)
(* constructed (AVModule) and deregister in their destructor; any thread   *)
(* posts events; one worker dispatches each event to the modules that are  *)
(* registered for its type, and keeps them alive with a reference while it *)
(* does.  A step is one region under EventBus::m_lock, or one access under *)
(* no lock.                                                                *)
(***************************************************************************)
EXTENDS Integers, Sequences

CONSTANTS
  Module,     \* AVModules
  Counted,    \* those whose owner ends with release, not with delete
  EventType,
  EvtMask,    \* the types of event that each module registers for
  MaxEvents   \* bound: events posted

ASSUME ModuleAssumption ==
  /\ Counted \subseteq Module
  /\ EvtMask \in [Module -> SUBSET EventType]
  /\ MaxEvents \in Nat

VARIABLES
  busExit,     \* m_exit
  closing,     \* where the destructor of the bus is
  signalled,   \* m_cond: a signal that no wait has taken
  events,      \* m_events: the types of the events in the queue
  registered,  \* m_modules
  life,        \* of each module
  refs,        \* m_ref_count
  worker,      \* where Svc is
  recipients,  \* the modules it still has to dispatch the event to
  late,        \* history: those it found when their destructor had begun
  posted, done,\* history: events posted, and dispatched
  broken       \* a module was used after it was freed, or deleted twice

moduleVars == <<registered, life, refs>>
workVars   == <<worker, recipients, late, done, broken>>
busVars    == <<busExit, closing, signalled, events, posted, moduleVars, workVars>>

BusInit ==
  /\ busExit = FALSE /\ closing = "no" /\ signalled = FALSE
  /\ events = <<>> /\ registered = {}
  /\ life = [m \in Module |-> "unborn"] /\ refs = [m \in Module |-> 0]
  /\ worker = "lock" /\ recipients = {} /\ late = {}
  /\ posted = 0 /\ done = 0 /\ broken = FALSE

-----------------------------------------------------------------------------
(* CProThreadMutexCondition: a signal is kept until a wait takes it.       *)

(* Mutant: a signal that comes before the wait is lost. *)
WakeWaiting == signalled' = (worker = "wait")

Wake == signalled' = TRUE

(* AVModule's constructor, with the reference of whoever creates it.       *)
Register(m) ==
  /\ life[m] = "unborn" /\ closing = "no"
  /\ life' = [life EXCEPT ![m] = "live"]
  /\ refs' = [refs EXCEPT ![m] = 1]
  /\ registered' = registered \cup {m}
  /\ UNCHANGED <<busExit, closing, signalled, events, posted, workVars>>

(* The owner's release: under the lock of the count, not of the bus.       *)
OwnerReleases(m) ==
  /\ m \in Counted /\ life[m] = "live"
  /\ refs' = [refs EXCEPT ![m] = @ - 1]
  /\ life' = [life EXCEPT ![m] = IF refs'[m] = 0 THEN "dying" ELSE "released"]
  /\ UNCHANGED <<busExit, closing, signalled, events, posted, registered, workVars>>

(* Depacketizers, and players that could not be built, are deleted without  *)
(* a look at the count.                                                    *)
OwnerDeletes(m) ==
  /\ m \notin Counted /\ life[m] = "live"
  /\ life' = [life EXCEPT ![m] = "dying"]
  /\ UNCHANGED <<busExit, closing, signalled, events, posted, registered, refs, workVars>>

(* ~AVModule: deregister_module, after which the memory is freed.          *)
Deregister(m) ==
  /\ life[m] = "dying"
  /\ registered' = registered \ {m}
  /\ life' = [life EXCEPT ![m] = "freed"]
  /\ UNCHANGED <<busExit, closing, signalled, events, posted, refs, workVars>>

Post(type) ==
  /\ posted < MaxEvents /\ closing = "no"
  /\ posted' = posted + 1
  /\ events' = Append(events, type)
  /\ Wake
  /\ UNCHANGED <<busExit, closing, moduleVars, workVars>>

(* The destructor of the bus sets m_exit and signals, under no lock, and   *)
(* then waits for the worker.                                              *)
SetExit ==
  /\ closing = "no"
  /\ closing' = "exit" /\ busExit' = TRUE
  /\ UNCHANGED <<signalled, events, posted, moduleVars, workVars>>

SignalExit ==
  /\ closing = "exit"
  /\ closing' = "join"
  /\ Wake
  /\ UNCHANGED <<busExit, events, posted, moduleVars, workVars>>

-----------------------------------------------------------------------------
Matching(type) == {m \in registered : type \in EvtMask[m]}

(* Mutant: the worker takes no reference. *)
AddRefsNot(M) == refs' = refs

AddRefs(M) == refs' = [m \in Module |-> refs[m] + IF m \in M THEN 1 ELSE 0]

(* Under m_lock: the next event and its recipients.  (When m_exit is set   *)
(* just after an event was taken, the event is lost with the bus.)         *)
Take ==
  /\ worker = "lock" /\ ~busExit /\ events # <<>>
  /\ LET M == Matching(Head(events))
     IN /\ recipients' = M
        /\ late' = {m \in M : life[m] = "dying"}
        /\ AddRefs(M)
  /\ events' = Tail(events)
  /\ worker' = "dispatch"
  /\ UNCHANGED <<busExit, closing, signalled, posted, registered, life, done, broken>>

(* m_cond.Wait lets m_lock go before it looks for the signal.              *)
Unlocks ==
  /\ worker = "lock" /\ ~busExit /\ events = <<>>
  /\ worker' = "unlocked"
  /\ UNCHANGED <<busExit, closing, signalled, events, posted, moduleVars,
                 recipients, late, done, broken>>

BeginsWait ==
  /\ worker = "unlocked"
  /\ worker' = "wait"
  /\ UNCHANGED <<busExit, closing, signalled, events, posted, moduleVars,
                 recipients, late, done, broken>>

Woken ==
  /\ worker = "wait" /\ signalled
  /\ signalled' = FALSE
  /\ worker' = "lock"
  /\ UNCHANGED <<busExit, closing, events, posted, moduleVars, recipients, late,
                 done, broken>>

(* on_event, on_event_dispatched and release.  The last release deletes    *)
(* the module in this thread; one whose destructor has begun in another is *)
(* then deleted twice.                                                     *)
Dispatch(m) ==
  /\ worker = "dispatch" /\ m \in recipients
  /\ recipients' = recipients \ {m}
  /\ refs' = [refs EXCEPT ![m] = @ - 1]
  /\ LET last == refs[m] = 1
     IN /\ broken' = (life[m] = "freed" \/ (last /\ life[m] = "dying"))
        /\ \/ /\ last /\ life[m] = "released"
              /\ life' = [life EXCEPT ![m] = "freed"]
              /\ registered' = registered \ {m}
           \/ /\ ~(last /\ life[m] = "released")
              /\ UNCHANGED <<life, registered>>
  /\ UNCHANGED <<busExit, closing, signalled, events, posted, worker, late, done>>

Dispatched ==
  /\ worker = "dispatch" /\ recipients = {}
  /\ worker' = "lock" /\ late' = {} /\ done' = done + 1
  /\ UNCHANGED <<busExit, closing, signalled, events, posted, moduleVars,
                 recipients, broken>>

WorkerEnds ==
  /\ worker = "lock" /\ busExit
  /\ worker' = "ended"
  /\ UNCHANGED <<busExit, closing, signalled, events, posted, moduleVars,
                 recipients, late, done, broken>>

Worker ==
  \/ Take \/ Unlocks \/ BeginsWait \/ Woken \/ Dispatched \/ WorkerEnds
  \/ \E m \in Module : Dispatch(m)

BusNext ==
  /\ ~broken
  /\ \/ \E m \in Module : Register(m) \/ OwnerReleases(m) \/ OwnerDeletes(m) \/ Deregister(m)
     \/ \E type \in EventType : Post(type)
     \/ SetExit \/ SignalExit
     \/ Worker

BusSpec == BusInit /\ [][BusNext]_busVars

(* The worker and the destructor of the bus run.                           *)
BusFairness ==
  /\ WF_busVars(~broken /\ Worker)
  /\ WF_busVars(~broken /\ SignalExit)

-----------------------------------------------------------------------------
(* Types. *)
BusTypeOK ==
  /\ busExit \in BOOLEAN /\ closing \in {"no", "exit", "join"} /\ signalled \in BOOLEAN
  /\ events \in Seq(EventType) /\ registered \subseteq Module
  /\ life \in [Module -> {"unborn", "live", "released", "dying", "freed"}]
  /\ refs \in [Module -> Nat]
  /\ worker \in {"lock", "unlocked", "wait", "dispatch", "ended"}
  /\ recipients \subseteq Module /\ late \subseteq Module
  /\ posted \in Nat /\ done \in Nat /\ broken \in BOOLEAN

(* What the worker's reference protects (EventBus.cc:130, 143).  A module  *)
(* that ends with release, and had not begun to when it was found, lives   *)
(* with a count above 0 until it has its event, whichever thread lets go   *)
(* last.  So if the worker ever uses freed memory or deletes twice, it is  *)
(* with a module that was found with count 0 and put back on a count       *)
(* (EventBus.cc:128), or with one that is deleted whatever its count is:   *)
(* such modules are not protected, and the code does reach those cases.    *)
RecipientsExist ==
  /\ \A m \in (recipients \cap Counted) \ late :
       life[m] \in {"live", "released"} /\ refs[m] > 0
  /\ broken => \E m \in Module \ recipients :
                 (m \in late \/ m \notin Counted) /\ life[m] \in {"dying", "freed"}

(* Every event is dispatched, unless the bus is destroyed: a signal that   *)
(* comes while the worker gives up the lock is not lost (EventBus.cc:117). *)
EventsDispatched ==
  \A n \in 1 .. MaxEvents : posted >= n ~> done >= n \/ busExit \/ broken

(* The destructor returns: the worker sees m_exit, although m_exit and the *)
(* signal come under no lock (EventBus.cc:16, 19).                         *)
BusEnds == closing = "join" ~> worker = "ended" \/ broken
=============================================================================
