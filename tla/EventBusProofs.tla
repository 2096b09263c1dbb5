--------------------------- MODULE EventBusProofs ---------------------------
(* The lives of the modules on the bus, whoever posts, releases or deletes *)
(* and whenever the worker dispatches.                                     *)
EXTENDS EventBus, TLAPS

(* The owner of a module holds a reference until its release; one that is  *)
(* deleted instead leaves it in the count.                                 *)
Owned(m) == IF m \in Counted THEN life[m] = "live" ELSE life[m] # "unborn"

Holders(m) == (IF Owned(m) THEN 1 ELSE 0) + (IF m \in recipients THEN 1 ELSE 0)

Types ==
  /\ busExit \in BOOLEAN /\ closing \in {"no", "exit", "join"} /\ signalled \in BOOLEAN
  /\ events \in Seq(EventType) /\ registered \subseteq Module
  /\ life \in [Module -> {"unborn", "live", "released", "dying", "freed"}]
  /\ refs \in [Module -> Int]
  /\ worker \in {"lock", "unlocked", "wait", "dispatch", "ended"}
  /\ recipients \subseteq Module /\ late \subseteq Module
  /\ posted \in Nat /\ done \in Nat /\ broken \in BOOLEAN

(* The worker has recipients only while it dispatches; a module that is    *)
(* registered has not been freed, and one released but not yet gone is     *)
(* held by the worker.                                                     *)
LifeInv ==
  /\ worker # "dispatch" => recipients = {} /\ late = {}
  /\ \A m \in Module :
       /\ refs[m] = Holders(m)
       /\ m \in registered => life[m] \notin {"unborn", "freed"}
       /\ life[m] = "released" => m \in recipients /\ m \in Counted
       /\ m \in recipients => life[m] # "unborn"

BusInv == Types /\ LifeInv /\ RecipientsExist

LEMMA TypesStep == Types /\ [BusNext]_busVars => Types'
<1> SUFFICES ASSUME Types, [BusNext]_busVars PROVE Types'
  OBVIOUS
<1> USE DEF Types, moduleVars, workVars
<1>1. ASSUME NEW m \in Module, Register(m) \/ OwnerReleases(m) \/ OwnerDeletes(m) \/ Deregister(m)
      PROVE  Types'
  <2>1. UNCHANGED <<busExit, closing, signalled, events, posted, workVars>>
    BY <1>1 DEF Register, OwnerReleases, OwnerDeletes, Deregister
  <2>2. \E l \in {"live", "released", "dying", "freed"} : life' = [life EXCEPT ![m] = l]
    BY <1>1 DEF Register, OwnerReleases, OwnerDeletes, Deregister
  <2>3. refs' = refs \/ refs' = [refs EXCEPT ![m] = 1] \/ refs' = [refs EXCEPT ![m] = @ - 1]
    BY <1>1 DEF Register, OwnerReleases, OwnerDeletes, Deregister
  <2>4. refs' \in [Module -> Int]
    BY <2>3
  <2>5. registered' \subseteq Module
    BY <1>1 DEF Register, OwnerReleases, OwnerDeletes, Deregister
  <2> QED BY <2>1, <2>2, <2>4, <2>5
<1>2. ASSUME NEW type \in EventType, Post(type) PROVE Types'
  BY <1>2 DEF Post, Wake
<1>3. CASE SetExit \/ SignalExit
  BY <1>3 DEF SetExit, SignalExit, Wake
<1>4. CASE Take
  <2>1. events \in Seq(EventType) /\ events # <<>> /\ events' = Tail(events)
    BY <1>4 DEF Take
  <2>2. events' \in Seq(EventType)
    BY <2>1
  <2>3. \A M \in SUBSET Module : AddRefs(M) => refs' \in [Module -> Int]
    BY DEF AddRefs
  <2>4. Matching(Head(events)) \subseteq Module
    BY DEF Matching
  <2>5. recipients' \subseteq Module /\ late' \subseteq Module /\ refs' \in [Module -> Int]
    BY <1>4, <2>3, <2>4 DEF Take
  <2> QED BY <1>4, <2>2, <2>5 DEF Take
<1>5. CASE Unlocks \/ BeginsWait \/ Woken \/ Dispatched \/ WorkerEnds
  <2>1. UNCHANGED <<busExit, closing, events, posted, moduleVars, recipients, broken>>
    BY <1>5 DEF Unlocks, BeginsWait, Woken, Dispatched, WorkerEnds
  <2>2. /\ signalled' \in {signalled, FALSE} /\ late' \in {late, {}}
        /\ done' \in {done, done + 1}
    BY <1>5 DEF Unlocks, BeginsWait, Woken, Dispatched, WorkerEnds
  <2>3. worker' \in {"lock", "unlocked", "wait", "ended"}
    BY <1>5 DEF Unlocks, BeginsWait, Woken, Dispatched, WorkerEnds
  <2>4. late' \subseteq Module
    BY <2>2
  <2>5. done' \in Nat
    BY <2>2
  <2>6. signalled' \in BOOLEAN
    BY <2>2, Zenon
  <2> QED BY <2>1, <2>3, <2>4, <2>5, <2>6
<1>6. ASSUME NEW m \in Module, Dispatch(m) PROVE Types'
  BY <1>6 DEF Dispatch
<1>7. CASE UNCHANGED busVars
  BY <1>7 DEF busVars
<1> QED BY <1>1, <1>2, <1>3, <1>4, <1>5, <1>6, <1>7 DEF BusNext, Worker

LEMMA LifeStep == Types /\ LifeInv /\ RecipientsExist /\ [BusNext]_busVars => LifeInv'
<1> SUFFICES ASSUME Types, LifeInv, RecipientsExist, [BusNext]_busVars PROVE LifeInv'
  OBVIOUS
<1> USE DEF Types, LifeInv, Holders, Owned, moduleVars, workVars
<1>1. ASSUME NEW m \in Module, Register(m) PROVE LifeInv'
  BY <1>1 DEF Register
<1>2. ASSUME NEW m \in Module, OwnerReleases(m) PROVE LifeInv'
  BY <1>2 DEF OwnerReleases
<1>3. ASSUME NEW m \in Module, OwnerDeletes(m) \/ Deregister(m) PROVE LifeInv'
  BY <1>3 DEF OwnerDeletes, Deregister
<1>4. CASE (\E type \in EventType : Post(type)) \/ SetExit \/ SignalExit
  BY <1>4 DEF Post, SetExit, SignalExit
<1>5. CASE Take
  <2> DEFINE M == Matching(Head(events))
  <2>1. /\ recipients = {} /\ recipients' = M /\ worker' = "dispatch"
        /\ UNCHANGED <<registered, life>>
        /\ refs' = [m \in Module |-> refs[m] + IF m \in M THEN 1 ELSE 0]
    BY <1>5 DEF Take, AddRefs
  <2>2. M \subseteq registered
    BY DEF Matching
  <2> HIDE DEF M
  <2>3. ASSUME NEW m \in Module
        PROVE  refs'[m] = Holders(m)' /\ (m \in recipients' => life[m] # "unborn")
    BY <2>1, <2>2
  <2> QED BY <2>1, <2>3
<1>6. CASE Unlocks \/ BeginsWait \/ Woken \/ Dispatched \/ WorkerEnds
  BY <1>6 DEF Unlocks, BeginsWait, Woken, Dispatched, WorkerEnds
<1>7. ASSUME NEW m \in Module, Dispatch(m) PROVE LifeInv'
  <2>1. /\ m \in recipients /\ recipients' = recipients \ {m} /\ worker' = "dispatch"
        /\ refs' = [refs EXCEPT ![m] = @ - 1]
    BY <1>7 DEF Dispatch
  <2>2. /\ life[m] = "released" => refs[m] = 1
        /\ life[m] # "released" => UNCHANGED <<life, registered>>
    <3>1. ASSUME life[m] = "released" PROVE refs[m] = 1
      <4>1. refs[m] = Holders(m) /\ m \in Counted
        BY <3>1
      <4> QED BY <2>1, <3>1, <4>1
    <3> QED BY <1>7, <3>1 DEF Dispatch
  <2>3. life[m] = "released" => /\ life' = [life EXCEPT ![m] = "freed"]
                                /\ registered' = registered \ {m}
    BY <1>7, <2>2 DEF Dispatch
  <2>4. ASSUME NEW n \in Module, n # m
        PROVE  /\ refs'[n] = refs[n] /\ life'[n] = life[n]
               /\ n \in recipients' <=> n \in recipients
               /\ n \in registered' <=> n \in registered
    BY <2>1, <2>2, <2>3, <2>4
  <2>5. /\ refs'[m] = refs[m] - 1 /\ m \notin recipients'
        /\ Owned(m)' = Owned(m)
        /\ life'[m] # "released"
        /\ m \in registered' => life'[m] \notin {"unborn", "freed"}
    BY <2>1, <2>2, <2>3
  <2>6. \A n \in Module : refs'[n] = Holders(n)'
    BY <2>1, <2>4, <2>5
  <2>7. ASSUME NEW n \in Module
        PROVE  /\ n \in registered' => life'[n] \notin {"unborn", "freed"}
               /\ life'[n] = "released" => n \in recipients' /\ n \in Counted
               /\ n \in recipients' => life'[n] # "unborn"
    <3>1. CASE n = m
      BY <2>5, <3>1
    <3>2. CASE n # m
      BY <2>4, <3>2
    <3> QED BY <3>1, <3>2
  <2> QED BY <2>1, <2>6, <2>7
<1>8. CASE UNCHANGED busVars
  BY <1>8 DEF busVars
<1> QED BY <1>1, <1>2, <1>3, <1>4, <1>5, <1>6, <1>7, <1>8 DEF BusNext, Worker

LEMMA RecipientsStep ==
  Types /\ LifeInv /\ RecipientsExist /\ [BusNext]_busVars => RecipientsExist'
<1> SUFFICES ASSUME Types, LifeInv, RecipientsExist, [BusNext]_busVars PROVE RecipientsExist'
  OBVIOUS
<1> USE DEF Types, LifeInv, Holders, Owned, RecipientsExist, moduleVars, workVars
<1>0. SUFFICES ASSUME ~broken PROVE RecipientsExist'
  <2>1. broken => UNCHANGED busVars
    BY DEF BusNext
  <2> QED BY <2>1 DEF busVars
<1>1. ASSUME NEW m \in Module, Register(m) PROVE RecipientsExist'
  BY <1>0, <1>1 DEF Register
<1>2. ASSUME NEW m \in Module, OwnerReleases(m) PROVE RecipientsExist'
  BY <1>0, <1>2 DEF OwnerReleases
<1>3. ASSUME NEW m \in Module, OwnerDeletes(m) \/ Deregister(m) PROVE RecipientsExist'
  <2>1. ~broken' /\ UNCHANGED <<recipients, late, refs>>
    BY <1>0, <1>3 DEF OwnerDeletes, Deregister
  <2>2. ASSUME NEW n \in (recipients \cap Counted) \ late PROVE life'[n] = life[n]
    <3>1. n # m
      BY <1>3, <2>2 DEF OwnerDeletes, Deregister
    <3> QED BY <1>3, <2>2, <3>1 DEF OwnerDeletes, Deregister
  <2> QED BY <2>1, <2>2
<1>4. CASE (\E type \in EventType : Post(type)) \/ SetExit \/ SignalExit
  BY <1>0, <1>4 DEF Post, SetExit, SignalExit
<1>5. CASE Take
  <2> DEFINE M == Matching(Head(events))
  <2>1. /\ recipients = {} /\ recipients' = M /\ M \subseteq registered
        /\ late' = {m \in M : life[m] = "dying"} /\ life' = life
        /\ refs' = [m \in Module |-> refs[m] + IF m \in M THEN 1 ELSE 0]
    BY <1>5 DEF Take, AddRefs, Matching
  <2> HIDE DEF M
  <2>2. \A m \in Module : refs[m] >= 0
    OBVIOUS
  <2>3. \A m \in recipients' : m \in Module /\ m \in registered /\ refs'[m] > 0
    BY <2>1, <2>2
  <2>4. \A m \in (recipients' \cap Counted) \ late' : life'[m] \in {"live", "released"}
    BY <2>1, <2>3
  <2>5. ~broken'
    BY <1>0, <1>5 DEF Take
  <2> QED BY <2>3, <2>4, <2>5
<1>6. CASE Unlocks \/ BeginsWait \/ Woken \/ Dispatched \/ WorkerEnds
  BY <1>0, <1>6 DEF Unlocks, BeginsWait, Woken, Dispatched, WorkerEnds
<1>7. ASSUME NEW m \in Module, Dispatch(m) PROVE RecipientsExist'
  <2>1. /\ m \in recipients /\ recipients' = recipients \ {m} /\ late' = late
        /\ refs' = [refs EXCEPT ![m] = @ - 1]
        /\ \A n \in Module : n # m => life'[n] = life[n]
        /\ broken' => life[m] \in {"dying", "freed"} /\ life'[m] = life[m]
    BY <1>7 DEF Dispatch
  <2>2. \A n \in (recipients' \cap Counted) \ late' :
           life'[n] \in {"live", "released"} /\ refs'[n] > 0
    BY <2>1
  <2>3. ASSUME broken' PROVE m \in late \/ m \notin Counted
    BY <2>1, <2>3
  <2>4. broken' => \E n \in Module \ recipients' :
                     (n \in late' \/ n \notin Counted) /\ life'[n] \in {"dying", "freed"}
    BY <2>1, <2>3
  <2> QED BY <2>2, <2>4
<1>8. CASE UNCHANGED busVars
  BY <1>8 DEF busVars
<1> QED BY <1>1, <1>2, <1>3, <1>4, <1>5, <1>6, <1>7, <1>8 DEF BusNext, Worker

LEMMA BusInvariant == BusSpec => []BusInv
<1>1. BusInit => BusInv
  <2> SUFFICES ASSUME BusInit PROVE BusInv
    OBVIOUS
  <2>1. Types
    <3>1. events \in Seq(EventType)
      BY DEF BusInit
    <3>2. life \in [Module -> {"unborn", "live", "released", "dying", "freed"}]
      BY DEF BusInit
    <3>3. refs \in [Module -> Int]
      BY DEF BusInit
    <3> QED BY <3>1, <3>2, <3>3 DEF BusInit, Types
  <2>2. LifeInv /\ RecipientsExist
    BY DEF BusInit, LifeInv, Holders, Owned, RecipientsExist
  <2> QED BY <2>1, <2>2 DEF BusInv
<1>2. BusInv /\ [BusNext]_busVars => BusInv'
  BY TypesStep, LifeStep, RecipientsStep DEF BusInv
<1> QED BY <1>1, <1>2, PTL DEF BusSpec

(* Types: the count of a module never becomes negative, however its owner  *)
(* and the worker share it.                                                *)
THEOREM BusTypes == BusSpec => []BusTypeOK
<1>1. BusInv => BusTypeOK
  <2> SUFFICES ASSUME BusInv PROVE BusTypeOK
    OBVIOUS
  <2>1. \A m \in Module : refs[m] \in Nat
    <3> TAKE m \in Module
    <3>1. refs[m] = Holders(m)
      BY DEF BusInv, LifeInv
    <3> QED BY <3>1 DEF Holders
  <2> QED BY <2>1 DEF BusInv, Types, BusTypeOK
<1> QED BY <1>1, BusInvariant, PTL

(* What the worker's reference protects, and what it does not: a module    *)
(* that ends with release and was found with a count above 0 lives until   *)
(* it has its event; freed memory is used only for a module found with     *)
(* count 0 or deleted whatever its count is (Svc, release).                *)
THEOREM ReferencesProtect == BusSpec => []RecipientsExist
  BY BusInvariant, PTL DEF BusInv
=============================================================================
