----------------------- MODULE FermobConnection_proofs -----------------------
(***************************************************************************)
(* Proofs of the safety properties of FermobConnection, for every set of    *)
(* keys, both connection modes and any number of faults and waiting tasks.  *)
(*                                                                         *)
(* The invariants are layered. CoreInv holds however an operation is cut    *)
(* short: Control says where a holder of the lock can be, KeyPlaces what the *)
(* keys in memory, on disk and in the lamp are at each place, OursKnown what *)
(* is known here of a lamp of ours, Answers what the lamp has answered       *)
(* before it is acted on. What needs every operation to run to its end or    *)
(* through its handler is added in IInv: the keys in memory are those on     *)
(* disk, a connected link is proven, an open one has a timer behind it.      *)
(***************************************************************************)
EXTENDS Interruptions, SequenceTheorems, TLAPS

TypeInv == TypeOK /\ OneSlot

\* Only a command pairs, in its last pass; a task that has just the lock is blank.
Control ==
  /\ task.op = "none" <=> task.pc = "idle"
  /\ task.pc = "begin" => ~task.fresh /\ task.misses = 0
  /\ task.pc \in {"refresh", "probe", "info"} => ~task.fresh
  /\ task.pc \in {"pair", "save", "register", "reopen"} => task.fresh
  /\ task.fresh \/ task.pc = "probe" => task.op = "command"
  /\ task.op = "shutdown" => task.pc = "begin"
  /\ task.pc \in {"finish", "refresh"} => task.op = "checkin"
  /\ task.pc \in {"unpair", "broadcast", "discard"} => task.op = "unpair"
  /\ TwoPasses

\* A key in memory is the one on disk, or was: an unpair can be cancelled between removing
\* the record and forgetting it.
MemoryKnown == conn.haveKeys => conn.memKey # NoKey /\ store \in {NoKey, conn.memKey}

\* Between minting a key and registering it the lamp is registered to nobody here.
KeyPlaces ==
  /\ MemoryKnown
  /\ NeverLockedOut
  /\ task.pc = "open" => (task.fresh <=> ~conn.haveKeys)
  /\ task.pc \in {"pair", "save"} => ~conn.haveKeys
  /\ task.pc = "save" => conn.memKey \in Keys
  /\ task.pc = "register" => store = conn.memKey
  /\ task.pc \in {"save", "register"} => lamp.key \notin Keys
  /\ task.pc \in {"info", "register", "reopen", "ask", "refresh", "unpair", "broadcast"}
       => conn.haveKeys
  /\ task.pc = "discard" => lamp.key \notin Keys \/ lamp.missed
  /\ lamp.offer # NoKey => lamp.link /\ lamp.key = NoKey

\* A lamp of ours is on record, and known to the connection, under its own key or not at
\* all; and only such a lamp can have missed an UNREGISTER.
OursKnown ==
  /\ lamp.missed => lamp.key \in Keys
  /\ lamp.key \in Keys => /\ store \in {NoKey, lamp.key}
                          /\ conn.haveKeys => conn.memKey = lamp.key

\* What the lamp has answered by the time a holder acts on it, whoever left the link to it.
Answers ==
  /\ BroadcastOnFreshProof
  /\ ProbeBehindFailure
  /\ task.pc \in {"info", "ask"} => proof = "none"
  /\ task.pc = "unpair" /\ conn.verdict # "none" => proof = "now"
  /\ task.pc = "finish" => proof = "now"

\* A connected link is unproven only while the request that proves it is under way.
Proven ==
  /\ SessionProven
  /\ conn.connected /\ task.pc \notin {"ask", "probe"} => proof # "none"
  /\ task.pc = "ask" => conn.connected

\* A client that is open while no connect is under way has a timer behind it.
IdlePlaces ==
  /\ OnDemand /\ conn.client /\ ~closing
     /\ task.pc \in {"idle", "begin", "send", "finish", "refresh", "unpair",
                     "broadcast", "discard"} => idle # "none"
  /\ task.op = "checkin" /\ task.pc = "failed" => ~conn.client

\* What holds however a task is cut short.
CoreInv == TypeInv /\ Control /\ KeyPlaces /\ OursKnown /\ Answers

IInv == CoreInv /\ KeysMatchStore /\ Proven /\ IdlePlaces
-----------------------------------------------------------------------------
(* Type correctness and the slot that is held. *)


LEMMA NoTaskType == NoTask \in TaskFields
BY DEF NoTask, TaskFields, Ops, Places

LEMMA ClosedType == \A c \in ConnFields : Closed(c) \in ConnFields
BY DEF Closed, ConnFields

LEMMA DroppedType == \A l \in LampFields : Dropped(l) \in LampFields
BY DEF Dropped, LampFields, StoredKeys

LEMMA TypeInit == Init => TypeInv
<1> SUFFICES ASSUME Init PROVE TypeInv
  OBVIOUS
<1>1. conn \in ConnFields /\ slots = IF conn.client THEN 1 ELSE 0
  BY DEF Init, NewConn, ConnFields, StoredKeys
<1>2. lamp \in LampFields
  BY DEF Init, LampFields, LampKeys, StoredKeys
<1>3. queue \in Seq(Ops)
  BY DEF Init
<1>4. task \in TaskFields
  BY NoTaskType DEF Init
<1>5. idle \in {"none", "sleeping", "due"} /\ proof \in {"none", "earlier", "now"}
  BY DEF Init
<1>6. closing \in BOOLEAN /\ removal \in BOOLEAN /\ available \in BOOLEAN
  BY DEF Init
<1>7. store \in StoredKeys /\ slots \in Nat /\ faults \in Nat
  BY DEF Init
<1>8. OneSlot
  BY <1>1 DEF OneSlot
<1>9. TypeOK
  BY <1>1, <1>2, <1>3, <1>4, <1>5, <1>6, <1>7 DEF TypeOK
<1> QED
  BY <1>8, <1>9 DEF TypeInv

\* What the vocabulary of the steps does to the types.
LEMMA GotoType ==
  ASSUME TypeInv, NEW place \in Places, Goto(place)
  PROVE  task' \in TaskFields
BY DEF TypeInv, TypeOK, TaskFields, Goto

LEMMA RaiseType ==
  ASSUME TypeInv, NEW e \in {"other", "SILENT", "KEYS_REJECTED"}, Raise(e)
  PROVE  task' \in TaskFields
BY DEF TypeInv, TypeOK, TaskFields, Raise, Places

LEMMA ReleaseType == Release => task' \in TaskFields
BY NoTaskType DEF Release

LEMMA LoadedType == TypeInv => Loaded \in ConnFields
BY DEF TypeInv, TypeOK, ConnFields, Loaded, StoredKeys

LEMMA DisconnectType ==
  ASSUME TypeInv, NEW c \in ConnFields, Disconnect(c)
  PROVE  /\ conn' \in ConnFields /\ lamp' \in LampFields
         /\ slots' \in Nat /\ OneSlot'
         /\ proof' \in {"none", "earlier", "now"}
<1>1. conn' \in ConnFields /\ ~conn'.client
  BY ClosedType DEF Disconnect, Closed, ConnFields
<1>2. lamp' \in LampFields
  BY DroppedType DEF Disconnect, TypeInv, TypeOK
<1>3. slots' = 0
  BY DEF Disconnect, TypeInv, TypeOK, OneSlot, ConnFields
<1> QED
  BY <1>1, <1>2, <1>3 DEF OneSlot, Disconnect

\* The waiting tasks and the timer.
LEMMA TypeQueue ==
  ASSUME TypeInv,
         \/ \E op \in {"command", "unpair"} : RequestService(op)
         \/ CheckInDue \/ Shutdown \/ Acquire \/ FinishShutdown
         \/ IdleElapses \/ IdleDisconnect
  PROVE  TypeInv'
<1> USE DEF TypeInv, TypeOK, Ops
<1>1. ASSUME NEW op \in {"command", "unpair"}, RequestService(op) PROVE TypeInv'
  BY <1>1 DEF RequestService, OneSlot
<1>2. CASE CheckInDue
  BY <1>2 DEF CheckInDue, OneSlot
<1>3. CASE Shutdown
  BY <1>3 DEF Shutdown, OneSlot
<1>4. CASE Acquire
  <2>1. Head(queue) \in Ops /\ queue' \in Seq(Ops)
    BY <1>4, HeadTailProperties DEF Acquire
  <2>2. task' \in TaskFields
    BY <1>4, <2>1, NoTaskType DEF Acquire, NoTask, TaskFields, Places
  <2> QED
    BY <1>4, <2>1, <2>2 DEF Acquire, OneSlot
<1>5. CASE FinishShutdown
  BY <1>5, DisconnectType, ReleaseType DEF FinishShutdown
<1>6. CASE IdleElapses
  BY <1>6 DEF IdleElapses, OneSlot
<1>7. CASE IdleDisconnect
  BY <1>7, DisconnectType DEF IdleDisconnect
<1> QED
  BY <1>1, <1>2, <1>3, <1>4, <1>5, <1>6, <1>7

\* ensure_connected() as a caller enters it, and its steps.
LEMMA EnterConnectType ==
  ASSUME TypeInv, EnterConnect
  PROVE  /\ conn' \in ConnFields /\ task' \in TaskFields
         /\ conn'.client = conn.client
         /\ idle' \in {"none", "sleeping", "due"}
<1> USE DEF TypeInv, TypeOK
<1>1. Loaded.client = conn.client /\ Loaded \in ConnFields
  BY LoadedType DEF Loaded, ConnFields
<1>2. CASE LinkLooksUp
  <2>1. conn' = NoVerdict(Loaded) /\ ScheduleIdleDisconnect
    BY <1>2 DEF EnterConnect
  <2>2. conn' \in ConnFields /\ conn'.client = conn.client
    BY <1>1, <2>1 DEF NoVerdict, ConnFields
  <2>3. PICK place \in Places : Goto(place)
    BY <1>2 DEF EnterConnect, AfterConnect, Places
  <2>4. idle' \in {"none", "sleeping", "due"}
    BY <2>1 DEF ScheduleIdleDisconnect
  <2> QED
    BY <2>2, <2>3, <2>4, GotoType
<1>3. CASE ~LinkLooksUp
  <2>1. conn' \in ConnFields /\ conn'.client = conn.client
    BY <1>1, <1>3 DEF EnterConnect, ConnFields
  <2>2. task' \in TaskFields
    BY <1>1, <1>3 DEF EnterConnect, TaskFields, ConnFields, Places
  <2> QED
    BY <1>3, <2>1, <2>2 DEF EnterConnect
<1> QED
  BY <1>2, <1>3

LEMMA RepairType ==
  ASSUME TypeInv, Disconnect(Forgotten(conn)), RepairPass
  PROVE  /\ conn' \in ConnFields /\ lamp' \in LampFields /\ task' \in TaskFields
         /\ slots' \in Nat /\ OneSlot'
         /\ proof' \in {"none", "earlier", "now"}
<1>1. Forgotten(conn) \in ConnFields
  BY DEF TypeInv, TypeOK, ConnFields, Forgotten, StoredKeys
<1>2. task.pass + 1 \in Nat /\ "open" \in Places
  BY DEF TypeInv, TypeOK, TaskFields, Places
<1>3. task' \in TaskFields
  BY <1>2 DEF TypeInv, TypeOK, TaskFields, RepairPass
<1> QED
  BY <1>1, <1>3, DisconnectType

LEMMA HearType ==
  ASSUME TypeInv, NEW v, Hear(v)
  PROVE  faults' \in Nat
BY DEF TypeInv, TypeOK, Hear, Fault

LEMMA FailsType ==
  ASSUME TypeInv, NEW cause, Fails(cause)
  PROVE  faults' \in Nat
BY DEF TypeInv, TypeOK, Fails, Fault

LEMMA TypeConnect ==
  ASSUME TypeInv, Connect
  PROVE  TypeInv'
<1> USE DEF TypeInv, TypeOK
<1>1. CASE OpenLink
  <2>1. CASE Fault /\ Disconnect(conn) /\ Raise("other")
    BY <1>1, <2>1, DisconnectType, RaiseType DEF OpenLink, Fault
  <2>2. CASE ~(Fault /\ Disconnect(conn) /\ Raise("other"))
    <3>1. conn' \in ConnFields /\ conn'.client
      BY <1>1, <2>2, ClosedType DEF OpenLink, ConnFields
    <3>2. lamp' \in LampFields
      BY <1>1, <2>2, DroppedType DEF OpenLink, LampFields
    <3>3. slots' = 1
      BY <1>1, <2>2 DEF OpenLink, OneSlot, SlotsBeforeOpen, ConnFields
    <3>4. PICK place \in Places : Goto(place)
      BY <1>1, <2>2 DEF OpenLink, Places
    <3> QED
      BY <1>1, <2>2, <3>1, <3>2, <3>3, <3>4, GotoType DEF OpenLink, OneSlot
  <2> QED
    BY <2>1, <2>2
<1>2. CASE FetchModuleInfo
  <2>1. task' \in TaskFields
    BY <1>2, GotoType DEF FetchModuleInfo, Places
  <2>2. conn' \in ConnFields /\ conn'.client = conn.client /\ store' \in StoredKeys
    BY <1>2 DEF FetchModuleInfo, ConnFields, Record
  <2> QED
    BY <1>2, <2>1, <2>2 DEF FetchModuleInfo, OneSlot
<1>3. CASE ExchangeKeys
  <2>1. CASE Fails(~FreeLampListens) /\ Raise("other") /\ UNCHANGED <<conn, lamp>>
    BY <1>3, <2>1, RaiseType, FailsType DEF ExchangeKeys, OneSlot
  <2>2. CASE ~(Fails(~FreeLampListens) /\ Raise("other") /\ UNCHANGED <<conn, lamp>>)
    <3>1. PICK k \in Keys : /\ conn' = [conn EXCEPT !.memKey = k]
                            /\ lamp' = [lamp EXCEPT !.offer = k]
      BY <1>3, <2>2 DEF ExchangeKeys
    <3>2. conn' \in ConnFields /\ conn'.client = conn.client
      BY <3>1 DEF ConnFields, StoredKeys
    <3>3. lamp' \in LampFields
      BY <3>1 DEF LampFields, StoredKeys
    <3>4. task' \in TaskFields
      BY <1>3, <2>2, GotoType DEF ExchangeKeys, Places
    <3> QED
      BY <1>3, <2>2, <3>2, <3>3, <3>4 DEF ExchangeKeys, OneSlot
  <2> QED
    BY <2>1, <2>2
<1>4. CASE SaveKeys
  <2>1. task' \in TaskFields
    BY <1>4, GotoType DEF SaveKeys, Places
  <2>2. conn' \in ConnFields /\ conn'.client = conn.client /\ store' \in StoredKeys
    BY <1>4 DEF SaveKeys, ConnFields, Record
  <2> QED
    BY <1>4, <2>1, <2>2 DEF SaveKeys, OneSlot
<1>5. CASE RegisterEnd
  <2>1. task' \in TaskFields
    BY <1>5, GotoType, RaiseType DEF RegisterEnd, Places
  <2>2. lamp' \in LampFields
    BY <1>5 DEF RegisterEnd, LampFields, LampKeys, StoredKeys, ConnFields
  <2>3. faults' \in Nat
    BY <1>5, FailsType DEF RegisterEnd
  <2> QED
    BY <1>5, <2>1, <2>2, <2>3 DEF RegisterEnd, OneSlot
<1>6. CASE AskRetry
  <2>1. task' \in TaskFields /\ faults' \in Nat
    BY <1>6, HearType DEF AskRetry, TaskFields
  <2> QED
    BY <1>6, <2>1 DEF AskRetry, OneSlot
<1>7. CASE AskAnswered
  <2>1. task' \in TaskFields /\ faults' \in Nat
    BY <1>7, HearType, GotoType DEF AskAnswered, AfterConnect, Places
  <2>2. conn' \in ConnFields /\ conn'.client = conn.client
    BY <1>7 DEF AskAnswered, ConnFields, Verdicts
  <2> QED
    BY <1>7, <2>1, <2>2 DEF AskAnswered, OneSlot, ScheduleIdleDisconnect
<1>8. CASE AskRefused
  <2>1. PICK v \in {"SILENT", "KEYS_REJECTED"} : Hear(v) /\ Disconnect(conn) /\ Raise(v)
    BY <1>8 DEF AskRefused, Verdicts
  <2> QED
    BY <1>8, <2>1, HearType, DisconnectType, RaiseType DEF AskRefused
<1>9. CASE AskRepair
  BY <1>9, HearType, RepairType DEF AskRepair
<1>10. CASE AskSilentTwice
  <2>1. task' \in TaskFields /\ faults' \in Nat
    BY <1>10, HearType, GotoType DEF AskSilentTwice, Places
  <2>2. conn' \in ConnFields /\ conn'.client = conn.client
    BY <1>10 DEF AskSilentTwice, ConnFields, Verdicts
  <2> QED
    BY <1>10, <2>1, <2>2 DEF AskSilentTwice, OneSlot
<1>11. CASE ProbeReset
  BY <1>11, RepairType DEF ProbeReset
<1>12. CASE ProbeStillPaired
  BY <1>12, FailsType, DisconnectType, RaiseType DEF ProbeStillPaired
<1> QED
  BY <1>1, <1>2, <1>3, <1>4, <1>5, <1>6, <1>7, <1>8, <1>9, <1>10, <1>11, <1>12
  DEF Connect

LEMMA TypeCommand ==
  ASSUME TypeInv, Command
  PROVE  TypeInv'
<1> USE DEF TypeInv, TypeOK
<1>1. CASE BeginCommand
  BY <1>1, EnterConnectType DEF BeginCommand, OneSlot
<1>2. CASE SendLed
  BY <1>2, ReleaseType, RaiseType DEF SendLed, OneSlot
<1>3. CASE CommandFailed
  BY <1>3, DisconnectType, ReleaseType DEF CommandFailed
<1> QED
  BY <1>1, <1>2, <1>3 DEF Command

LEMMA TypeCheckIn ==
  ASSUME TypeInv, CheckIn
  PROVE  TypeInv'
<1> USE DEF TypeInv, TypeOK
<1>1. CASE BeginCheckIn
  <2>1. Loaded \in ConnFields /\ Loaded.client = conn.client
    BY LoadedType DEF Loaded, ConnFields
  <2> QED
    BY <1>1, <2>1, EnterConnectType, ReleaseType DEF BeginCheckIn, OneSlot
<1>2. CASE RefreshAnswered
  <2>1. task' \in TaskFields /\ faults' \in Nat
    BY <1>2, HearType, GotoType DEF RefreshAnswered, Places
  <2> QED
    BY <1>2, <2>1 DEF RefreshAnswered, OneSlot
<1>3. CASE RefreshDead
  <2>1. faults' \in Nat
    BY <1>3, HearType DEF RefreshDead
  <2>2. task' \in TaskFields
    BY <1>3 DEF RefreshDead, TaskFields, Places
  <2> QED
    BY <1>3, <2>1, <2>2, DisconnectType DEF RefreshDead
<1>4. CASE FinishCheckIn
  BY <1>4, ReleaseType DEF FinishCheckIn, OneSlot
<1>5. CASE CheckInFailed
  <2>1. Report \in BOOLEAN
    BY DEF Report, TaskFields
  <2> QED
    BY <1>5, <2>1, ReleaseType DEF CheckInFailed, OneSlot
<1> QED
  BY <1>1, <1>2, <1>3, <1>4, <1>5 DEF CheckIn

LEMMA UnpairVerdictType ==
  ASSUME TypeInv, NEW v, UnpairVerdict(v)
  PROVE  faults' \in Nat
BY HearType DEF TypeInv, TypeOK, UnpairVerdict

LEMMA TypeUnpair ==
  ASSUME TypeInv, Unpair
  PROVE  TypeInv'
<1> USE DEF TypeInv, TypeOK
<1>1. CASE BeginUnpair
  <2>1. Loaded \in ConnFields /\ Loaded.client = conn.client
    BY LoadedType DEF Loaded, ConnFields
  <2> QED
    BY <1>1, <2>1, EnterConnectType, ReleaseType DEF BeginUnpair, OneSlot
<1>2. CASE UnpairRetry
  <2>1. task' \in TaskFields /\ faults' \in Nat
    BY <1>2, UnpairVerdictType DEF UnpairRetry, TaskFields
  <2> QED
    BY <1>2, <2>1 DEF UnpairRetry, OneSlot
<1>3. CASE UnpairAnswered
  <2>1. task' \in TaskFields /\ faults' \in Nat
    BY <1>3, UnpairVerdictType, GotoType DEF UnpairAnswered, Places
  <2> QED
    BY <1>3, <2>1 DEF UnpairAnswered, OneSlot
<1>4. CASE UnpairRefused
  <2>1. task' \in TaskFields /\ faults' \in Nat
    BY <1>4, UnpairVerdictType, RaiseType DEF UnpairRefused, Verdicts, MayRelease
  <2> QED
    BY <1>4, <2>1 DEF UnpairRefused, OneSlot
<1>5. CASE Broadcast
  <2>1. task' \in TaskFields
    BY <1>5, GotoType, RaiseType DEF Broadcast, Places
  <2>2. lamp' \in LampFields
    <3>1. lamp \in LampFields /\ NoKey \in LampKeys
      BY DEF TypeInv, TypeOK, LampKeys, StoredKeys
    <3>2. LetGo(lamp) \in LampFields
      BY <3>1 DEF LetGo, LampFields
    <3>3. \A b \in BOOLEAN : [lamp EXCEPT !.missed = b] \in LampFields
      BY <3>1 DEF LampFields
    <3>4. (lamp.key \in Keys) \in BOOLEAN
      OBVIOUS
    <3> QED
      BY <1>5, <3>1, <3>2, <3>3, <3>4 DEF Broadcast, Missed
  <2>3. faults' \in Nat
    BY <1>5 DEF Broadcast, Fails, Fault, TypeInv, TypeOK
  <2> QED
    BY <1>5, <2>1, <2>2, <2>3 DEF Broadcast, OneSlot
<1>6. CASE DiscardKeys
  <2>1. [Forgotten(conn) EXCEPT !.keysLoaded = TRUE] \in ConnFields
    BY DEF Forgotten, ConnFields, StoredKeys
  <2> QED
    BY <1>6, <2>1, DisconnectType, ReleaseType DEF DiscardKeys, StoredKeys
<1>7. CASE UnpairFailed
  BY <1>7, DisconnectType, ReleaseType DEF UnpairFailed
<1> QED
  BY <1>1, <1>2, <1>3, <1>4, <1>5, <1>6, <1>7 DEF Unpair

LEMMA TypeEnvironment ==
  ASSUME TypeInv, Environment
  PROVE  TypeInv'
<1> USE DEF TypeInv, TypeOK, OneSlot
<1>a. ASSUME Fault PROVE faults' \in Nat
  BY <1>a DEF Fault
<1>1. CASE LinkDrops
  BY <1>1, <1>a, DroppedType DEF LinkDrops
<1>2. CASE SessionDies
  <2>1. lamp' \in LampFields
    BY <1>2 DEF SessionDies, LampFields
  <2> QED
    BY <1>2, <1>a, <2>1 DEF SessionDies
<1>3. CASE FactoryReset
  <2>1. lamp' \in LampFields
    BY <1>3 DEF FactoryReset, LampFields, LampKeys, StoredKeys
  <2> QED
    BY <1>3, <1>a, <2>1 DEF FactoryReset
<1>4. CASE AppPairs
  <2>1. lamp' \in LampFields
    BY <1>4 DEF AppPairs, LampFields, LampKeys
  <2> QED
    BY <1>4, <1>a, <2>1 DEF AppPairs
<1>5. CASE LampPush
  BY <1>5 DEF LampPush
<1> QED
  BY <1>1, <1>2, <1>3, <1>4, <1>5 DEF Environment

LEMMA TypeStep == TypeInv /\ [Next]_vars => TypeInv'
<1> SUFFICES ASSUME TypeInv, [Next]_vars PROVE TypeInv'
  OBVIOUS
<1>1. CASE UNCHANGED vars
  BY <1>1 DEF TypeInv, TypeOK, OneSlot, vars
<1> QED
  BY <1>1, TypeQueue, TypeConnect, TypeCommand, TypeCheckIn, TypeUnpair, TypeEnvironment
  DEF Next, Holder

\* The fields of the connection, the task and the lamp stay what they are declared to
\* be, whatever loses its way.
THEOREM TypeCorrect == Spec => []TypeOK
<1>1. TypeInv => TypeOK
  BY DEF TypeInv
<1> QED
  BY <1>1, TypeInit, TypeStep, PTL DEF Spec

\* Exactly as many BLE clients are open as the connection can still close.
THEOREM ClientsClosed == Spec => []OneSlot
<1>1. TypeInv => OneSlot
  BY DEF TypeInv
<1> QED
  BY <1>1, TypeInit, TypeStep, PTL DEF Spec

-----------------------------------------------------------------------------
(* What the vocabulary of the steps does, field by field. *)

LEMMA GotoEffect ==
  ASSUME TypeInv, NEW place, Goto(place)
  PROVE  /\ task'.pc = place /\ task'.op = task.op /\ task'.fresh = task.fresh
         /\ task'.pass = task.pass /\ task'.misses = task.misses
BY DEF TypeInv, TypeOK, TaskFields, Goto

LEMMA RaiseEffect ==
  ASSUME TypeInv, NEW e, Raise(e)
  PROVE  /\ task'.pc = "failed" /\ task'.op = task.op /\ task'.fresh = task.fresh
         /\ task'.pass = task.pass
BY DEF TypeInv, TypeOK, TaskFields, Raise

LEMMA ReleaseEffect ==
  ASSUME Release
  PROVE  /\ task'.pc = "idle" /\ task'.op = "none" /\ ~task'.fresh
         /\ task'.pass = 1 /\ task'.misses = 0
BY DEF Release, NoTask

LEMMA RepairEffect ==
  ASSUME TypeInv, RepairPass
  PROVE  /\ task'.pc = "open" /\ task'.op = task.op /\ task'.fresh
         /\ task'.pass = task.pass + 1
BY DEF TypeInv, TypeOK, TaskFields, RepairPass

LEMMA DisconnectEffect ==
  ASSUME TypeInv, NEW c \in ConnFields, Disconnect(c)
  PROVE  /\ ~conn'.client /\ ~conn'.connected /\ conn'.verdict = "none"
         /\ conn'.haveKeys = c.haveKeys /\ conn'.memKey = c.memKey
         /\ conn'.keysLoaded = c.keysLoaded
         /\ lamp'.key = lamp.key /\ lamp'.offer = NoKey /\ lamp'.missed = lamp.missed
         /\ proof' = "none"
BY DEF TypeInv, TypeOK, ConnFields, LampFields, Disconnect, Closed, Dropped

LEMMA ForgottenEffect ==
  ASSUME TypeInv
  PROVE  /\ Forgotten(conn) \in ConnFields
         /\ ~Forgotten(conn).haveKeys /\ Forgotten(conn).memKey = NoKey
BY DEF TypeInv, TypeOK, ConnFields, Forgotten, StoredKeys

\* Loading makes the connection's idea of its keys the record's, or leaves it alone.
LEMMA LoadedEffect ==
  ASSUME TypeInv
  PROVE  /\ Loaded.client = conn.client /\ Loaded.connected = conn.connected
         /\ \/ conn.keysLoaded /\ Loaded = conn
            \/ Loaded.memKey = store /\ Loaded.haveKeys = (store # NoKey)
BY DEF TypeInv, TypeOK, ConnFields, Loaded

\* A caller enters ensure_connected() on the fast path or on the way to a new link.
LEMMA EnterConnectEffect ==
  ASSUME TypeInv, EnterConnect
  PROVE  /\ task'.op = task.op /\ task'.pass = task.pass /\ task'.misses = task.misses
         /\ conn'.client = conn.client
         /\ conn'.haveKeys = Loaded.haveKeys /\ conn'.memKey = Loaded.memKey
         /\ \/ /\ LinkLooksUp /\ ScheduleIdleDisconnect
               /\ conn'.connected /\ conn'.verdict = "none"
               /\ task'.pc = IF task.op = "checkin" THEN "refresh" ELSE AfterConnect
               /\ task'.fresh = task.fresh
            \/ /\ ~LinkLooksUp /\ UNCHANGED idle
               /\ ~conn'.connected
               /\ task'.pc = "open" /\ task'.fresh = ~Loaded.haveKeys
<1>1. Loaded \in ConnFields /\ Loaded.client = conn.client
        /\ Loaded.connected = conn.connected
  BY LoadedType, LoadedEffect
<1>2. CASE LinkLooksUp
  <2>1. conn' = NoVerdict(Loaded) /\ ScheduleIdleDisconnect
        /\ Goto(IF task.op = "checkin" THEN "refresh" ELSE AfterConnect)
    BY <1>2 DEF EnterConnect
  <2> QED
    BY <1>1, <1>2, <2>1, GotoEffect DEF NoVerdict, ConnFields, LinkLooksUp
<1>3. CASE ~LinkLooksUp
  <2>1. /\ conn' = [Loaded EXCEPT !.connected = FALSE]
        /\ task' = [task EXCEPT !.pc = "open", !.fresh = ~Loaded.haveKeys]
        /\ UNCHANGED idle
    BY <1>3 DEF EnterConnect
  <2> QED
    BY <1>1, <1>3, <2>1 DEF TypeInv, TypeOK, ConnFields, TaskFields
<1> QED
  BY <1>2, <1>3

-----------------------------------------------------------------------------
(* Where the holder of the lock can be. *)

LEMMA ControlInit == Init => Control
BY DEF Init, NoTask, Control, TwoPasses

LEMMA ControlConnect ==
  ASSUME TypeInv, Control, Connect
  PROVE  Control'
<1> USE DEF Control, TwoPasses
<1>0. task.pass \in Nat /\ task.fresh \in BOOLEAN /\ task.op \in Ops \union {"none"}
      /\ task.misses \in {0, 1}
  BY DEF TypeInv, TypeOK, TaskFields
<1>1. CASE OpenLink
  BY <1>0, <1>1, GotoEffect, RaiseEffect DEF OpenLink
<1>2. CASE FetchModuleInfo
  BY <1>0, <1>2, GotoEffect DEF FetchModuleInfo
<1>3. CASE ExchangeKeys
  BY <1>0, <1>3, GotoEffect, RaiseEffect DEF ExchangeKeys
<1>4. CASE SaveKeys
  BY <1>0, <1>4, GotoEffect DEF SaveKeys
<1>5. CASE RegisterEnd
  BY <1>0, <1>5, GotoEffect, RaiseEffect DEF RegisterEnd
<1>6. CASE AskRetry
  BY <1>0, <1>6 DEF AskRetry, TypeInv, TypeOK, TaskFields
<1>7. CASE AskAnswered
  <2>1. task.op \in {"command", "checkin", "unpair"}
    BY <1>0, <1>7 DEF AskAnswered, Ops
  <2>2. /\ task'.pc = AfterConnect /\ task'.op = task.op /\ task'.fresh = task.fresh
        /\ task'.pass = task.pass
    BY <1>7, GotoEffect DEF AskAnswered
  <2>3. \/ task.op = "command" /\ task'.pc = "send"
        \/ task.op = "checkin" /\ task'.pc = "finish"
        \/ task.op = "unpair" /\ task'.pc = "unpair"
    BY <2>1, <2>2 DEF AfterConnect
  <2> QED
    BY <1>0, <2>2, <2>3
<1>8. CASE AskRefused
  <2>1. PICK v \in Verdicts : Raise(v)
    BY <1>8 DEF AskRefused
  <2> QED
    BY <1>0, <1>8, <2>1, RaiseEffect DEF AskRefused
<1>9. CASE AskRepair
  BY <1>0, <1>9, RepairEffect DEF AskRepair, GivesUp, MayPair
<1>10. CASE AskSilentTwice
  BY <1>0, <1>10, GotoEffect DEF AskSilentTwice, GivesUp, MayPair
<1>11. CASE ProbeReset
  BY <1>0, <1>11, RepairEffect DEF ProbeReset
<1>12. CASE ProbeStillPaired
  BY <1>0, <1>12, RaiseEffect DEF ProbeStillPaired
<1> QED
  BY <1>1, <1>2, <1>3, <1>4, <1>5, <1>6, <1>7, <1>8, <1>9, <1>10, <1>11, <1>12
  DEF Connect

\* Every caller: its entry, its own steps and its ends.
LEMMA ControlCallers ==
  ASSUME TypeInv, Control, Command \/ CheckIn \/ Unpair \/ FinishShutdown
  PROVE  Control'
<1> USE DEF Control, TwoPasses
<1>0. task.pass \in Nat /\ task.fresh \in BOOLEAN /\ task.op \in Ops \union {"none"}
      /\ task.misses \in {0, 1}
  BY DEF TypeInv, TypeOK, TaskFields
<1>1. CASE BeginCommand
  BY <1>0, <1>1, EnterConnectEffect DEF BeginCommand, At, AfterConnect
<1>2. CASE BeginCheckIn
  BY <1>0, <1>2, EnterConnectEffect, ReleaseEffect DEF BeginCheckIn, At
<1>3. CASE BeginUnpair
  BY <1>0, <1>3, EnterConnectEffect, ReleaseEffect DEF BeginUnpair, At, AfterConnect
<1>4. CASE SendLed
  BY <1>0, <1>4, ReleaseEffect, RaiseEffect DEF SendLed, At
<1>5. CASE RefreshAnswered \/ UnpairAnswered
  BY <1>0, <1>5, GotoEffect DEF RefreshAnswered, UnpairAnswered, At
<1>6. CASE RefreshDead
  BY <1>0, <1>6 DEF RefreshDead, At, TypeInv, TypeOK, TaskFields
<1>7. CASE UnpairRetry
  BY <1>0, <1>7 DEF UnpairRetry, At, TypeInv, TypeOK, TaskFields
<1>8. CASE UnpairRefused
  <2>1. PICK v \in Verdicts : Raise(v)
    BY <1>8 DEF UnpairRefused
  <2> QED
    BY <1>0, <1>8, <2>1, RaiseEffect DEF UnpairRefused, At
<1>9. CASE Broadcast
  BY <1>0, <1>9, GotoEffect, RaiseEffect DEF Broadcast, At
<1>10. CASE \/ CommandFailed \/ FinishCheckIn \/ CheckInFailed \/ DiscardKeys
            \/ UnpairFailed \/ FinishShutdown
  <2>1. Release
    BY <1>10 DEF CommandFailed, FinishCheckIn, CheckInFailed, DiscardKeys, UnpairFailed,
                 FinishShutdown
  <2> QED
    BY <2>1, ReleaseEffect
<1> QED
  BY <1>1, <1>2, <1>3, <1>4, <1>5, <1>6, <1>7, <1>8, <1>9, <1>10
  DEF Command, CheckIn, Unpair

\* The steps that leave the holder where it is.
Bystander ==
  \/ \E op \in {"command", "unpair"} : RequestService(op)
  \/ CheckInDue \/ Shutdown \/ IdleElapses \/ IdleDisconnect \/ Environment

LEMMA BystanderEffect ==
  ASSUME Bystander
  PROVE  UNCHANGED task
BY DEF Bystander, RequestService, CheckInDue, Shutdown, IdleElapses, IdleDisconnect,
       Environment, LinkDrops, SessionDies, FactoryReset, AppPairs, LampPush

LEMMA AcquireEffect ==
  ASSUME TypeInv, Acquire
  PROVE  /\ task.op = "none" /\ task'.op \in Ops /\ task'.pc = "begin"
         /\ ~task'.fresh /\ task'.pass = 1 /\ task'.misses = 0
BY HeadTailProperties DEF TypeInv, TypeOK, Acquire, NoTask

LEMMA NextSplit ==
  ASSUME Next
  PROVE  \/ Bystander \/ Acquire \/ Connect
         \/ Command \/ CheckIn \/ Unpair \/ FinishShutdown
BY DEF Next, Bystander, Holder

LEMMA ControlStep ==
  ASSUME TypeInv, Control, [Next]_vars
  PROVE  Control'
<1>1. CASE UNCHANGED vars \/ Bystander
  <2>1. UNCHANGED task
    BY <1>1, BystanderEffect DEF vars
  <2> QED
    BY <2>1 DEF Control, TwoPasses
<1>2. CASE Acquire
  BY <1>2, AcquireEffect DEF Control, TwoPasses, Ops
<1> QED
  BY <1>1, <1>2, ControlConnect, ControlCallers, NextSplit

-----------------------------------------------------------------------------
(* The keys: in memory, on disk and in the lamp. *)

LEMMA KeyTypes ==
  ASSUME TypeInv
  PROVE  /\ store \in StoredKeys /\ conn.memKey \in StoredKeys
         /\ lamp.key \in LampKeys /\ lamp.offer \in StoredKeys
         /\ conn.haveKeys \in BOOLEAN /\ task.fresh \in BOOLEAN
         /\ lamp.link \in BOOLEAN /\ lamp.missed \in BOOLEAN
BY DEF TypeInv, TypeOK, ConnFields, TaskFields, LampFields

LEMMA KeyInit == Init => KeyPlaces
BY KeysAssumption
DEF Init, NewConn, NoTask, KeyPlaces, MemoryKnown, NeverLockedOut

\* Loading keeps the keys in step with the record.
LEMMA LoadedIsKnown ==
  ASSUME TypeInv, MemoryKnown
  PROVE  Loaded.haveKeys => Loaded.memKey # NoKey /\ store \in {NoKey, Loaded.memKey}
BY LoadedEffect DEF MemoryKnown

LEMMA LoadedMatchesStore ==
  ASSUME TypeInv, KeysMatchStore
  PROVE  Loaded.haveKeys => Loaded.memKey = store /\ store # NoKey
BY LoadedEffect DEF KeysMatchStore

LEMMA KeyConnect ==
  ASSUME TypeInv, Control, KeyPlaces, Connect
  PROVE  KeyPlaces'
<1> USE KeyTypes DEF KeyPlaces, MemoryKnown, NeverLockedOut, Control
<1>1. CASE OpenLink
  <2>1. CASE Disconnect(conn) /\ Raise("other")
    <3>1. conn \in ConnFields /\ store' = store
      BY <1>1 DEF OpenLink, TypeInv, TypeOK
    <3> QED
      BY <2>1, <3>1, DisconnectEffect, RaiseEffect
  <2>2. CASE ~(Disconnect(conn) /\ Raise("other"))
    <3>1. /\ conn'.haveKeys = conn.haveKeys /\ conn'.memKey = conn.memKey
          /\ lamp'.key = lamp.key /\ lamp'.missed = lamp.missed /\ lamp'.offer = NoKey
          /\ store' = store
      BY <1>1, <2>2 DEF OpenLink, Closed, Dropped, TypeInv, TypeOK, ConnFields, LampFields
    <3>2. \/ task.pc = "reopen" /\ task'.pc = "ask"
          \/ task.pc = "open" /\ task.fresh /\ task'.pc = "pair"
          \/ task.pc = "open" /\ ~task.fresh /\ task'.pc = "info"
      BY <1>1, <2>2, GotoEffect DEF OpenLink
    <3> QED
      BY <3>1, <3>2
  <2> QED
    BY <2>1, <2>2
<1>2. CASE FetchModuleInfo
  <2>1. task'.pc = "ask" /\ store' \in {store, conn.memKey} /\ UNCHANGED lamp
    BY <1>2, GotoEffect DEF FetchModuleInfo, Record
  <2>2. conn'.haveKeys = conn.haveKeys /\ conn'.memKey = conn.memKey
    BY <1>2 DEF FetchModuleInfo, TypeInv, TypeOK, ConnFields
  <2> QED
    BY <1>2, <2>1, <2>2, KeysAssumption DEF FetchModuleInfo
<1>3. CASE ExchangeKeys
  <2>1. CASE Raise("other") /\ UNCHANGED <<conn, lamp>>
    BY <1>3, <2>1, RaiseEffect DEF ExchangeKeys
  <2>2. CASE ~(Raise("other") /\ UNCHANGED <<conn, lamp>>)
    <3>1. PICK k \in Keys : /\ conn' = [conn EXCEPT !.memKey = k]
                            /\ lamp' = [lamp EXCEPT !.offer = k]
      BY <1>3, <2>2 DEF ExchangeKeys
    <3>2. /\ conn'.memKey = k /\ conn'.haveKeys = conn.haveKeys
          /\ lamp'.key = lamp.key /\ lamp'.link = lamp.link
          /\ lamp'.missed = lamp.missed
      BY <3>1 DEF TypeInv, TypeOK, ConnFields, LampFields
    <3>3. task'.pc = "save" /\ store' = store /\ lamp.key = NoKey /\ lamp.link
      BY <1>3, <2>2, GotoEffect DEF ExchangeKeys, FreeLampListens
    <3> QED
      BY <1>3, <3>2, <3>3, KeysAssumption DEF ExchangeKeys
  <2> QED
    BY <2>1, <2>2
<1>4. CASE SaveKeys
  <2>1. /\ task'.pc = "register" /\ store' = conn.memKey /\ UNCHANGED lamp
        /\ conn'.haveKeys /\ conn'.memKey = conn.memKey
    BY <1>4, GotoEffect DEF SaveKeys, Record, TypeInv, TypeOK, ConnFields
  <2> QED
    BY <1>4, <2>1, KeysAssumption DEF SaveKeys
<1>5. CASE RegisterEnd
  <2>1. /\ UNCHANGED <<conn, store>>
        /\ task'.pc \in {"reopen", "failed"}
    BY <1>5, GotoEffect, RaiseEffect DEF RegisterEnd
  <2>2. \/ UNCHANGED lamp
        \/ lamp'.key = conn.memKey /\ lamp'.offer = NoKey /\ lamp'.missed = lamp.missed
    BY <1>5 DEF RegisterEnd, TypeInv, TypeOK, LampFields
  <2> QED
    BY <1>5, <2>1, <2>2 DEF RegisterEnd
<1>6. CASE AskRetry
  <2>1. UNCHANGED <<conn, lamp, store>> /\ task'.pc = task.pc
    BY <1>6 DEF AskRetry, TypeInv, TypeOK, TaskFields
  <2> QED
    BY <1>6, <2>1 DEF AskRetry
<1>7. CASE AskAnswered \/ AskSilentTwice
  <2>1. /\ UNCHANGED <<lamp, store>>
        /\ conn'.haveKeys = conn.haveKeys /\ conn'.memKey = conn.memKey
    BY <1>7 DEF AskAnswered, AskSilentTwice, TypeInv, TypeOK, ConnFields
  <2>2. task.pc = "ask" /\ task'.pc \in {"send", "finish", "unpair", "probe"}
    BY <1>7, GotoEffect DEF AskAnswered, AskSilentTwice, AfterConnect
  <2> QED
    BY <2>1, <2>2
<1>8. CASE AskRefused \/ ProbeStillPaired
  <2>1. /\ Disconnect(conn) /\ conn \in ConnFields /\ store' = store
        /\ task'.pc = "failed"
    BY <1>8, RaiseEffect DEF AskRefused, ProbeStillPaired, TypeInv, TypeOK
  <2> QED
    BY <2>1, DisconnectEffect
<1>9. CASE AskRepair \/ ProbeReset
  <2>1. /\ Disconnect(Forgotten(conn)) /\ store' = store
        /\ task'.pc = "open" /\ task'.fresh
    BY <1>9, RepairEffect DEF AskRepair, ProbeReset
  <2> QED
    BY <2>1, ForgottenEffect, DisconnectEffect
<1> QED
  BY <1>1, <1>2, <1>3, <1>4, <1>5, <1>6, <1>7, <1>8, <1>9 DEF Connect

LEMMA KeyEnter ==
  ASSUME TypeInv, Control, KeyPlaces, EnterConnect, task.pc = "begin",
         task.op \in {"command", "checkin", "unpair"},
         task.op # "command" => Loaded.haveKeys, UNCHANGED <<lamp, store>>
  PROVE  KeyPlaces'
<1> USE KeyTypes DEF KeyPlaces, NeverLockedOut, Control
<1>1. MemoryKnown'
  BY LoadedIsKnown, EnterConnectEffect DEF MemoryKnown
<1>2. \/ task'.pc = "open" /\ task'.fresh = ~conn'.haveKeys
      \/ task.op = "command" /\ task'.pc = "send"
      \/ task.op # "command" /\ task'.pc \in {"refresh", "unpair"} /\ conn'.haveKeys
  BY EnterConnectEffect DEF AfterConnect
<1> QED
  BY <1>1, <1>2

LEMMA KeyCallers ==
  ASSUME TypeInv, Control, KeyPlaces, Command \/ CheckIn \/ Unpair \/ FinishShutdown
  PROVE  KeyPlaces'
<1> USE KeyTypes DEF KeyPlaces, MemoryKnown, NeverLockedOut
<1>a. conn \in ConnFields
  BY DEF TypeInv, TypeOK
<1>1. CASE BeginCommand
  BY <1>1, KeyEnter DEF BeginCommand, At
<1>2. CASE (BeginCheckIn \/ BeginUnpair) /\ Loaded.haveKeys
  BY <1>2, KeyEnter DEF BeginCheckIn, BeginUnpair, At
<1>3. CASE (BeginCheckIn \/ BeginUnpair) /\ ~Loaded.haveKeys
  <2>1. conn' = Loaded /\ UNCHANGED <<lamp, store>> /\ Release
    BY <1>3 DEF BeginCheckIn, BeginUnpair
  <2> QED
    BY <1>3, <2>1, ReleaseEffect
<1>4. CASE SendLed \/ FinishCheckIn \/ CheckInFailed
  <2>1. UNCHANGED <<conn, lamp, store>> /\ (Release \/ Raise("other"))
    BY <1>4 DEF SendLed, FinishCheckIn, CheckInFailed
  <2> QED
    BY <2>1, ReleaseEffect, RaiseEffect
<1>5. CASE RefreshAnswered
  BY <1>5, GotoEffect DEF RefreshAnswered
<1>6. CASE RefreshDead
  <2>1. /\ Disconnect(conn) /\ store' = store /\ task.pc = "refresh"
        /\ task'.pc = "open" /\ task'.fresh = task.fresh
    BY <1>6 DEF RefreshDead, At, TypeInv, TypeOK, TaskFields
  <2> QED
    BY <1>a, <2>1, DisconnectEffect DEF Control
<1>7. CASE UnpairRetry
  <2>1. UNCHANGED <<conn, lamp, store>> /\ task'.pc = task.pc /\ task.pc = "unpair"
    BY <1>7 DEF UnpairRetry, At, TypeInv, TypeOK, TaskFields
  <2> QED
    BY <2>1
<1>8. CASE UnpairAnswered
  BY <1>8, GotoEffect DEF UnpairAnswered, At
<1>9. CASE UnpairRefused
  BY <1>9, RaiseEffect DEF UnpairRefused
<1>10. CASE Broadcast
  <2>1. UNCHANGED <<conn, store>> /\ task.pc = "broadcast"
        /\ task'.pc \in {"discard", "failed"}
    BY <1>10, GotoEffect, RaiseEffect DEF Broadcast, At
  <2>2. CASE task'.pc = "failed"
    <3>1. UNCHANGED lamp
      BY <1>10, <2>2, GotoEffect DEF Broadcast
    <3> QED
      BY <2>1, <2>2, <3>1
  <2>3. CASE task'.pc = "discard"
    <3>1. /\ lamp'.link = lamp.link /\ lamp'.offer = lamp.offer
          /\ \/ lamp.key = conn.memKey /\ lamp'.key = NoKey
             \/ lamp.key # conn.memKey /\ lamp'.key = lamp.key /\ lamp'.missed = lamp.missed
             \/ lamp'.key = lamp.key /\ (lamp.key \in Keys => lamp'.missed)
      BY <1>10, <2>3, RaiseEffect DEF Broadcast, LetGo, Missed, TypeInv, TypeOK, LampFields
    <3> QED
      BY <2>1, <2>3, <3>1, KeysAssumption
  <2> QED
    BY <2>1, <2>2, <2>3
<1>11. CASE DiscardKeys
  <2>1. /\ task'.pc = "idle" /\ store' = NoKey /\ task.pc = "discard"
        /\ Disconnect([Forgotten(conn) EXCEPT !.keysLoaded = TRUE])
    BY <1>11, ReleaseEffect DEF DiscardKeys, At
  <2>2. /\ [Forgotten(conn) EXCEPT !.keysLoaded = TRUE] \in ConnFields
        /\ ~[Forgotten(conn) EXCEPT !.keysLoaded = TRUE].haveKeys
    BY <1>a, ForgottenEffect DEF ConnFields
  <2> QED
    BY <2>1, <2>2, DisconnectEffect
<1>12. CASE CommandFailed \/ UnpairFailed \/ FinishShutdown
  <2>1. Disconnect(conn) /\ store' = store /\ task'.pc = "idle"
    BY <1>12, ReleaseEffect DEF CommandFailed, UnpairFailed, FinishShutdown
  <2> QED
    BY <1>a, <2>1, DisconnectEffect
<1> QED
  BY <1>1, <1>2, <1>3, <1>4, <1>5, <1>6, <1>7, <1>8, <1>9, <1>10, <1>11, <1>12
  DEF Command, CheckIn, Unpair

LEMMA KeyBystander ==
  ASSUME TypeInv, Control, KeyPlaces, Bystander
  PROVE  KeyPlaces'
<1> USE KeyTypes DEF KeyPlaces, MemoryKnown, NeverLockedOut
<1>a. UNCHANGED <<task, store>>
  BY BystanderEffect DEF Bystander, RequestService, CheckInDue, Shutdown, IdleElapses,
     IdleDisconnect, Environment, LinkDrops, SessionDies, FactoryReset, AppPairs, LampPush
<1>1. CASE (\E op \in {"command", "unpair"} : RequestService(op)) \/ CheckInDue
           \/ Shutdown \/ IdleElapses \/ LampPush
  <2>1. UNCHANGED <<conn, lamp>>
    BY <1>1 DEF RequestService, CheckInDue, Shutdown, IdleElapses, LampPush
  <2> QED
    BY <1>a, <2>1
<1>2. CASE IdleDisconnect
  <2>1. Disconnect(conn) /\ conn \in ConnFields
    BY <1>2 DEF IdleDisconnect, TypeInv, TypeOK
  <2>2. task.pc = "idle"
    BY <1>2 DEF IdleDisconnect, Control
  <2> QED
    BY <1>a, <2>1, <2>2, DisconnectEffect
<1>3. CASE LinkDrops
  <2>1. /\ UNCHANGED conn /\ lamp'.key = lamp.key /\ lamp'.missed = lamp.missed
        /\ lamp'.offer = NoKey
    BY <1>3 DEF LinkDrops, Dropped, TypeInv, TypeOK, LampFields
  <2> QED
    BY <1>a, <2>1
<1>4. CASE SessionDies
  <2>1. /\ UNCHANGED conn /\ lamp'.key = lamp.key /\ lamp'.missed = lamp.missed
        /\ lamp'.offer = lamp.offer /\ lamp'.link = lamp.link
    BY <1>4 DEF SessionDies, TypeInv, TypeOK, LampFields
  <2> QED
    BY <1>a, <2>1
<1>5. CASE FactoryReset
  <2>1. UNCHANGED conn /\ lamp'.key = NoKey /\ lamp'.offer = NoKey
    BY <1>5 DEF FactoryReset, TypeInv, TypeOK, LampFields
  <2> QED
    BY <1>a, <2>1, KeysAssumption
<1>6. CASE AppPairs
  <2>1. UNCHANGED conn /\ lamp'.key = AppKey /\ lamp'.offer = lamp.offer /\ ~lamp.link
    BY <1>6 DEF AppPairs, TypeInv, TypeOK, LampFields
  <2> QED
    BY <1>a, <2>1, KeysAssumption
<1> QED
  BY <1>1, <1>2, <1>3, <1>4, <1>5, <1>6 DEF Bystander, Environment

LEMMA KeyStep ==
  ASSUME TypeInv, Control, KeyPlaces, [Next]_vars
  PROVE  KeyPlaces'
<1>1. CASE UNCHANGED vars
  BY <1>1 DEF vars, KeyPlaces, MemoryKnown, NeverLockedOut
<1>2. CASE Acquire
  <2>1. UNCHANGED <<conn, lamp, store>>
    BY <1>2 DEF Acquire
  <2> QED
    BY <1>2, <2>1, AcquireEffect DEF KeyPlaces, MemoryKnown, NeverLockedOut
<1> QED
  BY <1>1, <1>2, KeyConnect, KeyCallers, KeyBystander, NextSplit

\* Memory and record change together, unless something is cut short.
LEMMA MatchInit == Init => KeysMatchStore
BY DEF Init, NewConn, KeysMatchStore

LEMMA MatchConnect ==
  ASSUME TypeInv, KeyPlaces, KeysMatchStore, Connect
  PROVE  KeysMatchStore'
<1> USE DEF KeysMatchStore
<1>a. conn \in ConnFields
  BY DEF TypeInv, TypeOK
<1>1. CASE OpenLink
  <2>1. CASE Disconnect(conn)
    BY <1>1, <1>a, <2>1, DisconnectEffect DEF OpenLink
  <2>2. CASE ~Disconnect(conn)
    BY <1>1, <1>a, <2>2 DEF OpenLink, Closed, ConnFields
  <2> QED
    BY <2>1, <2>2
<1>2. CASE FetchModuleInfo \/ AskAnswered \/ AskSilentTwice
  <2>1. store' \in {store, conn.memKey} /\ conn'.haveKeys = conn.haveKeys
        /\ conn'.memKey = conn.memKey /\ (FetchModuleInfo \/ store' = store)
    BY <1>2, <1>a DEF FetchModuleInfo, Record, AskAnswered, AskSilentTwice, ConnFields
  <2>2. FetchModuleInfo => conn.haveKeys
    BY DEF FetchModuleInfo, KeyPlaces
  <2> QED
    BY <2>1, <2>2
<1>3. CASE ExchangeKeys
  <2>1. ~conn.haveKeys
    BY <1>3 DEF ExchangeKeys, KeyPlaces
  <2>2. conn'.haveKeys = conn.haveKeys
    BY <1>3, <1>a DEF ExchangeKeys, ConnFields
  <2> QED
    BY <2>1, <2>2
<1>4. CASE SaveKeys
  <2>1. conn.memKey \in Keys /\ store' = conn.memKey /\ conn'.memKey = conn.memKey
    BY <1>4, <1>a DEF SaveKeys, Record, KeyPlaces, ConnFields
  <2> QED
    BY <2>1, KeysAssumption
<1>5. CASE RegisterEnd \/ AskRetry
  BY <1>5 DEF RegisterEnd, AskRetry
<1>6. CASE AskRefused \/ ProbeStillPaired
  BY <1>6, <1>a, DisconnectEffect DEF AskRefused, ProbeStillPaired
<1>7. CASE AskRepair \/ ProbeReset
  BY <1>7, ForgottenEffect, DisconnectEffect DEF AskRepair, ProbeReset
<1> QED
  BY <1>1, <1>2, <1>3, <1>4, <1>5, <1>6, <1>7 DEF Connect

LEMMA MatchStep ==
  ASSUME TypeInv, KeyPlaces, KeysMatchStore, [Next]_vars
  PROVE  KeysMatchStore'
<1> USE DEF KeysMatchStore
<1>a. conn \in ConnFields
  BY DEF TypeInv, TypeOK
<1>1. CASE Connect
  BY <1>1, MatchConnect
<1>2. CASE BeginCommand \/ BeginCheckIn \/ BeginUnpair
  <2>1. store' = store /\ (EnterConnect \/ conn' = Loaded)
    BY <1>2 DEF BeginCommand, BeginCheckIn, BeginUnpair
  <2> QED
    BY <2>1, LoadedMatchesStore, EnterConnectEffect
<1>3. CASE CommandFailed \/ RefreshDead \/ UnpairFailed \/ FinishShutdown \/ IdleDisconnect
  BY <1>3, <1>a, DisconnectEffect
  DEF CommandFailed, RefreshDead, UnpairFailed, FinishShutdown, IdleDisconnect
<1>4. CASE DiscardKeys
  <2>1. /\ [Forgotten(conn) EXCEPT !.keysLoaded = TRUE] \in ConnFields
        /\ ~[Forgotten(conn) EXCEPT !.keysLoaded = TRUE].haveKeys
    BY <1>a, ForgottenEffect DEF ConnFields
  <2> QED
    BY <1>4, <2>1, DisconnectEffect DEF DiscardKeys
<1>5. CASE \/ SendLed \/ RefreshAnswered \/ FinishCheckIn \/ CheckInFailed
           \/ UnpairRetry \/ UnpairAnswered \/ UnpairRefused \/ Broadcast
           \/ Acquire \/ UNCHANGED vars
  BY <1>5
  DEF SendLed, RefreshAnswered, FinishCheckIn, CheckInFailed, UnpairRetry, UnpairAnswered,
      UnpairRefused, Broadcast, Acquire, vars
<1>6. CASE Bystander /\ ~IdleDisconnect
  BY <1>6
  DEF Bystander, RequestService, CheckInDue, Shutdown, IdleElapses, Environment, LinkDrops,
      SessionDies, FactoryReset, AppPairs, LampPush
<1> QED
  BY <1>1, <1>2, <1>3, <1>4, <1>5, <1>6, NextSplit DEF Command, CheckIn, Unpair

-----------------------------------------------------------------------------
(* What the lamp has acknowledged on this link. *)

LEMMA ProofInit == Init => Answers /\ Proven
BY DEF Init, NewConn, NoTask, Answers, Proven, SessionProven,
       BroadcastOnFreshProof, ProbeBehindFailure

\* Most places say nothing about the answers.
LEMMA AnswersElsewhere ==
  ASSUME task'.pc \in {"idle", "begin", "open", "reopen", "send", "refresh", "failed"}
  PROVE  Answers'
BY DEF Answers, BroadcastOnFreshProof, ProbeBehindFailure

LEMMA AnswersConnect ==
  ASSUME TypeInv, Control, Answers, Connect
  PROVE  Answers'
<1> USE DEF Answers, BroadcastOnFreshProof, ProbeBehindFailure
<1>a. conn \in ConnFields /\ task \in TaskFields
  BY DEF TypeInv, TypeOK
<1>1. CASE OpenLink
  <2>1. task'.pc = "failed" \/ (proof' = "none" /\ task'.pc \in {"ask", "pair", "info"})
    BY <1>1, GotoEffect, RaiseEffect DEF OpenLink
  <2> QED
    BY <2>1, AnswersElsewhere
<1>2. CASE FetchModuleInfo \/ ExchangeKeys \/ SaveKeys
  <2>1. /\ proof' = proof /\ task.pc \in {"info", "pair", "save"}
        /\ task'.pc \in {"ask", "save", "register", "failed"}
    BY <1>2, GotoEffect, RaiseEffect DEF FetchModuleInfo, ExchangeKeys, SaveKeys
  <2> QED
    BY <2>1
<1>3. CASE RegisterEnd \/ AskRefused \/ ProbeStillPaired \/ AskRepair \/ ProbeReset
  <2>1. task'.pc \in {"reopen", "failed", "open"}
    BY <1>3, GotoEffect, RaiseEffect, RepairEffect
    DEF RegisterEnd, AskRefused, ProbeStillPaired, AskRepair, ProbeReset
  <2> QED
    BY <2>1, AnswersElsewhere
<1>4. CASE AskRetry
  <2>1. proof' = proof /\ task.pc = "ask" /\ task'.pc = "ask"
    BY <1>4, <1>a DEF AskRetry, TaskFields
  <2> QED
    BY <2>1
<1>5. CASE AskAnswered
  <2>1. proof' = "now" /\ task'.pc \in {"send", "finish", "unpair"}
    BY <1>5, GotoEffect DEF AskAnswered, AfterConnect
  <2> QED
    BY <2>1
<1>6. CASE AskSilentTwice
  <2>1. /\ proof' = proof /\ task.pc = "ask" /\ task'.pc = "probe"
        /\ task'.misses = task.misses /\ task'.fresh = task.fresh
    BY <1>6, GotoEffect DEF AskSilentTwice
  <2>2. task.misses = 1 /\ ~task.fresh
    BY <1>6, <1>a DEF AskSilentTwice, Retry, GivesUp, TaskFields
  <2> QED
    BY <2>1, <2>2
<1> QED
  BY <1>1, <1>2, <1>3, <1>4, <1>5, <1>6 DEF Connect

LEMMA AnswersCallers ==
  ASSUME TypeInv, Control, Answers, Command \/ CheckIn \/ Unpair \/ FinishShutdown
  PROVE  Answers'
<1> USE DEF Answers, BroadcastOnFreshProof, ProbeBehindFailure
<1>a. conn \in ConnFields /\ task \in TaskFields
  BY DEF TypeInv, TypeOK
<1>1. CASE (BeginCommand \/ BeginCheckIn \/ BeginUnpair) /\ EnterConnect
  <2>1. \/ task'.pc \in {"open", "refresh", "send"}
        \/ task'.pc = "unpair" /\ conn'.verdict = "none"
    BY <1>1, EnterConnectEffect DEF BeginCommand, BeginCheckIn, BeginUnpair, At, AfterConnect
  <2> QED
    BY <2>1, AnswersElsewhere
<1>2. CASE \/ (BeginCommand \/ BeginCheckIn \/ BeginUnpair) /\ ~EnterConnect
           \/ SendLed \/ CommandFailed \/ FinishCheckIn \/ CheckInFailed
           \/ UnpairRefused \/ DiscardKeys \/ UnpairFailed \/ FinishShutdown
  <2>1. task'.pc \in {"idle", "failed"}
    BY <1>2, ReleaseEffect, RaiseEffect
    DEF BeginCommand, BeginCheckIn, BeginUnpair, SendLed, CommandFailed, FinishCheckIn,
        CheckInFailed, UnpairRefused, DiscardKeys, UnpairFailed, FinishShutdown
  <2> QED
    BY <2>1, AnswersElsewhere
<1>3. CASE RefreshAnswered
  <2>1. proof' = "now" /\ task'.pc = "finish"
    BY <1>3, GotoEffect DEF RefreshAnswered
  <2> QED
    BY <2>1
<1>4. CASE RefreshDead
  <2>1. task'.pc = "open"
    BY <1>4, <1>a DEF RefreshDead, TaskFields
  <2> QED
    BY <2>1, AnswersElsewhere
<1>5. CASE UnpairRetry
  <2>1. UNCHANGED <<conn, proof>> /\ task.pc = "unpair" /\ task'.pc = "unpair"
    BY <1>5, <1>a DEF UnpairRetry, At, TaskFields
  <2> QED
    BY <2>1
<1>6. CASE UnpairAnswered
  <2>1. task.pc = "unpair" /\ task'.pc = "broadcast" /\ proof' = "now"
    BY <1>6, GotoEffect DEF UnpairAnswered, At, MayRelease, UnpairVerdict
  <2> QED
    BY <2>1
<1>7. CASE Broadcast
  <2>1. proof' = proof /\ task.pc = "broadcast" /\ task'.pc \in {"discard", "failed"}
    BY <1>7, GotoEffect, RaiseEffect DEF Broadcast, At
  <2> QED
    BY <2>1
<1> QED
  BY <1>1, <1>2, <1>3, <1>4, <1>5, <1>6, <1>7 DEF Command, CheckIn, Unpair

\* An interruption ends the operation or sends it to its exception handler.
LEMMA InterruptionLeaves ==
  ASSUME Interruption
  PROVE  Release \/ Raise("other")
BY DEF Interruption, Cancelled, LoadFails, StoreCancelled, StoreRaises

LEMMA AnswersStep ==
  ASSUME TypeInv, Control, Answers, [InterruptedNext]_vars
  PROVE  Answers'
<1> USE DEF Answers, BroadcastOnFreshProof, ProbeBehindFailure
<1>1. CASE Interruption \/ Acquire
  <2>1. task'.pc \in {"idle", "failed", "begin"}
    BY <1>1, InterruptionLeaves, ReleaseEffect, RaiseEffect, AcquireEffect
  <2> QED
    BY <2>1, AnswersElsewhere
<1>2. CASE IdleDisconnect
  <2>1. task'.pc = "idle"
    BY <1>2 DEF IdleDisconnect, Control
  <2> QED
    BY <2>1, AnswersElsewhere
<1>3. CASE (Bystander /\ ~IdleDisconnect) \/ UNCHANGED vars
  <2>1. UNCHANGED <<task, conn, proof>>
    BY <1>3, BystanderEffect
    DEF Bystander, RequestService, CheckInDue, Shutdown, IdleElapses, Environment,
        LinkDrops, SessionDies, FactoryReset, AppPairs, LampPush, vars
  <2> QED
    BY <2>1
<1> QED
  BY <1>1, <1>2, <1>3, AnswersConnect, AnswersCallers, NextSplit DEF InterruptedNext

\* A step that ends in a disconnect leaves nothing to prove.
LEMMA ProvenAfterDisconnect ==
  ASSUME TypeInv', ~conn'.connected, proof' = "none",
         task'.pc \in {"idle", "failed", "open"}
  PROVE  Proven'
BY DEF Proven, SessionProven

LEMMA ProvenConnect ==
  ASSUME TypeInv, TypeInv', Control, Proven, Connect
  PROVE  Proven'
<1> USE DEF Proven, SessionProven
<1>a. conn \in ConnFields /\ task \in TaskFields /\ Forgotten(conn) \in ConnFields
  BY ForgottenEffect DEF TypeInv, TypeOK
<1>b. task.op # "none"
  BY DEF Control, Connect, OpenLink, FetchModuleInfo, ExchangeKeys, SaveKeys, RegisterEnd,
     AskRetry, AskAnswered, AskRefused, AskRepair, AskSilentTwice, ProbeReset,
     ProbeStillPaired
<1>1. CASE OpenLink
  <2>1. CASE Disconnect(conn) /\ Raise("other")
    BY <1>a, <2>1, DisconnectEffect, RaiseEffect, ProvenAfterDisconnect
  <2>2. CASE ~(Disconnect(conn) /\ Raise("other"))
    <3>1. /\ conn'.connected = (task.pc = "reopen") /\ proof' = "none"
          /\ task'.pc = IF task.pc = "reopen" THEN "ask"
                        ELSE IF task.fresh THEN "pair" ELSE "info"
          /\ task'.op = task.op
      BY <1>1, <1>a, <2>2, GotoEffect DEF OpenLink, Closed, ConnFields
    <3> QED
      BY <1>1, <1>b, <3>1 DEF OpenLink
  <2> QED
    BY <2>1, <2>2
<1>2. CASE FetchModuleInfo
  <2>1. conn'.connected /\ task'.pc = "ask" /\ task'.op = task.op /\ proof' = proof
    BY <1>2, <1>a, GotoEffect DEF FetchModuleInfo, ConnFields
  <2> QED
    BY <1>2, <1>b, <2>1 DEF FetchModuleInfo
<1>3. CASE ExchangeKeys \/ SaveKeys
  <2>1. /\ conn'.connected = conn.connected /\ proof' = proof /\ task'.op = task.op
        /\ task.pc \in {"pair", "save"} /\ task'.pc \in {"save", "register", "failed"}
    BY <1>3, <1>a, GotoEffect, RaiseEffect DEF ExchangeKeys, SaveKeys, ConnFields
  <2> QED
    BY <1>b, <2>1
<1>4. CASE RegisterEnd
  <2>1. /\ UNCHANGED <<conn, proof>> /\ task'.op = task.op
        /\ task'.pc \in {"reopen", "failed"}
    BY <1>4, GotoEffect, RaiseEffect DEF RegisterEnd
  <2> QED
    BY <1>4, <1>b, <2>1 DEF RegisterEnd
<1>5. CASE AskRetry
  <2>1. UNCHANGED <<conn, proof>> /\ task'.op = task.op /\ task'.pc = "ask"
    BY <1>5, <1>a DEF AskRetry, TaskFields
  <2> QED
    BY <1>5, <1>b, <2>1 DEF AskRetry
<1>6. CASE AskAnswered
  <2>1. conn'.connected = conn.connected /\ proof' = "now"
    BY <1>6, <1>a DEF AskAnswered, ConnFields
  <2>2. task'.op = task.op /\ task'.pc \in {"send", "finish", "unpair"}
    BY <1>6, GotoEffect DEF AskAnswered, AfterConnect
  <2> QED
    BY <1>6, <1>b, <2>1, <2>2 DEF AskAnswered
<1>7. CASE AskRefused \/ ProbeStillPaired
  BY <1>7, <1>a, DisconnectEffect, RaiseEffect, ProvenAfterDisconnect
  DEF AskRefused, ProbeStillPaired
<1>8. CASE AskRepair \/ ProbeReset
  BY <1>8, <1>a, DisconnectEffect, RepairEffect, ProvenAfterDisconnect
  DEF AskRepair, ProbeReset
<1>9. CASE AskSilentTwice
  <2>1. /\ conn'.connected = conn.connected /\ proof' = proof
        /\ task'.op = task.op /\ task'.pc = "probe"
        /\ task'.misses = task.misses /\ task'.fresh = task.fresh
    BY <1>9, <1>a, GotoEffect DEF AskSilentTwice, ConnFields
  <2>2. task.misses = 1 /\ ~task.fresh
    BY <1>9, <1>a DEF AskSilentTwice, Retry, GivesUp, TaskFields
  <2> QED
    BY <1>9, <1>b, <2>1, <2>2 DEF AskSilentTwice
<1> QED
  BY <1>1, <1>2, <1>3, <1>4, <1>5, <1>6, <1>7, <1>8, <1>9 DEF Connect

LEMMA ProvenEnter ==
  ASSUME TypeInv, Proven, EnterConnect, task.pc = "begin", UNCHANGED proof,
         task.op \in {"command", "checkin", "unpair"}
  PROVE  Proven'
<1> USE DEF Proven, SessionProven
<1>1. CASE LinkLooksUp
  <2>1. conn'.connected /\ conn'.verdict = "none" /\ task'.op = task.op
    BY <1>1, EnterConnectEffect
  <2>2. task'.pc \in {"send", "refresh", "unpair"} /\ proof # "none"
    BY <1>1, EnterConnectEffect DEF AfterConnect, LinkLooksUp
  <2> QED
    BY <2>1, <2>2
<1>2. CASE ~LinkLooksUp
  <2>1. ~conn'.connected /\ task'.pc = "open" /\ task'.op = task.op
    BY <1>2, EnterConnectEffect
  <2> QED
    BY <2>1
<1> QED
  BY <1>1, <1>2

LEMMA ProvenCallers ==
  ASSUME TypeInv, TypeInv', Control, Proven,
         Command \/ CheckIn \/ Unpair \/ FinishShutdown
  PROVE  Proven'
<1> USE DEF Proven, SessionProven
<1>a. conn \in ConnFields /\ task \in TaskFields
  BY DEF TypeInv, TypeOK
<1>1. CASE BeginCommand \/ ((BeginCheckIn \/ BeginUnpair) /\ Loaded.haveKeys)
  BY <1>1, ProvenEnter DEF BeginCommand, BeginCheckIn, BeginUnpair, At
<1>2. CASE (BeginCheckIn \/ BeginUnpair) /\ ~Loaded.haveKeys
  <2>1. conn'.connected = conn.connected /\ proof' = proof /\ task.pc = "begin" /\ Release
    BY <1>2, LoadedEffect DEF BeginCheckIn, BeginUnpair, At
  <2> QED
    BY <2>1, ReleaseEffect
<1>3. CASE SendLed \/ FinishCheckIn \/ CheckInFailed
  <2>1. UNCHANGED <<conn, proof>> /\ task.pc \in {"send", "finish", "failed"}
    BY <1>3 DEF SendLed, FinishCheckIn, CheckInFailed, At
  <2>2. task'.op = "none" \/ (task'.pc = "failed" /\ task'.op = "command")
    BY <1>3, ReleaseEffect, RaiseEffect DEF SendLed, FinishCheckIn, CheckInFailed, At
  <2>3. task'.pc \in {"idle", "failed"}
    BY <1>3, ReleaseEffect, RaiseEffect DEF SendLed, FinishCheckIn, CheckInFailed
  <2> QED
    BY <2>1, <2>2, <2>3
<1>4. CASE RefreshAnswered
  <2>1. /\ UNCHANGED conn /\ proof' = "now" /\ task.pc = "refresh"
        /\ task'.pc = "finish" /\ task'.op = "checkin"
    BY <1>4, GotoEffect DEF RefreshAnswered, At
  <2> QED
    BY <2>1
<1>5. CASE RefreshDead
  <2>1. Disconnect(conn) /\ task'.pc = "open"
    BY <1>5, <1>a DEF RefreshDead, TaskFields
  <2> QED
    BY <1>a, <2>1, DisconnectEffect, ProvenAfterDisconnect
<1>6. CASE UnpairRetry
  <2>1. /\ UNCHANGED <<conn, proof>> /\ task.pc = "unpair"
        /\ task'.pc = "unpair" /\ task'.op = "unpair"
    BY <1>6, <1>a DEF UnpairRetry, At, TaskFields
  <2> QED
    BY <2>1
<1>7. CASE UnpairAnswered
  <2>1. /\ UNCHANGED conn /\ task.pc = "unpair"
        /\ task'.pc = "broadcast" /\ task'.op = "unpair"
    BY <1>7, GotoEffect DEF UnpairAnswered, At
  <2>2. proof' # "none"
    BY <1>7, <2>1 DEF UnpairAnswered
  <2> QED
    BY <2>1, <2>2
<1>8. CASE UnpairRefused
  <2>1. /\ UNCHANGED <<conn, proof>> /\ task.pc = "unpair"
        /\ task'.pc = "failed" /\ task'.op = "unpair"
    BY <1>8, RaiseEffect DEF UnpairRefused, At
  <2> QED
    BY <2>1
<1>9. CASE Broadcast
  <2>1. /\ UNCHANGED <<conn, proof>> /\ task.pc = "broadcast"
        /\ task'.pc \in {"discard", "failed"} /\ task'.op = "unpair"
    BY <1>9, GotoEffect, RaiseEffect DEF Broadcast, At
  <2> QED
    BY <2>1
<1>10. CASE DiscardKeys
  <2>1. [Forgotten(conn) EXCEPT !.keysLoaded = TRUE] \in ConnFields
    BY ForgottenEffect DEF ConnFields
  <2> QED
    BY <1>10, <2>1, DisconnectEffect, ReleaseEffect, ProvenAfterDisconnect DEF DiscardKeys
<1>11. CASE CommandFailed \/ UnpairFailed \/ FinishShutdown
  BY <1>11, <1>a, DisconnectEffect, ReleaseEffect, ProvenAfterDisconnect
  DEF CommandFailed, UnpairFailed, FinishShutdown
<1> QED
  BY <1>1, <1>2, <1>3, <1>4, <1>5, <1>6, <1>7, <1>8, <1>9, <1>10, <1>11
  DEF Command, CheckIn, Unpair

LEMMA ProvenStep ==
  ASSUME TypeInv, Control, Proven, [Next]_vars
  PROVE  Proven'
<1> USE DEF Proven, SessionProven
<1>0. TypeInv'
  BY TypeStep
<1>1. CASE UNCHANGED vars
  BY <1>1 DEF vars
<1>2. CASE IdleDisconnect
  <2>1. Disconnect(conn) /\ conn \in ConnFields /\ task' = task /\ task.pc = "idle"
    BY <1>2 DEF IdleDisconnect, Control, TypeInv, TypeOK
  <2> QED
    BY <1>0, <2>1, DisconnectEffect, ProvenAfterDisconnect
<1>3. CASE Bystander /\ ~IdleDisconnect
  <2>1. UNCHANGED <<task, conn, proof>>
    BY <1>3, BystanderEffect
    DEF Bystander, RequestService, CheckInDue, Shutdown, IdleElapses, Environment,
        LinkDrops, SessionDies, FactoryReset, AppPairs, LampPush
  <2> QED
    BY <2>1
<1>4. CASE Acquire
  <2>1. UNCHANGED conn /\ (proof # "none" => proof' # "none")
    BY <1>4 DEF Acquire
  <2> QED
    BY <1>4, <2>1, AcquireEffect DEF Ops
<1> QED
  BY <1>0, <1>1, <1>2, <1>3, <1>4, ProvenConnect, ProvenCallers, NextSplit

-----------------------------------------------------------------------------
(* The idle timer. *)

LEMMA IdleInit == Init => IdlePlaces
BY DEF Init, NewConn, NoTask, IdlePlaces

LEMMA Armed == OnDemand /\ ScheduleIdleDisconnect => idle' # "none"
BY DEF ScheduleIdleDisconnect

\* A step that closes the client leaves nothing for the timer to do.
LEMMA IdleAfterDisconnect ==
  ASSUME NEW c \in ConnFields, TypeInv, Disconnect(c)
  PROVE  IdlePlaces'
BY DisconnectEffect DEF IdlePlaces

LEMMA IdleConnect ==
  ASSUME TypeInv, Control, IdlePlaces, Connect
  PROVE  IdlePlaces'
<1> USE DEF IdlePlaces
<1>a. /\ conn \in ConnFields /\ task \in TaskFields /\ Forgotten(conn) \in ConnFields
      /\ task.pc # "idle"
  BY ForgottenEffect
  DEF TypeInv, TypeOK, Connect, OpenLink, FetchModuleInfo, ExchangeKeys, SaveKeys,
     RegisterEnd, AskRetry, AskAnswered, AskRefused, AskRepair, AskSilentTwice, ProbeReset,
     ProbeStillPaired
<1>1. CASE OpenLink
  <2>1. Disconnect(conn) \/ task'.pc \in {"ask", "pair", "info"}
    BY <1>1, GotoEffect DEF OpenLink
  <2> QED
    BY <1>a, <2>1, IdleAfterDisconnect
<1>2. CASE FetchModuleInfo \/ SaveKeys \/ AskSilentTwice
  BY <1>2, GotoEffect DEF FetchModuleInfo, SaveKeys, AskSilentTwice
<1>3. CASE ExchangeKeys \/ RegisterEnd
  <2>1. task.op = "command" /\ task'.op = task.op
        /\ task'.pc \in {"save", "reopen", "failed"}
    BY <1>3, GotoEffect, RaiseEffect DEF ExchangeKeys, RegisterEnd, Control
  <2> QED
    BY <2>1
<1>4. CASE AskRetry
  <2>1. task'.pc = "ask"
    BY <1>4, <1>a DEF AskRetry, TaskFields
  <2> QED
    BY <2>1
<1>5. CASE AskAnswered
  <2>1. task'.pc # "failed" /\ ScheduleIdleDisconnect
    BY <1>5, GotoEffect DEF AskAnswered, AfterConnect
  <2> QED
    BY <2>1, Armed
<1>6. CASE AskRefused \/ ProbeStillPaired \/ AskRepair \/ ProbeReset
  BY <1>6, <1>a, IdleAfterDisconnect DEF AskRefused, ProbeStillPaired, AskRepair, ProbeReset
<1> QED
  BY <1>1, <1>2, <1>3, <1>4, <1>5, <1>6 DEF Connect

LEMMA IdleEnter ==
  ASSUME TypeInv, EnterConnect
  PROVE  IdlePlaces'
<1>1. task'.pc # "failed"
  BY EnterConnectEffect DEF AfterConnect
<1>2. CASE LinkLooksUp
  BY <1>1, <1>2, EnterConnectEffect, Armed DEF IdlePlaces
<1>3. CASE ~LinkLooksUp
  BY <1>1, <1>3, EnterConnectEffect DEF IdlePlaces
<1> QED
  BY <1>2, <1>3

LEMMA IdleCallers ==
  ASSUME TypeInv, Control, IdlePlaces, Command \/ CheckIn \/ Unpair \/ FinishShutdown
  PROVE  IdlePlaces'
<1> USE DEF IdlePlaces
<1>a. conn \in ConnFields /\ task \in TaskFields
  BY DEF TypeInv, TypeOK
<1>1. CASE BeginCommand \/ ((BeginCheckIn \/ BeginUnpair) /\ Loaded.haveKeys)
  BY <1>1, IdleEnter DEF BeginCommand, BeginCheckIn, BeginUnpair
<1>2. CASE (BeginCheckIn \/ BeginUnpair) /\ ~Loaded.haveKeys
  <2>1. conn'.client = conn.client /\ UNCHANGED <<idle, closing>>
        /\ task.pc = "begin" /\ Release
    BY <1>2, LoadedEffect DEF BeginCheckIn, BeginUnpair, At
  <2> QED
    BY <2>1, ReleaseEffect
<1>3. CASE SendLed \/ FinishCheckIn
  <2>1. UNCHANGED <<conn, idle, closing>> /\ task.pc \in {"send", "finish"}
    BY <1>3 DEF SendLed, FinishCheckIn, At
  <2>2. task'.pc = "idle" \/ (task'.pc = "failed" /\ task'.op = "command")
    BY <1>3, ReleaseEffect, RaiseEffect DEF SendLed, FinishCheckIn, At
  <2> QED
    BY <2>1, <2>2
<1>4. CASE CheckInFailed
  <2>1. UNCHANGED <<conn, idle, closing>> /\ ~conn.client /\ Release
    BY <1>4 DEF CheckInFailed, At
  <2> QED
    BY <2>1, ReleaseEffect
<1>5. CASE RefreshAnswered \/ UnpairAnswered
  <2>1. /\ UNCHANGED <<conn, idle, closing>> /\ task.pc \in {"refresh", "unpair"}
        /\ task'.pc \in {"finish", "broadcast"}
    BY <1>5, GotoEffect DEF RefreshAnswered, UnpairAnswered, At
  <2> QED
    BY <2>1
<1>6. CASE UnpairRetry
  <2>1. UNCHANGED <<conn, idle, closing>> /\ task.pc = "unpair" /\ task'.pc = "unpair"
    BY <1>6, <1>a DEF UnpairRetry, At, TaskFields
  <2> QED
    BY <2>1
<1>7. CASE UnpairRefused
  <2>1. task'.op = "unpair" /\ task'.pc = "failed"
    BY <1>7, RaiseEffect DEF UnpairRefused, At
  <2> QED
    BY <2>1
<1>8. CASE Broadcast
  <2>1. /\ UNCHANGED <<conn, idle, closing>> /\ task.pc = "broadcast"
        /\ task'.op = "unpair" /\ task'.pc \in {"discard", "failed"}
    BY <1>8, GotoEffect, RaiseEffect DEF Broadcast, At
  <2> QED
    BY <2>1
<1>9. CASE DiscardKeys
  <2>1. [Forgotten(conn) EXCEPT !.keysLoaded = TRUE] \in ConnFields
    BY ForgottenEffect DEF ConnFields
  <2> QED
    BY <1>9, <2>1, IdleAfterDisconnect DEF DiscardKeys
<1>10. CASE CommandFailed \/ RefreshDead \/ UnpairFailed \/ FinishShutdown
  BY <1>10, <1>a, IdleAfterDisconnect
  DEF CommandFailed, RefreshDead, UnpairFailed, FinishShutdown
<1> QED
  BY <1>1, <1>2, <1>3, <1>4, <1>5, <1>6, <1>7, <1>8, <1>9, <1>10
  DEF Command, CheckIn, Unpair

LEMMA IdleStep ==
  ASSUME TypeInv, Control, IdlePlaces, [Next]_vars
  PROVE  IdlePlaces'
<1> USE DEF IdlePlaces
<1>1. CASE UNCHANGED vars
  BY <1>1 DEF vars
<1>2. CASE IdleDisconnect
  <2>1. Disconnect(conn) /\ conn \in ConnFields
    BY <1>2 DEF IdleDisconnect, TypeInv, TypeOK
  <2> QED
    BY <2>1, IdleAfterDisconnect
<1>3. CASE Bystander /\ ~IdleDisconnect
  <2>1. UNCHANGED <<task, conn>> /\ (closing => closing')
        /\ (~closing' /\ idle # "none" => idle' # "none")
    BY <1>3, BystanderEffect
    DEF Bystander, RequestService, CheckInDue, Shutdown, IdleElapses, Environment,
        LinkDrops, SessionDies, FactoryReset, AppPairs, LampPush
  <2> QED
    BY <2>1
<1>4. CASE Acquire
  <2>1. UNCHANGED <<conn, idle, closing>> /\ task.pc = "idle"
    BY <1>4 DEF Acquire, Control
  <2> QED
    BY <1>4, <2>1, AcquireEffect
<1> QED
  BY <1>1, <1>2, <1>3, <1>4, IdleConnect, IdleCallers, NextSplit

-----------------------------------------------------------------------------
(* What an interruption leaves alone. *)

LEMMA InterruptionEffect ==
  ASSUME CoreInv, Interruption
  PROVE  /\ TypeInv'
         /\ conn'.haveKeys = conn.haveKeys /\ conn'.memKey = conn.memKey
         /\ lamp'.key = lamp.key /\ lamp'.missed = lamp.missed
         /\ lamp' = lamp \/ lamp'.offer = NoKey
         /\ Release \/ Raise("other")
         /\ \/ store' = store
            \/ task.pc = "save" /\ store' = conn.memKey
            \/ task.pc = "discard" /\ store' = NoKey
<1> USE DEF CoreInv
<1>a. /\ conn \in ConnFields /\ lamp \in LampFields /\ slots \in Nat
      /\ store \in StoredKeys /\ conn.memKey \in StoredKeys /\ NoKey \in StoredKeys
  BY KeyTypes DEF TypeInv, TypeOK, StoredKeys
<1>1. ASSUME LeftOpen \/ Disconnect(conn)
      PROVE  /\ conn' \in ConnFields /\ lamp' \in LampFields /\ slots' \in Nat /\ OneSlot'
             /\ proof' \in {"none", "earlier", "now"}
             /\ conn'.haveKeys = conn.haveKeys /\ conn'.memKey = conn.memKey
             /\ lamp'.key = lamp.key /\ lamp'.missed = lamp.missed
             /\ lamp' = lamp \/ lamp'.offer = NoKey
  <2>1. CASE LeftOpen
    BY <1>a, <2>1 DEF LeftOpen, TypeInv, TypeOK, OneSlot
  <2>2. CASE Disconnect(conn)
    BY <1>a, <2>2, DisconnectType, DisconnectEffect
  <2> QED
    BY <1>1, <2>1, <2>2
<1>2. FinallyClosed => LeftOpen \/ Disconnect(conn)
  BY DEF FinallyClosed
<1>3. Interruption => faults' \in Nat
  BY DEF Interruption, Cancelled, LoadFails, StoreCancelled, StoreRaises, Fault, TypeInv, TypeOK
<1>4. Release \/ Raise("other") => task' \in TaskFields
  BY RaiseType, ReleaseType
<1>5. CASE Cancelled
  <2>1. UNCHANGED <<queue, idle, closing, removal, store, available>> /\ Release
    BY <1>5 DEF Cancelled
  <2>2. CASE FinallyClosed
    BY <1>1, <1>2, <1>3, <1>4, <2>1, <2>2 DEF TypeInv, TypeOK
  <2>3. CASE conn' = HalfClosed(conn) /\ UNCHANGED <<lamp, slots, proof>>
    <3>1. /\ conn' \in ConnFields /\ conn'.client = conn.client
          /\ conn'.haveKeys = conn.haveKeys /\ conn'.memKey = conn.memKey
      BY <1>a, <2>3 DEF HalfClosed, ConnFields
    <3>2. TypeInv'
      BY <1>3, <1>4, <2>1, <2>3, <3>1 DEF TypeInv, TypeOK, OneSlot
    <3> QED
      BY <2>1, <2>3, <3>1, <3>2
  <2>4. CASE StaleClosed
    <3>1. Disconnect(conn)
      BY <2>4 DEF StaleClosed
    <3> QED
      BY <1>1, <1>3, <1>4, <2>1, <3>1 DEF TypeInv, TypeOK
  <2> QED
    BY <1>5, <2>2, <2>3, <2>4 DEF Cancelled
<1>6. CASE LoadFails
  <2>1. /\ UNCHANGED <<queue, idle, closing, removal, store, available, lamp, slots, proof>>
        /\ Release \/ Raise("other")
    BY <1>6 DEF LoadFails
  <2>2. /\ conn' \in ConnFields /\ conn'.client = conn.client
        /\ conn'.haveKeys = conn.haveKeys /\ conn'.memKey = conn.memKey
    BY <1>a, <1>6 DEF LoadFails, ConnFields
  <2>3. TypeInv'
    BY <1>3, <1>4, <2>1, <2>2 DEF TypeInv, TypeOK, OneSlot
  <2> QED
    BY <2>1, <2>2, <2>3
<1>7. CASE StoreCancelled
  <2>1. /\ UNCHANGED <<queue, idle, closing, removal, available>> /\ Release /\ FinallyClosed
        /\ \/ task.pc = "save" /\ store' = conn.memKey
           \/ task.pc = "discard" /\ store' = NoKey
    BY <1>7 DEF StoreCancelled, Record
  <2>2. store' \in StoredKeys
    BY <1>a, <2>1
  <2> QED
    BY <1>1, <1>2, <1>3, <1>4, <2>1, <2>2 DEF TypeInv, TypeOK
<1>8. CASE StoreRaises
  <2>1. /\ UNCHANGED <<conn, queue, idle, closing, removal, store, available, lamp, slots, proof>>
        /\ Raise("other")
    BY <1>8 DEF StoreRaises
  <2>2. TypeInv'
    BY <1>3, <1>4, <2>1 DEF TypeInv, TypeOK, OneSlot
  <2> QED
    BY <2>1, <2>2
<1> QED
  BY <1>5, <1>6, <1>7, <1>8 DEF Interruption

-----------------------------------------------------------------------------
(* Whose the lamp is, and what is known of it. *)

\* Who the lamp is registered to changes in four kinds of step only.
LEMMA LampStep ==
  ASSUME TypeInv, [Next]_vars, ~RegisterEnd, ~Broadcast, ~FactoryReset, ~AppPairs
  PROVE  lamp'.key = lamp.key /\ lamp'.missed = lamp.missed
<1>a. /\ lamp \in LampFields /\ conn \in ConnFields
      /\ Forgotten(conn) \in ConnFields
  BY ForgottenEffect DEF TypeInv, TypeOK
<1>1. CASE UNCHANGED lamp
  BY <1>1
<1>2. ASSUME NEW c \in ConnFields, Disconnect(c)
      PROVE  lamp'.key = lamp.key /\ lamp'.missed = lamp.missed
  BY <1>a, <1>2, DisconnectEffect
<1>3. CASE Connect
  <2>1. CASE OpenLink
    <3>1. CASE Disconnect(conn)
      BY <1>2, <1>a, <3>1
    <3>2. CASE ~Disconnect(conn)
      BY <1>a, <2>1, <3>2 DEF OpenLink, Dropped, LampFields
    <3> QED
      BY <3>1, <3>2
  <2>2. CASE ExchangeKeys
    <3>1. UNCHANGED lamp \/ \E k \in Keys : lamp' = [lamp EXCEPT !.offer = k]
      BY <2>2 DEF ExchangeKeys
    <3> QED
      BY <1>a, <3>1 DEF LampFields
  <2>3. CASE AskRefused \/ AskRepair \/ ProbeReset \/ ProbeStillPaired
    BY <1>a, <1>2, <2>3 DEF AskRefused, AskRepair, ProbeReset, ProbeStillPaired
  <2>4. CASE FetchModuleInfo \/ SaveKeys \/ AskRetry \/ AskAnswered \/ AskSilentTwice
    BY <2>4 DEF FetchModuleInfo, SaveKeys, AskRetry, AskAnswered, AskSilentTwice
  <2> QED
    BY <1>3, <2>1, <2>2, <2>3, <2>4 DEF Connect
<1>4. CASE Command \/ CheckIn \/ FinishShutdown
  <2>1. CASE CommandFailed \/ RefreshDead \/ FinishShutdown
    BY <1>a, <1>2, <2>1 DEF CommandFailed, RefreshDead, FinishShutdown
  <2>2. CASE ~(CommandFailed \/ RefreshDead \/ FinishShutdown)
    BY <1>4, <2>2
    DEF Command, CheckIn, BeginCommand, SendLed, BeginCheckIn, RefreshAnswered,
        FinishCheckIn, CheckInFailed
  <2> QED
    BY <2>1, <2>2
<1>5. CASE Unpair
  <2>1. CASE DiscardKeys
    <3>1. [Forgotten(conn) EXCEPT !.keysLoaded = TRUE] \in ConnFields
      BY <1>a DEF ConnFields
    <3> QED
      BY <1>2, <2>1, <3>1 DEF DiscardKeys
  <2>2. CASE UnpairFailed
    BY <1>a, <1>2, <2>2 DEF UnpairFailed
  <2>3. CASE ~(DiscardKeys \/ UnpairFailed)
    BY <1>5, <2>3 DEF Unpair, BeginUnpair, UnpairRetry, UnpairAnswered, UnpairRefused
  <2> QED
    BY <2>1, <2>2, <2>3
<1>6. CASE Bystander \/ Acquire \/ UNCHANGED vars
  <2>1. CASE IdleDisconnect
    BY <1>a, <1>2, <2>1 DEF IdleDisconnect
  <2>2. CASE LinkDrops \/ SessionDies
    BY <1>a, <2>2 DEF LinkDrops, Dropped, SessionDies, LampFields
  <2>3. CASE ~(IdleDisconnect \/ LinkDrops \/ SessionDies)
    BY <1>6, <2>3
    DEF Bystander, RequestService, CheckInDue, Shutdown, IdleElapses, Environment,
        LampPush, Acquire, vars
  <2> QED
    BY <2>1, <2>2, <2>3
<1> QED
  BY <1>3, <1>4, <1>5, <1>6, NextSplit

\* Only saving and discarding change the record, and storing the module's information,
\* which writes the keys in memory beside it.
LEMMA RecordStep ==
  ASSUME [Next]_vars, store' # store
  PROVE  SaveKeys \/ DiscardKeys \/ (FetchModuleInfo /\ store' = conn.memKey)
<1>1. CASE Connect
  BY <1>1
  DEF Connect, OpenLink, FetchModuleInfo, Record, ExchangeKeys, RegisterEnd, AskRetry,
      AskAnswered, AskRefused, AskRepair, AskSilentTwice, ProbeReset, ProbeStillPaired
<1>2. CASE Command \/ CheckIn \/ Unpair \/ FinishShutdown
  BY <1>2
  DEF Command, CheckIn, Unpair, BeginCommand, SendLed, CommandFailed, BeginCheckIn,
      RefreshAnswered, RefreshDead, FinishCheckIn, CheckInFailed, BeginUnpair,
      UnpairRetry, UnpairAnswered, UnpairRefused, Broadcast, UnpairFailed, FinishShutdown
<1>3. CASE Bystander \/ Acquire \/ UNCHANGED vars
  BY <1>3
  DEF Bystander, RequestService, CheckInDue, Shutdown, IdleElapses, IdleDisconnect,
      Environment, LinkDrops, SessionDies, FactoryReset, AppPairs, LampPush, Acquire, vars
<1> QED
  BY <1>1, <1>2, <1>3, NextSplit

\* The keys in memory are left alone, read from the record, saved to it, or not there.
LEMMA MemoryStep ==
  ASSUME CoreInv, [Next]_vars
  PROVE  \/ ~conn'.haveKeys
         \/ SaveKeys
         \/ conn'.haveKeys = conn.haveKeys /\ conn'.memKey = conn.memKey
         \/ conn'.haveKeys = Loaded.haveKeys /\ conn'.memKey = Loaded.memKey
<1>a. /\ TypeInv /\ conn \in ConnFields
      /\ Forgotten(conn) \in ConnFields /\ ~Forgotten(conn).haveKeys
  BY ForgottenEffect DEF CoreInv, TypeInv, TypeOK
<1>1. ASSUME Disconnect(conn)
      PROVE  conn'.haveKeys = conn.haveKeys /\ conn'.memKey = conn.memKey
  BY <1>a, <1>1, DisconnectEffect
<1>2. CASE OpenLink
  <2>1. CASE Disconnect(conn)
    BY <1>1, <2>1
  <2>2. CASE ~Disconnect(conn)
    BY <1>a, <1>2, <2>2 DEF OpenLink, Closed, ConnFields
  <2> QED
    BY <2>1, <2>2
<1>3. CASE ExchangeKeys
  <2>1. conn'.haveKeys = conn.haveKeys
    BY <1>a, <1>3 DEF ExchangeKeys, ConnFields
  <2> QED
    BY <1>3, <2>1 DEF ExchangeKeys, CoreInv, KeyPlaces
<1>4. CASE FetchModuleInfo \/ AskAnswered \/ AskSilentTwice
  BY <1>a, <1>4 DEF FetchModuleInfo, AskAnswered, AskSilentTwice, ConnFields
<1>5. CASE AskRepair \/ ProbeReset
  BY <1>a, <1>5, DisconnectEffect DEF AskRepair, ProbeReset
<1>6. CASE DiscardKeys
  <2>1. /\ [Forgotten(conn) EXCEPT !.keysLoaded = TRUE] \in ConnFields
        /\ ~[Forgotten(conn) EXCEPT !.keysLoaded = TRUE].haveKeys
    BY <1>a DEF ConnFields
  <2> QED
    BY <1>a, <1>6, <2>1, DisconnectEffect DEF DiscardKeys
<1>7. CASE \/ AskRefused \/ ProbeStillPaired \/ CommandFailed \/ RefreshDead
           \/ UnpairFailed \/ FinishShutdown \/ IdleDisconnect
  BY <1>1, <1>7
  DEF AskRefused, ProbeStillPaired, CommandFailed, RefreshDead, UnpairFailed,
      FinishShutdown, IdleDisconnect
<1>8. CASE BeginCommand \/ BeginCheckIn \/ BeginUnpair
  <2>1. EnterConnect \/ conn' = Loaded
    BY <1>8 DEF BeginCommand, BeginCheckIn, BeginUnpair
  <2> QED
    BY <1>a, <2>1, EnterConnectEffect
<1>9. CASE \/ RegisterEnd \/ AskRetry \/ SendLed \/ RefreshAnswered \/ FinishCheckIn
           \/ CheckInFailed \/ UnpairRetry \/ UnpairAnswered \/ UnpairRefused
           \/ Broadcast \/ Acquire \/ UNCHANGED vars
  BY <1>9
  DEF RegisterEnd, AskRetry, SendLed, RefreshAnswered, FinishCheckIn, CheckInFailed,
      UnpairRetry, UnpairAnswered, UnpairRefused, Broadcast, Acquire, vars
<1>10. CASE Bystander /\ ~IdleDisconnect
  BY <1>10
  DEF Bystander, RequestService, CheckInDue, Shutdown, IdleElapses, Environment, LinkDrops,
      SessionDies, FactoryReset, AppPairs, LampPush
<1> QED
  BY <1>2, <1>3, <1>4, <1>5, <1>6, <1>7, <1>8, <1>9, <1>10, NextSplit
  DEF Connect, Command, CheckIn, Unpair

\* Registering gives the lamp the key on record, and takes a free lamp to do it.
LEMMA RegisterStep ==
  ASSUME CoreInv, RegisterEnd
  PROVE  /\ lamp'.missed = lamp.missed /\ UNCHANGED <<store, conn>>
         /\ task.op = "command" /\ store \in Keys /\ conn.memKey = store
         /\ \/ lamp'.key = lamp.key
            \/ lamp'.key = store /\ lamp.key = NoKey
<1>1. /\ lamp \in LampFields /\ task.op = "command"
      /\ store \in StoredKeys /\ store # NoKey /\ conn.memKey = store
  BY DEF RegisterEnd, CoreInv, TypeInv, TypeOK, Control, KeyPlaces, MemoryKnown
<1>2. CASE UNCHANGED lamp
  BY <1>1, <1>2 DEF RegisterEnd, StoredKeys
<1>3. CASE ~UNCHANGED lamp
  <2>1. lamp.offer = store /\ lamp'.key = store /\ lamp'.missed = lamp.missed
    BY <1>1, <1>3 DEF RegisterEnd, LampFields
  <2> QED
    BY <1>1, <2>1 DEF RegisterEnd, StoredKeys, CoreInv, KeyPlaces
<1> QED
  BY <1>2, <1>3

\* A lamp that hears the broadcast is free; one that does not is a stray if it was ours.
LEMMA BroadcastStep ==
  ASSUME CoreInv, Broadcast
  PROVE  /\ UNCHANGED <<store, conn>>
         /\ \/ lamp'.key = NoKey /\ lamp'.missed = FALSE
            \/ lamp'.key = lamp.key /\ lamp'.missed = lamp.missed
            \/ lamp'.key = lamp.key /\ lamp.key \in Keys /\ lamp'.missed = TRUE
<1>1. lamp \in LampFields
  BY DEF CoreInv, TypeInv, TypeOK
<1>2. UNCHANGED <<store, conn>>
  BY DEF Broadcast
<1>3. CASE lamp' = LetGo(lamp) \/ UNCHANGED lamp
  BY <1>1, <1>2, <1>3 DEF LetGo, LampFields
<1>4. CASE lamp' = [lamp EXCEPT !.missed = lamp.key \in Keys]
  <2>1. lamp'.key = lamp.key /\ lamp'.missed = (lamp.key \in Keys)
    BY <1>1, <1>4 DEF LampFields
  <2>2. CASE lamp.key \in Keys
    BY <1>2, <2>1, <2>2
  <2>3. CASE lamp.key \notin Keys
    <3>1. ~lamp.missed /\ lamp.missed \in BOOLEAN
      BY <1>1, <2>3 DEF CoreInv, OursKnown, LampFields
    <3> QED
      BY <1>2, <2>1, <2>3, <3>1
  <2> QED
    BY <2>2, <2>3
<1> QED
  BY <1>3, <1>4 DEF Broadcast, Missed

\* Nothing but a broadcast in its own key or a reset frees the lamp, and the app takes
\* only a free one.
LEMMA OthersStep ==
  ASSUME CoreInv, FactoryReset \/ AppPairs
  PROVE  /\ UNCHANGED <<store, conn>> /\ lamp'.missed = FALSE
         /\ \/ FactoryReset /\ lamp'.key = NoKey
            \/ AppPairs /\ lamp'.key = AppKey /\ lamp.key = NoKey /\ lamp.missed = FALSE
<1>1. lamp \in LampFields
  BY DEF CoreInv, TypeInv, TypeOK
<1>2. CASE FactoryReset
  BY <1>1, <1>2 DEF FactoryReset, LampFields
<1>3. CASE AppPairs
  <2>1. lamp'.key = AppKey /\ lamp.key = NoKey /\ lamp'.missed = lamp.missed
    BY <1>1, <1>3 DEF AppPairs, LampFields
  <2>2. lamp.missed = FALSE
    BY <1>1, <2>1, KeysAssumption DEF CoreInv, OursKnown, LampFields
  <2> QED
    BY <1>3, <2>1, <2>2 DEF AppPairs
<1> QED
  BY <1>2, <1>3

LEMMA OursInit == Init => OursKnown
<1> SUFFICES ASSUME Init PROVE OursKnown
  OBVIOUS
<1>1. lamp.key \in {store, NoKey, AppKey} /\ lamp.missed = FALSE /\ ~conn.haveKeys
  BY DEF Init, NewConn
<1> QED
  BY <1>1, KeysAssumption DEF OursKnown

LEMMA OursStep ==
  ASSUME CoreInv, [InterruptedNext]_vars
  PROVE  OursKnown'
<1> USE DEF OursKnown
<1>a. TypeInv /\ OursKnown
  BY DEF CoreInv
<1>1. CASE RegisterEnd
  BY <1>a, <1>1, RegisterStep
<1>2. CASE Broadcast
  BY <1>a, <1>2, BroadcastStep, KeysAssumption
<1>3. CASE FactoryReset \/ AppPairs
  BY <1>3, OthersStep, KeysAssumption
<1>4. CASE [Next]_vars /\ ~RegisterEnd /\ ~Broadcast /\ ~FactoryReset /\ ~AppPairs
  <2>1. lamp'.key = lamp.key /\ lamp'.missed = lamp.missed
    BY <1>a, <1>4, LampStep
  <2>2. lamp.key \in Keys => ~SaveKeys
    BY DEF SaveKeys, CoreInv, KeyPlaces
  <2>3. lamp.key \in Keys => store' \in {NoKey, lamp.key}
    <3>1. SUFFICES ASSUME lamp.key \in Keys, store' # store
                   PROVE  store' \in {NoKey, lamp.key}
      BY <1>a
    <3>2. CASE DiscardKeys
      BY <3>2 DEF DiscardKeys
    <3>3. CASE FetchModuleInfo /\ store' = conn.memKey
      BY <1>a, <3>1, <3>3 DEF FetchModuleInfo, CoreInv, KeyPlaces
    <3> QED
      BY <1>4, <2>2, <3>1, <3>2, <3>3, RecordStep
  <2>4. lamp.key \in Keys /\ conn'.haveKeys => conn'.memKey = lamp.key
    <3>1. SUFFICES ASSUME lamp.key \in Keys, conn'.haveKeys
                   PROVE  conn'.memKey = lamp.key
      OBVIOUS
    <3>2. CASE conn'.haveKeys = conn.haveKeys /\ conn'.memKey = conn.memKey
      BY <1>a, <3>1, <3>2
    <3>3. CASE conn'.haveKeys = Loaded.haveKeys /\ conn'.memKey = Loaded.memKey
      BY <1>a, <3>1, <3>3, LoadedEffect
    <3> QED
      BY <1>4, <2>2, <3>1, <3>2, <3>3, MemoryStep
  <2> QED
    BY <1>a, <2>1, <2>3, <2>4
<1>5. CASE Interruption
  <2>1. task.pc = "save" => lamp.key \notin Keys
    BY DEF CoreInv, KeyPlaces
  <2> QED
    BY <1>a, <1>5, <2>1, InterruptionEffect
<1> QED
  BY <1>1, <1>2, <1>3, <1>4, <1>5 DEF InterruptedNext

-----------------------------------------------------------------------------
(* The invariants, with interruptions and without. *)

LEMMA CoreInit == Init => CoreInv
BY TypeInit, ControlInit, KeyInit, OursInit, ProofInit DEF CoreInv

LEMMA CoreStep ==
  ASSUME CoreInv, [InterruptedNext]_vars
  PROVE  CoreInv'
<1>0. TypeInv /\ Control /\ KeyPlaces /\ Answers
  BY DEF CoreInv
<1>1. OursKnown' /\ Answers'
  BY <1>0, OursStep, AnswersStep
<1>2. CASE [Next]_vars
  BY <1>0, <1>1, <1>2, TypeStep, ControlStep, KeyStep DEF CoreInv
<1>3. CASE Interruption
  <2>1. /\ task'.pc \in {"idle", "failed"} /\ (task'.op = "none" <=> task'.pc = "idle")
        /\ task'.fresh => (task.fresh /\ task'.op = "command")
        /\ task'.op # "shutdown"
        /\ (task'.pass = task.pass /\ task'.fresh = task.fresh) \/ task'.pass = 1
    <3>1. CASE Release
      BY <3>1, ReleaseEffect
    <3>2. CASE Raise("other") /\ (StoreRaises \/ (LoadFails /\ task.op = "command"))
      BY <1>0, <3>2, RaiseEffect DEF Control, StoreRaises
    <3> QED
      BY <1>3, <3>1, <3>2
      DEF Interruption, Cancelled, LoadFails, StoreCancelled, StoreRaises
  <2>2. Control'
    BY <1>0, <2>1 DEF Control, TwoPasses
  <2>3. KeyPlaces'
    BY <1>0, <1>3, <2>1, InterruptionEffect, KeysAssumption
    DEF KeyPlaces, MemoryKnown, NeverLockedOut
  <2> QED
    BY <1>1, <1>3, <2>2, <2>3, InterruptionEffect DEF CoreInv
<1> QED
  BY <1>2, <1>3 DEF InterruptedNext

LEMMA CoreInvariance == InterruptedSpec => []CoreInv
<1>1. CoreInv /\ [InterruptedNext]_vars => CoreInv'
  BY CoreStep
<1> QED
  BY <1>1, CoreInit, PTL DEF InterruptedSpec

\* What is proved with interruptions holds without them.
LEMMA Uninterrupted == Spec => InterruptedSpec
<1>1. [Next]_vars => [InterruptedNext]_vars
  BY DEF InterruptedNext
<1> QED
  BY <1>1, PTL DEF Spec, InterruptedSpec

LEMMA IInvInit == Init => IInv
BY CoreInit, MatchInit, ProofInit, IdleInit DEF IInv

LEMMA IInvStep == IInv /\ [Next]_vars => IInv'
<1> SUFFICES ASSUME IInv, [Next]_vars PROVE IInv'
  OBVIOUS
<1>1. TypeInv /\ Control /\ KeyPlaces /\ CoreInv
  BY DEF IInv, CoreInv
<1>2. CoreInv'
  BY <1>1, CoreStep DEF InterruptedNext
<1> QED
  BY <1>1, <1>2, MatchStep, ProvenStep, IdleStep DEF IInv

LEMMA Invariance == Spec => []IInv
BY IInvInit, IInvStep, PTL DEF Spec

-----------------------------------------------------------------------------
(* What holds at every moment. *)

\* A check-in says that the lamp is there only when it has heard it answer itself.
CheckInOnFreshAnswer == task.pc = "finish" => proof = "now"

\* Fields keep their types, at most one client is open, and ensure_connected never runs
\* out of its two passes, wherever an operation is cancelled or the store raises.
THEOREM InterruptedShape == InterruptedSpec => [](TypeOK /\ OneSlot /\ TwoPasses)
<1>1. CoreInv => TypeOK /\ OneSlot /\ TwoPasses
  BY DEF CoreInv, TypeInv, Control
<1> QED
  BY <1>1, CoreInvariance, PTL

\* No cancelled task and no store that raises, at whatever await of a pairing, a re-pairing
\* or an unpair, leaves a lamp of ours registered under a key that is not on disk.
THEOREM InterruptedKeySafety == InterruptedSpec => []NeverLockedOut
<1>1. CoreInv => NeverLockedOut
  BY DEF CoreInv, KeyPlaces
<1> QED
  BY <1>1, CoreInvariance, PTL

\* A link that a cancelled operation left connected misleads no unpair, no pairing and no
\* check-in: UNREGISTER, and the lamp's availability, rest on an answer to the very operation,
\* and pairing frames go only to a lamp that has answered nothing on the link.
THEOREM InterruptedAnswers ==
  InterruptedSpec =>
    [](BroadcastOnFreshProof /\ ProbeBehindFailure /\ CheckInOnFreshAnswer)
<1>1. CoreInv => BroadcastOnFreshProof /\ ProbeBehindFailure /\ CheckInOnFreshAnswer
  BY DEF CoreInv, Answers, CheckInOnFreshAnswer
<1> QED
  BY <1>1, CoreInvariance, PTL

\* The keys the connection encrypts with are the ones on disk, at every step of a pairing,
\* a re-pairing, an unpair and a shutdown.
THEOREM KeysAreStored == Spec => []KeysMatchStore
<1>1. IInv => KeysMatchStore
  BY DEF IInv
<1> QED
  BY <1>1, Invariance, PTL

\* A lamp registered to Home Assistant is registered under the key on disk: neither a
\* failed pairing, nor a failed re-pairing, nor an unpair, nor a reset of the lamp at any
\* moment of one of them, leaves a lamp that nobody here can talk to -- but for a lost
\* UNREGISTER.
THEOREM KeySafety == Spec => []NeverLockedOut
BY Uninterrupted, InterruptedKeySafety, PTL

\* A link handed on as connected is one the lamp has acknowledged something on.
THEOREM SessionSafety == Spec => []SessionProven
<1>1. IInv => SessionProven
  BY DEF IInv, Proven
<1> QED
  BY <1>1, Invariance, PTL

\* Pairing frames go only to a lamp that has acknowledged nothing on the link.
THEOREM ProbeSafety == Spec => []ProbeBehindFailure
BY Uninterrupted, InterruptedAnswers, PTL

\* ensure_connected never runs out of its two passes, so it returns a session or raises.
THEOREM BoundedPasses == Spec => []TwoPasses
BY Uninterrupted, InterruptedShape, PTL

\* UNREGISTER is sent, and the record discarded, only on a session that has answered
\* under that very unpair, however many operations used the link before it.
THEOREM UnpairSafety == Spec => []BroadcastOnFreshProof
BY Uninterrupted, InterruptedAnswers, PTL

\* An on-demand link that nobody is using has a timer that will give it back.
THEOREM IdleLinkReturned == Spec => []IdleArmed
<1>1. IInv => IdleArmed
  BY DEF IInv, CoreInv, Control, IdlePlaces, IdleArmed
<1> QED
  BY <1>1, Invariance, PTL

-----------------------------------------------------------------------------
(* What no step does. *)

\* Whom the lamp belongs to changes in a registration, and else to nobody or to the app.
LEMMA OwnerStep ==
  ASSUME CoreInv, [InterruptedNext]_vars, lamp'.key \in Keys, lamp'.key # lamp.key
  PROVE  task.op = "command" /\ lamp.key = NoKey
<1>1. TypeInv
  BY DEF CoreInv
<1>2. ~Interruption
  BY InterruptionEffect
<1>3. ~Broadcast /\ ~FactoryReset /\ ~AppPairs
  BY BroadcastStep, OthersStep, KeysAssumption
<1>4. RegisterEnd
  BY <1>1, <1>2, <1>3, LampStep DEF InterruptedNext
<1> QED
  BY <1>4, RegisterStep

\* No check-in and no unpair ever makes a lamp ours, and no operation replaces the key of
\* a lamp that is registered to anybody, wherever it is cut short.
THEOREM InterruptedPairing == InterruptedSpec => OnlyCommandsPair
<1>1. CoreInv /\ [InterruptedNext]_vars =>
        [lamp'.key \in Keys /\ lamp'.key # lamp.key =>
           task.op = "command" /\ lamp.key = NoKey]_vars
  BY OwnerStep
<1> QED
  BY <1>1, CoreInvariance, PTL DEF InterruptedSpec, OnlyCommandsPair

\* The same of operations that run to their end.
THEOREM PairingSafety == Spec => OnlyCommandsPair
BY Uninterrupted, InterruptedPairing, PTL

\* Where the record changes, interrupted or not: an unpair that was cancelled between its
\* removal of the record and of the keys in memory can have it written once more.
LEMMA RecordChange ==
  ASSUME CoreInv, [InterruptedNext]_vars, store' # store
  PROVE  \/ task.pc = "save" /\ (store # NoKey => lamp.key # store)
         \/ task.pc = "discard" /\ proof = "now"
         \/ task.pc = "info" /\ store = NoKey /\ store' = conn.memKey
<1>1. task.pc = "save" => (store # NoKey => lamp.key # store)
  BY DEF CoreInv, KeyPlaces, TypeInv, TypeOK, StoredKeys
<1>2. task.pc = "discard" => proof = "now"
  BY DEF CoreInv, Answers, BroadcastOnFreshProof
<1>3. CASE Interruption
  BY <1>1, <1>2, <1>3, InterruptionEffect
<1>4. CASE SaveKeys \/ DiscardKeys
  BY <1>1, <1>2, <1>4 DEF SaveKeys, DiscardKeys, At
<1>5. CASE FetchModuleInfo /\ store' = conn.memKey
  BY <1>5 DEF FetchModuleInfo, CoreInv, KeyPlaces, MemoryKnown
<1> QED
  BY <1>3, <1>4, <1>5, RecordStep DEF InterruptedNext

\* The record on disk is written when there is nothing in the lamp that it could still
\* open, and removed on the word of a session that answered: every other failure leaves
\* it where it is.
THEOREM RecordSafety == Spec => RecordSurvives
<1>1. ASSUME IInv, [Next]_vars, store' # store
      PROVE  \/ task.pc = "save" /\ (store # NoKey => lamp.key # store)
             \/ task.pc = "discard" /\ proof = "now"
  <2>1. ~(task.pc = "info" /\ store = NoKey)
    BY <1>1 DEF IInv, CoreInv, KeyPlaces, KeysMatchStore
  <2> QED
    BY <1>1, <2>1, RecordChange DEF IInv, InterruptedNext
<1>2. IInv /\ [Next]_vars =>
        [store' # store => \/ task.pc = "save" /\ (store # NoKey => lamp.key # store)
                           \/ task.pc = "discard" /\ proof = "now"]_vars
  BY <1>1
<1> QED
  BY <1>2, Invariance, PTL DEF Spec, RecordSurvives

\* A record is never lost to an interruption, nor replaced by one: what is removed is
\* removed on an answer, and what comes back is what had been removed.
RecordSurvivesCuts ==
  [][store' # store => \/ task.pc = "save" /\ (store # NoKey => lamp.key # store)
                       \/ task.pc = "discard" /\ proof = "now"
                       \/ task.pc = "info" /\ store = NoKey /\ store' = conn.memKey]_vars

\* However an operation is cut short, the record is replaced only by a pairing and removed
\* only by an unpair whose session answered; module information can bring back the one
\* that an unpair, cancelled there, had removed.
THEOREM InterruptedRecord == InterruptedSpec => RecordSurvivesCuts
<1>1. CoreInv /\ [InterruptedNext]_vars =>
        [store' # store => \/ task.pc = "save" /\ (store # NoKey => lamp.key # store)
                           \/ task.pc = "discard" /\ proof = "now"
                           \/ task.pc = "info" /\ store = NoKey /\ store' = conn.memKey]_vars
  BY RecordChange
<1> QED
  BY <1>1, CoreInvariance, PTL DEF InterruptedSpec, RecordSurvivesCuts

\* fermob.unpair has the entry removed only when no lamp depends on its record, or when a
\* load that was cancelled or raised has kept the record from the object.
THEOREM InterruptedRemoval == InterruptedSpec => RemovesOnlyReleased
<1>1. ASSUME CoreInv, [InterruptedNext]_vars, removal', ~removal
      PROVE  lamp.key \notin Keys \/ lamp.missed \/ RecordOverlooked
  <2>1. (BeginUnpair /\ ~Loaded.haveKeys) \/ DiscardKeys
    BY <1>1
    DEF InterruptedNext, Interruption, Cancelled, LoadFails, StoreCancelled, StoreRaises,
        vars, Next, Holder, Environment, Connect, Command, CheckIn, Unpair, RequestService,
        CheckInDue, Shutdown, Acquire, IdleElapses, IdleDisconnect, FinishShutdown,
        OpenLink, FetchModuleInfo, ExchangeKeys, SaveKeys, RegisterEnd, AskRetry,
        AskAnswered, AskRefused, AskRepair, AskSilentTwice, ProbeReset, ProbeStillPaired,
        BeginCommand, SendLed, CommandFailed, BeginCheckIn, RefreshAnswered, RefreshDead,
        FinishCheckIn, CheckInFailed, BeginUnpair, UnpairRetry, UnpairAnswered,
        UnpairRefused, Broadcast, UnpairFailed, LinkDrops, SessionDies, FactoryReset,
        AppPairs, LampPush
  <2>2. CASE DiscardKeys
    BY <1>1, <2>2 DEF DiscardKeys, At, CoreInv, KeyPlaces
  <2>3. CASE ~Loaded.haveKeys
    <3>1. CASE store = NoKey
      BY <1>1, <3>1, KeysAssumption DEF CoreInv, KeyPlaces, NeverLockedOut
    <3>2. CASE store # NoKey
      <4>1. conn.keysLoaded /\ ~conn.haveKeys
        BY <1>1, <2>3, <3>2, LoadedEffect DEF CoreInv
      <4> QED
        BY <3>2, <4>1 DEF RecordOverlooked
    <3> QED
      BY <3>1, <3>2
  <2> QED
    BY <2>1, <2>2, <2>3
<1>2. CoreInv /\ [InterruptedNext]_vars =>
        [removal' /\ ~removal =>
           lamp.key \notin Keys \/ lamp.missed \/ RecordOverlooked]_vars
  BY <1>1
<1> QED
  BY <1>2, CoreInvariance, PTL DEF InterruptedSpec, RemovesOnlyReleased

-----------------------------------------------------------------------------
(* The connection implements Ownership. *)

LEMMA OwnedInit == Init => Owned!Init
BY DEF Init, Owned!Init, StoredKeys

\* A key is written, and the lamp registered under it, released and forgotten, in steps
\* of their own; every other step leaves ownership alone.
LEMMA OwnedStep ==
  ASSUME CoreInv, [InterruptedNext]_vars
  PROVE  [Owned!Next]_(Owned!vars)
<1> USE DEF Owned!Next, Owned!vars
<1>a. /\ TypeInv /\ conn.memKey \in StoredKeys /\ NoKey \notin Keys
  BY KeyTypes, KeysAssumption DEF CoreInv
<1>b. task.pc = "save" => conn.memKey \in Keys /\ lamp.key \notin Keys
  BY DEF CoreInv, KeyPlaces
<1>c. task.pc = "discard" => lamp.key \notin Keys \/ lamp.missed
  BY DEF CoreInv, KeyPlaces
<1>1. CASE RegisterEnd
  BY <1>1, RegisterStep DEF Owned!Register
<1>2. CASE Broadcast
  BY <1>2, BroadcastStep DEF Owned!LetGo, Owned!Miss, Owned!Ours
<1>3. CASE FactoryReset \/ AppPairs
  BY <1>3, OthersStep DEF Owned!LetGo, Owned!AppTakes
<1>4. CASE [Next]_vars /\ ~RegisterEnd /\ ~Broadcast /\ ~FactoryReset /\ ~AppPairs
  <2>1. lamp'.key = lamp.key /\ lamp'.missed = lamp.missed
    BY <1>a, <1>4, LampStep
  <2>2. CASE store' = store
    BY <2>1, <2>2
  <2>3. CASE SaveKeys
    BY <1>b, <2>1, <2>3 DEF SaveKeys, Record, Owned!Write, Owned!Ours
  <2>4. CASE DiscardKeys
    BY <1>c, <2>1, <2>4 DEF DiscardKeys, At, Owned!Forget, Owned!Ours
  <2>5. CASE FetchModuleInfo /\ store' = conn.memKey
    <3>1. conn.memKey \in Keys /\ (lamp.key \in Keys => conn.memKey = lamp.key)
      BY <1>a, <2>5
      DEF FetchModuleInfo, CoreInv, KeyPlaces, MemoryKnown, OursKnown, StoredKeys
    <3> QED
      BY <2>1, <2>5, <3>1 DEF Owned!Write, Owned!Ours
  <2> QED
    BY <1>4, <2>2, <2>3, <2>4, <2>5, RecordStep
<1>5. CASE Interruption
  <2>1. lamp'.key = lamp.key /\ lamp'.missed = lamp.missed
    BY <1>5, InterruptionEffect
  <2>2. CASE store' = store
    BY <2>1, <2>2
  <2>3. CASE task.pc = "save" /\ store' = conn.memKey
    BY <1>b, <2>1, <2>3 DEF Owned!Write, Owned!Ours
  <2>4. CASE task.pc = "discard" /\ store' = NoKey
    BY <1>c, <2>1, <2>4 DEF Owned!Forget, Owned!Ours
  <2> QED
    BY <1>5, <2>2, <2>3, <2>4, InterruptionEffect
<1> QED
  BY <1>1, <1>2, <1>3, <1>4, <1>5 DEF InterruptedNext

\* Whatever is lost, cancelled or cut short, at whatever await, the record and the lamp's
\* registration change only as Ownership allows.
THEOREM InterruptedImplementation == InterruptedSpec => ImplementsOwnership
<1>1. CoreInv /\ [InterruptedNext]_vars => [Owned!Next]_(Owned!vars)
  BY OwnedStep
<1> QED
  BY OwnedInit, <1>1, CoreInvariance, PTL DEF InterruptedSpec, ImplementsOwnership, Owned!Spec

\* The same of a connection whose operations only fail, and are never cut short.
THEOREM Implementation == Spec => ImplementsOwnership
BY Uninterrupted, InterruptedImplementation, PTL

-----------------------------------------------------------------------------
(* The lock is given back: the half of it that is safety. *)

\* How many steps a holder of the lock in the state t has left at most.
StepsLeft(t) ==
  CASE t.pc = "begin" -> 19
    [] t.pc = "refresh" -> 18
    [] t.pc = "open" -> IF t.fresh THEN 12 ELSE 17
    [] t.pc = "info" -> 16
    [] t.pc = "ask" -> (IF t.fresh THEN 7 ELSE 15) - t.misses
    [] t.pc = "probe" -> 13
    [] t.pc = "pair" -> 11
    [] t.pc = "save" -> 10
    [] t.pc = "register" -> 9
    [] t.pc = "reopen" -> 8
    [] t.pc = "unpair" -> 5 - t.misses
    [] t.pc = "broadcast" -> 3
    [] t.pc \in {"send", "finish", "discard"} -> 2
    [] t.pc = "failed" -> 1
    [] OTHER -> 0

\* A holder only ever moves on: no retry, no second pass, no failure takes it back to where
\* it has been, and nobody else moves it.
LockCountsDown ==
  [][/\ Holder => StepsLeft(task') < StepsLeft(task)
     /\ task.op # "none" /\ task' # task => StepsLeft(task') < StepsLeft(task)]_vars

LEMMA StepsLeftRange ==
  ASSUME NEW t \in TaskFields
  PROVE  StepsLeft(t) \in 0..19 /\ (StepsLeft(t) = 0 <=> t.pc = "idle")
<1>1. t.pc \in Places /\ t.misses \in {0, 1} /\ t.fresh \in BOOLEAN
  BY DEF TaskFields
<1> QED
  BY <1>1 DEF StepsLeft, Places

LEMMA ConnectCountsDown ==
  ASSUME TypeInv, Control, Connect
  PROVE  StepsLeft(task') < StepsLeft(task)
<1> USE DEF StepsLeft
<1>a. task \in TaskFields /\ task.misses \in {0, 1} /\ task.fresh \in BOOLEAN
  BY DEF TypeInv, TypeOK, TaskFields
<1>1. CASE OpenLink
  <2>1. \/ task'.pc = "failed"
        \/ /\ task'.fresh = task.fresh /\ task'.misses = task.misses
           /\ task'.pc = IF task.pc = "reopen" THEN "ask"
                         ELSE IF task.fresh THEN "pair" ELSE "info"
    BY <1>1, GotoEffect, RaiseEffect DEF OpenLink
  <2>2. task.pc \in {"open", "reopen"} /\ (task.pc = "reopen" => task.fresh)
    BY <1>1 DEF OpenLink, Control
  <2> QED
    BY <1>a, <2>1, <2>2
<1>2. CASE FetchModuleInfo
  <2>1. task.pc = "info" /\ task'.pc = "ask" /\ ~task'.fresh /\ task'.misses = task.misses
    BY <1>2, GotoEffect DEF FetchModuleInfo, Control
  <2> QED
    BY <1>a, <2>1
<1>3. CASE ExchangeKeys \/ SaveKeys \/ RegisterEnd
  <2>1. \/ task.pc = "pair" /\ task'.pc \in {"save", "failed"}
        \/ task.pc = "save" /\ task'.pc = "register"
        \/ task.pc = "register" /\ task'.pc \in {"reopen", "failed"}
    BY <1>3, GotoEffect, RaiseEffect DEF ExchangeKeys, SaveKeys, RegisterEnd
  <2> QED
    BY <2>1
<1>4. CASE AskRetry
  <2>1. /\ task.pc = "ask" /\ task.misses = 0
        /\ task'.pc = "ask" /\ task'.misses = 1 /\ task'.fresh = task.fresh
    BY <1>4, <1>a DEF AskRetry, Retry, TaskFields
  <2> QED
    BY <1>a, <2>1
<1>5. CASE AskAnswered
  <2>1. /\ task.pc = "ask" /\ task'.pc \in {"send", "finish", "unpair"}
        /\ task'.misses = task.misses
    BY <1>5, GotoEffect DEF AskAnswered, AfterConnect
  <2> QED
    BY <1>a, <2>1
<1>6. CASE AskRefused \/ ProbeStillPaired
  <2>1. task.pc \in {"ask", "probe"} /\ task'.pc = "failed"
    BY <1>6, RaiseEffect DEF AskRefused, ProbeStillPaired
  <2> QED
    BY <1>a, <2>1
<1>7. CASE AskRepair \/ AskSilentTwice
  <2>1. task.pc = "ask" /\ ~task.fresh
    BY <1>7 DEF AskRepair, AskSilentTwice, GivesUp
  <2>2. task'.pc = "probe" \/ (task'.pc = "open" /\ task'.fresh)
    BY <1>7, GotoEffect, RepairEffect DEF AskRepair, AskSilentTwice
  <2> QED
    BY <1>a, <2>1, <2>2
<1>8. CASE ProbeReset
  <2>1. task.pc = "probe" /\ task'.pc = "open" /\ task'.fresh
    BY <1>8, RepairEffect DEF ProbeReset
  <2> QED
    BY <2>1
<1> QED
  BY <1>1, <1>2, <1>3, <1>4, <1>5, <1>6, <1>7, <1>8 DEF Connect

LEMMA CallersCountDown ==
  ASSUME TypeInv, Control, Command \/ CheckIn \/ Unpair \/ FinishShutdown
  PROVE  StepsLeft(task') < StepsLeft(task)
<1> USE DEF StepsLeft
<1>a. task \in TaskFields /\ task.misses \in {0, 1} /\ task.fresh \in BOOLEAN
  BY DEF TypeInv, TypeOK, TaskFields
<1>1. CASE (BeginCommand \/ BeginCheckIn \/ BeginUnpair) /\ EnterConnect
  <2>1. /\ task.pc = "begin" /\ task'.pc \in {"open", "refresh", "send", "unpair"}
        /\ task'.misses = task.misses
    BY <1>1, EnterConnectEffect DEF BeginCommand, BeginCheckIn, BeginUnpair, At, AfterConnect
  <2> QED
    BY <1>a, <2>1
<1>2. CASE \/ (BeginCommand \/ BeginCheckIn \/ BeginUnpair) /\ ~EnterConnect
           \/ CommandFailed \/ FinishCheckIn \/ CheckInFailed
           \/ DiscardKeys \/ UnpairFailed \/ FinishShutdown
  <2>1. task'.pc = "idle" /\ task.pc \in {"begin", "failed", "finish", "discard"}
    BY <1>2, ReleaseEffect
    DEF BeginCommand, BeginCheckIn, BeginUnpair, CommandFailed, FinishCheckIn,
        CheckInFailed, DiscardKeys, UnpairFailed, FinishShutdown, At
  <2> QED
    BY <2>1
<1>3. CASE SendLed \/ UnpairRefused
  <2>1. task.pc \in {"send", "unpair"} /\ task'.pc \in {"idle", "failed"}
    BY <1>3, ReleaseEffect, RaiseEffect DEF SendLed, UnpairRefused, At
  <2> QED
    BY <1>a, <2>1
<1>4. CASE RefreshAnswered \/ RefreshDead
  <2>1. /\ task.pc = "refresh" /\ ~task.fresh
        /\ task'.pc = "finish" \/ (task'.pc = "open" /\ task'.fresh = task.fresh)
    BY <1>4, <1>a, GotoEffect DEF RefreshAnswered, RefreshDead, At, Control, TaskFields
  <2> QED
    BY <2>1
<1>5. CASE UnpairRetry
  <2>1. /\ task.pc = "unpair" /\ task.misses = 0
        /\ task'.pc = "unpair" /\ task'.misses = 1
    BY <1>5, <1>a DEF UnpairRetry, Retry, At, TaskFields
  <2> QED
    BY <2>1
<1>6. CASE UnpairAnswered \/ Broadcast
  <2>1. \/ task.pc = "unpair" /\ task'.pc = "broadcast"
        \/ task.pc = "broadcast" /\ task'.pc \in {"discard", "failed"}
    BY <1>6, GotoEffect, RaiseEffect DEF UnpairAnswered, Broadcast, At
  <2> QED
    BY <1>a, <2>1
<1> QED
  BY <1>1, <1>2, <1>3, <1>4, <1>5, <1>6 DEF Command, CheckIn, Unpair

LEMMA HolderCountsDown ==
  ASSUME TypeInv, Control, Holder
  PROVE  StepsLeft(task') < StepsLeft(task)
BY ConnectCountsDown, CallersCountDown DEF Holder

LEMMA InterruptionCountsDown ==
  ASSUME TypeInv, Control, Interruption
  PROVE  StepsLeft(task') < StepsLeft(task)
<1>1. task \in TaskFields
  BY DEF TypeInv, TypeOK
<1>2. CASE Release
  <2>1. task.pc # "idle"
    BY <1>2, ReleaseEffect, RaiseEffect
    DEF Interruption, Cancelled, LoadFails, Loading, StoreCancelled, StoreRaises, Control
  <2>2. StepsLeft(task') = 0
    BY <1>2, ReleaseEffect DEF StepsLeft
  <2> QED
    BY <1>1, <2>1, <2>2, StepsLeftRange
<1>3. CASE StoreRaises
  <2>1. task.pc \in {"info", "save"} /\ task'.pc = "failed"
    BY <1>3, RaiseEffect DEF StoreRaises
  <2> QED
    BY <2>1 DEF StepsLeft
<1>4. CASE LoadFails /\ Raise("other")
  <2>1. task.pc = "begin" /\ task'.pc = "failed"
    BY <1>4, RaiseEffect DEF LoadFails, Loading
  <2> QED
    BY <2>1 DEF StepsLeft
<1> QED
  BY <1>2, <1>3, <1>4 DEF Interruption, Cancelled, LoadFails, StoreCancelled

\* Whoever takes the lock has at most 19 steps before it is free again, however many
\* replies and links are lost meanwhile and whatever is cut short.
THEOREM LockCountdown ==
  InterruptedSpec =>
    /\ [](StepsLeft(task) \in 0..19 /\ (StepsLeft(task) = 0 <=> task.op = "none"))
    /\ LockCountsDown
<1>1. CoreInv => StepsLeft(task) \in 0..19 /\ (StepsLeft(task) = 0 <=> task.op = "none")
  BY StepsLeftRange DEF CoreInv, TypeInv, TypeOK, Control
<1>2. ASSUME CoreInv, [InterruptedNext]_vars
      PROVE  /\ Holder => StepsLeft(task') < StepsLeft(task)
             /\ task.op # "none" /\ task' # task => StepsLeft(task') < StepsLeft(task)
  <2>1. TypeInv /\ Control
    BY <1>2 DEF CoreInv
  <2>2. CASE Holder \/ Interruption
    BY <2>1, <2>2, HolderCountsDown, InterruptionCountsDown
  <2>3. CASE ~Holder /\ ~Interruption
    <3>1. task' = task \/ task.op = "none"
      BY <1>2, <2>1, <2>3, NextSplit, BystanderEffect, AcquireEffect
      DEF InterruptedNext, Holder, vars
    <3> QED
      BY <2>3, <3>1
  <2> QED
    BY <2>2, <2>3
<1>3. CoreInv /\ [InterruptedNext]_vars =>
        [/\ Holder => StepsLeft(task') < StepsLeft(task)
         /\ task.op # "none" /\ task' # task => StepsLeft(task') < StepsLeft(task)]_vars
  BY <1>2
<1> QED
  BY <1>1, <1>3, CoreInvariance, PTL DEF InterruptedSpec, LockCountsDown

-----------------------------------------------------------------------------
(* A link that was left behind is settled by its next use: the half of        *)
(* AbandonedLinkSettled that is safety.                                     *)

\* Where a connect is over and the session is in use.
InUsePlaces == {"send", "finish", "refresh", "unpair", "broadcast", "discard"}

\* Whatever link a session was found on, it has a timer behind it.
InUse ==
  OnDemand /\ conn.client /\ ~closing /\ task.pc \in InUsePlaces => idle # "none"

\* A check-in that succeeds leaves no abandoned link, and a command none without a timer,
\* whoever opened the link and whatever cut that task short. (async_shutdown() closes
\* the link itself.)
SettledByUse ==
  [][/\ FinishCheckIn => ~Abandoned' \/ closing
     /\ SendLed \/ CommandFailed =>
          (OnDemand /\ conn'.client /\ ~closing' /\ task'.op = "none" => idle' # "none")]_vars

LEMMA InUseConnect ==
  ASSUME TypeInv, Control, Connect
  PROVE  InUse'
<1> USE DEF InUse, InUsePlaces
<1>a. /\ conn \in ConnFields /\ task \in TaskFields /\ Forgotten(conn) \in ConnFields
  BY ForgottenEffect DEF TypeInv, TypeOK
<1>1. CASE OpenLink \/ FetchModuleInfo \/ ExchangeKeys \/ SaveKeys \/ RegisterEnd
           \/ AskSilentTwice
  <2>1. task'.pc \in {"failed", "ask", "pair", "info", "save", "register", "reopen", "probe"}
    BY <1>1, GotoEffect, RaiseEffect
    DEF OpenLink, FetchModuleInfo, ExchangeKeys, SaveKeys, RegisterEnd, AskSilentTwice
  <2> QED
    BY <2>1
<1>2. CASE AskRetry
  <2>1. task'.pc = "ask"
    BY <1>2, <1>a DEF AskRetry, TaskFields
  <2> QED
    BY <2>1
<1>3. CASE AskAnswered
  BY <1>3, Armed DEF AskAnswered
<1>4. CASE AskRefused \/ ProbeStillPaired \/ AskRepair \/ ProbeReset
  <2>1. ~conn'.client
    BY <1>4, <1>a, DisconnectEffect DEF AskRefused, ProbeStillPaired, AskRepair, ProbeReset
  <2> QED
    BY <2>1
<1> QED
  BY <1>1, <1>2, <1>3, <1>4 DEF Connect

LEMMA InUseCallers ==
  ASSUME TypeInv, Control, InUse, Command \/ CheckIn \/ Unpair \/ FinishShutdown
  PROVE  InUse'
<1> USE DEF InUse, InUsePlaces
<1>a. task \in TaskFields
  BY DEF TypeInv, TypeOK
<1>1. CASE BeginCommand \/ ((BeginCheckIn \/ BeginUnpair) /\ Loaded.haveKeys)
  <2>1. EnterConnect
    BY <1>1 DEF BeginCommand, BeginCheckIn, BeginUnpair
  <2> QED
    BY <2>1, EnterConnectEffect, Armed
<1>2. CASE (BeginCheckIn \/ BeginUnpair) /\ ~Loaded.haveKeys
  BY <1>2, ReleaseEffect DEF BeginCheckIn, BeginUnpair
<1>3. CASE SendLed \/ FinishCheckIn \/ CheckInFailed \/ UnpairRefused \/ CommandFailed
           \/ UnpairFailed \/ FinishShutdown \/ DiscardKeys
  <2>1. task'.pc \in {"idle", "failed"}
    BY <1>3, ReleaseEffect, RaiseEffect
    DEF SendLed, FinishCheckIn, CheckInFailed, UnpairRefused, CommandFailed, UnpairFailed,
        FinishShutdown, DiscardKeys
  <2> QED
    BY <2>1
<1>4. CASE RefreshAnswered \/ UnpairAnswered \/ UnpairRetry
  <2>1. UNCHANGED <<conn, idle, closing>> /\ task.pc \in InUsePlaces
    BY <1>4 DEF RefreshAnswered, UnpairAnswered, UnpairRetry, At
  <2> QED
    BY <2>1
<1>5. CASE RefreshDead
  <2>1. task'.pc = "open"
    BY <1>5, <1>a DEF RefreshDead, TaskFields
  <2> QED
    BY <2>1
<1>6. CASE Broadcast
  <2>1. UNCHANGED <<conn, idle, closing>> /\ task.pc \in InUsePlaces
    BY <1>6 DEF Broadcast, At
  <2> QED
    BY <2>1
<1> QED
  BY <1>1, <1>2, <1>3, <1>4, <1>5, <1>6 DEF Command, CheckIn, Unpair

LEMMA InUseStep ==
  ASSUME TypeInv, Control, InUse, [InterruptedNext]_vars
  PROVE  InUse'
<1> USE DEF InUse, InUsePlaces
<1>1. CASE UNCHANGED vars
  BY <1>1 DEF vars
<1>2. CASE Interruption
  <2>1. task'.pc \in {"idle", "failed"}
    BY <1>2, ReleaseEffect, RaiseEffect
    DEF Interruption, Cancelled, LoadFails, StoreCancelled, StoreRaises
  <2> QED
    BY <2>1
<1>3. CASE IdleDisconnect
  <2>1. Disconnect(conn) /\ conn \in ConnFields
    BY <1>3 DEF IdleDisconnect, TypeInv, TypeOK
  <2> QED
    BY <2>1, DisconnectEffect
<1>4. CASE Bystander /\ ~IdleDisconnect
  <2>1. UNCHANGED <<task, conn>> /\ (closing => closing')
        /\ (~closing' /\ idle # "none" => idle' # "none")
    BY <1>4, BystanderEffect
    DEF Bystander, RequestService, CheckInDue, Shutdown, IdleElapses, Environment,
        LinkDrops, SessionDies, FactoryReset, AppPairs, LampPush
  <2> QED
    BY <2>1
<1>5. CASE Acquire
  BY <1>5, AcquireEffect
<1> QED
  BY <1>1, <1>2, <1>3, <1>4, <1>5, InUseConnect, InUseCallers, NextSplit DEF InterruptedNext

\* What a cancelled task leaves behind needs no other repair than the next use of the
\* link: the check-in of the coordinator proves it, and any use of it starts its timer.
THEOREM NextUseSettles == InterruptedSpec => SettledByUse
<1>1. Init => InUse
  BY DEF Init, NewConn, NoTask, InUse, InUsePlaces
<1>2. CoreInv /\ InUse /\ [InterruptedNext]_vars => InUse'
  BY InUseStep DEF CoreInv
<1>3. ASSUME CoreInv, InUse, FinishCheckIn
      PROVE  ~Abandoned' \/ closing
  <2>1. UNCHANGED <<conn, idle, proof>> /\ task.pc = "finish"
    BY <1>3 DEF FinishCheckIn, At
  <2>2. proof = "now"
    BY <1>3, <2>1 DEF CoreInv, Answers
  <2> QED
    BY <1>3, <2>1, <2>2 DEF Abandoned, InUse, InUsePlaces
<1>4. ASSUME CoreInv, InUse, SendLed \/ CommandFailed,
             OnDemand, conn'.client, ~closing', task'.op = "none"
      PROVE  idle' # "none"
  <2>1. CASE SendLed
    BY <1>4, <2>1 DEF SendLed, At, InUse, InUsePlaces
  <2>2. CASE CommandFailed
    BY <1>4, <2>2, DisconnectEffect DEF CommandFailed, CoreInv, TypeInv, TypeOK
  <2> QED
    BY <1>4, <2>1, <2>2
<1>5. CoreInv /\ InUse =>
        [/\ FinishCheckIn => ~Abandoned' \/ closing
         /\ SendLed \/ CommandFailed =>
              (OnDemand /\ conn'.client /\ ~closing' /\ task'.op = "none"
                 => idle' # "none")]_vars
  BY <1>3, <1>4
<1> QED
  BY <1>1, <1>2, <1>5, CoreInvariance, PTL DEF InterruptedSpec, SettledByUse
=============================================================================
