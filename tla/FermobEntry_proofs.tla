-------------------------- MODULE FermobEntry_proofs --------------------------
(***************************************************************************)
(* Theorems about FermobEntry: what is proved of one connection object      *)
(* holds across reloads, removals, re-additions and restarts, for every     *)
(* number of them.                                                          *)
(*                                                                         *)
(* The invariant of the connection survives because an object is replaced   *)
(* only by a restart, which leaves nothing open, or when its shutdown has   *)
(* run; and a shutdown that was asked for is waiting behind every other     *)
(* task, holds the lock, or has closed the link for good. EntryCore is what  *)
(* holds when tasks are cancelled as well; EntryIInv adds the rest of the    *)
(* connection's invariant, for operations that run to their end.            *)
(***************************************************************************)
EXTENDS FermobEntry, FermobConnection_proofs

\* Where a shutdown that was asked for is.
ShutdownUnderway ==
  closing => \/ queue # <<>> /\ queue[Len(queue)] = "shutdown"
             \/ queue = <<>> /\ task.op = "shutdown"
             \/ queue = <<>> /\ task.op = "none" /\ ~conn.client

EntryCore == CoreInv /\ EntryTypeOK /\ ShutdownUnderway

EntryIInv == EntryCore /\ IInv

-----------------------------------------------------------------------------
(* A fresh object *)

\* A new object with nothing open satisfies all that is known of an old one, if the lamp
\* is one the record opens.
LEMMA FreshObjectCore ==
  ASSUME CoreInv, FreshObject,
         store' \in StoredKeys, lamp' \in LampFields, slots' = 0, UNCHANGED faults,
         proof' \in {"none", "earlier", "now"},
         NeverLockedOut', OursKnown',
         lamp'.offer # NoKey => lamp'.link /\ lamp'.key = NoKey
  PROVE  CoreInv'
<1>1. /\ conn' \in ConnFields /\ ~conn'.client /\ ~conn'.connected /\ ~conn'.haveKeys
  BY DEF FreshObject, NewConn, ConnFields, StoredKeys
<1>2. /\ task' \in TaskFields
      /\ task'.op = "none" /\ task'.pc = "idle" /\ ~task'.fresh /\ task'.pass = 1
      /\ task'.misses = 0
  BY NoTaskType DEF FreshObject, NoTask
<1>3. TypeInv'
  <2>1. queue' \in Seq(Ops)
    BY DEF FreshObject
  <2>2. closing' \in BOOLEAN /\ removal' \in BOOLEAN /\ available' \in BOOLEAN
    BY DEF FreshObject
  <2>3. idle' \in {"none", "sleeping", "due"}
    BY DEF FreshObject
  <2>4. slots' \in Nat /\ faults' \in Nat /\ OneSlot'
    BY <1>1 DEF CoreInv, TypeInv, TypeOK, OneSlot
  <2> QED
    BY <1>1, <1>2, <2>1, <2>2, <2>3, <2>4 DEF TypeInv, TypeOK
<1>4. Control'
  BY <1>2 DEF Control, TwoPasses
<1>5. KeyPlaces'
  BY <1>1, <1>2 DEF KeyPlaces, MemoryKnown
<1>6. Answers'
  BY <1>1, <1>2, AnswersElsewhere
<1> QED
  BY <1>3, <1>4, <1>5, <1>6 DEF CoreInv

LEMMA FreshObjectRest ==
  ASSUME FreshObject
  PROVE  KeysMatchStore' /\ Proven' /\ IdlePlaces'
<1>1. ~conn'.client /\ ~conn'.connected /\ ~conn'.haveKeys
  BY DEF FreshObject, NewConn
<1>2. task'.op = "none" /\ task'.pc = "idle"
  BY DEF FreshObject, NoTask
<1> QED
  BY <1>1, <1>2 DEF KeysMatchStore, Proven, SessionProven, IdlePlaces

\* A lost link takes the negotiation on it along, and no more.
LEMMA DroppedEffect ==
  ASSUME lamp \in LampFields
  PROVE  /\ Dropped(lamp) \in LampFields
         /\ Dropped(lamp).key = lamp.key /\ Dropped(lamp).missed = lamp.missed
         /\ Dropped(lamp).offer = NoKey
BY DroppedType DEF LampFields, Dropped

-----------------------------------------------------------------------------
(* The connection, while its entry is loaded or being unloaded *)

LEMMA HolderLeaves ==
  ASSUME Holder
  PROVE  UNCHANGED <<queue, closing>>
<1>1. CASE Connect
  BY <1>1 DEF Connect, OpenLink, FetchModuleInfo, ExchangeKeys, SaveKeys, RegisterEnd,
              AskRetry, AskAnswered, AskRefused, AskRepair, AskSilentTwice, ProbeReset,
              ProbeStillPaired
<1>2. CASE Command \/ FinishShutdown
  BY <1>2 DEF Command, BeginCommand, SendLed, CommandFailed, FinishShutdown
<1>3. CASE CheckIn
  BY <1>3 DEF CheckIn, BeginCheckIn, RefreshAnswered, RefreshDead, FinishCheckIn,
              CheckInFailed
<1>4. CASE Unpair
  BY <1>4 DEF Unpair, BeginUnpair, UnpairRetry, UnpairAnswered, UnpairRefused, Broadcast,
              DiscardKeys, UnpairFailed
<1> QED
  BY <1>1, <1>2, <1>3, <1>4 DEF Holder

\* A shutdown with the lock has one step, and without a holder there is none.
LEMMA HolderOfShutdown ==
  ASSUME Control, Holder, task.op \in {"none", "shutdown"}
  PROVE  task.op = "shutdown" /\ FinishShutdown
<1>0. task.pc \in {"idle", "begin"}
  BY DEF Control
<1>1. ~Connect
  BY <1>0 DEF Connect, OpenLink, FetchModuleInfo, ExchangeKeys, SaveKeys, RegisterEnd,
              AskRetry, AskAnswered, AskRefused, AskRepair, AskSilentTwice, ProbeReset,
              ProbeStillPaired
<1>2. ~Command
  BY DEF Command, BeginCommand, SendLed, CommandFailed, At
<1>3. ~CheckIn
  BY DEF CheckIn, BeginCheckIn, RefreshAnswered, RefreshDead, FinishCheckIn,
         CheckInFailed, At
<1>4. ~Unpair
  BY DEF Unpair, BeginUnpair, UnpairRetry, UnpairAnswered, UnpairRefused, Broadcast,
         DiscardKeys, UnpairFailed, At
<1> QED
  BY <1>1, <1>2, <1>3, <1>4 DEF Holder, FinishShutdown, At

LEMMA ShutdownHolder ==
  ASSUME CoreInv, ShutdownUnderway, Holder
  PROVE  ShutdownUnderway'
<1>1. UNCHANGED <<queue, closing>>
  BY HolderLeaves
<1>2. CASE ~closing \/ queue # <<>>
  BY <1>1, <1>2 DEF ShutdownUnderway
<1>3. CASE closing /\ queue = <<>>
  <2>1. FinishShutdown
    BY <1>3, HolderOfShutdown DEF ShutdownUnderway, CoreInv
  <2>2. task'.op = "none" /\ ~conn'.client
    BY <2>1, ReleaseEffect, DisconnectEffect DEF FinishShutdown, CoreInv, TypeInv, TypeOK
  <2> QED
    BY <1>1, <1>3, <2>2 DEF ShutdownUnderway
<1> QED
  BY <1>2, <1>3

\* A shutdown is not what is cancelled: whoever is, the shutdown is behind.
LEMMA ShutdownInterruption ==
  ASSUME CoreInv, ShutdownUnderway, Interruption
  PROVE  UNCHANGED <<queue, closing>> /\ ShutdownUnderway'
<1>1. UNCHANGED <<queue, closing>>
  BY DEF Interruption, Cancelled, LoadFails, StoreCancelled, StoreRaises
<1>2. task.op \notin {"none", "shutdown"}
  BY DEF Interruption, Cancelled, LoadFails, Loading, StoreCancelled, StoreRaises,
         CoreInv, Control
<1> QED
  BY <1>1, <1>2 DEF ShutdownUnderway

LEMMA ShutdownAcquire ==
  ASSUME CoreInv, ShutdownUnderway, Acquire
  PROVE  ShutdownUnderway'
<1>0. queue \in Seq(Ops) /\ queue # <<>> /\ queue' = Tail(queue) /\ UNCHANGED closing
  BY DEF CoreInv, TypeInv, TypeOK, Acquire
<1>1. CASE ~closing
  BY <1>0, <1>1 DEF ShutdownUnderway
<1>2. CASE closing /\ Len(queue) = 1
  <2>1. task'.op = "shutdown"
    BY <1>0, <1>2 DEF ShutdownUnderway, Acquire, NoTask
  <2>2. queue' = <<>>
    BY <1>0, <1>2
  <2> QED
    BY <2>1, <2>2 DEF ShutdownUnderway
<1>3. CASE closing /\ Len(queue) > 1
  <2>1. Len(queue) \in Nat /\ Len(queue) > 1
    BY <1>0, <1>3
  <2>2. Len(queue') = Len(queue) - 1
        /\ \A i \in 1..Len(queue') : queue'[i] = queue[i + 1]
    BY <1>0, HeadTailProperties
  <2>3. queue' # <<>> /\ queue'[Len(queue')] = queue[Len(queue)]
    <3>1. Len(queue') \in 1..Len(queue') /\ Len(queue') + 1 = Len(queue)
      BY <2>1, <2>2
    <3>2. queue'[Len(queue')] = queue[Len(queue)]
      BY <2>2, <3>1
    <3>3. Len(<<>>) = 0
      BY EmptySeq
    <3> QED
      BY <2>1, <2>2, <3>2, <3>3
  <2> QED
    BY <1>0, <1>3, <2>2, <2>3 DEF ShutdownUnderway
<1>4. Len(queue) \in Nat /\ Len(queue) # 0
  BY <1>0, EmptySeq
<1>5. \A n \in Nat : n # 0 => n = 1 \/ n > 1
  OBVIOUS
<1> QED
  BY <1>1, <1>2, <1>3, <1>4, <1>5

\* Everything the connection does, whatever its entry is about to become.
LEMMA ConnectionStepCore ==
  ASSUME EntryCore, ConnectionStep \/ EnvironmentStep \/ InterruptedStep
  PROVE  EntryCore'
<1>1. Next \/ Interruption
  BY DEF ConnectionStep, EnvironmentStep, InterruptedStep, Next
<1>2. CoreInv'
  BY <1>1, CoreStep DEF EntryCore, InterruptedNext
<1>3. UNCHANGED closing /\ ShutdownUnderway'
  <2>1. CASE Holder
    BY <2>1, HolderLeaves, ShutdownHolder DEF EntryCore
  <2>2. CASE Acquire
    BY <2>2, ShutdownAcquire DEF EntryCore, Acquire
  <2>3. CASE CheckInDue \/ \E op \in {"command", "unpair"} : RequestService(op)
    BY <2>3 DEF CheckInDue, RequestService, EntryCore, ShutdownUnderway
  <2>4. CASE IdleElapses
    BY <2>4 DEF IdleElapses, EntryCore, ShutdownUnderway
  <2>5. CASE IdleDisconnect
    <3>1. ~conn'.client /\ UNCHANGED <<task, queue, closing>>
      BY <2>5, DisconnectEffect DEF IdleDisconnect, EntryCore, CoreInv, TypeInv, TypeOK
    <3> QED
      BY <3>1 DEF EntryCore, ShutdownUnderway
  <2>6. CASE Environment
    BY <2>6 DEF Environment, LinkDrops, SessionDies, FactoryReset, AppPairs, LampPush,
                EntryCore, ShutdownUnderway
  <2>7. CASE Interruption
    BY <2>7, ShutdownInterruption DEF EntryCore
  <2> QED
    BY <2>1, <2>2, <2>3, <2>4, <2>5, <2>6, <2>7
    DEF ConnectionStep, EnvironmentStep, InterruptedStep
<1>4. UNCHANGED entryVars
  BY DEF ConnectionStep, EnvironmentStep, InterruptedStep
<1>5. EntryTypeOK'
  BY <1>2, <1>3, <1>4 DEF EntryCore, CoreInv, TypeInv, EntryTypeOK, entryVars
<1> QED
  BY <1>2, <1>3, <1>5 DEF EntryCore

-----------------------------------------------------------------------------
(* The entry's own steps *)

LEMMA Counted ==
  ASSUME lives \in [reload : 0..MaxReloads, restart : 0..MaxRestarts]
  PROVE  /\ lives.reload < MaxReloads
              => [lives EXCEPT !.reload = @ + 1] \in [reload : 0..MaxReloads, restart : 0..MaxRestarts]
         /\ lives.restart < MaxRestarts
              => [lives EXCEPT !.restart = @ + 1] \in [reload : 0..MaxReloads, restart : 0..MaxRestarts]
BY LifeAssumption

\* A reload and a removal begin alike.
LEMMA UnloadStep ==
  ASSUME EntryCore, Reload \/ Remove
  PROVE  EntryCore'
<1>1. Shutdown
  BY DEF Reload, Remove
<1>2. CoreInv'
  BY <1>1, CoreStep DEF EntryCore, Next, InterruptedNext
<1>3. ShutdownUnderway'
  <2>1. queue \in Seq(Ops) /\ queue' = Append(queue, "shutdown")
    BY <1>1 DEF Shutdown, EntryCore, CoreInv, TypeInv, TypeOK
  <2>2. queue' # <<>> /\ queue'[Len(queue')] = "shutdown"
    BY <2>1
  <2> QED
    BY <2>2 DEF ShutdownUnderway
<1>4. closing' /\ entry' \in {"reloading", "removing"}
      /\ lives' \in [reload : 0..MaxReloads, restart : 0..MaxRestarts]
  BY <1>1, Counted DEF Shutdown, Reload, Remove, EntryCore, EntryTypeOK
<1>5. EntryTypeOK'
  BY <1>2, <1>4 DEF CoreInv, TypeInv, EntryTypeOK
<1> QED
  BY <1>2, <1>3, <1>5 DEF EntryCore

\* When the shutdown is done, nothing is open.
LEMMA NothingOpen ==
  ASSUME EntryCore, closing, ShutdownDone
  PROVE  slots = 0
BY DEF EntryCore, CoreInv, TypeInv, OneSlot, ShutdownUnderway, ShutdownDone

LEMMA SetUpAgainStep ==
  ASSUME EntryCore, SetUpAgain
  PROVE  EntryCore'
<1> USE DEF EntryCore
<1>1. slots' = 0
  BY NothingOpen DEF SetUpAgain
<1>2. CoreInv'
  <2>1. store' \in StoredKeys /\ lamp' \in LampFields
        /\ proof' \in {"none", "earlier", "now"} /\ UNCHANGED faults
    BY DEF SetUpAgain, CoreInv, TypeInv, TypeOK
  <2>2. NeverLockedOut' /\ (lamp'.offer # NoKey => lamp'.link /\ lamp'.key = NoKey)
    BY DEF SetUpAgain, CoreInv, KeyPlaces, NeverLockedOut
  <2>3. OursKnown'
    BY DEF SetUpAgain, FreshObject, NewConn, CoreInv, OursKnown
  <2> QED
    BY <1>1, <2>1, <2>2, <2>3, FreshObjectCore DEF SetUpAgain
<1>3. EntryTypeOK' /\ ShutdownUnderway'
  BY <1>2 DEF SetUpAgain, FreshObject, CoreInv, TypeInv, EntryTypeOK, ShutdownUnderway
<1> QED
  BY <1>2, <1>3

LEMMA RemoveEntryStep ==
  ASSUME EntryCore, RemoveEntry
  PROVE  EntryCore'
<1> USE DEF EntryCore
<1>0. lamp \in LampFields
  BY DEF CoreInv, TypeInv, TypeOK
<1>1. slots' = 0
  BY NothingOpen DEF RemoveEntry
<1>2. CoreInv'
  <2>1. lamp' \in LampFields /\ lamp'.key = lamp.key /\ lamp'.link = lamp.link
        /\ lamp'.offer = lamp.offer
        /\ lamp'.missed = (lamp.missed \/ lamp.key \in Keys)
    BY <1>0 DEF RemoveEntry, LampFields
  <2>2. store' \in StoredKeys /\ proof' \in {"none", "earlier", "now"} /\ UNCHANGED faults
    BY DEF RemoveEntry, CoreInv, TypeInv, TypeOK, StoredKeys
  <2>3. NeverLockedOut' /\ (lamp'.offer # NoKey => lamp'.link /\ lamp'.key = NoKey)
    BY <2>1 DEF CoreInv, KeyPlaces, NeverLockedOut
  <2>4. OursKnown'
    BY <2>1 DEF RemoveEntry, FreshObject, NewConn, CoreInv, OursKnown
  <2> QED
    BY <1>1, <2>1, <2>2, <2>3, <2>4, FreshObjectCore DEF RemoveEntry
<1>3. EntryTypeOK' /\ ShutdownUnderway'
  BY <1>2 DEF RemoveEntry, FreshObject, CoreInv, TypeInv, EntryTypeOK, ShutdownUnderway
<1> QED
  BY <1>2, <1>3

LEMMA AddAgainStep ==
  ASSUME EntryCore, AddAgain
  PROVE  EntryCore'
<1>1. CoreInv'
  BY CoreStep DEF AddAgain, EntryCore
<1>2. ~closing /\ UNCHANGED <<closing, queue, task, conn>>
  BY DEF AddAgain, EntryCore, EntryTypeOK, vars
<1>3. EntryTypeOK' /\ ShutdownUnderway'
  BY <1>1, <1>2, Counted
  DEF AddAgain, EntryCore, CoreInv, TypeInv, EntryTypeOK, ShutdownUnderway
<1> QED
  BY <1>1, <1>3 DEF EntryCore

LEMMA RestartStep ==
  ASSUME EntryCore, Restart
  PROVE  EntryCore'
<1> USE DEF EntryCore
<1>0. lamp \in LampFields
  BY DEF CoreInv, TypeInv, TypeOK
<1>1. CoreInv'
  <2>1. lamp' \in LampFields /\ lamp'.key = lamp.key /\ lamp'.missed = lamp.missed
        /\ lamp'.offer = NoKey
    BY <1>0, DroppedEffect DEF Restart
  <2>2. store' = store /\ store' \in StoredKeys /\ slots' = 0 /\ proof' = "none"
        /\ UNCHANGED faults
    BY DEF Restart, Kept, CoreInv, TypeInv, TypeOK
  <2>3. NeverLockedOut'
    BY <2>1, <2>2 DEF CoreInv, KeyPlaces, NeverLockedOut
  <2>4. OursKnown'
    BY <2>1, <2>2 DEF Restart, FreshObject, NewConn, CoreInv, OursKnown
  <2> QED
    BY <2>1, <2>2, <2>3, <2>4, FreshObjectCore DEF Restart
<1>2. EntryTypeOK' /\ ShutdownUnderway'
  BY <1>1, Counted
  DEF Restart, FreshObject, CoreInv, TypeInv, EntryTypeOK, ShutdownUnderway
<1> QED
  BY <1>1, <1>2

-----------------------------------------------------------------------------
(* The invariants *)

\* A step of the entry is one that the connection can take by itself, or replaces the object.
LEMMA EntrySplit ==
  ASSUME [InterruptedEntryNext]_allVars
  PROVE  [InterruptedNext]_vars \/ SetUpAgain \/ RemoveEntry \/ Restart
BY DEF InterruptedEntryNext, EntryNext, ConnectionStep, EnvironmentStep, InterruptedStep,
       Reload, Remove, AddAgain, allVars, InterruptedNext, Next

\* What the entry itself does to the lamp's registration and the record.
LEMMA ReplacedEffect ==
  ASSUME lamp \in LampFields, SetUpAgain \/ RemoveEntry \/ Restart
  PROVE  /\ lamp'.key = lamp.key
         /\ \/ store' = store /\ lamp'.missed = lamp.missed
            \/ /\ RemoveEntry /\ store' = NoKey
               /\ lamp'.missed = (lamp.missed \/ lamp.key \in Keys)
<1>1. CASE SetUpAgain
  BY <1>1 DEF SetUpAgain
<1>2. CASE Restart
  BY <1>2, DroppedEffect DEF Restart, Kept
<1>3. CASE RemoveEntry
  BY <1>3 DEF RemoveEntry, LampFields
<1> QED
  BY <1>1, <1>2, <1>3

LEMMA EntryCoreInit == EntryInit => EntryCore
<1> SUFFICES ASSUME EntryInit PROVE EntryCore
  OBVIOUS
<1>1. CoreInv
  BY CoreInit DEF EntryInit
<1>2. lives \in [reload : 0..MaxReloads, restart : 0..MaxRestarts]
  BY LifeAssumption DEF EntryInit
<1> QED
  BY <1>1, <1>2 DEF EntryInit, Init, CoreInv, TypeInv, EntryCore, EntryTypeOK, ShutdownUnderway

LEMMA EntryCoreStep == EntryCore /\ [InterruptedEntryNext]_allVars => EntryCore'
<1> SUFFICES ASSUME EntryCore, [InterruptedEntryNext]_allVars PROVE EntryCore'
  OBVIOUS
<1>1. CASE UNCHANGED allVars
  <2>1. CoreInv'
    BY <1>1, CoreStep DEF EntryCore, allVars
  <2> QED
    BY <1>1, <2>1
    DEF allVars, entryVars, vars, EntryCore, CoreInv, TypeInv, EntryTypeOK, ShutdownUnderway
<1> QED
  BY <1>1, ConnectionStepCore, UnloadStep, SetUpAgainStep, RemoveEntryStep, AddAgainStep,
     RestartStep DEF InterruptedEntryNext, EntryNext

LEMMA EntryCoreInvariance == InterruptedEntrySpec => []EntryCore
BY EntryCoreInit, EntryCoreStep, PTL DEF InterruptedEntrySpec

\* What is proved with interruptions holds without them.
LEMMA EntryUninterrupted == EntrySpec => InterruptedEntrySpec
<1>1. [EntryNext]_allVars => [InterruptedEntryNext]_allVars
  BY DEF InterruptedEntryNext
<1> QED
  BY <1>1, PTL DEF EntrySpec, InterruptedEntrySpec

LEMMA EntryIInvStep == EntryIInv /\ [EntryNext]_allVars => EntryIInv'
<1> SUFFICES ASSUME EntryIInv, [EntryNext]_allVars PROVE EntryIInv'
  OBVIOUS
<1>1. EntryCore'
  BY EntryCoreStep DEF EntryIInv, InterruptedEntryNext
<1>2. CASE [Next]_vars
  BY <1>1, <1>2, IInvStep DEF EntryIInv
<1>3. CASE FreshObject
  BY <1>1, <1>3, FreshObjectRest DEF EntryIInv, EntryCore, IInv
<1>4. [Next]_vars \/ FreshObject
  BY DEF EntryNext, ConnectionStep, EnvironmentStep, Reload, Remove, AddAgain, SetUpAgain,
         RemoveEntry, Restart, allVars, Next
<1> QED
  BY <1>2, <1>3, <1>4

LEMMA EntryInvariance == EntrySpec => []EntryIInv
<1>1. EntryInit => EntryIInv
  BY EntryCoreInit, IInvInit DEF EntryInit, EntryIInv
<1> QED
  BY <1>1, EntryIInvStep, PTL DEF EntrySpec

-----------------------------------------------------------------------------
(* Operations that run to their end, in every life of the entry. *)

\* Every field keeps its type, and a shutdown is under way exactly while the entry is
\* being unloaded.
THEOREM EntryTypeCorrect == EntrySpec => []EntryTypeOK
<1>1. EntryIInv => EntryTypeOK
  BY DEF EntryIInv, EntryCore
<1> QED
  BY <1>1, EntryInvariance, PTL

\* What is on record opens the lamp, and is what the connection uses, through every
\* reload, removal, re-addition and restart, at whatever moment of a pairing; while nothing
\* is cut short, the connection has no keys without a record either.
THEOREM RecordCarriesOver == EntrySpec => [](RecordOutlivesUs /\ KeysMatchStore)
<1>1. EntryIInv => RecordOutlivesUs /\ KeysMatchStore
  BY DEF EntryIInv, IInv, CoreInv, KeyPlaces, KeysMatchStore, NeverLockedOut, RecordOutlivesUs
<1> QED
  BY <1>1, EntryInvariance, PTL

\* The next object is made when the last has given its link back.
THEOREM SingleController == EntrySpec => []OneController
<1>1. EntryIInv => OneController
  BY DEF EntryIInv, IInv, CoreInv, TypeInv, OneSlot, OneController
<1> QED
  BY <1>1, EntryInvariance, PTL

\* The safety of one object's sessions is not disturbed by the objects before it.
THEOREM SessionsAcrossLives ==
  EntrySpec => [](SessionProven /\ ProbeBehindFailure /\ BroadcastOnFreshProof)
<1>1. EntryIInv => SessionProven /\ ProbeBehindFailure /\ BroadcastOnFreshProof
  BY DEF EntryIInv, IInv, CoreInv, Answers, Proven
<1> QED
  BY <1>1, EntryInvariance, PTL
-----------------------------------------------------------------------------
(* However operations are cut short, in every life of the entry. *)

\* What holds of one object that is interrupted holds of every one: a reload that comes
\* while a cancelled task has left a link open closes that link before the next object is
\* made, and a restart finds the record of the key that the lamp is registered under.
THEOREM InterruptedLives ==
  InterruptedEntrySpec => [](EntryTypeOK /\ OneController /\ RecordOutlivesUs)
<1>1. EntryCore => EntryTypeOK /\ OneController /\ RecordOutlivesUs
  BY DEF EntryCore, CoreInv, TypeInv, OneSlot, OneController, KeyPlaces, MemoryKnown,
         NeverLockedOut, RecordOutlivesUs
<1> QED
  BY <1>1, EntryCoreInvariance, PTL

\* Pairing frames, UNREGISTER and a check-in's report rest on what the lamp has answered,
\* in every life of the entry, and no connect runs out of passes.
THEOREM InterruptedLivesAnswers ==
  InterruptedEntrySpec =>
    [](BroadcastOnFreshProof /\ ProbeBehindFailure /\ CheckInOnFreshAnswer /\ TwoPasses)
<1>1. EntryCore =>
        BroadcastOnFreshProof /\ ProbeBehindFailure /\ CheckInOnFreshAnswer /\ TwoPasses
  BY DEF EntryCore, CoreInv, Answers, CheckInOnFreshAnswer, Control
<1> QED
  BY <1>1, EntryCoreInvariance, PTL

LEMMA EntryOwnedStep ==
  ASSUME EntryCore, [InterruptedEntryNext]_allVars
  PROVE  [Owned!Next]_(Owned!vars)
<1>1. CoreInv /\ lamp \in LampFields
  BY DEF EntryCore, CoreInv, TypeInv, TypeOK
<1>2. CASE [InterruptedNext]_vars
  BY <1>1, <1>2, OwnedStep
<1>3. CASE SetUpAgain \/ RemoveEntry \/ Restart
  <2>1. lamp'.key = lamp.key
    BY <1>1, <1>3, ReplacedEffect
  <2>2. CASE store' = store /\ lamp'.missed = lamp.missed
    BY <2>1, <2>2 DEF Owned!vars
  <2>3. CASE store' = NoKey /\ lamp'.missed = (lamp.missed \/ lamp.key \in Keys)
    <3>1. CASE lamp.key \in Keys
      BY <2>1, <2>3, <3>1 DEF Owned!Next, Owned!Abandon, Owned!Ours
    <3>2. CASE lamp.key \notin Keys
      <4>1. lamp'.missed = lamp.missed
        BY <1>1, <2>3, <3>2 DEF LampFields
      <4> QED
        BY <2>1, <2>3, <3>2, <4>1 DEF Owned!Next, Owned!Forget, Owned!Ours
    <3> QED
      BY <3>1, <3>2
  <2> QED
    BY <1>1, <1>3, <2>2, <2>3, ReplacedEffect
<1> QED
  BY <1>2, <1>3, EntrySplit

\* Reloads, restarts and removals change who owns the lamp only as Ownership allows,
\* whatever they cut into: nothing but deleting the entry (async_remove_entry) abandons a
\* lamp that is registered to Home Assistant, and that one is known as a stray.
THEOREM EntryImplementation == InterruptedEntrySpec => ImplementsOwnership
<1>1. EntryCore /\ [InterruptedEntryNext]_allVars => [Owned!Next]_(Owned!vars)
  BY EntryOwnedStep
<1>2. EntryInit => Owned!Init
  BY OwnedInit DEF EntryInit
<1> QED
  BY <1>1, <1>2, EntryCoreInvariance, PTL
  DEF InterruptedEntrySpec, ImplementsOwnership, Owned!Spec

\* No reload, restart or removal makes a lamp ours or replaces its key: that takes a
\* command, at every moment of every life of the entry.
THEOREM EntryPairing == InterruptedEntrySpec => OnlyCommandsPair
<1>1. ASSUME EntryCore, [InterruptedEntryNext]_allVars,
             lamp'.key \in Keys, lamp'.key # lamp.key
      PROVE  task.op = "command" /\ lamp.key = NoKey
  <2>1. CoreInv /\ lamp \in LampFields
    BY <1>1 DEF EntryCore, CoreInv, TypeInv, TypeOK
  <2>2. [InterruptedNext]_vars
    BY <1>1, <2>1, EntrySplit, ReplacedEffect
  <2> QED
    BY <1>1, <2>1, <2>2, OwnerStep
<1>2. EntryCore /\ [InterruptedEntryNext]_allVars =>
        [lamp'.key \in Keys /\ lamp'.key # lamp.key =>
           task.op = "command" /\ lamp.key = NoKey]_vars
  BY <1>1
<1> QED
  BY <1>2, EntryCoreInvariance, PTL DEF InterruptedEntrySpec, OnlyCommandsPair

\* The record changes with a pairing, with an unpair whose session answered, with the entry
\* -- or comes back, when an unpair was cancelled behind its removal.
RecordEndsWithEntry ==
  [][store' # store => \/ task.pc = "save" /\ (store # NoKey => lamp.key # store)
                       \/ task.pc = "discard" /\ proof = "now"
                       \/ task.pc = "info" /\ store = NoKey /\ store' = conn.memKey
                       \/ entry = "removing" /\ entry' = "gone" /\ store' = NoKey]_allVars

\* No reload and no restart loses or replaces the record of the lamp's key, whatever was
\* under way: _save_keys, discard_keys and async_remove_entry alone touch it.
THEOREM RecordEnds == InterruptedEntrySpec => RecordEndsWithEntry
<1>1. ASSUME EntryCore, [InterruptedEntryNext]_allVars, store' # store
      PROVE  \/ task.pc = "save" /\ (store # NoKey => lamp.key # store)
             \/ task.pc = "discard" /\ proof = "now"
             \/ task.pc = "info" /\ store = NoKey /\ store' = conn.memKey
             \/ entry = "removing" /\ entry' = "gone" /\ store' = NoKey
  <2>1. CoreInv /\ lamp \in LampFields
    BY <1>1 DEF EntryCore, CoreInv, TypeInv, TypeOK
  <2>2. CASE [InterruptedNext]_vars
    BY <1>1, <2>1, <2>2, RecordChange
  <2>3. CASE RemoveEntry
    BY <2>3 DEF RemoveEntry
  <2> QED
    BY <1>1, <2>1, <2>2, <2>3, EntrySplit, ReplacedEffect
<1>2. EntryCore /\ [InterruptedEntryNext]_allVars =>
        [store' # store => \/ task.pc = "save" /\ (store # NoKey => lamp.key # store)
                           \/ task.pc = "discard" /\ proof = "now"
                           \/ task.pc = "info" /\ store = NoKey /\ store' = conn.memKey
                           \/ entry = "removing" /\ entry' = "gone" /\ store' = NoKey]_allVars
  BY <1>1
<1> QED
  BY <1>2, EntryCoreInvariance, PTL DEF InterruptedEntrySpec, RecordEndsWithEntry

-----------------------------------------------------------------------------
(* An unload comes to an end: the half of it that is safety. *)

\* The steps before everything that waits for the lock has had it, at most.
StepsBefore == 20 * Len(queue) + StepsLeft(task)

\* While a shutdown is under way nobody new gets into the queue, and each step of whoever
\* holds the lock brings its turn closer, its being cancelled included.
UnloadCountsDown ==
  [][closing /\ closing' =>
       /\ StepsBefore' <= StepsBefore
       /\ ConnectionStep /\ (Acquire \/ Holder) => StepsBefore' < StepsBefore]_allVars

\* One step less of the holder, or one task less in the queue.
LEMMA StepsBeforeLess ==
  ASSUME queue \in Seq(Ops), task \in TaskFields, task' \in TaskFields
  PROVE  /\ queue' = queue /\ StepsLeft(task') < StepsLeft(task)
              => StepsBefore' < StepsBefore /\ StepsBefore' <= StepsBefore
         /\ queue # <<>> /\ queue' = Tail(queue) /\ StepsLeft(task) = 0
              => StepsBefore' < StepsBefore /\ StepsBefore' <= StepsBefore
<1>1. Len(queue) \in Nat /\ StepsLeft(task) \in 0..19 /\ StepsLeft(task') \in 0..19
  BY StepsLeftRange
<1>2. \A n \in Nat, a, b \in 0..19 :
        b < a => 20 * n + b < 20 * n + a /\ 20 * n + b <= 20 * n + a
  OBVIOUS
<1>3. StepsBefore = 20 * Len(queue) + StepsLeft(task)
  BY DEF StepsBefore
<1>4. ASSUME queue' = queue, StepsLeft(task') < StepsLeft(task)
      PROVE  StepsBefore' < StepsBefore /\ StepsBefore' <= StepsBefore
  <2>1. StepsBefore' = 20 * Len(queue) + StepsLeft(task')
    BY <1>4 DEF StepsBefore
  <2> QED
    BY <1>1, <1>2, <1>3, <1>4, <2>1
<1>5. ASSUME queue # <<>>, queue' = Tail(queue), StepsLeft(task) = 0
      PROVE  StepsBefore' < StepsBefore /\ StepsBefore' <= StepsBefore
  <2>1. Len(queue') = Len(queue) - 1
    BY <1>5, HeadTailProperties
  <2>2. StepsBefore' = 20 * (Len(queue) - 1) + StepsLeft(task')
    BY <2>1 DEF StepsBefore
  <2>3. \A n \in Nat, b \in 0..19 :
          20 * (n - 1) + b < 20 * n + 0 /\ 20 * (n - 1) + b <= 20 * n + 0
    OBVIOUS
  <2> QED
    BY <1>1, <1>3, <1>5, <2>2, <2>3
<1> QED
  BY <1>4, <1>5

LEMMA UnloadingStep ==
  ASSUME EntryCore, closing, ConnectionStep \/ InterruptedStep
  PROVE  /\ StepsBefore' <= StepsBefore
         /\ Acquire \/ Holder => StepsBefore' < StepsBefore
<1>1. /\ TypeInv /\ Control /\ queue \in Seq(Ops) /\ task \in TaskFields
      /\ CoreInv /\ ShutdownUnderway
  BY DEF EntryCore, CoreInv, TypeInv, TypeOK
<1>2. task' \in TaskFields
  <2>1. Next \/ Interruption
    BY DEF ConnectionStep, InterruptedStep, Next
  <2> QED
    BY <1>1, <2>1, CoreStep DEF InterruptedNext, CoreInv, TypeInv, TypeOK
<1>3. CASE Holder
  BY <1>1, <1>2, <1>3, HolderLeaves, HolderCountsDown, StepsBeforeLess
<1>4. CASE Interruption
  BY <1>1, <1>2, <1>4, ShutdownInterruption, InterruptionCountsDown, StepsBeforeLess
<1>5. CASE Acquire
  BY <1>1, <1>2, <1>5, StepsLeftRange, StepsBeforeLess DEF Acquire, Control
<1>6. CASE ~Holder /\ ~Acquire /\ ~Interruption
  <2>1. UNCHANGED <<queue, task>>
    BY <1>6
    DEF ConnectionStep, InterruptedStep, IdleElapses, IdleDisconnect, CheckInDue, RequestService
  <2>2. Len(queue) \in Nat /\ StepsLeft(task) \in 0..19
    BY <1>1, StepsLeftRange
  <2> QED
    BY <1>6, <2>1, <2>2 DEF StepsBefore
<1> QED
  BY <1>3, <1>4, <1>5, <1>6

\* Once a shutdown has been asked for, at most 20 steps for each task in the queue, its own
\* included, and 19 for the holder separate it from its end, where nothing is open: no
\* service call, no check-in and no retry puts it off.
THEOREM UnloadCountdown ==
  InterruptedEntrySpec =>
    /\ UnloadCountsDown
    /\ [](closing /\ StepsBefore = 0 => ~conn.client /\ slots = 0)
<1>1. EntryCore => (closing /\ StepsBefore = 0 => ~conn.client /\ slots = 0)
  <2> SUFFICES ASSUME EntryCore, closing, StepsBefore = 0
               PROVE  ~conn.client /\ slots = 0
    OBVIOUS
  <2>1. queue \in Seq(Ops) /\ task \in TaskFields /\ Control
    BY DEF EntryCore, CoreInv, TypeInv, TypeOK
  <2>2. Len(queue) \in Nat /\ StepsLeft(task) \in 0..19
    BY <2>1, StepsLeftRange
  <2>3. Len(queue) = 0 /\ StepsLeft(task) = 0
    BY <2>2 DEF StepsBefore
  <2>4. ShutdownDone
    BY <2>1, <2>3, EmptySeq, StepsLeftRange DEF ShutdownDone, Control
  <2> QED
    BY <2>4 DEF EntryCore, CoreInv, TypeInv, OneSlot, ShutdownUnderway, ShutdownDone
<1>2. ASSUME EntryCore, [InterruptedEntryNext]_allVars, closing, closing'
      PROVE  /\ StepsBefore' <= StepsBefore
             /\ ConnectionStep /\ (Acquire \/ Holder) => StepsBefore' < StepsBefore
  <2>1. CASE ConnectionStep \/ InterruptedStep
    BY <1>2, <2>1, UnloadingStep
  <2>2. CASE ~ConnectionStep /\ ~InterruptedStep
    <3>1. UNCHANGED <<queue, task>>
      BY <1>2, <2>2
      DEF InterruptedEntryNext, EntryNext, EnvironmentStep, Environment, LinkDrops,
          SessionDies, FactoryReset, AppPairs, LampPush, Reload, Remove, Shutdown,
          SetUpAgain, RemoveEntry, Restart, FreshObject, AddAgain, allVars, vars
    <3>2. StepsBefore \in Int
      <4>1. queue \in Seq(Ops) /\ task \in TaskFields
        BY <1>2 DEF EntryCore, CoreInv, TypeInv, TypeOK
      <4>2. Len(queue) \in Nat /\ StepsLeft(task) \in 0..19
        BY <4>1, StepsLeftRange
      <4> QED
        BY <4>2 DEF StepsBefore
    <3>3. StepsBefore' = StepsBefore
      BY <3>1 DEF StepsBefore
    <3> QED
      BY <2>2, <3>2, <3>3
  <2> QED
    BY <2>1, <2>2
<1>3. EntryCore /\ [InterruptedEntryNext]_allVars =>
        [closing /\ closing' =>
           /\ StepsBefore' <= StepsBefore
           /\ ConnectionStep /\ (Acquire \/ Holder) => StepsBefore' < StepsBefore]_allVars
  BY <1>2
<1> QED
  BY <1>1, <1>3, EntryCoreInvariance, PTL DEF InterruptedEntrySpec, UnloadCountsDown
=============================================================================
