---------------------------- MODULE FermobEntry ----------------------------
(***************************************************************************)
(* The life of the config entry around the connection object: set up,       *)
(* reloaded, removed by its owner or by fermob.unpair, added again, and     *)
(* Home Assistant stopping at any moment. Everything the connection does is *)
(* FermobConnection's; what is added is who makes the object, who ends it,  *)
(* and who deletes the record.                                             *)
(*                                                                         *)
(* An unload removes the entity, which stops new service calls, and calls   *)
(* async_shutdown; what was waiting for the lock before that still runs. A   *)
(* reload makes the next object when the shutdown is done.                  *)
(*                                                                         *)
(* The operations run to their end in EntrySpec, and may be cut short in     *)
(* InterruptedEntrySpec.                                                   *)
(***************************************************************************)
EXTENDS Interruptions

CONSTANTS MaxReloads, MaxRestarts    \* bounds: reloads and re-additions; restarts

ASSUME LifeAssumption == MaxReloads \in Nat /\ MaxRestarts \in Nat

VARIABLES
  entry,        \* loaded, reloading, removing, or gone
  lives         \* how often the entry was set up again, and Home Assistant restarted

entryVars == <<entry, lives>>
allVars == <<vars, entryVars>>

EntryInit ==
  /\ Init
  /\ entry = "loaded"
  /\ lives = [reload |-> 0, restart |-> 0]

\* What the connection and its surroundings do while the entry is there. The entity goes
\* as soon as the removal has been asked for, and with it new service calls. Without an
\* entry only the lamp does anything.
ConnectionStep ==
  /\ \/ Acquire \/ IdleElapses \/ IdleDisconnect \/ Holder
     \/ CheckInDue \/ (~removal /\ \E op \in {"command", "unpair"} : RequestService(op))
  /\ entry # "gone"
  /\ UNCHANGED entryVars

EnvironmentStep == Environment /\ UNCHANGED entryVars

\* A task of this object is cancelled, or its store raises.
InterruptedStep == Interruption /\ entry # "gone" /\ UNCHANGED entryVars

-----------------------------------------------------------------------------
(* async_setup_entry(), async_unload_entry(), async_remove_entry() *)

\* A connection object that has just been made, and the entity with it.
FreshObject ==
  /\ conn' = NewConn
  /\ task' = NoTask
  /\ queue' = <<>>
  /\ idle' = "none"
  /\ closing' = FALSE
  /\ removal' = FALSE
  /\ available' = TRUE

\* An option is changed, or the lamp has reported what the entry does not know yet.
Reload ==
  /\ entry = "loaded" /\ lives.reload < MaxReloads
  /\ Shutdown
  /\ entry' = "reloading"
  /\ lives' = [lives EXCEPT !.reload = @ + 1]

\* The owner deletes the entry, or fermob.unpair has asked for it.
Remove ==
  /\ entry = "loaded"
  /\ Shutdown
  /\ entry' = "removing"
  /\ UNCHANGED lives

\* Mutant: the reload does not wait.
NotAwaited == TRUE

\* The task of async_shutdown has got the lock and given it back.
ShutdownDone == task.op = "none" /\ queue = <<>>

SetUpAgain ==
  /\ entry = "reloading" /\ closing /\ ShutdownDone
  /\ FreshObject
  /\ entry' = "loaded"
  /\ UNCHANGED <<store, lamp, slots, faults, proof, lives>>

\* async_remove_entry() deletes the record, and the object is dropped. "Removing an entry
\* tells the lamp nothing": one that is still registered has missed its UNREGISTER.
RemoveEntry ==
  /\ entry = "removing" /\ closing /\ ShutdownDone
  /\ FreshObject
  /\ store' = NoKey
  /\ entry' = "gone"
  /\ lamp' = [lamp EXCEPT !.missed = @ \/ lamp.key \in Keys]
  /\ UNCHANGED <<slots, faults, proof, lives>>

\* The object made then is as blank as the place the last one left.
AddAgain ==
  /\ entry = "gone" /\ lives.reload < MaxReloads
  /\ entry' = "loaded"
  /\ lives' = [lives EXCEPT !.reload = @ + 1]
  /\ UNCHANGED vars

\* Mutant: what a restart finds is the keys it had in memory.
Lost == NoKey

\* What a restart finds on disk: async_save has written it, or has not begun.
Kept == store

\* Home Assistant stops, with whatever was under way, and starts. An entry that was
\* being removed is still there.
Restart ==
  /\ entry # "gone" /\ lives.restart < MaxRestarts
  /\ FreshObject
  /\ store' = Kept
  /\ lamp' = Dropped(lamp)
  /\ slots' = 0
  /\ proof' = "none"
  /\ entry' = "loaded"
  /\ lives' = [lives EXCEPT !.restart = @ + 1]
  /\ UNCHANGED faults

EntryNext ==
  \/ ConnectionStep \/ EnvironmentStep
  \/ Reload \/ Remove \/ SetUpAgain \/ RemoveEntry \/ AddAgain \/ Restart

EntrySpec == EntryInit /\ [][EntryNext]_allVars

InterruptedEntryNext == EntryNext \/ InterruptedStep

InterruptedEntrySpec == EntryInit /\ [][InterruptedEntryNext]_allVars

\* The fairness of the connection, and a set-up or removal that is carried through: the
\* one that fermob.unpair has asked for, too. Nothing has to be interrupted.
EntryFairness ==
  /\ WF_allVars(Holder /\ entry # "gone" /\ UNCHANGED entryVars)
  /\ WF_allVars(Acquire /\ entry # "gone" /\ UNCHANGED entryVars)
  /\ WF_allVars(SetUpAgain)
  /\ WF_allVars(RemoveEntry)
  /\ WF_allVars(removal /\ Remove)

FairEntrySpec == InterruptedEntrySpec /\ EntryFairness

-----------------------------------------------------------------------------
(* Properties *)

\* Every variable holds a value of its kind, and an object is being shut down exactly
\* while its entry is being unloaded.
EntryTypeOK ==
  /\ TypeOK
  /\ entry \in {"loaded", "reloading", "removing", "gone"}
  /\ lives \in [reload : 0..MaxReloads, restart : 0..MaxRestarts]
  /\ closing <=> entry \in {"reloading", "removing"}

\* A lamp registered to Home Assistant can be talked to by whatever runs next -- after a
\* reload, or a restart in the middle of a pairing -- unless it missed its UNREGISTER, and
\* an object never acts on other keys than those on record: on ones without a record only
\* when an unpair was cut off behind its removal, and those open no lamp of ours.
RecordOutlivesUs ==
  /\ lamp.key \in Keys /\ ~lamp.missed => store = lamp.key
  /\ conn.haveKeys => store \in {conn.memKey, NoKey}

\* However often the entry is reloaded, at most one object holds a link to the lamp: it
\* "accepts one controller at a time".
OneController == slots = IF conn.client THEN 1 ELSE 0

\* A reload, and a removal, come to an end, though they wait for a lock that a lamp
\* which does not answer may hold: and so does fermob.unpair.
UnloadEnds ==
  /\ (entry \in {"reloading", "removing"}) ~> (entry \in {"loaded", "gone"})
  /\ removal ~> (~removal \/ entry = "gone")
=============================================================================
