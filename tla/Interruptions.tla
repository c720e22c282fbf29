--------------------------- MODULE Interruptions ---------------------------
(***************************************************************************)
(* What cuts an operation of the connection short without passing through   *)
(* its exception handlers, and what raises in a place whose handler leaves   *)
(* the link as it is.                                                      *)
(*                                                                         *)
(* Home Assistant cancels the task of a service call when the script that   *)
(* made it is restarted or stopped. CancelledError is no Exception: the lock *)
(* is released, and nothing else is done, except by the finally clause of    *)
(* async_unpair. Each interruption is paid from MaxFaults.                 *)
(***************************************************************************)
EXTENDS FermobConnection

\* Where the holder waits for the disk, or closes a link.
Loading == task.pc = "begin" /\ task.op # "shutdown" /\ ~conn.keysLoaded
Closing ==
  IF task.op = "unpair" THEN task.pc \in {"discard", "failed"}
  ELSE task.pc \in {"open", "reopen", "ask", "probe", "refresh", "failed"}

\* A disconnect() that was cut at its first await: the client is still there.
HalfClosed(c) == [c EXCEPT !.connected = FALSE, !.verdict = "none"]

\* Nothing but the lock is given up.
LeftOpen == UNCHANGED <<conn, lamp, slots, proof>>

\* async_unpair closes the link whatever happens to it inside its try.
FinallyClosed ==
  IF task.op = "unpair" /\ task.pc # "begin" THEN Disconnect(conn) ELSE LeftOpen

\* _open_link() has closed the client that was left behind, and is cut before it has another.
StaleClosed == task.pc \in {"open", "reopen"} /\ Disconnect(conn)

\* The task is cancelled at an await, before that step has had any effect or, which is
\* the same, behind the step before.
Cancelled ==
  /\ task.op \in {"command", "checkin", "unpair"}
  /\ Fault
  /\ \/ FinallyClosed
     \/ Closing /\ conn' = HalfClosed(conn) /\ UNCHANGED <<lamp, slots, proof>>
     \/ StaleClosed
  /\ Release
  /\ UNCHANGED <<queue, idle, closing, removal, store, available>>

\* _load_keys() is cancelled, or raises, while it reads the store: _keys_loaded is set
\* already. A command loads inside its try and reports what was raised, the others do not.
LoadFails ==
  /\ Loading
  /\ Fault
  /\ conn' = [conn EXCEPT !.keysLoaded = TRUE]
  /\ Release \/ (task.op = "command" /\ Raise("other"))
  /\ UNCHANGED <<queue, idle, closing, removal, store, available, lamp, slots, proof>>

\* Cancelled while the store is written, or removed: that happens, and what follows
\* it does not.
StoreCancelled ==
  /\ task.pc \in {"save", "discard"}
  /\ Fault
  /\ store' = IF task.pc = "save" THEN Record ELSE NoKey
  /\ FinallyClosed
  /\ Release
  /\ UNCHANGED <<queue, idle, closing, removal, available>>

\* _save_keys(), or the listener that remembers the module info, raises in the middle of a
\* connect: the caller's handler decides what becomes of the link.
StoreRaises ==
  /\ task.pc \in {"info", "save"}
  /\ Fault
  /\ Raise("other")
  /\ UNCHANGED <<conn, queue, idle, closing, removal, store, available, lamp, slots, proof>>

Interruption == Cancelled \/ LoadFails \/ StoreCancelled \/ StoreRaises

InterruptedNext == Next \/ Interruption

InterruptedSpec == Init /\ [][InterruptedNext]_vars

\* The scheduling of the connection. Nothing has to be interrupted.
FairInterruptedSpec == InterruptedSpec /\ Fairness

-----------------------------------------------------------------------------
(* Properties. LockReleased is the connection's own. *)

\* A _load_keys() that was cut short, or raised, and is never repeated: this object does not know of the
\* record that is there.
RecordOverlooked == conn.keysLoaded /\ ~conn.haveKeys /\ store # NoKey

\* The check-ins bring a paired lamp back without anyone pressing a switch, whatever was
\* interrupted -- but an object that has overlooked its record skips every check-in.
CheckInRestores ==
  (~available /\ store # NoKey /\ ~lamp.mute)
    ~> (available \/ store = NoKey \/ closing \/ RecordOverlooked)

\* fermob.unpair has the entry removed, and the record with it, only when no lamp depends
\* on it ("both halves or neither") -- or has overlooked the record of one that does.
RemovesOnlyReleased ==
  [][removal' /\ ~removal =>
       lamp.key \notin Keys \/ lamp.missed \/ RecordOverlooked]_vars

\* An open link that nobody uses, and either never answered on or, on demand, without
\* a timer behind it.
Abandoned ==
  /\ task.op = "none" /\ conn.client
  /\ proof = "none" \/ (OnDemand /\ idle = "none")

\* What an interruption leaves open is proven or closed by the next operations: by the
\* check-in, unless the object knows of no pairing and the check-in does nothing.
AbandonedLinkSettled ==
  Abandoned ~> ((task.op = "none" /\ ~Abandoned) \/ (conn.keysLoaded /\ ~conn.haveKeys))
=============================================================================
