----------------------------- MODULE ModuleInfo -----------------------------
(***************************************************************************)
(* What the lamp says about itself, and where it is kept: the reads of      *)
(* _fetch_module_info_once() and of the handshake, _store_module_info(),    *)
(* the key record, and the config entry, which module_info_updates() keeps   *)
(* up to date and which is written to disk later than the record is.        *)
(*                                                                         *)
(* A connect is here from the load of the keys to the end of the read; that *)
(* the link comes up, and the session that follows, are FermobConnection's. *)
(* Of the identity two fields are kept: the type, which decides the light   *)
(* payloads, and the firmware version, which can change.                    *)
(***************************************************************************)
EXTENDS Naturals

CONSTANTS
  Versions,      \* firmware versions of a lamp
  Unknown,       \* a field nobody has reported
  MaxReads,      \* _MODULE_INFO_MAX_READS
  MaxResets,     \* bound: resets of the lamp, each perhaps with new firmware
  MaxRestarts    \* bound: restarts of Home Assistant

ASSUME ReadsAssumption == MaxReads \in Nat \ {0}
ASSUME UnknownAssumption == Unknown \notin Versions \union {"type"}
ASSUME BoundsAssumption == MaxResets \in Nat /\ MaxRestarts \in Nat

VARIABLES
  conn,      \* the connection object: its place, what it knows, its latch
  disk,      \* the record beside the keys
  entry,     \* the config entry, as Home Assistant holds it
  saved,     \* the config entry on disk
  reload,    \* the update listener has been scheduled
  lamp,      \* the lamp: address, identity, registered to us
  lives      \* resets and restarts so far

vars == <<conn, disk, entry, saved, reload, lamp, lives>>

Identity == [type : {"type", Unknown}, version : Versions \union {Unknown}]
Nothing == [type |-> Unknown, version |-> Unknown]
Record == [addr : {0, 1}, info : Identity]
Places == {"idle", "ask", "handshake", "save"}
Objects == [pc : Places, loaded : BOOLEAN, addr : {0, 1}, info : Identity, read : BOOLEAN,
            attempts : 0..MaxReads + 1, answered : BOOLEAN, family : {"type", Unknown}]

\* A field that is not reported leaves the one there is.
Merge(old, new) ==
  [f \in {"type", "version"} |-> IF new[f] = Unknown THEN old[f] ELSE new[f]]

\* A new connection object. Its light type comes from the entry, for as long as it lives.
NewConn(e) ==
  [pc |-> "idle", loaded |-> FALSE, addr |-> 0, info |-> Nothing, read |-> FALSE,
   attempts |-> 0, answered |-> FALSE, family |-> e.type]

\* A lamp paired before, by a version of this code that read all of this, or less, and
\* perhaps reset since.
Init ==
  /\ disk \in Record
  /\ entry \in {disk.info, Nothing}
  /\ saved = entry
  /\ conn = NewConn(entry)
  /\ reload = FALSE
  /\ lamp \in [addr : {0, 1}, ours : BOOLEAN,
               info : [type : {"type"}, version : Versions]]
  /\ disk.addr # 0 => lamp.addr # 0
  /\ lives = [reset |-> 0, restart |-> 0]

-----------------------------------------------------------------------------
(* _store_module_info(), on_module_info and module_info_updates() *)

\* The entry with the reported fields that it does not hold yet.
Updated(stored, reported) == Merge(stored, reported)

\* async_update_entry(): a change schedules the listener, and the listener a reload. Two
\* that wait for the same lock are one.
Announce(reported) ==
  /\ entry' = Updated(entry, reported)
  /\ reload' = (reload \/ entry' # entry)

-----------------------------------------------------------------------------
(* _fetch_module_info_once() *)

\* _load_keys(): the whole record, or what the object has had since.
Loaded(c) ==
  IF c.loaded THEN c
  ELSE [c EXCEPT !.loaded = TRUE, !.addr = disk.addr, !.info = disk.info]

\* Mutant: only what this read has brought is announced.
OnlyNews(c) == Nothing

\* What is announced before anything is asked: all that the object knows.
Known(c) == c.info

Complete(c) == c.info.type # Unknown /\ c.info.version # Unknown /\ c.addr # 0

Wanted(c) == ~c.read /\ ~Complete(c)

\* Counted as far as the comparison with the budget looks, and one further.
Count(n) == IF n > MaxReads THEN n ELSE n + 1

Connect ==
  /\ conn.pc = "idle"
  /\ LET c == Loaded(conn)
     IN /\ Announce(Known(c))
        /\ conn' = IF Wanted(c) THEN [c EXCEPT !.pc = "ask", !.attempts = Count(@)] ELSE c
  /\ UNCHANGED <<disk, saved, lamp, lives>>

BudgetSpent(c) == c.attempts >= MaxReads

\* Mutants: silence never latches; silence latches without an address.
LatchNever(c) == FALSE
LatchAlways(c) == BudgetSpent(c)

\* _latch_unanswered()
LatchUnanswered(c) == c.addr # 0 /\ BudgetSpent(c)

\* No answer: the lamp's firmware does not know the command, or a frame got lost.
Silence ==
  /\ conn.pc = "ask"
  /\ conn' = [conn EXCEPT !.pc = "idle", !.read = @ \/ LatchUnanswered(conn)]
  /\ UNCHANGED <<disk, entry, saved, reload, lamp, lives>>

\* An answer may leave out any field, and the address.
Replies ==
  [addr : {0, lamp.addr},
   info : [type : {lamp.info.type, Unknown}, version : {lamp.info.version, Unknown}]]

\* Mutant: what the reply leaves out is forgotten.
HearsAll(c, r) == [c EXCEPT !.addr = r.addr, !.info = r.info]

\* What the object knows after a reply.
Hears(c, r) ==
  [c EXCEPT !.addr = IF r.addr = 0 THEN @ ELSE r.addr, !.info = Merge(@, r.info)]

Answer ==
  /\ conn.pc = "ask" /\ lamp.ours
  /\ \E r \in Replies :
       LET c == Hears(conn, r)
       IN /\ Announce(c.info)
          /\ conn' = [c EXCEPT !.pc = "save", !.read = c.addr # 0 \/ BudgetSpent(c),
                               !.answered = TRUE]
  /\ UNCHANGED <<disk, saved, lamp, lives>>

\* The lamp takes part in REGISTER_END behind the save, or misses it.
Registered == IF conn.loaded THEN {lamp} ELSE {lamp, [lamp EXCEPT !.ours = TRUE]}

\* _save_keys(), after the announcement, of a read or of a handshake.
Save ==
  /\ conn.pc = "save"
  /\ disk' = [addr |-> conn.addr, info |-> conn.info]
  /\ conn' = [conn EXCEPT !.pc = "idle", !.loaded = TRUE]
  /\ lamp' \in Registered
  /\ UNCHANGED <<entry, saved, reload, lives>>

-----------------------------------------------------------------------------
(* A lamp that was reset is paired again. *)

\* Mutant: the latch stays.
KeptLatch(c) == [c EXCEPT !.loaded = FALSE]

\* _forget_keys_in_memory(): the latch and its budget, not the address or the identity.
Forgotten(c) ==
  [c EXCEPT !.loaded = FALSE, !.read = FALSE, !.attempts = 0, !.answered = FALSE]

\* A command, on the way of Connect and Silence to a lamp that does not know the keys.
Repair ==
  /\ conn.pc = "idle" /\ ~lamp.ours
  /\ Announce(Known(Loaded(conn)))
  /\ conn' = [Forgotten(Loaded(conn)) EXCEPT !.pc = "handshake"]
  /\ UNCHANGED <<disk, saved, lamp, lives>>

\* Step 7 of the handshake, answered or not.
HandshakeReads ==
  /\ conn.pc = "handshake"
  /\ \/ \E r \in Replies : /\ conn' = [Hears(conn, r) EXCEPT !.pc = "save"]
                          /\ Announce(conn'.info)
     \/ conn' = [conn EXCEPT !.pc = "save"] /\ UNCHANGED <<entry, reload>>
  /\ UNCHANGED <<disk, saved, lamp, lives>>

\* The handshake fails, before its step 7 or behind it: the record is read again.
HandshakeFails ==
  /\ conn.pc \in {"handshake", "save"} /\ ~conn.loaded
  /\ conn' = [conn EXCEPT !.pc = "idle"]
  /\ UNCHANGED <<disk, entry, saved, reload, lamp, lives>>

-----------------------------------------------------------------------------
(* The config entry *)

\* The reload gets the connection's lock, and makes another object.
Reload ==
  /\ reload /\ conn.pc = "idle"
  /\ reload' = FALSE
  /\ conn' = NewConn(entry)
  /\ UNCHANGED <<disk, entry, saved, lamp, lives>>

\* Home Assistant's delayed write of its config entries.
WriteEntry ==
  /\ saved' = entry
  /\ UNCHANGED <<conn, disk, entry, reload, lamp, lives>>

\* Home Assistant is stopped at any moment: it comes back with what is on disk.
Restart ==
  /\ lives.restart < MaxRestarts
  /\ lives' = [lives EXCEPT !.restart = @ + 1]
  /\ entry' = saved
  /\ reload' = FALSE
  /\ conn' = NewConn(saved)
  /\ UNCHANGED <<disk, saved, lamp>>

\* The lamp's owner resets it, and may let the app update it first.
FactoryReset ==
  /\ lives.reset < MaxResets
  /\ lives' = [lives EXCEPT !.reset = @ + 1]
  /\ \E v \in Versions : lamp' = [lamp EXCEPT !.ours = FALSE, !.info.version = v]
  /\ UNCHANGED <<conn, disk, entry, saved, reload>>

Next ==
  \/ Connect \/ Silence \/ Answer \/ Save
  \/ Repair \/ HandshakeReads \/ HandshakeFails
  \/ Reload \/ WriteEntry \/ Restart \/ FactoryReset

Spec == Init /\ [][Next]_vars

\* The check-in timer keeps connecting, a request is answered or times out, a record that
\* is being written gets written, and a reload that is scheduled gets the lock in its turn.
Fairness ==
  /\ WF_vars(Connect)
  /\ WF_vars(Silence \/ Answer)
  /\ WF_vars(HandshakeReads)
  /\ WF_vars(Save)
  /\ SF_vars(Reload)

FairSpec == Spec /\ Fairness

-----------------------------------------------------------------------------
(* Properties *)

\* Every variable holds a value of its kind, and an object that has its record yet to read
\* has its whole budget of reads.
TypeOK ==
  /\ conn \in Objects
  /\ disk \in Record
  /\ entry \in Identity /\ saved \in Identity
  /\ reload \in BOOLEAN
  /\ lamp \in [addr : {0, 1}, ours : BOOLEAN, info : Identity]
  /\ lives \in [reset : 0..MaxResets, restart : 0..MaxRestarts]
  /\ ~conn.loaded => conn.attempts = 0 /\ ~conn.read

\* "A short reply must never lose what a fuller one already told us": not on disk, where
\* an address of zero sends every request to nobody, and not in the entry.
NothingForgotten ==
  [][/\ disk.addr # 0 => disk'.addr # 0
     /\ \A f \in {"type", "version"} :
          /\ disk.info[f] # Unknown => disk'.info[f] # Unknown
          /\ entry[f] # Unknown /\ lives' = lives => entry'[f] # Unknown]_vars

\* "Giving up on silence is only safe once we have a short address": an object that has
\* none, and stopped asking, has had an answer that left it out.
NotOnSilence == conn.read /\ conn.addr = 0 => conn.answered

\* An object that has an address, and misses only the version, does not ask a silent lamp
\* on every connect: each time costs the command behind it three seconds.
BoundedReads ==
  [][conn'.pc = "ask" /\ conn.pc = "idle" /\ conn'.addr # 0
       => conn'.attempts <= MaxReads]_vars

\* What the lamp has reported reaches the entry, and the type the object that makes the
\* light payloads, wherever a restart falls between the two writes.
EntryCatchesUp ==
  /\ \A v \in Versions : (disk.info.version = v) ~> (entry.version = v \/ disk.info.version # v)
  /\ (disk.info.type # Unknown) ~> (conn.family = disk.info.type)
=============================================================================
