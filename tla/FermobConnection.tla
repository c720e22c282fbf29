-------------------------- MODULE FermobConnection --------------------------
(***************************************************************************)
(* The connection object of one lamp: FermobBLEConnection and the three    *)
(* callers that hold its lock -- a light command, a check-in, fermob.unpair *)
(* -- with the idle timer, async_shutdown and the lamp on the other side.   *)
(*                                                                         *)
(* One action stands for the code between two awaits at which another task, *)
(* the radio or the lamp can change something the code reads later. Frames, *)
(* encryption, the steps of the handshake and the identity the lamp reports *)
(* are left to other modules; _ready is assigned wherever _connected is, so *)
(* one field stands for both.                                              *)
(*                                                                         *)
(* Every loss (a failed connect, a lost reply, a dropped link, a lamp reset *)
(* behind our back) is paid from a budget, MaxFaults: a behaviour has       *)
(* finitely many, anywhere, and the radio works once they are spent.       *)
(***************************************************************************)
EXTENDS Naturals, Sequences

CONSTANTS
  Keys,         \* pairing keys a handshake can mint (pub, priv and nonce as one)
  NoKey,        \* no record in the store, zeroed keys, a lamp in NONE mode
  AppKey,       \* the key of a lamp that is registered to the Fermob app
  OnDemand,     \* TRUE: idle_disconnect_delay is 30 s; FALSE: it is None
  MaxFaults,    \* bound: losses and interventions in one behaviour
  MaxQueue      \* bound: tasks waiting for the lock

ASSUME KeysAssumption == NoKey \notin Keys /\ AppKey \notin Keys /\ NoKey # AppKey
ASSUME FreshKeyAssumption == \A k \in Keys : Keys \ {k} # {}
ASSUME ModeAssumption == OnDemand \in BOOLEAN
ASSUME BoundsAssumption == MaxFaults \in Nat /\ MaxQueue \in Nat

VARIABLES
  conn,        \* the connection object's fields
  task,        \* the holder of the lock, its place in the code and its locals
  queue,       \* the tasks waiting for the lock, in order
  idle,        \* _idle_task: none, sleeping, or due (waiting for the lock)
  closing,     \* async_shutdown has been called
  removal,     \* fermob.unpair has asked Home Assistant to remove the entry
  store,       \* the key record on disk
  available,   \* FermobLight._attr_available
  lamp,        \* the lamp and its side of the BLE link
  slots,       \* BLE clients opened and not yet disconnected
  faults,      \* how much of MaxFaults is spent
  proof        \* history: when the lamp last answered on this link: none, earlier,
               \* or now, under the present holder of the lock

vars == <<conn, task, queue, idle, closing, removal, store, available, lamp,
          slots, faults, proof>>

Ops == {"command", "checkin", "unpair", "shutdown"}
Verdicts == {"ANSWERED", "SILENT", "KEYS_REJECTED"}
Places == {"idle", "begin", "open", "info", "pair", "save", "register", "reopen",
           "ask", "probe", "send", "refresh", "finish", "unpair", "broadcast",
           "discard", "failed"}
StoredKeys == Keys \union {NoKey}
LampKeys == StoredKeys \union {AppKey}

ConnFields ==
  [client : BOOLEAN, connected : BOOLEAN, keysLoaded : BOOLEAN, haveKeys : BOOLEAN,
   memKey : StoredKeys, verdict : Verdicts \union {"none"}]
TaskFields ==
  [op : Ops \union {"none"}, pc : Places, fresh : BOOLEAN, pass : Nat, misses : {0, 1},
   provenDead : BOOLEAN, rejected : BOOLEAN,
   exc : {"none", "other", "SILENT", "KEYS_REJECTED"}]
LampFields ==
  [key : LampKeys, link : BOOLEAN, deaf : BOOLEAN, offer : StoredKeys,
   missed : BOOLEAN, mute : BOOLEAN]

NoTask == [op |-> "none", pc |-> "idle", fresh |-> FALSE, pass |-> 1, misses |-> 0,
           provenDead |-> FALSE, rejected |-> FALSE, exc |-> "none"]
NewConn == [client |-> FALSE, connected |-> FALSE, keysLoaded |-> FALSE,
            haveKeys |-> FALSE, memKey |-> NoKey, verdict |-> "none"]

(***************************************************************************)
(* The lamp: the key it is registered under; whether our link is up, and    *)
(* whether it ignores everything on it; the key a handshake negotiated on   *)
(* that link; whether it is still ours because it missed an UNREGISTER; and *)
(* whether it is mute, that is, silent about what it cannot decrypt instead *)
(* of answering CRYPT_MSG. Both kinds of lamp are described in the code's   *)
(* comments.                                                               *)
(*                                                                         *)
(* A new connection object, as async_setup_entry makes it: nothing read     *)
(* from the store yet, and a lamp that may have been paired before, reset   *)
(* since, or taken over by the app.                                        *)
(***************************************************************************)
Init ==
  /\ conn = NewConn
  /\ task = NoTask
  /\ queue = <<>>
  /\ idle = "none"
  /\ closing = FALSE
  /\ removal = FALSE
  /\ store \in StoredKeys
  /\ available = TRUE
  /\ lamp \in [key : {store, NoKey, AppKey}, link : {FALSE}, deaf : {FALSE},
               offer : {NoKey}, missed : {FALSE}, mute : BOOLEAN]
  /\ slots = 0
  /\ faults = 0
  /\ proof = "none"

-----------------------------------------------------------------------------
(* Vocabulary of the steps. *)

Goto(place) == task' = [task EXCEPT !.pc = place]
Raise(e) ==
  task' = [task EXCEPT !.pc = "failed", !.exc = e,
                       !.rejected = @ \/ e = "KEYS_REJECTED"]
Release == task' = NoTask
At(op, place) == task.op = op /\ task.pc = place

Fault == faults < MaxFaults /\ faults' = faults + 1

\* It goes wrong because of cause, or by a loss.
Fails(cause) == Fault \/ (cause /\ UNCHANGED faults)

\* _connected, the client and is_connected: the test of the fast path.
LinkLooksUp == conn.connected /\ conn.client /\ lamp.link

\* Mutant: a disconnect that leaves _connected set.
ClosedButConnected(c) == [c EXCEPT !.client = FALSE, !.verdict = "none"]

\* disconnect(): the fields it clears. The verdict was about a link that is gone.
Closed(c) == [c EXCEPT !.client = FALSE, !.connected = FALSE, !.verdict = "none"]

\* The lamp's side of a link that ended: negotiation is forgotten with the link.
Dropped(l) == [l EXCEPT !.link = FALSE, !.deaf = FALSE, !.offer = NoKey]

\* Mutant: a disconnect that gives a slot back whether it held one or not.
DisconnectUnguarded(c) ==
  /\ conn' = Closed(c)
  /\ lamp' = Dropped(lamp)
  /\ slots' = slots - 1
  /\ proof' = "none"

\* disconnect(), applied to the fields in c.
Disconnect(c) ==
  /\ conn' = Closed(c)
  /\ lamp' = Dropped(lamp)
  /\ slots' = IF conn.client THEN slots - 1 ELSE slots
  /\ proof' = "none"

\* Mutant: only the loaded flag is cleared.
ForgottenHalf(c) == [c EXCEPT !.keysLoaded = FALSE]

\* _forget_keys_in_memory(): the record on disk stays and is read again.
Forgotten(c) ==
  [c EXCEPT !.memKey = NoKey, !.haveKeys = FALSE, !.keysLoaded = FALSE]

\* _load_keys(): reads the store unless it already has.
Loaded ==
  IF conn.keysLoaded THEN conn
  ELSE [conn EXCEPT !.keysLoaded = TRUE, !.haveKeys = (store # NoKey), !.memKey = store]

\* Mutant: every caller gets the default.
MayPairAlways == TRUE

\* allow_pairing: only a light command leaves it at its default.
MayPair == task.op = "command"

\* Mutant: the old timer is cancelled and no new one started.
NeverArmed == idle' = "none"

\* _schedule_idle_disconnect()
ScheduleIdleDisconnect == idle' = IF OnDemand THEN "sleeping" ELSE "none"

-----------------------------------------------------------------------------
(* Waiting for the lock. asyncio.Lock serves its waiters in order. *)

\* Home Assistant drops a service call on an unavailable entity.
RequestService(op) ==
  /\ op \in {"command", "unpair"}
  /\ available /\ ~closing /\ Len(queue) < MaxQueue
  /\ queue' = Append(queue, op)
  /\ UNCHANGED <<conn, task, idle, closing, removal, store, available, lamp,
                 slots, faults, proof>>

\* The check-in timer calls the connection, not the entity.
CheckInDue ==
  /\ ~closing /\ Len(queue) < MaxQueue
  /\ queue' = Append(queue, "checkin")
  /\ UNCHANGED <<conn, task, idle, closing, removal, store, available, lamp,
                 slots, faults, proof>>

\* async_shutdown() up to its lock: the idle task goes now, the link when the
\* holder is done.
Shutdown ==
  /\ ~closing
  /\ closing' = TRUE
  /\ idle' = "none"
  /\ queue' = Append(queue, "shutdown")
  /\ UNCHANGED <<conn, task, removal, store, available, lamp, slots, faults, proof>>

Acquire ==
  /\ task.op = "none" /\ queue # <<>>
  /\ task' = [NoTask EXCEPT !.op = Head(queue), !.pc = "begin"]
  /\ queue' = Tail(queue)
  /\ proof' = IF proof = "now" THEN "earlier" ELSE proof
  /\ UNCHANGED <<conn, idle, closing, removal, store, available, lamp, slots, faults>>

FinishShutdown ==
  /\ At("shutdown", "begin")
  /\ Disconnect(conn)
  /\ Release
  /\ UNCHANGED <<queue, idle, closing, removal, store, available, faults>>

IdleElapses ==
  /\ idle = "sleeping"
  /\ idle' = "due"
  /\ UNCHANGED <<conn, task, queue, closing, removal, store, available, lamp, slots,
                 faults, proof>>

\* The idle task's place among the waiters is left open: whenever the lock is free.
IdleDisconnect ==
  /\ idle = "due" /\ task.op = "none"
  /\ Disconnect(conn)
  /\ idle' = "none"
  /\ UNCHANGED <<task, queue, closing, removal, store, available, faults>>

-----------------------------------------------------------------------------
(* ensure_connected() *)

\* Where the caller goes on when ensure_connected() returns.
AfterConnect ==
  CASE task.op = "command" -> "send"
    [] task.op = "checkin" -> "finish"
    [] OTHER -> "unpair"

\* Mutant: the verdict of an earlier connect stays.
KeepVerdict(c) == c

\* The fast path asks the lamp nothing, so it leaves no verdict behind.
NoVerdict(c) == [c EXCEPT !.verdict = "none"]

\* Mutant: a check-in that finds the link up is content with that.
TrustOpenLink ==
  \/ /\ LinkLooksUp
     /\ conn' = NoVerdict(Loaded)
     /\ ScheduleIdleDisconnect
     /\ Goto(AfterConnect)
  \/ /\ ~LinkLooksUp
     /\ conn' = [Loaded EXCEPT !.connected = FALSE]
     /\ task' = [task EXCEPT !.pc = "open", !.fresh = ~Loaded.haveKeys]
     /\ UNCHANGED idle

\* The raise for a caller without keys that may not pair is not reached: a check-in and an
\* unpair have returned by then.
EnterConnect ==
  \/ /\ LinkLooksUp
     /\ conn' = NoVerdict(Loaded)
     /\ ScheduleIdleDisconnect
     /\ Goto(IF task.op = "checkin" THEN "refresh" ELSE AfterConnect)
  \/ /\ ~LinkLooksUp
     /\ conn' = [Loaded EXCEPT !.connected = FALSE]
     /\ task' = [task EXCEPT !.pc = "open", !.fresh = ~Loaded.haveKeys]
     /\ UNCHANGED idle

BeginCommand ==
  /\ At("command", "begin")
  /\ EnterConnect
  /\ UNCHANGED <<queue, closing, removal, store, available, lamp, slots, faults, proof>>

BeginCheckIn ==
  /\ At("checkin", "begin")
  /\ \/ Loaded.haveKeys /\ EnterConnect
     \/ ~Loaded.haveKeys /\ conn' = Loaded /\ Release /\ UNCHANGED idle
  /\ UNCHANGED <<queue, closing, removal, store, available, lamp, slots, faults, proof>>

\* With no stored pairing there is nothing to release: the entry just goes.
BeginUnpair ==
  /\ At("unpair", "begin")
  /\ \/ Loaded.haveKeys /\ EnterConnect /\ UNCHANGED removal
     \/ /\ ~Loaded.haveKeys
        /\ conn' = Loaded
        /\ removal' = TRUE
        /\ Release
        /\ UNCHANGED idle
  /\ UNCHANGED <<queue, closing, store, available, lamp, slots, faults, proof>>

\* The slots in use once _open_link() has closed a client that was left behind.
SlotsBeforeOpen == IF conn.client THEN slots - 1 ELSE slots

\* _open_link(), and with it the disconnect() that precedes the reconnect after a
\* pairing. That reconnect ends the pass's set-up; a first connect goes on to it.
OpenLink ==
  /\ task.pc \in {"open", "reopen"}
  /\ \/ /\ Fault
        /\ Disconnect(conn)
        /\ Raise("other")
     \/ /\ conn' = [Closed(conn) EXCEPT !.client = TRUE, !.connected = task.pc = "reopen"]
        /\ lamp' = [Dropped(lamp) EXCEPT !.link = TRUE]
        /\ slots' = SlotsBeforeOpen + 1
        /\ proof' = "none"
        /\ Goto(IF task.pc = "reopen" THEN "ask" ELSE IF task.fresh THEN "pair" ELSE "info")
        /\ UNCHANGED faults
  /\ UNCHANGED <<queue, idle, closing, removal, store, available>>

\* Mutant: the keys of the record that is already there.
StaleRecord == store

\* The keys _save_keys() writes: the ones in memory.
Record == conn.memKey

\* _fetch_module_info_once(): an answer that says something new is stored beside
\* the keys, which rewrites the whole record from memory.
FetchModuleInfo ==
  /\ task.pc = "info"
  /\ store' \in {store, Record}
  /\ conn' = [conn EXCEPT !.connected = TRUE]
  /\ Goto("ask")
  /\ UNCHANGED <<queue, idle, closing, removal, available, lamp, slots, faults, proof>>

\* A lamp in NONE mode that honours this link: it answers an unencrypted REGISTER.
FreeLampListens == lamp.link /\ ~lamp.deaf /\ lamp.key = NoKey

\* _pairing_handshake() up to step 6: the keys in memory are ones the lamp minted,
\* or the handshake raised. A registered lamp answers the probe PRIVATE.
ExchangeKeys ==
  /\ task.pc = "pair"
  /\ \/ /\ FreeLampListens
        /\ \E k \in Keys \ {store} :
             /\ conn' = [conn EXCEPT !.memKey = k]
             /\ lamp' = [lamp EXCEPT !.offer = k]
        /\ Goto("save")
        /\ UNCHANGED faults
     \/ /\ Fails(~FreeLampListens)
        /\ Raise("other")
        /\ UNCHANGED <<conn, lamp>>
  /\ UNCHANGED <<queue, idle, closing, removal, store, available, slots, proof>>

\* _save_keys(), before REGISTER_END.
SaveKeys ==
  /\ task.pc = "save"
  /\ store' = Record
  /\ conn' = [conn EXCEPT !.haveKeys = TRUE, !.keysLoaded = TRUE]
  /\ Goto("register")
  /\ UNCHANGED <<queue, idle, closing, removal, available, lamp, slots, faults, proof>>

\* Step 9, REGISTER_END: from here the lamp keeps the key, and ignores this link.
RegisterEnd ==
  /\ task.pc = "register"
  /\ \/ /\ lamp.link /\ ~lamp.deaf /\ lamp.offer = conn.memKey
        /\ lamp' = [lamp EXCEPT !.key = conn.memKey, !.offer = NoKey, !.deaf = TRUE]
        /\ Goto("reopen")
        /\ UNCHANGED faults
     \/ /\ lamp.link
        /\ Fails(lamp.deaf \/ lamp.offer # conn.memKey)
        /\ Goto("reopen")
        /\ UNCHANGED lamp
     \/ /\ ~lamp.link
        /\ Raise("other")
        /\ UNCHANGED <<lamp, faults>>
  /\ UNCHANGED <<conn, queue, idle, closing, removal, store, available, slots, proof>>

\* What a battery request brings back: the lamp's answer, or silence.
LampReply ==
  IF ~lamp.link \/ lamp.deaf THEN "SILENT"
  ELSE IF lamp.key = conn.memKey THEN "ANSWERED"
  ELSE IF lamp.mute THEN "SILENT" ELSE "KEYS_REJECTED"

Hear(v) ==
  \/ v = LampReply /\ UNCHANGED faults
  \/ v = "SILENT" /\ LampReply # "SILENT" /\ Fault

\* The next of at most two passes, which pairs.
RepairPass ==
  task' = [task EXCEPT !.pc = "open", !.pass = task.pass + 1, !.misses = 0, !.fresh = TRUE]

\* Mutants: one miss is a diagnosis; no number of misses is.
RetryNever(v) == FALSE
RetryAlways(v) == v = "SILENT"

\* One miss is retried before anything acts on it.
Retry(v) == v = "SILENT" /\ task.misses = 0

\* A pass that paired, and a caller that may not pair, get no second opinion.
GivesUp == task.fresh \/ ~MayPair

AskRetry ==
  /\ task.pc = "ask"
  /\ \E v \in Verdicts : Hear(v) /\ Retry(v)
  /\ task' = [task EXCEPT !.misses = 1]
  /\ UNCHANGED <<conn, queue, idle, closing, removal, store, available, lamp, slots,
                 proof>>

AskAnswered ==
  /\ task.pc = "ask"
  /\ Hear("ANSWERED")
  /\ proof' = "now"
  /\ conn' = [conn EXCEPT !.verdict = "ANSWERED"]
  /\ ScheduleIdleDisconnect
  /\ Goto(AfterConnect)
  /\ UNCHANGED <<queue, closing, removal, store, available, lamp, slots>>

\* The session is refused: disconnect() and raise LampNotAnswering(v).
AskRefused ==
  /\ task.pc = "ask"
  /\ GivesUp
  /\ \E v \in Verdicts \ {"ANSWERED"} :
       /\ Hear(v) /\ ~Retry(v)
       /\ Disconnect(conn)
       /\ Raise(v)
  /\ UNCHANGED <<queue, idle, closing, removal, store, available>>

\* A lamp that says so itself was reset: pair it again on the next pass.
AskRepair ==
  /\ task.pc = "ask"
  /\ ~GivesUp
  /\ Hear("KEYS_REJECTED")
  /\ Disconnect(Forgotten(conn))
  /\ RepairPass
  /\ UNCHANGED <<queue, idle, closing, removal, store, available>>

AskSilentTwice ==
  /\ task.pc = "ask"
  /\ ~GivesUp /\ ~Retry("SILENT")
  /\ Hear("SILENT")
  /\ conn' = [conn EXCEPT !.verdict = "SILENT"]
  /\ Goto("probe")
  /\ UNCHANGED <<queue, idle, closing, removal, store, available, lamp, slots, proof>>

\* _lamp_still_paired(): only a lamp that answers outside PRIVATE mode was reset.
ProbeReset ==
  /\ task.pc = "probe"
  /\ FreeLampListens
  /\ Disconnect(Forgotten(conn))
  /\ RepairPass
  /\ UNCHANGED <<queue, idle, closing, removal, store, available, faults>>

ProbeStillPaired ==
  /\ task.pc = "probe"
  /\ Fails(~FreeLampListens)
  /\ Disconnect(conn)
  /\ Raise("SILENT")
  /\ UNCHANGED <<queue, idle, closing, removal, store, available>>

-----------------------------------------------------------------------------
(* A light command: _async_send_led() *)

\* A write without response: it fails on a dead link and is never acknowledged.
SendLed ==
  /\ At("command", "send")
  /\ \/ lamp.link /\ Release /\ available' = TRUE
     \/ ~lamp.link /\ Raise("other") /\ UNCHANGED available
  /\ UNCHANGED <<conn, queue, idle, closing, removal, store, lamp, slots, faults, proof>>

CommandFailed ==
  /\ At("command", "failed")
  /\ Disconnect(conn)
  /\ available' = FALSE
  /\ Release
  /\ UNCHANGED <<queue, idle, closing, removal, store, faults>>

-----------------------------------------------------------------------------
(* async_check_in() *)

\* The battery is asked for on a link that was up already. Anything but an answer
\* is a dead session, replaced at once.
RefreshAnswered ==
  /\ At("checkin", "refresh")
  /\ Hear("ANSWERED")
  /\ proof' = "now"
  /\ Goto("finish")
  /\ UNCHANGED <<conn, queue, idle, closing, removal, store, available, lamp, slots>>

RefreshDead ==
  /\ At("checkin", "refresh")
  /\ \E v \in Verdicts \ {"ANSWERED"} :
       /\ Hear(v)
       /\ task' = [task EXCEPT !.pc = "open", !.provenDead = TRUE,
                               !.rejected = (v = "KEYS_REJECTED")]
  /\ Disconnect(conn)
  /\ UNCHANGED <<queue, idle, closing, removal, store, available>>

FinishCheckIn ==
  /\ At("checkin", "finish")
  /\ available' = TRUE
  /\ Release
  /\ UNCHANGED <<conn, queue, idle, closing, removal, store, lamp, slots, faults, proof>>

\* Mutant: every failure is reported.
ReportUnavailable == FALSE

\* What a failed check-in reports: a lamp that rejected the keys stays available, so
\* that the command that re-pairs it can reach it; any other failure is reported
\* only when the lamp was reached and useless, or its session was known dead.
Report ==
  CASE task.exc = "KEYS_REJECTED" -> TRUE
    [] task.exc = "SILENT" -> FALSE
    [] OTHER -> available /\ ~task.provenDead

CheckInFailed ==
  /\ At("checkin", "failed")
  /\ available' = Report
  /\ Release
  /\ UNCHANGED <<conn, queue, idle, closing, removal, store, lamp, slots, faults, proof>>

-----------------------------------------------------------------------------
(* fermob.unpair: unpair() and async_unpair() *)

\* The verdict of the connect, or one asked for on an open link and retried once.
UnpairVerdict(v) ==
  IF conn.verdict = "none" THEN Hear(v) ELSE v = conn.verdict /\ UNCHANGED faults

\* Mutant: any answer releases the lamp.
ReleaseOnAnyReply(v) == v # "SILENT"

\* Only a session that answered carries the broadcast.
MayRelease(v) == v = "ANSWERED"

UnpairRetry ==
  /\ At("unpair", "unpair")
  /\ conn.verdict = "none" /\ Retry("SILENT")
  /\ UnpairVerdict("SILENT")
  /\ task' = [task EXCEPT !.misses = 1]
  /\ UNCHANGED <<conn, queue, idle, closing, removal, store, available, lamp, slots,
                 proof>>

UnpairAnswered ==
  /\ At("unpair", "unpair")
  /\ \E v \in Verdicts :
       /\ MayRelease(v) /\ UnpairVerdict(v)
       /\ proof' = IF conn.verdict = "none" /\ v = "ANSWERED" THEN "now" ELSE proof
  /\ Goto("broadcast")
  /\ UNCHANGED <<conn, queue, idle, closing, removal, store, available, lamp, slots>>

UnpairRefused ==
  /\ At("unpair", "unpair")
  /\ \E v \in Verdicts :
       ~MayRelease(v) /\ ~(conn.verdict = "none" /\ Retry(v)) /\ UnpairVerdict(v) /\ Raise(v)
  /\ UNCHANGED <<conn, queue, idle, closing, removal, store, available, lamp, slots,
                 proof>>

\* A lamp that hears an UNREGISTER in its own key is free again.
LetGo(l) == IF l.key = conn.memKey THEN [l EXCEPT !.key = NoKey, !.missed = FALSE] ELSE l

\* One that does not hear it stays registered.
Missed(l) == [l EXCEPT !.missed = l.key \in Keys]

\* Mutant: a write that fails is taken for one that was sent.
BroadcastSwallowed ==
  /\ At("unpair", "broadcast")
  /\ lamp' = IF ~lamp.link THEN lamp ELSE IF lamp.deaf THEN Missed(lamp) ELSE LetGo(lamp)
  /\ Goto("discard")
  /\ UNCHANGED <<conn, queue, idle, closing, removal, store, available, slots, faults,
                 proof>>

\* UNREGISTER is never acknowledged.
Broadcast ==
  /\ At("unpair", "broadcast")
  /\ \/ /\ lamp.link /\ ~lamp.deaf
        /\ lamp' = LetGo(lamp)
        /\ Goto("discard")
        /\ UNCHANGED faults
     \/ /\ lamp.link /\ Fails(lamp.deaf)
        /\ lamp' = Missed(lamp)
        /\ Goto("discard")
     \/ /\ ~lamp.link
        /\ Raise("other")
        /\ UNCHANGED <<lamp, faults>>
  /\ UNCHANGED <<conn, queue, idle, closing, removal, store, available, slots, proof>>

\* disconnect(), discard_keys(), and after the lock config_entries.async_remove().
DiscardKeys ==
  /\ At("unpair", "discard")
  /\ Disconnect([Forgotten(conn) EXCEPT !.keysLoaded = TRUE])
  /\ store' = NoKey
  /\ removal' = TRUE
  /\ Release
  /\ UNCHANGED <<queue, idle, closing, available, faults>>

\* The service raises HomeAssistantError and removes nothing.
UnpairFailed ==
  /\ At("unpair", "failed")
  /\ Disconnect(conn)
  /\ Release
  /\ UNCHANGED <<queue, idle, closing, removal, store, available, faults>>

-----------------------------------------------------------------------------
(* The lamp, the radio and the people around them. *)

LinkDrops ==
  /\ lamp.link /\ Fault
  /\ lamp' = Dropped(lamp)
  /\ UNCHANGED <<conn, task, queue, idle, closing, removal, store, available, slots,
                 proof>>

\* The link stays up and the lamp stops answering on it.
SessionDies ==
  /\ lamp.link /\ ~lamp.deaf /\ Fault
  /\ lamp' = [lamp EXCEPT !.deaf = TRUE]
  /\ UNCHANGED <<conn, task, queue, idle, closing, removal, store, available, slots,
                 proof>>

FactoryReset ==
  /\ Fault
  /\ lamp.key # NoKey \/ lamp.offer # NoKey
  /\ lamp' = [lamp EXCEPT !.key = NoKey, !.offer = NoKey, !.missed = FALSE]
  /\ UNCHANGED <<conn, task, queue, idle, closing, removal, store, available, slots,
                 proof>>

\* A free lamp on which we hold no link is paired with the Fermob app.
AppPairs ==
  /\ Fault
  /\ lamp.key = NoKey /\ ~lamp.link
  /\ lamp' = [lamp EXCEPT !.key = AppKey]
  /\ UNCHANGED <<conn, task, queue, idle, closing, removal, store, available, slots,
                 proof>>

\* A state push the lamp sends by itself, its button pressed: on_lamp_state_change.
LampPush ==
  /\ conn.connected /\ lamp.link /\ ~lamp.deaf /\ lamp.key = conn.memKey
  /\ ~available
  /\ available' = TRUE
  /\ UNCHANGED <<conn, task, queue, idle, closing, removal, store, lamp, slots, faults,
                 proof>>

-----------------------------------------------------------------------------
Connect ==
  \/ OpenLink \/ FetchModuleInfo \/ ExchangeKeys \/ SaveKeys \/ RegisterEnd
  \/ AskRetry \/ AskAnswered \/ AskRefused \/ AskRepair \/ AskSilentTwice
  \/ ProbeReset \/ ProbeStillPaired

Command == BeginCommand \/ SendLed \/ CommandFailed

CheckIn ==
  BeginCheckIn \/ RefreshAnswered \/ RefreshDead \/ FinishCheckIn \/ CheckInFailed

Unpair ==
  \/ BeginUnpair \/ UnpairRetry \/ UnpairAnswered \/ UnpairRefused \/ Broadcast
  \/ DiscardKeys \/ UnpairFailed

\* The steps of the task that holds the lock.
Holder == Connect \/ Command \/ CheckIn \/ Unpair \/ FinishShutdown

Environment == LinkDrops \/ SessionDies \/ FactoryReset \/ AppPairs \/ LampPush

Next ==
  \/ \E op \in {"command", "unpair"} : RequestService(op)
  \/ CheckInDue \/ Shutdown \/ Acquire \/ IdleElapses \/ IdleDisconnect
  \/ Holder \/ Environment

Spec == Init /\ [][Next]_vars

(***************************************************************************)
(* The event loop runs every task that can run, a waiter of the lock gets   *)
(* it in its turn, and the timers fire. The check-in timer needs strong     *)
(* fairness only because the bound on the queue can keep disabling it.      *)
(***************************************************************************)
Fairness ==
  /\ WF_vars(Holder)
  /\ WF_vars(Acquire)
  /\ WF_vars(IdleElapses)
  /\ WF_vars(IdleDisconnect)
  /\ SF_vars(CheckInDue)

FairSpec == Spec /\ Fairness

-----------------------------------------------------------------------------
(* Properties *)

\* Every variable holds a value of its kind, and the fields go together.
TypeOK ==
  /\ conn \in ConnFields
  /\ task \in TaskFields
  /\ queue \in Seq(Ops)
  /\ idle \in {"none", "sleeping", "due"}
  /\ closing \in BOOLEAN /\ removal \in BOOLEAN /\ available \in BOOLEAN
  /\ store \in StoredKeys
  /\ lamp \in LampFields
  /\ slots \in Nat
  /\ faults \in Nat
  /\ proof \in {"none", "earlier", "now"}

\* The keys the connection encrypts with are the ones on disk, so a restart comes
\* back to the same session (_save_keys before REGISTER_END, _forget_keys_in_memory
\* leaving the record alone, discard_keys removing it first).
KeysMatchStore == conn.haveKeys => conn.memKey = store /\ store # NoKey

\* A lamp registered to Home Assistant can always be talked to: its key is the one
\* on disk, at every moment of a pairing, a re-pairing or an unpairing. The one
\* exception is the lamp that missed its UNREGISTER broadcast.
NeverLockedOut == lamp.key \in Keys /\ ~lamp.missed => store = lamp.key

\* A link that is handed on as connected -- to the caller of ensure_connected, or to
\* whoever takes the lock next -- is one the lamp has acknowledged something on.
SessionProven ==
  /\ conn.connected /\ task.op = "none" => proof # "none"
  /\ task.pc \in {"send", "finish", "refresh", "unpair", "broadcast"} =>
       conn.connected /\ proof # "none"

\* The frames of the pairing sequence go only to a lamp that is of no use as it is:
\* one that has answered nothing on this link, and no probe before the second miss.
ProbeBehindFailure ==
  /\ task.pc \in {"probe", "pair", "save", "register"} => proof = "none"
  /\ task.pc = "probe" => task.misses = 1 /\ ~task.fresh

\* The loop of ensure_connected never runs out of passes: it would return without
\* a session. The second pass pairs, and a pass that pairs is the last.
TwoPasses == task.pass <= 2 /\ (task.pass = 2 => task.fresh)

\* The entry is removed, and UNREGISTER sent, only on a session that answered under
\* the very operation that sends it: a verdict left over from an earlier one does
\* not count.
BroadcastOnFreshProof == task.pc \in {"broadcast", "discard"} => proof = "now"

\* At most one BLE client exists, and it is the one the connection can close: a
\* stale client is closed before another is opened.
OneSlot == slots = IF conn.client THEN 1 ELSE 0

\* In on-demand mode a link that nobody is using will be given back.
IdleArmed ==
  OnDemand /\ conn.client /\ task.op = "none" /\ ~closing => idle # "none"

\* Only a light command pairs: no check-in and no unpair makes a lamp ours, and no
\* operation rotates the key of a lamp that is registered.
OnlyCommandsPair ==
  [][lamp'.key \in Keys /\ lamp'.key # lamp.key =>
       task.op = "command" /\ lamp.key = NoKey]_vars

\* The record on disk is replaced only by a pairing with a lamp that was free, and
\* removed only by an unpair whose session answered: a failed re-pair, whatever
\* went wrong in it, leaves the old record to try again with.
RecordSurvives ==
  [][store' # store => \/ task.pc = "save" /\ (store # NoKey => lamp.key # store)
                       \/ task.pc = "discard" /\ proof = "now"]_vars

\* Seen from the lamp's registration and the record on disk, every step is one that
\* Ownership allows, in the order it allows: recorded before registered, released before
\* forgotten.
Owned == INSTANCE Ownership WITH owner <- lamp.key, record <- store, stray <- lamp.missed
ImplementsOwnership == Owned!Spec

\* Whoever takes the lock gives it back: no operation waits, or loops, for ever.
LockReleased == (task.op # "none") ~> (task.op = "none")

\* An entity that has gone unavailable comes back: "it repairs itself at the next
\* scheduled check-in". Here for a lamp that is free to be paired and never was.
RepairsItself ==
  (~available /\ store = NoKey /\ lamp.key = NoKey /\ ~removal)
    ~> (available \/ closing \/ removal \/ lamp.key # NoKey)

\* A lamp that was factory-reset behind our back is recovered, whichever way it
\* takes a frame it cannot decrypt.
ResetIsRecovered ==
  (~available /\ store # NoKey /\ lamp.key = NoKey)
    ~> (available \/ closing \/ removal \/ lamp.key # NoKey)

=============================================================================
