# Verification of ha-fermob

ha-fermob is a Home Assistant integration for Fermob's battery lamps. It speaks
an encrypted protocol over Bluetooth Low Energy, pairs with a lamp the first time
its light is switched on, keeps the pairing keys on disk, and from then on has to
decide, from acknowledgements that get lost on links that only look up, whether
the lamp is still there, still its own, and fit to be told anything.

This directory holds TLA+ modules that model that program, TLC configurations
that check them on small instances, and proofs, checked by TLAPS, of the safety
properties for every instance. `PROJECT.json` says which source lines each
definition translates.

Source paths below are relative to `src/custom_components/fermob/`.

## The system

| Component | State | Operations |
|---|---|---|
| `FermobBLEConnection` (`light.py` 234-1799): one lamp's connection object | `_client`, `_connected`/`_ready`, the keys and `_keys_loaded`, `_connect_verdict`, `_idle_task`, the event and acknowledgement queues, the identity the lamp reported | `ensure_connected`, `async_check_in`, `unpair`, `disconnect`, `async_shutdown`, `send_led`, `_save_keys`, `discard_keys` |
| its lock (`self.lock`, an `asyncio.Lock`) | the holder and the tasks that wait | taken by a light command, a check-in, `fermob.unpair`, the idle task and `async_shutdown` |
| the pairing handshake (`light.py` 738-818) | its place in ten steps; the keys it received | REGISTER, the three key frames, save, REGISTER_END |
| acknowledgements and pushes (`light.py` 504-732) | sequence id, acknowledgement queue, event queue, fragment buffer | `_notif_handler`, `_send`, `_await_ack`, `_dispatch_event` |
| the reported identity (`light.py` 1250-1416) | module type, versions, attempts | `_fetch_module_info_once`, `_store_module_info` |
| `FermobLight` (`light.py` 1861-2194): the entity | `_attr_available`, on/off, brightness, colour temperature | `turn_on`, `turn_off`, `fermob.check_in`, `fermob.unpair`, the listeners for pushes and check-ins |
| the config entry (`__init__.py`) | loaded or not, the timers, `.storage/fermob_*` | set-up, unload, reload on an option change, removal (deletes the record) |
| protocol encoding (`protocol.py`) | none | frames, TLVs, versions, the battery table, the light payloads |
| firmware lookup (`firmware.py`) | none | asks two hosts in turn, judges their answers, picks a release |
| update entity (`update.py`) | the release of the last successful lookup | first check, daily check, `latest_version` |
| config and options flow (`config_flow.py`) | none | discovery, the address form, the options |
| battery sensors (`sensor.py`, `binary_sensor.py`, `entity.py`) | none | show what the connection reported |

The components meet in five places. Every operation on the lamp runs under the
one lock, so two of them interleave only through what they leave behind: an open
link, a verdict, keys in memory, a record on disk. Home Assistant sits in front of
the entity and drops service calls to an unavailable one, so the entity's
availability decides which operations can happen at all; the check-in timer does
not pass through it. The lamp has its own idea of who owns it, which changes when
REGISTER_END or UNREGISTER arrives, when its owner resets it, or when the Fermob
app takes it. The idle timer and `async_shutdown` act on the connection beside
the holder of the lock. And what the lamp reports of itself travels from the connection
to the key record and the config entry, whose change reloads the entry and makes every
entity anew, the update entity with its release among them.

### What makes it hard

* The only acknowledgement on a live link is the answer to a battery request. A
  light command is a write without response: it cannot fail on a link that looks
  up, so whether a session is dead has to be found out separately.
* Silence has two causes that call for opposite reactions -- a marginal link
  (leave the pairing alone) and a lamp that was reset (pair it again) -- and a lamp
  may or may not say which it is.
* Pairing takes ownership of the lamp. A light command may do it; a timer and a
  service that releases the lamp may not.
* Losing the keys of a registered lamp is a one-way door, which only a factory
  reset with a paper clip reopens. The order of writes to the lamp and to the disk
  decides whether an interruption goes through that door.
* A link may drop, a session may die and the lamp may be reset between any two
  steps, and a task that waits for the lock wakes in a world others have changed.
* A cancelled task runs no `except Exception`: it gives the lock back and leaves the
  object as it stands, half a connect or half a disconnect included.
* The entity is written to from two sides, its own commands and the lamp's pushes, which
  cross; and each value passes through percent, mired and two rounded channels.
* The release servers may be down, or something else may answer in their place, and a
  reload or restart drops what was learnt from them.

### What makes it correct

For the connection: the keys in memory are the ones on disk; a lamp registered to
Home Assistant is registered under them; a link handed on as connected was
acknowledged on; pairing frames are kept away from lamps that answer; a BLE slot is
never lost; the lock is given back; check-ins restore a working lamp. For the
entry: what a restart or a removal finds on disk fits what the lamp holds. For the
frames: an acknowledgement is matched to its own request, and pushes are applied in
the order the lamp sent them. For the light: it shows what the lamp does, and a command
that leaves something out leaves that at the lamp as it was. For the update: it claims
nothing no server has said, one working server is enough, and a check that could not be
made is made once the model is on record. The hazards in `PROJECT.json` list, line by line,
where each of these could fail.

## Modules

| Module | Models | Composes |
|---|---|---|
| `Ownership` | abstractly: who owns the lamp, and in which order registration and record may change | |
| `FermobConnection` | the connection object, its lock and callers, the entity's availability, the lamp | implements `Ownership` |
| `Pairing` | the handshake frame by frame, the record, restarts | implements `Ownership` |
| `Interruptions` | cancelled tasks, disconnects cut short, saves and listeners that raise | extends `FermobConnection` |
| `FermobEntry` | set-up, reload, removal, re-addition and restart around the connection, interrupted or not | extends `Interruptions` |
| `AckChannel` | notifications, requests and their answers, the queue between them | |
| `ModuleInfo` | what the lamp says about itself: reads, record, config entry | |
| `LightEntity` | the attributes of the light between commands, pushes and the lamp's button | |
| `FirmwareUpdate` | the update entity, the two servers, the way of the model to the entry | |
| `Ownership_proofs`, `FermobConnection_proofs`, `Pairing_proofs`, `FermobEntry_proofs`, `AckChannel_proofs`, `ModuleInfo_proofs`, `LightEntity_proofs`, `FirmwareUpdate_proofs` | inductive invariants and theorems | |
| `MCFermobConnection`, `MCInterruptions`, `MCPairing`, `MCFermobEntry`, `MCModuleInfo`, `MCLightEntity`, `MCFirmwareUpdate` | the sets TLC needs | |
| `MCReleased` | a history of whether `fermob.unpair` has released the lamp, for the `undone_release` run | extends `MCFermobEntry` |

`FermobConnection` takes the exchange of the keys for one step and a request with its
answer for one step; `Pairing` looks inside the first and `AckChannel` inside the second.

### Ownership

The lamp's registration, the record of its key, and whether the lamp missed being told to
let go. Its actions are all the ways in which these may change. `Write`: a key goes on
record while the lamp is not ours, or the lamp's own key once more. `Register`: a free lamp
registers under the key on record. `LetGo`: it is released, or reset. `Miss`: it is told
and does not hear it. `Forget`: the key is forgotten, which takes a lamp that has let go or
was told to. `Abandon`: the owner deletes the entry and with it the key. `AppTakes`: the
app registers a free lamp. `FermobConnection`, alone, interrupted and inside `FermobEntry`,
and `Pairing` map `owner`, `record` and `stray` to the lamp's key, their `store` and
`lamp.missed`, and every step of theirs is a step of this module or none.

### FermobConnection

The variables group the fields by owner: `conn` (the connection object), `task` (the
holder of the lock: which operation, where in the code, its locals), `queue` (who
waits), `idle`, `closing`, `removal`, `store` (the record on disk), `available`,
`lamp` (the key it is registered under, the link, whether it ignores the link, the
key under negotiation). `slots`, `proof` and `lamp.missed` are history: BLE clients
opened and not closed, whether the lamp acknowledged something on this link, and
whether a lamp that is still ours missed an UNREGISTER (one that hears it, and one that is
reset, have nothing left to miss).

One action stands for the code between two awaits at which something can change that
the code reads later; the locals that survive an await are in `task`:

| `task.pc` | code |
|---|---|
| `begin` | an operation has the lock: `_load_keys`, the fast path of `ensure_connected` |
| `open`, `reopen` | `_open_link`, the second time after a pairing |
| `info` | `_fetch_module_info_once` |
| `pair`, `save`, `register` | `_pairing_handshake`: the exchange, `_save_keys`, REGISTER_END |
| `ask`, `probe` | the battery request and its retry; `_lamp_still_paired` |
| `send` | `send_led` |
| `refresh`, `finish` | the check-in's own request on a link that was up; its report |
| `unpair`, `broadcast`, `discard` | `unpair()`, UNREGISTER, `discard_keys` and removal |
| `failed` | the caller's exception handler |

A key is one value, whatever its bytes: the lamp answers a request encrypted under
its key and no other. `_ready` and `_connected` are assigned together and are one field.
A push appears only as the thing that makes an entity available again. Sleeps and
time-outs are not timed: a request is answered, or it is not.

Losses -- a failed connect, a lost reply, a lost UNREGISTER, a dropped link, a session
that dies, a reset, the app taking the lamp -- may happen anywhere but draw on a
budget, `MaxFaults`. So every behaviour is eventually free of them, which is what makes
the liveness properties meaningful, and TLC tries every placement of the budget.

### Pairing

`ha` is the connection object as far as the handshake uses it: its place (`pc`, one per
frame, with the save and the reconnect among them), the two key parts, the short address,
`_have_keys` and `_keys_loaded`. A key is a nonce and a private key, which the lamp
generates in answer to two commands: memory can hold one part of an old attempt and one
of a new, which is what `RecordAsGenerated` is about. The lamp has an encryption mode, and
reads a frame only in that mode and with the parts it is encrypted under (`Reads`).
`Answered` and `Unanswered` are one frame each; an unanswered frame may or may not have
been acted on. `After` is the order of the steps. `Restart` may come between any two.
`FetchModuleInfo` is the read on a link that was opened with keys, as far as it touches
the record: an answer rewrites the record from memory. What bounds those reads is
`ModuleInfo`'s question, and here any connect may make one.
SET_MODULE_TIME and the event awaited at the end of a pairing change nothing that the
object or the lamp keeps, and are left out.

### Interruptions

The steps of `FermobConnection`, and beside them what its handlers do not see.
`Cancelled` is a `CancelledError` at an await of a command, a check-in or an unpair: the
lock is released by its `async with` and nothing else happens, but for the `finally` of
`async_unpair`, and a `disconnect()` that was under way has cleared `_connected` and
kept its client; an `_open_link` may have closed the client that was left behind
(`StaleClosed`). Home Assistant cancels the task of a service call when the script
around it is stopped or restarted. `LoadFails`, a load that is cancelled or raises, is the
one with a lasting effect: `_load_keys` sets `_keys_loaded` before it reads the store, so
that the object never looks again. `StoreCancelled` lets the write or the removal happen and drops what
follows. `StoreRaises` is a `_save_keys` or a module-info listener that raises in the
middle of a connect, which the callers treat differently: a check-in swallows it and
leaves the link as it is.

Three of its properties say what is left of the connection's promises: check-ins restore
a lamp, the entry is removed only when the lamp has let go, and what a cancelled task
leaves open is proven or closed by the next operation. Two of them name
`RecordOverlooked`, the object whose load was cut short, and the third the object that
knows of no pairing: such an object takes its lamp for one that was never paired until
the next reload.

### FermobEntry

`entry` is `loaded`, `reloading`, `removing` or `gone`. `Reload` and `Remove` begin with
`Shutdown`; `SetUpAgain` and `RemoveEntry` wait until it has run (`ShutdownDone`), as
`async_on_unload(conn.async_shutdown)` makes Home Assistant do, and then a fresh object
replaces the old one. `Restart` replaces it at any moment and finds the record. Tasks that
waited for the lock when the entity was removed still run, ahead of the shutdown.
Deleting an entry tells the lamp nothing: `RemoveEntry` counts a lamp that is still
registered as one that missed its UNREGISTER, the documented one-way door.

`EntrySpec` is the entry around `FermobConnection`, and `InterruptedEntrySpec` the same with
the steps of `Interruptions` in every life of it, and what the `entry` run checks: what a cancelled task leaves open meets
the shutdown of a reload, and what a store that raised has left on disk meets the next
object. Not covered by either: the cancellation of a task that only waits for the lock,
which leaves the queue and nothing else, and of the `async_remove` that `async_unpair`
awaits behind the lock.

Home Assistant gives up waiting for an unload after some seconds, which is its own code
and not modelled: the module follows the comment in `async_setup_entry`, that a reload
"waits on the lock".

### AckChannel

`air` holds the notifications on their way, in the lamp's order; `inbox` is
`_ack_queue`; `wait` is the code inside `_await_ack` or `_wait_for_event` with its
fragments and deferred pushes; `asked` are the requests the lamp has yet to answer.
`Notify` is `_notif_handler`: a push is dispatched when `_ready` is set and queued
otherwise. A request's number travels with its answer so that `OwnAnswer` can be stated;
the code sees only the sequence id, which wraps. Pushes are numbered by the order of the
lamp's states. The wait for an event at the end of a pairing takes a push, or drops one it
cannot use and goes on waiting (`TakeEvent`): both count as handled in `PushKept`, which is
about pushes that get lost without having been looked at.

### ModuleInfo

Four copies of what the lamp said: `conn` (the connection object's fields, with its latch
`read`, its count of `attempts`, and the light type it was made with, `family`), `disk` (the
key record), `entry` (the config entry in memory) and `saved` (the config entry on disk,
written later). Of the five reported fields the model keeps the type, which decides the
light payloads, and the firmware version, which may change; the short address is zero or
not. `Connect` is `_fetch_module_info_once` up to its request: it announces all it knows,
then asks or not. `Silence` and `Answer` are its two ends, and `Save` writes the record
after the announcement, so that a restart may fall between the two. `Repair`,
`HandshakeReads`, `Save` and `HandshakeFails` are a re-pairing as far as it touches these
fields. `Announce` stands for `_remember_module_info`: a change schedules `Reload`, which
makes a new object once the lock is free. `WriteEntry` is Home Assistant's delayed write.

Two things `ModuleInfo` shows that the comments do not say. The budget counts silences and
answers alike: two silences and one answer without an address spend it, although
`light.py` 140 bounds the reads "while it keeps answering without a short address"
(`NotOnSilence` asks only for one answer). And a lamp whose firmware was updated before it
was paired again keeps its old version when the handshake's own read goes unanswered:
type, version and address are all known, so nothing asks for them again. `EntryCatchesUp` is
therefore about what the record holds, not about what the lamp would say.

### LightEntity

`attr` is what Home Assistant shows. A call is a record with what it computed before it
waits for the lock (`TurnOn` and `TurnOff` append it to `calls`); `Write` is `send_led`
under the lock, which the lamp obeys or, on a dead session, ignores; `Finish` is the
assignment of the attributes after the write has returned. `Fail` is the exception
handler, of a call that has no link, of a write that never reached the lamp, and of one
that did and raised all the same: the lamp has changed and the attributes have not.
`Cancel` is a call that is cancelled in the queue, on its way to a link, or behind a write
that has reached the lamp; no handler runs, and the link stays. `Dispatch` is `on_lamp_state_change` for the first push in `air`. The
conversions are those of the code: `Percent`, `Clamped`, `WarmShare`, `KelvinOf` and
`BrightnessOf` are its formulas in integers, with `Nearest` for `round()`. Which way a
quotient halfway between two integers goes depends on floating-point error and on
Python's rounding to even, so `TiesUp` names the halves that go up, and the theorems
hold for any choice.

A state of the lamp has a number, and `told` says which state, and which light, the
entity shows. `excused` is history: something happened that the entity cannot have seen
in order -- a press nobody was connected for or during a write, a push lost with its
link, a command to a dead session, a push that was on its way when a command was written
to a lamp that does not push its own changes back, and a call that failed or was cancelled
after it had reached such a lamp -- until the two agree again.
`FollowsLamp` is the promise outside of those, and the argument of `Excused` at each
action is the exact list of crossings in which the code does not keep it. Whether a lamp
echoes commands is not something the code decides, so both kinds are modelled.

### FirmwareUpdate

`known` says which of the lamp's model and version each place holds: the connection
object, the key record, the config entry and the entry on disk. `Learn` is a connect on
which the lamp may tell some of them, or none: `_fetch_module_info_once` gives up after a
bounded silence and once the type and version are known, so that the model may stay
unknown for good. The entry is told all that the object knows, and its change schedules
`Reload`; `Announce` is the part of a connect that needs nothing from the lamp. `Added` is `async_added_to_hass` of a new entity, `Poll` Home
Assistant's daily `async_update`, and `HostAnswers` one turn of the loop over the hosts
in `async_get_latest_release`. A healthy host names the build in `catalogue` or says
that it has none; the others are down, broken, or a portal that answers in their place
with any status and none of the vendor's envelope (`Answers`); `Definitive` and
`Release` are the code's judgement of an answer. `Newer` is `compare_versions`: three
components, where a missing one or one that is no number counts as 0. `running` does not
change: the lamp can only be updated by the vendor's app, for which it has to be
released first.

## Runs

| Run | Shows |
|---|---|
| `connection_safety` | ten safety and action properties of one connection object, the refinement of `Ownership` among them |
| `interruptions` | with tasks cancelled at any await and stores that raise: the lock is given back, check-ins restore a paired lamp, an entry is removed only when the lamp has let go, a link left behind is settled |
| `pairing` | wherever a handshake is cut off, record and registration fit, the address stays, and commands that keep coming get the lamp paired |
| `entry` | across reloads, removals, re-additions and restarts, with tasks cancelled and stores that raise in them, the record opens the lamp, one object has a link, unloads end, and the entry implements `Ownership` |
| `ack_channel` | an answer is whole and its request's own; no push is lost inside the connection; only pushes from the set-up of a link can be late |
| `module_info` | a reported field is never lost, reads of a silent lamp are bounded and yet silence alone is no reason to stop, and record, entry and light type come to agree across restarts |
| `light_entity` | the entity shows what the lamp does but for the crossings named; no conversion there and back loses light or colour; a call that leaves something out leaves it as it was |
| `firmware_update` | nothing is claimed that no server has said, one good host is enough, and a check that could not be made is made up for once the model is on record |
| `unpaired_dead_end` | a light greyed out before its first pairing never comes back |
| `silent_reset` | a reset lamp that is mute about frames it cannot decrypt is never recovered |
| `push_order` | a push queued during the set-up of a link is shown after later ones |
| `undone_release` | a paired lamp is released by UNREGISTER and its keys are discarded; a command waiting behind `fermob.unpair` pairs it again, and the removal deletes its key |

### Bounds

* **`connection_safety`**: two keys tell an old pairing from a new one; `ExchangeKeys`
  always mints one that is not on disk, and keys are only compared for equality, so this
  run uses them up to symmetry. Two waiting tasks put any operation behind any other
  while a third runs. Five faults allow the longest recovery there is -- two lost
  replies, a failed probe, a lost link and a reset in one operation.
* **`interruptions`**: on-demand mode, in which a link is idle, in use, or left behind;
  two faults, one of which may be an interruption and the other what it meets, or both
  interruptions; one waiter, no symmetry.
* **`pairing`**: three parts, because the lamp generates none that is on record, and a
  third can be left over in memory; five faults and two restarts let a reset, a failed
  re-pairing and another attempt follow each other.
* **`entry`**: one reload or re-addition, one restart, one waiter (a shutdown may queue
  behind it), and one fault, which may be an interruption: each crosses every step of the
  connection. No symmetry, for `UnloadEnds`. Several interruptions of one object are
  `interruptions`' question, and for the entry that of the proofs.
* **`ack_channel`**: two sequence ids, so that they wrap within three requests; two
  links; three pushes, so that one is deferred, one queued and one dispatched.
  `Patience` is the assumption that no answer comes as late as the sequence ids take to
  wrap: 256 requests in the program, and an answer that late would be taken for
  another's.
* **`module_info`**: two versions and one reset (one changes to the other); one restart,
  which falls between any two writes; `MaxReads` is the program's own 3.
* **`light_entity`**: three calls, so that two wait behind one that is written; two
  presses, one of which may turn the lamp off; one fault, which may be a call that fails or
  is cancelled before or after it has reached the lamp; the brightness 1 (whose
  percentage would be zero) and one colour between the ends, each of which a call may
  leave out; one lit level and mix, with a remainder in every conversion. That the
  conversions are exact for all levels and mixes is proved, not sampled (`NoDrift`).
* **`undone_release`**: two tasks, on a lamp that is paired, no losses and no reload: the
  trace needs none.
* **`firmware_update`**: versions of two, three and four components, one with a
  component that is no number, equal to or newer than what the lamp may run; one restart
  or change of the option, and two changes of the servers or the catalogue: one before
  and one during a check.

Every property that is proved holds without these bounds, for all values of the constants.

### Fairness

* `Fairness` (connection, and `Interruptions`, where nothing has to be interrupted): the
  event loop runs whatever can run (`Holder`); `asyncio.Lock` wakes its waiters in order
  (`Acquire`); a sleeping idle task wakes and gets the lock. The check-in timer is an
  interval timer, so a check-in is asked for again and again: strong fairness, because
  the model's bound on the queue can disable it in between, which the program's queue
  does not.
* `FairSpec` of `Pairing`: commands are asked for and carried out, since no handshake
  ever starts by itself. `EndsUpPaired` is about what commands find, not about users.
* `EntryFairness`: the holder and the lock as above; a set-up or removal that was begun
  is carried through, and so is the removal that `async_unpair` awaits. Nothing has to be
  interrupted.
* `Fairness` of `ModuleInfo`: check-ins keep connecting; a request is answered or times
  out; a save completes. A scheduled reload waits for an `asyncio.Lock`, which serves
  its waiters in order, while connects come and go: strong fairness. Nothing is assumed
  of the delayed write, nor that the lamp ever answers.
* `Fairness` of `FirmwareUpdate`: check-ins keep connecting, and each connect announces
  what the record holds (`Announce`); nothing is assumed of what the lamp ever says, and
  `CheckedOnceKnown` is about a model that is on record. A scheduled reload is carried
  through; a request to a server ends, if by its time-out.
  The daily poll is left out: `CheckedOnceKnown` says that nobody has to wait for it.

Otherwise nothing is assumed of users: no service call need be made. Nothing is assumed of
the lamp or the radio beyond the budget of faults. `connection_safety`, `ack_channel` and
`light_entity` check safety only.

### Disagreements found

Each `violation` run states something the repository says of itself and finds it false of
the code; `PROJECT.json` quotes the text.

| Run | Code | Text |
|---|---|---|
| `unpaired_dead_end` | `light.py` 1472 | README 476: "It repairs itself at the next scheduled check-in" |
| `silent_reset` | `light.py` 1206 | PAIRING 230: "`_lamp_still_paired()` handles that automatically" |
| `push_order` | `light.py` 519 | STATE-MODEL 18: the pushes let the entity "follow the lamp" |
| `undone_release` | `light.py` 2194 | PAIRING 212: "re-adding after `fermob.unpair` needs no factory reset" |

Smaller ones, met while modelling and not given a run of their own:

* `async_shutdown` cancels the idle timer before it waits for the lock (`light.py` 853);
  a command ahead of it re-arms the timer, the "pending idle task" its docstring rules
  out, which later wakes in an object that is gone and finds nothing to close.
* A check-in whose reconnect fails reports the lamp unavailable even if the lamp has
  just rejected the keys (`light.py` 1492), which STATE-MODEL 132 says "must **not**
  take the entity unavailable".
* The comment at `light.py` 2030 says that a turn-off keeps the colour at the lamp; it
  is sent with level 0, which makes both channels 0. The colour is kept by the entity.
* Two `turn_on` calls that wait for the lock together both read the old attributes: one
  that names a colour and runs second takes the brightness of the first back. `RestKept`
  speaks only of calls whose entity knew the lamp's last light when they were made.

## Proofs

The theorems hold for every set of keys, key parts or versions, both connection modes,
any number of faults, waiting tasks, calls, pushes, reloads, resets and restarts, and
any budget of reads. They assume what the named ASSUMEs of the modules say: the zero key
and the app's key are none of ours, "unknown" is no version, a handshake can mint a
fresh key (or part), answers are less late than sequence ids take to wrap, calls and the
lamp keep to their ranges, and bounds are natural numbers.

**Connection** (`FermobConnection_proofs`). None of the properties is inductive as it
stands. The invariant is layered, each layer proved over the ones before it, and comes in
two halves. `CoreInv` holds however a task is cut short, so it is proved of
`InterruptedNext`:

* `TypeInv` -- types, and `OneSlot`.
* `Control` -- which operations can be at which place, that a pass that pairs is a
  command's, and that the second pass pairs. `TwoPasses` follows.
* `KeyPlaces` -- what memory, disk and lamp hold at each place. The heart of
  `NeverLockedOut`: between `save` and `register` the lamp is registered to nobody here
  (the exchange worked only because it was free, and an offer dies with the link), so
  that replacing the record locks nobody out; and by `discard` the lamp has let go.
  Memory may hold a key whose record an interrupted unpair has removed (`MemoryKnown`);
  it opens no lamp of ours any more, and can be written back without harm.
* `OursKnown` -- what record and memory say of a lamp of ours is its own key or nothing,
  and only such a lamp can have missed an UNREGISTER: `Ownership` follows from it.
* `Answers` -- what the lamp has acknowledged on this link by the time a holder acts on
  it. It speaks only of places that the operation itself has come to, so that a link some
  other task has left behind cannot mislead it.

`IInv` adds what only an uninterrupted connection keeps: `KeysMatchStore`; `Proven`, that a
connected link is unproven only while the request that proves it is on its way; and
`IdlePlaces`, that the timer runs wherever a client is open and no connect is under way.
A cancelled task breaks all three -- TLC shows it at once -- and their properties
(`KeysMatchStore`, `SessionProven`, `IdleArmed`) are not claimed of `Interruptions`.

The theorems named `Interrupted...` are those that follow from `CoreInv`: lamps are not
locked out, the entry is removed only when the lamp has let go, pairing frames, UNREGISTER
and a check-in's report rest on answers, only commands pair, the record changes only by a
pairing, an unpair or the module information that writes it back, and every step is one of
`Ownership`. Where the same is stated of `Spec`, it is derived from there (`Uninterrupted`).

Two theorems are the safety half of liveness properties. `LockCountdown`: each step of the
holder makes `StepsLeft`, which is at most 19, smaller, and nobody else's step changes the
holder, so that with the fairness of `Holder` the lock comes back (`LockReleased`).
`NextUseSettles`: whatever link a check-in finds, it leaves it proven and with a timer
behind it, and a command leaves it with a timer, since both `EnterConnect` and the answer
to the battery request arm it (`InUse`, an invariant under interruptions)
(`AbandonedLinkSettled`).

Lemmas named `...Effect` say field by field what the vocabulary of the steps does; the
step proofs are one case per action.

**Handshake** (`Pairing_proofs`). `Memory` says what `_have_keys` means at each step and
which parts the steps behind it have brought; `LampPlaces` that before REGISTER_END the lamp
is registered to nobody here, and that once it has generated its private key on this
link, memory holds the same parts; `Addresses` that the address in memory is as good as
the one on record. So what is saved is what the lamp generated, and what it
registers under is what was saved. For `EndsUpPaired` two halves are proved: a command
only moves on (`HandshakeEnds`, by the number of places ahead), and a lamp whose mode and
parts are the ones the next frame is sent under (`InStep`) is left so by each frame it
answers, up to its registration (`HandshakeRegisters`).

**Entry** (`FermobEntry_proofs`). The connection's invariants are reused whole, in the
same two halves: `EntryCore` is `CoreInv` with `ShutdownUnderway`, inductive under
`InterruptedEntryNext`, and `EntryIInv` adds `IInv` for the uninterrupted entry. A step of
the connection keeps each, and a fresh object with nothing open satisfies them
(`FreshObjectCore`, `FreshObjectRest`). What is new is `ShutdownUnderway`: a shutdown that
was asked for is last in the queue, or holds the lock, or has closed the link, after which
no task can come -- also not one whose cancellation has left a link open, since only a
task that holds the lock can be cancelled into that. So nothing is open when an object is
replaced, every theorem about one object's sessions holds for all of them
(`SessionsAcrossLives`, `InterruptedLives`, `InterruptedLivesAnswers`), and the whole
entry, cancellations and all, implements `Ownership` (`EntryImplementation`): reloads and
restarts are stutters, a deletion is `Forget` or `Abandon`. `RecordEnds` names everything
that ever changes the record. `UnloadCountdown` is the safety half of `UnloadEnds`: from
the moment a shutdown is asked for, the steps of the holder and of the tasks in the queue
ahead of it are counted down, and no new task gets in.

**Reported identity** (`ModuleInfo_proofs`). A save overwrites the record with memory,
so what is needed is that memory knows at least as much: `Fuller` says so of every
object that has loaded the record or is about to replace it. `Budget` says where latch
and count stand: a lamp is asked only while the latch is open, and an open latch next to
an address means that the budget is not spent, however late the address came. A restart
and a reload make an object with nothing in it, which satisfies both (`FreshObject`).
`RecordReachesEntry` is the safety half of `EntryCatchesUp`. Its invariant is `Agreement`:
what an object knows, once announced, is what the entry says (`Told`); outside of a
handshake and a save it knows just what is on record (`Settled`); and the light type is the
entry's or a reload is scheduled (`Familiar`). What is left to fairness is that an object
connects at all, and that a scheduled reload comes.

**Acknowledgements** (`AckChannel_proofs`). That the code can tell a late answer from
its own by a sequence id alone rests on `InStep`: everything on its way has the id that
was current as many requests ago as its own number says, and that is no more than
`Patience`, less than `SeqMod`; so equal ids are equal requests. `Matched` says that the
frames of one answer agree on how many they are and that none exists before its answer
is sent, `Collected` that what is gathered belongs to the request that is waited for:
counting to the announced total is then the same as having all. `InOrder` says that
pushes in the air are newer than whatever has arrived, and that those held back came
while the link was being set up.

**Light** (`LightEntity_proofs`). First the arithmetic: half a step of brightness is
less than half a percent, and the rounding of the colour to a kelvin moves the mix by
less than half a level, so that the second rounding undoes the first for each of the
lamp's levels and mixes, whichever way halves go (`NoDrift`). Then the invariant:
whatever carries a light about -- a push (`Pushes`), a call that waits (`Queue`), a call
that was written (`Written`), the attributes (`Shown`) -- carries the lamp's last light
or one that has been replaced since, told apart by their numbers. `Ahead` is what
`FollowsLamp` needs besides: while nothing went past the entity, the last thing it will
hear is of the lamp as it is.

**Update** (`FirmwareUpdate_proofs`). `NewerIsStrict` says that no two versions are each
newer than the other, junk and missing components included; `AnswersOfAHost` that only a
healthy host's answer is believed or carries a release. `Kept`, that the release that
is kept was named to this entity, is the invariant. `NoCheckIsForgotten` is the safety half
of `CheckedOnceKnown`: with the option on, an entity without a release or a failed check is
asking, or a reload that makes it ask is scheduled, or the model whose arrival schedules
one is not in the entry yet.

**Ownership** (`Ownership_proofs`). Whoever follows its rules keeps a lamp of ours
reachable.

Only model-checked: the liveness properties, since TLAPS reasons about neither fairness
of this shape nor ENABLED (`LockReleased`, `CheckInRestores`, `AbandonedLinkSettled`,
`UnloadEnds`, `EndsUpPaired`, `EntryCatchesUp`, `CheckedOnceKnown`). For all but
`CheckInRestores` the step-by-step half is proved, as said above; that the steps are taken
is what TLC shows. `CheckInRestores` has no such half: what it promises depends on the
faults running out. Every other property of a passing run is stated by a theorem.

## Not modelled

* Cryptography and byte layout: an encrypted frame is readable by whoever holds the key.
  TLVs and the battery table are layout and a table.
* A write that fails without saying so: Home Assistant's `Store` logs a failed write and
  returns, so that the code under test takes it for done and no step of it depends on
  the outcome. A write is whole or not begun.
* A light type that was guessed wrong from the name: `kind` is the lamp's and the
  entity's.
* Two checks for firmware at once, the one of a new entity and one that the user forces.
* The number of connect attempts and all durations.
* The config and options flow: forms that keep no state. Two flows for one lamp are kept
  apart by Home Assistant, by the unique id.
* The battery sensors, which show what the connection last reported and keep nothing,
  and the brand icon script, which draws a picture.

## Plan

In this order, most important first; what is done is described above.

1. *Done*: `FermobConnection` with its runs and proofs; `Ownership`; `Interruptions`,
   `Pairing`, `FermobEntry`, `ModuleInfo`, `AckChannel`, `LightEntity` and
   `FirmwareUpdate`, each with its proofs.
2. **Composition**: the attributes of `LightEntity` under the availability of
   `FermobConnection` and the order of pushes of `AckChannel`.
