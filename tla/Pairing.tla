------------------------------ MODULE Pairing ------------------------------
(***************************************************************************)
(* The pairing handshake, one frame at a time: _pairing_handshake() with    *)
(* _load_keys(), _save_keys() and _forget_keys_in_memory(), the lamp that   *)
(* answers, and Home Assistant stopping and starting between any two of     *)
(* its steps. FermobConnection takes the exchange of the keys for one step; *)
(* this module looks inside.                                               *)
(*                                                                         *)
(* A pairing key is the nonce and the private key the lamp generated in two *)
(* separate commands. Memory may hold either part from an earlier attempt,   *)
(* so the parts are kept apart. The public key belongs to the lamp and      *)
(* never changes: it is left out, and so are the answers nothing is read    *)
(* from. Every frame or link that is lost is paid from a budget, MaxFaults. *)
(***************************************************************************)
EXTENDS Naturals

CONSTANTS
  Parts,        \* what the lamp can generate: nonces and private keys
  Zero,         \* a key part that is all zeros
  App,          \* a part of the key under which the Fermob app registers the lamp
  MaxFaults,    \* bound: lost frames, refusals, dropped links and resets
  MaxRestarts   \* bound: restarts of Home Assistant

ASSUME PartsAssumption ==
  Zero \notin Parts /\ App \notin Parts \union {Zero} /\ \A p \in Parts : Parts \ {p} # {}
ASSUME BoundsAssumption == MaxFaults \in Nat /\ MaxRestarts \in Nat

VARIABLES
  ha,         \* the connection object: place in the code, key parts, short address
  store,      \* the record on disk
  lamp,       \* the lamp: link, encryption mode, key parts, registration, address
  faults, restarts

vars == <<ha, store, lamp, faults, restarts>>

Steps == {"probe", "authkey", "nonce", "setPublic", "keygen", "setPrivate", "info",
          "device", "register"}
Modes == {"NONE", "PUBLIC", "PRIVATE"}
HeldPart == Parts \union {Zero}
Key(nonce, priv) == [nonce |-> nonce, priv |-> priv]
Keys == [nonce : Parts, priv : Parts]
NoKey == Key(Zero, Zero)
AppKey == Key(App, App)
NoRecord == [key |-> NoKey, addr |-> 0]

HaFields ==
  [pc : Steps \union {"idle", "save", "reconnect", "failed", "refetch", "ask"},
   nonce : HeldPart, priv : HeldPart, addr : {0, 1}, have : BOOLEAN, loaded : BOOLEAN]
RecordFields == [key : Keys \union {NoKey}, addr : {0, 1}]
LampFields ==
  [link : BOOLEAN, mode : Modes, nonce : HeldPart \union {App},
   priv : HeldPart \union {App}, reg : Keys \union {NoKey, AppKey}, addr : {0, 1}]

\* A new connection object, and a lamp whose link has ended: what it was negotiating is
\* gone, what it was registered under is not.
NewObject == [pc |-> "idle", nonce |-> Zero, priv |-> Zero, addr |-> 0,
              have |-> FALSE, loaded |-> FALSE]
Unlinked(l) ==
  [l EXCEPT !.link = FALSE, !.mode = IF l.reg = NoKey THEN "NONE" ELSE "PRIVATE",
            !.nonce = l.reg.nonce, !.priv = l.reg.priv]

Init ==
  /\ ha = NewObject
  /\ store = NoRecord
  /\ lamp \in [link : {FALSE}, mode : {"NONE"}, nonce : {Zero}, priv : {Zero},
               reg : {NoKey}, addr : {0, 1}]
  /\ faults = 0
  /\ restarts = 0

Fault == faults < MaxFaults /\ faults' = faults + 1
Fails(cause) == Fault \/ (cause /\ UNCHANGED faults)

MemKey == Key(ha.nonce, ha.priv)

-----------------------------------------------------------------------------
(* The steps of the handshake. *)

\* The encryption each step is sent under.
Encryption(step) ==
  CASE step \in {"probe", "authkey", "nonce", "setPublic"} -> "NONE"
    [] step \in {"keygen", "setPrivate"} -> "PUBLIC"
    [] OTHER -> "PRIVATE"

\* Mutant: the record is written once the lamp is registered.
AfterUnsaved(step) ==
  CASE step = "probe" -> "authkey"     [] step = "authkey" -> "nonce"
    [] step = "nonce" -> "setPublic"   [] step = "setPublic" -> "keygen"
    [] step = "keygen" -> "setPrivate" [] step = "setPrivate" -> "info"
    [] step = "info" -> "device"       [] step = "device" -> "register"
    [] step = "register" -> "save"     [] OTHER -> "reconnect"

\* The order of the steps, the record and the reconnect among them.
After(step) ==
  CASE step = "probe" -> "authkey"     [] step = "authkey" -> "nonce"
    [] step = "nonce" -> "setPublic"   [] step = "setPublic" -> "keygen"
    [] step = "keygen" -> "setPrivate" [] step = "setPrivate" -> "info"
    [] step = "info" -> "device"       [] step = "device" -> "save"
    [] step = "save" -> "register"     [] OTHER -> "reconnect"

\* Mutant: an unanswered command is taken for an answered one.
NeedsNothing(step) == FALSE

\* The steps whose answer carries a key part: without it the handshake raises.
NeedsAnswer(step) == step \in {"authkey", "nonce", "keygen"}

\* The lamp acts on a frame in its own mode that it can decrypt.
Reads(step) ==
  /\ lamp.link /\ lamp.mode = Encryption(step)
  /\ lamp.mode # "NONE" => lamp.nonce = ha.nonce
  /\ lamp.mode = "PRIVATE" => lamp.priv = ha.priv

\* What the lamp does with a command. A part it generates is random: never the one
\* on record.
Acts(step) ==
  CASE step = "nonce"  -> {[lamp EXCEPT !.nonce = p] : p \in Parts \ {store.key.nonce}}
    [] step = "keygen" -> {[lamp EXCEPT !.priv = p] : p \in Parts \ {store.key.priv}}
    [] step = "setPublic"  -> {[lamp EXCEPT !.mode = "PUBLIC"]}
    [] step = "setPrivate" -> {[lamp EXCEPT !.mode = "PRIVATE"]}
    [] step = "register"   -> {[lamp EXCEPT !.reg = Key(lamp.nonce, lamp.priv)]}
    [] OTHER -> {lamp}

\* Mutant: a reply without the address is stored as it is.
TakeAddress(reported) == reported

\* A reply without a short address leaves the one we have.
Address(reported) == IF reported = 0 THEN ha.addr ELSE reported

\* Mutant: a private key that is already there stays.
LearnedOnce(step, l, reported) ==
  CASE step = "nonce"  -> [ha EXCEPT !.nonce = l.nonce]
    [] step = "keygen" -> [ha EXCEPT !.priv = IF @ = Zero THEN l.priv ELSE @]
    [] step = "info"   -> [ha EXCEPT !.addr = Address(reported)]
    [] OTHER -> ha

\* What the handshake takes from the answer of lamp l.
Learned(step, l, reported) ==
  CASE step = "nonce"  -> [ha EXCEPT !.nonce = l.nonce]
    [] step = "keygen" -> [ha EXCEPT !.priv = l.priv]
    [] step = "info"   -> [ha EXCEPT !.addr = Address(reported)]
    [] OTHER -> ha

Answered ==
  /\ ha.pc \in Steps /\ Reads(ha.pc)
  /\ \E l \in Acts(ha.pc), reported \in {0, lamp.addr} :
       /\ lamp' = l
       /\ ha' = [Learned(ha.pc, l, reported) EXCEPT !.pc = After(ha.pc)]
  /\ UNCHANGED <<store, faults, restarts>>

\* No answer, or a refusal, whether the lamp has acted or not.
Unanswered ==
  /\ ha.pc \in Steps /\ lamp.link
  /\ Fails(~Reads(ha.pc))
  /\ lamp' \in IF Reads(ha.pc) THEN Acts(ha.pc) \union {lamp} ELSE {lamp}
  /\ ha' = [ha EXCEPT !.pc = IF NeedsAnswer(ha.pc) THEN "failed" ELSE After(ha.pc)]
  /\ UNCHANGED <<store, restarts>>

\* A registered lamp answers the unencrypted probe in PRIVATE mode.
ProbeRefused ==
  /\ ha.pc = "probe" /\ lamp.link /\ lamp.mode = "PRIVATE"
  /\ ha' = [ha EXCEPT !.pc = "failed"]
  /\ UNCHANGED <<store, lamp, faults, restarts>>

\* Writing to a dead link raises.
WriteFails ==
  /\ ha.pc \in Steps /\ ~lamp.link
  /\ ha' = [ha EXCEPT !.pc = "failed"]
  /\ UNCHANGED <<store, lamp, faults, restarts>>

\* Mutant: a record that is there already stays.
OldRecord == IF store.key = NoKey THEN [key |-> MemKey, addr |-> ha.addr] ELSE store

\* The record _save_keys() writes.
Record == [key |-> MemKey, addr |-> ha.addr]

SaveKeys ==
  /\ ha.pc = "save"
  /\ store' = Record
  /\ ha' = [ha EXCEPT !.pc = After("save"), !.have = TRUE, !.loaded = TRUE]
  /\ UNCHANGED <<lamp, faults, restarts>>

-----------------------------------------------------------------------------
(* Around the handshake. *)

\* A command with the link down: the keys are loaded, the link opened, and a lamp we
\* have no keys for is paired.
Connect ==
  /\ ha.pc = "idle"
  /\ LET mem == IF ha.loaded THEN ha
                ELSE IF store.key = NoKey THEN [ha EXCEPT !.loaded = TRUE]
                ELSE [ha EXCEPT !.loaded = TRUE, !.have = TRUE, !.addr = store.addr,
                                !.nonce = store.key.nonce, !.priv = store.key.priv]
     IN ha' = [mem EXCEPT !.pc = IF mem.have THEN "refetch" ELSE "probe"]
  /\ lamp' = [lamp EXCEPT !.link = TRUE]
  /\ UNCHANGED <<store, faults, restarts>>

\* _fetch_module_info_once(), on a link opened with keys: an answer is stored, beside the
\* keys as they are in memory. Without one, or once nothing is missing, nothing is.
FetchModuleInfo ==
  /\ ha.pc = "refetch"
  /\ \/ /\ Reads("info")
        /\ \E reported \in {0, lamp.addr} :
             /\ ha' = [ha EXCEPT !.addr = Address(reported), !.pc = "ask"]
             /\ store' = [key |-> MemKey, addr |-> Address(reported)]
     \/ ha' = [ha EXCEPT !.pc = "ask"] /\ UNCHANGED store
  /\ UNCHANGED <<lamp, faults, restarts>>

\* Mutant: the short address goes with the keys.
ForgottenAddress(h) == [h EXCEPT !.nonce = Zero, !.priv = Zero, !.have = FALSE,
                                 !.loaded = FALSE, !.addr = 0]

\* _forget_keys_in_memory(): not the address, and not the record.
Forgotten(h) ==
  [h EXCEPT !.nonce = Zero, !.priv = Zero, !.have = FALSE, !.loaded = FALSE]

\* Mutant: a rejection is one more failure.
GiveUp(h) == [h EXCEPT !.pc = "failed"]

\* What a rejection of the keys leads to: a handshake, in the next pass.
Repair(h) == [Forgotten(h) EXCEPT !.pc = "probe"]

\* The battery request on a new link tells whether the lamp still holds our keys. One
\* that does not is paired again, on a fresh link: at once by a command that found the
\* keys on record, by the next command if this one has just paired.
KeysRejected ==
  /\ ha.pc = "ask" /\ lamp.link /\ lamp.reg # MemKey
  /\ ha' = Repair(ha)
  /\ lamp' = [Unlinked(lamp) EXCEPT !.link = TRUE]
  /\ UNCHANGED <<store, faults, restarts>>

Session ==
  /\ ha.pc = "ask" /\ lamp.link /\ lamp.reg = MemKey
  /\ ha' = [ha EXCEPT !.pc = "idle"]
  /\ lamp' = Unlinked(lamp)
  /\ UNCHANGED <<store, faults, restarts>>

AskFails ==
  /\ ha.pc = "ask" /\ Fails(~lamp.link)
  /\ ha' = [ha EXCEPT !.pc = "failed"]
  /\ UNCHANGED <<store, lamp, restarts>>

\* The handshake ends in a disconnect, and so does a failure.
Disconnect ==
  /\ ha.pc \in {"reconnect", "failed"}
  /\ ha' = [ha EXCEPT !.pc = "idle"]
  /\ lamp' = Unlinked(lamp)
  /\ UNCHANGED <<store, faults, restarts>>

\* Home Assistant stops at any moment; the record on disk is what it finds again.
Restart ==
  /\ restarts < MaxRestarts
  /\ restarts' = restarts + 1
  /\ ha' = NewObject
  /\ lamp' = Unlinked(lamp)
  /\ UNCHANGED <<store, faults>>

LinkDrops ==
  /\ lamp.link /\ Fault
  /\ lamp' = Unlinked(lamp)
  /\ UNCHANGED <<ha, store, restarts>>

\* A reset lamp has nothing left but its address, and is in NONE mode on any link.
FactoryReset ==
  /\ Fault
  /\ lamp' = [lamp EXCEPT !.reg = NoKey, !.mode = "NONE", !.nonce = Zero, !.priv = Zero]
  /\ UNCHANGED <<ha, store, restarts>>

\* The app takes a lamp that is free.
AppPairs ==
  /\ Fault
  /\ lamp.reg = NoKey /\ ~lamp.link
  /\ lamp' = Unlinked([lamp EXCEPT !.reg = AppKey])
  /\ UNCHANGED <<ha, store, restarts>>

\* The steps of a command.
Command ==
  \/ Connect \/ Answered \/ Unanswered \/ ProbeRefused \/ WriteFails \/ SaveKeys
  \/ FetchModuleInfo \/ KeysRejected \/ Session \/ AskFails \/ Disconnect

Next == Command \/ Restart \/ LinkDrops \/ FactoryReset \/ AppPairs

Spec == Init /\ [][Next]_vars

\* Commands keep coming, and each is carried out to its end by the event loop.
FairSpec == Spec /\ WF_vars(Command)

-----------------------------------------------------------------------------
(* Properties *)

\* Every variable holds a value of its kind; a record is a whole key, never half a
\* one, or none.
TypeOK ==
  /\ ha \in HaFields
  /\ store \in RecordFields
  /\ lamp \in LampFields
  /\ faults \in 0..MaxFaults /\ restarts \in 0..MaxRestarts

\* The key that goes on record is the one the lamp has generated on this link: no part
\* of an abandoned attempt, and no answer that never came, is stored in its place. A
\* lamp that has none by then was reset or has dropped the link.
RecordAsGenerated ==
  [][store'.key # store.key /\ lamp.priv \in Parts
       => store'.key = Key(lamp.nonce, lamp.priv)]_vars

\* A lamp registered to Home Assistant is registered under the key on record, wherever
\* the handshake was cut off and whichever of its frames were lost.
RegisteredIsRecorded == lamp.reg \in Keys => store.key = lamp.reg

\* A short address, once on record, is never replaced by none: the handshake's
\* MODULE_INFO_GET may go unanswered, and _save_keys runs all the same.
AddressKept == [][store.addr # 0 => store'.addr # 0]_vars

\* Seen from outside, the handshake is one write of a record, then one registration.
Owned == INSTANCE Ownership WITH owner <- lamp.reg, record <- store.key, stray <- FALSE
ImplementsOwnership == Owned!Spec

\* A lamp that somebody keeps using ends up registered, under the key on record if the
\* app has not taken it: no handshake, wherever it was cut off, leaves a lamp, a
\* record or a memory from which the next ones cannot get to the end.
EndsUpPaired == <>[](lamp.reg # NoKey /\ lamp.reg \in {store.key, AppKey})
=============================================================================
