--------------------------- MODULE Pairing_proofs ---------------------------
(***************************************************************************)
(* Theorems about Pairing, for any parts, any number of faults and any      *)
(* number of restarts.                                                     *)
(*                                                                         *)
(* The handshake is safe because of what holds at each of its steps: until  *)
(* REGISTER_END the lamp is not registered here, so the record can be       *)
(* replaced; from the save on, the record is what memory holds; and the     *)
(* lamp reads an encrypted frame only if it holds the parts memory does.    *)
(***************************************************************************)
EXTENDS Pairing, TLAPS

\* The places of the handshake up to the record, and those at which memory holds the
\* nonce, and the private key, of this very attempt.
ToSave == {"probe", "authkey", "nonce", "setPublic", "keygen", "setPrivate", "info",
           "device", "save"}
NonceKnown == {"setPublic", "keygen", "setPrivate", "info", "device", "save", "register"}
PrivKnown == {"setPrivate", "info", "device", "save", "register"}

\* What memory holds: the record, or nothing that counts; the parts that the steps
\* behind it have brought; and the address, once it is known.
Memory ==
  /\ ha.have => ha.loaded /\ MemKey = store.key /\ store.key # NoKey
  /\ ha.pc \in {"refetch", "ask", "register"} => ha.have
  /\ ha.pc \in ToSave => ~ha.have
  /\ ha.loaded /\ ~ha.have => store.key = NoKey
  /\ ha.pc \in NonceKnown => ha.nonce \in Parts
  /\ ha.pc \in PrivKnown => ha.priv \in Parts

\* The address in memory is as good as the one on record, from the load of the keys on.
Addresses ==
  /\ store.key = NoKey => store.addr = 0
  /\ (ha.pc # "idle" \/ ha.loaded) /\ store.addr # 0 => ha.addr # 0

\* Who the lamp belongs to at each place, and what it has generated on this link.
LampPlaces ==
  /\ lamp.reg \in Keys => store.key = lamp.reg
  /\ ha.pc \in ToSave \union {"register"} => lamp.reg \notin Keys
  /\ lamp.reg = AppKey => lamp.mode = "PRIVATE" /\ lamp.priv = App
  /\ ha.pc = "idle" /\ lamp.reg \notin Keys => lamp.priv \notin Parts
  /\ ha.pc \in ToSave \ PrivKnown => lamp.priv \notin Parts
  /\ ha.pc \in PrivKnown /\ lamp.priv \in Parts => MemKey = Key(lamp.nonce, lamp.priv)

IInv == TypeOK /\ Memory /\ Addresses /\ LampPlaces

-----------------------------------------------------------------------------
(* Keys *)

LEMMA KeyFacts ==
  /\ NoKey \notin Keys /\ AppKey \notin Keys /\ NoKey # AppKey
  /\ \A n, p : Key(n, p).nonce = n /\ Key(n, p).priv = p
  /\ \A n, p : Key(n, p) \in Keys <=> n \in Parts /\ p \in Parts
  /\ \A k \in Keys : k = Key(k.nonce, k.priv)
BY PartsAssumption DEF NoKey, AppKey, Key, Keys

LEMMA InitIInv == Init => IInv
<1> SUFFICES ASSUME Init PROVE IInv
  OBVIOUS
<1>1. ha \in HaFields
  BY DEF Init, NewObject, HeldPart, HaFields
<1>2. store \in RecordFields
  BY DEF Init, NoRecord, RecordFields
<1>3. lamp \in LampFields
  BY DEF Init, Modes, HeldPart, LampFields
<1>4. faults \in 0..MaxFaults /\ restarts \in 0..MaxRestarts
  BY BoundsAssumption DEF Init
<1>5. Memory /\ Addresses
  BY DEF Init, Memory, Addresses, NewObject, NoRecord, ToSave, NonceKnown, PrivKnown
<1>6. LampPlaces
  BY KeyFacts, PartsAssumption DEF Init, LampPlaces, NewObject, ToSave, PrivKnown
<1> QED
  BY <1>1, <1>2, <1>3, <1>4, <1>5, <1>6 DEF IInv, TypeOK

-----------------------------------------------------------------------------
(* What the vocabulary of the steps does. *)

\* Whatever a lamp is registered under, it is the parts of that key.
LEMMA RegisteredParts ==
  ASSUME lamp \in LampFields
  PROVE  /\ lamp.reg.nonce \in HeldPart \union {App}
         /\ lamp.reg.priv \in HeldPart \union {App}
         /\ lamp.reg \notin Keys => lamp.reg.priv \notin Parts
         /\ lamp.reg = AppKey => lamp.reg.priv = App
BY PartsAssumption DEF LampFields, HeldPart, Keys, NoKey, AppKey, Key

\* A link that ends takes with it what was negotiated on it.
LEMMA UnlinkedEffect ==
  ASSUME lamp \in LampFields
  PROVE  /\ Unlinked(lamp) \in LampFields
         /\ Unlinked(lamp).reg = lamp.reg
         /\ Unlinked(lamp).nonce = lamp.reg.nonce
         /\ Unlinked(lamp).priv = lamp.reg.priv
         /\ lamp.reg = AppKey => Unlinked(lamp).mode = "PRIVATE"
BY RegisteredParts, KeyFacts DEF LampFields, Unlinked, Modes

\* The budget of losses is never overdrawn.
LEMMA FaultEffect ==
  ASSUME faults \in 0..MaxFaults, Fault \/ UNCHANGED faults
  PROVE  faults' \in 0..MaxFaults
BY BoundsAssumption DEF Fault

\* What a lamp that reads a command may have become. It registers itself only under the
\* key in memory, and a lamp of the app reads nothing that changes it.
LEMMA ActsEffect ==
  ASSUME IInv, ha.pc \in Steps, Reads(ha.pc), NEW l \in Acts(ha.pc)
  PROVE  /\ l \in LampFields
         /\ IF ha.pc = "register" THEN l.reg = MemKey /\ l.reg \in Keys
            ELSE l.reg = lamp.reg
         /\ l.reg = AppKey => l.mode = "PRIVATE" /\ l.priv = App
         /\ ha.pc # "keygen" => l.priv = lamp.priv
         /\ ha.pc = "keygen" => l.priv \in Parts /\ l.nonce = ha.nonce
         /\ ha.pc = "nonce" => l.nonce \in Parts
         /\ ha.pc # "nonce" => l.nonce = lamp.nonce
<1> lamp \in LampFields /\ ha \in HaFields /\ store \in RecordFields
  BY DEF IInv, TypeOK
<1>1. CASE ha.pc = "nonce"
  <2>1. PICK p \in Parts : l = [lamp EXCEPT !.nonce = p]
    BY <1>1 DEF Acts
  <2>2. lamp.mode = "NONE"
    BY <1>1 DEF Reads, Encryption
  <2> QED
    BY <1>1, <2>1, <2>2 DEF LampFields, HeldPart, IInv, LampPlaces
<1>2. CASE ha.pc = "keygen"
  <2>1. PICK p \in Parts : l = [lamp EXCEPT !.priv = p]
    BY <1>2 DEF Acts
  <2>2. lamp.mode = "PUBLIC" /\ lamp.nonce = ha.nonce
    BY <1>2 DEF Reads, Encryption
  <2> QED
    BY <1>2, <2>1, <2>2 DEF LampFields, HeldPart, IInv, LampPlaces
<1>3. CASE ha.pc \in {"setPublic", "setPrivate"}
  <2>1. PICK m \in Modes : l = [lamp EXCEPT !.mode = m]
    BY <1>3 DEF Acts, Modes
  <2>2. lamp.mode # "PRIVATE"
    BY <1>3 DEF Reads, Encryption
  <2> QED
    BY <1>3, <2>1, <2>2 DEF LampFields, IInv, LampPlaces
<1>4. CASE ha.pc = "register"
  <2>1. l = [lamp EXCEPT !.reg = Key(lamp.nonce, lamp.priv)]
    BY <1>4 DEF Acts
  <2>2. lamp.mode = "PRIVATE" /\ lamp.nonce = ha.nonce /\ lamp.priv = ha.priv
    BY <1>4 DEF Reads, Encryption
  <2>3. MemKey \in Keys /\ MemKey = Key(lamp.nonce, lamp.priv)
    BY <1>4, <2>2, KeyFacts DEF IInv, Memory, NonceKnown, PrivKnown, MemKey
  <2> QED
    BY <1>4, <2>1, <2>2, <2>3, KeyFacts DEF LampFields
<1>5. CASE ha.pc \in {"probe", "authkey", "info", "device"}
  <2>1. l = lamp
    BY <1>5 DEF Acts
  <2> QED
    BY <1>5, <2>1 DEF IInv, LampPlaces
<1> QED
  BY <1>1, <1>2, <1>3, <1>4, <1>5 DEF Steps

-----------------------------------------------------------------------------
(* One lemma per action: it preserves the invariant. *)

LEMMA AnsweredStep ==
  ASSUME IInv, Answered
  PROVE  IInv'
<1> ha \in HaFields /\ lamp \in LampFields /\ store \in RecordFields
  BY DEF IInv, TypeOK
<1>1. ha.pc \in Steps /\ Reads(ha.pc) /\ UNCHANGED <<store, faults, restarts>>
  BY DEF Answered
<1>2. PICK l \in Acts(ha.pc), reported \in {0, lamp.addr} :
        lamp' = l /\ ha' = [Learned(ha.pc, l, reported) EXCEPT !.pc = After(ha.pc)]
  BY DEF Answered
<1>3. /\ l \in LampFields
      /\ IF ha.pc = "register" THEN l.reg = MemKey /\ l.reg \in Keys
         ELSE l.reg = lamp.reg
      /\ l.reg = AppKey => l.mode = "PRIVATE" /\ l.priv = App
      /\ ha.pc # "keygen" => l.priv = lamp.priv
      /\ ha.pc = "keygen" => l.priv \in Parts /\ l.nonce = ha.nonce
      /\ ha.pc = "nonce" => l.nonce \in Parts
      /\ ha.pc # "nonce" => l.nonce = lamp.nonce
  BY <1>1, <1>2, ActsEffect
<1>4. /\ ha'.pc = After(ha.pc) /\ ha'.have = ha.have /\ ha'.loaded = ha.loaded
      /\ ha'.nonce = IF ha.pc = "nonce" THEN l.nonce ELSE ha.nonce
      /\ ha'.priv = IF ha.pc = "keygen" THEN l.priv ELSE ha.priv
      /\ ha.addr # 0 => ha'.addr # 0
      /\ ha' \in HaFields
  <2>1. Learned(ha.pc, l, reported) \in HaFields
    BY <1>2, <1>3 DEF Learned, Address, HaFields, HeldPart, LampFields
  <2>2. After(ha.pc) \in Steps \union {"save", "reconnect"}
    BY <1>1 DEF After, Steps
  <2> QED
    BY <1>2, <2>1, <2>2 DEF Learned, Address, HaFields
<1>5. TypeOK'
  BY <1>1, <1>2, <1>3, <1>4 DEF IInv, TypeOK
<1>6. Memory'
  BY <1>1, <1>3, <1>4 DEF IInv, Memory, After, Steps, MemKey, ToSave, NonceKnown, PrivKnown
<1>7. Addresses'
  BY <1>1, <1>4 DEF IInv, Addresses, Steps
<1>8. LampPlaces'
  <2>1. lamp' = l
    BY <1>2
  <2>2. l.reg \in Keys => store'.key = l.reg
    BY <1>1, <1>3 DEF IInv, Memory, LampPlaces
  <2>3. ha'.pc \in ToSave \union {"register"} => l.reg \notin Keys
    BY <1>1, <1>3, <1>4 DEF IInv, LampPlaces, After, Steps, ToSave
  <2>4. ha'.pc \in ToSave \ PrivKnown => l.priv \notin Parts
    BY <1>1, <1>3, <1>4 DEF IInv, LampPlaces, After, Steps, ToSave, PrivKnown
  <2>5. ha'.pc \in PrivKnown /\ l.priv \in Parts => Key(ha'.nonce, ha'.priv) = Key(l.nonce, l.priv)
    BY <1>1, <1>3, <1>4, KeyFacts
    DEF IInv, LampPlaces, After, Steps, ToSave, PrivKnown, MemKey
  <2> ha'.pc # "idle"
    BY <1>1, <1>4 DEF After, Steps
  <2> QED
    BY <2>1, <2>2, <2>3, <2>4, <2>5, <1>3 DEF LampPlaces, MemKey
<1> QED
  BY <1>5, <1>6, <1>7, <1>8 DEF IInv

LEMMA UnansweredStep ==
  ASSUME IInv, Unanswered
  PROVE  IInv'
<1> ha \in HaFields /\ lamp \in LampFields /\ store \in RecordFields
  BY DEF IInv, TypeOK
<1>1. ha.pc \in Steps /\ UNCHANGED <<store, restarts>> /\ (Fault \/ UNCHANGED faults)
  BY DEF Unanswered, Fails
<1>2. ha' = [ha EXCEPT !.pc = IF NeedsAnswer(ha.pc) THEN "failed" ELSE After(ha.pc)]
  BY DEF Unanswered
<1>3. /\ lamp' \in LampFields
      /\ ha.pc # "register" => lamp'.reg = lamp.reg
      /\ ha.pc = "register" => lamp'.reg = MemKey \/ lamp'.reg = lamp.reg
      /\ lamp'.reg = AppKey => lamp'.mode = "PRIVATE" /\ lamp'.priv = App
      /\ ha.pc # "keygen" => lamp'.priv = lamp.priv
      /\ ha.pc # "nonce" => lamp'.nonce = lamp.nonce \/ ha.pc = "keygen"
  <2>1. CASE lamp' = lamp
    BY <2>1 DEF IInv, LampPlaces
  <2>2. CASE Reads(ha.pc) /\ lamp' \in Acts(ha.pc)
    BY <1>1, <2>2, ActsEffect
  <2> QED
    BY <2>1, <2>2 DEF Unanswered
<1>4. /\ ha' \in HaFields
      /\ ha'.have = ha.have /\ ha'.loaded = ha.loaded /\ ha'.addr = ha.addr
      /\ ha'.nonce = ha.nonce /\ ha'.priv = ha.priv
      /\ ha'.pc = IF NeedsAnswer(ha.pc) THEN "failed" ELSE After(ha.pc)
  BY <1>1, <1>2 DEF HaFields, After, Steps, NeedsAnswer
<1>5. TypeOK'
  BY <1>1, <1>3, <1>4, FaultEffect DEF IInv, TypeOK
<1>6. Memory'
  BY <1>1, <1>4
  DEF IInv, Memory, After, Steps, NeedsAnswer, MemKey, ToSave, NonceKnown, PrivKnown
<1>7. Addresses'
  BY <1>1, <1>4 DEF IInv, Addresses, Steps
<1>8. LampPlaces'
  <2>1. lamp'.reg \in Keys => store'.key = lamp'.reg
    BY <1>1, <1>3 DEF IInv, Memory, LampPlaces
  <2>2. ha'.pc \in ToSave \union {"register"} => lamp'.reg \notin Keys
    BY <1>1, <1>3, <1>4 DEF IInv, LampPlaces, After, NeedsAnswer, Steps, ToSave
  <2>3. ha'.pc \in ToSave \ PrivKnown => lamp'.priv \notin Parts
    BY <1>1, <1>3, <1>4 DEF IInv, LampPlaces, After, NeedsAnswer, Steps, ToSave, PrivKnown
  <2>4. ha'.pc \in PrivKnown /\ lamp'.priv \in Parts => MemKey' = Key(lamp'.nonce, lamp'.priv)
    BY <1>1, <1>3, <1>4 DEF IInv, LampPlaces, After, NeedsAnswer, Steps, ToSave, PrivKnown, MemKey
  <2> ha'.pc # "idle"
    BY <1>1, <1>4 DEF After, Steps
  <2> QED
    BY <2>1, <2>2, <2>3, <2>4, <1>3 DEF LampPlaces
<1> QED
  BY <1>5, <1>6, <1>7, <1>8 DEF IInv

\* A handshake that breaks off leaves memory as it is.
LEMMA BreakOff ==
  ASSUME IInv, ha.pc # "idle", ha' = [ha EXCEPT !.pc = "failed"],
         Fault \/ UNCHANGED faults, UNCHANGED <<store, lamp, restarts>>
  PROVE  IInv'
<1> ha \in HaFields /\ lamp \in LampFields /\ store \in RecordFields
  BY DEF IInv, TypeOK
<1>1. ha' \in HaFields /\ ha'.pc = "failed"
  BY DEF HaFields
<1>2. TypeOK'
  BY <1>1, FaultEffect DEF IInv, TypeOK
<1>3. Memory' /\ Addresses' /\ LampPlaces'
  BY <1>1 DEF IInv, Memory, Addresses, LampPlaces, HaFields, Steps, ToSave, NonceKnown,
     PrivKnown, MemKey
<1> QED
  BY <1>2, <1>3 DEF IInv

LEMMA ProbeRefusedStep == IInv /\ ProbeRefused => IInv'
BY BreakOff DEF ProbeRefused

LEMMA WriteFailsStep == IInv /\ WriteFails => IInv'
BY BreakOff DEF WriteFails, Steps

LEMMA AskFailsStep == IInv /\ AskFails => IInv'
BY BreakOff DEF AskFails, Fails

LEMMA SaveKeysStep ==
  ASSUME IInv, SaveKeys
  PROVE  IInv'
<1> ha \in HaFields /\ lamp \in LampFields /\ store \in RecordFields
  BY DEF IInv, TypeOK
<1>1. /\ ha.pc = "save" /\ UNCHANGED <<lamp, faults, restarts>>
      /\ store' = [key |-> MemKey, addr |-> ha.addr]
      /\ ha' = [ha EXCEPT !.pc = "register", !.have = TRUE, !.loaded = TRUE]
  BY DEF SaveKeys, Record, After
<1>2. MemKey \in Keys
  BY <1>1, KeyFacts DEF IInv, Memory, NonceKnown, PrivKnown, MemKey
<1>3. ha' \in HaFields /\ store' \in RecordFields
  BY <1>1, <1>2 DEF HaFields, RecordFields, Steps
<1>4. TypeOK'
  BY <1>1, <1>3 DEF IInv, TypeOK
<1>5. Memory' /\ Addresses'
  BY <1>1, <1>2, KeyFacts DEF IInv, Memory, Addresses, HaFields, ToSave, NonceKnown,
     PrivKnown, MemKey
<1>6. LampPlaces'
  BY <1>1 DEF IInv, LampPlaces, HaFields, ToSave, PrivKnown, MemKey
<1> QED
  BY <1>4, <1>5, <1>6 DEF IInv

LEMMA ConnectStep ==
  ASSUME IInv, Connect
  PROVE  IInv'
<1> ha \in HaFields /\ lamp \in LampFields /\ store \in RecordFields
  BY DEF IInv, TypeOK
<1> DEFINE mem == IF ha.loaded THEN ha
                  ELSE IF store.key = NoKey THEN [ha EXCEPT !.loaded = TRUE]
                  ELSE [ha EXCEPT !.loaded = TRUE, !.have = TRUE, !.addr = store.addr,
                                  !.nonce = store.key.nonce, !.priv = store.key.priv]
<1>1. /\ ha.pc = "idle" /\ UNCHANGED <<store, faults, restarts>>
      /\ ha' = [mem EXCEPT !.pc = IF mem.have THEN "refetch" ELSE "probe"]
      /\ lamp' = [lamp EXCEPT !.link = TRUE]
  BY DEF Connect
<1>2. store.key # NoKey =>
        /\ store.key.nonce \in Parts /\ store.key.priv \in Parts
        /\ store.key = Key(store.key.nonce, store.key.priv)
  BY KeyFacts DEF RecordFields, Keys
<1>3. /\ mem \in HaFields /\ mem.loaded
      /\ mem.have => Key(mem.nonce, mem.priv) = store.key /\ store.key # NoKey
      /\ ~mem.have => store.key = NoKey
      /\ store.addr # 0 => mem.addr # 0
  <2>1. CASE ha.loaded
    BY <1>1, <2>1 DEF IInv, Memory, Addresses, MemKey
  <2>2. CASE ~ha.loaded /\ store.key = NoKey
    BY <1>1, <2>2 DEF IInv, Memory, Addresses, HaFields
  <2>3. CASE ~ha.loaded /\ store.key # NoKey
    BY <1>1, <1>2, <2>3 DEF HaFields, RecordFields, HeldPart
  <2> QED
    BY <2>1, <2>2, <2>3
<1> HIDE DEF mem
<1>4. /\ ha' \in HaFields /\ ha'.pc = (IF mem.have THEN "refetch" ELSE "probe")
      /\ ha'.have = mem.have /\ ha'.loaded /\ ha'.addr = mem.addr
      /\ ha'.nonce = mem.nonce /\ ha'.priv = mem.priv
  BY <1>1, <1>3 DEF HaFields, Steps
<1>5. lamp' \in LampFields /\ lamp'.reg = lamp.reg /\ lamp'.mode = lamp.mode
      /\ lamp'.nonce = lamp.nonce /\ lamp'.priv = lamp.priv
  BY <1>1 DEF LampFields
<1>6. TypeOK'
  BY <1>1, <1>4, <1>5 DEF IInv, TypeOK
<1>7. Memory' /\ Addresses'
  BY <1>1, <1>3, <1>4 DEF IInv, Memory, Addresses, ToSave, NonceKnown, PrivKnown, MemKey
<1>8. LampPlaces'
  BY <1>1, <1>3, <1>4, <1>5, KeyFacts DEF IInv, LampPlaces, ToSave, PrivKnown, MemKey
<1> QED
  BY <1>6, <1>7, <1>8 DEF IInv

\* What is stored beside the keys leaves the record under the key it had.
LEMMA FetchEffect ==
  ASSUME IInv, FetchModuleInfo
  PROVE  /\ store'.key = store.key /\ UNCHANGED <<lamp, faults, restarts>>
         /\ store' \in RecordFields /\ ha' \in HaFields
         /\ ha.pc = "refetch" /\ ha'.pc = "ask" /\ ha'.have /\ ha'.loaded
         /\ ha'.nonce = ha.nonce /\ ha'.priv = ha.priv
         /\ store.addr # 0 => store'.addr # 0
         /\ store'.addr # 0 => ha'.addr # 0
         /\ store'.key = NoKey => store'.addr = 0
<1> ha \in HaFields /\ lamp \in LampFields /\ store \in RecordFields
  BY DEF IInv, TypeOK
<1>1. /\ ha.pc = "refetch" /\ ha.have /\ ha.loaded /\ MemKey = store.key
      /\ store.key # NoKey
      /\ store.addr # 0 => ha.addr # 0
  BY DEF FetchModuleInfo, IInv, Memory, Addresses
<1>2. CASE ha' = [ha EXCEPT !.pc = "ask"] /\ UNCHANGED store
  BY <1>1, <1>2 DEF FetchModuleInfo, HaFields
<1>3. CASE \E reported \in {0, lamp.addr} :
             /\ ha' = [ha EXCEPT !.addr = Address(reported), !.pc = "ask"]
             /\ store' = [key |-> MemKey, addr |-> Address(reported)]
  <2>1. PICK reported \in {0, lamp.addr} :
          /\ ha' = [ha EXCEPT !.addr = Address(reported), !.pc = "ask"]
          /\ store' = [key |-> MemKey, addr |-> Address(reported)]
    BY <1>3
  <2>2. Address(reported) \in {0, 1} /\ (ha.addr # 0 => Address(reported) # 0)
    BY <2>1 DEF Address, LampFields, HaFields
  <2> QED
    BY <1>1, <2>1, <2>2 DEF FetchModuleInfo, HaFields, RecordFields
<1> QED
  BY <1>2, <1>3 DEF FetchModuleInfo

LEMMA FetchModuleInfoStep == IInv /\ FetchModuleInfo => IInv'
<1> SUFFICES ASSUME IInv, FetchModuleInfo PROVE IInv'
  OBVIOUS
<1> QED
  BY FetchEffect DEF IInv, TypeOK, Memory, Addresses, LampPlaces, MemKey, ToSave, NonceKnown,
     PrivKnown

LEMMA KeysRejectedStep ==
  ASSUME IInv, KeysRejected
  PROVE  IInv'
<1> ha \in HaFields /\ lamp \in LampFields /\ store \in RecordFields
  BY DEF IInv, TypeOK
<1>1. /\ ha.pc = "ask" /\ lamp.reg # MemKey /\ UNCHANGED <<store, faults, restarts>>
      /\ ha' = [ha EXCEPT !.nonce = Zero, !.priv = Zero, !.have = FALSE,
                          !.loaded = FALSE, !.pc = "probe"]
      /\ lamp' = [Unlinked(lamp) EXCEPT !.link = TRUE]
  BY DEF KeysRejected, Repair, Forgotten
<1>2. lamp.reg \notin Keys
  BY <1>1 DEF IInv, Memory, LampPlaces
<1>3. /\ lamp' \in LampFields /\ lamp'.reg = lamp.reg
      /\ lamp'.priv = lamp.reg.priv
      /\ lamp.reg = AppKey => lamp'.mode = "PRIVATE"
  BY <1>1, UnlinkedEffect DEF LampFields
<1>4. ha' \in HaFields
  BY <1>1 DEF HaFields, HeldPart, Steps
<1>5. TypeOK'
  BY <1>1, <1>3, <1>4 DEF IInv, TypeOK
<1>6. Memory' /\ Addresses'
  BY <1>1 DEF IInv, Memory, Addresses, HaFields, ToSave, NonceKnown, PrivKnown, MemKey
<1>7. LampPlaces'
  BY <1>1, <1>2, <1>3, RegisteredParts DEF IInv, LampPlaces, HaFields, ToSave, PrivKnown
<1> QED
  BY <1>5, <1>6, <1>7 DEF IInv

\* A session, a failure or a handshake over: back to idle, the link given up.
LEMMA BackToIdle ==
  ASSUME IInv, ha.pc \notin ToSave, ha.pc # "idle", ha' = [ha EXCEPT !.pc = "idle"],
         lamp' = Unlinked(lamp), UNCHANGED <<store, faults, restarts>>
  PROVE  IInv'
<1> ha \in HaFields /\ lamp \in LampFields /\ store \in RecordFields
  BY DEF IInv, TypeOK
<1>1. /\ ha' \in HaFields /\ ha'.pc = "idle" /\ ha'.have = ha.have
      /\ ha'.loaded = ha.loaded /\ ha'.nonce = ha.nonce /\ ha'.priv = ha.priv
      /\ ha'.addr = ha.addr
  BY DEF HaFields
<1>2. TypeOK'
  BY <1>1, UnlinkedEffect DEF IInv, TypeOK
<1>3. Memory' /\ Addresses'
  BY <1>1 DEF IInv, Memory, Addresses, ToSave, NonceKnown, PrivKnown, MemKey
<1>4. LampPlaces'
  BY <1>1, UnlinkedEffect, RegisteredParts DEF IInv, LampPlaces, ToSave, PrivKnown
<1> QED
  BY <1>2, <1>3, <1>4 DEF IInv

LEMMA SessionStep == IInv /\ Session => IInv'
BY BackToIdle DEF Session, ToSave

LEMMA DisconnectStep == IInv /\ Disconnect => IInv'
BY BackToIdle DEF Disconnect, ToSave

LEMMA RestartStep ==
  ASSUME IInv, Restart
  PROVE  IInv'
<1> ha \in HaFields /\ lamp \in LampFields /\ store \in RecordFields
  BY DEF IInv, TypeOK
<1>1. /\ ha' = NewObject /\ lamp' = Unlinked(lamp) /\ UNCHANGED <<store, faults>>
      /\ restarts' \in 0..MaxRestarts
  BY BoundsAssumption DEF Restart, IInv, TypeOK
<1>2. TypeOK'
  BY <1>1, UnlinkedEffect DEF IInv, TypeOK, NewObject, HaFields, HeldPart
<1>3. Memory' /\ Addresses'
  BY <1>1 DEF IInv, Memory, Addresses, NewObject, ToSave, NonceKnown, PrivKnown
<1>4. LampPlaces'
  BY <1>1, UnlinkedEffect, RegisteredParts
  DEF IInv, LampPlaces, NewObject, ToSave, PrivKnown
<1> QED
  BY <1>2, <1>3, <1>4 DEF IInv

LEMMA LinkDropsStep ==
  ASSUME IInv, LinkDrops
  PROVE  IInv'
<1> ha \in HaFields /\ lamp \in LampFields /\ store \in RecordFields
  BY DEF IInv, TypeOK
<1>1. lamp' = Unlinked(lamp) /\ UNCHANGED <<ha, store, restarts>> /\ Fault
  BY DEF LinkDrops
<1>2. TypeOK'
  BY <1>1, UnlinkedEffect, FaultEffect DEF IInv, TypeOK
<1>3. Memory' /\ Addresses'
  BY <1>1 DEF IInv, Memory, Addresses, MemKey
<1>4. LampPlaces'
  BY <1>1, UnlinkedEffect, RegisteredParts DEF IInv, LampPlaces, ToSave, PrivKnown
<1> QED
  BY <1>2, <1>3, <1>4 DEF IInv

LEMMA FactoryResetStep ==
  ASSUME IInv, FactoryReset
  PROVE  IInv'
<1> ha \in HaFields /\ lamp \in LampFields /\ store \in RecordFields
  BY DEF IInv, TypeOK
<1>1. /\ UNCHANGED <<ha, store, restarts>> /\ Fault
      /\ lamp' = [lamp EXCEPT !.reg = NoKey, !.mode = "NONE", !.nonce = Zero, !.priv = Zero]
  BY DEF FactoryReset
<1>2. /\ lamp' \in LampFields /\ lamp'.reg = NoKey /\ lamp'.priv = Zero
  BY <1>1 DEF LampFields, HeldPart, Modes
<1>3. TypeOK'
  BY <1>1, <1>2, FaultEffect DEF IInv, TypeOK
<1>4. Memory' /\ Addresses' /\ LampPlaces'
  BY <1>1, <1>2, KeyFacts, PartsAssumption DEF IInv, Memory, Addresses, LampPlaces, MemKey
<1> QED
  BY <1>3, <1>4 DEF IInv

LEMMA AppPairsStep ==
  ASSUME IInv, AppPairs
  PROVE  IInv'
<1> ha \in HaFields /\ lamp \in LampFields /\ store \in RecordFields
  BY DEF IInv, TypeOK
<1>1. /\ UNCHANGED <<ha, store, restarts>> /\ Fault
      /\ lamp' = Unlinked([lamp EXCEPT !.reg = AppKey])
  BY DEF AppPairs
<1>2. /\ lamp' \in LampFields /\ lamp'.reg = AppKey /\ lamp'.priv = App
      /\ lamp'.mode = "PRIVATE"
  <2>1. AppKey.nonce = App /\ AppKey.priv = App /\ AppKey # NoKey
    BY KeyFacts DEF AppKey
  <2>2. [lamp EXCEPT !.reg = AppKey] \in LampFields
    BY DEF LampFields
  <2> QED
    BY <1>1, <2>1, <2>2 DEF LampFields, Unlinked, Modes
<1>3. TypeOK'
  BY <1>1, <1>2, FaultEffect DEF IInv, TypeOK
<1>4. Memory' /\ Addresses' /\ LampPlaces'
  BY <1>1, <1>2, KeyFacts, PartsAssumption DEF IInv, Memory, Addresses, LampPlaces, MemKey
<1> QED
  BY <1>3, <1>4 DEF IInv

LEMMA StepIInv == IInv /\ [Next]_vars => IInv'
<1> SUFFICES ASSUME IInv, [Next]_vars PROVE IInv'
  OBVIOUS
<1>1. CASE Command
  BY <1>1, ConnectStep, AnsweredStep, UnansweredStep, ProbeRefusedStep, WriteFailsStep,
     SaveKeysStep, FetchModuleInfoStep, KeysRejectedStep, SessionStep, AskFailsStep, DisconnectStep DEF Command
<1>2. CASE Restart \/ LinkDrops \/ FactoryReset \/ AppPairs
  BY <1>2, RestartStep, LinkDropsStep, FactoryResetStep, AppPairsStep
<1>3. CASE UNCHANGED vars
  BY <1>3 DEF vars, IInv, TypeOK, Memory, Addresses, LampPlaces, MemKey
<1> QED
  BY <1>1, <1>2, <1>3 DEF Next

LEMMA Invariance == Spec => []IInv
BY InitIInv, StepIInv, PTL DEF Spec

-----------------------------------------------------------------------------
(* Theorems *)

\* Whatever the parts and the bounds, what is on record is a whole key or none.
THEOREM TypeCorrect == Spec => []TypeOK
BY Invariance, PTL DEF IInv

\* A lamp registered to Home Assistant is registered under the key on record, wherever
\* the handshake was cut off.
THEOREM RegistrationSafety == Spec => []RegisteredIsRecorded
<1>1. IInv => RegisteredIsRecorded
  BY DEF IInv, LampPlaces, RegisteredIsRecorded
<1> QED
  BY <1>1, Invariance, PTL

\* An address on record is never replaced by none.
THEOREM AddressSafety == Spec => AddressKept
<1>1. ASSUME IInv, [Next]_vars
      PROVE  store.addr # 0 => store'.addr # 0
  <2>1. CASE SaveKeys
    BY <1>1, <2>1 DEF SaveKeys, Record, IInv, Addresses
  <2>2. CASE UNCHANGED store
    BY <2>2
  <2>3. CASE FetchModuleInfo
    BY <1>1, <2>3, FetchEffect
  <2> QED
    BY <1>1, <2>1, <2>2, <2>3 DEF Next, Command, Connect, Answered, Unanswered, ProbeRefused,
       WriteFails, KeysRejected, Session, AskFails, Disconnect, Restart, LinkDrops,
       FactoryReset, AppPairs, vars
<1> QED
  BY <1>1, Invariance, PTL DEF Spec, AddressKept

\* The key that goes on record is the one the lamp has generated on this link.
THEOREM RecordIsGenerated == Spec => RecordAsGenerated
<1>1. ASSUME IInv, [Next]_vars
      PROVE  store'.key # store.key /\ lamp.priv \in Parts
               => store'.key = Key(lamp.nonce, lamp.priv)
  <2>1. CASE SaveKeys
    BY <1>1, <2>1 DEF SaveKeys, Record, IInv, LampPlaces, PrivKnown
  <2>2. CASE UNCHANGED store
    BY <2>2
  <2>3. CASE FetchModuleInfo
    BY <1>1, <2>3, FetchEffect
  <2> QED
    BY <1>1, <2>1, <2>2, <2>3 DEF Next, Command, Connect, Answered, Unanswered, ProbeRefused,
       WriteFails, KeysRejected, Session, AskFails, Disconnect, Restart, LinkDrops,
       FactoryReset, AppPairs, vars
<1> QED
  BY <1>1, Invariance, PTL DEF Spec, RecordAsGenerated

-----------------------------------------------------------------------------
(* The handshake implements Ownership. *)

LEMMA OwnedInit == Init => Owned!Init
BY DEF Init, Owned!Init, NoRecord

\* Of all the steps only the save writes, and only REGISTER_END registers.
LEMMA OwnedStep == IInv /\ [Next]_vars => [Owned!Next]_<<lamp.reg, store.key, FALSE>>
<1> SUFFICES ASSUME IInv, [Next]_vars
             PROVE  [Owned!Next]_<<lamp.reg, store.key, FALSE>>
  OBVIOUS
<1> lamp \in LampFields /\ ha \in HaFields /\ store \in RecordFields
  BY DEF IInv, TypeOK
<1> DEFINE Stutters == UNCHANGED <<lamp.reg, store.key, FALSE>>
<1>1. ASSUME ha.pc \in Steps, Reads(ha.pc), lamp' \in Acts(ha.pc), UNCHANGED store
      PROVE  Owned!Register \/ Stutters
  <2>1. CASE ha.pc = "register"
    <3>1. lamp'.reg = MemKey /\ lamp'.reg \in Keys /\ store.key = MemKey
      BY <1>1, <2>1, ActsEffect DEF IInv, Memory
    <3>2. lamp.reg = NoKey
      <4>1. lamp.priv = ha.priv /\ ha.priv \in Parts
        BY <1>1, <2>1 DEF Reads, Encryption, IInv, Memory, PrivKnown
      <4> QED
        BY <2>1, <4>1, PartsAssumption DEF IInv, LampPlaces, LampFields
    <3> QED
      BY <1>1, <3>1, <3>2 DEF Owned!Register
  <2>2. CASE ha.pc # "register"
    BY <1>1, <2>2, ActsEffect
  <2> QED
    BY <2>1, <2>2
<1>2. CASE Answered
  BY <1>1, <1>2 DEF Answered, Owned!Next
<1>3. CASE Unanswered
  BY <1>1, <1>3 DEF Unanswered, Owned!Next
<1>4. CASE SaveKeys
  <2>1. store'.key = MemKey /\ MemKey \in Keys /\ UNCHANGED lamp
    BY <1>4, KeyFacts
    DEF SaveKeys, Record, IInv, Memory, NonceKnown, PrivKnown, MemKey
  <2>2. lamp.reg \notin Keys
    BY <1>4 DEF SaveKeys, IInv, LampPlaces, ToSave
  <2> QED
    BY <2>1, <2>2 DEF Owned!Write, Owned!Ours, Owned!Next
<1>5. CASE FactoryReset
  <2>1. lamp'.reg = NoKey /\ UNCHANGED store
    BY <1>5 DEF FactoryReset, LampFields
  <2> QED
    BY <2>1 DEF Owned!LetGo, Owned!Next
<1>6. CASE AppPairs
  <2>1. lamp.reg = NoKey /\ lamp'.reg = AppKey /\ UNCHANGED store
    BY <1>6 DEF AppPairs, Unlinked, LampFields
  <2> QED
    BY <2>1 DEF Owned!AppTakes, Owned!Next
<1>7. CASE Connect \/ KeysRejected \/ Session \/ Disconnect \/ Restart \/ LinkDrops
  <2>1. UNCHANGED store /\ lamp'.reg = lamp.reg
    BY <1>7, UnlinkedEffect
    DEF Connect, KeysRejected, Session, Disconnect, Restart, LinkDrops, LampFields
  <2> QED
    BY <2>1
<1>8. CASE ProbeRefused \/ WriteFails \/ AskFails \/ UNCHANGED vars
  BY <1>8 DEF ProbeRefused, WriteFails, AskFails, vars
<1>9. CASE FetchModuleInfo
  BY <1>9, FetchEffect
<1> QED
  BY <1>2, <1>3, <1>4, <1>5, <1>6, <1>7, <1>8, <1>9 DEF Next, Command

\* Seen from the lamp's registration and the record, every step of the handshake, every
\* loss and every restart is a step of Ownership or a stutter.
THEOREM Implementation == Spec => ImplementsOwnership
BY OwnedInit, OwnedStep, Invariance, PTL DEF Spec, ImplementsOwnership, Owned!Spec, Owned!vars

-----------------------------------------------------------------------------
(* The handshake comes to its end: the half of EndsUpPaired that is safety. *)

\* How many places of the code are still ahead, at most: a session that is refused leads
\* to a handshake, and a handshake to no further one.
Ahead(pc) ==
  CASE pc = "refetch"    -> 14
    [] pc = "ask"        -> 13 [] pc = "probe"     -> 12 [] pc = "authkey" -> 11
    [] pc = "nonce"      -> 10 [] pc = "setPublic" -> 9  [] pc = "keygen"  -> 8
    [] pc = "setPrivate" -> 7  [] pc = "info"      -> 6  [] pc = "device"  -> 5
    [] pc = "save"       -> 4  [] pc = "register"  -> 3  [] pc = "reconnect" -> 2
    [] pc = "failed"     -> 1  [] OTHER            -> 0

\* A command that is under way only ever moves on, whatever frames are lost: no lamp, and
\* no answer, keeps _pairing_handshake() or the passes around it turning.
HandshakeMovesOn ==
  [][ha.pc # "idle" /\ ha' # ha /\ restarts' = restarts
       => Ahead(ha'.pc) < Ahead(ha.pc)]_vars

\* The lamp is where the handshake takes it to be: in the mode of the next frame, with the
\* parts that memory holds; and registered under the record when the handshake is over.
InStep ==
  /\ ha.pc \in Steps => Reads(ha.pc)
  /\ ha.pc \in NonceKnown => lamp.nonce = ha.nonce
  /\ ha.pc \in PrivKnown => lamp.priv = ha.priv
  /\ ha.pc = "save" => lamp.link /\ lamp.mode = "PRIVATE"
  /\ ha.pc = "reconnect" => lamp.reg \in Keys /\ lamp.reg = store.key

\* A lamp in its NONE mode is in step with the probe, and each answer, and the save, leave
\* it in step with the next frame: a handshake whose frames are answered registers it.
AnswersLeadOn ==
  [][/\ (ha.pc = "probe" /\ lamp.link /\ lamp.mode = "NONE" => InStep)
     /\ (InStep /\ (Answered \/ SaveKeys) => InStep')]_vars

\* The step behind a step is nearer to the end, and so is a failure.
LEMMA AfterIsNearer ==
  ASSUME NEW step \in Steps
  PROVE  Ahead(After(step)) < Ahead(step) /\ Ahead("failed") < Ahead(step)
<1> USE DEF Ahead, After
<1>1. CASE step = "probe"
  BY <1>1
<1>2. CASE step = "authkey"
  BY <1>2
<1>3. CASE step = "nonce"
  BY <1>3
<1>4. CASE step = "setPublic"
  BY <1>4
<1>5. CASE step = "keygen"
  BY <1>5
<1>6. CASE step = "setPrivate"
  BY <1>6
<1>7. CASE step = "info"
  BY <1>7
<1>8. CASE step = "device"
  BY <1>8
<1>9. CASE step = "register"
  BY <1>9
<1> QED
  BY <1>1, <1>2, <1>3, <1>4, <1>5, <1>6, <1>7, <1>8, <1>9 DEF Steps

LEMMA MovesOn ==
  ASSUME IInv, [Next]_vars, ha.pc # "idle", ha' # ha, restarts' = restarts
  PROVE  Ahead(ha'.pc) < Ahead(ha.pc)
<1> ha \in HaFields
  BY DEF IInv, TypeOK
<1>1. CASE Answered
  <2>1. ha.pc \in Steps
    BY <1>1 DEF Answered
  <2>2. ha'.pc = After(ha.pc)
    BY <1>1 DEF Answered, Learned, HaFields
  <2> QED
    BY <2>1, <2>2, AfterIsNearer
<1>2. CASE Unanswered
  <2>1. ha.pc \in Steps
    BY <1>2 DEF Unanswered
  <2>2. ha'.pc = "failed" \/ ha'.pc = After(ha.pc)
    BY <1>2 DEF Unanswered, HaFields
  <2> QED
    BY <2>1, <2>2, AfterIsNearer
<1>3. CASE ProbeRefused \/ WriteFails
  <2>1. ha.pc \in Steps /\ ha'.pc = "failed"
    BY <1>3 DEF ProbeRefused, WriteFails, HaFields, Steps
  <2> QED
    BY <2>1, AfterIsNearer
<1>4. CASE SaveKeys
  <2>1. ha.pc = "save" /\ ha'.pc = "register"
    BY <1>4 DEF SaveKeys, After, HaFields
  <2> QED
    BY <2>1 DEF Ahead
<1>5. CASE KeysRejected
  <2>1. ha.pc = "ask" /\ ha'.pc = "probe"
    BY <1>5 DEF KeysRejected, Repair, Forgotten, HaFields
  <2> QED
    BY <2>1 DEF Ahead
<1>6. CASE Session
  <2>1. ha.pc = "ask" /\ ha'.pc = "idle"
    BY <1>6 DEF Session, HaFields
  <2> QED
    BY <2>1 DEF Ahead
<1>7. CASE AskFails
  <2>1. ha.pc = "ask" /\ ha'.pc = "failed"
    BY <1>7 DEF AskFails, HaFields
  <2> QED
    BY <2>1 DEF Ahead
<1>8. CASE Disconnect
  <2>1. ha.pc \in {"reconnect", "failed"} /\ ha'.pc = "idle"
    BY <1>8 DEF Disconnect, HaFields
  <2> QED
    BY <2>1 DEF Ahead
<1>9. CASE Restart
  BY <1>9 DEF Restart, IInv, TypeOK
<1>10. CASE FetchModuleInfo
  <2>1. ha.pc = "refetch" /\ ha'.pc = "ask"
    BY <1>10, FetchEffect
  <2> QED
    BY <2>1 DEF Ahead
<1> QED
  BY <1>1, <1>2, <1>3, <1>4, <1>5, <1>6, <1>7, <1>8, <1>9, <1>10
  DEF Next, Command, Connect, LinkDrops, FactoryReset, AppPairs, vars

\* Commands end, for any number of parts, losses and restarts.
THEOREM HandshakeEnds == Spec => HandshakeMovesOn
<1>1. IInv /\ [Next]_vars =>
        [ha.pc # "idle" /\ ha' # ha /\ restarts' = restarts
           => Ahead(ha'.pc) < Ahead(ha.pc)]_vars
  BY MovesOn
<1> QED
  BY <1>1, Invariance, PTL DEF Spec, HandshakeMovesOn

LEMMA AnswerLeadsOn ==
  ASSUME IInv, InStep, Answered
  PROVE  InStep'
<1> ha \in HaFields /\ lamp \in LampFields
  BY DEF IInv, TypeOK
<1>1. PICK l \in Acts(ha.pc), reported \in {0, lamp.addr} :
        /\ lamp' = l
        /\ ha' = [Learned(ha.pc, l, reported) EXCEPT !.pc = After(ha.pc)]
  BY DEF Answered
<1>2. ha.pc \in Steps /\ Reads(ha.pc) /\ store' = store
  BY DEF Answered
<1>3. lamp.link /\ lamp.mode = Encryption(ha.pc)
  BY <1>2 DEF Reads
<1>4. ha'.pc = After(ha.pc)
  BY <1>1 DEF Learned, HaFields
<1> USE DEF LampFields, HaFields
<1>5. CASE ha.pc \in {"probe", "authkey"}
  <2>1. lamp' = lamp /\ ha' = [ha EXCEPT !.pc = After(ha.pc)] /\ lamp.mode = "NONE"
    BY <1>1, <1>3, <1>5 DEF Acts, Learned, Encryption
  <2>2. ha'.pc \in {"authkey", "nonce"}
    BY <1>4, <1>5 DEF After
  <2> QED
    BY <1>3, <2>1, <2>2 DEF InStep, Reads, Encryption, NonceKnown, PrivKnown
<1>6. CASE ha.pc = "nonce"
  <2>1. PICK p \in Parts : lamp' = [lamp EXCEPT !.nonce = p]
    BY <1>1, <1>6 DEF Acts
  <2>2. ha'.nonce = lamp'.nonce /\ ha'.pc = "setPublic"
    BY <1>1, <1>6 DEF Learned, After
  <2>3. lamp'.link /\ lamp'.mode = "NONE"
    BY <1>3, <1>6, <2>1 DEF Encryption
  <2> QED
    BY <2>2, <2>3 DEF InStep, Reads, Encryption, NonceKnown, PrivKnown
<1>7. CASE ha.pc = "setPublic"
  <2>1. lamp' = [lamp EXCEPT !.mode = "PUBLIC"]
    BY <1>1, <1>7 DEF Acts
  <2>2. ha'.nonce = ha.nonce /\ ha'.pc = "keygen"
    BY <1>1, <1>7 DEF Learned, After
  <2>3. lamp.nonce = ha.nonce
    BY <1>7 DEF InStep, NonceKnown
  <2> QED
    BY <1>3, <2>1, <2>2, <2>3 DEF InStep, Reads, Encryption, NonceKnown, PrivKnown
<1>8. CASE ha.pc = "keygen"
  <2>1. PICK p \in Parts : lamp' = [lamp EXCEPT !.priv = p]
    BY <1>1, <1>8 DEF Acts
  <2>2. ha'.priv = lamp'.priv /\ ha'.nonce = ha.nonce /\ ha'.pc = "setPrivate"
    BY <1>1, <1>8 DEF Learned, After
  <2>3. lamp.nonce = ha.nonce
    BY <1>8 DEF InStep, NonceKnown
  <2>4. lamp'.link /\ lamp'.mode = "PUBLIC" /\ lamp'.nonce = ha'.nonce
    BY <1>3, <1>8, <2>1, <2>2, <2>3 DEF Encryption
  <2> QED
    BY <2>2, <2>4 DEF InStep, Reads, Encryption, NonceKnown, PrivKnown
<1>9. CASE ha.pc \in {"setPrivate", "info", "device"}
  <2>1. /\ lamp'.link /\ lamp'.mode = "PRIVATE"
        /\ lamp'.nonce = lamp.nonce /\ lamp'.priv = lamp.priv
    BY <1>1, <1>3, <1>9 DEF Acts, Encryption
  <2>2. ha'.nonce = ha.nonce /\ ha'.priv = ha.priv /\ ha'.pc \in {"info", "device", "save"}
    BY <1>1, <1>4, <1>9 DEF Learned, After
  <2>3. lamp.nonce = ha.nonce /\ lamp.priv = ha.priv
    BY <1>9 DEF InStep, NonceKnown, PrivKnown
  <2> QED
    BY <2>1, <2>2, <2>3 DEF InStep, Reads, Encryption, Steps, NonceKnown, PrivKnown
<1>10. CASE ha.pc = "register"
  <2>1. lamp'.reg = MemKey /\ lamp'.reg \in Keys /\ store.key = MemKey
    BY <1>1, <1>2, <1>10, ActsEffect DEF IInv, Memory
  <2>2. ha'.pc = "reconnect"
    BY <1>4, <1>10 DEF After
  <2> QED
    BY <1>2, <2>1, <2>2 DEF InStep, Steps, NonceKnown, PrivKnown
<1> QED
  BY <1>2, <1>5, <1>6, <1>7, <1>8, <1>9, <1>10 DEF Steps

LEMMA SaveLeadsOn ==
  ASSUME IInv, InStep, SaveKeys
  PROVE  InStep'
<1> ha \in HaFields /\ lamp \in LampFields
  BY DEF IInv, TypeOK
<1>1. ha.pc = "save" /\ lamp' = lamp
  BY DEF SaveKeys
<1>2. ha'.pc = "register" /\ ha'.nonce = ha.nonce /\ ha'.priv = ha.priv
  BY DEF SaveKeys, After, HaFields
<1>3. /\ lamp.link /\ lamp.mode = "PRIVATE"
      /\ lamp.nonce = ha.nonce /\ lamp.priv = ha.priv
  BY <1>1 DEF InStep, NonceKnown, PrivKnown
<1> QED
  BY <1>1, <1>2, <1>3 DEF InStep, Reads, Encryption

\* From a free lamp at its probe, every handshake whose frames are answered ends with the
\* lamp registered under the key on record, whatever attempts came before it.
THEOREM HandshakeRegisters == Spec => AnswersLeadOn
<1>1. ASSUME ha.pc = "probe", lamp.link, lamp.mode = "NONE"
      PROVE  InStep
  BY <1>1 DEF InStep, Reads, Encryption, NonceKnown, PrivKnown
<1>2. IInv => [/\ (ha.pc = "probe" /\ lamp.link /\ lamp.mode = "NONE" => InStep)
               /\ (InStep /\ (Answered \/ SaveKeys) => InStep')]_vars
  BY <1>1, AnswerLeadsOn, SaveLeadsOn
<1> QED
  BY <1>2, Invariance, PTL DEF AnswersLeadOn
=============================================================================
