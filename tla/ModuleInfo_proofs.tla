-------------------------- MODULE ModuleInfo_proofs --------------------------
(***************************************************************************)
(* Theorems about ModuleInfo, for any budget of reads, any firmware versions *)
(* and any number of resets and restarts.                                   *)
(*                                                                         *)
(* What makes them hold: an object that writes the record has read it        *)
(* before, and has only learned since; and an address comes into memory      *)
(* either with a budget that is untouched or with the latch set.            *)
(***************************************************************************)
EXTENDS ModuleInfo, TLAPS

Fields == {"type", "version"}

\* What an object can be is a fact of nearly every step below.
USE DEF Objects

\* An object with its record read, or on its way to replace it, knows all that is there.
Fuller ==
  conn.loaded \/ conn.pc # "idle" =>
    /\ disk.addr # 0 => conn.addr # 0
    /\ \A f \in Fields : disk.info[f] # Unknown => conn.info[f] # Unknown

\* Where the latch and the budget of an object stand.
Budget ==
  /\ conn.pc = "ask" => conn.loaded /\ ~conn.read
  /\ conn.pc = "handshake" => ~conn.loaded
  /\ conn.pc = "ask" /\ conn.addr # 0 => conn.attempts <= MaxReads
  /\ conn.pc # "ask" /\ conn.addr # 0 /\ ~conn.read => conn.attempts < MaxReads

IInv == TypeOK /\ NotOnSilence /\ Fuller /\ Budget

-----------------------------------------------------------------------------
(* What the vocabulary of the steps does. *)

LEMMA MergeEffect ==
  ASSUME NEW old \in Identity, NEW new \in Identity
  PROVE  /\ Merge(old, new) \in Identity
         /\ \A f \in Fields : old[f] # Unknown \/ new[f] # Unknown
                                => Merge(old, new)[f] # Unknown
         /\ \A f \in Fields : new[f] = Unknown => Merge(old, new)[f] = old[f]
BY DEF Merge, Identity, Fields

LEMMA NewConnEffect ==
  ASSUME NEW e \in Identity, conn' = NewConn(e)
  PROVE  /\ conn' \in Objects
         /\ conn'.pc = "idle" /\ ~conn'.loaded /\ ~conn'.read /\ conn'.attempts = 0
         /\ conn'.addr = 0
BY ReadsAssumption DEF NewConn, Identity, Nothing, Places

LEMMA AnnounceEffect ==
  ASSUME TypeOK, NEW i \in Identity, Announce(i)
  PROVE  /\ entry' \in Identity /\ reload' \in BOOLEAN
         /\ \A f \in Fields : entry[f] # Unknown => entry'[f] # Unknown
<1>1. entry' \in Identity /\ \A f \in Fields : entry[f] # Unknown => entry'[f] # Unknown
  BY MergeEffect DEF TypeOK, Announce, Updated
<1>2. reload' \in BOOLEAN
  BY DEF TypeOK, Announce
<1> QED
  BY <1>1, <1>2

LEMMA LoadedEffect ==
  ASSUME IInv, conn.pc = "idle", NEW c, c = Loaded(conn)
  PROVE  /\ c \in Objects
         /\ c.pc = "idle" /\ c.loaded
         /\ c.read = conn.read /\ c.attempts = conn.attempts /\ c.answered = conn.answered
         /\ disk.addr # 0 => c.addr # 0
         /\ \A f \in Fields : disk.info[f] # Unknown => c.info[f] # Unknown
         /\ c.addr # 0 /\ ~c.read => c.attempts < MaxReads
         /\ c.read /\ c.addr = 0 => c.answered
<1>1. CASE conn.loaded
  BY <1>1 DEF Loaded, IInv, TypeOK, Fuller, Budget, NotOnSilence
<1>2. CASE ~conn.loaded
  <2>1. ~conn.read /\ conn.attempts = 0
    BY <1>2 DEF IInv, TypeOK
  <2>2. c = [conn EXCEPT !.loaded = TRUE, !.addr = disk.addr, !.info = disk.info]
    BY <1>2 DEF Loaded
  <2>3. disk.addr \in {0, 1} /\ disk.info \in Identity
    BY DEF IInv, TypeOK, Record
  <2>4. conn \in Objects
    BY DEF IInv, TypeOK
  <2>5. c \in Objects
    BY <2>2, <2>3, <2>4
  <2>6. /\ c.pc = "idle" /\ c.loaded /\ c.read = conn.read /\ c.attempts = conn.attempts
        /\ c.answered = conn.answered /\ c.addr = disk.addr /\ c.info = disk.info
    BY <2>2, <2>4
  <2> QED
    BY <2>1, <2>5, <2>6, ReadsAssumption
<1> QED
  BY <1>1, <1>2

LEMMA ReplyTypes ==
  ASSUME TypeOK, NEW r \in Replies
  PROVE  r.addr \in {0, 1} /\ r.info \in Identity
BY DEF TypeOK, Replies, Identity

LEMMA HearsEffect ==
  ASSUME TypeOK, NEW r \in Replies, NEW c, c = Hears(conn, r)
  PROVE  /\ c \in Objects
         /\ c.loaded = conn.loaded /\ c.read = conn.read /\ c.attempts = conn.attempts
         /\ c.pc = conn.pc /\ c.answered = conn.answered
         /\ conn.addr # 0 => c.addr # 0
         /\ \A f \in Fields : conn.info[f] # Unknown => c.info[f] # Unknown
<1>1. r.addr \in {0, 1} /\ r.info \in Identity
  BY ReplyTypes
<1>2. conn.info \in Identity
  BY DEF TypeOK
<1>3. Merge(conn.info, r.info) \in Identity
      /\ \A f \in Fields : conn.info[f] # Unknown => Merge(conn.info, r.info)[f] # Unknown
  BY <1>1, <1>2, MergeEffect
<1>4. c = [conn EXCEPT !.addr = IF r.addr = 0 THEN @ ELSE r.addr,
                       !.info = Merge(@, r.info)]
  BY DEF Hears
<1> QED
  BY <1>1, <1>3, <1>4 DEF TypeOK

-----------------------------------------------------------------------------
(* The steps *)

LEMMA InitIInv == Init => IInv
<1> SUFFICES ASSUME Init PROVE IInv
  OBVIOUS
<1>1. entry \in Identity /\ disk \in Record /\ saved \in Identity
  BY DEF Init, Record, Identity, Nothing
<1>2. /\ conn \in Objects
      /\ conn.pc = "idle" /\ ~conn.loaded /\ ~conn.read /\ conn.attempts = 0
      /\ conn.addr = 0
  BY <1>1, ReadsAssumption DEF Init, NewConn, Identity, Nothing, Places
<1>3. lamp \in [addr : {0, 1}, ours : BOOLEAN, info : Identity]
  BY DEF Init, Identity
<1>4. lives \in [reset : 0..MaxResets, restart : 0..MaxRestarts]
  BY BoundsAssumption DEF Init
<1>5. reload \in BOOLEAN
  BY DEF Init
<1>6. TypeOK
  BY <1>1, <1>2, <1>3, <1>4, <1>5 DEF TypeOK
<1> QED
  BY <1>2, <1>6 DEF IInv, NotOnSilence, Fuller, Budget

\* What every step does to the record and the entry.
Kept ==
  /\ disk.addr # 0 => disk'.addr # 0
  /\ \A f \in Fields :
       /\ disk.info[f] # Unknown => disk'.info[f] # Unknown
       /\ entry[f] # Unknown /\ lives' = lives => entry'[f] # Unknown

LEMMA ConnectStep ==
  ASSUME IInv, Connect
  PROVE  IInv' /\ Kept
<1> DEFINE c == Loaded(conn)
<1>1. /\ c \in Objects
      /\ c.pc = "idle" /\ c.loaded
      /\ c.read = conn.read /\ c.attempts = conn.attempts /\ c.answered = conn.answered
      /\ disk.addr # 0 => c.addr # 0
      /\ \A f \in Fields : disk.info[f] # Unknown => c.info[f] # Unknown
      /\ c.addr # 0 /\ ~c.read => c.attempts < MaxReads
      /\ c.read /\ c.addr = 0 => c.answered
  BY LoadedEffect DEF Connect
<1>2. Announce(c.info)
  BY DEF Connect, Known
<1>3. /\ entry' \in Identity /\ reload' \in BOOLEAN
      /\ \A f \in Fields : entry[f] # Unknown => entry'[f] # Unknown
  BY <1>1, <1>2, AnnounceEffect DEF IInv
<1>4. conn' = IF Wanted(c) THEN [c EXCEPT !.pc = "ask", !.attempts = Count(@)] ELSE c
  BY DEF Connect
<1>5. UNCHANGED <<disk, saved, lamp, lives>>
  BY DEF Connect
<1> HIDE DEF c
<1>6. CASE Wanted(c)
  <2>1. conn' = [c EXCEPT !.pc = "ask", !.attempts = Count(c.attempts)] /\ ~c.read
    BY <1>1, <1>4, <1>6 DEF Wanted
  <2>2. /\ Count(c.attempts) \in 0..MaxReads + 1
        /\ c.attempts < MaxReads => Count(c.attempts) <= MaxReads
    BY <1>1, ReadsAssumption DEF Count
  <2>3. /\ conn' \in Objects
        /\ conn'.pc = "ask" /\ conn'.loaded /\ ~conn'.read
        /\ conn'.addr = c.addr /\ conn'.info = c.info
        /\ conn'.attempts = Count(c.attempts)
    BY <1>1, <2>1, <2>2 DEF Places
  <2>4. TypeOK'
    BY <1>3, <1>5, <2>3 DEF IInv, TypeOK
  <2> QED
    BY <1>1, <1>3, <1>5, <2>1, <2>2, <2>3, <2>4
    DEF IInv, NotOnSilence, Fuller, Budget, Kept
<1>7. CASE ~Wanted(c)
  <2>1. conn' = c
    BY <1>4, <1>7
  <2>2. TypeOK'
    BY <1>1, <1>3, <1>5, <2>1 DEF IInv, TypeOK
  <2> QED
    BY <1>1, <1>3, <1>5, <2>1, <2>2 DEF IInv, NotOnSilence, Fuller, Budget, Kept
<1> QED
  BY <1>6, <1>7

LEMMA SilenceStep ==
  ASSUME IInv, Silence
  PROVE  IInv' /\ Kept
<1>1. /\ conn' = [conn EXCEPT !.pc = "idle", !.read = conn.read \/ LatchUnanswered(conn)]
      /\ conn.pc = "ask"
      /\ UNCHANGED <<disk, entry, saved, reload, lamp, lives>>
  BY DEF Silence
<1>2. conn.loaded /\ ~conn.read /\ (conn.addr # 0 => conn.attempts <= MaxReads)
  BY <1>1 DEF IInv, Budget
<1>3. /\ conn'.pc = "idle" /\ conn'.loaded /\ conn'.addr = conn.addr
      /\ conn'.info = conn.info /\ conn'.attempts = conn.attempts
      /\ conn'.answered = conn.answered
      /\ conn'.read <=> LatchUnanswered(conn)
  BY <1>1, <1>2 DEF IInv, TypeOK
<1>4. TypeOK'
  BY <1>1, <1>2, <1>3 DEF IInv, TypeOK, Places
<1>5. NotOnSilence' /\ Fuller'
  BY <1>1, <1>2, <1>3 DEF IInv, NotOnSilence, Fuller, LatchUnanswered
<1>6. Budget'
  <2>1. conn.attempts \in 0..MaxReads + 1
    BY DEF IInv, TypeOK
  <2> QED
    BY <1>3, <2>1, ReadsAssumption DEF Budget, LatchUnanswered, BudgetSpent
<1> QED
  BY <1>1, <1>4, <1>5, <1>6 DEF IInv, Kept

LEMMA AnswerStep ==
  ASSUME IInv, Answer
  PROVE  IInv' /\ Kept
<1>1. PICK r \in Replies :
        LET c == Hears(conn, r)
        IN /\ Announce(c.info)
           /\ conn' = [c EXCEPT !.pc = "save", !.read = c.addr # 0 \/ BudgetSpent(c),
                                !.answered = TRUE]
  BY DEF Answer
<1> DEFINE c == Hears(conn, r)
<1>2. conn.pc = "ask" /\ conn.loaded /\ UNCHANGED <<disk, saved, lamp, lives>>
  BY DEF Answer, IInv, Budget
<1>3. /\ c \in Objects
      /\ c.loaded = conn.loaded /\ c.attempts = conn.attempts
      /\ conn.addr # 0 => c.addr # 0
      /\ \A f \in Fields : conn.info[f] # Unknown => c.info[f] # Unknown
  BY HearsEffect DEF IInv
<1>4. Announce(c.info)
      /\ conn' = [c EXCEPT !.pc = "save", !.read = c.addr # 0 \/ BudgetSpent(c),
                           !.answered = TRUE]
  BY <1>1
<1> HIDE DEF c
<1>5. /\ entry' \in Identity /\ reload' \in BOOLEAN
      /\ \A f \in Fields : entry[f] # Unknown => entry'[f] # Unknown
  BY <1>3, <1>4, AnnounceEffect DEF IInv
<1>6. /\ conn' \in Objects
      /\ conn'.pc = "save" /\ conn'.loaded /\ conn'.answered
      /\ conn'.addr = c.addr /\ conn'.info = c.info
      /\ c.addr # 0 => conn'.read
  BY <1>2, <1>3, <1>4 DEF Places, BudgetSpent
<1>7. TypeOK'
  BY <1>2, <1>5, <1>6 DEF IInv, TypeOK
<1> QED
  BY <1>2, <1>3, <1>5, <1>6, <1>7 DEF IInv, NotOnSilence, Fuller, Budget, Kept

LEMMA SaveStep ==
  ASSUME IInv, Save
  PROVE  IInv' /\ Kept
<1>1. /\ disk' = [addr |-> conn.addr, info |-> conn.info] /\ conn.pc = "save"
      /\ conn' = [conn EXCEPT !.pc = "idle", !.loaded = TRUE]
      /\ UNCHANGED <<entry, saved, reload, lives>>
  BY DEF Save
<1>2. lamp' \in [addr : {0, 1}, ours : BOOLEAN, info : Identity]
  BY DEF Save, Registered, IInv, TypeOK
<1>3. disk' \in Record
  BY <1>1 DEF IInv, TypeOK, Record
<1>4. TypeOK'
  BY <1>1, <1>2, <1>3 DEF IInv, TypeOK, Places
<1> QED
  BY <1>1, <1>4 DEF IInv, TypeOK, NotOnSilence, Fuller, Budget, Kept

LEMMA RepairStep ==
  ASSUME IInv, Repair
  PROVE  IInv' /\ Kept
<1> DEFINE c == Loaded(conn)
<1>1. /\ c \in Objects
      /\ disk.addr # 0 => c.addr # 0
      /\ \A f \in Fields : disk.info[f] # Unknown => c.info[f] # Unknown
  BY LoadedEffect DEF Repair
<1>2. /\ Announce(c.info) /\ UNCHANGED <<disk, saved, lamp, lives>>
      /\ conn' = [c EXCEPT !.loaded = FALSE, !.read = FALSE, !.attempts = 0,
                           !.answered = FALSE, !.pc = "handshake"]
  BY DEF Repair, Known, Forgotten
<1> HIDE DEF c
<1>3. /\ entry' \in Identity /\ reload' \in BOOLEAN
      /\ \A f \in Fields : entry[f] # Unknown => entry'[f] # Unknown
  BY <1>1, <1>2, AnnounceEffect DEF IInv
<1>4. /\ conn' \in Objects
      /\ conn'.pc = "handshake" /\ ~conn'.read /\ conn'.attempts = 0 /\ ~conn'.loaded
      /\ conn'.addr = c.addr /\ conn'.info = c.info
  <2>1. 0 \in 0..MaxReads + 1 /\ "handshake" \in Places
    BY ReadsAssumption DEF Places
  <2>2. conn' = [c EXCEPT !.loaded = FALSE, !.read = FALSE, !.attempts = 0,
                         !.answered = FALSE, !.pc = "handshake"]
    BY <1>2
  <2>3. conn' \in Objects
    BY <1>1, <2>1, <2>2
  <2>4. /\ conn'.pc = "handshake" /\ ~conn'.read /\ conn'.attempts = 0 /\ ~conn'.loaded
        /\ conn'.addr = c.addr /\ conn'.info = c.info
    BY <1>1, <2>2
  <2> QED
    BY <2>3, <2>4
<1>5. TypeOK'
  BY <1>2, <1>3, <1>4 DEF IInv, TypeOK
<1>6. NotOnSilence' /\ Budget'
  BY <1>4, ReadsAssumption DEF NotOnSilence, Budget
<1>7. Fuller'
  BY <1>1, <1>2, <1>4 DEF Fuller
<1>8. Kept
  BY <1>2, <1>3 DEF Kept
<1> QED
  BY <1>5, <1>6, <1>7, <1>8 DEF IInv

LEMMA HandshakeReadsStep ==
  ASSUME IInv, HandshakeReads
  PROVE  IInv' /\ Kept
<1>0. conn.pc = "handshake" /\ UNCHANGED <<disk, saved, lamp, lives>>
  BY DEF HandshakeReads
<1>1. CASE conn' = [conn EXCEPT !.pc = "save"] /\ UNCHANGED <<entry, reload>>
  <2>1. TypeOK'
    BY <1>0, <1>1 DEF IInv, TypeOK, Places
  <2> QED
    BY <1>0, <1>1, <2>1 DEF IInv, TypeOK, NotOnSilence, Fuller, Budget, Kept
<1>2. CASE ~(conn' = [conn EXCEPT !.pc = "save"] /\ UNCHANGED <<entry, reload>>)
  <2>1. PICK r \in Replies : conn' = [Hears(conn, r) EXCEPT !.pc = "save"]
                             /\ Announce(conn'.info)
    BY <1>2 DEF HandshakeReads
  <2> DEFINE c == Hears(conn, r)
  <2>2. /\ c \in Objects
        /\ c.loaded = conn.loaded /\ c.read = conn.read /\ c.attempts = conn.attempts
        /\ c.answered = conn.answered
        /\ conn.addr # 0 => c.addr # 0
        /\ \A f \in Fields : conn.info[f] # Unknown => c.info[f] # Unknown
    BY HearsEffect DEF IInv
  <2>3. conn' = [c EXCEPT !.pc = "save"]
    BY <2>1
  <2> HIDE DEF c
  <2>4. /\ conn' \in Objects
        /\ conn'.pc = "save" /\ conn'.read = conn.read /\ conn'.attempts = conn.attempts
        /\ conn'.loaded = conn.loaded /\ conn'.answered = conn.answered
        /\ conn'.addr = c.addr /\ conn'.info = c.info
    BY <2>2, <2>3 DEF Places
  <2>5. /\ entry' \in Identity /\ reload' \in BOOLEAN
        /\ \A f \in Fields : entry[f] # Unknown => entry'[f] # Unknown
    BY <2>1, <2>4, AnnounceEffect DEF IInv
  <2>6. TypeOK'
    BY <1>0, <2>4, <2>5 DEF IInv, TypeOK
  <2>7. /\ disk.addr # 0 => conn.addr # 0
        /\ \A f \in Fields : disk.info[f] # Unknown => conn.info[f] # Unknown
    BY <1>0 DEF IInv, Fuller
  <2>8. Fuller'
    BY <1>0, <2>2, <2>4, <2>7 DEF Fuller
  <2>9. Kept
    BY <1>0, <2>5 DEF Kept
  <2>10. conn.attempts = 0 /\ ~conn.read
    BY <1>0 DEF IInv, Budget, TypeOK
  <2>11. NotOnSilence' /\ Budget'
    BY <2>4, <2>10, ReadsAssumption DEF NotOnSilence, Budget
  <2> QED
    BY <2>6, <2>8, <2>9, <2>11 DEF IInv
<1> QED
  BY <1>1, <1>2

LEMMA HandshakeFailsStep ==
  ASSUME IInv, HandshakeFails
  PROVE  IInv' /\ Kept
<1>1. /\ conn' = [conn EXCEPT !.pc = "idle"] /\ ~conn.loaded
      /\ UNCHANGED <<disk, entry, saved, reload, lamp, lives>>
  BY DEF HandshakeFails
<1>2. TypeOK'
  BY <1>1 DEF IInv, TypeOK, Places
<1>3. conn.attempts = 0 /\ ~conn.read
  BY <1>1 DEF IInv, TypeOK
<1>4. /\ conn'.pc = "idle" /\ ~conn'.loaded /\ ~conn'.read /\ conn'.attempts = 0
  BY <1>1, <1>3 DEF IInv, TypeOK
<1>5. NotOnSilence' /\ Fuller' /\ Budget'
  BY <1>4, ReadsAssumption DEF NotOnSilence, Fuller, Budget
<1>6. Kept
  BY <1>1 DEF Kept
<1> QED
  BY <1>2, <1>5, <1>6 DEF IInv

\* A new object starts from the invariant, whatever was in the old one.
LEMMA FreshObject ==
  ASSUME NEW e \in Identity, conn' = NewConn(e)
  PROVE  NotOnSilence' /\ Fuller' /\ Budget'
<1>1. conn'.pc = "idle" /\ ~conn'.loaded /\ ~conn'.read /\ conn'.attempts = 0
  BY NewConnEffect
<1> QED
  BY <1>1, ReadsAssumption DEF NotOnSilence, Fuller, Budget

LEMMA ReloadStep ==
  ASSUME IInv, Reload
  PROVE  IInv' /\ Kept
<1>1. /\ conn' = NewConn(entry) /\ reload' = FALSE
      /\ UNCHANGED <<disk, entry, saved, lamp, lives>>
  BY DEF Reload
<1>2. entry \in Identity
  BY DEF IInv, TypeOK
<1>3. TypeOK'
  BY <1>1, <1>2, NewConnEffect DEF IInv, TypeOK
<1>4. NotOnSilence' /\ Fuller' /\ Budget'
  BY <1>1, <1>2, FreshObject
<1>5. Kept
  BY <1>1 DEF Kept
<1> QED
  BY <1>3, <1>4, <1>5 DEF IInv

LEMMA RestartStep ==
  ASSUME IInv, Restart
  PROVE  IInv' /\ Kept
<1>1. /\ conn' = NewConn(saved) /\ reload' = FALSE /\ entry' = saved
      /\ UNCHANGED <<disk, saved, lamp>>
  BY DEF Restart
<1>2. saved \in Identity /\ lives.restart < MaxRestarts
      /\ lives' = [lives EXCEPT !.restart = lives.restart + 1]
  BY DEF IInv, TypeOK, Restart
<1>3. lives' \in [reset : 0..MaxResets, restart : 0..MaxRestarts] /\ lives' # lives
  BY <1>2, BoundsAssumption DEF IInv, TypeOK
<1>4. TypeOK'
  BY <1>1, <1>2, <1>3, NewConnEffect DEF IInv, TypeOK
<1>5. NotOnSilence' /\ Fuller' /\ Budget'
  BY <1>1, <1>2, FreshObject
<1>6. Kept
  BY <1>1, <1>3 DEF Kept
<1> QED
  BY <1>4, <1>5, <1>6 DEF IInv

LEMMA WriteEntryStep ==
  ASSUME IInv, WriteEntry
  PROVE  IInv' /\ Kept
<1>1. saved' = entry /\ UNCHANGED <<conn, disk, entry, reload, lamp, lives>>
  BY DEF WriteEntry
<1> QED
  BY <1>1 DEF IInv, TypeOK, NotOnSilence, Fuller, Budget, Kept

LEMMA FactoryResetStep ==
  ASSUME IInv, FactoryReset
  PROVE  IInv' /\ Kept
<1>1. /\ lives' = [lives EXCEPT !.reset = lives.reset + 1] /\ lives.reset < MaxResets
      /\ UNCHANGED <<conn, disk, entry, saved, reload>>
  BY DEF FactoryReset
<1>2. PICK v \in Versions : lamp' = [lamp EXCEPT !.ours = FALSE, !.info.version = v]
  BY DEF FactoryReset
<1>3. lamp' \in [addr : {0, 1}, ours : BOOLEAN, info : Identity]
  BY <1>2 DEF IInv, TypeOK, Identity
<1>4. lives' \in [reset : 0..MaxResets, restart : 0..MaxRestarts]
  BY <1>1, BoundsAssumption DEF IInv, TypeOK
<1>5. TypeOK'
  BY <1>1, <1>3, <1>4 DEF IInv, TypeOK
<1> QED
  BY <1>1, <1>5 DEF IInv, NotOnSilence, Fuller, Budget, Kept

LEMMA StepIInv == IInv /\ [Next]_vars => IInv' /\ (Kept \/ UNCHANGED vars)
<1> SUFFICES ASSUME IInv, [Next]_vars PROVE IInv' /\ (Kept \/ UNCHANGED vars)
  OBVIOUS
<1>1. CASE Connect
  BY <1>1, ConnectStep
<1>2. CASE Silence
  BY <1>2, SilenceStep
<1>3. CASE Answer
  BY <1>3, AnswerStep
<1>4. CASE Save
  BY <1>4, SaveStep
<1>5. CASE Repair
  BY <1>5, RepairStep
<1>6. CASE HandshakeReads
  BY <1>6, HandshakeReadsStep
<1>7. CASE HandshakeFails
  BY <1>7, HandshakeFailsStep
<1>8. CASE Reload
  BY <1>8, ReloadStep
<1>9. CASE WriteEntry
  BY <1>9, WriteEntryStep
<1>10. CASE Restart
  BY <1>10, RestartStep
<1>11. CASE FactoryReset
  BY <1>11, FactoryResetStep
<1>12. CASE UNCHANGED vars
  BY <1>12 DEF vars, IInv, TypeOK, NotOnSilence, Fuller, Budget
<1> QED
  BY <1>1, <1>2, <1>3, <1>4, <1>5, <1>6, <1>7, <1>8, <1>9, <1>10, <1>11, <1>12 DEF Next

-----------------------------------------------------------------------------
(* The theorems *)

\* What the other theorems rest on, an inductive invariant of the module.
THEOREM Invariance == Spec => []IInv
<1>1. IInv /\ [Next]_vars => IInv'
  BY StepIInv
<1> QED
  BY InitIInv, <1>1, PTL DEF Spec

\* Type correctness, with the budget of an object whose record is still to be read: a lamp
\* that is paired again is asked again (_forget_keys_in_memory).
THEOREM TypeCorrect == Spec => []TypeOK
<1>1. IInv => TypeOK
  BY DEF IInv
<1> QED
  BY Invariance, <1>1, PTL

\* However often a lamp stays silent, whatever its answers leave out and whenever it is
\* reset, _fetch_module_info_once() gives up without an address only after an answer.
THEOREM NeverGivesUpOnSilence == Spec => []NotOnSilence
<1>1. IInv => NotOnSilence
  BY DEF IInv
<1> QED
  BY Invariance, <1>1, PTL

\* No reply, re-pairing, reload or save takes from the record or the entry a field, or from
\* the record the address, that a fuller reply had brought (_store_module_info).
THEOREM AShortReplyLosesNothing == Spec => NothingForgotten
<1>1. IInv /\ [Next]_vars =>
        [/\ disk.addr # 0 => disk'.addr # 0
         /\ \A f \in {"type", "version"} :
              /\ disk.info[f] # Unknown => disk'.info[f] # Unknown
              /\ entry[f] # Unknown /\ lives' = lives => entry'[f] # Unknown]_vars
  BY StepIInv DEF Kept, Fields
<1> QED
  BY Invariance, <1>1, PTL DEF Spec, NothingForgotten

\* The budget of reads binds every object that has an address, for any budget, through
\* re-pairings that give it back and reads that bring the address late.
THEOREM SilenceIsBounded == Spec => BoundedReads
<1>1. IInv' => [conn'.pc = "ask" /\ conn.pc = "idle" /\ conn'.addr # 0
                  => conn'.attempts <= MaxReads]_vars
  BY DEF IInv, Budget
<1>2. IInv /\ [Next]_vars => IInv'
  BY StepIInv
<1> QED
  BY Invariance, <1>1, <1>2, PTL DEF Spec, BoundedReads

-----------------------------------------------------------------------------
(* The record, the entry and the light type of the object: the half of       *)
(* EntryCatchesUp that is safety.                                           *)

\* What an object knows, once it has announced it, is what the entry says.
Told ==
  conn.loaded \/ conn.pc # "idle" =>
    \A f \in Fields : conn.info[f] # Unknown => entry[f] = conn.info[f]

\* The light type of an object is that of its entry, or a reload is on its way.
Familiar == conn.family = entry.type \/ reload

\* Outside a handshake and a save, an object with its record read knows just that.
Settled == conn.loaded /\ conn.pc \in {"idle", "ask"} => conn.info = disk.info

Agreement == Told /\ Familiar /\ Settled

\* Once an object has its record read and no write under way, the entry has every field of
\* the record, as the record has it, and an object whose light type is another than the
\* record's is about to be replaced (on_module_info, module_info_updates).
EntryFollowsRecord ==
  conn.loaded /\ conn.pc \in {"idle", "ask"} =>
    /\ \A f \in Fields : disk.info[f] # Unknown => entry[f] = disk.info[f]
    /\ disk.info.type # Unknown => conn.family = disk.info.type \/ reload

LEMMA AnnounceReaches ==
  ASSUME TypeOK, Familiar, NEW i \in Identity, Announce(i), conn'.family = conn.family
  PROVE  /\ \A f \in Fields : i[f] # Unknown => entry'[f] = i[f]
         /\ Familiar'
<1>1. entry' = Merge(entry, i) /\ reload' = (reload \/ entry' # entry)
  BY DEF Announce, Updated
<1>2. \A f \in Fields : i[f] # Unknown => entry'[f] = i[f]
  BY <1>1 DEF Merge, Fields
<1>3. Familiar'
  <2>1. CASE reload
    BY <1>1, <2>1 DEF Familiar
  <2>2. CASE entry' # entry
    BY <1>1, <2>2 DEF Familiar
  <2>3. CASE ~reload /\ entry' = entry
    BY <2>3 DEF Familiar
  <2> QED
    BY <2>1, <2>2, <2>3
<1> QED
  BY <1>2, <1>3

\* What an object loads is its record, or what it has had since.
LEMMA LoadedAgrees ==
  ASSUME IInv, Agreement, conn.pc = "idle"
  PROVE  /\ Loaded(conn) \in Objects
         /\ Loaded(conn).family = conn.family /\ Loaded(conn).loaded
         /\ Loaded(conn).pc = "idle"
         /\ Loaded(conn).info = disk.info
<1>1. Loaded(conn) \in Objects /\ Loaded(conn).pc = "idle" /\ Loaded(conn).loaded
  BY LoadedEffect
<1>2. conn \in Objects
  BY DEF IInv, TypeOK
<1>3. Loaded(conn).family = conn.family
  BY <1>2 DEF Loaded
<1>4. Loaded(conn).info = disk.info
  BY <1>2 DEF Loaded, Agreement, Settled
<1> QED
  BY <1>1, <1>3, <1>4

LEMMA ConnectAgrees ==
  ASSUME IInv, Agreement, Connect
  PROVE  Agreement'
<1> DEFINE c == Loaded(conn)
<1>1. c \in Objects /\ c.family = conn.family /\ c.loaded /\ c.info = disk.info /\ c.pc = "idle"
  BY LoadedAgrees DEF Connect
<1>2. /\ Announce(c.info) /\ disk' = disk
      /\ conn' = IF Wanted(c) THEN [c EXCEPT !.pc = "ask", !.attempts = Count(@)] ELSE c
  BY DEF Connect, Known
<1> HIDE DEF c
<1>3. conn'.family = conn.family /\ conn'.info = disk.info
  BY <1>1, <1>2
<1>4. c.info \in Identity
  BY <1>1
<1>5. /\ \A f \in Fields : c.info[f] # Unknown => entry'[f] = c.info[f]
      /\ Familiar'
  BY <1>2, <1>3, <1>4, AnnounceReaches DEF IInv, Agreement
<1> QED
  BY <1>1, <1>2, <1>3, <1>5 DEF Agreement, Told, Settled

LEMMA AnswerAgrees ==
  ASSUME IInv, Agreement, Answer
  PROVE  Agreement'
<1>1. PICK r \in Replies :
        LET c == Hears(conn, r)
        IN /\ Announce(c.info)
           /\ conn' = [c EXCEPT !.pc = "save", !.read = c.addr # 0 \/ BudgetSpent(c),
                                !.answered = TRUE]
  BY DEF Answer
<1> DEFINE c == Hears(conn, r)
<1>2. c \in Objects
  BY HearsEffect DEF IInv
<1>3. c.family = conn.family
  BY DEF Hears, IInv, TypeOK
<1>4. Announce(c.info)
      /\ conn' = [c EXCEPT !.pc = "save", !.read = c.addr # 0 \/ BudgetSpent(c),
                           !.answered = TRUE]
  BY <1>1
<1> HIDE DEF c
<1>5. conn'.family = conn.family /\ conn'.info = c.info /\ conn'.pc = "save"
  BY <1>2, <1>3, <1>4
<1>6. c.info \in Identity
  BY <1>2
<1>7. /\ \A f \in Fields : c.info[f] # Unknown => entry'[f] = c.info[f]
      /\ Familiar'
  BY <1>4, <1>5, <1>6, AnnounceReaches DEF IInv, Agreement
<1> QED
  BY <1>5, <1>7 DEF Agreement, Told, Settled

LEMMA RepairAgrees ==
  ASSUME IInv, Agreement, Repair
  PROVE  Agreement'
<1> DEFINE c == Loaded(conn)
<1>1. c \in Objects /\ c.family = conn.family
  BY LoadedAgrees DEF Repair
<1>2. /\ Announce(c.info)
      /\ conn' = [c EXCEPT !.loaded = FALSE, !.read = FALSE, !.attempts = 0,
                           !.answered = FALSE, !.pc = "handshake"]
  BY DEF Repair, Known, Forgotten
<1> HIDE DEF c
<1>3. conn'.family = conn.family /\ conn'.info = c.info /\ conn'.pc = "handshake"
  BY <1>1, <1>2
<1>4. c.info \in Identity
  BY <1>1
<1>5. /\ \A f \in Fields : c.info[f] # Unknown => entry'[f] = c.info[f]
      /\ Familiar'
  BY <1>2, <1>3, <1>4, AnnounceReaches DEF IInv, Agreement
<1> QED
  BY <1>3, <1>5 DEF Agreement, Told, Settled

LEMMA HandshakeReadsAgrees ==
  ASSUME IInv, Agreement, HandshakeReads
  PROVE  Agreement'
<1>1. conn.pc = "handshake"
  BY DEF HandshakeReads
<1>2. CASE conn' = [conn EXCEPT !.pc = "save"] /\ UNCHANGED <<entry, reload>>
  BY <1>1, <1>2 DEF Agreement, Told, Familiar, Settled, IInv, TypeOK
<1>3. CASE ~(conn' = [conn EXCEPT !.pc = "save"] /\ UNCHANGED <<entry, reload>>)
  <2>1. PICK r \in Replies : conn' = [Hears(conn, r) EXCEPT !.pc = "save"]
                             /\ Announce(conn'.info)
    BY <1>3 DEF HandshakeReads
  <2> DEFINE c == Hears(conn, r)
  <2>2. c \in Objects
    BY HearsEffect DEF IInv
  <2>3. c.family = conn.family
    BY DEF Hears, IInv, TypeOK
  <2>4. conn' = [c EXCEPT !.pc = "save"]
    BY <2>1
  <2> HIDE DEF c
  <2>5. conn'.family = conn.family /\ conn'.info \in Identity /\ conn'.pc = "save"
    BY <2>2, <2>3, <2>4
  <2>6. /\ \A f \in Fields : conn'.info[f] # Unknown => entry'[f] = conn'.info[f]
        /\ Familiar'
    BY <2>1, <2>5, AnnounceReaches DEF IInv, Agreement
  <2> QED
    BY <2>5, <2>6 DEF Agreement, Told, Settled
<1> QED
  BY <1>2, <1>3

LEMMA SaveAgrees ==
  ASSUME IInv, Agreement, Save
  PROVE  Agreement'
<1>1. /\ conn.pc = "save" /\ disk' = [addr |-> conn.addr, info |-> conn.info]
      /\ conn' = [conn EXCEPT !.pc = "idle", !.loaded = TRUE]
      /\ UNCHANGED <<entry, reload>>
  BY DEF Save
<1> QED
  BY <1>1 DEF Agreement, Told, Familiar, Settled, IInv, TypeOK

\* An object that stops asking, or a handshake that fails, changes nothing of this.
LEMMA StopAgrees ==
  ASSUME IInv, Agreement, Silence \/ HandshakeFails
  PROVE  Agreement'
<1>1. /\ conn'.info = conn.info /\ conn'.family = conn.family /\ conn'.loaded = conn.loaded
      /\ conn'.pc = "idle" /\ UNCHANGED <<disk, entry, reload>>
  BY DEF Silence, HandshakeFails, IInv, TypeOK
<1>2. conn.pc = "ask" \/ ~conn.loaded
  BY DEF Silence, HandshakeFails
<1>3. Told' /\ Familiar'
  BY <1>1, <1>2 DEF Agreement, Told, Familiar
<1>4. Settled'
  BY <1>1, <1>2 DEF Agreement, Settled
<1> QED
  BY <1>3, <1>4 DEF Agreement

\* A new object has announced nothing yet, and has the light type of its entry.
LEMMA NewObjectAgrees ==
  ASSUME entry' \in Identity, conn' = NewConn(entry')
  PROVE  Agreement'
BY DEF NewConn, Agreement, Told, Familiar, Settled

LEMMA StepAgrees ==
  ASSUME IInv, Agreement, [Next]_vars
  PROVE  Agreement'
<1>1. CASE Connect
  BY <1>1, ConnectAgrees
<1>2. CASE Silence \/ HandshakeFails
  BY <1>2, StopAgrees
<1>3. CASE Answer
  BY <1>3, AnswerAgrees
<1>4. CASE Save
  BY <1>4, SaveAgrees
<1>5. CASE Repair
  BY <1>5, RepairAgrees
<1>6. CASE HandshakeReads
  BY <1>6, HandshakeReadsAgrees
<1>7. CASE Reload
  BY <1>7, NewObjectAgrees DEF Reload, IInv, TypeOK
<1>8. CASE Restart
  BY <1>8, NewObjectAgrees DEF Restart, IInv, TypeOK
<1>9. CASE WriteEntry
  BY <1>9 DEF WriteEntry, Agreement, Told, Familiar, Settled
<1>10. CASE FactoryReset
  BY <1>10 DEF FactoryReset, Agreement, Told, Familiar, Settled
<1>11. CASE UNCHANGED vars
  BY <1>11 DEF vars, Agreement, Told, Familiar, Settled
<1> QED
  BY <1>1, <1>2, <1>3, <1>4, <1>5, <1>6, <1>7, <1>8, <1>9, <1>10, <1>11 DEF Next

\* From the first connect of an object on, and whatever replies, handshakes, reloads and
\* restarts come between, the entry agrees with the record wherever nothing is being read
\* or written, and the light type with both, unless a reload is scheduled.
THEOREM RecordReachesEntry == Spec => []EntryFollowsRecord
<1>1. Init => Agreement
  BY DEF Init, NewConn, Agreement, Told, Familiar, Settled
<1>2. IInv /\ Agreement /\ [Next]_vars => Agreement'
  BY StepAgrees
<1>3. Agreement => EntryFollowsRecord
  BY DEF Agreement, Told, Familiar, Settled, EntryFollowsRecord, Fields
<1> QED
  BY <1>1, <1>2, <1>3, Invariance, PTL DEF Spec
=============================================================================
