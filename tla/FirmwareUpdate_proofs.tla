------------------------ MODULE FirmwareUpdate_proofs ------------------------
(***************************************************************************)
(* Theorems about FirmwareUpdate, for any builds and firmware, whatever       *)
(* their number of components, and any number of restarts and of changes of   *)
(* the servers.                                                             *)
(*                                                                         *)
(* What makes them hold: the release an entity keeps is one it heard, only a  *)
(* healthy host's answer carries a release, and the order of versions is     *)
(* strict on any sequences at all.                                          *)
(***************************************************************************)
EXTENDS FirmwareUpdate, TLAPS

-----------------------------------------------------------------------------
(* The order of versions *)

Version == Seq({Junk} \union Nat)

LEMMA PartIsNumber ==
  ASSUME NEW v \in Version, NEW i \in 1..3
  PROVE  Part(v, i) \in Nat
<1>1. CASE i > Len(v)
  BY <1>1 DEF Part
<1>2. CASE ~(i > Len(v))
  <2>1. i \in 1..Len(v)
    BY <1>2 DEF Version
  <2>2. v[i] \in {Junk} \union Nat
    BY <2>1 DEF Version
  <2> QED
    BY <2>2 DEF Part
<1> QED
  BY <1>1, <1>2

LEMMA NewerIsStrict ==
  ASSUME NEW v \in Version, NEW w \in Version, Newer(v, w)
  PROVE  ~Newer(w, v) /\ v # w
<1>1. PICK i \in 1..3 : Part(v, i) > Part(w, i) /\ \A j \in 1..(i - 1) : Part(v, j) = Part(w, j)
  BY DEF Newer
<1>2. \A k \in 1..3 : Part(v, k) \in Nat /\ Part(w, k) \in Nat
  BY PartIsNumber
<1>3. v # w
  BY <1>1, <1>2
<1>4. ASSUME Newer(w, v) PROVE FALSE
  <2>1. PICK k \in 1..3 :
          Part(w, k) > Part(v, k) /\ \A j \in 1..(k - 1) : Part(w, j) = Part(v, j)
    BY <1>4 DEF Newer
  <2>2. i < k \/ i = k \/ k < i
    OBVIOUS
  <2>3. CASE i < k
    <3>1. i \in 1..(k - 1)
      BY <2>3
    <3> QED
      BY <1>1, <1>2, <2>1, <3>1
  <2>4. CASE i = k
    BY <1>1, <1>2, <2>1, <2>4
  <2>5. CASE k < i
    <3>1. k \in 1..(i - 1)
      BY <2>5
    <3> QED
      BY <1>1, <1>2, <2>1, <3>1
  <2> QED
    BY <2>2, <2>3, <2>4, <2>5
<1> QED
  BY <1>3, <1>4

-----------------------------------------------------------------------------
(* What a host can answer *)

LEMMA AnswersOfAHost ==
  ASSUME NEW h \in Hosts, NEW e \in Answers(h)
  PROVE  /\ Release(e) # None => servers[h] = "healthy" /\ Release(e) = catalogue
         /\ Definitive(e) => servers[h] = "healthy"
         /\ servers[h] = "healthy" /\ catalogue # None => Release(e) = catalogue
<1> USE DEF Answers, Release, Definitive, Envelope, NoAnswer
<1>1. CASE servers[h] = "healthy"
  BY <1>1
<1>2. CASE servers[h] = "down"
  BY <1>2
<1>3. CASE servers[h] = "portal"
  <2>1. e \in {NoAnswer} \union {Envelope(c, "none", None) : c \in {200, 400}}
    BY <1>3
  <2>2. e.shape = "none"
    BY <2>1
  <2>3. Release(e) = None /\ ~Definitive(e)
    BY <2>2
  <2> QED
    BY <1>3, <2>3
<1>4. CASE servers[h] \notin {"healthy", "down", "portal"}
  <2>1. e \in {Envelope(500, "none", None), Envelope(500, "nothing", None),
                 Envelope(200, "nothing", None)}
    BY <1>4
  <2> QED
    BY <1>4, <2>1
<1> QED
  BY <1>1, <1>2, <1>3, <1>4

-----------------------------------------------------------------------------
(* The invariant *)

\* The release that is kept was named to this entity, and is a version.
Kept == latest # None => latest \in heard /\ latest \in Versions

IInv ==
  /\ running \in Firmware
  /\ catalogue \in Versions \union {None}
  /\ asking \in 0..2
  /\ reload \in BOOLEAN
  /\ spent \in [trouble : Nat, lives : Nat]
  /\ Kept

LEMMA AddedKeeps == ASSUME Added PROVE asking' \in 0..2 /\ Kept'
BY DEF Added, Kept

LEMMA InitIInv == Init => IInv
<1> SUFFICES ASSUME Init PROVE IInv
  OBVIOUS
<1>1. asking \in 0..2 /\ Kept
  BY DEF Init, Kept
<1> QED
  BY <1>1 DEF Init, IInv

LEMMA HostAnswersKeeps == ASSUME IInv, HostAnswers PROVE IInv'
<1>1. asking \in Hosts
  BY DEF IInv, HostAnswers, Hosts
<1>2. PICK e \in Answers(asking) :
        /\ latest' = IF Release(e) # None THEN Release(e) ELSE latest
        /\ heard' = IF servers[asking] = "healthy" THEN heard \union {catalogue} ELSE heard
        /\ asking' = IF Definitive(e) \/ asking = 2 THEN 0 ELSE asking + 1
  BY DEF HostAnswers
<1>3. Release(e) # None => servers[asking] = "healthy" /\ Release(e) = catalogue
  BY <1>1, AnswersOfAHost
<1>4. Kept'
  <2>1. CASE Release(e) # None
    BY <1>2, <1>3, <2>1 DEF Kept, IInv
  <2>2. CASE Release(e) = None
    <3>1. latest' = latest /\ heard \subseteq heard'
      BY <1>2, <2>2
    <3> QED
      BY <3>1 DEF Kept, IInv
  <2> QED
    BY <2>1, <2>2
<1>5. asking' \in 0..2
  <2>1. asking = 1 \/ asking = 2
    BY <1>1 DEF Hosts
  <2> QED
    BY <1>2, <2>1
<1> QED
  BY <1>4, <1>5 DEF HostAnswers, IInv

LEMMA StepKeeps == IInv /\ [Next]_vars => IInv'
<1> SUFFICES ASSUME IInv, [Next]_vars PROVE IInv'
  OBVIOUS
<1>1. CASE Learn
  <2>1. UNCHANGED <<asking, latest, running, heard, catalogue, spent>> /\ reload' \in BOOLEAN
    BY <1>1 DEF Learn, Tell, IInv
  <2> QED
    BY <2>1 DEF IInv, Kept
<1>2. CASE Reload
  BY <1>2, AddedKeeps DEF Reload, IInv
<1>3. CASE SetOption
  BY <1>3 DEF SetOption, IInv, Kept
<1>4. CASE WriteEntry
  BY <1>4 DEF WriteEntry, IInv, Kept
<1>5. CASE Restart
  <2>1. spent' \in [trouble : Nat, lives : Nat]
    BY <1>5 DEF Restart, IInv
  <2>2. Added /\ reload' \in BOOLEAN /\ UNCHANGED <<running, catalogue>>
    BY <1>5 DEF Restart
  <2> QED
    BY <2>1, <2>2, AddedKeeps DEF IInv
<1>6. CASE Poll
  BY <1>6 DEF Poll, IInv, Kept
<1>7. CASE HostAnswers
  BY <1>7, HostAnswersKeeps
<1>8. CASE ServerChanges
  BY <1>8 DEF ServerChanges, Trouble, IInv, Kept
<1>9. CASE Publish
  BY <1>9 DEF Publish, Trouble, IInv, Kept
<1>10. CASE UNCHANGED vars
  BY <1>10 DEF vars, IInv, Kept
<1> QED
  BY <1>1, <1>2, <1>3, <1>4, <1>5, <1>6, <1>7, <1>8, <1>9, <1>10 DEF Next

\* The invariant the theorems below follow from.
THEOREM Invariance == Spec => []IInv
BY InitIInv, StepKeeps, PTL DEF Spec

-----------------------------------------------------------------------------
(* The theorems *)

LEMMA KeptIsHonest == IInv => HonestVersion
<1> SUFFICES ASSUME IInv, LatestVersion # None
             PROVE  IF Has("version") /\ LatestVersion = running
                    THEN \E v \in heard \ {None} : ~Newer(v, running)
                    ELSE LatestVersion \in heard
                         /\ (Has("version") => ~Newer(running, LatestVersion))
  BY DEF HonestVersion
<1>1. latest # None /\ latest \in heard /\ latest \in Version /\ running \in Version
  BY VersionAssumption DEF IInv, Kept, LatestVersion, Version
<1>2. CASE ~Has("version")
  BY <1>1, <1>2 DEF LatestVersion
<1>3. CASE Has("version") /\ Newer(latest, running)
  <2>1. LatestVersion = latest
    BY <1>1, <1>3 DEF LatestVersion
  <2>2. ~Newer(running, latest) /\ latest # running
    BY <1>1, <1>3, NewerIsStrict
  <2> QED
    BY <1>1, <2>1, <2>2
<1>4. CASE Has("version") /\ ~Newer(latest, running)
  <2>1. LatestVersion = running
    BY <1>1, <1>4 DEF LatestVersion
  <2> QED
    BY <1>1, <1>4, <2>1
<1> QED
  BY <1>2, <1>3, <1>4

\* latest_version and the state Home Assistant derives from it: the entity reads up to date
\* only when a host has named it a build no newer than the lamp's, and offers only a build
\* it was named and the lamp is not already past.
THEOREM HonestState == Spec => []HonestVersion
BY Invariance, KeptIsHonest, PTL

LEMMA CheckFindsTheBuild ==
  ASSUME IInv, [Next]_vars, asking # 0, asking' = 0, UNCHANGED <<reload, spent>>,
         catalogue # None, servers[2] = "healthy"
  PROVE  latest' = catalogue
<1>1. CASE Learn \/ SetOption \/ WriteEntry \/ Poll \/ ServerChanges \/ Publish \/ UNCHANGED vars
  BY <1>1 DEF Learn, Tell, SetOption, WriteEntry, Poll, ServerChanges, Publish, vars
<1>2. CASE Reload
  BY <1>2 DEF Reload
<1>3. CASE Restart
  <2>1. spent'.lives = spent.lives + 1
    BY <1>3 DEF Restart, IInv
  <2>2. spent.lives \in Nat
    BY DEF IInv
  <2> QED
    BY <2>1, <2>2
<1>4. CASE HostAnswers
  <2>1. asking \in Hosts /\ (asking = 1 \/ asking = 2)
    BY DEF IInv, Hosts
  <2>2. PICK e \in Answers(asking) :
          /\ latest' = IF Release(e) # None THEN Release(e) ELSE latest
          /\ asking' = IF Definitive(e) \/ asking = 2 THEN 0 ELSE asking + 1
    BY <1>4 DEF HostAnswers
  <2>3. servers[asking] = "healthy"
    <3>1. CASE asking = 2
      BY <3>1
    <3>2. CASE asking = 1
      <4>1. Definitive(e)
        BY <2>2, <3>2
      <4> QED
        BY <2>1, <4>1, AnswersOfAHost
    <3> QED
      BY <2>1, <3>1, <3>2
  <2>4. Release(e) = catalogue
    BY <2>1, <2>3, AnswersOfAHost
  <2> QED
    BY <2>2, <2>4
<1> QED
  BY <1>1, <1>2, <1>3, <1>4 DEF Next

\* async_get_latest_release() with a first host that is down, broken or answered for by
\* something in between: a check that runs to its end finds the build the second lists.
THEOREM EitherHostWillDo == Spec => OneHostIsEnough
<1>1. IInv /\ [Next]_vars =>
        [asking # 0 /\ asking' = 0 /\ UNCHANGED <<reload, spent>>
           /\ catalogue # None /\ servers[2] = "healthy" => latest' = catalogue]_vars
  BY CheckFindsTheBuild
<1> QED
  BY <1>1, Invariance, PTL DEF Spec, OneHostIsEnough

-----------------------------------------------------------------------------
(* The check that is owed: the half of CheckedOnceKnown that is safety. *)

\* With the option on, an entity that has no release, and no check behind it that failed
\* to find one, is asking, or is about to be made anew, or its entry does not have the
\* model yet, whose arrival makes it anew.
CheckPending ==
  option => \/ latest # None \/ unlucky \/ asking # 0 \/ reload
            \/ "model" \notin known.entry

\* The entry's facts are among those two, and an object that has not heard from its lamp
\* or its record knows only what the entry does.
Places == {"conn", "record", "entry", "disk"}
KnownType == known \in [Places -> SUBSET Facts]

LEMMA KnownStep == KnownType /\ [Next]_vars => KnownType'
<1> SUFFICES ASSUME KnownType, [Next]_vars PROVE KnownType'
  OBVIOUS
<1>1. CASE Learn
  <2>1. PICK said \in SUBSET Facts :
          LET facts == known.conn \union known.record \union said IN
          known' = [known EXCEPT !.conn = facts, !.record = facts, !.entry = @ \union facts]
    BY <1>1 DEF Learn, Tell
  <2> DEFINE facts == known.conn \union known.record \union said
  <2>2. facts \in SUBSET Facts /\ known.entry \union facts \in SUBSET Facts
    BY DEF KnownType, Places
  <2>3. known' = [known EXCEPT !.conn = facts, !.record = facts,
                               !.entry = known.entry \union facts]
    BY <2>1
  <2> HIDE DEF facts
  <2> QED
    BY <2>2, <2>3 DEF KnownType
<1>2. CASE Reload \/ WriteEntry \/ Restart
  <2>1. {} \in SUBSET Facts /\ known.entry \in SUBSET Facts /\ known.disk \in SUBSET Facts
    BY DEF KnownType, Places
  <2> QED
    BY <1>2, <2>1 DEF Reload, WriteEntry, Restart, KnownType
<1>3. CASE UNCHANGED known
  BY <1>3 DEF KnownType
<1> QED
  BY <1>1, <1>2, <1>3
  DEF Next, SetOption, Poll, HostAnswers, ServerChanges, Publish, vars

LEMMA AddedAsks ==
  ASSUME KnownType', Added, option' = option
  PROVE  CheckPending'
<1>1. CASE option /\ Has("model")'
  BY <1>1 DEF Added, CheckPending
<1>2. CASE option /\ ~Has("model")'
  <2>1. "model" \notin known'.entry
    BY <1>2 DEF Has
  <2> QED
    BY <2>1 DEF CheckPending
<1>3. CASE ~option
  BY <1>3 DEF CheckPending
<1> QED
  BY <1>1, <1>2, <1>3

LEMMA CheckStaysPending == CheckPending /\ KnownType /\ [Next]_vars => CheckPending'
<1> SUFFICES ASSUME CheckPending, KnownType, [Next]_vars PROVE CheckPending'
  OBVIOUS
<1>0. KnownType'
  BY KnownStep
<1>1. CASE Learn
  <2>1. PICK said \in SUBSET Facts :
          LET facts == known.conn \union known.record \union said
          IN  /\ known' = [known EXCEPT !.conn = facts, !.record = facts,
                                        !.entry = @ \union facts]
              /\ reload' = (reload \/ ~(facts \subseteq known.entry))
              /\ UNCHANGED <<option, asking, latest, unlucky>>
    BY <1>1 DEF Learn, Tell
  <2> DEFINE facts == known.conn \union known.record \union said
  <2>2. known'.entry = known.entry \union facts
    BY <2>1 DEF KnownType, Places
  <2>3. reload' \/ known'.entry = known.entry
    BY <2>1, <2>2
  <2> QED
    BY <2>1, <2>3 DEF CheckPending
<1>2. CASE Reload
  BY <1>0, <1>2, AddedAsks DEF Reload
<1>3. CASE Restart
  BY <1>0, <1>3, AddedAsks DEF Restart
<1>4. CASE SetOption
  BY <1>4 DEF SetOption, CheckPending
<1>5. CASE WriteEntry
  BY <1>5 DEF WriteEntry, CheckPending, KnownType, Places
<1>6. CASE Poll
  BY <1>6 DEF Poll, CheckPending
<1>7. CASE HostAnswers
  BY <1>7 DEF HostAnswers, CheckPending
<1>8. CASE ServerChanges \/ Publish \/ UNCHANGED vars
  BY <1>8 DEF ServerChanges, Publish, vars, CheckPending
<1> QED
  BY <1>1, <1>2, <1>3, <1>4, <1>5, <1>6, <1>7, <1>8 DEF Next

\* No check is forgotten: one that async_added_to_hass() had to skip for want of the model,
\* or that a reload or a restart cut off, stays owed until an entity has made it.
THEOREM NoCheckIsForgotten == Spec => []CheckPending
<1>1. Init => CheckPending
  BY DEF Init, CheckPending, Has
<1>2. Init => KnownType
  BY DEF Init, KnownType, Places
<1> QED
  BY <1>1, <1>2, KnownStep, CheckStaysPending, PTL DEF Spec
=============================================================================
