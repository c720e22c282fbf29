--------------------------- MODULE FirmwareUpdate ---------------------------
(***************************************************************************)
(* The firmware entity: FermobFirmwareUpdate, the two servers of the vendor  *)
(* it asks, and how far the lamp's model and version have come between the   *)
(* lamp, the connection object, the key record and the config entry, since a *)
(* check without a model is skipped and every change of the entry makes a    *)
(* new entity.                                                              *)
(*                                                                         *)
(* Which reads of the lamp are made, and how often, is for ModuleInfo. The   *)
(* file and the date of a release are shown nowhere and left out.           *)
(***************************************************************************)
EXTENDS Naturals, Sequences

CONSTANTS
  Versions,   \* published builds: sequences of numbers, dots left out
  Firmware,   \* what the lamp may be running
  Junk,       \* a component that is no number
  None,       \* no release, no version
  MaxTrouble, \* bound: changes of the servers and of the catalogue
  MaxLives    \* bound: restarts, and changes of the option

ASSUME NoneAssumption == None \notin Versions \union Firmware
ASSUME VersionAssumption == Junk \notin Nat /\ Versions \union Firmware \subseteq Seq({Junk} \union Nat)
ASSUME BoundsAssumption == MaxTrouble \in Nat /\ MaxLives \in Nat

VARIABLES
  option,     \* CONF_CHECK_FIRMWARE in the entry's options
  known,      \* what of the lamp's model and version each place holds
  reload,     \* the entry has changed, and its reload is scheduled
  checking,   \* the entity was made with the check on
  asking,     \* the check under way: the host it waits for, or 0
  latest,     \* _latest
  running,    \* the lamp's firmware
  servers,    \* how the two hosts answer
  catalogue,  \* the build they list for this model, or None
  heard,      \* history: the builds a host has named to this entity
  unlucky,    \* history: a check of this entity ended without the build that is listed
  spent       \* trouble and lives so far

vars == <<option, known, reload, checking, asking, latest, running, servers, catalogue,
          heard, unlucky, spent>>

Facts == {"model", "version"}
Hosts == 1..2
Conditions == {"healthy", "down", "portal", "broken"}

-----------------------------------------------------------------------------
(* Versions: compare_versions() *)

\* One of the first three components: a missing one, or one that is no number, is 0.
Part(v, i) == IF i > Len(v) \/ v[i] = Junk THEN 0 ELSE v[i]

\* compare_versions(v, w) > 0
Newer(v, w) ==
  \E i \in 1..3 : Part(v, i) > Part(w, i) /\ \A j \in 1..(i - 1) : Part(v, j) = Part(w, j)

-----------------------------------------------------------------------------
(* The servers, and _parse_release() *)

\* A body without the keys of the vendor's envelope has no shape. Nothing: a release key
\* with nothing usable under it.
Envelope(code, shape, version) == [code |-> code, shape |-> shape, version |-> version]

NoAnswer == Envelope(0, "none", None)

\* A healthy host lists the model or says that there is none. Others fail, or answer
\* in the vendor's place.
Answers(host) ==
  CASE servers[host] = "healthy" ->
         IF catalogue = None THEN {Envelope(400, "nothing", None)}
         ELSE {Envelope(200, "release", catalogue)}
    [] servers[host] = "down" -> {NoAnswer}
    [] servers[host] = "portal" ->
         {NoAnswer} \union {Envelope(c, "none", None) : c \in {200, 400}}
    [] OTHER -> {Envelope(500, "none", None), Envelope(500, "nothing", None),
                 Envelope(200, "nothing", None)}

Release(e) == IF e.code = 200 /\ e.shape = "release" THEN e.version ELSE None

\* Mutant: the code alone is believed.
AnyRefusal(e) == Release(e) # None \/ e.code = 400

\* A working server has answered about this model: code and envelope agree.
Definitive(e) == Release(e) # None \/ (e.code = 400 /\ e.shape # "none")

-----------------------------------------------------------------------------
(* What is known *)

\* Mutant: the entry is not looked at.
OnlyConn(fact) == fact \in known.conn

\* conn.model or entry.data's, conn.sw_version or entry.data's.
Has(fact) == fact \in known.conn \union known.entry

\* Mutant: unknown is shown as up to date.
LatestOrInstalled ==
  IF latest = None THEN (IF Has("version") THEN running ELSE None)
  ELSE IF ~Has("version") \/ Newer(latest, running) THEN latest ELSE running

\* latest_version
LatestVersion ==
  IF latest = None THEN None
  ELSE IF ~Has("version") \/ Newer(latest, running) THEN latest ELSE running

\* async_added_to_hass() of a new entity: asks once, in the background, if it may and if
\* the model is known by then.
Added ==
  /\ checking' = option
  /\ asking' = IF option /\ Has("model")' THEN 1 ELSE 0
  /\ latest' = None
  /\ heard' = {}
  /\ unlucky' = FALSE

\* An entry that was just made, or one that is set up again.
Init ==
  /\ option \in BOOLEAN
  /\ \E facts \in SUBSET Facts :
       known = [conn |-> {}, record |-> facts, entry |-> facts, disk |-> facts]
  /\ reload = FALSE
  /\ checking = option
  /\ asking = IF option /\ Has("model") THEN 1 ELSE 0
  /\ latest = None
  /\ running \in Firmware
  /\ servers \in [Hosts -> Conditions]
  /\ catalogue \in Versions \union {None}
  /\ heard = {} /\ unlucky = FALSE
  /\ spent = [trouble |-> 0, lives |-> 0]

-----------------------------------------------------------------------------
(* The lamp connects, and has said this of what it is. The object adds it to what it and *)
(* the record hold, tells the entry all of it, and the entry is written if that is news.  *)
Tell(said) ==
  LET facts == known.conn \union known.record \union said IN
  /\ facts # known.conn \/ ~(facts \subseteq known.entry)
  /\ known' = [known EXCEPT !.conn = facts, !.record = facts, !.entry = @ \union facts]
  /\ reload' = (reload \/ ~(facts \subseteq known.entry))
  /\ UNCHANGED <<option, checking, asking, latest, running, servers, catalogue, heard,
                 unlucky, spent>>

\* A lamp may leave out either fact, and is not asked for ever.
Learn == \E said \in SUBSET Facts : Tell(said)

\* On every connection, before it is decided whether to ask at all.
Announce == Tell({})

\* The reload that a change of the entry has scheduled: a new connection object, and a new
\* entity. A check under way is cancelled.
Reload ==
  /\ reload
  /\ reload' = FALSE
  /\ known' = [known EXCEPT !.conn = {}]
  /\ Added
  /\ UNCHANGED <<option, running, servers, catalogue, spent>>

\* The user changes the option, and Home Assistant reloads the entry.
SetOption ==
  /\ spent.lives < MaxLives
  /\ spent' = [spent EXCEPT !.lives = @ + 1]
  /\ option' = ~option
  /\ reload' = TRUE
  /\ UNCHANGED <<known, checking, asking, latest, running, servers, catalogue, heard, unlucky>>

\* Home Assistant's delayed write of the config entries.
WriteEntry ==
  /\ known.disk # known.entry
  /\ known' = [known EXCEPT !.disk = known.entry]
  /\ UNCHANGED <<option, reload, checking, asking, latest, running, servers, catalogue, heard,
                 unlucky, spent>>

\* Home Assistant stops and starts: the record was written at once, the entry maybe not.
Restart ==
  /\ spent.lives < MaxLives
  /\ spent' = [spent EXCEPT !.lives = @ + 1]
  /\ known' = [known EXCEPT !.conn = {}, !.entry = known.disk]
  /\ reload' = FALSE
  /\ Added
  /\ UNCHANGED <<option, running, servers, catalogue>>

-----------------------------------------------------------------------------
(* async_update() and async_get_latest_release() *)

\* The daily poll, by which time an earlier check has timed out.
Poll ==
  /\ checking /\ asking = 0 /\ Has("model")
  /\ asking' = 1
  /\ UNCHANGED <<option, known, reload, checking, latest, running, servers, catalogue, heard,
                 unlucky, spent>>

\* One host answers, or the request to it fails: the next is asked unless the answer
\* was definitive. An earlier release stays if there is none.
HostAnswers ==
  /\ asking # 0
  /\ \E e \in Answers(asking) :
       /\ latest' = IF Release(e) # None THEN Release(e) ELSE latest
       /\ heard' = IF servers[asking] = "healthy" THEN heard \union {catalogue} ELSE heard
       /\ asking' = IF Definitive(e) \/ asking = 2 THEN 0 ELSE asking + 1
  /\ unlucky' = (unlucky \/ (asking' = 0 /\ latest' = None))
  /\ UNCHANGED <<option, known, reload, checking, running, servers, catalogue, spent>>

Trouble == spent.trouble < MaxTrouble /\ spent' = [spent EXCEPT !.trouble = @ + 1]

ServerChanges ==
  /\ Trouble
  /\ \E h \in Hosts, c \in Conditions : c # servers[h] /\ servers' = [servers EXCEPT ![h] = c]
  /\ UNCHANGED <<option, known, reload, checking, asking, latest, running, catalogue, heard,
                 unlucky>>

Publish ==
  /\ Trouble
  /\ catalogue' \in Versions \ {catalogue}
  /\ UNCHANGED <<option, known, reload, checking, asking, latest, running, servers, heard,
                 unlucky>>

Next ==
  \/ Learn \/ Reload \/ SetOption \/ WriteEntry \/ Restart
  \/ Poll \/ HostAnswers \/ ServerChanges \/ Publish

(***************************************************************************)
(* The lamp connects in the end, by a check-in if nobody uses it, and what   *)
(* is known of it is announced then; it need never say more. Home Assistant  *)
(* carries a reload through, and a request ends, if by its time-out. The     *)
(* poll is left out: a day is no answer.                                    *)
(***************************************************************************)
Fairness ==
  /\ WF_vars(Announce)
  /\ WF_vars(Reload)
  /\ WF_vars(HostAnswers)

Spec == Init /\ [][Next]_vars
FairSpec == Spec /\ Fairness

-----------------------------------------------------------------------------
(* Properties *)

\* "Unknown is the honest state": the entity reads up to date only when a server has named
\* this entity a build that is no newer than the lamp's, offers only a build it was named,
\* and never one the lamp is already past.
HonestVersion ==
  LatestVersion # None =>
    IF Has("version") /\ LatestVersion = running
    THEN \E v \in heard \ {None} : ~Newer(v, running)
    ELSE LatestVersion \in heard /\ (Has("version") => ~Newer(running, LatestVersion))

\* One host that is down, broken, or answered for by something in between does not keep a
\* published build from the entity: a check that is not cut off ends without it only
\* if the other host does not list it either.
OneHostIsEnough ==
  [][asking # 0 /\ asking' = 0 /\ UNCHANGED <<reload, spent>>
       /\ catalogue # None /\ servers[2] = "healthy" => latest' = catalogue]_vars

\* A check that was skipped, because the entry did not have the model, or cut off by a
\* reload, is made up for at once and not after a day, when the model is on record: wherever
\* a restart has left the entry's. Of a model no lamp has told nothing can be asked.
CheckedOnceKnown ==
  option /\ "model" \in known.record ~> (latest # None \/ unlucky \/ ~option)
=============================================================================
