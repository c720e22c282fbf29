----------------------------- MODULE Ownership -----------------------------
(***************************************************************************)
(* What the integration promises about who owns the lamp, whatever happens *)
(* to a link, a reply or a step: the ways in which the lamp's registration  *)
(* and the record of its key may change, one at a time.                    *)
(*                                                                         *)
(* The order of the two is the whole point. A key is recorded before the    *)
(* lamp is registered under it, and forgotten only after the lamp has let   *)
(* go of it, since a lamp registered under a key nobody has kept is lost    *)
(* to everything but a factory reset.                                      *)
(***************************************************************************)
CONSTANTS Keys, NoKey, AppKey

VARIABLES
  owner,     \* the key the lamp is registered under
  record,    \* the key kept on disk
  stray      \* a lamp of ours has not heard that it is no longer wanted

vars == <<owner, record, stray>>

Ours == owner \in Keys

Init ==
  /\ record \in Keys \union {NoKey}
  /\ owner \in {record, NoKey, AppKey}
  /\ stray = FALSE

\* A fresh key goes on record while the lamp is registered to nobody here, or the key of
\* the lamp once more.
Write ==
  /\ record' \in Keys
  /\ Ours => record' = owner
  /\ UNCHANGED <<owner, stray>>

\* The lamp is registered under the key on record.
Register ==
  /\ owner = NoKey
  /\ record \in Keys
  /\ owner' = record
  /\ UNCHANGED <<record, stray>>

\* The lamp lets go: it hears that it should, or is factory-reset.
LetGo ==
  /\ owner' = NoKey
  /\ stray' = FALSE
  /\ UNCHANGED record

\* The lamp is told, and does not hear it.
Miss ==
  /\ Ours
  /\ stray' = TRUE
  /\ UNCHANGED <<owner, record>>

\* The key is forgotten only when the lamp has been told.
Forget ==
  /\ ~Ours \/ stray
  /\ record' = NoKey
  /\ UNCHANGED <<owner, stray>>

\* The owner deletes the entry, which tells the lamp nothing.
Abandon ==
  /\ Ours
  /\ record' = NoKey
  /\ stray' = TRUE
  /\ UNCHANGED owner

AppTakes ==
  /\ owner = NoKey
  /\ owner' = AppKey
  /\ UNCHANGED <<record, stray>>

Next == Write \/ Register \/ LetGo \/ Miss \/ Forget \/ Abandon \/ AppTakes

Spec == Init /\ [][Next]_vars

-----------------------------------------------------------------------------
\* A lamp of ours can be talked to, unless it is a stray.
Reachable == Ours /\ ~stray => record = owner
=============================================================================
