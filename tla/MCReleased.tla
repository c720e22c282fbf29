---------------------------- MODULE MCReleased ----------------------------
(* The life of the entry, with a history of what fermob.unpair has done to the *)
(* lamp: what a release is worth once the entry is gone.                       *)
EXTENDS MCFermobEntry

VARIABLE released   \* history: an unpair of this entry has freed the lamp and discarded its keys

releasedVars == <<allVars, released>>

ReleasedInit == EntryInit /\ released = FALSE

\* UNREGISTER has been heard, and the record is deleted behind it.
Releases == DiscardKeys /\ lamp.key = NoKey

ReleasedNext ==
  /\ EntryNext
  /\ released' = (entry' # "gone" /\ (released \/ Releases))

ReleasedSpec == ReleasedInit /\ [][ReleasedNext]_releasedVars

-----------------------------------------------------------------------------
(* Properties *)

\* A lamp that fermob.unpair has released is free when its entry is gone, and can be
\* added again: "re-adding after fermob.unpair needs no factory reset".
ReleasedStaysFree ==
  [][released /\ entry # entry' /\ entry' = "gone" =>
       lamp.key \notin Keys \/ lamp.missed]_releasedVars
=============================================================================
