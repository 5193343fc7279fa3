-------------------------- MODULE MCSessionArchive --------------------------
(* Values for the runs of SessionArchive.                                  *)
EXTENDS ArchiveContract

CONSTANTS lab, home

OneArea == {lab}
TwoAreas == {lab, home}
=============================================================================
