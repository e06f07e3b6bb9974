------------------------------ MODULE MCSystem ------------------------------
(***************************************************************************)
(* Instances of System for TLC: batches of one event.                      *)
(***************************************************************************)
EXTENDS System

SingleBatches == {<<e>> : e \in {f \in Event : ~f.screened}}
=============================================================================
