------------------------ MODULE MCEspressoSequencer ------------------------
(* Instances of EspressoSequencer for TLC. *)
EXTENDS EspressoSequencer

MCTsSteps == {-2, 1, 3}
=============================================================================
