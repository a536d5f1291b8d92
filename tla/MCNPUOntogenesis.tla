-------------------------- MODULE MCNPUOntogenesis --------------------------
(* Constants of NPUOntogenesis for TLC.                                    *)
EXTENDS NPUOntogenesis

(* Three fitness levels, in hundredths; the top one meets the threshold.   *)
MCFitness == {20, 50, 90}

=============================================================================
