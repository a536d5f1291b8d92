--------------------------- MODULE MCAutonomousV4 ---------------------------
(***************************************************************************)
(* Small instances of AutonomousV4 for TLC.  Thresholds and rates keep the *)
(* code's defaults (NewAutonomousConsciousnessV4), except FatigueRate: one *)
(* model tick of cognitiveLoadMonitoring stands for 100 ticks of 5 s, so   *)
(* fatigue reaches the threshold in a few steps.                           *)
(***************************************************************************)
EXTENDS AutonomousV4

MCFatigueThreshold == 750     \* 0.75
MCMinWakeDuration == 1
MCFatigueRate == 1000         \* 0.01 per tick, times 100 ticks
MCRecoveryRate == 50          \* 0.05 per minute
MCWMCapacity == 2
MCFatigueCap == 1600
MCMaxDreams == 2

(* With a host call of Wake/Rest the dream durations and fatigue values   *)
(* multiply; a cap just above the threshold keeps that run small while    *)
(* the automatic trigger still fires (fatigue in 750..800).               *)
MCApiFatigueCap == 800

=============================================================================
