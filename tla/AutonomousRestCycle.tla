------------------------- MODULE AutonomousRestCycle -------------------------
(***************************************************************************)
(* What the wake/rest/dream scheduler of AutonomousConsciousnessV4          *)
(* promises about fatigue, with the goroutines abstracted away: fatigue    *)
(* grows only while awake; a rest begins only from an awake, fatigued      *)
(* system with no earlier rest still to recover; every rest drains        *)
(* fatigue to zero once; waking cuts fatigue to 30%.                      *)
(*                                                                         *)
(* drainDue is TRUE between the start of a rest (Rest) and the recovery    *)
(* step of the dreamCycle goroutine it spawned.                           *)
(***************************************************************************)
EXTENDS Naturals

CONSTANT FatigueThreshold   \* dreamTrigger.fatigueThreshold, thousandths

VARIABLES awake, fatigue, drainDue

rcvars == <<awake, fatigue, drainDue>>

(* Wake: fatigueLevel *= 0.3, in thousandths.                             *)
CutFatigue(f) == (f * 3) \div 10

Init ==
    /\ awake = FALSE
    /\ fatigue = 0
    /\ drainDue = FALSE

(* cognitiveLoadMonitoring: fatigue accumulates, only while awake.        *)
Tire ==
    /\ awake
    /\ fatigue' \in Nat
    /\ fatigue' >= fatigue
    /\ UNCHANGED <<awake, drainDue>>

(* Rest, called by automaticDreamTriggerLoop once shouldInitiateRest      *)
(* holds: the system goes to sleep and a drain becomes due.               *)
Rest ==
    /\ awake
    /\ ~drainDue
    /\ fatigue >= FatigueThreshold
    /\ awake' = FALSE
    /\ drainDue' = TRUE
    /\ UNCHANGED fatigue

(* dreamCycle's recovery after the rest: fatigue is cleared.              *)
Drain ==
    /\ drainDue
    /\ drainDue' = FALSE
    /\ fatigue' = 0
    /\ UNCHANGED awake

(* Wake, from not awake: fatigue is cut to 30%.                           *)
Wake ==
    /\ ~awake
    /\ awake' = TRUE
    /\ fatigue' = CutFatigue(fatigue)
    /\ UNCHANGED drainDue

Next == Tire \/ Rest \/ Drain \/ Wake

Spec == Init /\ [][Next]_rcvars

=============================================================================
