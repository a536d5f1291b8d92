---------------------------- MODULE NPUEntelechy ----------------------------
(***************************************************************************)
(* The NPU self-assessment arithmetic of                                   *)
(* src/core/ecco9/drivers/npu_entelechy.go, as pure operators of the       *)
(* device fields it reads.                                                 *)
(*                                                                         *)
(* The code computes in float64 with constants in tenths and weights in    *)
(* hundredths.  Here every score is an exact natural number in a fixed     *)
(* unit: tenths for the single readings, thirtieths for the averages of    *)
(* three, hundredths for EvolutionaryFitness, and 1/6000 for the overall   *)
(* actualization, the least unit in which every term is whole.  The        *)
(* float results differ from these by rounding only (below 1e-15).  Every *)
(* reachable actualization is at least 65/6000 from a stage threshold, so  *)
(* rounding cannot change a stage.  One reachable issue score sits on its  *)
(* threshold: an uninitialized device without a model has coherence       *)
(* (0.9 + 0.4 + 0.2) / 3 = 15/30, exactly the 0.5 of identifyCritical-     *)
(* Issues; float64 also evaluates it to 0.5, so the strict < 0.5 reports   *)
(* no "structure" issue in the code as here.  The other issue scores are   *)
(* far from theirs (cognition at least 16/30 against 12/30, integration   *)
(* 26/30 against 15/30).                                                   *)
(***************************************************************************)
EXTENDS Naturals, FiniteSets

(* ActualizationScale is the unit of the overall actualization: 1/6000.   *)
ActualizationScale == 6000

(* assessOntologicalDimension: FoundationIntegrity, CoreCompleteness and  *)
(* SpecializedFeatures in tenths; ArchitecturalCoherence, their mean, in  *)
(* thirtieths.  `structures` is registers != nil && sramRegion != nil,    *)
(* `hasTelemetry` is telemetry != nil.                                    *)
FoundationIntegrity(structures) == IF structures THEN 9 ELSE 3

CoreCompleteness(initialized, hasLLM) ==
    IF initialized /\ hasLLM THEN 8 ELSE 4

SpecializedFeatures(hasTelemetry, modelLoaded) ==
    (IF hasTelemetry THEN 2 ELSE 0) + (IF modelLoaded THEN 2 ELSE 0)

ArchitecturalCoherence(struct, init, llm, telemetry, model) ==
    FoundationIntegrity(struct) + CoreCompleteness(init, llm)
        + SpecializedFeatures(telemetry, model)

(* assessTeleologicalDimension: the five phase completions in tenths and  *)
(* their mean, RoadmapAlignment, in tenths.                               *)
PhaseCompletion == <<10, 8, 4, 6, 2>>

RoadmapAlignment ==
    (PhaseCompletion[1] + PhaseCompletion[2] + PhaseCompletion[3]
        + PhaseCompletion[4] + PhaseCompletion[5]) \div 5

(* assessCognitiveDimension: InferenceQuality, PerformanceIntelligence    *)
(* (0 when telemetry is nil, the field's zero value) and a MetaCognitive  *)
(* depth of 0.8, in tenths; OverallCognition, their mean, in thirtieths.  *)
(* `prompted` is telemetry.GetStats().TotalPrompts > 0.                   *)
OverallCognition(hasLLM, modelLoaded, hasTelemetry, prompted) ==
    (IF hasLLM /\ modelLoaded THEN 7 ELSE 3)
        + (IF ~hasTelemetry THEN 0 ELSE IF prompted THEN 8 ELSE 5)
        + 8

(* assessIntegrativeDimension: hardware 0.9 when registers and SRAM are   *)
(* present, software 0.9 for device type "npu", system unity 0.8; the     *)
(* mean in thirtieths.                                                    *)
OverallIntegration(structures, isNPU) ==
    (IF structures THEN 9 ELSE 0) + (IF isNPU THEN 9 ELSE 0) + 8

(* assessEvolutionaryDimension: TODOCount 8 and FIXMECount 2;             *)
(* EvolutionaryFitness = (0.6 + 0.9 - 10 * 0.02) / 2, in hundredths.      *)
TODOCount == 8
FIXMECount == 2

EvolutionaryFitness == (60 + 90 - (TODOCount + FIXMECount) * 2) \div 2

(* A mutant of CalculateActualization: the integration term is left out.  *)
CalculateActualizationNoIntegration(coh30, road10, cog30, int30, evo100) ==
    40 * coh30 + 150 * road10 + 50 * cog30 + 9 * evo100

(* calculateActualization: weights .20, .25, .25, .15, .15 applied to the *)
(* five scores, in units of 1/6000.                                       *)
CalculateActualization(coh30, road10, cog30, int30, evo100) ==
    40 * coh30 + 150 * road10 + 50 * cog30 + 30 * int30 + 9 * evo100

(* determineActualizationStage: thresholds 0.3, 0.6, 0.8.                 *)
DetermineActualizationStage(a) ==
    CASE a < 1800 -> "Embryonic"
      [] a < 3600 -> "Juvenile"
      [] a < 4800 -> "Mature"
      [] OTHER    -> "Transcendent"

(* identifyCriticalIssues: coherence below 0.5, cognition below 0.4,      *)
(* integration below 0.5, more than 15 TODOs.                             *)
IdentifyCriticalIssues(coherence30, cognition30, integration30) ==
    {i \in {"structure", "cognition", "integration", "fragmentation"} :
        \/ i = "structure" /\ coherence30 < 15
        \/ i = "cognition" /\ cognition30 < 12
        \/ i = "integration" /\ integration30 < 15
        \/ i = "fragmentation" /\ TODOCount > 15}

(* AssessSelf on a device whose registers, SRAM and telemetry exist and   *)
(* whose type is "npu" (NewNPUDevice and Reset always leave them so): the *)
(* actualization it computes from the three fields it reads.              *)
Actualization(initialized, hasLLM, modelLoaded, prompted) ==
    CalculateActualization(
        ArchitecturalCoherence(TRUE, initialized, hasLLM, TRUE, modelLoaded),
        RoadmapAlignment,
        OverallCognition(hasLLM, modelLoaded, TRUE, prompted),
        OverallIntegration(TRUE, TRUE),
        EvolutionaryFitness)

(* The critical issues AssessSelf reports from the same readings.        *)
CriticalIssues(initialized, hasLLM, modelLoaded, prompted) ==
    IdentifyCriticalIssues(
        ArchitecturalCoherence(TRUE, initialized, hasLLM, TRUE, modelLoaded),
        OverallCognition(hasLLM, modelLoaded, TRUE, prompted),
        OverallIntegration(TRUE, TRUE))

=============================================================================
