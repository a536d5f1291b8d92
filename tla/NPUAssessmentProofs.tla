------------------------ MODULE NPUAssessmentProofs ------------------------
(***************************************************************************)
(* Proof that AssessSelf, whatever the interleaving of its unlocked reads *)
(* with the other driver and device calls, only ever returns and stores   *)
(* Mature assessments without critical issues (NPUDriver!AssessedMature), *)
(* for every set of threads, every set of commands, every bound on Load   *)
(* and both values of HasLLM.  It rests on the type invariant proved in   *)
(* NPUDriverProofs and on the arithmetic of npu_entelechy.go.             *)
(***************************************************************************)
EXTENDS NPUDriverProofs

-----------------------------------------------------------------------------
(* AssessedMature.                                                        *)

(* Every reading AssessSelf can take gives a Mature actualization and no  *)
(* critical issue: coherence is at least 15/30, cognition at least 16/30, *)
(* so the actualization lies between 3665 and 4255 (in 1/6000).           *)
LEMMA AssessmentMature ==
    ASSUME NEW i \in BOOLEAN, NEW l \in BOOLEAN, NEW m \in BOOLEAN,
           NEW p \in BOOLEAN
    PROVE  /\ Actualization(i, l, m, p) \in 3665..4255
           /\ CriticalIssues(i, l, m, p) = {}
<1>1. RoadmapAlignment = 6
  BY DEF RoadmapAlignment, PhaseCompletion
<1>2. EvolutionaryFitness = 65
  BY DEF EvolutionaryFitness, TODOCount, FIXMECount
<1> DEFINE coh == ArchitecturalCoherence(TRUE, i, l, TRUE, m)
           cog == OverallCognition(l, m, TRUE, p)
           int == OverallIntegration(TRUE, TRUE)
<1>3. /\ ~(coh < 15) /\ ~(cog < 12) /\ ~(int < 15) /\ ~(TODOCount > 15)
  BY DEF ArchitecturalCoherence, FoundationIntegrity, CoreCompleteness,
     SpecializedFeatures, OverallCognition, OverallIntegration, TODOCount
<1>4. Actualization(i, l, m, p) \in 3665..4255
  BY <1>1, <1>2 DEF Actualization, CalculateActualization,
     ArchitecturalCoherence, FoundationIntegrity, CoreCompleteness,
     SpecializedFeatures, OverallCognition, OverallIntegration
<1>5. CriticalIssues(i, l, m, p) = {}
  <2>1. CriticalIssues(i, l, m, p) = IdentifyCriticalIssues(coh, cog, int)
    BY DEF CriticalIssues
  <2> QED
    BY <1>3, <2>1, Zenon DEF IdentifyCriticalIssues
<1> QED
  BY <1>4, <1>5

(* The actualizations determineActualizationStage calls Mature: from    *)
(* 0.6 up to, not including, 0.8.                                         *)
MatureLevels == 3600..4799

LEMMA MatureRange ==
    ASSUME NEW a \in MatureLevels
    PROVE  DetermineActualizationStage(a) = "Mature"
BY DEF DetermineActualizationStage, MatureLevels

(* The inductive form of AssessedMature: the assessment a thread holds    *)
(* between AssessRead and AssessStore is itself Mature (or the initial    *)
(* empty one), since AssessStore copies it into actualization.            *)
MatureInv ==
    /\ \A t \in Threads :
          /\ assessing[t].issues = {}
          /\ assessing[t].act \in {0} \cup MatureLevels
    /\ \A d \in Devs : actualization[d] \in {0} \cup MatureLevels

(* MatureInv depends on assessing and actualization alone.               *)
LEMMA MatureFrame ==
    ASSUME MatureInv, UNCHANGED <<assessing, actualization>>
    PROVE  MatureInv'
BY DEF MatureInv

(* So every assessment AssessSelf computes is Mature, with no issue,     *)
(* stated of the values a and s it returns.                               *)
LEMMA AssessmentStage ==
    ASSUME NEW i \in BOOLEAN, NEW l \in BOOLEAN, NEW m \in BOOLEAN,
           NEW p \in BOOLEAN,
           NEW a, a = Actualization(i, l, m, p),
           NEW s, s = CriticalIssues(i, l, m, p)
    PROVE  a \in MatureLevels /\ s = {}
BY AssessmentMature DEF MatureLevels

(* Storing a Mature assessment without issues keeps MatureInv.           *)
LEMMA MatureRead ==
    ASSUME MatureInv, NEW t \in Threads, NEW a \in MatureLevels, NEW s, s = {},
           assessing' = [assessing EXCEPT ![t] = [act |-> a, issues |-> s]],
           UNCHANGED actualization
    PROVE  MatureInv'
BY DEF MatureInv, MatureLevels

(* AssessStore copies a MatureInv assessment into actualization.          *)
LEMMA MatureStore ==
    ASSUME MatureInv, NEW t \in Threads, NEW d \in Devs,
           actualization \in [Devs -> Nat],
           actualization' = [actualization EXCEPT ![d] = assessing[t].act],
           UNCHANGED assessing
    PROVE  MatureInv'
BY DEF MatureInv

LEMMA MatureInit == Init => MatureInv
BY DEF Init, MatureInv, NoAssessment

LEMMA MatureStep == TypeOK /\ MatureInv /\ [Next]_vars => MatureInv'
<1> SUFFICES ASSUME TypeOK, MatureInv, [Next]_vars PROVE MatureInv'
  OBVIOUS
<1> DEFINE Frame == UNCHANGED <<assessing, actualization>>
<1>0. Frame => MatureInv'
  BY MatureFrame
<1>1. ASSUME NEW t \in Threads,
             \/ Load(t) \/ UnloadBegin(t) \/ UnloadEnd(t) \/ GetDevice(t)
             \/ Initialize(t) \/ Shutdown(t) \/ Reset(t) \/ IoCtlReset(t)
      PROVE  Frame
  <2>1. ASSUME Load(t) PROVE Frame
    BY <2>1, Zenon DEF Load, devVars
  <2>2. ASSUME UnloadBegin(t) PROVE Frame
    BY <2>2, Zenon DEF UnloadBegin, devVars
  <2>3. ASSUME UnloadEnd(t) PROVE Frame
    BY <2>3, Zenon DEF UnloadEnd, ShutdownEffect, devVars
  <2>4. ASSUME GetDevice(t) PROVE Frame
    BY <2>4, Zenon DEF GetDevice, devVars
  <2>5. ASSUME Initialize(t) PROVE Frame
    BY <2>5, Zenon DEF Initialize
  <2>6. ASSUME Shutdown(t) PROVE Frame
    BY <2>6, Zenon DEF Shutdown, ShutdownEffect
  <2>7. ASSUME Reset(t) PROVE Frame
    BY <2>7, Zenon DEF Reset, ResetEffect
  <2>8. ASSUME IoCtlReset(t) PROVE Frame
    BY <2>8, Zenon DEF IoCtlReset, devVars
  <2> QED
    BY <1>1, <2>1, <2>2, <2>3, <2>4, <2>5, <2>6, <2>7, <2>8
<1>2. ASSUME NEW t \in Threads, NEW cmd \in Commands \ {"RESET"}, IoCtl(t, cmd)
      PROVE  Frame
  BY <1>2, Zenon DEF IoCtl, LoadModel, StartInference, SoftStop, devVars
<1>3. ASSUME NEW t \in Threads, AssessRead(t) PROVE MatureInv'
  <2> DEFINE d == ref[t]
  <2>0. UNCHANGED actualization
    BY <1>3 DEF AssessRead, devVars
  <2>1. assessing' = [assessing EXCEPT ![t] =
              [act |-> Actualization(initialized[d], HasLLM, modelLoaded[d],
                                     prompted[d]),
               issues |-> CriticalIssues(initialized[d], HasLLM,
                                         modelLoaded[d], prompted[d])]]
    BY <1>3, Zenon DEF AssessRead
  <2>2. PICK a : a = Actualization(initialized[d], HasLLM, modelLoaded[d],
                                   prompted[d])
    OBVIOUS
  <2>3. PICK s : s = CriticalIssues(initialized[d], HasLLM, modelLoaded[d],
                                    prompted[d])
    OBVIOUS
  <2>4. assessing' = [assessing EXCEPT ![t] = [act |-> a, issues |-> s]]
    BY <2>1, <2>2, <2>3
  <2>5. initialized[d] \in BOOLEAN /\ modelLoaded[d] \in BOOLEAN
        /\ prompted[d] \in BOOLEAN /\ HasLLM \in BOOLEAN
    <3>1. d \in Devs
      BY <1>3, NPUAssumption DEF AssessRead, TypeOK, Devs
    <3> QED
      BY <3>1, NPUAssumption DEF TypeOK
  <2>6. a \in MatureLevels /\ s = {}
    BY <2>2, <2>3, <2>5, AssessmentStage, Zenon
  <2> QED
    BY <2>0, <2>4, <2>6, MatureRead, Zenon
<1>4. ASSUME NEW t \in Threads, AssessStore(t) PROVE MatureInv'
  <2>1. /\ actualization' = [actualization EXCEPT ![ref[t]] = assessing[t].act]
        /\ UNCHANGED assessing
    BY <1>4, Zenon DEF AssessStore
  <2>2. actualization \in [Devs -> Nat]
    BY DEF TypeOK
  <2>3. CASE ref[t] \in Devs
    BY <2>1, <2>2, <2>3, MatureStore
  <2>4. CASE ref[t] \notin Devs
    <3>1. Frame
      BY <2>1, <2>2, <2>4
    <3> QED
      BY <1>0, <3>1
  <2> QED
    BY <2>3, <2>4
<1>5. CASE UNCHANGED vars
  BY <1>0, <1>5 DEF vars
<1> QED
  BY <1>0, <1>1, <1>2, <1>3, <1>4, <1>5 DEF Next

(* Whatever the interleaving of AssessSelf's unlocked reads with the      *)
(* other calls, every assessment AssessSelf returns reports no critical   *)
(* issue and every actualizationLevel a device stores is Mature: the      *)
(* arithmetic of npu_entelechy.go keeps every score between 0.61 and 0.71 *)
(* for every reading of initialized, modelLoaded and telemetry, and for  *)
(* both values of HasLLM.                                                 *)
THEOREM AssessedMatureHolds == Spec => []AssessedMature
<1>1. TypeOK /\ MatureInv /\ [Next]_vars => (TypeOK /\ MatureInv)'
  BY TypeStep, MatureStep
<1>2. Init => TypeOK /\ MatureInv
  BY TypeInit, MatureInit
<1>3. MatureInv => AssessedMature
  <2> SUFFICES ASSUME MatureInv, NEW d \in Devs, actualization[d] # 0
               PROVE  DetermineActualizationStage(actualization[d]) = "Mature"
    BY DEF MatureInv, AssessedMature
  <2>1. actualization[d] \in MatureLevels
    BY DEF MatureInv
  <2> QED
    BY <2>1, MatureRange
<1> QED
  BY <1>1, <1>2, <1>3, PTL DEF Spec

=============================================================================
