-------------------------- MODULE NPUDriverProofs --------------------------
(***************************************************************************)
(* Proofs about NPUDriver for every set of threads, every set of IoCtl    *)
(* commands and every bound on Load: type correctness, the two device     *)
(* invariants InferenceNeedsModel and BusyMeansInference.                *)
(***************************************************************************)
EXTENDS NPUDriver, TLAPS

USE NPUAssumption DEF Devs

-----------------------------------------------------------------------------
(* The assessment arithmetic.                                             *)

(* Every actualization AssessSelf computes is a natural number.           *)
LEMMA ActualizationNat ==
    ASSUME NEW i \in BOOLEAN, NEW l \in BOOLEAN, NEW m \in BOOLEAN,
           NEW p \in BOOLEAN
    PROVE  Actualization(i, l, m, p) \in Nat
<1>1. RoadmapAlignment = 6
  BY DEF RoadmapAlignment, PhaseCompletion
<1>2. EvolutionaryFitness = 65
  BY DEF EvolutionaryFitness, TODOCount, FIXMECount
<1> QED
  BY <1>1, <1>2 DEF Actualization, CalculateActualization,
     ArchitecturalCoherence, FoundationIntegrity, CoreCompleteness,
     SpecializedFeatures, OverallCognition, OverallIntegration

(* The issues AssessSelf reports are among the four it knows.             *)
LEMMA IssuesTyped ==
    ASSUME NEW i \in BOOLEAN, NEW l \in BOOLEAN, NEW m \in BOOLEAN,
           NEW p \in BOOLEAN
    PROVE  CriticalIssues(i, l, m, p)
              \subseteq {"structure", "cognition", "integration",
                         "fragmentation"}
BY DEF CriticalIssues, IdentifyCriticalIssues

-----------------------------------------------------------------------------
(* Type correctness.                                                      *)

LEMMA TypeInit == Init => TypeOK
<1> SUFFICES ASSUME Init PROVE TypeOK
  OBVIOUS
<1>1. NoAssessment \in Assessments
  BY DEF NoAssessment, Assessments
<1>2. /\ created \in 0..MaxLoads /\ current \in 0..created
      /\ ref \in [Threads -> 0..created]
      /\ actualization \in [Devs -> Nat]
  BY DEF Init
<1>3. /\ status \in [Devs -> SUBSET StatusBits]
      /\ assessing \in [Threads -> Assessments]
  BY <1>1, Zenon DEF Init, StatusBits
<1> QED
  BY <1>2, <1>3, Zenon DEF Init, TypeOK

LEMMA TypeStep == TypeOK /\ [Next]_vars => TypeOK'
<1> SUFFICES ASSUME TypeOK, [Next]_vars PROVE TypeOK'
  OBVIOUS
<1>1. ASSUME NEW t \in Threads, Load(t) PROVE TypeOK'
  <2>1. created' \in 0..MaxLoads /\ current' \in 0..created'
    BY <1>1 DEF Load, TypeOK
  <2>2. ref' \in [Threads -> 0..created']
    BY <1>1 DEF Load, TypeOK
  <2> QED
    BY <1>1, <2>1, <2>2, Zenon DEF Load, TypeOK, devVars
<1>2. ASSUME NEW t \in Threads, UnloadBegin(t) PROVE TypeOK'
  BY <1>2, Zenon DEF UnloadBegin, TypeOK, devVars
<1>3. ASSUME NEW t \in Threads, UnloadEnd(t) PROVE TypeOK'
  <2>1. /\ current' \in 0..created'
        /\ pc' \in [Threads -> {"idle", "unload", "reset", "assess"}]
    BY <1>3 DEF UnloadEnd, TypeOK
  <2>2. /\ initialized' \in [Devs -> BOOLEAN]
        /\ inferenceActive' \in [Devs -> BOOLEAN]
        /\ status' \in [Devs -> SUBSET StatusBits]
    BY <1>3 DEF UnloadEnd, ShutdownEffect, TypeOK
  <2> QED
    BY <1>3, <2>1, <2>2, Zenon DEF UnloadEnd, TypeOK
<1>4. ASSUME NEW t \in Threads, GetDevice(t) PROVE TypeOK'
  <2>1. ref' \in [Threads -> 0..created']
    BY <1>4 DEF GetDevice, TypeOK
  <2> QED
    BY <1>4, <2>1, Zenon DEF GetDevice, TypeOK, devVars
<1>5. ASSUME NEW t \in Threads, Initialize(t) PROVE TypeOK'
  <2>1. /\ initialized' \in [Devs -> BOOLEAN]
        /\ status' \in [Devs -> SUBSET StatusBits]
    BY <1>5 DEF Initialize, TypeOK, StatusBits
  <2> QED
    BY <1>5, <2>1, Zenon DEF Initialize, TypeOK
<1>6. ASSUME NEW t \in Threads, Shutdown(t) PROVE TypeOK'
  <2>1. /\ initialized' \in [Devs -> BOOLEAN]
        /\ inferenceActive' \in [Devs -> BOOLEAN]
        /\ status' \in [Devs -> SUBSET StatusBits]
    BY <1>6 DEF Shutdown, ShutdownEffect, TypeOK
  <2> QED
    BY <1>6, <2>1, Zenon DEF Shutdown, TypeOK
<1>7. ASSUME NEW t \in Threads, Reset(t) PROVE TypeOK'
  <2>1. /\ modelLoaded' \in [Devs -> BOOLEAN]
        /\ inferenceActive' \in [Devs -> BOOLEAN]
        /\ prompted' \in [Devs -> BOOLEAN]
        /\ status' \in [Devs -> SUBSET StatusBits]
    BY <1>7 DEF Reset, ResetEffect, TypeOK, StatusBits
  <2> QED
    BY <1>7, <2>1, Zenon DEF Reset, TypeOK
<1>8. ASSUME NEW t \in Threads, NEW cmd \in Commands \ {"RESET"}, IoCtl(t, cmd)
      PROVE TypeOK'
  <2> DEFINE d == ref[t]
  <2> DEFINE DevTyped == /\ modelLoaded' \in [Devs -> BOOLEAN]
                        /\ inferenceActive' \in [Devs -> BOOLEAN]
                        /\ prompted' \in [Devs -> BOOLEAN]
                        /\ status' \in [Devs -> SUBSET StatusBits]
  <2>0. d \in Devs
    BY <1>8 DEF IoCtl, TypeOK
  <2>a. ASSUME cmd = "LOAD_MODEL" PROVE DevTyped
    <3>1. LoadModel(d)
      BY <1>8, <2>a, Zenon DEF IoCtl
    <3> QED
      BY <2>0, <3>1 DEF LoadModel, TypeOK, StatusBits
  <2>b. ASSUME cmd = "START_INF" PROVE DevTyped
    <3>1. StartInference(d)
      BY <1>8, <2>b, Zenon DEF IoCtl
    <3>2. CASE modelLoaded[d]
      <4>1. /\ status' = [status EXCEPT ![d] = {"BUSY"}]
            /\ inferenceActive' = [inferenceActive EXCEPT ![d] = TRUE]
            /\ prompted' = [prompted EXCEPT ![d] = TRUE]
            /\ UNCHANGED modelLoaded
        BY <3>1, <3>2, Zenon DEF StartInference
      <4> QED
        BY <2>0, <4>1 DEF TypeOK, StatusBits
    <3>3. CASE ~modelLoaded[d]
      BY <3>1, <3>3 DEF StartInference, TypeOK
    <3> QED
      BY <3>2, <3>3
  <2>c. ASSUME cmd = "SOFT_STOP" PROVE DevTyped
    <3>1. SoftStop(d)
      BY <1>8, <2>c, Zenon DEF IoCtl
    <3> QED
      BY <2>0, <3>1 DEF SoftStop, TypeOK, StatusBits
  <2>e. ASSUME cmd \notin {"LOAD_MODEL", "START_INF", "SOFT_STOP"} PROVE DevTyped
    <3>1. UNCHANGED <<modelLoaded, inferenceActive, prompted, status>>
      BY <1>8, <2>e, Zenon DEF IoCtl
    <3> QED
      BY <3>1 DEF TypeOK
  <2>1. DevTyped
    BY <2>a, <2>b, <2>c, <2>e, Zenon
  <2> QED
    BY <1>8, <2>1, Zenon DEF IoCtl, TypeOK
<1>9. ASSUME NEW t \in Threads, IoCtlReset(t) PROVE TypeOK'
  <2>1. /\ dMu' \in [Devs -> Threads \cup {NoThread}]
        /\ pc' \in [Threads -> {"idle", "unload", "reset", "assess"}]
    BY <1>9 DEF IoCtlReset, TypeOK
  <2> QED
    BY <1>9, <2>1, Zenon DEF IoCtlReset, TypeOK, devVars
<1>10. ASSUME NEW t \in Threads, AssessRead(t) PROVE TypeOK'
  <2> DEFINE d == ref[t]
  <2>1. d \in Devs
    BY <1>10 DEF AssessRead, TypeOK
  <2>2. /\ Actualization(initialized[d], HasLLM, modelLoaded[d], prompted[d])
             \in Nat
        /\ CriticalIssues(initialized[d], HasLLM, modelLoaded[d], prompted[d])
             \subseteq {"structure", "cognition", "integration",
                        "fragmentation"}
    BY <2>1, ActualizationNat, IssuesTyped DEF TypeOK
  <2>3. /\ assessing' \in [Threads -> Assessments]
        /\ pc' \in [Threads -> {"idle", "unload", "reset", "assess"}]
    BY <1>10, <2>2 DEF AssessRead, TypeOK, Assessments
  <2> QED
    BY <1>10, <2>3, Zenon DEF AssessRead, TypeOK, devVars
<1>11. ASSUME NEW t \in Threads, AssessStore(t) PROVE TypeOK'
  <2>1. /\ actualization' \in [Devs -> Nat]
        /\ pc' \in [Threads -> {"idle", "unload", "reset", "assess"}]
    BY <1>11 DEF AssessStore, TypeOK, Assessments
  <2> QED
    BY <1>11, <2>1, Zenon DEF AssessStore, TypeOK
<1>12. CASE UNCHANGED vars
  BY <1>12, Zenon DEF vars, TypeOK
<1> QED
  BY <1>1, <1>2, <1>3, <1>4, <1>5, <1>6, <1>7, <1>8, <1>9, <1>10, <1>11,
     <1>12 DEF Next

(* Every reachable state is well typed.                                   *)
THEOREM TypeCorrect == Spec => []TypeOK
BY TypeInit, TypeStep, PTL DEF Spec

-----------------------------------------------------------------------------
(* The device invariants.  Each is inductive, given the types: every step *)
(* that sets inferenceActive or BUSY (startInference) has a model and     *)
(* sets both; every step that drops the model (Reset) clears both; every  *)
(* step that clears inferenceActive (SOFT_STOP, Shutdown) clears BUSY.    *)

DeviceInv == InferenceNeedsModel /\ BusyMeansInference

LEMMA DeviceInit == Init => DeviceInv
BY DEF Init, DeviceInv, InferenceNeedsModel, BusyMeansInference

(* The device state after a step of ShutdownEffect keeps DeviceInv.        *)
LEMMA ShutdownKeeps ==
    ASSUME TypeOK, DeviceInv, NEW d \in Devs, ShutdownEffect(d),
           UNCHANGED modelLoaded
    PROVE  DeviceInv'
<1>1. CASE initialized[d]
  <2>1. /\ inferenceActive' = [inferenceActive EXCEPT ![d] = FALSE]
        /\ status' = [status EXCEPT ![d] = {}]
    BY <1>1, Zenon DEF ShutdownEffect
  <2> QED
    BY <2>1 DEF DeviceInv, InferenceNeedsModel, BusyMeansInference, TypeOK
<1>2. CASE ~initialized[d]
  <2>1. UNCHANGED <<inferenceActive, status>>
    BY <1>2, Zenon DEF ShutdownEffect
  <2> QED
    BY <2>1 DEF DeviceInv, InferenceNeedsModel, BusyMeansInference
<1> QED
  BY <1>1, <1>2

LEMMA DeviceStep == TypeOK /\ DeviceInv /\ [Next]_vars => DeviceInv'
<1> SUFFICES ASSUME TypeOK, DeviceInv, [Next]_vars PROVE DeviceInv'
  OBVIOUS
<1> DEFINE Frame == UNCHANGED <<modelLoaded, inferenceActive, status>>
<1>0. Frame => DeviceInv'
  BY DEF DeviceInv, InferenceNeedsModel, BusyMeansInference
<1>1. ASSUME NEW t \in Threads,
             \/ Load(t) \/ UnloadBegin(t) \/ GetDevice(t) \/ IoCtlReset(t)
             \/ AssessRead(t) \/ AssessStore(t) \/ Initialize(t)
      PROVE DeviceInv'
  <2>1. ASSUME Load(t) PROVE Frame
    BY <2>1, Zenon DEF Load, devVars
  <2>2. ASSUME UnloadBegin(t) PROVE Frame
    BY <2>2, Zenon DEF UnloadBegin, devVars
  <2>3. ASSUME GetDevice(t) PROVE Frame
    BY <2>3, Zenon DEF GetDevice, devVars
  <2>4. ASSUME IoCtlReset(t) PROVE Frame
    BY <2>4, Zenon DEF IoCtlReset, devVars
  <2>5. ASSUME AssessRead(t) PROVE Frame
    BY <2>5, Zenon DEF AssessRead, devVars
  <2>6. ASSUME AssessStore(t) PROVE Frame
    BY <2>6, Zenon DEF AssessStore, devVars
  <2>7. ASSUME Initialize(t) PROVE DeviceInv'
    <3>1. /\ ref[t] # 0
          /\ status' = [status EXCEPT ![ref[t]] = {"IDLE"}]
          /\ UNCHANGED <<modelLoaded, inferenceActive>>
      BY <2>7, Zenon DEF Initialize
    <3>2. ref[t] \in Devs
      BY <3>1 DEF TypeOK
    <3> QED
      BY <3>1, <3>2 DEF DeviceInv, InferenceNeedsModel, BusyMeansInference, TypeOK
  <2> QED
    BY <1>0, <1>1, <2>1, <2>2, <2>3, <2>4, <2>5, <2>6, <2>7
<1>2. ASSUME NEW t \in Threads, UnloadEnd(t) PROVE DeviceInv'
  <2>1. CASE current # 0
    <3>1. current \in Devs
      BY <2>1 DEF TypeOK
    <3>2. ShutdownEffect(current) /\ UNCHANGED modelLoaded
      BY <1>2, <2>1, Zenon DEF UnloadEnd
    <3> QED
      BY <3>1, <3>2, ShutdownKeeps
  <2>2. CASE current = 0
    <3>1. Frame
      BY <1>2, <2>2, Zenon DEF UnloadEnd
    <3> QED
      BY <1>0, <3>1
  <2> QED
    BY <2>1, <2>2
<1>3. ASSUME NEW t \in Threads, Shutdown(t) PROVE DeviceInv'
  <2>1. ref[t] \in Devs
    BY <1>3 DEF Shutdown, TypeOK
  <2>2. ShutdownEffect(ref[t]) /\ UNCHANGED modelLoaded
    BY <1>3, Zenon DEF Shutdown
  <2> QED
    BY <2>1, <2>2, ShutdownKeeps
<1>4. ASSUME NEW t \in Threads, Reset(t) PROVE DeviceInv'
  <2>1. ref[t] \in Devs
    BY <1>4 DEF Reset, TypeOK
  <2>2. ResetEffect(ref[t])
    BY <1>4, Zenon DEF Reset
  <2> QED
    BY <2>1, <2>2 DEF ResetEffect, DeviceInv, InferenceNeedsModel,
       BusyMeansInference, TypeOK
<1>5. ASSUME NEW t \in Threads, NEW cmd \in Commands \ {"RESET"}, IoCtl(t, cmd)
      PROVE DeviceInv'
  <2> DEFINE d == ref[t]
  <2>0. d \in Devs
    BY <1>5 DEF IoCtl, TypeOK
  <2>a. CASE cmd = "LOAD_MODEL"
    <3>1. LoadModel(d)
      BY <1>5, <2>a, Zenon DEF IoCtl
    <3> QED
      BY <2>0, <3>1 DEF LoadModel, DeviceInv, InferenceNeedsModel,
         BusyMeansInference, TypeOK
  <2>b. CASE cmd = "START_INF"
    <3>1. StartInference(d)
      BY <1>5, <2>b, Zenon DEF IoCtl
    <3>2. CASE modelLoaded[d]
      <4>1. /\ status' = [status EXCEPT ![d] = {"BUSY"}]
            /\ inferenceActive' = [inferenceActive EXCEPT ![d] = TRUE]
            /\ UNCHANGED modelLoaded
        BY <3>1, <3>2, Zenon DEF StartInference
      <4> QED
        BY <2>0, <3>2, <4>1 DEF DeviceInv, InferenceNeedsModel,
           BusyMeansInference, TypeOK
    <3>3. CASE ~modelLoaded[d]
      BY <1>0, <3>1, <3>3, Zenon DEF StartInference
    <3> QED
      BY <3>2, <3>3
  <2>c. CASE cmd = "SOFT_STOP"
    <3>1. SoftStop(d)
      BY <1>5, <2>c, Zenon DEF IoCtl
    <3> QED
      BY <2>0, <3>1 DEF SoftStop, DeviceInv, InferenceNeedsModel,
         BusyMeansInference, TypeOK
  <2>e. CASE cmd \notin {"LOAD_MODEL", "START_INF", "SOFT_STOP"}
    <3>1. Frame
      BY <1>5, <2>e, Zenon DEF IoCtl
    <3> QED
      BY <1>0, <3>1
  <2> QED
    BY <2>a, <2>b, <2>c, <2>e
<1>6. CASE UNCHANGED vars
  BY <1>0, <1>6 DEF vars
<1> QED
  BY <1>1, <1>2, <1>3, <1>4, <1>5, <1>6 DEF Next

(* startInference's modelLoaded check, together with Reset clearing both  *)
(* flags: no device infers without a model, for any number of threads.    *)
THEOREM InferenceNeedsModelHolds == Spec => []InferenceNeedsModel
<1>1. TypeOK /\ DeviceInv /\ [Next]_vars => (TypeOK /\ DeviceInv)'
  BY TypeStep, DeviceStep
<1>2. Init => TypeOK /\ DeviceInv
  BY TypeInit, DeviceInit
<1> QED
  BY <1>1, <1>2, PTL DEF Spec, DeviceInv

(* SOFT_STOP, Shutdown and Reset all clear STATUS_BUSY when they end an   *)
(* inference: the register never shows a finished inference as running.  *)
THEOREM BusyMeansInferenceHolds == Spec => []BusyMeansInference
<1>1. TypeOK /\ DeviceInv /\ [Next]_vars => (TypeOK /\ DeviceInv)'
  BY TypeStep, DeviceStep
<1>2. Init => TypeOK /\ DeviceInv
  BY TypeInit, DeviceInit
<1> QED
  BY <1>1, <1>2, PTL DEF Spec, DeviceInv

=============================================================================
