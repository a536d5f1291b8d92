----------------------------- MODULE NPUDriver ------------------------------
(***************************************************************************)
(* The NPU driver and its device (src/core/ecco9/drivers/npu_driver.go),   *)
(* called concurrently by the threads of Threads.                          *)
(*                                                                         *)
(* The driver's map holds at most one device, "npu0"; `current` is the id  *)
(* of the device in it (0: none).  Every Load creates a new device, so     *)
(* devices are numbered 1..created.  A thread keeps the pointer GetDevice  *)
(* gave it in `ref` and calls the device API through it, whether or not    *)
(* the device is still in the map.                                         *)
(*                                                                         *)
(* Each exported call that takes its lock, runs and releases it is one     *)
(* step.  The steps that wait while holding a lock are separate: Unload    *)
(* holds nd.mu while it takes each device's d.mu, IoCtl(NPU_CMD_RESET)     *)
(* holds d.mu while Reset takes d.mu again, and AssessSelf reads the       *)
(* device without the lock before it takes d.mu to store its result.      *)
(***************************************************************************)
EXTENDS Naturals, FiniteSets, NPUEntelechy

CONSTANTS
    Threads,    \* callers of the driver and device API
    Commands,   \* IoCtl commands the callers issue
    MaxLoads,   \* model bound on calls of Load
    HasLLM,     \* the llmManager passed to NewNPUDriver is non-nil
    NoThread    \* lock owner of a free lock

ASSUME NPUAssumption ==
    /\ IsFiniteSet(Threads) /\ NoThread \notin Threads
    /\ Commands \subseteq {"RESET", "LOAD_MODEL", "START_INF", "SOFT_STOP",
                           "INVALID"}
    /\ MaxLoads \in Nat \ {0}
    /\ HasLLM \in BOOLEAN

Devs == 1..MaxLoads

(* Bits of the STATUS register the code writes.                           *)
StatusBits == {"IDLE", "BUSY", "MODEL_READY"}

VARIABLES
    created,        \* devices created by Load so far
    current,        \* nd.devices["npu0"] (0: absent)
    ndMu,           \* writer holding nd.mu
    dMu,            \* d.mu of each device: its writer
    initialized,    \* d.initialized
    modelLoaded,    \* d.modelLoaded
    inferenceActive,\* d.inferenceActive
    prompted,       \* d.telemetry.TotalPrompts > 0
    status,         \* d.registers.Status, as a set of bits
    actualization,  \* d.actualizationLevel, in units of 1/6000
    ref,            \* the device pointer each thread holds (0: none)
    pc,             \* "idle", or the call a thread is inside
    assessing       \* the assessment an AssessSelf computed, not yet stored

vars == <<created, current, ndMu, dMu, initialized, modelLoaded,
          inferenceActive, prompted, status, actualization, ref, pc, assessing>>

devVars == <<initialized, modelLoaded, inferenceActive, prompted, status,
             actualization>>

Free(d) == dMu[d] = NoThread

(* The part of an NPUSelfAssessment the model keeps: OverallActualization *)
(* and CriticalIssues.                                                    *)
Assessments == [act : Nat, issues : SUBSET {"structure", "cognition",
                                            "integration", "fragmentation"}]

NoAssessment == [act |-> 0, issues |-> {}]

Init ==
    /\ created = 0
    /\ current = 0
    /\ ndMu = NoThread
    /\ dMu = [d \in Devs |-> NoThread]
    /\ initialized = [d \in Devs |-> FALSE]
    /\ modelLoaded = [d \in Devs |-> FALSE]
    /\ inferenceActive = [d \in Devs |-> FALSE]
    /\ prompted = [d \in Devs |-> FALSE]
    /\ status = [d \in Devs |-> {"IDLE"}]
    /\ actualization = [d \in Devs |-> 0]
    /\ ref = [t \in Threads |-> 0]
    /\ pc = [t \in Threads |-> "idle"]
    /\ assessing = [t \in Threads |-> NoAssessment]

-----------------------------------------------------------------------------
(* The driver: nd.mu.                                                     *)

(* Load: under nd.mu, NewNPUDevice("npu0") (Offline, STATUS = IDLE) is    *)
(* stored in the map, replacing the device there without shutting it      *)
(* down.                                                                  *)
Load(t) ==
    /\ pc[t] = "idle"
    /\ ndMu = NoThread
    /\ created < MaxLoads
    /\ created' = created + 1
    /\ current' = created + 1
    /\ UNCHANGED <<ndMu, dMu, devVars, ref, pc, assessing>>

(* Unload: take nd.mu ...                                                 *)
UnloadBegin(t) ==
    /\ pc[t] = "idle"
    /\ ndMu = NoThread
    /\ ndMu' = t
    /\ pc' = [pc EXCEPT ![t] = "unload"]
    /\ UNCHANGED <<created, current, dMu, devVars, ref, assessing>>

(* ... then Shutdown the device in the map under its d.mu (Shutdown never *)
(* fails), clear the map and release nd.mu.                               *)
ShutdownEffect(d) ==
    IF ~initialized[d]
    THEN UNCHANGED <<initialized, inferenceActive, status>>
    ELSE /\ inferenceActive' = [inferenceActive EXCEPT ![d] = FALSE]
         /\ initialized' = [initialized EXCEPT ![d] = FALSE]
         /\ status' = [status EXCEPT ![d] = {}]

UnloadEnd(t) ==
    /\ pc[t] = "unload"
    /\ current # 0 => Free(current)
    /\ IF current # 0 THEN ShutdownEffect(current)
       ELSE UNCHANGED <<initialized, inferenceActive, status>>
    /\ current' = 0
    /\ ndMu' = NoThread
    /\ pc' = [pc EXCEPT ![t] = "idle"]
    /\ UNCHANGED <<created, dMu, modelLoaded, prompted, actualization, ref,
                   assessing>>

(* GetDevice("npu0") / ListDevices under nd.mu.RLock: the caller keeps    *)
(* the pointer (0 on "not found").                                        *)
GetDevice(t) ==
    /\ pc[t] = "idle"
    /\ ndMu = NoThread
    /\ ref' = [ref EXCEPT ![t] = current]
    /\ UNCHANGED <<created, current, ndMu, dMu, devVars, pc, assessing>>

-----------------------------------------------------------------------------
(* The device, through the pointer a thread holds: d.mu.                  *)

(* performSelfTest writes MODEL_ID and SRAM and reads back what it wrote; *)
(* with no other writer under d.mu, it always passes.                     *)
SelfTestPasses == TRUE

(* Initialize: error if already initialized; else STATUS = IDLE, Ready,   *)
(* initialized.                                                           *)
Initialize(t) ==
    LET d == ref[t] IN
    /\ pc[t] = "idle" /\ d # 0 /\ Free(d)
    /\ ~initialized[d]
    /\ SelfTestPasses
    /\ status' = [status EXCEPT ![d] = {"IDLE"}]
    /\ initialized' = [initialized EXCEPT ![d] = TRUE]
    /\ UNCHANGED <<created, current, ndMu, dMu, modelLoaded, inferenceActive,
                   prompted, actualization, ref, pc, assessing>>

(* Shutdown, called directly.                                             *)
Shutdown(t) ==
    LET d == ref[t] IN
    /\ pc[t] = "idle" /\ d # 0 /\ Free(d)
    /\ ShutdownEffect(d)
    /\ UNCHANGED <<created, current, ndMu, dMu, modelLoaded, prompted,
                   actualization, ref, pc, assessing>>

(* Reset: fresh registers (STATUS = IDLE) and telemetry, no inference, no *)
(* model; initialized is left as it is.  (The DeviceState it sets to      *)
(* Ready is not modelled: no property reads it.)                          *)
ResetEffect(d) ==
    /\ status' = [status EXCEPT ![d] = {"IDLE"}]
    /\ prompted' = [prompted EXCEPT ![d] = FALSE]
    /\ inferenceActive' = [inferenceActive EXCEPT ![d] = FALSE]
    /\ modelLoaded' = [modelLoaded EXCEPT ![d] = FALSE]

Reset(t) ==
    LET d == ref[t] IN
    /\ pc[t] = "idle" /\ d # 0 /\ Free(d)
    /\ ResetEffect(d)
    /\ UNCHANGED <<created, current, ndMu, dMu, initialized, actualization,
                   ref, pc, assessing>>

(* loadModel: modelLoaded, STATUS = IDLE|MODEL_READY.                     *)
LoadModel(d) ==
    /\ modelLoaded' = [modelLoaded EXCEPT ![d] = TRUE]
    /\ status' = [status EXCEPT ![d] = {"IDLE", "MODEL_READY"}]
    /\ UNCHANGED <<inferenceActive, prompted>>

(* A mutant of StartInference: the modelLoaded check is dropped.          *)
StartInferenceUnguarded(d) ==
    /\ status' = [status EXCEPT ![d] = {"BUSY"}]
    /\ inferenceActive' = [inferenceActive EXCEPT ![d] = TRUE]
    /\ prompted' = [prompted EXCEPT ![d] = TRUE]
    /\ UNCHANGED modelLoaded

(* startInference: without a model, ERROR_CODE = MODEL_LOAD and an error; *)
(* else STATUS = BUSY, inferenceActive, and one more prompt counted.      *)
StartInference(d) ==
    IF ~modelLoaded[d]
    THEN UNCHANGED <<modelLoaded, inferenceActive, prompted, status>>
    ELSE /\ status' = [status EXCEPT ![d] = {"BUSY"}]
         /\ inferenceActive' = [inferenceActive EXCEPT ![d] = TRUE]
         /\ prompted' = [prompted EXCEPT ![d] = TRUE]
         /\ UNCHANGED modelLoaded

(* A mutant of SoftStop: STATUS is left as it was.                        *)
SoftStopKeepsStatus(d) ==
    /\ inferenceActive' = [inferenceActive EXCEPT ![d] = FALSE]
    /\ UNCHANGED <<modelLoaded, prompted, status>>

(* NPU_CMD_SOFT_STOP: no inference, STATUS = IDLE.                        *)
SoftStop(d) ==
    /\ inferenceActive' = [inferenceActive EXCEPT ![d] = FALSE]
    /\ status' = [status EXCEPT ![d] = {"IDLE"}]
    /\ UNCHANGED <<modelLoaded, prompted>>

(* IoCtl with any command but RESET, under d.mu.  It does not check       *)
(* initialized.  An unknown command only writes ERROR_CODE and fails.     *)
IoCtl(t, cmd) ==
    LET d == ref[t] IN
    /\ pc[t] = "idle" /\ d # 0 /\ Free(d)
    /\ CASE cmd = "LOAD_MODEL" -> LoadModel(d)
         [] cmd = "START_INF"  -> StartInference(d)
         [] cmd = "SOFT_STOP"  -> SoftStop(d)
         [] OTHER -> UNCHANGED <<modelLoaded, inferenceActive, prompted, status>>
    /\ UNCHANGED <<created, current, ndMu, dMu, initialized,
                   actualization, ref, pc, assessing>>

(* IoCtl(NPU_CMD_RESET): takes d.mu and calls d.Reset, whose d.mu.Lock() *)
(* waits for the lock the same goroutine holds (sync.RWMutex is not       *)
(* reentrant, and IoCtl's deferred Unlock runs only after Reset returns). *)
(* The caller stays in "reset", holding d.mu, for ever.                   *)
IoCtlReset(t) ==
    LET d == ref[t] IN
    /\ pc[t] = "idle" /\ d # 0 /\ Free(d)
    /\ dMu' = [dMu EXCEPT ![d] = t]
    /\ pc' = [pc EXCEPT ![t] = "reset"]
    /\ UNCHANGED <<created, current, ndMu, devVars, ref, assessing>>

(* AssessSelf, first part: the five assess* functions read initialized,   *)
(* modelLoaded and the telemetry without d.mu.                            *)
AssessRead(t) ==
    LET d == ref[t] IN
    /\ pc[t] = "idle" /\ d # 0
    /\ assessing' = [assessing EXCEPT ![t] =
          [act |-> Actualization(initialized[d], HasLLM, modelLoaded[d],
                                 prompted[d]),
           issues |-> CriticalIssues(initialized[d], HasLLM, modelLoaded[d],
                                     prompted[d])]]
    /\ pc' = [pc EXCEPT ![t] = "assess"]
    /\ UNCHANGED <<created, current, ndMu, dMu, devVars, ref>>

(* AssessSelf, last part: store actualizationLevel (and the equal         *)
(* fitnessScore) under d.mu.                                              *)
AssessStore(t) ==
    LET d == ref[t] IN
    /\ pc[t] = "assess"
    /\ Free(d)
    /\ actualization' = [actualization EXCEPT ![d] = assessing[t].act]
    /\ pc' = [pc EXCEPT ![t] = "idle"]
    /\ UNCHANGED <<created, current, ndMu, dMu, initialized, modelLoaded,
                   inferenceActive, prompted, status, ref, assessing>>

-----------------------------------------------------------------------------

Next ==
    \E t \in Threads :
        \/ Load(t) \/ UnloadBegin(t) \/ UnloadEnd(t) \/ GetDevice(t)
        \/ Initialize(t) \/ Shutdown(t) \/ Reset(t)
        \/ \E cmd \in Commands \ {"RESET"} : IoCtl(t, cmd)
        \/ "RESET" \in Commands /\ IoCtlReset(t)
        \/ AssessRead(t) \/ AssessStore(t)

(* A goroutine inside a call keeps running while the lock it waits for is *)
(* free: Go's sync.Mutex hands a contended lock to a waiter that has      *)
(* waited over 1 ms (starvation mode), so the waits are strongly fair.    *)
Fairness ==
    \A t \in Threads :
        /\ SF_vars(UnloadEnd(t))
        /\ SF_vars(AssessStore(t))

Spec == Init /\ [][Next]_vars /\ Fairness

-----------------------------------------------------------------------------
(* Properties.                                                            *)

TypeOK ==
    /\ created \in 0..MaxLoads
    /\ current \in 0..created
    /\ ndMu \in Threads \cup {NoThread}
    /\ dMu \in [Devs -> Threads \cup {NoThread}]
    /\ initialized \in [Devs -> BOOLEAN]
    /\ modelLoaded \in [Devs -> BOOLEAN]
    /\ inferenceActive \in [Devs -> BOOLEAN]
    /\ prompted \in [Devs -> BOOLEAN]
    /\ status \in [Devs -> SUBSET StatusBits]
    /\ actualization \in [Devs -> Nat]
    /\ ref \in [Threads -> 0..created]
    /\ pc \in [Threads -> {"idle", "unload", "reset", "assess"}]
    /\ assessing \in [Threads -> Assessments]

(* startInference refuses to run without a model, and every path that     *)
(* drops the model (Reset, from any caller, at any time) also stops the   *)
(* inference: a device never infers without a model loaded.               *)
InferenceNeedsModel ==
    \A d \in Devs : inferenceActive[d] => modelLoaded[d]

(* part_002: STATUS_BUSY means "Inference in progress".  Every write that *)
(* ends an inference (SOFT_STOP, Shutdown's STATUS = 0, Reset's new       *)
(* registers) also clears BUSY, so the register never reports a finished  *)
(* inference as running.                                                  *)
BusyMeansInference ==
    \A d \in Devs : "BUSY" \in status[d] => inferenceActive[d]

(* Whatever the interleaving of AssessSelf's unlocked reads with Load,    *)
(* Initialize, IoCtl, Shutdown and Reset, every assessment AssessSelf     *)
(* returns reports no critical issue, and every actualization a device    *)
(* stores is at the Mature stage.                                         *)
AssessedMature ==
    /\ \A t \in Threads : assessing[t].issues = {}
    /\ \A d \in Devs :
          actualization[d] # 0
              => DetermineActualizationStage(actualization[d]) = "Mature"

(* part_002: STATUS_BUSY means "Inference in progress", so a device that  *)
(* is inferring shows BUSY.                                               *)
InferenceReported ==
    \A d \in Devs : inferenceActive[d] => "BUSY" \in status[d]

(* Unload's comment: "Shutdown all devices".  Once the map is empty, no   *)
(* device is still inferring.                                             *)
UnloadStopsAll ==
    current = 0 => \A d \in 1..created : ~inferenceActive[d]

(* Every call of the device and driver API returns.                       *)
OpsReturn ==
    \A t \in Threads : pc[t] # "idle" ~> pc[t] = "idle"

=============================================================================
