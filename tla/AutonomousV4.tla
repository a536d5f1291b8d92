---------------------------- MODULE AutonomousV4 ----------------------------
(***************************************************************************)
(* The wake/rest/dream scheduler of AutonomousConsciousnessV4             *)
(* (src/unnamed/part_001, package deeptreeecho).                           *)
(*                                                                         *)
(* Actors: the host goroutine calling Start/Stop (and, up to MaxHostCalls  *)
(* times, the exported Wake/Rest); the goroutines Start spawns for the loops      *)
(* consciousnessIntegrationLoop, cognitiveLoadMonitoring,                  *)
(* automaticDreamTriggerLoop and skillPracticeLoop; one dreamCycle         *)
(* goroutine per call of Rest; and the environment (discussions, time).    *)
(*                                                                         *)
(* Load and fatigue are float64 in [0,1] in the code; here they are        *)
(* integers in thousandths (Scale = 1000), truncated where the code's      *)
(* float is converted or multiplied.                                       *)
(***************************************************************************)
EXTENDS Naturals, FiniteSets

CONSTANTS
    FatigueThreshold,   \* dreamTrigger.fatigueThreshold, thousandths (0.75)
    MinWakeDuration,    \* dreamTrigger.minWakeDuration, in time steps
    FatigueRate,        \* loadManager.fatigueRate, thousandths per tick (0.01)
    RecoveryRate,       \* loadManager.recoveryRate, thousandths per minute (0.05)
    WMCapacity,         \* workingMemory.capacity (7)
    FatigueCap,         \* model bound on fatigue, so the state space is finite
    MaxDreams,          \* model bound on dreamCycle goroutines alive at once
    MaxHostCalls        \* model bound on host calls of the exported Wake/Rest

Scale == 1000

ASSUME ConstantsAssumption ==
    /\ FatigueThreshold \in 1..Scale
    /\ MinWakeDuration \in Nat
    /\ FatigueRate \in Nat \ {0}
    /\ RecoveryRate \in 1..Scale
    /\ WMCapacity \in Nat \ {0}
    /\ FatigueCap \in Nat
    /\ MaxDreams \in Nat \ {0}
    /\ MaxHostCalls \in Nat

VARIABLES
    running,      \* ac.running
    awake,        \* ac.awake
    cancelled,    \* ac.ctx has been cancelled (ac.cancel(), never renewed)
    spawned,      \* Start has reached the `go ...Loop()` statements once
    hostPc,       \* host goroutine: "idle" or "starting" (inside Start)
    hostCalls,    \* host calls of Wake/Rest so far
    triggerPc,    \* automaticDreamTriggerLoop: "idle" or "rest" (about to Rest())
    wmLen,        \* len(workingMemory.buffer)
    load,         \* loadManager.currentLoad
    fatigue,      \* loadManager.fatigueLevel
    wakeElapsed,  \* time.Since(ac.startTime), saturated at MinWakeDuration
    discussion,   \* discussionMgr.HasActiveDiscussions()
    practicing,   \* skills.IsCurrentlyPracticing()
    dreams        \* dreamCycle goroutines: slot -> [pc, dur]

vars == <<running, awake, cancelled, spawned, hostPc, hostCalls, triggerPc, wmLen, load,
          fatigue, wakeElapsed, discussion, practicing, dreams>>

DreamId == 1..MaxDreams

(* Program points of a dreamCycle goroutine; "none" marks a free slot.    *)
DreamPc == {"none", "enter", "asleep", "exit", "wake"}

(* Dream goroutines that have been spawned and have not yet returned.     *)
InFlight == {i \in DreamId : dreams[i].pc # "none"}

(* Dream goroutines between EnterDream and ExitDream.                     *)
Dreaming == {i \in DreamId : dreams[i].pc \in {"asleep", "exit"}}

(* The loops run their ticks while their context is live.                 *)
JobsRun == spawned /\ ~cancelled

-----------------------------------------------------------------------------
(* The load/fatigue model.                                                *)

(* calculateCurrentLoad: base 0.1, working memory 0.3 * len/capacity,     *)
(* active discussion 0.4, skill practice 0.3, capped at 1.0.              *)
CalculateCurrentLoad(wm, disc, prac) ==
    LET total == 100 + (300 * wm) \div WMCapacity
                     + (IF disc THEN 400 ELSE 0) + (IF prac THEN 300 ELSE 0)
    IN  IF total > Scale THEN Scale ELSE total

(* A mutant of RestDuration: fatigue scaled by 6 instead of 60 minutes.   *)
RestDurationTenth(f) ==
    LET d == (f * 6) \div Scale
    IN  IF d < 5 THEN 5 ELSE IF d > 120 THEN 120 ELSE d

(* Rest: restDuration = time.Duration(fatigue*60) minutes, clamped to     *)
(* [5 min, 2 h]; the float is truncated to whole minutes.                 *)
RestDuration(f) ==
    LET d == (f * 60) \div Scale
    IN  IF d < 5 THEN 5 ELSE IF d > 120 THEN 120 ELSE d

(* A mutant of Recover: the clamp to zero is dropped.                     *)
RecoverNoClamp(f, d) == (f * (Scale - RecoveryRate * d)) \div Scale

(* dreamCycle: fatigueLevel *= 1 - recoveryRate*minutes, clamped at 0.    *)
Recover(f, d) ==
    IF RecoveryRate * d >= Scale THEN 0
    ELSE (f * (Scale - RecoveryRate * d)) \div Scale

(* Wake: fatigueLevel *= 0.3.                                             *)
WakeFatigue(f) == (f * 3) \div 10

(* cognitiveLoadMonitoring: fatigueLevel += currentLoad * fatigueRate.    *)
Accumulate(f, l) == f + (l * FatigueRate) \div Scale

(* A mutant of ShouldInitiateRest: the fatigue check is dropped.          *)
ShouldInitiateRestNoFatigue ==
    /\ wakeElapsed >= MinWakeDuration
    /\ ~discussion

(* shouldInitiateRest: fatigue >= threshold, awake at least               *)
(* minWakeDuration, and no active discussion.                             *)
ShouldInitiateRest ==
    /\ fatigue >= FatigueThreshold
    /\ wakeElapsed >= MinWakeDuration
    /\ ~discussion

-----------------------------------------------------------------------------
(* Wake and Rest, as the steps of whichever goroutine calls them.         *)

(* Wake: under ac.mu, return if awake; else set awake, reset startTime    *)
(* and cut fatigue to 30%.                                                *)
Wake ==
    IF awake
    THEN UNCHANGED <<awake, wakeElapsed, fatigue>>
    ELSE /\ awake' = TRUE
         /\ wakeElapsed' = 0
         /\ fatigue' = WakeFatigue(fatigue)

(* Rest: under ac.mu, return if not awake; else clear awake, compute the  *)
(* rest duration from fatigue and spawn a dreamCycle goroutine.           *)
Rest ==
    IF ~awake
    THEN UNCHANGED <<awake, dreams>>
    ELSE /\ awake' = FALSE
         /\ \E i \in DreamId :
               /\ dreams[i].pc = "none"
               /\ dreams' = [dreams EXCEPT
                               ![i] = [pc |-> "enter",
                                       dur |-> RestDuration(fatigue)]]

-----------------------------------------------------------------------------
(* The host: Start and Stop.                                              *)

Init ==
    /\ running = FALSE
    /\ awake = FALSE
    /\ cancelled = FALSE
    /\ spawned = FALSE
    /\ hostPc = "idle"
    /\ hostCalls = 0
    /\ triggerPc = "idle"
    /\ wmLen = 0
    /\ load = 0
    /\ fatigue = 0
    /\ wakeElapsed = 0
    /\ discussion = FALSE
    /\ practicing = FALSE
    /\ dreams = [i \in DreamId |-> [pc |-> "none", dur |-> 0]]

(* Start, first critical section: fail if running, else set running and   *)
(* startTime.                                                             *)
StartBegin ==
    /\ hostPc = "idle"
    /\ ~running
    /\ running' = TRUE
    /\ wakeElapsed' = 0
    /\ hostPc' = "starting"
    /\ UNCHANGED <<awake, cancelled, spawned, hostCalls, triggerPc, wmLen, load, fatigue,
                   discussion, practicing, dreams>>

(* Start, rest: starting a component fails (return, running stays TRUE),  *)
(* or the loops are spawned on ac.ctx and Wake() is called.               *)
StartEnd ==
    /\ hostPc = "starting"
    /\ hostPc' = "idle"
    /\ \/ UNCHANGED <<awake, spawned, wakeElapsed, fatigue>>
       \/ /\ spawned' = TRUE
          /\ Wake
    /\ UNCHANGED <<running, cancelled, hostCalls, triggerPc, wmLen, load,
                   discussion, practicing, dreams>>

(* Stop: fail if not running; else clear running, save, cancel ctx.       *)
(* ac.awake is left as it is.                                             *)
Stop ==
    /\ hostPc = "idle"
    /\ running
    /\ running' = FALSE
    /\ cancelled' = TRUE
    /\ UNCHANGED <<awake, spawned, hostPc, hostCalls, triggerPc, wmLen, load, fatigue,
                   wakeElapsed, discussion, practicing, dreams>>

(* The exported Wake and Rest called by the host.                         *)
HostWake ==
    /\ hostCalls < MaxHostCalls
    /\ hostPc = "idle"
    /\ hostCalls' = hostCalls + 1
    /\ Wake
    /\ UNCHANGED <<running, cancelled, spawned, hostPc, triggerPc, wmLen, load,
                   discussion, practicing, dreams>>

HostRest ==
    /\ hostCalls < MaxHostCalls
    /\ hostPc = "idle"
    /\ hostCalls' = hostCalls + 1
    /\ Rest
    /\ UNCHANGED <<running, cancelled, spawned, hostPc, triggerPc, wmLen, load,
                   fatigue, wakeElapsed, discussion, practicing>>

-----------------------------------------------------------------------------
(* The loops.                                                             *)

(* consciousnessIntegrationLoop tick: when awake, maybe a thought emerges *)
(* (appended to working memory, oldest dropped past capacity); then the  *)
(* load is recomputed and stored.                                         *)
IntegrationTick ==
    /\ JobsRun
    /\ awake
    /\ \E emerged \in BOOLEAN :
          LET wm == IF emerged /\ wmLen < WMCapacity THEN wmLen + 1 ELSE wmLen
          IN  /\ wmLen' = wm
              /\ load' = CalculateCurrentLoad(wm, discussion, practicing)
    /\ UNCHANGED <<running, awake, cancelled, spawned, hostPc, hostCalls, triggerPc,
                   fatigue, wakeElapsed, discussion, practicing, dreams>>

(* cognitiveLoadMonitoring tick: under loadManager.mu, accumulate fatigue *)
(* if awake (the snapshot history is not modelled).                       *)
LoadMonitorTick ==
    /\ JobsRun
    /\ awake
    /\ Accumulate(fatigue, load) <= FatigueCap
    /\ fatigue' = Accumulate(fatigue, load)
    /\ UNCHANGED <<running, awake, cancelled, spawned, hostPc, hostCalls, triggerPc, wmLen,
                   load, wakeElapsed, discussion, practicing, dreams>>

(* automaticDreamTriggerLoop tick: enabled and awake, and                 *)
(* shouldInitiateRest holds; the goroutine then goes on to call Rest().   *)
TriggerCheck ==
    /\ JobsRun
    /\ triggerPc = "idle"
    /\ awake
    /\ ShouldInitiateRest
    /\ triggerPc' = "rest"
    /\ UNCHANGED <<running, awake, cancelled, spawned, hostPc, hostCalls, wmLen, load,
                   fatigue, wakeElapsed, discussion, practicing, dreams>>

(* automaticDreamTriggerLoop: the call ac.Rest() after the check.         *)
TriggerRest ==
    /\ triggerPc = "rest"
    /\ triggerPc' = "idle"
    /\ Rest
    /\ UNCHANGED <<running, cancelled, spawned, hostPc, hostCalls, wmLen, load, fatigue,
                   wakeElapsed, discussion, practicing>>

(* skillPracticeLoop tick: when awake, SchedulePractice may start or end  *)
(* a practice session.                                                    *)
SkillPracticeTick ==
    /\ JobsRun
    /\ awake
    /\ practicing' \in BOOLEAN
    /\ UNCHANGED <<running, awake, cancelled, spawned, hostPc, hostCalls, triggerPc,
                   wmLen, load, fatigue, wakeElapsed, discussion, dreams>>

-----------------------------------------------------------------------------
(* A dreamCycle goroutine.                                                *)

(* dream.EnterDream, then the consolidation/practice/extraction calls.    *)
DreamEnter(i) ==
    /\ dreams[i].pc = "enter"
    /\ dreams' = [dreams EXCEPT ![i].pc = "asleep"]
    /\ UNCHANGED <<running, awake, cancelled, spawned, hostPc, hostCalls, triggerPc, wmLen,
                   load, fatigue, wakeElapsed, discussion, practicing>>

(* After time.Sleep(duration): recover fatigue under loadManager.mu.      *)
DreamRecover(i) ==
    /\ dreams[i].pc = "asleep"
    /\ dreams' = [dreams EXCEPT ![i].pc = "exit"]
    /\ fatigue' = Recover(fatigue, dreams[i].dur)
    /\ UNCHANGED <<running, awake, cancelled, spawned, hostPc, hostCalls, triggerPc, wmLen,
                   load, wakeElapsed, discussion, practicing>>

(* dream.ExitDream.                                                       *)
DreamExit(i) ==
    /\ dreams[i].pc = "exit"
    /\ dreams' = [dreams EXCEPT ![i].pc = "wake"]
    /\ UNCHANGED <<running, awake, cancelled, spawned, hostPc, hostCalls, triggerPc, wmLen,
                   load, fatigue, wakeElapsed, discussion, practicing>>

(* A mutant of DreamWake: the goroutine returns without calling Wake().   *)
DreamWakeSkipped(i) ==
    /\ dreams[i].pc = "wake"
    /\ dreams' = [dreams EXCEPT ![i] = [pc |-> "none", dur |-> 0]]
    /\ UNCHANGED <<running, awake, cancelled, spawned, hostPc, hostCalls, triggerPc, wmLen,
                   load, fatigue, wakeElapsed, discussion, practicing>>

(* The auto-wake ac.Wake() that ends dreamCycle.                          *)
DreamWake(i) ==
    /\ dreams[i].pc = "wake"
    /\ dreams' = [dreams EXCEPT ![i] = [pc |-> "none", dur |-> 0]]
    /\ Wake
    /\ UNCHANGED <<running, cancelled, spawned, hostPc, hostCalls, triggerPc, wmLen, load,
                   discussion, practicing>>

-----------------------------------------------------------------------------
(* The environment.                                                       *)

(* A discussion opens or closes (DiscussionManager, outside src/).        *)
DiscussionChange ==
    /\ discussion' = ~discussion
    /\ UNCHANGED <<running, awake, cancelled, spawned, hostPc, hostCalls, triggerPc, wmLen,
                   load, fatigue, wakeElapsed, practicing, dreams>>

(* Wall-clock time passes; only whether minWakeDuration has elapsed since *)
(* startTime is observable.                                               *)
TimePasses ==
    /\ wakeElapsed < MinWakeDuration
    /\ wakeElapsed' = wakeElapsed + 1
    /\ UNCHANGED <<running, awake, cancelled, spawned, hostPc, hostCalls, triggerPc, wmLen,
                   load, fatigue, discussion, practicing, dreams>>

DreamStep(i) ==
    DreamEnter(i) \/ DreamRecover(i) \/ DreamExit(i) \/ DreamWake(i)

Next ==
    \/ StartBegin \/ StartEnd \/ Stop \/ HostWake \/ HostRest
    \/ IntegrationTick \/ LoadMonitorTick \/ TriggerCheck \/ TriggerRest
    \/ SkillPracticeTick
    \/ \E i \in DreamId : DreamStep(i)
    \/ DiscussionChange \/ TimePasses

Spec == Init /\ [][Next]_vars

-----------------------------------------------------------------------------
(* Properties.                                                            *)

(* Every variable has the range the code gives it; in particular fatigue  *)
(* never goes negative although dreamCycle multiplies it by              *)
(* 1 - recoveryRate*minutes, which is negative for rests over 20 minutes. *)
TypeOK ==
    /\ running \in BOOLEAN
    /\ awake \in BOOLEAN
    /\ cancelled \in BOOLEAN
    /\ spawned \in BOOLEAN
    /\ hostPc \in {"idle", "starting"}
    /\ hostCalls \in 0..MaxHostCalls
    /\ triggerPc \in {"idle", "rest"}
    /\ wmLen \in 0..WMCapacity
    /\ load \in 0..Scale
    /\ fatigue \in 0..FatigueCap
    /\ wakeElapsed \in 0..MinWakeDuration
    /\ discussion \in BOOLEAN
    /\ practicing \in BOOLEAN
    /\ dreams \in [DreamId -> [pc : DreamPc, dur : Nat]]

(* Once Start has spawned the loops, the system is never asleep for good: *)
(* whenever it is not awake some dreamCycle goroutine is alive, and that  *)
(* goroutine ends by calling Wake() (Rest, dreamCycle, Wake).             *)
NeverStuckAsleep ==
    spawned => (awake \/ InFlight # {})

(* A rest cycle started by automaticDreamTriggerLoop always drains fatigue *)
(* to zero: the dreamCycle recovery step leaves fatigueLevel = 0, because *)
(* fatigue >= fatigueThreshold gives a rest of at least 20 minutes at     *)
(* recoveryRate 0.05 (Rest's duration formula and dreamCycle's recovery). *)
DreamDrainsFatigue ==
    [][\A i \in DreamId :
         (dreams[i].pc = "asleep" /\ dreams'[i].pc = "exit") => fatigue' = 0]_vars

(* Spec section 3: fatigue stays within [0,1] after every write.          *)
FatigueBounded == fatigue <= Scale

(* Spec section 4.3: no job mutates the shared state after Stop() has     *)
(* returned (checked while no Start is under way).                        *)
QuiescentAfterStop ==
    [][(~running /\ ~running') => UNCHANGED <<awake, fatigue>>]_vars

(* Spec section 3: exactly one phase at a time, so the system is never    *)
(* Awake while a dream cycle is between EnterDream and ExitDream.         *)
AwakeExcludesDreaming == awake => Dreaming = {}

(* Spec section 4.1: rest is never entered by the automatic trigger while *)
(* an interactive session (discussion) is active.                         *)
RestRespectsDiscussion ==
    [][(triggerPc = "rest" /\ awake /\ ~awake') => ~discussion]_vars


-----------------------------------------------------------------------------
(* Refinement of the abstract rest cycle.  A drain is due while some      *)
(* dreamCycle goroutine has not yet reached its recovery step.            *)
DrainDue == \E i \in DreamId : dreams[i].pc \in {"enter", "asleep"}

RC == INSTANCE AutonomousRestCycle WITH drainDue <- DrainDue

(* The scheduler implements AutonomousRestCycle: fatigue grows only while *)
(* awake, the automatic trigger rests only an awake, fatigued system with *)
(* no rest still to recover, each dreamCycle recovery clears fatigue, and *)
(* Wake cuts it to 30% (cognitiveLoadMonitoring, automaticDreamTrigger-   *)
(* Loop, Rest, dreamCycle, Wake).                                         *)
RestCycleSpec == RC!Spec

=============================================================================
