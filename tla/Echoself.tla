------------------------------ MODULE Echoself ------------------------------
(***************************************************************************)
(* The lifecycle of AutonomousEchoself (src/core/autonomous_echoself.go).  *)
(*                                                                         *)
(* Actors: host goroutines (Callers) calling Start and Stop; the           *)
(* autonomousLifeCycle goroutine each successful Start spawns (one per     *)
(* caller at most, kept in the caller's slot); the goroutine initiateDream *)
(* spawns to end a dream; and the EchoBeats scheduler, which delivers the  *)
(* EventWake that initiateRest schedules.                                  *)
(*                                                                         *)
(* EchoBeats and echodream are packages outside this repository.  Their    *)
(* behaviour is taken from how this file uses them: ScheduleEvent queues   *)
(* an event that is handed to the registered handler while EchoBeats runs; *)
(* IsDreaming is TRUE between BeginDreamCycle and EndDreamCycle.           *)
(***************************************************************************)
EXTENDS Naturals, FiniteSets

CONSTANTS
    Callers,            \* host goroutines that call Start/Stop
    EnableDreamCycles,  \* config.EnableDreamCycles (dreamCycle != nil)
    DreamSlots,         \* model bound on dream-ending goroutines alive at once
    MaxWakeEvents       \* model bound on EventWake queued in EchoBeats

ASSUME EchoselfAssumption ==
    /\ IsFiniteSet(Callers) /\ Callers # {}
    /\ EnableDreamCycles \in BOOLEAN
    /\ DreamSlots \in Nat \ {0}
    /\ MaxWakeEvents \in Nat \ {0}

VARIABLES
    isAwake,        \* ae.isAwake
    currentState,   \* ae.currentState
    cancelled,      \* ae.ctx cancelled (ae.cancel() in Stop; never renewed)
    beatsRunning,   \* ae.echoBeats started and not stopped
    wakeEvents,     \* EventWake events queued in EchoBeats
    hostPc,         \* caller -> "idle" | "starting" | "spawned" (inside Start)
    loop,           \* caller -> program point of the lifecycle goroutine it spawned
    dreaming,       \* ae.dreamCycle.IsDreaming()
    dreamGo,        \* slot -> program point of a dream-ending goroutine
    uncounted       \* entries into StateDreaming minus cyclesCompleted increments

vars == <<isAwake, currentState, cancelled, beatsRunning, wakeEvents, hostPc,
          loop, dreaming, dreamGo, uncounted>>

(* EchoselfState values the code assigns (StateThinking and StateAsleep    *)
(* are declared but never assigned).                                      *)
States == {"initializing", "waking", "awake", "resting", "dreaming"}

(* Program points of autonomousLifeCycle: "none" (not running), "idle"     *)
(* (in select), "rest" (read Awake, about to call initiateRest), "sched"   *)
(* (inside initiateRest, before ScheduleEvent), "check" (read Resting,     *)
(* about to call IsDreaming), "dream" (about to call initiateDream),       *)
(* "begin" (inside initiateDream, before BeginDreamCycle).                 *)
LoopPc == {"none", "idle", "rest", "sched", "check", "dream", "begin"}

(* Program points of the goroutine initiateDream spawns.                  *)
DreamPc == {"none", "sleep", "count"}

(* Slots for the dream-ending goroutines.                                 *)
Slots == 1..DreamSlots

InFlightDreams == {s \in Slots : dreamGo[s] # "none"}

-----------------------------------------------------------------------------
(* The host.                                                              *)

Init ==
    /\ isAwake = FALSE
    /\ currentState = "initializing"
    /\ cancelled = FALSE
    /\ beatsRunning = FALSE
    /\ wakeEvents = 0
    /\ hostPc = [c \in Callers |-> "idle"]
    /\ loop = [c \in Callers |-> "none"]
    /\ dreaming = FALSE
    /\ dreamGo = [s \in Slots |-> "none"]
    /\ uncounted = 0

(* Start, first critical section: fail if isAwake, else set StateWaking.   *)
(* isAwake stays FALSE until the last critical section.                   *)
StartCheck(c) ==
    /\ hostPc[c] = "idle"
    /\ ~isAwake
    /\ currentState' = "waking"
    /\ hostPc' = [hostPc EXCEPT ![c] = "starting"]
    /\ UNCHANGED <<isAwake, cancelled, beatsRunning, wakeEvents, loop, dreaming,
                   dreamGo, uncounted>>

(* Start, middle: echoBeats.Start() and the stream start, either of which *)
(* may fail and return (the stream fails after EchoBeats started); else   *)
(* the three background goroutines are spawned on ae.ctx.  A lifecycle    *)
(* goroutine spawned on a cancelled ctx returns at its first select.      *)
StartFails(c) ==
    /\ hostPc[c] = "starting"
    /\ hostPc' = [hostPc EXCEPT ![c] = "idle"]
    /\ beatsRunning' \in {beatsRunning, TRUE}
    /\ UNCHANGED <<isAwake, currentState, cancelled, wakeEvents, loop, dreaming,
                   dreamGo, uncounted>>

StartSpawn(c) ==
    /\ hostPc[c] = "starting"
    /\ hostPc' = [hostPc EXCEPT ![c] = "spawned"]
    /\ beatsRunning' = TRUE
    /\ loop' = IF cancelled THEN loop ELSE [loop EXCEPT ![c] = "idle"]
    /\ UNCHANGED <<isAwake, currentState, cancelled, wakeEvents, dreaming,
                   dreamGo, uncounted>>

(* Start, last critical section: isAwake and StateAwake.                  *)
StartFinish(c) ==
    /\ hostPc[c] = "spawned"
    /\ hostPc' = [hostPc EXCEPT ![c] = "idle"]
    /\ isAwake' = TRUE
    /\ currentState' = "awake"
    /\ UNCHANGED <<cancelled, beatsRunning, wakeEvents, loop, dreaming, dreamGo,
                   uncounted>>

(* A mutant of Stop: ae.cancel() is left out.                             *)
StopNoCancel(c) ==
    /\ hostPc[c] = "idle"
    /\ isAwake
    /\ currentState' = "resting"
    /\ isAwake' = FALSE
    /\ beatsRunning' = FALSE
    /\ UNCHANGED <<cancelled, wakeEvents, hostPc, loop, dreaming, dreamGo,
                   uncounted>>

(* Stop, entirely under ae.mu: fail if not awake; else StateResting,       *)
(* isAwake FALSE, stop EchoBeats, persist, cancel ctx.                    *)
Stop(c) ==
    /\ hostPc[c] = "idle"
    /\ isAwake
    /\ currentState' = "resting"
    /\ isAwake' = FALSE
    /\ beatsRunning' = FALSE
    /\ cancelled' = TRUE
    /\ UNCHANGED <<wakeEvents, hostPc, loop, dreaming, dreamGo, uncounted>>

-----------------------------------------------------------------------------
(* autonomousLifeCycle, the goroutine in slot c.                          *)

(* select: ctx.Done() is ready once cancelled; the ticker may be ready as *)
(* well, and select then picks either.                                    *)
LoopExit(c) ==
    /\ loop[c] = "idle"
    /\ cancelled
    /\ loop' = [loop EXCEPT ![c] = "none"]
    /\ UNCHANGED <<isAwake, currentState, cancelled, beatsRunning, wakeEvents,
                   hostPc, dreaming, dreamGo, uncounted>>

(* A tick: read currentState under RLock.  Awake (and WakeCycleDuration   *)
(* elapsed since wakeTime): go on to initiateRest.  Resting with dream    *)
(* cycles enabled: go on to the IsDreaming check.  Otherwise nothing.     *)
LoopTick(c) ==
    /\ loop[c] = "idle"
    /\ \/ currentState = "awake" /\ loop' = [loop EXCEPT ![c] = "rest"]
       \/ /\ currentState = "resting"
          /\ EnableDreamCycles
          /\ loop' = [loop EXCEPT ![c] = "check"]
    /\ UNCHANGED <<isAwake, currentState, cancelled, beatsRunning, wakeEvents,
                   hostPc, dreaming, dreamGo, uncounted>>

(* initiateRest: set StateResting under ae.mu.                            *)
InitiateRest(c) ==
    /\ loop[c] = "rest"
    /\ currentState' = "resting"
    /\ loop' = [loop EXCEPT ![c] = "sched"]
    /\ UNCHANGED <<isAwake, cancelled, beatsRunning, wakeEvents, hostPc,
                   dreaming, dreamGo, uncounted>>

(* initiateRest: echoBeats.ScheduleEvent(EventWake), after ae.mu is       *)
(* released; then wakeTime = now and back to select.  ScheduleEvent never *)
(* blocks; the model counts at most MaxWakeEvents pending events and      *)
(* merges the rest (handleWakeEvent only sets StateAwake).                *)
ScheduleWake(c) ==
    /\ loop[c] = "sched"
    /\ wakeEvents' = IF wakeEvents < MaxWakeEvents THEN wakeEvents + 1
                     ELSE wakeEvents
    /\ loop' = [loop EXCEPT ![c] = "idle"]
    /\ UNCHANGED <<isAwake, currentState, cancelled, beatsRunning, hostPc,
                   dreaming, dreamGo, uncounted>>

(* A mutant of CheckDreaming: the IsDreaming result is ignored.          *)
CheckDreamingBlind(c) ==
    /\ loop[c] = "check"
    /\ loop' = [loop EXCEPT ![c] = "dream"]
    /\ UNCHANGED <<isAwake, currentState, cancelled, beatsRunning, wakeEvents,
                   hostPc, dreaming, dreamGo, uncounted>>

(* !ae.dreamCycle.IsDreaming(): go on to initiateDream, or back to select. *)
CheckDreaming(c) ==
    /\ loop[c] = "check"
    /\ loop' = [loop EXCEPT ![c] = IF dreaming THEN "idle" ELSE "dream"]
    /\ UNCHANGED <<isAwake, currentState, cancelled, beatsRunning, wakeEvents,
                   hostPc, dreaming, dreamGo, uncounted>>

(* A mutant of InitiateDream: the state assignment is left out.            *)
InitiateDreamNoState(c) ==
    /\ loop[c] = "dream"
    /\ loop' = [loop EXCEPT ![c] = "begin"]
    /\ UNCHANGED <<isAwake, currentState, cancelled, beatsRunning, wakeEvents,
                   hostPc, dreaming, dreamGo, uncounted>>

(* initiateDream: set StateDreaming under ae.mu.                          *)
InitiateDream(c) ==
    /\ loop[c] = "dream"
    /\ currentState' = "dreaming"
    /\ uncounted' = IF currentState = "dreaming" THEN uncounted
                    ELSE uncounted + 1
    /\ loop' = [loop EXCEPT ![c] = "begin"]
    /\ UNCHANGED <<isAwake, cancelled, beatsRunning, wakeEvents, hostPc,
                   dreaming, dreamGo>>

(* initiateDream: BeginDreamCycle and spawn the goroutine that ends it.   *)
BeginDream(c) ==
    /\ loop[c] = "begin"
    /\ \E s \in Slots :
          /\ dreamGo[s] = "none"
          /\ dreamGo' = [dreamGo EXCEPT ![s] = "sleep"]
    /\ dreaming' = TRUE
    /\ loop' = [loop EXCEPT ![c] = "idle"]
    /\ UNCHANGED <<isAwake, currentState, cancelled, beatsRunning, wakeEvents,
                   hostPc, uncounted>>

-----------------------------------------------------------------------------
(* The goroutine initiateDream spawns.                                    *)

(* time.Sleep(DreamCycleDuration), then EndDreamCycle().                  *)
EndDream(s) ==
    /\ dreamGo[s] = "sleep"
    /\ dreamGo' = [dreamGo EXCEPT ![s] = "count"]
    /\ dreaming' = FALSE
    /\ UNCHANGED <<isAwake, currentState, cancelled, beatsRunning, wakeEvents,
                   hostPc, loop, uncounted>>

(* A mutant of CountCycle: cyclesCompleted is incremented twice.          *)
CountCycleTwice(s) ==
    /\ dreamGo[s] = "count"
    /\ dreamGo' = [dreamGo EXCEPT ![s] = "none"]
    /\ uncounted' = uncounted - 2
    /\ UNCHANGED <<isAwake, currentState, cancelled, beatsRunning, wakeEvents,
                   hostPc, loop, dreaming>>

(* ae.cyclesCompleted++ under ae.mu; the goroutine returns.               *)
CountCycle(s) ==
    /\ dreamGo[s] = "count"
    /\ dreamGo' = [dreamGo EXCEPT ![s] = "none"]
    /\ uncounted' = uncounted - 1
    /\ UNCHANGED <<isAwake, currentState, cancelled, beatsRunning, wakeEvents,
                   hostPc, loop, dreaming>>

-----------------------------------------------------------------------------
(* EchoBeats delivers a queued EventWake to handleWakeEvent.              *)

(* handleWakeEvent: StateAwake under ae.mu, whatever the state was.       *)
HandleWakeEvent ==
    /\ beatsRunning
    /\ wakeEvents > 0
    /\ wakeEvents' = wakeEvents - 1
    /\ currentState' = "awake"
    /\ UNCHANGED <<isAwake, cancelled, beatsRunning, hostPc, loop, dreaming,
                   dreamGo, uncounted>>

-----------------------------------------------------------------------------

Next ==
    \/ \E c \in Callers :
          \/ StartCheck(c) \/ StartFails(c) \/ StartSpawn(c) \/ StartFinish(c)
          \/ Stop(c)
          \/ LoopExit(c) \/ LoopTick(c) \/ InitiateRest(c) \/ ScheduleWake(c)
          \/ CheckDreaming(c) \/ InitiateDream(c) \/ BeginDream(c)
    \/ \E s \in Slots : EndDream(s) \/ CountCycle(s)
    \/ HandleWakeEvent

(* Fairness the code justifies: a goroutine that is runnable runs (WF on   *)
(* every step after the first one of an operation); the lifecycle ticker  *)
(* fires every minute and WakeCycleDuration eventually elapses (WF on the *)
(* tick); once ctx is cancelled, select keeps picking at random between   *)
(* Done and the ticker, so the goroutine eventually returns (SF on exit); *)
(* EchoBeats delivers a due event while it runs (WF).  The host's own      *)
(* calls of Start and Stop are not forced.                                *)
Fairness ==
    /\ \A c \in Callers :
          /\ WF_vars(StartFails(c) \/ StartSpawn(c)) /\ WF_vars(StartFinish(c))
          /\ SF_vars(LoopExit(c)) /\ WF_vars(LoopTick(c))
          /\ WF_vars(InitiateRest(c)) /\ WF_vars(ScheduleWake(c))
          /\ WF_vars(CheckDreaming(c)) /\ WF_vars(InitiateDream(c))
          /\ WF_vars(BeginDream(c))
    /\ \A s \in Slots : WF_vars(EndDream(s)) /\ WF_vars(CountCycle(s))
    /\ WF_vars(HandleWakeEvent)

Spec == Init /\ [][Next]_vars /\ Fairness

-----------------------------------------------------------------------------
(* Properties.                                                            *)

TypeOK ==
    /\ isAwake \in BOOLEAN
    /\ currentState \in States
    /\ cancelled \in BOOLEAN
    /\ beatsRunning \in BOOLEAN
    /\ wakeEvents \in 0..MaxWakeEvents
    /\ hostPc \in [Callers -> {"idle", "starting", "spawned"}]
    /\ loop \in [Callers -> LoopPc]
    /\ dreaming \in BOOLEAN
    /\ dreamGo \in [Slots -> DreamPc]
    /\ uncounted \in Nat

(* Spec section 3: cyclesCompleted grows by exactly one per dream cycle,  *)
(* never double-counted.  Every dream goroutine still to increment        *)
(* cyclesCompleted (initiateDream's goroutine) owns its own entry into    *)
(* StateDreaming, so the counter never runs ahead of the dream cycles.    *)
DreamsCountedOnce == uncounted >= Cardinality(InFlightDreams)

(* The guard !ae.dreamCycle.IsDreaming() before initiateDream: a dream   *)
(* cycle is never begun while another one sleeps, although the check and *)
(* BeginDreamCycle are separate steps of the lifecycle goroutine and the  *)
(* dream goroutines end their cycles concurrently.                        *)
NoNestedDream ==
    \A s, t \in Slots : dreamGo[s] = "sleep" /\ dreamGo[t] = "sleep" => s = t

(* A rest started while the system is awake ends: once Resting or         *)
(* Dreaming with isAwake, the EventWake that initiateRest scheduled       *)
(* brings it back to Awake (or Stop ends the session).                    *)
WakesAfterRest ==
    (isAwake /\ currentState \in {"resting", "dreaming"})
        ~> (~isAwake \/ currentState = "awake")

(* Spec section 4.3 and 5: Stop() signals every job to terminate, and each *)
(* observes the cancellation at its next select.  Once stopped, every     *)
(* autonomousLifeCycle goroutine eventually returns, including one that   *)
(* was in the middle of initiateRest or initiateDream when Stop ran; the  *)
(* select picks Done only at random, so this needs strong fairness.       *)
LoopsExitAfterStop ==
    (~isAwake /\ currentState = "resting")
        ~> (\A c \in Callers : loop[c] = "none")

(* Spec section 4.3: Start() launches the periodic jobs, so an awake      *)
(* system whose wake cycle elapses goes to rest (or is stopped).          *)
KeepsCycling ==
    (isAwake /\ currentState = "awake")
        ~> (~isAwake \/ currentState \in {"resting", "dreaming"})

=============================================================================
