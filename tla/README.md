# Verification of the ecco9 autonomous scheduler, Echoself and NPU driver

TLA+ models of the concurrent parts of this repository, TLC runs on small
instances, and TLAPS proofs for every value of the constants.

## Inventory of the system

| Part | Source | What it does | Concurrency |
|---|---|---|---|
| AutonomousConsciousnessV4 | `src/unnamed/part_001` | Wake/rest/dream scheduler: `Start`, `Stop`, `Wake`, `Rest`, `dreamCycle`, and five ticker loops (integration, load monitoring, dream trigger, skill practice, persistence) | host goroutine, one goroutine per loop, one `dreamCycle` goroutine per `Rest`; `ac.mu` and `loadManager.mu` |
| AutonomousEchoself | `src/core/autonomous_echoself.go` | Phase machine (Waking, Awake, Resting, Dreaming), rest/dream cycles through EchoBeats events, `cyclesCompleted` | host, `autonomousLifeCycle`, `interestDecayLoop`, `consciousnessMonitoring`, dream goroutines; `ae.mu` |
| NPU driver | `src/core/ecco9/drivers/npu_driver.go`, `src/unnamed/part_002` | Driver map (`Load`, `Unload`, `GetDevice`) and memory-mapped device: `Initialize`, `Shutdown`, `Reset`, `IoCtl`, `Read`/`Write`, registers and telemetry, `AssessSelf` | any number of callers; `nd.mu` for the map, `d.mu` per device |
| NPU entelechy | `npu_entelechy.go` | `AssessSelf`'s five dimensions, actualization, stage and critical issues | reads device fields without `d.mu` |
| NPU ontogenesis | `npu_ontogenesis.go` | Evolution of driver populations: elitism, tournament selection, offspring | none |
| Documentation, demos, tests, scripts | `*.md`, `src/unnamed/part_000`, `part_003`, `part_004`, `test_*.go`, `npu_test.go` | Prose, demo mains, tests, build script | — |

The scheduler's parts interact only through shared fields: the loops read
`ac.awake` and the load manager; `Rest` spawns a `dreamCycle`, which calls
`Wake` at its end; `Stop` cancels the context the loops select on.

## Modules

* `AutonomousV4.tla`: the V4 scheduler.
  * **State.** `running`, `awake`, `cancelled` (ctx cancelled) and `spawned`
    (the loops exist). `hostPc` is the host inside `Start`. `hostCalls`
    counts the host's calls of the exported Wake/Rest. `triggerPc` is the
    trigger loop between `shouldInitiateRest` and `Rest`. `wmLen`, `load`,
    `fatigue`, `wakeElapsed` (time since `startTime`, saturated), `discussion`
    and `practicing` are the data. `dreams` maps a slot to the program point
    and duration of a `dreamCycle` goroutine.
  * **Arithmetic.** Load and fatigue are integers in thousandths
    (`Scale = 1000`), truncated where the code converts floats.
  * **Actions.** Each action is one atomic step of the code: `StartBegin` and
    `StartEnd` (the two critical sections of `Start`, with the error return of
    a failing component), `Stop`, `HostWake`, `HostRest`, `IntegrationTick`,
    `LoadMonitorTick`, `TriggerCheck` and `TriggerRest` (the check and the call
    are separate steps, as in the code), `SkillPracticeTick`, `DreamEnter`,
    `DreamRecover`, `DreamExit` and `DreamWake`, and the environment's
    `DiscussionChange` and `TimePasses`.
  * **Map.** `PROJECT.json` gives the lines each definition translates.
* `MCAutonomousV4.tla`: the constants for TLC. `FatigueThreshold` = 750,
  `RecoveryRate` = 50 per minute, and `MinWakeDuration` is one step. One
  model tick of `cognitiveLoadMonitoring` stands for 100 real ticks
  (`FatigueRate` = 1000), so the threshold is reached in a few steps.
  `WMCapacity` is 2, two dream slots are enough for two dreams at once, and
  `FatigueCap` = 1600 bounds fatigue (800 in the host-call run).
* `AutonomousV4Proofs.tla`: the TLAPS proofs about `AutonomousV4`.
* `AutonomousRestCycle.tla`: the abstract rest cycle, which is what the V4
  scheduler promises about fatigue, with the goroutines abstracted away.
  * **State.** `awake`, `fatigue`, and `drainDue`: a rest has begun and its
    recovery is still to come.
  * **Actions.** `Tire`: fatigue grows, only while awake. `Rest`: only from
    an awake, fatigued system with no drain due. `Drain`: fatigue becomes 0.
    `Wake`: from not awake, with the 30% cut.
  * **Mapping.** `AutonomousV4` instantiates it as
    `RC == INSTANCE AutonomousRestCycle WITH drainDue <- DrainDue`. `DrainDue`
    holds when some `dreamCycle` goroutine is at "enter" or "asleep". The
    property `RestCycleSpec` is `RC!Spec`.
* `Echoself.tla` / `MCEchoself.tla`: AutonomousEchoself.
  * **State.** `isAwake` and `currentState` (the phase), `cancelled` (ae.ctx),
    `beatsRunning` (EchoBeats delivering events), `wakeEvents` (queued
    EventWake, at most `MaxWakeEvents`), `hostPc` per host caller, `loop` (the
    program point of each caller's `autonomousLifeCycle` goroutine),
    `dreaming` (the dream cycle's IsDreaming), `dreamGo` (the dream
    goroutines, one per slot of `DreamSlots`), and `uncounted`, the dreams
    begun by `initiateDream` minus the increments of `cyclesCompleted`.
  * **Actions.** `Start` is `StartCheck`, `StartFails`/`StartSpawn` and
    `StartFinish`, its three critical sections and error returns; `Stop` is
    one step under `ae.mu`. The lifecycle goroutine is `LoopExit`, `LoopTick`
    (the state read), `InitiateRest`, `ScheduleWake`, `CheckDreaming`,
    `InitiateDream` and `BeginDream`; a dream goroutine is `EndDream` and
    `CountCycle`; EchoBeats delivering a wake event is `HandleWakeEvent`.
    Time is abstracted: a tick may come at any moment, so the
    WakeCycleDuration test is a nondeterministic choice.
  * **Not actions.** `handleRestEvent` and `handleDreamEvent` are registered
    with EchoBeats but never run: the only `ScheduleEvent` under `src`
    (line 298) schedules `EventWake`. They would call `initiateRest` and
    `initiateDream` without the lifecycle's checks; were they scheduled, a
    second dream could begin while one sleeps, and `NoNestedDream` and
    `DreamsCountedOnce` would fail.
* `NPUDriver.tla` / `MCNPUDriver.tla`: the driver and its devices at lock
  level. Device `d` is the `d`-th `NewNPUDevice` a `Load` created (at most
  `MaxLoads`). `current` is the one in the map (0: none). `ndMu` and `dMu`
  hold the owner of `nd.mu` and of each `d.mu`. `ref[t]` is the device
  pointer thread `t` got from `GetDevice`. `status` is the STATUS register as
  a set of bits. `assessing[t]` is what `AssessSelf` computed from its
  unlocked reads, before it stores `actualization` under `d.mu`.
  `Unload` is two steps (take `nd.mu`; shut the device down under its `d.mu`
  and clear the map). `IoCtl(RESET)` takes `d.mu` and stays blocked in
  `Reset`'s second `Lock`.
* `NPUEntelechy.tla`: `AssessSelf`'s arithmetic as pure operators. The
  floats become exact naturals: tenths for readings, thirtieths for the means
  of three, and 1/6000 for the actualization. Every reachable actualization is
  at least 65/6000 from a stage threshold, so float rounding cannot change a
  stage. One issue score sits exactly on its threshold: an uninitialized
  device without a model has coherence (0.9 + 0.4 + 0.2) / 3 = 15/30. float64
  also gives exactly 0.5 there, so the strict `< 0.5` reports no issue in
  the code, as in the model. The other issue scores are far from their
  thresholds.
* `NPUOntogenesis.tla` / `MCNPUOntogenesis.tla`: `EvolvePopulation`.
  An individual is its fitness, a member of the small set `Fitness`; the
  offspring's fitness is any member, since it comes from random genes. The
  steps are `Evaluate` (one loop turn: stop at MaxGenerations or at the
  threshold) and `EvolveGeneration`. `selectElite`'s exchange sort is a
  `RECURSIVE` operator (this module has no theorems). The elitism rate is
  `ElitismNum / ElitismDen`.
* `NPUDriverProofs.tla`: TLAPS proofs about `NPUDriver`.


## Runs

| Run | Result | Shows |
|---|---|---|
| `v4_scheduler` (`MCAutonomousV4.cfg`) | pass, 90k states | `TypeOK`; `NeverStuckAsleep`: once the loops are spawned, the system is awake or a dream goroutine is alive to wake it; `DreamDrainsFatigue`: every dream's recovery step leaves fatigue 0, because a rest triggered at ≥ 0.75 lasts ≥ 45 minutes and the factor 1 − 0.05·45 is clamped to 0; `RestCycleSpec`: the scheduler implements `AutonomousRestCycle`. With one host `Rest` (`MCAutonomousV4_api.cfg`), TLC finds `RestCycleSpec` violated after 32 states |
| `v4_host_calls` (`MCAutonomousV4_api.cfg`) | pass, 1.3M states | `TypeOK` and `NeverStuckAsleep` when the host also calls `Wake`/`Rest` once (`MaxHostCalls` = 1), racing the dream goroutine and the trigger |
| `v4_mutation_after_stop` | violation of `QuiescentAfterStop` | a trigger loop past its check calls `Rest` after `Stop` returned |
| `v4_rest_during_discussion` | violation of `RestRespectsDiscussion` | a discussion opened between `shouldInitiateRest` and `Rest` is ignored |
| `echoself_lifecycle` (`MCEchoself.cfg`) | pass, 2.2k states | `DreamsCountedOnce`: with one host caller, every dream is counted exactly once in `cyclesCompleted`, so `uncounted` covers the dream goroutines in flight; `NoNestedDream`: the `!IsDreaming()` guard keeps a second dream cycle from beginning while one sleeps (with two callers it is violated too); `LoopsExitAfterStop`: after Stop every lifecycle goroutine returns |
| `echoself_stuck_dreaming` | violation of `WakesAfterRest` | a wake event handled between the lifecycle's state read and `initiateDream` is overwritten, leaving StateDreaming for ever |
| `echoself_double_start` | violation of `DreamsCountedOnce` | two concurrent Starts spawn two lifecycle goroutines, which both dream from one rest |
| `npu_device` (`MCNPUDriver.cfg`) | pass, 117k states | two threads, every operation and command: `InferenceNeedsModel`, `BusyMeansInference`, and `AssessedMature` (whatever fields AssessSelf reads unlocked, the stage is Mature with no critical issue) |
| `npu_reset_deadlock` | violation of `OpsReturn` | `IoCtl(NPU_CMD_RESET)` locks `d.mu` twice and never returns |
| `npu_orphan_inference` | violation of `UnloadStopsAll` | a device replaced by a second `Load`, or held through a stale pointer, is still inferring after `Unload` |
| `ontogenesis_evolve` (`MCNPUOntogenesis.cfg`) | pass, 165 states | `ElitesKept`: with seeds of 0 or 3 members, the best fitness never drops across a generation |
| `ontogenesis_small_seed` | violation of `ElitesKept` | a seed of 2 gives int(2/3) = 0 elites, so the best can be lost |

Five more configurations show further violations. They are not in the
run list of `PROJECT.json`, which keeps one run per question and the deeper
violations; their hazards there record them.

| Configuration | Result | Shows |
|---|---|---|
| `MCAutonomousV4_FatigueBounded.cfg` | violation of `FatigueBounded` | fatigue passes 1.0 (no clamp at part_001:325) |
| `MCAutonomousV4_AwakeExcludesDreaming.cfg` | violation of `AwakeExcludesDreaming` | `Stop` and a new `Start` while a `Rest` is pending: awake with a dream running |
| `MCEchoself_restart.cfg` | violation of `KeepsCycling` | Stop then Start: ae.ctx is still cancelled, so no lifecycle goroutine runs |
| `MCNPUDriver_busy.cfg` | violation of `InferenceReported` | `Initialize` or `LOAD_MODEL` during an inference sets STATUS to IDLE |
| `MCNPUOntogenesis_empty_seed.cfg` | violation of `NoPanic` | an empty seed reaches `rand.Intn(0)` |

The violations record divergences from `spec.md` (section 3's ranges
and single phase, 4.1's session guard and lifecycle, 4.3's Stop/Start
contract), from comments of the code and from `part_002`'s register
description; each trace is a real interleaving of the Go code (see
`findings` in `PROJECT.json`). Every property of a passing run has a mutant
in `PROJECT.json`, a plausible bug that TLC finds it violated by.

**Bounds.** V4: two dream slots let a second dream start while the first
runs, which the host-call and restart paths reach. With a cap of 1600,
fatigue can pass 1.0 while a discussion blocks rest. With one host call,
the run covers a `Wake` or `Rest` interleaved with every point of a dream
and of the trigger loop. Echoself: one caller (two in the double-Start
run), two dream slots (three with two callers) and two queued wake events
(further ones are merged, since `handleWakeEvent` only sets StateAwake),
which are enough for a rest, a dream, a wake and a restart in one behaviour.
NPU: two threads make every pair of operations race. `MaxLoads` is 1 in the
passing run (2 in the orphan run, where a second `Load` matters); with 2 the
passing run has 51M states. Ontogenesis: population 3, elitism 1/3, three
generations and fitness values {20, 50, 90}, so one elite is kept, the
threshold can stop the loop, and every ordering of three fitnesses is sorted.

**Fairness.** V4 assumes none: its properties are safety. Echoself: weak
fairness on every step of `Start` and of the lifecycle and dream goroutines,
which keep running when not blocked; `LoopExit` is strongly fair, because
Go's `select` picks at random among ready cases, so a cancelled ctx is
eventually chosen even while the ticker keeps firing. NPU: `UnloadEnd` and
`AssessStore` wait for `d.mu`. They are strongly fair, because Go's mutex
hands a long-contended lock to its waiter (starvation mode).
`OpsReturn` fails even so, since `IoCtl(RESET)` never releases `d.mu`.
Ontogenesis assumes none (its only properties are safety).

## Proofs

`AutonomousV4Proofs.tla` assumes `ConstantsAssumption` (threshold and rates
within range, positive capacity and slot count) and proves the following.

* `TypeCorrect`: `Spec => []TypeOK`. It rests on lemmas about the
  arithmetic: the 30% cut, the clamped recovery (`RecoverBound`, the case
  that is hard to get right), the rest duration and the capped load. From
  these, `TypeInit` and `TypeStep` have one step per action.
* `NeverStuckAsleepHolds`: `Spec => []NeverStuckAsleep`. The invariant is not
  inductive alone, because its step proof needs the types of `dreams`. The
  inductive invariant is `TypeOK /\ NeverStuckAsleep`. `Rest` only clears
  `awake` when it fills a free slot, a dream goroutine keeps its slot until
  `DreamWake`, and `DreamWake` calls `Wake`.

`NPUDriverProofs.tla` assumes `NPUAssumption` (a finite set of threads,
the commands a subset of the five IoCtl codes, `MaxLoads` ≥ 1) and proves:

* `TypeCorrect`: `Spec => []TypeOK`. It rests on lemmas that the
  actualization is a natural and the issues a set of tags. Each action's
  step proves the variables it changes typed, then closes the frame.
  `TypeOK` is not a property of the `npu_device` run: the values it bounds
  are ghost counters and model encodings that no change to the driver's code
  could put out of range, so TLC would have nothing to find there.
* `InferenceNeedsModelHolds` and `BusyMeansInferenceHolds`. The inductive
  invariant is `TypeOK /\ InferenceNeedsModel /\ BusyMeansInference`; the
  two properties need each other only through the types.
  `startInference` sets both flags only with a model, `Reset` clears
  all three, and `SOFT_STOP` and `Shutdown` clear BUSY with the inference.
  `Initialize` and `loadModel` rewrite STATUS without BUSY, which keeps the
  invariant (but breaks its converse, `InferenceReported`).

* `DreamDrainsFatigueHolds`: `Spec => DreamDrainsFatigue`, an action
  property. It has two hypotheses, and the `v4_scheduler` run satisfies
  both. `MaxHostCalls = 0` is the first: a host `Rest` at low fatigue gives
  a 5-minute rest, which does not drain fatigue. The second is
  `LongRestAssumption`: `RecoveryRate * RestDuration(FatigueThreshold) >=
  Scale`. The code's 0.75 and 0.05 give 45 minutes, and 45 × 0.05 ≥ 1. The
  lemma `LongRest` extends this to every fatigue above the threshold,
  because the duration is monotone. The inductive invariant is
  `TypeOK /\ DrainInv`, with these conjuncts:
  * every dream before its recovery step has a long rest;
  * a pending trigger `Rest` sees an awake, fatigued system with no dream in
    flight;
  * while `ac.ctx` is live, awake means no dream in flight;
  * at most one dream is ever in flight;
  * no dream exists before the loops are spawned;
  * a second `Start` comes only after `Stop`.

  These conjuncts are needed because `TriggerCheck` and `TriggerRest` are
  two steps. Fatigue must not drop between them. It could drop only by a
  dream's recovery or by `Wake`, and the invariant excludes both.
  `DrainsAtRecover` then shows that only dream *i*'s own recovery step
  moves it from asleep to exit.

* `RestCycleRefinement`: `Spec => RestCycleSpec`, under the same two
  hypotheses as `DreamDrainsFatigueHolds`. It follows the usual shape of a
  refinement proof:
  * `Init` maps to `RC!Init`;
  * under `TypeOK /\ DrainInv`, every step is a step of `RC!Next` or
    leaves `awake`, `fatigue` and `DrainDue` unchanged (`RCStep`);
  * PTL combines them.

  The action steps map as follows: `LoadMonitorTick` is `Tire`,
  `TriggerRest` is `Rest`, `DreamRecover` is `Drain`, and a `Wake` from not
  awake (in `StartEnd` or `DreamWake`) is `Wake`. `TriggerRest` needs
  `PendingRest`, `DreamRecover` needs `SingleDream` and `LongRests`, and the
  host-call actions are ruled out by `MaxHostCalls = 0`. For `SingleDream`,
  "at most one dream in flight" has to hold even after `Stop`, because a
  dream can outlive `Stop`. TLC checked that form before the proof.

`EchoselfProofs.tla` proves three theorems under the hypothesis that one host
goroutine calls `Start` and `Stop` (`Callers = {c0}`). With two, the
`echoself_double_start` run shows that the count breaks.

* `EchoselfTypeCorrect` (`Spec => []TypeOK`).
* `DreamsCountedOnceHolds` (`Spec => []DreamsCountedOnce`).

Both come from the inductive invariant `TypeOK /\ CountInv`, which has two
parts.

* A lifecycle goroutine between its `StateResting` check and
  `initiateDream` sees a state other than Dreaming.
* `uncounted` is at least the number of dream goroutines in flight plus the
  goroutines inside `initiateDream`.

Counting uses `FiniteSetTheorems` through the lemmas `FlightAdd`,
`FlightRemove`, `FlightSame` and `EnteringOne`.

The third theorem, `NoNestedDreamHolds`, states `Spec => []NoNestedDream`.
Its inductive invariant, `NestInv`, adds two facts to `NoNestedDream`:

* `IsDreaming` holds exactly while some dream goroutine sleeps.
* A lifecycle goroutine between its `IsDreaming` check and
  `BeginDreamCycle` sees `IsDreaming` FALSE.

With two callers the last fact fails, because the other lifecycle goroutine
may begin a cycle in between.

`NPUAssessmentProofs.tla` proves `AssessedMatureHolds`
(`Spec => []AssessedMature`) for every value of `NPUDriver`'s constants. The
lemma `AssessmentMature` evaluates `npu_entelechy.go`'s arithmetic for each
of the 16 readings that `AssessSelf` can take, unlocked, of the
initialized/loaded/inferring/HasLLM flags. Every reading gives an
actualization in 3665..4255 and no critical issue. The inductive invariant
`MatureInv` says the same of every thread's pending assessment and of every
stored actualization (0 before the first one). It is conjoined with the
driver's `TypeOK`.

**Left to TLC.** Several things stay with TLC:
* Liveness (`LoopsExitAfterStop`, `OpsReturn`) and ENABLED are beyond
  TLAPS.
* `NPUOntogenesis` uses a RECURSIVE exchange sort. A module reaching it
  cannot hold a theorem, and what the sort computes for every input would
  need induction over data. So its `TypeOK` and `ElitesKept` are checked
  only on the `ontogenesis_evolve` instance.
* `DreamDrainsFatigue` with host calls is not proved: with one host call
  (`MCAutonomousV4_api.cfg`) TLC finds it violated.
* Echoself with two callers is not proved either. It is false for
  `DreamsCountedOnce` and for `NoNestedDream`.

## Not modelled, and the plan

1. A liveness property for V4: a fatigued, restarted instance eventually
   rests. It fails because `ac.ctx` is never renewed, as `echoself_restart`
   shows for Echoself.
2. An abstract Awake/Resting/Dreaming specification that Echoself refines.
   Echoself has no fatigue, so `AutonomousRestCycle` does not fit it.
3. `DreamsCountedOnce` for Echoself with two callers after a fix that
   makes `Start` atomic.
4. The NPU `Read`/`Write` token path, `GetState` (it writes `Uptime` under
   `RLock`, a data race no property reads), and the driver genome
   (`SelfGenerate`, `SelfOptimize`, `identifyWeakestDimension`, whose ties
   depend on map iteration order).

Left out on purpose:
* `periodicPersistence`, `interestDecayLoop`, `consciousnessMonitoring` and
  the persistence stubs, which change no modelled state.
* Thought content, the hypergraph, wisdom metrics and the load history.
* Gene arithmetic of ontogenesis (mutation, crossover, diversity), which is
  random and read by no property.
* The documentation, demo programs and scripts.
