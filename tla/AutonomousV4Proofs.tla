------------------------- MODULE AutonomousV4Proofs -------------------------
(***************************************************************************)
(* Proofs about AutonomousV4 for every value of its constants: type        *)
(* correctness (fatigue stays in 0..FatigueCap and load in 0..Scale        *)
(* through Wake's 30% cut, the clamped dream recovery and the capped load) *)
(* and NeverStuckAsleep.                                                   *)
(***************************************************************************)
EXTENDS AutonomousV4, TLAPS

USE ConstantsAssumption

-----------------------------------------------------------------------------
(* Lemmas on the arithmetic of the load/fatigue model.                    *)

(* Integer division of a natural by a positive natural is a natural.     *)
LEMMA DivNat ==
    ASSUME NEW a \in Nat, NEW b \in Nat \ {0}
    PROVE  a \div b \in Nat
BY SMT

(* Wake's 30% cut keeps fatigue between 0 and its old value.              *)
LEMMA WakeFatigueBound ==
    ASSUME NEW f \in Nat
    PROVE  WakeFatigue(f) \in 0..f
BY DEF WakeFatigue

(* The dream recovery, with its clamp, never raises fatigue nor makes it  *)
(* negative, whatever the rest duration.                                  *)
LEMMA RecoverBound ==
    ASSUME NEW f \in Nat, NEW d \in Nat
    PROVE  Recover(f, d) \in 0..f
<1>1. CASE RecoveryRate * d >= Scale
  BY <1>1 DEF Recover, Scale
<1>2. CASE RecoveryRate * d < Scale
  <2> DEFINE k == Scale - RecoveryRate * d
  <2>1. k \in 1..Scale
    BY <1>2 DEF Scale
  <2>2. f * k \in 0..(f * Scale)
    BY <2>1, Z3 DEF Scale
  <2>3. (f * k) \div Scale \in 0..f
    BY <2>2 DEF Scale
  <2> QED
    BY <1>2, <2>3 DEF Recover
<1> QED
  BY <1>1, <1>2 DEF Scale

(* Rest's duration is a natural number of minutes.                        *)
LEMMA RestDurationNat ==
    ASSUME NEW f \in Nat
    PROVE  RestDuration(f) \in Nat
BY DEF RestDuration, Scale

(* calculateCurrentLoad is capped at 1.0.                                 *)
LEMMA LoadBound ==
    ASSUME NEW wm \in Nat, NEW disc \in BOOLEAN, NEW prac \in BOOLEAN
    PROVE  CalculateCurrentLoad(wm, disc, prac) \in 0..Scale
<1>1. (300 * wm) \div WMCapacity \in Nat
  BY DivNat
<1>2. \E t \in Nat : CalculateCurrentLoad(wm, disc, prac)
                       = IF t > Scale THEN Scale ELSE t
  BY <1>1 DEF CalculateCurrentLoad
<1>3. PICK t \in Nat : CalculateCurrentLoad(wm, disc, prac)
                        = IF t > Scale THEN Scale ELSE t
  BY <1>2
<1> QED
  BY <1>3 DEF Scale

-----------------------------------------------------------------------------
(* Type correctness.                                                      *)

(* Wake, from a well-typed state, leaves awake, wakeElapsed and fatigue   *)
(* well-typed.                                                            *)
LEMMA WakeTyped ==
    ASSUME TypeOK, Wake
    PROVE  /\ awake' \in BOOLEAN
           /\ wakeElapsed' \in 0..MinWakeDuration
           /\ fatigue' \in 0..FatigueCap
<1>1. CASE awake
  BY <1>1 DEF Wake, TypeOK
<1>2. CASE ~awake
  <2>1. fatigue' = WakeFatigue(fatigue) /\ awake' = TRUE /\ wakeElapsed' = 0
    BY <1>2 DEF Wake
  <2>2. fatigue \in Nat /\ fatigue <= FatigueCap
    BY DEF TypeOK
  <2> QED
    BY <2>1, <2>2, WakeFatigueBound
<1> QED
  BY <1>1, <1>2

(* Rest, from a well-typed state, leaves awake and dreams well-typed.     *)
LEMMA RestTyped ==
    ASSUME TypeOK, Rest
    PROVE  /\ awake' \in BOOLEAN
           /\ dreams' \in [DreamId -> [pc : DreamPc, dur : Nat]]
<1>1. CASE ~awake
  BY <1>1 DEF Rest, TypeOK
<1>2. CASE awake
  <2>1. RestDuration(fatigue) \in Nat
    BY RestDurationNat DEF TypeOK
  <2>2. PICK i \in DreamId :
          dreams' = [dreams EXCEPT ![i] = [pc |-> "enter",
                                           dur |-> RestDuration(fatigue)]]
    BY <1>2 DEF Rest
  <2>3. awake' = FALSE
    BY <1>2 DEF Rest
  <2> QED
    BY <2>1, <2>2, <2>3 DEF TypeOK, DreamPc
<1> QED
  BY <1>1, <1>2

(* Init establishes TypeOK. *)
LEMMA TypeInit == Init => TypeOK
<1> SUFFICES ASSUME Init PROVE TypeOK
  OBVIOUS
<1>1. dreams \in [DreamId -> [pc : DreamPc, dur : Nat]]
  BY DEF Init, DreamPc
<1>2. /\ wmLen \in 0..WMCapacity /\ load \in 0..Scale
      /\ fatigue \in 0..FatigueCap /\ wakeElapsed \in 0..MinWakeDuration
      /\ hostCalls \in 0..MaxHostCalls
  BY DEF Init, Scale
<1> QED
  BY <1>1, <1>2 DEF Init, TypeOK

(* Every step preserves TypeOK. *)
LEMMA TypeStep == TypeOK /\ [Next]_vars => TypeOK'
<1> SUFFICES ASSUME TypeOK, [Next]_vars PROVE TypeOK'
  OBVIOUS
<1>1. CASE StartBegin
  BY <1>1 DEF StartBegin, TypeOK
<1>2. CASE StartEnd
  <2>1. CASE UNCHANGED <<awake, spawned, wakeElapsed, fatigue>>
    BY <1>2, <2>1 DEF StartEnd, TypeOK
  <2>2. CASE spawned' = TRUE /\ Wake
    BY <1>2, <2>2, WakeTyped DEF StartEnd, TypeOK
  <2> QED
    BY <1>2, <2>1, <2>2 DEF StartEnd
<1>3. CASE Stop
  BY <1>3 DEF Stop, TypeOK
<1>4. CASE HostWake
  BY <1>4, WakeTyped DEF HostWake, TypeOK
<1>5. CASE HostRest
  BY <1>5, RestTyped DEF HostRest, TypeOK
<1>6. CASE IntegrationTick
  <2>1. PICK emerged \in BOOLEAN :
          LET wm == IF emerged /\ wmLen < WMCapacity THEN wmLen + 1 ELSE wmLen
          IN  /\ wmLen' = wm
              /\ load' = CalculateCurrentLoad(wm, discussion, practicing)
    BY <1>6 DEF IntegrationTick
  <2>2. wmLen' \in 0..WMCapacity
    BY <2>1 DEF TypeOK
  <2>3. PICK wm \in 0..WMCapacity :
          wmLen' = wm /\ load' = CalculateCurrentLoad(wm, discussion, practicing)
    BY <2>1, <2>2
  <2>4. load' \in 0..Scale
    <3>1. wm \in Nat /\ discussion \in BOOLEAN /\ practicing \in BOOLEAN
      BY DEF TypeOK
    <3>2. CalculateCurrentLoad(wm, discussion, practicing) \in 0..Scale
      BY <3>1, LoadBound
    <3> QED
      BY <2>3, <3>2
  <2> QED
    BY <1>6, <2>2, <2>4 DEF IntegrationTick, TypeOK
<1>7. CASE LoadMonitorTick
  <2>1. Accumulate(fatigue, load) \in Nat
    BY DEF TypeOK, Accumulate, Scale
  <2> QED
    BY <1>7, <2>1 DEF LoadMonitorTick, TypeOK
<1>8. CASE TriggerCheck
  BY <1>8 DEF TriggerCheck, TypeOK
<1>9. CASE TriggerRest
  BY <1>9, RestTyped DEF TriggerRest, TypeOK
<1>10. CASE SkillPracticeTick
  BY <1>10 DEF SkillPracticeTick, TypeOK
<1>11. ASSUME NEW i \in DreamId, DreamEnter(i) PROVE TypeOK'
  BY <1>11 DEF DreamEnter, TypeOK, DreamPc
<1>12. ASSUME NEW i \in DreamId, DreamRecover(i) PROVE TypeOK'
  <2>1. fatigue' \in 0..FatigueCap
    BY <1>12, RecoverBound DEF DreamRecover, TypeOK
  <2> QED
    BY <1>12, <2>1 DEF DreamRecover, TypeOK, DreamPc
<1>13. ASSUME NEW i \in DreamId, DreamExit(i) PROVE TypeOK'
  BY <1>13 DEF DreamExit, TypeOK, DreamPc
<1>14. ASSUME NEW i \in DreamId, DreamWake(i) PROVE TypeOK'
  BY <1>14, WakeTyped DEF DreamWake, TypeOK, DreamPc
<1>15. CASE DiscussionChange
  BY <1>15 DEF DiscussionChange, TypeOK
<1>16. CASE TimePasses
  BY <1>16 DEF TimePasses, TypeOK
<1>17. CASE UNCHANGED vars
  BY <1>17 DEF vars, TypeOK
<1> QED
  BY <1>1, <1>2, <1>3, <1>4, <1>5, <1>6, <1>7, <1>8, <1>9, <1>10, <1>11,
     <1>12, <1>13, <1>14, <1>15, <1>16, <1>17 DEF Next, DreamStep

(* Type correctness of the specification. *)
THEOREM TypeCorrect == Spec => []TypeOK
BY TypeInit, TypeStep, PTL DEF Spec

-----------------------------------------------------------------------------
(* NeverStuckAsleep.  It is inductive together with TypeOK: only Rest     *)
(* clears awake, and it spawns a dream goroutine in the same step; only   *)
(* DreamWake retires a dream goroutine, and it calls Wake.                *)

IInv == TypeOK /\ NeverStuckAsleep

(* Wake always leaves the system awake.                                   *)
LEMMA WakeAwakes ==
    ASSUME Wake
    PROVE  awake' = TRUE
BY DEF Wake

(* Rest either changes nothing or clears awake and spawns a dreamCycle.   *)
LEMMA RestSpawns ==
    ASSUME TypeOK, Rest
    PROVE  \/ UNCHANGED <<awake, dreams>>
           \/ InFlight' # {}
<1>1. CASE ~awake
  BY <1>1 DEF Rest
<1>2. CASE awake
  <2>1. PICK i \in DreamId :
          dreams' = [dreams EXCEPT ![i] = [pc |-> "enter",
                                           dur |-> RestDuration(fatigue)]]
    BY <1>2 DEF Rest
  <2>2. dreams'[i].pc = "enter"
    BY <2>1 DEF TypeOK
  <2> QED
    BY <2>2 DEF InFlight
<1> QED
  BY <1>1, <1>2

(* A dream step other than DreamWake keeps its goroutine in flight and    *)
(* the other slots as they were.                                          *)
LEMMA DreamStepKeepsInFlight ==
    ASSUME TypeOK, NEW i \in DreamId,
           DreamEnter(i) \/ DreamRecover(i) \/ DreamExit(i)
    PROVE  /\ awake' = awake
           /\ InFlight' = InFlight
<1>1. dreams[i].pc # "none" /\ dreams'[i].pc # "none"
  BY DEF DreamEnter, DreamRecover, DreamExit, TypeOK
<1>2. \A j \in DreamId \ {i} : dreams'[j] = dreams[j]
  BY DEF DreamEnter, DreamRecover, DreamExit, TypeOK
<1>3. awake' = awake
  BY DEF DreamEnter, DreamRecover, DreamExit
<1> QED
  BY <1>1, <1>2, <1>3 DEF InFlight

THEOREM NeverStuckAsleepHolds == Spec => []NeverStuckAsleep
<1>1. Init => IInv
  BY TypeInit DEF Init, IInv, NeverStuckAsleep
<1>2. IInv /\ [Next]_vars => IInv'
  <2> SUFFICES ASSUME IInv, [Next]_vars PROVE IInv'
    OBVIOUS
  <2>1. TypeOK'
    BY TypeStep DEF IInv
  <2>2. NeverStuckAsleep'
    <3> USE DEF IInv
    <3>1. CASE StartBegin
      BY <3>1 DEF StartBegin, NeverStuckAsleep, InFlight
    <3>2. CASE StartEnd
      BY <3>2, WakeAwakes DEF StartEnd, NeverStuckAsleep, InFlight
    <3>3. CASE Stop
      BY <3>3 DEF Stop, NeverStuckAsleep, InFlight
    <3>4. CASE HostWake
      BY <3>4, WakeAwakes DEF HostWake, NeverStuckAsleep
    <3>5. CASE HostRest
      BY <3>5, RestSpawns DEF HostRest, NeverStuckAsleep, InFlight
    <3>6. CASE IntegrationTick \/ LoadMonitorTick \/ TriggerCheck
                \/ SkillPracticeTick \/ DiscussionChange \/ TimePasses
      BY <3>6 DEF IntegrationTick, LoadMonitorTick, TriggerCheck,
                  SkillPracticeTick, DiscussionChange, TimePasses,
                  NeverStuckAsleep, InFlight
    <3>7. CASE TriggerRest
      BY <3>7, RestSpawns DEF TriggerRest, NeverStuckAsleep, InFlight
    <3>8. ASSUME NEW i \in DreamId,
                 DreamEnter(i) \/ DreamRecover(i) \/ DreamExit(i)
          PROVE  NeverStuckAsleep'
      <4>1. spawned' = spawned
        BY <3>8 DEF DreamEnter, DreamRecover, DreamExit
      <4> QED
        BY <3>8, <4>1, DreamStepKeepsInFlight DEF NeverStuckAsleep
    <3>9. ASSUME NEW i \in DreamId, DreamWake(i) PROVE NeverStuckAsleep'
      BY <3>9, WakeAwakes DEF DreamWake, NeverStuckAsleep
    <3>10. CASE UNCHANGED vars
      BY <3>10 DEF vars, NeverStuckAsleep, InFlight
    <3> QED
      BY <3>1, <3>2, <3>3, <3>4, <3>5, <3>6, <3>7, <3>8, <3>9, <3>10
      DEF Next, DreamStep
  <2> QED
    BY <2>1, <2>2 DEF IInv
<1>3. IInv => NeverStuckAsleep
  BY DEF IInv
<1> QED
  BY <1>1, <1>2, <1>3, PTL DEF Spec


-----------------------------------------------------------------------------
(* DreamDrainsFatigue.  A rest spawned by automaticDreamTriggerLoop is     *)
(* computed from a fatigue at or above fatigueThreshold, so it lasts long  *)
(* enough for dreamCycle's recovery to clamp fatigue to zero.  This holds  *)
(* for constants where a rest at the threshold is that long (the code's    *)
(* 0.75 and 0.05 give 45 minutes, 45 * 0.05 >= 1) and when the host calls  *)
(* no Rest of its own: a host Rest at low fatigue gives a 5-minute rest.   *)
(* The invariant needs the trigger to run only when no dream is in flight, *)
(* which rests on the loops running only between the first Start and Stop *)
(* (ac.ctx is cancelled for good by Stop).                                 *)

(* The constants relation: a rest at the fatigue threshold drains fatigue. *)
LongRestAssumption == RecoveryRate * RestDuration(FatigueThreshold) >= Scale

(* Rest's duration grows with fatigue.                                    *)
LEMMA RestDurationMono ==
    ASSUME NEW f \in Nat, NEW g \in Nat, f >= g
    PROVE  RestDuration(f) >= RestDuration(g)
BY DEF RestDuration, Scale

(* A rest computed from a fatigue at or above the threshold is long       *)
(* enough to drain fatigue.                                               *)
LEMMA LongRest ==
    ASSUME LongRestAssumption, NEW f \in Nat, f >= FatigueThreshold
    PROVE  RecoveryRate * RestDuration(f) >= Scale
<1>1. RestDuration(f) >= RestDuration(FatigueThreshold)
  BY RestDurationMono
<1>2. RestDuration(f) \in Nat /\ RestDuration(FatigueThreshold) \in Nat
  BY RestDurationNat
<1>3. PICK a \in Nat : a = RestDuration(f)
  BY <1>2
<1>4. PICK b \in Nat : b = RestDuration(FatigueThreshold)
  BY <1>2
<1>5. RecoveryRate * (a - b) \in Nat
  BY <1>1, <1>3, <1>4
<1>6. RecoveryRate * a >= RecoveryRate * b
  BY <1>5
<1> QED
  BY <1>3, <1>4, <1>6 DEF LongRestAssumption, Scale

(* Every dream goroutine before its recovery step holds a long rest.      *)
LongRests ==
    \A i \in DreamId :
        dreams[i].pc \in {"enter", "asleep"} => RecoveryRate * dreams[i].dur >= Scale

(* Between its check and its call of Rest the trigger goroutine sees the  *)
(* system awake, fatigued and with no dream in flight.                    *)
PendingRest ==
    triggerPc = "rest" => awake /\ fatigue >= FatigueThreshold /\ InFlight = {}

(* While ac.ctx is live, awake means no dream in flight; and at most one  *)
(* dream is ever in flight, since only the trigger spawns one and only    *)
(* when none is.                                                          *)
AwakeIdle == ~cancelled /\ awake => InFlight = {}
SingleDream == \A i, j \in InFlight : i = j

(* Before the loops are spawned no dream and no trigger call exist; a     *)
(* Start that is not the first one comes after Stop.                      *)
Unspawned == ~spawned => InFlight = {} /\ triggerPc = "idle"
FirstStart == ~cancelled /\ (~running \/ hostPc = "starting") => ~spawned
StartingRuns == hostPc = "starting" => running

DrainInv ==
    /\ LongRests /\ PendingRest /\ AwakeIdle /\ SingleDream
    /\ Unspawned /\ FirstStart /\ StartingRuns

DInv == TypeOK /\ DrainInv

LEMMA DrainInit == Init => DrainInv
BY DEF Init, DrainInv, LongRests, PendingRest, AwakeIdle, SingleDream,
       Unspawned, FirstStart, StartingRuns, InFlight


(* A step that leaves the variables of DrainInv alone preserves it.       *)
LEMMA DrainFrame ==
    ASSUME DrainInv,
           UNCHANGED <<running, awake, cancelled, spawned, hostPc, triggerPc,
                       fatigue, dreams>>
    PROVE  DrainInv'
BY DEF DrainInv, LongRests, PendingRest, AwakeIdle, SingleDream,
       Unspawned, FirstStart, StartingRuns, InFlight

(* The host makes no call of Wake or Rest when MaxHostCalls = 0.          *)
LEMMA NoHostCalls ==
    ASSUME MaxHostCalls = 0, TypeOK
    PROVE  ~HostWake /\ ~HostRest
BY DEF TypeOK, HostWake, HostRest

LEMMA DrainStep ==
    ASSUME MaxHostCalls = 0, LongRestAssumption, TypeOK, DrainInv, [Next]_vars
    PROVE  DrainInv'
<1> USE DEF DrainInv
<1>1. CASE StartBegin
  BY <1>1 DEF StartBegin, LongRests, PendingRest, AwakeIdle, SingleDream,
              Unspawned, FirstStart, StartingRuns, InFlight
<1>2. CASE StartEnd
  <2>1. CASE UNCHANGED <<awake, spawned, wakeElapsed, fatigue>>
    BY <1>2, <2>1 DEF StartEnd, LongRests, PendingRest, AwakeIdle, SingleDream,
                      Unspawned, FirstStart, StartingRuns, InFlight
  <2>2. CASE spawned' = TRUE /\ Wake
    <3>1. triggerPc = "rest" => UNCHANGED <<awake, fatigue>>
      BY <2>2 DEF Wake, PendingRest
    <3>2. ~cancelled => InFlight = {}
      BY <1>2 DEF StartEnd, FirstStart, Unspawned
    <3> QED
      BY <1>2, <2>2, <3>1, <3>2
      DEF StartEnd, LongRests, PendingRest, AwakeIdle, SingleDream,
          Unspawned, FirstStart, StartingRuns, InFlight
  <2> QED
    BY <1>2, <2>1, <2>2 DEF StartEnd
<1>3. CASE Stop
  BY <1>3 DEF Stop, LongRests, PendingRest, AwakeIdle, SingleDream,
              Unspawned, FirstStart, StartingRuns, InFlight
<1>4. CASE HostWake \/ HostRest
  BY <1>4, NoHostCalls
<1>5. CASE IntegrationTick \/ SkillPracticeTick \/ DiscussionChange \/ TimePasses
  BY <1>5, DrainFrame DEF IntegrationTick, SkillPracticeTick, DiscussionChange, TimePasses
<1>6. CASE LoadMonitorTick
  <2>1. fatigue' \in Nat /\ fatigue \in Nat /\ fatigue' >= fatigue
    BY <1>6 DEF LoadMonitorTick, Accumulate, TypeOK, Scale
  <2>2. UNCHANGED <<running, awake, cancelled, spawned, hostPc, triggerPc, dreams>>
    BY <1>6 DEF LoadMonitorTick
  <2> QED
    BY <2>1, <2>2 DEF LongRests, PendingRest, AwakeIdle, SingleDream,
                      Unspawned, FirstStart, StartingRuns, InFlight
<1>7. CASE TriggerCheck
  BY <1>7 DEF TriggerCheck, JobsRun, ShouldInitiateRest, LongRests, PendingRest,
              AwakeIdle, SingleDream, Unspawned, FirstStart, StartingRuns, InFlight
<1>8. CASE TriggerRest
  <2>1. awake /\ fatigue >= FatigueThreshold /\ InFlight = {} /\ spawned
    BY <1>8 DEF TriggerRest, PendingRest, Unspawned
  <2>2. PICK i \in DreamId :
          /\ dreams[i].pc = "none"
          /\ dreams' = [dreams EXCEPT ![i] = [pc |-> "enter",
                                              dur |-> RestDuration(fatigue)]]
    BY <1>8, <2>1 DEF TriggerRest, Rest
  <2>3. awake' = FALSE /\ triggerPc' = "idle"
        /\ UNCHANGED <<running, cancelled, spawned, hostPc, fatigue>>
    BY <1>8, <2>1 DEF TriggerRest, Rest
  <2>4. RecoveryRate * RestDuration(fatigue) >= Scale
    BY <2>1, LongRest DEF TypeOK
  <2>5. InFlight' = {i}
    BY <2>1, <2>2 DEF InFlight, TypeOK
  <2>6. LongRests'
    BY <2>2, <2>4 DEF LongRests, TypeOK
  <2> QED
    BY <2>1, <2>3, <2>5, <2>6 DEF PendingRest, AwakeIdle, SingleDream,
                                  Unspawned, FirstStart, StartingRuns
<1>9. ASSUME NEW i \in DreamId, DreamEnter(i) \/ DreamRecover(i) \/ DreamExit(i)
      PROVE  DrainInv'
  <2>1. InFlight' = InFlight /\ awake' = awake
    BY <1>9, DreamStepKeepsInFlight
  <2>2. triggerPc = "idle"
    BY <1>9 DEF DreamEnter, DreamRecover, DreamExit, PendingRest, InFlight, TypeOK
  <2>3. UNCHANGED <<running, cancelled, spawned, hostPc, triggerPc>>
    BY <1>9 DEF DreamEnter, DreamRecover, DreamExit
  <2>4. LongRests'
    BY <1>9 DEF DreamEnter, DreamRecover, DreamExit, LongRests, TypeOK
  <2> QED
    BY <2>1, <2>2, <2>3, <2>4 DEF PendingRest, AwakeIdle, SingleDream,
                                  Unspawned, FirstStart, StartingRuns
<1>10. ASSUME NEW i \in DreamId, DreamWake(i) PROVE DrainInv'
  <2>1. i \in InFlight /\ InFlight' = InFlight \ {i}
    BY <1>10 DEF DreamWake, InFlight, TypeOK
  <2>2. triggerPc = "idle"
    BY <2>1, Zenon DEF DrainInv, PendingRest, TypeOK
  <2>3. InFlight' = {}
    BY <2>1 DEF SingleDream
  <2>4. UNCHANGED <<running, cancelled, spawned, hostPc, triggerPc>>
    BY <1>10 DEF DreamWake
  <2>5. LongRests'
    BY <1>10 DEF DreamWake, LongRests, TypeOK
  <2> QED
    BY <2>1, <2>2, <2>3, <2>4, <2>5 DEF PendingRest, AwakeIdle, SingleDream,
                                        Unspawned, FirstStart, StartingRuns
<1>11. CASE UNCHANGED vars
  BY <1>11, DrainFrame DEF vars
<1> QED
  BY <1>1, <1>2, <1>3, <1>4, <1>5, <1>6, <1>7, <1>8, <1>9, <1>10, <1>11
  DEF Next, DreamStep


(* Only the recovery step of dream goroutine i moves it from "asleep" to  *)
(* "exit", and with a long rest that step leaves fatigue at zero.         *)
LEMMA DrainsAtRecover ==
    ASSUME TypeOK, LongRests, [Next]_vars,
           NEW i \in DreamId, dreams[i].pc = "asleep", dreams'[i].pc = "exit"
    PROVE  fatigue' = 0
<1>1. CASE DreamRecover(i)
  <2>1. dreams[i].dur \in Nat /\ RecoveryRate * dreams[i].dur >= Scale
    BY DEF LongRests, TypeOK
  <2> QED
    BY <1>1, <2>1 DEF DreamRecover, Recover
<1>2. CASE UNCHANGED dreams
  BY <1>2
<1>3. CASE Rest
  <2>1. CASE awake
    <3>1. PICK j \in DreamId :
            /\ dreams[j].pc = "none"
            /\ dreams' = [dreams EXCEPT ![j] = [pc |-> "enter",
                                                dur |-> RestDuration(fatigue)]]
      BY <1>3, <2>1 DEF Rest
    <3> QED
      BY <3>1 DEF TypeOK
  <2>2. CASE ~awake
    BY <1>3, <2>2 DEF Rest
  <2> QED
    BY <2>1, <2>2
<1>4. ASSUME NEW j \in DreamId,
             DreamEnter(j) \/ DreamExit(j) \/ DreamWake(j) \/ (DreamRecover(j) /\ j # i)
      PROVE  FALSE
  BY <1>4 DEF DreamEnter, DreamExit, DreamWake, DreamRecover, TypeOK
<1> QED
  <2>1. \/ UNCHANGED dreams \/ Rest \/ DreamRecover(i)
        \/ \E j \in DreamId : \/ DreamEnter(j) \/ DreamExit(j) \/ DreamWake(j)
                              \/ (DreamRecover(j) /\ j # i)
    BY DEF Next, DreamStep, vars, StartBegin, StartEnd, Stop, HostWake, HostRest,
           IntegrationTick, LoadMonitorTick, TriggerCheck, TriggerRest,
           SkillPracticeTick, DiscussionChange, TimePasses
  <2> QED
    BY <1>1, <1>2, <1>3, <1>4, <2>1

(* DreamDrainsFatigue: every recovery step of a dreamCycle goroutine      *)
(* leaves fatigueLevel at zero, when the host makes no Rest call of its   *)
(* own and a rest at fatigueThreshold lasts long enough to drain fatigue  *)
(* (true of the code's defaults).  The argument is the inductive          *)
(* invariant DrainInv: every rest in flight was computed by Rest from a   *)
(* fatigue at or above the threshold.                                     *)
THEOREM DreamDrainsFatigueHolds ==
    ASSUME MaxHostCalls = 0, LongRestAssumption
    PROVE  Spec => DreamDrainsFatigue
<1>1. Init => DInv
  BY TypeInit, DrainInit DEF DInv
<1>2. DInv /\ [Next]_vars => DInv'
  BY TypeStep, DrainStep DEF DInv
<1>3. DInv /\ [Next]_vars
        => [\A i \in DreamId :
              (dreams[i].pc = "asleep" /\ dreams'[i].pc = "exit") => fatigue' = 0]_vars
  BY DrainsAtRecover DEF DInv, DrainInv
<1> QED
  BY <1>1, <1>2, <1>3, PTL DEF Spec, DreamDrainsFatigue


-----------------------------------------------------------------------------
(* Refinement of AutonomousRestCycle, under the same two hypotheses as    *)
(* DreamDrainsFatigue.  Each step of the scheduler is a step of the        *)
(* abstract cycle or leaves awake, fatigue and DrainDue alone:            *)
(* LoadMonitorTick is Tire, TriggerRest is Rest, DreamRecover is Drain,   *)
(* and a Wake from not awake (in StartEnd or DreamWake) is Wake.          *)

(* Wake's cut in the scheduler is the abstract cut.                       *)
LEMMA CutIsWake ==
    ASSUME NEW f
    PROVE  WakeFatigue(f) = RC!CutFatigue(f)
BY DEF WakeFatigue, RC!CutFatigue

(* A step that moves no dream slot into or out of "enter"/"asleep" keeps  *)
(* DrainDue.                                                              *)
LEMMA DrainDueSame ==
    ASSUME NEW i \in DreamId,
           dreams[i].pc \notin {"enter", "asleep"},
           dreams'[i].pc \notin {"enter", "asleep"},
           \A j \in DreamId \ {i} : dreams'[j] = dreams[j]
    PROVE  DrainDue' = DrainDue
BY DEF DrainDue

(* A step leaving awake, fatigue and the dream slots alone is an abstract *)
(* stutter.                                                               *)
LEMMA RCStutter ==
    ASSUME UNCHANGED <<awake, fatigue, dreams>>
    PROVE  [RC!Next]_RC!rcvars
BY DEF RC!rcvars, DrainDue

(* Wake, as called by StartEnd or DreamWake, is an abstract Wake or, when *)
(* already awake, changes neither awake nor fatigue.                      *)
LEMMA WakeRefines ==
    ASSUME Wake, DrainDue' = DrainDue
    PROVE  [RC!Next]_RC!rcvars
<1>1. CASE awake
  BY <1>1 DEF Wake, RC!rcvars
<1>2. CASE ~awake
  <2>1. awake' = TRUE /\ fatigue' = RC!CutFatigue(fatigue)
    BY <1>2, CutIsWake DEF Wake
  <2> QED
    BY <1>2, <2>1 DEF RC!Next, RC!Wake
<1> QED
  BY <1>1, <1>2

LEMMA RCStep ==
    ASSUME MaxHostCalls = 0, LongRestAssumption, TypeOK, DrainInv, [Next]_vars
    PROVE  [RC!Next]_RC!rcvars
<1> USE DEF DrainInv
<1>1. CASE StartBegin \/ Stop \/ IntegrationTick \/ SkillPracticeTick
           \/ DiscussionChange \/ TimePasses \/ TriggerCheck \/ UNCHANGED vars
  BY <1>1, RCStutter DEF StartBegin, Stop, IntegrationTick, SkillPracticeTick,
                         DiscussionChange, TimePasses, TriggerCheck, vars
<1>2. CASE StartEnd
  <2>1. CASE UNCHANGED <<awake, spawned, wakeElapsed, fatigue>>
    BY <1>2, <2>1, RCStutter DEF StartEnd
  <2>2. CASE spawned' = TRUE /\ Wake
    <3>1. DrainDue' = DrainDue
      BY <1>2 DEF StartEnd, DrainDue
    <3> QED
      BY <2>2, <3>1, WakeRefines
  <2> QED
    BY <1>2, <2>1, <2>2 DEF StartEnd
<1>3. CASE HostWake \/ HostRest
  BY <1>3, NoHostCalls
<1>4. CASE LoadMonitorTick
  <2>1. fatigue' \in Nat /\ fatigue' >= fatigue
    BY <1>4 DEF LoadMonitorTick, Accumulate, TypeOK, Scale
  <2>2. awake /\ UNCHANGED <<awake, dreams>>
    BY <1>4 DEF LoadMonitorTick
  <2>3. DrainDue' = DrainDue
    BY <2>2 DEF DrainDue
  <2> QED
    BY <2>1, <2>2, <2>3 DEF RC!Next, RC!Tire
<1>5. CASE TriggerRest
  <2>1. awake /\ fatigue >= FatigueThreshold /\ InFlight = {}
    BY <1>5 DEF TriggerRest, PendingRest
  <2>2. PICK i \in DreamId :
          /\ dreams[i].pc = "none"
          /\ dreams' = [dreams EXCEPT ![i] = [pc |-> "enter",
                                              dur |-> RestDuration(fatigue)]]
    BY <1>5, <2>1 DEF TriggerRest, Rest
  <2>3. awake' = FALSE /\ fatigue' = fatigue
    BY <1>5, <2>1 DEF TriggerRest, Rest
  <2>4. ~DrainDue
    BY <2>1 DEF InFlight, DrainDue
  <2>5. DrainDue'
    BY <2>2 DEF DrainDue, TypeOK
  <2> QED
    BY <2>1, <2>3, <2>4, <2>5 DEF RC!Next, RC!Rest
<1>6. ASSUME NEW i \in DreamId, DreamEnter(i) PROVE [RC!Next]_RC!rcvars
  <2>1. DrainDue /\ DrainDue'
    BY <1>6 DEF DreamEnter, DrainDue, TypeOK
  <2> QED
    BY <1>6, <2>1 DEF DreamEnter, RC!rcvars
<1>7. ASSUME NEW i \in DreamId, DreamRecover(i) PROVE [RC!Next]_RC!rcvars
  <2>1. fatigue' = 0
    BY <1>7, DrainsAtRecover DEF DreamRecover, TypeOK
  <2>2. DrainDue
    BY <1>7 DEF DreamRecover, DrainDue
  <2>3. \A j \in DreamId \ {i} : dreams[j].pc = "none"
    BY <1>7 DEF DreamRecover, SingleDream, InFlight
  <2>4. ~DrainDue'
    BY <1>7, <2>3 DEF DreamRecover, DrainDue, TypeOK
  <2>5. awake' = awake
    BY <1>7 DEF DreamRecover
  <2> QED
    BY <2>1, <2>2, <2>4, <2>5 DEF RC!Next, RC!Drain
<1>8. ASSUME NEW i \in DreamId, DreamExit(i) PROVE [RC!Next]_RC!rcvars
  <2>1. DrainDue' = DrainDue
    BY <1>8, DrainDueSame DEF DreamExit, TypeOK
  <2> QED
    BY <1>8, <2>1 DEF DreamExit, RC!rcvars
<1>9. ASSUME NEW i \in DreamId, DreamWake(i) PROVE [RC!Next]_RC!rcvars
  <2>1. DrainDue' = DrainDue
    BY <1>9, DrainDueSame DEF DreamWake, TypeOK
  <2> QED
    BY <1>9, <2>1, WakeRefines DEF DreamWake
<1> QED
  BY <1>1, <1>2, <1>3, <1>4, <1>5, <1>6, <1>7, <1>8, <1>9 DEF Next, DreamStep

(* RestCycleSpec: with no Rest called by the host and a rest at           *)
(* fatigueThreshold long enough to drain fatigue, the scheduler's loops   *)
(* and dreamCycle goroutines implement the abstract rest cycle: fatigue   *)
(* grows only while awake, a rest starts only from an awake, fatigued     *)
(* system with no rest still to recover, every rest clears fatigue, and   *)
(* Wake cuts it to 30%.                                                   *)
THEOREM RestCycleRefinement ==
    ASSUME MaxHostCalls = 0, LongRestAssumption
    PROVE  Spec => RestCycleSpec
<1>1. Init => RC!Init
  BY DEF Init, RC!Init, DrainDue
<1>2. DInv /\ [Next]_vars => DInv'
  BY TypeStep, DrainStep DEF DInv
<1>3. Init => DInv
  BY TypeInit, DrainInit DEF DInv
<1>4. DInv /\ [Next]_vars => [RC!Next]_RC!rcvars
  BY RCStep DEF DInv
<1> QED
  BY <1>1, <1>2, <1>3, <1>4, PTL DEF Spec, RestCycleSpec, RC!Spec

=============================================================================
