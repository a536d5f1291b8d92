---------------------------- MODULE EchoselfProofs ----------------------------
(***************************************************************************)
(* Proofs about Echoself for one host goroutine calling Start and Stop.    *)
(* With two, two concurrent Starts spawn two lifecycle goroutines and the  *)
(* counting breaks (the echoself_double_start run), so the theorems take   *)
(* Callers = {c0} as a hypothesis.                                         *)
(***************************************************************************)
EXTENDS Echoself, FiniteSetTheorems, TLAPS

(* Lifecycle goroutines inside initiateDream, between setting             *)
(* StateDreaming and spawning the dream goroutine.                        *)
Entering == {c \in Callers : loop[c] = "begin"}

(* The inductive invariant behind DreamsCountedOnce.  A lifecycle         *)
(* goroutine that has read StateResting and not yet called initiateDream  *)
(* sees a state other than Dreaming: only initiateDream sets it, and only *)
(* this goroutine calls initiateDream.  So each initiateDream counts a    *)
(* new entry, which its dream goroutine consumes when it increments       *)
(* cyclesCompleted.                                                       *)
CountInv ==
    /\ \A c \in Callers :
          loop[c] \in {"check", "dream"} => currentState # "dreaming"
    /\ uncounted >= Cardinality(InFlightDreams) + Cardinality(Entering)

-----------------------------------------------------------------------------
(* Lemmas about the two sets the count compares.                          *)

(* The dream goroutines alive under a slot assignment g.                  *)
FlightOf(g) == {s \in Slots : g[s] # "none"}

LEMMA FlightFinite ==
    ASSUME NEW g
    PROVE  /\ IsFiniteSet(FlightOf(g))
           /\ Cardinality(FlightOf(g)) \in Nat
<1>1. IsFiniteSet(Slots)
  BY FS_Interval, EchoselfAssumption DEF Slots
<1>2. FlightOf(g) \subseteq Slots
  BY DEF FlightOf
<1> QED
  BY <1>1, <1>2, FS_Subset, FS_CardinalityType

(* Spawning a dream goroutine in a free slot adds one.                    *)
LEMMA FlightAdd ==
    ASSUME NEW g \in [Slots -> DreamPc], NEW s \in Slots, g[s] = "none",
           NEW v, v # "none"
    PROVE  Cardinality(FlightOf([g EXCEPT ![s] = v]))
               = Cardinality(FlightOf(g)) + 1
<1>1. FlightOf([g EXCEPT ![s] = v]) = FlightOf(g) \cup {s}
  BY DEF FlightOf
<1>2. s \notin FlightOf(g)
  BY DEF FlightOf
<1> QED
  BY <1>1, <1>2, FlightFinite, FS_AddElement

(* A dream goroutine that returns frees its slot.                         *)
LEMMA FlightRemove ==
    ASSUME NEW g \in [Slots -> DreamPc], NEW s \in Slots, g[s] # "none"
    PROVE  Cardinality(FlightOf([g EXCEPT ![s] = "none"]))
               = Cardinality(FlightOf(g)) - 1
<1>1. FlightOf([g EXCEPT ![s] = "none"]) = FlightOf(g) \ {s}
  BY DEF FlightOf
<1>2. s \in FlightOf(g)
  BY DEF FlightOf
<1> QED
  BY <1>1, <1>2, FlightFinite, FS_RemoveElement

(* A dream goroutine moving on keeps its slot.                            *)
LEMMA FlightSame ==
    ASSUME NEW g \in [Slots -> DreamPc], NEW s \in Slots, g[s] # "none",
           NEW v, v # "none"
    PROVE  FlightOf([g EXCEPT ![s] = v]) = FlightOf(g)
BY DEF FlightOf

(* With one caller, at most one lifecycle goroutine is inside             *)
(* initiateDream.                                                         *)
LEMMA EnteringOne ==
    ASSUME NEW c0, Callers = {c0}, NEW l
    PROVE  Cardinality({c \in Callers : l[c] = "begin"})
               = IF l[c0] = "begin" THEN 1 ELSE 0
<1>1. CASE l[c0] = "begin"
  <2>1. {c \in Callers : l[c] = "begin"} = {c0}
    BY <1>1
  <2> QED
    BY <1>1, <2>1, FS_Singleton
<1>2. CASE l[c0] # "begin"
  <2>1. {c \in Callers : l[c] = "begin"} = {}
    BY <1>2
  <2> QED
    BY <1>2, <2>1, FS_EmptySet
<1> QED
  BY <1>1, <1>2

-----------------------------------------------------------------------------
(* The inductive invariant.                                               *)

IInv == TypeOK /\ CountInv

LEMMA InitIInv == Init => IInv
<1> SUFFICES ASSUME Init PROVE IInv
  OBVIOUS
<1>1. TypeOK
  <2>1. wakeEvents \in 0..MaxWakeEvents /\ uncounted \in Nat
    BY EchoselfAssumption DEF Init
  <2>2. /\ hostPc \in [Callers -> {"idle", "starting", "spawned"}]
        /\ loop \in [Callers -> LoopPc]
        /\ dreamGo \in [Slots -> DreamPc]
    BY Zenon DEF Init, LoopPc, DreamPc
  <2> QED
    BY <2>1, <2>2, Zenon DEF Init, TypeOK, States
<1>2. InFlightDreams = {} /\ Entering = {}
  BY DEF Init, InFlightDreams, Entering
<1>3. CountInv
  BY <1>2, FS_EmptySet DEF Init, CountInv
<1> QED
  BY <1>1, <1>3 DEF IInv

LEMMA StepIInv ==
    ASSUME NEW c0, Callers = {c0}
    PROVE  IInv /\ [Next]_vars => IInv'
<1> SUFFICES ASSUME TypeOK, CountInv, [Next]_vars PROVE TypeOK' /\ CountInv'
  BY DEF IInv
<1> DEFINE B == IF loop[c0] = "begin" THEN 1 ELSE 0
           B1 == IF loop'[c0] = "begin" THEN 1 ELSE 0
           N == Cardinality(FlightOf(dreamGo))
           N1 == Cardinality(FlightOf(dreamGo'))
<1>1. /\ N \in Nat
      /\ uncounted >= N + B
      /\ loop[c0] \in {"check", "dream"} => currentState # "dreaming"
  <2>1. InFlightDreams = FlightOf(dreamGo) /\ Cardinality(Entering) = B
    BY EnteringOne DEF InFlightDreams, FlightOf, Entering
  <2> QED
    BY <2>1, FlightFinite DEF CountInv
<1>2. CountInv' <=>
        /\ loop'[c0] \in {"check", "dream"} => currentState' # "dreaming"
        /\ uncounted' >= N1 + B1
  <2>1. InFlightDreams' = FlightOf(dreamGo') /\ Cardinality(Entering') = B1
    BY EnteringOne DEF InFlightDreams, FlightOf, Entering
  <2> QED
    BY <2>1 DEF CountInv
<1>0. c0 \in Callers
  OBVIOUS
<1> USE DEF TypeOK
<1>3. ASSUME NEW c \in Callers, StartCheck(c) PROVE TypeOK' /\ CountInv'
  BY <1>1, <1>2, <1>3 DEF StartCheck, States
<1>4. ASSUME NEW c \in Callers, StartFails(c) PROVE TypeOK' /\ CountInv'
  BY <1>1, <1>2, <1>4 DEF StartFails
<1>5. ASSUME NEW c \in Callers, StartSpawn(c) PROVE TypeOK' /\ CountInv'
  BY <1>1, <1>2, <1>5 DEF StartSpawn, LoopPc
<1>6. ASSUME NEW c \in Callers, StartFinish(c) PROVE TypeOK' /\ CountInv'
  BY <1>1, <1>2, <1>6 DEF StartFinish, States
<1>7. ASSUME NEW c \in Callers, Stop(c) PROVE TypeOK' /\ CountInv'
  BY <1>1, <1>2, <1>7 DEF Stop, States
<1>8. ASSUME NEW c \in Callers, LoopExit(c) PROVE TypeOK' /\ CountInv'
  BY <1>1, <1>2, <1>8 DEF LoopExit, LoopPc
<1>9. ASSUME NEW c \in Callers, LoopTick(c) PROVE TypeOK' /\ CountInv'
  BY <1>1, <1>2, <1>9 DEF LoopTick, LoopPc
<1>10. ASSUME NEW c \in Callers, InitiateRest(c) PROVE TypeOK' /\ CountInv'
  <2>1. TypeOK'
    BY <1>10 DEF InitiateRest, LoopPc, States
  <2>2. loop'[c0] = "sched" /\ UNCHANGED <<dreamGo, uncounted>>
    BY <1>0, <1>10 DEF InitiateRest
  <2> QED
    BY <1>1, <1>2, <2>1, <2>2
<1>11. ASSUME NEW c \in Callers, ScheduleWake(c) PROVE TypeOK' /\ CountInv'
  <2>1. TypeOK'
    BY <1>11, EchoselfAssumption DEF ScheduleWake, LoopPc
  <2>2. loop'[c0] = "idle" /\ UNCHANGED <<dreamGo, uncounted>>
    BY <1>0, <1>11 DEF ScheduleWake
  <2> QED
    BY <1>1, <1>2, <2>1, <2>2
<1>12. ASSUME NEW c \in Callers, CheckDreaming(c) PROVE TypeOK' /\ CountInv'
  BY <1>1, <1>2, <1>12 DEF CheckDreaming, LoopPc
<1>13. ASSUME NEW c \in Callers, InitiateDream(c) PROVE TypeOK' /\ CountInv'
  BY <1>1, <1>2, <1>13 DEF InitiateDream, LoopPc, States
<1>14. ASSUME NEW c \in Callers, BeginDream(c) PROVE TypeOK' /\ CountInv'
  <2>1. PICK s \in Slots : /\ dreamGo[s] = "none"
                           /\ dreamGo' = [dreamGo EXCEPT ![s] = "sleep"]
    BY <1>14 DEF BeginDream
  <2>2. N1 = N + 1
    BY <2>1, FlightAdd
  <2> QED
    BY <1>1, <1>2, <1>14, <2>1, <2>2 DEF BeginDream, LoopPc, DreamPc
<1>15. ASSUME NEW s \in Slots, EndDream(s) PROVE TypeOK' /\ CountInv'
  <2>1. N1 = N
    BY <1>15, FlightSame DEF EndDream
  <2> QED
    BY <1>1, <1>2, <1>15, <2>1 DEF EndDream, DreamPc
<1>16. ASSUME NEW s \in Slots, CountCycle(s) PROVE TypeOK' /\ CountInv'
  <2>1. N1 = N - 1 /\ N >= 1
    <3>1. N1 = N - 1
      BY <1>16, FlightRemove DEF CountCycle
    <3>2. N1 \in Nat
      BY FlightFinite
    <3> QED
      BY <3>1, <3>2, <1>1
  <2> QED
    BY <1>1, <1>2, <1>16, <2>1 DEF CountCycle, DreamPc
<1>17. CASE HandleWakeEvent
  <2>1. TypeOK'
    BY <1>17, EchoselfAssumption DEF HandleWakeEvent, States
  <2> QED
    BY <1>1, <1>2, <1>17, <2>1 DEF HandleWakeEvent
<1>18. CASE UNCHANGED vars
  BY <1>1, <1>2, <1>18 DEF vars
<1> HIDE DEF TypeOK
<1> QED
  BY <1>3, <1>4, <1>5, <1>6, <1>7, <1>8, <1>9, <1>10, <1>11, <1>12, <1>13,
     <1>14, <1>15, <1>16, <1>17, <1>18 DEF Next

-----------------------------------------------------------------------------
(* The theorems, for one host goroutine calling Start and Stop.           *)

(* With a single host goroutine calling Start and Stop, every reachable   *)
(* state of EchoselfAutonomous is well typed: in particular the counter   *)
(* of dream cycles still to be counted (uncounted) never goes negative,   *)
(* for any DreamSlots and MaxWakeEvents.                                  *)
THEOREM EchoselfTypeCorrect ==
    ASSUME NEW c0, Callers = {c0}
    PROVE  Spec => []TypeOK
<1>1. Init => IInv
  BY InitIInv
<1>2. IInv /\ [Next]_vars => IInv'
  BY StepIInv
<1>3. IInv => TypeOK
  BY DEF IInv
<1> QED
  BY <1>1, <1>2, <1>3, PTL DEF Spec

(* With a single host goroutine calling Start and Stop, the dream-cycle   *)
(* goroutines that initiateDream spawns never outnumber the entries into  *)
(* StateDreaming still to be counted: EndDreamCycle's cyclesCompleted++   *)
(* is never double-counted.  It rests on CountInv: the loop reaches       *)
(* initiateDream only from a non-dreaming state, and every goroutine in   *)
(* flight or about to be spawned owns its own entry.                      *)
THEOREM DreamsCountedOnceHolds ==
    ASSUME NEW c0, Callers = {c0}
    PROVE  Spec => []DreamsCountedOnce
<1>1. Init => IInv
  BY InitIInv
<1>2. IInv /\ [Next]_vars => IInv'
  BY StepIInv
<1>3. IInv => DreamsCountedOnce
  <2> SUFFICES ASSUME IInv PROVE DreamsCountedOnce
    OBVIOUS
  <2>1. Cardinality(Entering) \in Nat
    <3>1. Cardinality(Entering) = IF loop[c0] = "begin" THEN 1 ELSE 0
      BY EnteringOne DEF Entering
    <3> QED
      BY <3>1
  <2>2. Cardinality(InFlightDreams) \in Nat
    <3>1. InFlightDreams = FlightOf(dreamGo)
      BY DEF InFlightDreams, FlightOf
    <3> QED
      BY <3>1, FlightFinite
  <2>3. uncounted \in Nat
    BY DEF IInv, TypeOK
  <2> QED
    BY <2>1, <2>2, <2>3 DEF IInv, CountInv, DreamsCountedOnce
<1> QED
  BY <1>1, <1>2, <1>3, PTL DEF Spec


-----------------------------------------------------------------------------
(* NoNestedDream.  It is inductive together with two facts: IsDreaming is *)
(* TRUE exactly while some dream goroutine sleeps (BeginDreamCycle and    *)
(* the spawn of its goroutine are one step, EndDreamCycle and the end of  *)
(* its sleep another), and a lifecycle goroutine that passed the          *)
(* IsDreaming check and has not yet called BeginDreamCycle sees IsDreaming *)
(* FALSE, because no other goroutine begins a cycle.                      *)

NestInv ==
    /\ NoNestedDream
    /\ dreaming <=> \E s \in Slots : dreamGo[s] = "sleep"
    /\ \A c \in Callers : loop[c] \in {"dream", "begin"} => ~dreaming

LEMMA NestInit == Init => NestInv
BY DEF Init, NestInv, NoNestedDream

LEMMA NestStep ==
    ASSUME NEW c0, Callers = {c0}, TypeOK, NestInv, [Next]_vars
    PROVE  NestInv'
<1> USE DEF NestInv, NoNestedDream
<1>1. ASSUME NEW c \in Callers,
             StartCheck(c) \/ StartFails(c) \/ StartSpawn(c) \/ StartFinish(c)
             \/ Stop(c) \/ LoopExit(c) \/ LoopTick(c) \/ InitiateRest(c)
             \/ ScheduleWake(c) \/ InitiateDream(c)
      PROVE  NestInv'
  <2>1. UNCHANGED <<dreaming, dreamGo>>
    BY <1>1 DEF StartCheck, StartFails, StartSpawn, StartFinish, Stop, LoopExit,
                LoopTick, InitiateRest, ScheduleWake, InitiateDream
  <2>2. loop'[c0] \in {"dream", "begin"} => ~dreaming
    BY <1>1 DEF StartCheck, StartFails, StartSpawn, StartFinish, Stop, LoopExit,
                LoopTick, InitiateRest, ScheduleWake, InitiateDream, TypeOK
  <2> QED
    BY <2>1, <2>2
<1>2. ASSUME NEW c \in Callers, CheckDreaming(c) PROVE NestInv'
  BY <1>2 DEF CheckDreaming, TypeOK
<1>3. ASSUME NEW c \in Callers, BeginDream(c) PROVE NestInv'
  <2>1. PICK s \in Slots : /\ dreamGo[s] = "none"
                           /\ dreamGo' = [dreamGo EXCEPT ![s] = "sleep"]
    BY <1>3 DEF BeginDream
  <2>2. \A t \in Slots : dreamGo[t] # "sleep"
    BY <1>3 DEF BeginDream
  <2>3. \A t \in Slots : dreamGo'[t] = "sleep" <=> t = s
    BY <2>1, <2>2 DEF TypeOK
  <2>4. dreaming' /\ loop'[c0] = "idle"
    BY <1>3 DEF BeginDream, TypeOK
  <2> QED
    BY <2>3, <2>4
<1>4. ASSUME NEW s \in Slots, EndDream(s) PROVE NestInv'
  <2>1. \A t \in Slots : dreamGo'[t] # "sleep"
    BY <1>4 DEF EndDream, TypeOK
  <2> QED
    BY <1>4, <2>1 DEF EndDream
<1>5. ASSUME NEW s \in Slots, CountCycle(s) PROVE NestInv'
  <2>1. \A t \in Slots : dreamGo'[t] = "sleep" <=> dreamGo[t] = "sleep"
    BY <1>5 DEF CountCycle, TypeOK
  <2> QED
    BY <1>5, <2>1 DEF CountCycle
<1>6. CASE HandleWakeEvent
  BY <1>6 DEF HandleWakeEvent
<1>7. CASE UNCHANGED vars
  BY <1>7 DEF vars
<1> QED
  BY <1>1, <1>2, <1>3, <1>4, <1>5, <1>6, <1>7 DEF Next

(* With a single host goroutine calling Start and Stop, the guard         *)
(* !IsDreaming() in autonomousLifeCycle is enough: a dream cycle is never *)
(* begun while another one sleeps, whatever the dream goroutines do       *)
(* between the check and BeginDreamCycle.                                 *)
THEOREM NoNestedDreamHolds ==
    ASSUME NEW c0, Callers = {c0}
    PROVE  Spec => []NoNestedDream
<1>1. Init => IInv /\ NestInv
  BY InitIInv, NestInit
<1>2. IInv /\ NestInv /\ [Next]_vars => IInv' /\ NestInv'
  BY StepIInv, NestStep DEF IInv
<1>3. IInv /\ NestInv => NoNestedDream
  BY DEF NestInv
<1> QED
  BY <1>1, <1>2, <1>3, PTL DEF Spec

=============================================================================
