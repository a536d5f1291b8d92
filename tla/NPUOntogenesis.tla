---------------------------- MODULE NPUOntogenesis ---------------------------
(***************************************************************************)
(* NPUOntogenesis.EvolvePopulation (src/core/ecco9/drivers/               *)
(* npu_ontogenesis.go): generations of NPU drivers evolved by elitism,    *)
(* tournament selection and reproduction.                                  *)
(*                                                                         *)
(* An individual is abstracted to its fitness, a natural number in         *)
(* hundredths.  The fitness of an offspring is computed by the entelechy  *)
(* package, outside this repository, from genes this file sets at random: *)
(* it is any value of Fitness.  The elitism rate, a float64, is the       *)
(* rational ElitismNum / ElitismDen; int(float64(n) * rate) truncates,    *)
(* which \div does exactly for a rate such as 1/3 whose products the      *)
(* float rounds upwards or exactly.                                       *)
(***************************************************************************)
EXTENDS Naturals, Sequences, FiniteSetsExt

CONSTANTS
    Fitness,            \* the fitness values an individual can have
    SeedSizes,          \* lengths of the seed populations passed in
    PopulationSize,     \* no.PopulationSize
    ElitismNum,         \* no.ElitismRate = ElitismNum / ElitismDen
    ElitismDen,
    MaxGenerations,     \* no.MaxGenerations
    FitnessThreshold    \* no.FitnessThreshold, in hundredths

ASSUME OntogenesisAssumption ==
    /\ Fitness \subseteq Nat /\ Fitness # {}
    /\ SeedSizes \subseteq Nat
    /\ PopulationSize \in Nat
    /\ ElitismNum \in Nat /\ ElitismDen \in Nat \ {0}
    /\ MaxGenerations \in Nat
    /\ FitnessThreshold \in Nat

VARIABLES
    population,     \* the current generation, as the fitness of each member
    gen,            \* the loop counter of EvolvePopulation
    best,           \* stats.BestFitness of the last evaluated generation
    pc              \* "evaluate", "evolve", "done", or "panic"

vars == <<population, gen, best, pc>>

(* maxFloat64: 0 for an empty slice, else the largest value.               *)
MaxFloat64(s) == IF s = <<>> THEN 0 ELSE Max({s[i] : i \in 1..Len(s)})

(* minInt.                                                                *)
MinInt(a, b) == IF a < b THEN a ELSE b

(* selectElite: pair each fitness with its index, exchange-sort the pairs *)
(* by descending fitness (for i, for j > i, swap when [j] beats [i]), and *)
(* return the indices of the first minInt(count, len) pairs.              *)
Swap(s, i, j) == [s EXCEPT ![i] = s[j], ![j] = s[i]]

RECURSIVE ExchangeSort(_, _, _)
ExchangeSort(s, i, j) ==
    IF i >= Len(s) THEN s
    ELSE IF j > Len(s) THEN ExchangeSort(s, i + 1, i + 2)
    ELSE ExchangeSort(IF s[j].fitness > s[i].fitness THEN Swap(s, i, j) ELSE s,
                      i, j + 1)

(* A mutant of SelectElite: the sort compares the wrong way round.        *)
SelectEliteWorst(fitnesses, count) ==
    LET sorted == ExchangeSort([i \in 1..Len(fitnesses) |->
                                   [index |-> i, fitness |-> -fitnesses[i]]],
                               1, 2)
    IN [k \in 1..MinInt(count, Len(sorted)) |-> sorted[k].index]

SelectElite(fitnesses, count) ==
    LET sorted == ExchangeSort([i \in 1..Len(fitnesses) |->
                                   [index |-> i, fitness |-> fitnesses[i]]],
                               1, 2)
    IN [k \in 1..MinInt(count, Len(sorted)) |-> sorted[k].index]

(* tournamentSelection starts with rand.Intn(len(fitnesses)), which       *)
(* panics when the slice is empty.                                        *)
TournamentPanics(fitnesses) == Len(fitnesses) = 0

(* evolveGeneration: eliteCount = int(len * ElitismRate); the elites, in  *)
(* order, then offspring (by SelfReproduce or SelfGenerate of tournament  *)
(* winners) until the population has PopulationSize members.             *)
EliteCount(n) == (n * ElitismNum) \div ElitismDen

Offspring(n) == IF n < PopulationSize THEN PopulationSize - n ELSE 0

-----------------------------------------------------------------------------

Init ==
    /\ population \in UNION {[1..n -> Fitness] : n \in SeedSizes}
    /\ gen = 0
    /\ best = 0
    /\ pc = "evaluate"

(* One turn of the generation loop: leave it after MaxGenerations; else   *)
(* AssessEntelechy every member, record BestFitness, and break when it    *)
(* reaches FitnessThreshold.                                              *)
Evaluate ==
    /\ pc = "evaluate"
    /\ IF gen >= MaxGenerations
       THEN pc' = "done" /\ UNCHANGED best
       ELSE /\ best' = MaxFloat64(population)
            /\ pc' = IF MaxFloat64(population) >= FitnessThreshold
                     THEN "done" ELSE "evolve"
    /\ UNCHANGED <<population, gen>>

(* A mutant of EvolveGeneration: the fill loop runs once more (<=).       *)
EvolveGenerationOneMore ==
    LET elite == SelectElite(population, EliteCount(Len(population)))
        n == Len(elite)
    IN /\ pc = "evolve"
       /\ IF n <= PopulationSize /\ TournamentPanics(population)
          THEN pc' = "panic" /\ UNCHANGED population
          ELSE /\ \E kids \in [1..(Offspring(n) + 1) -> Fitness] :
                    population' = [i \in 1..n |-> population[elite[i]]] \o kids
               /\ pc' = "evaluate"
       /\ gen' = gen + 1
       /\ UNCHANGED best

(* population = no.evolveGeneration(population, fitnesses), then gen++.   *)
EvolveGeneration ==
    LET elite == SelectElite(population, EliteCount(Len(population)))
        n == Len(elite)
    IN /\ pc = "evolve"
       /\ IF n < PopulationSize /\ TournamentPanics(population)
          THEN pc' = "panic" /\ UNCHANGED population
          ELSE /\ \E kids \in [1..Offspring(n) -> Fitness] :
                    population' = [i \in 1..n |-> population[elite[i]]] \o kids
               /\ pc' = "evaluate"
       /\ gen' = gen + 1
       /\ UNCHANGED best

(* EvolvePopulation returns (pc = "done") or panics; it then takes no step. *)
Next == Evaluate \/ EvolveGeneration

Spec == Init /\ [][Next]_vars

-----------------------------------------------------------------------------
(* Properties.                                                            *)

MaxSeed == IF SeedSizes = {} THEN 0 ELSE Max(SeedSizes)

TypeOK ==
    /\ population \in UNION {[1..n -> Fitness] :
                               n \in 0..(IF MaxSeed > PopulationSize
                                         THEN MaxSeed ELSE PopulationSize)}
    /\ gen \in 0..MaxGenerations
    /\ best \in Fitness \cup {0}
    /\ pc \in {"evaluate", "evolve", "done", "panic"}

(* The comment at the elitism step: "keep best individuals".  Whatever    *)
(* the offspring are, a new generation is never worse than the one it    *)
(* was bred from: its best member is at least as fit.                     *)
ElitesKept ==
    [][pc = "evolve" /\ pc' = "evaluate"
         => MaxFloat64(population') >= MaxFloat64(population)]_vars

(* EvolvePopulation returns for every seed population it is given.        *)
NoPanic == pc # "panic"

=============================================================================
