--------------------------- MODULE MagmSchedule ---------------------------
(***************************************************************************)
(* The MAGM decision for one window: schedule_window of                    *)
(* scripts/offline_magm_scheduler.py.                                      *)
(*                                                                         *)
(* The rows of the window are sorted by predicted intensity.  With no more *)
(* rows than physical cores (mode CE) row k gets core k to itself.         *)
(* Otherwise (mode SP) the pairs of the top_k rows whose complementarity   *)
(* score is not negative are taken from the best to the worst, and a pair  *)
(* whose two threads are both free gets the two siblings of the next core. *)
(*                                                                         *)
(* One action is one statement of the body or one turn of a loop.  The     *)
(* list of edges that the code sorts and walks is kept as the set of the   *)
(* edges not yet walked, of which the next one in the sorted order is      *)
(* taken.                                                                  *)
(***************************************************************************)
EXTENDS Integers, FiniteSets

CONSTANTS
  Threads,          \* thread_key values
  Profiles,         \* predicted feature vectors (the pred_* columns of a row)
  CoreCounts,       \* values of --physical-cores
  TopKs,            \* values of --top-k
  Intensity(_),     \* predicted_intensity, of a profile
  Score(_, _),      \* complementarity_score, of two profiles
  NoPeer            \* the empty paired_with of a CE decision

ASSUME ThreadsAssumption ==
  /\ IsFiniteSet(Threads)
  /\ NoPeer \notin Threads

ASSUME ArgumentsAssumption ==
  /\ CoreCounts \subseteq Nat
  /\ TopKs \subseteq Nat

ASSUME ScoreAssumption ==
  \A p, q \in Profiles :
    /\ Intensity(p) \in Int
    /\ Score(p, q) \in Int
    /\ Score(p, q) = Score(q, p)

VARIABLES
  physicalCores, topK,  \* the arguments
  rows,                 \* the threads that have a row in the window
  pred,                 \* their predicted profiles
  pc,                   \* where schedule_window is
  order,                \* rows by descending intensity, once sorted
  edges,                \* edges of the candidates not yet walked
  coreIdx,              \* core_idx: the next core to hand out
  used,                 \* used_threads
  decisions             \* the rows of magm_schedule.csv

input == <<physicalCores, topK, rows, pred>>
vars == <<physicalCores, topK, rows, pred, pc, order, edges, coreIdx, used, decisions>>

-----------------------------------------------------------------------------
NRun == Cardinality(rows)

\* Mutants of CpuForCore: a core numbered by its first thread only, and the
\* two slots swapped.
CpuForCoreFlat(core, sibling) == core + sibling
CpuForCoreSwapped(core, sibling) == core * 2 + 1 - sibling

\* cpu_for_core: the logical CPUs of core c are 2c and 2c + 1.
CpuForCore(core, sibling) == core * 2 + sibling

AtLeastOne(n) == IF n = 0 THEN 1 ELSE n

\* rho = n_run / max(physical_cores, 1) and the choice of the mode.
Mode == IF NRun <= AtLeastOne(physicalCores) THEN "CE" ELSE "SP"

\* Mutant of IsSorted: pandas' default, ascending.
IsSortedAscending(o) ==
  /\ \A i, j \in 1 .. NRun : o[i] = o[j] => i = j
  /\ \A i, j \in 1 .. NRun :
       i < j => Intensity(pred[o[i]]) <= Intensity(pred[o[j]])

\* sort_values("intensity", ascending=False): quicksort, so that rows of equal
\* intensity come in any order.
IsSorted(o) ==
  /\ \A i, j \in 1 .. NRun : o[i] = o[j] => i = j
  /\ \A i, j \in 1 .. NRun :
       i < j => Intensity(pred[o[i]]) >= Intensity(pred[o[j]])

\* The length of head(k).
HeadOf(k) == IF k <= NRun THEN k ELSE NRun

\* candidates = subdf.head(min(top_k, len(subdf))).
NCandidates == HeadOf(topK)

EdgeScore(e) == Score(pred[order[e[1]]], pred[order[e[2]]])

\* The edges the two nested loops collect.
CandidateEdges ==
  {e \in (1 .. NCandidates) \X (1 .. NCandidates) : e[1] < e[2] /\ EdgeScore(e) >= 0}

\* Mutant of Precedes: the sort without reverse=True.
PrecedesAscending(e, f) == EdgeScore(e) <= EdgeScore(f)

\* edges.sort(reverse=True, key=score): descending and stable, so that equal
\* scores stay in the order the nested loops appended them.
Precedes(e, f) ==
  \/ EdgeScore(e) > EdgeScore(f)
  \/ /\ EdgeScore(e) = EdgeScore(f)
     /\ \/ e[1] < f[1]
        \/ e[1] = f[1] /\ e[2] <= f[2]

\* Mutant of IsBest: the edges are walked unsorted.
IsAnyEdge(e) == e \in edges

IsBest(e) == e \in edges /\ \A f \in edges : Precedes(e, f)

\* Mutant of BothFree: "and" for "or" in the test that continues the loop.
EitherFree(a, b) == a \notin used \/ b \notin used

BothFree(a, b) == a \notin used /\ b \notin used

\* Mutant of CoreLeft: the off-by-one of "break if core_idx > physical_cores".
CoreLeftOffByOne == coreIdx <= physicalCores

CoreLeft == coreIdx < physicalCores

\* The edges left after this turn of the loop.
Rest(e) == edges \ {e}

Decision(t, cpu, peer) == [thread |-> t, cpu |-> cpu, peer |-> peer]

-----------------------------------------------------------------------------
Init ==
  /\ physicalCores \in CoreCounts
  /\ topK \in TopKs
  /\ rows \in SUBSET Threads \ {{}}
  /\ pred \in [rows -> Profiles]
  /\ pc = "sort"
  /\ order = <<>>
  /\ edges = {}
  /\ coreIdx = 0
  /\ used = {}
  /\ decisions = {}

Sort ==
  /\ pc = "sort"
  /\ order' \in [1 .. NRun -> rows]
  /\ IsSorted(order')
  /\ pc' = IF Mode = "CE" THEN "ce" ELSE "pairs"
  /\ UNCHANGED <<input, edges, coreIdx, used, decisions>>

\* One turn of the CE loop over subdf.head(physical_cores).
BindAlone ==
  /\ pc = "ce"
  /\ coreIdx < HeadOf(physicalCores)
  /\ decisions' = decisions \cup
       {Decision(order[coreIdx + 1], CpuForCore(coreIdx, 0), NoPeer)}
  /\ coreIdx' = coreIdx + 1
  /\ UNCHANGED <<input, pc, order, edges, used>>

ReturnCE ==
  /\ pc = "ce"
  /\ coreIdx >= HeadOf(physicalCores)
  /\ pc' = "done"
  /\ UNCHANGED <<input, order, edges, coreIdx, used, decisions>>

CollectEdges ==
  /\ pc = "pairs"
  /\ edges' = CandidateEdges
  /\ pc' = "greedy"
  /\ UNCHANGED <<input, order, coreIdx, used, decisions>>

\* A turn of the greedy loop that binds the pair.
BindPair(e) ==
  LET a == order[e[1]]
      b == order[e[2]]
  IN /\ pc = "greedy"
     /\ CoreLeft
     /\ IsBest(e)
     /\ BothFree(a, b)
     /\ decisions' = decisions \cup
          {Decision(a, CpuForCore(coreIdx, 0), b), Decision(b, CpuForCore(coreIdx, 1), a)}
     /\ used' = used \cup {a, b}
     /\ coreIdx' = coreIdx + 1
     /\ edges' = Rest(e)
     /\ UNCHANGED <<input, pc, order>>

\* A turn that meets a thread already bound: continue.
SkipPair(e) ==
  /\ pc = "greedy"
  /\ CoreLeft
  /\ IsBest(e)
  /\ ~ BothFree(order[e[1]], order[e[2]])
  /\ edges' = Rest(e)
  /\ UNCHANGED <<input, pc, order, coreIdx, used, decisions>>

\* The loop ends: no edge is left, or no core is (break).
ReturnSP ==
  /\ pc = "greedy"
  /\ edges = {} \/ ~ CoreLeft
  /\ pc' = "done"
  /\ UNCHANGED <<input, order, edges, coreIdx, used, decisions>>

Next ==
  \/ Sort
  \/ BindAlone
  \/ ReturnCE
  \/ CollectEdges
  \/ \E e \in edges : BindPair(e)
  \/ \E e \in edges : SkipPair(e)
  \/ ReturnSP

Spec == Init /\ [][Next]_vars

-----------------------------------------------------------------------------
\* Every variable keeps to the values schedule_window can give it.
TypeOK ==
  /\ physicalCores \in Nat
  /\ topK \in Nat
  /\ rows \in SUBSET Threads
  /\ pred \in [rows -> Profiles]
  /\ pc \in {"sort", "ce", "pairs", "greedy", "done"}
  /\ pc # "sort" => order \in [1 .. NRun -> rows]
  /\ edges \subseteq (1 .. NRun) \X (1 .. NRun)
  /\ coreIdx \in 0 .. physicalCores
  /\ used \subseteq rows
  /\ decisions \subseteq
       [thread : rows, cpu : 0 .. 2 * physicalCores - 1, peer : rows \cup {NoPeer}]

\* The decision never puts two threads on one logical CPU, nor one thread on
\* two: the export and both executors take a row for the place of its thread.
NoDoubleBooking ==
  \A d, f \in decisions :
    (d.cpu = f.cpu \/ d.thread = f.thread) => d = f

\* A pair is on the two siblings of one core and each names the other; a
\* thread bound without a peer has its core to itself (README 5.1: CE spreads
\* threads over different physical cores, SP pairs SMT siblings).
SameCore(c1, c2) ==
  \E core \in 0 .. physicalCores - 1 :
    {c1, c2} \subseteq {CpuForCore(core, 0), CpuForCore(core, 1)}

SiblingPairs ==
  \A d, f \in decisions :
    d # f => (SameCore(d.cpu, f.cpu) <=> (d.peer = f.thread /\ f.peer = d.thread))

\* When the greedy pass is over no two candidates would both rather be paired
\* with each other: an admissible pair that was not bound lost a thread to a
\* pair with at least its score, or every core went to such a pair.
ChosenOver(e, d) ==
  /\ d.peer # NoPeer
  /\ Score(pred[d.thread], pred[d.peer]) >= EdgeScore(e)

StableMatching ==
  (pc = "done" /\ Mode = "SP") =>
    \A e \in CandidateEdges :
      \/ \E d \in decisions :
           d.thread \in {order[e[1]], order[e[2]]} /\ ChosenOver(e, d)
      \/ /\ coreIdx = physicalCores
         /\ \A d \in decisions : ChosenOver(e, d)

\* The greedy pairs together score at least half of what any other choice of
\* disjoint admissible pairs on these cores could.
Disjoint(M) ==
  \A e, f \in M : e # f => {e[1], e[2]} \cap {f[1], f[2]} = {}

Matchings ==
  {M \in SUBSET CandidateEdges : Disjoint(M) /\ Cardinality(M) <= physicalCores}

BoundEdges ==
  {e \in CandidateEdges :
     \E d \in decisions : d.thread = order[e[1]] /\ d.peer = order[e[2]]}

\* The scores of admissible pairs are natural numbers: their sum is the number
\* of their points.
Points(M) == UNION {{e} \X (1 .. EdgeScore(e)) : e \in M}

TotalScore(M) == Cardinality(Points(M))

HalfOfBest ==
  (pc = "done" /\ Mode = "SP") =>
    \A M \in Matchings : 2 * TotalScore(BoundEdges) >= TotalScore(M)

\* Under light load every thread gets a core of its own, the most intense
\* ones the lowest cores (README 5.1, mode CE).
SpreadWhenLight ==
  (pc = "done" /\ Mode = "CE" /\ physicalCores > 0) =>
    /\ {d.thread : d \in decisions} = rows
    /\ \A d, f \in decisions :
         /\ d.cpu % 2 = 0 /\ d.peer = NoPeer
         /\ d.cpu < f.cpu =>
              Intensity(pred[d.thread]) >= Intensity(pred[f.thread])

\* The decision is built as SmtPlacement promises.
Placement == INSTANCE SmtPlacement WITH
  cores <- physicalCores,
  placement <- {<<d.thread, d.cpu>> : d \in decisions},
  final <- (pc = "done")

PlacementSpec == Placement!Spec
=============================================================================
