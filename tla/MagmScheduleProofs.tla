------------------------ MODULE MagmScheduleProofs ------------------------
(***************************************************************************)
(* What holds of schedule_window for every window, every number of cores   *)
(* and every scoring rule with integer, symmetric scores.                  *)
(*                                                                         *)
(* The properties are not inductive on their own: that two pairs never     *)
(* meet on a CPU needs every CPU handed out to lie below core_idx, that a  *)
(* thread is never bound twice needs used_threads to be exactly the bound  *)
(* threads, and that the matching is stable needs every edge already       *)
(* walked to have lost to a pair at least as good and every bound pair to  *)
(* be at least as good as every edge still to walk.  Inv collects this.    *)
(*                                                                         *)
(* That the greedy pairs are worth half of the best choice needs EdgesOK   *)
(* besides: two decisions for every core handed out, all of them from      *)
(* candidate edges.                                                        *)
(***************************************************************************)
EXTENDS MagmDecision, FiniteSetTheorems, FunctionTheorems, TLAPS

\* Before the loops nothing is decided.
StartOK ==
  pc \in {"sort", "pairs"} => decisions = {} /\ coreIdx = 0 /\ used = {} /\ edges = {}

ModeOK ==
  /\ pc = "ce" => Mode = "CE"
  /\ pc \in {"pairs", "greedy"} => Mode = "SP"

OrderOK == pc # "sort" => IsSorted(order)

\* Every CPU handed out is on a core below core_idx.
BelowOK == \A d \in decisions : d.cpu < 2 * coreIdx

\* The CE loop has bound the first core_idx rows, row k to core k, and leaves
\* none out.
AloneOK ==
  (pc \in {"ce", "done"} /\ Mode = "CE") =>
    /\ coreIdx <= HeadOf(physicalCores)
    /\ pc = "done" => coreIdx = HeadOf(physicalCores)
    /\ \A d \in decisions :
         \E k \in 0 .. coreIdx - 1 : d = Decision(order[k + 1], 2 * k, NoPeer)
    /\ \A k \in 0 .. coreIdx - 1 : Decision(order[k + 1], 2 * k, NoPeer) \in decisions

\* The greedy loop binds both threads of a pair together and remembers them.
PairsOK ==
  Mode = "SP" =>
    /\ used = {d.thread : d \in decisions}
    /\ \A d \in decisions :
         \E c \in 0 .. coreIdx - 1, s \in {0, 1} :
           /\ d.cpu = 2 * c + s
           /\ Decision(d.peer, 2 * c + 1 - s, d.thread) \in decisions

\* The edges walked so far lost to a bound pair, those to come are no better
\* than any bound pair.
GreedyOK ==
  (pc \in {"greedy", "done"} /\ Mode = "SP") =>
    /\ edges \subseteq CandidateEdges
    /\ \A e \in CandidateEdges \ edges :
         \E d \in decisions :
           d.thread \in {order[e[1]], order[e[2]]} /\ ChosenOver(e, d)
    /\ \A e \in edges, d \in decisions : ChosenOver(e, d)

DoneOK == (pc = "done" /\ Mode = "SP") => edges = {} \/ coreIdx = physicalCores

Inv ==
  /\ TypeOK
  /\ StartOK
  /\ ModeOK
  /\ OrderOK
  /\ BelowOK
  /\ NoDoubleBooking
  /\ AloneOK
  /\ PairsOK
  /\ GreedyOK
  /\ DoneOK

-----------------------------------------------------------------------------
\* The number of rows is a natural number: Threads is finite.
LEMMA NRunNat == ASSUME rows \in SUBSET Threads PROVE NRun \in Nat
  BY ThreadsAssumption, FS_Subset, FS_CardinalityType DEF NRun

\* head(k) is no longer than the window nor than k.
LEMMA HeadBound ==
  ASSUME rows \in SUBSET Threads, NEW k \in Nat
  PROVE  HeadOf(k) \in 0 .. NRun /\ HeadOf(k) <= k
  BY NRunNat DEF HeadOf

\* Mode is one of the two, whatever the window.
LEMMA ModeCases == Mode \in {"CE", "SP"}
  BY DEF Mode

\* The input of the window is not touched, nor is anything computed from it.
LEMMA InputStable ==
  ASSUME UNCHANGED input
  PROVE  NRun' = NRun /\ Mode' = Mode /\ \A k : HeadOf(k)' = HeadOf(k)
  BY DEF input, NRun, Mode, HeadOf, AtLeastOne

\* An edge of the candidates joins two different threads of the window and its
\* score is an integer.
LEMMA EdgeType ==
  ASSUME TypeOK, OrderOK, pc # "sort",
         NEW e \in (1 .. NRun) \X (1 .. NRun)
  PROVE  /\ order[e[1]] \in rows /\ order[e[2]] \in rows
         /\ pred[order[e[1]]] \in Profiles /\ pred[order[e[2]]] \in Profiles
         /\ EdgeScore(e) \in Int
         /\ e[1] \in Nat /\ e[2] \in Nat
         /\ e[1] < e[2] => order[e[1]] # order[e[2]]
  <1>1. NRun \in Nat
    BY NRunNat DEF TypeOK
  <1>2. order \in [1 .. NRun -> rows]
    BY DEF TypeOK
  <1>3. e[1] \in 1 .. NRun /\ e[2] \in 1 .. NRun
    OBVIOUS
  <1>4. order[e[1]] \in rows /\ order[e[2]] \in rows
    BY <1>2, <1>3
  <1>5. pred[order[e[1]]] \in Profiles /\ pred[order[e[2]]] \in Profiles
    BY <1>4 DEF TypeOK
  <1>6. EdgeScore(e) \in Int
    BY <1>5, ScoreAssumption DEF EdgeScore
  <1>7. e[1] \in Nat /\ e[2] \in Nat
    BY <1>1, <1>3
  <1>8. e[1] < e[2] => order[e[1]] # order[e[2]]
    BY <1>3, <1>7 DEF OrderOK, IsSorted
  <1> QED
    BY <1>4, <1>5, <1>6, <1>7, <1>8

\* The candidate cells the scheduler sorts are cells of the matrix.
LEMMA CandidatesAreEdges ==
  ASSUME TypeOK
  PROVE  CandidateEdges \subseteq (1 .. NRun) \X (1 .. NRun)
  <1>1. NCandidates \in 0 .. NRun /\ NRun \in Nat
    BY NRunNat, HeadBound DEF TypeOK, NCandidates
  <1> QED
    BY <1>1 DEF CandidateEdges

-----------------------------------------------------------------------------
\* Nothing is decided when schedule_window is called.
LEMMA InitInv == Init => Inv
  <1> SUFFICES ASSUME Init PROVE Inv
    OBVIOUS
  <1>1. physicalCores \in Nat /\ topK \in Nat
    BY ArgumentsAssumption DEF Init
  <1>2. TypeOK
    BY <1>1 DEF Init, TypeOK
  <1>3. StartOK /\ ModeOK /\ OrderOK /\ BelowOK /\ NoDoubleBooking
    BY DEF Init, StartOK, ModeOK, OrderOK, BelowOK, NoDoubleBooking
  <1>4. AloneOK /\ PairsOK /\ GreedyOK /\ DoneOK
    BY DEF Init, AloneOK, PairsOK, GreedyOK, DoneOK
  <1> QED
    BY <1>2, <1>3, <1>4 DEF Inv

\* Sorting fixes the order and the mode, and decides nothing.
LEMMA SortStep == ASSUME Inv, Sort PROVE Inv'
  <1> USE DEF Inv
  <1>1. NRun' = NRun /\ Mode' = Mode
    BY InputStable DEF Sort
  <1>2. decisions = {} /\ coreIdx = 0 /\ used = {} /\ edges = {}
    BY DEF Sort, StartOK
  <1>3. pc' \in {"ce", "pairs"} /\ (pc' = "ce" <=> Mode = "CE")
    BY DEF Sort
  <1>4. TypeOK'
    BY <1>1, <1>2, <1>3 DEF Sort, TypeOK, input
  <1>5. StartOK' /\ BelowOK' /\ NoDoubleBooking'
    BY <1>2 DEF Sort, StartOK, BelowOK, NoDoubleBooking
  <1>6. ModeOK'
    BY <1>1, <1>3, ModeCases DEF ModeOK
  <1>7. OrderOK'
    BY <1>1 DEF Sort, OrderOK, IsSorted, input
  <1>8. AloneOK'
    <2>1. HeadOf(physicalCores) \in 0 .. NRun /\ HeadOf(physicalCores)' = HeadOf(physicalCores)
      BY HeadBound, <1>1 DEF TypeOK, Sort, input, HeadOf
    <2> QED
      BY <1>2, <2>1, NRunNat DEF Sort, AloneOK, TypeOK
  <1>9. PairsOK'
    BY <1>2 DEF Sort, PairsOK
  <1>10. GreedyOK' /\ DoneOK'
    BY <1>3 DEF GreedyOK, DoneOK
  <1> QED
    BY <1>4, <1>5, <1>6, <1>7, <1>8, <1>9, <1>10

\* A turn of the CE loop binds a row that no earlier turn bound, to a CPU above
\* all those handed out.
LEMMA BindAloneStep == ASSUME Inv, BindAlone PROVE Inv'
  <1> USE DEF Inv
  <1> DEFINE d0 == Decision(order[coreIdx + 1], 2 * coreIdx, NoPeer)
  <1>1. NRun' = NRun /\ Mode' = Mode /\ HeadOf(physicalCores)' = HeadOf(physicalCores)
    BY InputStable DEF BindAlone, input, HeadOf
  <1>2. Mode = "CE" /\ pc = "ce" /\ pc' = "ce" /\ NRun \in Nat
    BY NRunNat DEF BindAlone, ModeOK, TypeOK
  <1>3. coreIdx \in Nat /\ coreIdx < HeadOf(physicalCores) /\ HeadOf(physicalCores) <= NRun
        /\ HeadOf(physicalCores) <= physicalCores /\ physicalCores \in Nat
        /\ HeadOf(physicalCores) \in Nat
    BY HeadBound, <1>2 DEF BindAlone, TypeOK
  <1>4. decisions' = decisions \cup {d0} /\ coreIdx' = coreIdx + 1
    <2>1. CpuForCore(coreIdx, 0) = 2 * coreIdx
      BY <1>3 DEF CpuForCore
    <2> QED
      BY <2>1 DEF BindAlone
  <1>5. order[coreIdx + 1] \in rows /\ order' = order /\ rows' = rows
    BY <1>2, <1>3 DEF BindAlone, TypeOK, input
  <1>6. TypeOK'
    <2>1. d0 \in [thread : rows, cpu : 0 .. 2 * physicalCores - 1, peer : rows \cup {NoPeer}]
      BY <1>3, <1>5 DEF Decision
    <2> QED
      BY <1>1, <1>3, <1>4, <1>5, <2>1 DEF BindAlone, TypeOK, input
  <1>7. AloneOK'
    <2>1. \A d \in decisions : \E k \in 0 .. coreIdx - 1 : d = Decision(order[k + 1], 2 * k, NoPeer)
      BY <1>2 DEF AloneOK
    <2>2. \A d \in decisions' : \E k \in 0 .. coreIdx : d = Decision(order[k + 1], 2 * k, NoPeer)
      BY <1>3, <1>4, <2>1
    <2>3. coreIdx' - 1 = coreIdx /\ coreIdx' <= HeadOf(physicalCores)
      BY <1>1, <1>3, <1>4, HeadBound DEF TypeOK
    <2>4. \A k \in 0 .. coreIdx : Decision(order[k + 1], 2 * k, NoPeer) \in decisions'
      <3>1. \A k \in 0 .. coreIdx - 1 : Decision(order[k + 1], 2 * k, NoPeer) \in decisions
        BY <1>2 DEF AloneOK
      <3> QED
        BY <1>3, <1>4, <3>1
    <2> QED
      BY <1>1, <1>2, <1>5, <2>2, <2>3, <2>4 DEF AloneOK, Decision
  <1>8. NoDoubleBooking'
    <2>1. \A d \in decisions : d.cpu # d0.cpu /\ d.thread # d0.thread
      <3> SUFFICES ASSUME NEW d \in decisions PROVE d.cpu # d0.cpu /\ d.thread # d0.thread
        OBVIOUS
      <3>1. PICK k \in 0 .. coreIdx - 1 : d = Decision(order[k + 1], 2 * k, NoPeer)
        BY <1>2 DEF AloneOK
      <3>2. order[k + 1] # order[coreIdx + 1]
        BY <1>2, <1>3 DEF OrderOK, IsSorted
      <3> QED
        BY <1>3, <3>1, <3>2 DEF Decision
    <2> QED
      BY <1>4, <2>1 DEF NoDoubleBooking
  <1>9. BelowOK'
    BY <1>3, <1>4, <1>6 DEF BelowOK, Decision, TypeOK
  <1>10. StartOK' /\ ModeOK' /\ OrderOK'
    BY <1>1, <1>2, <1>5 DEF BindAlone, StartOK, ModeOK, OrderOK, IsSorted, input
  <1>11. PairsOK' /\ GreedyOK' /\ DoneOK'
    BY <1>1, <1>2 DEF PairsOK, GreedyOK, DoneOK
  <1> QED
    BY <1>6, <1>7, <1>8, <1>9, <1>10, <1>11

\* Leaving the CE loop changes nothing but the program counter.
LEMMA ReturnCEStep == ASSUME Inv, ReturnCE PROVE Inv'
  <1> USE DEF Inv
  <1>1. NRun' = NRun /\ Mode' = Mode /\ HeadOf(physicalCores)' = HeadOf(physicalCores)
    BY InputStable DEF ReturnCE, input, HeadOf
  <1>2. Mode = "CE" /\ pc = "ce" /\ pc' = "done"
    BY DEF ReturnCE, ModeOK
  <1>3. TypeOK'
    BY <1>1, <1>2 DEF ReturnCE, TypeOK, input
  <1>4. StartOK' /\ ModeOK' /\ OrderOK' /\ BelowOK' /\ NoDoubleBooking'
    BY <1>1, <1>2 DEF ReturnCE, ModeOK, StartOK, OrderOK, IsSorted, BelowOK, NoDoubleBooking, input
  <1>5. AloneOK'
    <2>1. coreIdx = HeadOf(physicalCores)
      <3>1. coreIdx \in Nat /\ HeadOf(physicalCores) \in Int
        BY HeadBound, NRunNat DEF TypeOK
      <3> QED
        BY <1>2, <3>1 DEF ReturnCE, AloneOK
    <2> QED
      BY <1>1, <1>2, <2>1 DEF ReturnCE, AloneOK, Decision
  <1>6. PairsOK' /\ GreedyOK' /\ DoneOK'
    BY <1>1, <1>2 DEF PairsOK, GreedyOK, DoneOK
  <1> QED
    BY <1>3, <1>4, <1>5, <1>6

\* The input and the order fix the candidate edges and their scores.
LEMMA EdgesStable ==
  ASSUME UNCHANGED <<input, order>>
  PROVE  /\ CandidateEdges' = CandidateEdges
         /\ \A e : EdgeScore(e)' = EdgeScore(e)
  BY DEF input, CandidateEdges, NCandidates, HeadOf, NRun, EdgeScore

\* Collecting the edges starts the greedy loop with all of them to walk.
LEMMA CollectEdgesStep == ASSUME Inv, CollectEdges PROVE Inv'
  <1> USE DEF Inv
  <1>1. NRun' = NRun /\ Mode' = Mode
    BY InputStable DEF CollectEdges
  <1>2. Mode = "SP" /\ pc = "pairs" /\ pc' = "greedy"
    BY DEF CollectEdges, ModeOK
  <1>3. decisions = {} /\ decisions' = {} /\ coreIdx = 0 /\ coreIdx' = 0 /\ used' = {}
    BY DEF CollectEdges, StartOK
  <1>4. edges' = CandidateEdges /\ CandidateEdges' = CandidateEdges
    BY EdgesStable DEF CollectEdges
  <1>5. TypeOK'
    BY <1>1, <1>2, <1>3, <1>4, CandidatesAreEdges DEF CollectEdges, TypeOK, input
  <1>6. StartOK' /\ ModeOK' /\ BelowOK' /\ NoDoubleBooking'
    BY <1>1, <1>2, <1>3 DEF StartOK, ModeOK, BelowOK, NoDoubleBooking
  <1>7. OrderOK'
    BY <1>1, <1>2 DEF CollectEdges, OrderOK, IsSorted, input
  <1>8. AloneOK' /\ DoneOK'
    BY <1>2 DEF AloneOK, DoneOK
  <1>9. PairsOK'
    BY <1>3 DEF PairsOK
  <1>10. GreedyOK'
    BY <1>3, <1>4 DEF GreedyOK
  <1> QED
    BY <1>5, <1>6, <1>7, <1>8, <1>9, <1>10

\* The edge taken has at least the score of every edge to come.
LEMMA BestIsHeaviest ==
  ASSUME Inv, pc = "greedy", NEW e \in edges, IsBest(e), NEW f \in edges
  PROVE  EdgeScore(e) >= EdgeScore(f)
  <1>1. EdgeScore(e) \in Int /\ EdgeScore(f) \in Int
    BY EdgeType DEF Inv, TypeOK
  <1> QED
    BY <1>1 DEF IsBest, Precedes

\* A turn that binds the pair puts two threads nobody has bound on the two
\* siblings of a core nobody has been put on.
LEMMA BindPairStep ==
  ASSUME Inv, NEW e \in edges, BindPair(e)
  PROVE  Inv'
  <1> USE DEF Inv
  <1> DEFINE a == order[e[1]]
             b == order[e[2]]
             da == Decision(a, 2 * coreIdx, b)
             db == Decision(b, 2 * coreIdx + 1, a)
  <1>1. NRun' = NRun /\ Mode' = Mode /\ CandidateEdges' = CandidateEdges
    BY InputStable, EdgesStable DEF BindPair
  <1>2. Mode = "SP" /\ pc = "greedy" /\ pc' = "greedy" /\ rows' = rows /\ pred' = pred
        /\ order' = order /\ physicalCores' = physicalCores
    BY DEF BindPair, ModeOK, input
  <1>3. physicalCores \in Nat /\ coreIdx \in Nat /\ coreIdx < physicalCores /\ coreIdx' = coreIdx + 1
    BY DEF BindPair, CoreLeft, TypeOK
  <1>4. e \in CandidateEdges /\ e[1] < e[2] /\ IsBest(e)
    BY <1>2 DEF GreedyOK, CandidateEdges, BindPair
  <1>5. a \in rows /\ b \in rows /\ a # b /\ a \notin used /\ b \notin used
    BY <1>2, <1>4, EdgeType DEF BindPair, BothFree, TypeOK
  <1>6. decisions' = decisions \cup {da, db} /\ used' = used \cup {a, b} /\ edges' = edges \ {e}
    <2>1. CpuForCore(coreIdx, 0) = 2 * coreIdx /\ CpuForCore(coreIdx, 1) = 2 * coreIdx + 1
      BY <1>3 DEF CpuForCore
    <2> QED
      BY <2>1 DEF BindPair, Rest
  <1>7. da.thread = a /\ da.cpu = 2 * coreIdx /\ da.peer = b
        /\ db.thread = b /\ db.cpu = 2 * coreIdx + 1 /\ db.peer = a
    BY DEF Decision
  <1>8. \A d \in decisions : d.thread \in used /\ d.cpu \in Nat /\ d.cpu < 2 * coreIdx
    BY <1>2 DEF PairsOK, BelowOK, TypeOK
  <1>9. TypeOK'
    <2>1. {da, db} \subseteq [thread : rows, cpu : 0 .. 2 * physicalCores - 1, peer : rows \cup {NoPeer}]
      BY <1>3, <1>5 DEF Decision
    <2> QED
      BY <1>1, <1>2, <1>3, <1>5, <1>6, <2>1 DEF BindPair, TypeOK, input
  <1>10. NoDoubleBooking'
    BY <1>3, <1>5, <1>6, <1>7, <1>8 DEF NoDoubleBooking
  <1>11. BelowOK'
    BY <1>3, <1>6, <1>7, <1>8 DEF BelowOK
  <1>12. StartOK' /\ ModeOK' /\ OrderOK' /\ AloneOK' /\ DoneOK'
    BY <1>1, <1>2 DEF StartOK, ModeOK, OrderOK, IsSorted, AloneOK, DoneOK
  <1>13. PairsOK'
    <2>1. used' = {d.thread : d \in decisions'}
      BY <1>2, <1>6, <1>7 DEF PairsOK
    <2> SUFFICES ASSUME NEW d \in decisions'
                 PROVE  \E c \in 0 .. coreIdx, s \in {0, 1} :
                          /\ d.cpu = 2 * c + s
                          /\ Decision(d.peer, 2 * c + 1 - s, d.thread) \in decisions'
      BY <1>3, <2>1 DEF PairsOK, Decision
    <2>2. CASE d \in decisions
      <3>1. PICK c \in 0 .. coreIdx - 1, s \in {0, 1} :
              /\ d.cpu = 2 * c + s
              /\ Decision(d.peer, 2 * c + 1 - s, d.thread) \in decisions
        BY <1>2, <2>2 DEF PairsOK
      <3> QED
        BY <1>3, <1>6, <3>1
    <2>3. CASE d = da
      <3>1. Decision(da.peer, 2 * coreIdx + 1 - 0, da.thread) = db
        BY <1>3, <1>7
      <3>2. da.cpu = 2 * coreIdx + 0 /\ coreIdx \in 0 .. coreIdx /\ 0 \in {0, 1}
        BY <1>3, <1>7
      <3> HIDE DEF da, db
      <3> QED
        BY <1>6, <2>3, <3>1, <3>2
    <2>4. CASE d = db
      <3>1. Decision(db.peer, 2 * coreIdx + 1 - 1, db.thread) = da
        BY <1>3, <1>7
      <3>2. db.cpu = 2 * coreIdx + 1 /\ coreIdx \in 0 .. coreIdx /\ 1 \in {0, 1}
        BY <1>3, <1>7
      <3> HIDE DEF da, db
      <3> QED
        BY <1>6, <2>4, <3>1, <3>2
    <2> QED
      BY <1>6, <2>2, <2>3, <2>4
  <1>14. GreedyOK'
    <2>1. pred[a] \in Profiles /\ pred[b] \in Profiles
      BY <1>5 DEF TypeOK
    <2>2. Score(pred[a], pred[b]) = EdgeScore(e) /\ Score(pred[b], pred[a]) = EdgeScore(e)
      BY <2>1, ScoreAssumption DEF EdgeScore
    <2>3. a # NoPeer /\ b # NoPeer
      BY <1>5, ThreadsAssumption DEF TypeOK
    <2>4. \A f \in edges : ChosenOver(f, da) /\ ChosenOver(f, db)
      BY <1>2, <1>4, <1>7, <2>2, <2>3, BestIsHeaviest DEF ChosenOver
    <2>5. \A f, d : ChosenOver(f, d)' <=> ChosenOver(f, d)
      BY <1>2 DEF ChosenOver, EdgeScore
    <2>6. \A f \in CandidateEdges \ edges' :
            \E d \in decisions' : d.thread \in {order[f[1]], order[f[2]]} /\ ChosenOver(f, d)
      BY <1>2, <1>6, <1>7, <2>4 DEF GreedyOK
    <2>7. \A f \in edges', d \in decisions' : ChosenOver(f, d)
      BY <1>2, <1>6, <2>4 DEF GreedyOK
    <2> QED
      BY <1>1, <1>2, <1>6, <2>5, <2>6, <2>7 DEF GreedyOK
  <1> QED
    BY <1>9, <1>10, <1>11, <1>12, <1>13, <1>14

\* A turn that skips the edge leaves it to the bound pair that took one of its
\* threads, and which was no worse since it was walked first.
LEMMA SkipPairStep ==
  ASSUME Inv, NEW e \in edges, SkipPair(e)
  PROVE  Inv'
  <1> USE DEF Inv
  <1>1. NRun' = NRun /\ Mode' = Mode /\ CandidateEdges' = CandidateEdges
    BY InputStable, EdgesStable DEF SkipPair
  <1>2. Mode = "SP" /\ pc = "greedy" /\ pc' = "greedy" /\ UNCHANGED <<input, order, coreIdx, used, decisions>>
    BY DEF SkipPair, ModeOK
  <1>3. edges' = edges \ {e}
    BY DEF SkipPair, Rest
  <1>4. TypeOK'
    BY <1>1, <1>2, <1>3 DEF TypeOK, input
  <1>5. StartOK' /\ ModeOK' /\ OrderOK' /\ BelowOK' /\ NoDoubleBooking' /\ AloneOK' /\ DoneOK'
    BY <1>1, <1>2 DEF StartOK, ModeOK, OrderOK, IsSorted, BelowOK, NoDoubleBooking, AloneOK, DoneOK, input
  <1>6. PairsOK'
    BY <1>1, <1>2 DEF PairsOK
  <1>7. GreedyOK'
    <2>1. \A f, d : ChosenOver(f, d)' <=> ChosenOver(f, d)
      BY <1>2 DEF ChosenOver, EdgeScore, input
    <2>2. PICK d \in decisions : d.thread \in {order[e[1]], order[e[2]]}
      BY <1>2 DEF SkipPair, BothFree, PairsOK
    <2>3. ChosenOver(e, d)
      BY <1>2 DEF GreedyOK
    <2>4. \A f \in CandidateEdges \ edges' :
            \E g \in decisions : g.thread \in {order[f[1]], order[f[2]]} /\ ChosenOver(f, g)
      BY <1>2, <1>3, <2>2, <2>3 DEF GreedyOK
    <2> QED
      BY <1>1, <1>2, <1>3, <2>1, <2>4 DEF GreedyOK
  <1> QED
    BY <1>4, <1>5, <1>6, <1>7

\* The greedy loop ends with no edge left, or no core.
LEMMA ReturnSPStep == ASSUME Inv, ReturnSP PROVE Inv'
  <1> USE DEF Inv
  <1>1. NRun' = NRun /\ Mode' = Mode /\ CandidateEdges' = CandidateEdges
    BY InputStable, EdgesStable DEF ReturnSP
  <1>2. Mode = "SP" /\ pc = "greedy" /\ pc' = "done" /\ UNCHANGED <<input, order, edges, coreIdx, used, decisions>>
    BY DEF ReturnSP, ModeOK
  <1>3. TypeOK'
    BY <1>1, <1>2 DEF TypeOK, input
  <1>4. StartOK' /\ ModeOK' /\ OrderOK' /\ BelowOK' /\ NoDoubleBooking' /\ AloneOK'
    BY <1>1, <1>2 DEF StartOK, ModeOK, OrderOK, IsSorted, BelowOK, NoDoubleBooking, AloneOK, input
  <1>5. PairsOK'
    BY <1>1, <1>2 DEF PairsOK
  <1>6. GreedyOK'
    <2>1. \A f, d : ChosenOver(f, d)' <=> ChosenOver(f, d)
      BY <1>2 DEF ChosenOver, EdgeScore, input
    <2> QED
      BY <1>1, <1>2, <2>1 DEF GreedyOK
  <1>7. DoneOK'
    BY <1>2 DEF ReturnSP, CoreLeft, DoneOK, TypeOK, input
  <1> QED
    BY <1>3, <1>4, <1>5, <1>6, <1>7

\* A step that changes no variable keeps the invariant.
LEMMA StutterStep == ASSUME Inv, UNCHANGED vars PROVE Inv'
  BY ZenonT(30) DEF vars, input, Inv, TypeOK, StartOK, ModeOK, OrderOK, BelowOK, NoDoubleBooking, AloneOK,
    PairsOK, GreedyOK, DoneOK, Mode, NRun, HeadOf, AtLeastOne, IsSorted, CandidateEdges,
    NCandidates, EdgeScore, ChosenOver, Decision

\* Inv holds of every decision in the making.
THEOREM Invariant == Spec => []Inv
  <1>1. Inv /\ [Next]_vars => Inv'
    BY SortStep, BindAloneStep, ReturnCEStep, CollectEdgesStep, BindPairStep, SkipPairStep,
      ReturnSPStep, StutterStep DEF Next
  <1> QED
    BY InitInv, <1>1, PTL DEF Spec

-----------------------------------------------------------------------------
\* Every variable keeps to its type: in particular core_idx never passes
\* physical_cores and no target CPU lies beyond the last core.
THEOREM TypeCorrect == Spec => []TypeOK
  BY Invariant, PTL DEF Inv

\* No logical CPU is given to two threads, no thread is given two.
THEOREM NeverDoubleBooked == Spec => []NoDoubleBooking
  BY Invariant, PTL DEF Inv

\* Two threads share a core exactly when the decision paired them.
THEOREM PairsAreSiblings == Spec => []SiblingPairs
  <1>1. Inv => SiblingPairs
    <2> SUFFICES ASSUME Inv, NEW d \in decisions, NEW f \in decisions, d # f
                 PROVE  SameCore(d.cpu, f.cpu) <=> (d.peer = f.thread /\ f.peer = d.thread)
      BY DEF SiblingPairs
    <2> USE DEF Inv
    <2>1. coreIdx \in Nat /\ physicalCores \in Nat /\ coreIdx <= physicalCores
      BY DEF TypeOK
    <2>2. \A core \in Nat : CpuForCore(core, 0) = 2 * core /\ CpuForCore(core, 1) = 2 * core + 1
      BY DEF CpuForCore
    <2>3. d.thread \in rows /\ f.thread \in rows /\ d.cpu \in Nat /\ f.cpu \in Nat
      BY DEF TypeOK
    <2>4. CASE Mode = "CE"
      <3>1. pc \in {"ce", "done"}
        BY <2>4 DEF StartOK, ModeOK, TypeOK
      <3>2. PICK k \in 0 .. coreIdx - 1 : d = Decision(order[k + 1], 2 * k, NoPeer)
        BY <2>4, <3>1 DEF AloneOK
      <3>3. PICK l \in 0 .. coreIdx - 1 : f = Decision(order[l + 1], 2 * l, NoPeer)
        BY <2>4, <3>1 DEF AloneOK
      <3>4. d.peer # f.thread
        BY <2>3, <3>2, ThreadsAssumption DEF TypeOK, Decision
      <3>5. d.cpu # f.cpu /\ d.cpu = 2 * k /\ f.cpu = 2 * l
        BY <3>2, <3>3 DEF NoDoubleBooking, Decision
      <3>6. ~ SameCore(d.cpu, f.cpu)
        BY <2>1, <2>2, <3>5 DEF SameCore
      <3> QED
        BY <3>4, <3>6
    <2>5. CASE Mode = "SP"
      <3>1. PICK c \in 0 .. coreIdx - 1, s \in {0, 1} :
              /\ d.cpu = 2 * c + s
              /\ Decision(d.peer, 2 * c + 1 - s, d.thread) \in decisions
        BY <2>5 DEF PairsOK
      <3> DEFINE g == Decision(d.peer, 2 * c + 1 - s, d.thread)
      <3>2. g.thread = d.peer /\ g.cpu = 2 * c + 1 - s /\ g.peer = d.thread /\ g \in decisions
        BY <3>1 DEF Decision
      <3>3. ASSUME d.peer = f.thread PROVE SameCore(d.cpu, f.cpu)
        <4>1. f = g
          BY <3>2, <3>3 DEF NoDoubleBooking
        <4>2. f.cpu = 2 * c + 1 - s /\ c \in 0 .. physicalCores - 1
          BY <2>1, <3>2, <4>1
        <4>3. c \in Nat /\ CpuForCore(c, 0) = 2 * c /\ CpuForCore(c, 1) = 2 * c + 1
          BY <2>1, <2>2
        <4>4. {d.cpu, f.cpu} \subseteq {CpuForCore(c, 0), CpuForCore(c, 1)}
          BY <3>1, <4>2, <4>3
        <4> QED
          BY <4>2, <4>4 DEF SameCore
      <3>4. ASSUME SameCore(d.cpu, f.cpu) PROVE d.peer = f.thread /\ f.peer = d.thread
        <4>1. d.cpu # f.cpu
          BY DEF NoDoubleBooking
        <4>2. PICK core \in 0 .. physicalCores - 1 : {d.cpu, f.cpu} \subseteq {2 * core, 2 * core + 1}
          BY <2>1, <2>2, <3>4 DEF SameCore
        <4>3. core = c
          BY <2>1, <3>1, <4>2
        <4>4. f.cpu = g.cpu
          BY <2>1, <2>3, <3>1, <3>2, <4>1, <4>2, <4>3
        <4>5. f = g
          BY <3>2, <4>4 DEF NoDoubleBooking
        <4> QED
          BY <3>2, <4>5
      <3> QED
        BY <3>3, <3>4
    <2> QED
      BY <2>4, <2>5, ModeCases
  <1> QED
    BY Invariant, <1>1, PTL

\* The finished matching is stable.
THEOREM MatchingIsStable == Spec => []StableMatching
  <1>1. Inv => StableMatching
    <2> SUFFICES ASSUME Inv, pc = "done", Mode = "SP", NEW e \in CandidateEdges
                 PROVE  \/ \E d \in decisions :
                             d.thread \in {order[e[1]], order[e[2]]} /\ ChosenOver(e, d)
                        \/ /\ coreIdx = physicalCores
                           /\ \A d \in decisions : ChosenOver(e, d)
      BY DEF StableMatching
    <2>1. CASE e \in edges
      BY <2>1 DEF Inv, GreedyOK, DoneOK
    <2>2. CASE e \notin edges
      BY <2>2 DEF Inv, GreedyOK
    <2> QED
      BY <2>1, <2>2
  <1> QED
    BY Invariant, <1>1, PTL

\* With as many positions as rows the sort leaves out no row.
LEMMA EveryRowIsSorted ==
  ASSUME TypeOK, OrderOK, pc # "sort", NEW t \in rows
  PROVE  \E i \in 1 .. NRun : order[i] = t
  <1>1. NRun \in Nat /\ IsFiniteSet(rows)
    BY NRunNat, ThreadsAssumption, FS_Subset DEF TypeOK
  <1>2. order \in Injection(1 .. NRun, rows)
    BY DEF TypeOK, OrderOK, IsSorted, Injection, IsInjective
  <1>3. Cardinality(1 .. NRun) = Cardinality(rows)
    BY <1>1, FS_Interval DEF NRun
  <1>4. order \in Surjection(1 .. NRun, rows)
    BY <1>1, <1>2, <1>3, FS_Injection
  <1> QED
    BY <1>4 DEF Surjection

\* With no more threads than cores the decision has every thread, alone on its
\* core, and the more intense one never behind the less intense.
THEOREM LightLoadIsSpread == Spec => []SpreadWhenLight
  <1>1. Inv => SpreadWhenLight
    <2> SUFFICES ASSUME Inv, pc = "done", Mode = "CE", physicalCores > 0
                 PROVE  /\ {d.thread : d \in decisions} = rows
                        /\ \A d, f \in decisions :
                             /\ d.cpu % 2 = 0 /\ d.peer = NoPeer
                             /\ d.cpu < f.cpu =>
                                  Intensity(pred[d.thread]) >= Intensity(pred[f.thread])
      BY DEF SpreadWhenLight
    <2> USE DEF Inv
    <2>1. NRun \in Nat /\ physicalCores \in Nat
      BY NRunNat DEF TypeOK
    <2>2. coreIdx = NRun
      BY <2>1 DEF AloneOK, HeadOf, Mode, AtLeastOne
    <2>3. \A d \in decisions :
            \E k \in 0 .. NRun - 1 : d = Decision(order[k + 1], 2 * k, NoPeer)
      BY <2>2 DEF AloneOK
    <2>4. {d.thread : d \in decisions} \subseteq rows
      BY DEF TypeOK
    <2>5. ASSUME NEW t \in rows PROVE \E d \in decisions : d.thread = t
      <3>1. PICK i \in 1 .. NRun : order[i] = t
        BY EveryRowIsSorted
      <3>2. i - 1 \in 0 .. coreIdx - 1 /\ (i - 1) + 1 = i
        BY <2>1, <2>2
      <3>3. Decision(order[i], 2 * (i - 1), NoPeer) \in decisions
        BY <3>2 DEF AloneOK
      <3> QED
        BY <3>1, <3>3 DEF Decision
    <2>6. ASSUME NEW d \in decisions, NEW f \in decisions
          PROVE  /\ d.cpu % 2 = 0 /\ d.peer = NoPeer
                 /\ d.cpu < f.cpu =>
                      Intensity(pred[d.thread]) >= Intensity(pred[f.thread])
      <3>1. PICK k \in 0 .. NRun - 1 : d = Decision(order[k + 1], 2 * k, NoPeer)
        BY <2>3
      <3>2. PICK l \in 0 .. NRun - 1 : f = Decision(order[l + 1], 2 * l, NoPeer)
        BY <2>3
      <3>3. /\ d.thread = order[k + 1] /\ d.cpu = 2 * k /\ d.peer = NoPeer
            /\ f.thread = order[l + 1] /\ f.cpu = 2 * l
        BY <3>1, <3>2 DEF Decision
      <3>4. k < l => Intensity(pred[order[k + 1]]) >= Intensity(pred[order[l + 1]])
        BY <2>1 DEF OrderOK, IsSorted
      <3> QED
        BY <2>1, <3>3, <3>4
    <2> QED
      BY <2>4, <2>5, <2>6
  <1> QED
    BY Invariant, <1>1, PTL

-----------------------------------------------------------------------------
\* The core the loops bind to next has nothing on it yet.
LEMMA FreshForPlacement ==
  ASSUME Inv, NEW core, core = coreIdx, core \in Nat
  PROVE  Placement!Idle(core)
  <1>1. \A d \in decisions : d.cpu \in Nat /\ d.cpu < 2 * core
    BY DEF Inv, BelowOK, TypeOK
  <1> QED
    BY <1>1 DEF Placement!Idle, Placement!Siblings

\* schedule_window implements SmtPlacement: each of its steps places a thread
\* or a pair on an idle core, hands the decision over, or leaves it alone.
THEOREM ImplementsPlacement == Spec => PlacementSpec
  <1> DEFINE placed == {<<d.thread, d.cpu>> : d \in decisions}
  <1>1. Init => Placement!Init
    BY ArgumentsAssumption DEF Init, Placement!Init
  <1>2. Inv /\ [Next]_vars => [Placement!Next]_(Placement!vars)
    <2> SUFFICES ASSUME Inv, [Next]_vars PROVE [Placement!Next]_(Placement!vars)
      OBVIOUS
    <2>1. ASSUME UNCHANGED <<physicalCores, decisions>>, pc' # "done", pc # "done"
          PROVE  UNCHANGED Placement!vars
      BY <2>1 DEF Placement!vars
    <2>2. ASSUME UNCHANGED <<physicalCores, decisions>>, pc' = "done", pc # "done"
          PROVE  Placement!HandOver
      BY <2>2 DEF Placement!HandOver
    <2>3. CASE Sort \/ CollectEdges
      BY <2>1, <2>3 DEF Sort, CollectEdges, input
    <2>4. CASE \E e \in edges : SkipPair(e)
      BY <2>1, <2>4 DEF SkipPair, input
    <2>5. CASE ReturnCE \/ ReturnSP
      BY <2>2, <2>5 DEF ReturnCE, ReturnSP, input, Placement!Next
    <2>6. CASE UNCHANGED vars
      BY <2>6 DEF vars, Placement!vars, input
    <2>7. CASE BindAlone
      <3> DEFINE t == order[coreIdx + 1]
                 d0 == Decision(t, 2 * coreIdx, NoPeer)
      <3>1. Inv'
        BY <2>7, BindAloneStep
      <3>2. /\ coreIdx \in Nat /\ coreIdx < physicalCores /\ physicalCores \in Nat /\ coreIdx < NRun
            /\ HeadOf(physicalCores) \in Nat /\ NRun \in Nat
        BY <2>7, HeadBound, NRunNat DEF BindAlone, Inv, TypeOK
      <3>3. t \in rows /\ t \in Threads
        BY <2>7, <3>2 DEF BindAlone, Inv, TypeOK
      <3>4. /\ decisions' = decisions \cup {d0}
            /\ d0.thread = t /\ d0.cpu = 2 * coreIdx
        <4>1. CpuForCore(coreIdx, 0) = 2 * coreIdx
          BY <3>2 DEF CpuForCore
        <4> QED
          BY <2>7, <4>1 DEF BindAlone, Decision
      <3> HIDE DEF d0
      <3>5. placed' = placed \cup {<<t, 2 * coreIdx>>}
        BY <3>4
      <3>6. \A d \in decisions : d.thread # t
        <4>1. \A d \in decisions : d.cpu \in Nat /\ d.cpu < 2 * coreIdx
          BY DEF Inv, BelowOK, TypeOK
        <4> QED
          BY <3>1, <3>2, <3>4, <4>1 DEF Inv, NoDoubleBooking
      <3>7. ~ Placement!Placed(t)
        BY <3>6 DEF Placement!Placed
      <3>8. Placement!Idle(coreIdx)
        BY <3>2, FreshForPlacement
      <3>9. coreIdx \in 0 .. physicalCores - 1
        BY <3>2
      <3>10. pc # "done" /\ pc' # "done" /\ physicalCores' = physicalCores
        BY <2>7 DEF BindAlone, input
      <3> QED
        <4>1. \E core \in 0 .. physicalCores - 1, x \in Threads : Placement!PlaceAlone(x, core)
          <5>1. PICK core \in 0 .. physicalCores - 1, x \in Threads : core = coreIdx /\ x = t
            BY <3>3, <3>9
          <5>2. Placement!PlaceAlone(x, core)
            BY <3>5, <3>7, <3>8, <5>1 DEF Placement!PlaceAlone, Placement!Placed, Placement!Idle
          <5> QED
            BY <5>2
        <4>2. ~ (pc = "done") /\ UNCHANGED <<physicalCores, pc = "done">>
          BY <3>10
        <4> QED
          BY <4>1, <4>2 DEF Placement!Next, Placement!Place
    <2>8. CASE \E e \in edges : BindPair(e)
      <3> PICK e \in edges : BindPair(e)
        BY <2>8
      <3> DEFINE a == order[e[1]]
                 b == order[e[2]]
                 da == Decision(a, 2 * coreIdx, b)
                 db == Decision(b, 2 * coreIdx + 1, a)
      <3>1. Mode = "SP" /\ pc = "greedy" /\ pc' = "greedy" /\ physicalCores' = physicalCores
        BY DEF BindPair, Inv, ModeOK, input
      <3>2. coreIdx \in Nat /\ coreIdx < physicalCores /\ physicalCores \in Nat
        BY DEF BindPair, CoreLeft, Inv, TypeOK
      <3>3. e[1] < e[2]
        BY <3>1 DEF Inv, GreedyOK, CandidateEdges
      <3>4. a \in Threads /\ b \in Threads /\ a # b /\ a \notin used /\ b \notin used
        BY <3>1, <3>3, EdgeType DEF BindPair, BothFree, Inv, TypeOK
      <3>5. ~ Placement!Placed(a) /\ ~ Placement!Placed(b)
        BY <3>1, <3>4 DEF Placement!Placed, Inv, PairsOK
      <3>6. /\ decisions' = decisions \cup {da, db}
            /\ da.thread = a /\ da.cpu = 2 * coreIdx
            /\ db.thread = b /\ db.cpu = 2 * coreIdx + 1
        <4>1. CpuForCore(coreIdx, 0) = 2 * coreIdx /\ CpuForCore(coreIdx, 1) = 2 * coreIdx + 1
          BY <3>2 DEF CpuForCore
        <4> QED
          BY <4>1 DEF BindPair, Decision
      <3> HIDE DEF da, db
      <3>7. placed' = placed \cup {<<a, 2 * coreIdx>>, <<b, 2 * coreIdx + 1>>}
        BY <3>6
      <3>8. Placement!Idle(coreIdx)
        BY <3>2, FreshForPlacement
      <3>9. coreIdx \in 0 .. physicalCores - 1
        BY <3>2
      <3> QED
        <4>1. \E core \in 0 .. physicalCores - 1, x, y \in Threads : Placement!PlacePair(x, y, core)
          <5>1. PICK core \in 0 .. physicalCores - 1, x \in Threads, y \in Threads :
                  core = coreIdx /\ x = a /\ y = b
            BY <3>4, <3>9
          <5>2. Placement!PlacePair(x, y, core)
            BY <3>4, <3>5, <3>7, <3>8, <5>1 DEF Placement!PlacePair, Placement!Placed, Placement!Idle
          <5> QED
            BY <5>2
        <4>2. ~ (pc = "done") /\ UNCHANGED <<physicalCores, pc = "done">>
          BY <3>1
        <4> QED
          BY <4>1, <4>2 DEF Placement!Next, Placement!Place
    <2> QED
      BY <2>3, <2>4, <2>5, <2>6, <2>7, <2>8 DEF Next
  <1> QED
    BY Invariant, <1>1, <1>2, PTL DEF Spec, PlacementSpec, Placement!Spec

-----------------------------------------------------------------------------
\* What the greedy pass has bound so far, as edges: the second layer of the
\* invariant.

\* The decision binds a thread of the edge and names the other as its peer.
PairOf(d, e) ==
  \/ d.thread = order[e[1]] /\ d.peer = order[e[2]]
  \/ d.thread = order[e[2]] /\ d.peer = order[e[1]]

\* Every core handed out carries two decisions, and every decision comes from
\* a candidate edge.
EdgesOK ==
  (pc # "sort" /\ Mode = "SP") =>
    /\ IsFiniteSet(decisions) /\ Cardinality(decisions) = 2 * coreIdx
    /\ \A d \in decisions : \E e \in CandidateEdges : PairOf(d, e)

\* Nothing bound is nothing to account for.
LEMMA NoEdgesYet == ASSUME decisions = {}, coreIdx = 0 PROVE EdgesOK
  BY FS_EmptySet DEF EdgesOK

\* Steps that bind nothing leave the account as it is.
LEMMA EdgesOKStable ==
  ASSUME EdgesOK, UNCHANGED <<input, order, decisions, coreIdx>>, pc # "sort"
  PROVE  EdgesOK'
  <1>1. Mode' = Mode /\ CandidateEdges' = CandidateEdges
    BY InputStable, EdgesStable
  <1>2. \A d, e : PairOf(d, e)' <=> PairOf(d, e)
    BY DEF PairOf
  <1> QED
    BY <1>1, <1>2 DEF EdgesOK

\* A bound pair adds two decisions, both from its edge.
LEMMA EdgesOKBindPair ==
  ASSUME Inv, EdgesOK, NEW e \in edges, BindPair(e)
  PROVE  EdgesOK'
  <1> USE DEF Inv
  <1> DEFINE a == order[e[1]]
             b == order[e[2]]
             da == Decision(a, CpuForCore(coreIdx, 0), b)
             db == Decision(b, CpuForCore(coreIdx, 1), a)
  <1>1. Mode' = Mode /\ CandidateEdges' = CandidateEdges
    BY InputStable, EdgesStable DEF BindPair
  <1>2. Mode = "SP" /\ pc = "greedy" /\ coreIdx \in Nat
    BY DEF BindPair, ModeOK, TypeOK
  <1>3. e \in CandidateEdges /\ e[1] < e[2]
    BY <1>2 DEF GreedyOK, CandidateEdges
  <1>4. a # b /\ a \notin used /\ b \notin used
    BY <1>2, <1>3, EdgeType DEF BindPair, BothFree, TypeOK
  <1>5. /\ decisions' = decisions \cup {da, db} /\ order' = order /\ coreIdx' = coreIdx + 1
        /\ da.thread = a /\ da.peer = b /\ db.thread = b /\ db.peer = a
    BY DEF BindPair, Decision
  <1> HIDE DEF da, db
  <1>6. da # db /\ da \notin decisions /\ db \notin decisions
    BY <1>2, <1>4, <1>5 DEF PairsOK
  <1>7. IsFiniteSet(decisions) /\ Cardinality(decisions) = 2 * coreIdx
    BY <1>2 DEF EdgesOK
  <1>8. IsFiniteSet(decisions \cup {da}) /\ Cardinality(decisions \cup {da}) = 2 * coreIdx + 1
    BY <1>6, <1>7, FS_AddElement
  <1>9. IsFiniteSet((decisions \cup {da}) \cup {db})
        /\ Cardinality((decisions \cup {da}) \cup {db}) = 2 * coreIdx + 1 + 1
    BY <1>6, <1>8, FS_AddElement
  <1>10. decisions' = (decisions \cup {da}) \cup {db} /\ 2 * coreIdx + 1 + 1 = 2 * (coreIdx + 1)
    BY <1>2, <1>5
  <1>11. IsFiniteSet(decisions') /\ Cardinality(decisions') = 2 * coreIdx'
    BY <1>5, <1>9, <1>10
  <1>12. \A d \in decisions' : \E f \in CandidateEdges : PairOf(d, f)'
    <2>1. \A d \in decisions : \E f \in CandidateEdges : PairOf(d, f)
      BY <1>2 DEF EdgesOK
    <2>2. PairOf(da, e) /\ PairOf(db, e)
      BY <1>5 DEF PairOf
    <2>3. \A d, f : PairOf(d, f)' <=> PairOf(d, f)
      BY <1>5 DEF PairOf
    <2> QED
      BY <1>3, <1>5, <2>1, <2>2, <2>3
  <1> QED
    BY <1>1, <1>11, <1>12 DEF EdgesOK

\* The second layer holds with the first.
THEOREM EdgesInvariant == Spec => [](Inv /\ EdgesOK)
  <1>1. Init => EdgesOK
    BY NoEdgesYet DEF Init
  <1>2. Inv /\ EdgesOK /\ [Next]_vars => EdgesOK'
    <2> SUFFICES ASSUME Inv, EdgesOK, [Next]_vars PROVE EdgesOK'
      OBVIOUS
    <2>1. CASE Sort
      BY <2>1, NoEdgesYet, FS_EmptySet DEF Sort, Inv, StartOK, EdgesOK
    <2>2. CASE BindAlone \/ ReturnCE
      <3>1. Mode = "CE" /\ Mode' = Mode
        BY <2>2, InputStable DEF BindAlone, ReturnCE, Inv, ModeOK
      <3> QED
        BY <3>1 DEF EdgesOK
    <2>3. CASE CollectEdges
      BY <2>3, EdgesOKStable DEF CollectEdges
    <2>4. CASE \E e \in edges : BindPair(e)
      BY <2>4, EdgesOKBindPair
    <2>5. CASE \E e \in edges : SkipPair(e)
      BY <2>5, EdgesOKStable DEF SkipPair
    <2>6. CASE ReturnSP
      BY <2>6, EdgesOKStable DEF ReturnSP
    <2>7. CASE UNCHANGED vars
      <3>1. CASE pc = "sort"
        BY <2>7, <3>1 DEF vars, EdgesOK
      <3>2. CASE pc # "sort"
        BY <2>7, <3>2, EdgesOKStable DEF vars, input
      <3> QED
        BY <3>1, <3>2
    <2> QED
      BY <2>1, <2>2, <2>3, <2>4, <2>5, <2>6, <2>7 DEF Next
  <1> QED
    BY Invariant, <1>1, <1>2, PTL DEF Spec

-----------------------------------------------------------------------------
\* Sums of scores, counted as points.

PointsOf(S, score) == UNION {{s} \X (1 .. score[s]) : s \in S}

\* The points of a finite set are finitely many.
LEMMA PointsFinite ==
  ASSUME NEW S, IsFiniteSet(S), NEW score \in [S -> Int]
  PROVE  IsFiniteSet(PointsOf(S, score))
  <1> DEFINE column == [s \in S |-> {s} \X (1 .. score[s])]
             columns == {{s} \X (1 .. score[s]) : s \in S}
  <1>1. column \in Surjection(S, columns)
    BY DEF Surjection
  <1>2. IsFiniteSet(columns)
    BY <1>1, FS_Surjection
  <1>3. \A C \in columns : IsFiniteSet(C)
    <2> SUFFICES ASSUME NEW s \in S PROVE IsFiniteSet({s} \X (1 .. score[s]))
      OBVIOUS
    <2>1. IsFiniteSet({s})
      BY FS_Singleton
    <2>2. IsFiniteSet(1 .. score[s])
      BY FS_Interval
    <2> QED
      BY <2>1, <2>2, FS_Product
  <1> HIDE DEF columns
  <1>4. IsFiniteSet(UNION columns)
    BY <1>2, <1>3, FS_UNION
  <1> QED
    BY <1>4 DEF PointsOf, columns

\* A point is an element with one of its levels.
LEMMA PointsMember ==
  ASSUME NEW S, NEW score \in [S -> Int], NEW x
  PROVE  x \in PointsOf(S, score) <=>
           \E s \in S, i \in Nat \ {0} : x = <<s, i>> /\ i <= score[s]
  <1>1. \A s \in S : \A i : i \in 1 .. score[s] <=> i \in Nat \ {0} /\ i <= score[s]
    OBVIOUS
  <1>2. x \in PointsOf(S, score) <=> \E s \in S : x \in {s} \X (1 .. score[s])
    BY DEF PointsOf
  <1>3. \A s : x \in {s} \X (1 .. score[s]) <=> \E i \in 1 .. score[s] : x = <<s, i>>
    OBVIOUS
  <1> QED
    BY <1>1, <1>2, <1>3

\* A set with no more elements than another can be mapped into it one to one.
LEMMA SmallerInjects ==
  ASSUME NEW S, IsFiniteSet(S), NEW T, IsFiniteSet(T), Cardinality(S) <= Cardinality(T)
  PROVE  ExistsInjection(S, T)
  <1> DEFINE m == Cardinality(S)
             n == Cardinality(T)
  <1>1. m \in Nat /\ n \in Nat /\ ExistsBijection(1 .. m, S) /\ ExistsBijection(1 .. n, T)
    BY FS_CardinalityType
  <1>2. ExistsInjection(S, 1 .. m) /\ ExistsInjection(1 .. n, T)
    BY <1>1, Fun_ExistsBijEquiv
  <1>3. ExistsInjection(1 .. m, 1 .. n)
    BY <1>1, Fun_NatInjLeq
  <1>4. ExistsInjection(S, 1 .. n)
    BY <1>2, <1>3, Fun_ExistsInjTransitive
  <1> QED
    BY <1>2, <1>4, Fun_ExistsInjTransitive

\* One sum is at most another if at every level no more elements reach it.
LEMMA LevelByLevel ==
  ASSUME NEW S, NEW T, IsFiniteSet(T), NEW p \in [S -> Int], NEW q \in [T -> Int],
         \A i \in Nat \ {0} : ExistsInjection({s \in S : p[s] >= i}, {t \in T : q[t] >= i})
  PROVE  Cardinality(PointsOf(S, p)) <= Cardinality(PointsOf(T, q))
  <1> DEFINE Above(i) == {s \in S : p[s] >= i}
             Over(i) == {t \in T : q[t] >= i}
             phi == [i \in Nat \ {0} |-> CHOOSE g : g \in Injection(Above(i), Over(i))]
             F == [x \in PointsOf(S, p) |-> <<phi[x[2]][x[1]], x[2]>>]
  <1>1. \A i \in Nat \ {0} : phi[i] \in Injection(Above(i), Over(i))
    BY Fun_ExistsInj
  <1>2. \A i \in Nat \ {0} :
          /\ \A s \in Above(i) : phi[i][s] \in Over(i)
          /\ \A s, t \in Above(i) : phi[i][s] = phi[i][t] => s = t
    <2> SUFFICES ASSUME NEW i \in Nat \ {0}
                 PROVE  /\ \A s \in Above(i) : phi[i][s] \in Over(i)
                        /\ \A s, t \in Above(i) : phi[i][s] = phi[i][t] => s = t
      OBVIOUS
    <2> DEFINE g == phi[i]
               A == Above(i)
               O == Over(i)
    <2>1. g \in Injection(A, O)
      BY <1>1
    <2> HIDE DEF g, A, O
    <2>2. (\A s \in A : g[s] \in O) /\ \A s, t \in A : g[s] = g[t] => s = t
      BY <2>1, Fun_InjectionProperties
    <2> QED
      BY <2>2 DEF g, A, O
  <1> HIDE DEF phi
  <1>3. \A x \in PointsOf(S, p) : x[2] \in Nat \ {0} /\ x[1] \in Above(x[2]) /\ x = <<x[1], x[2]>>
    <2> SUFFICES ASSUME NEW x \in PointsOf(S, p)
                 PROVE  x[2] \in Nat \ {0} /\ x[1] \in Above(x[2]) /\ x = <<x[1], x[2]>>
      OBVIOUS
    <2>1. PICK s \in S, i \in Nat \ {0} : x = <<s, i>> /\ i <= p[s]
      BY PointsMember
    <2>2. p[s] \in Int
      OBVIOUS
    <2> QED
      BY <2>1, <2>2
  <1>4. \A x \in PointsOf(S, p) : F[x] \in PointsOf(T, q)
    <2> SUFFICES ASSUME NEW x \in PointsOf(S, p) PROVE F[x] \in PointsOf(T, q)
      OBVIOUS
    <2>1. F[x] = <<phi[x[2]][x[1]], x[2]>> /\ phi[x[2]][x[1]] \in Over(x[2]) /\ x[2] \in Nat \ {0}
      BY <1>2, <1>3
    <2>2. phi[x[2]][x[1]] \in T /\ x[2] <= q[phi[x[2]][x[1]]]
      BY <2>1
    <2> QED
      BY <2>1, <2>2, PointsMember
  <1>5. \A x, y \in PointsOf(S, p) : F[x] = F[y] => x = y
    <2> SUFFICES ASSUME NEW x \in PointsOf(S, p), NEW y \in PointsOf(S, p), F[x] = F[y]
                 PROVE  x = y
      OBVIOUS
    <2>1. x[2] = y[2] /\ phi[x[2]][x[1]] = phi[y[2]][y[1]]
      OBVIOUS
    <2>2. x[1] = y[1]
      BY <1>2, <1>3, <2>1
    <2> QED
      BY <1>3, <2>1, <2>2
  <1>6. F \in Injection(PointsOf(S, p), PointsOf(T, q))
    BY <1>4, <1>5, Fun_IsInj
  <1> QED
    BY <1>6, PointsFinite, FS_Injection

\* One sum is at most twice another if its elements map to sides of the
\* other's, at least as heavy, one to one.
LEMMA TwoSides ==
  ASSUME NEW T, NEW B, IsFiniteSet(B), NEW q \in [T -> Int], NEW r \in [B -> Int],
         NEW side \in Injection(T, B \X {0, 1}),
         \A t \in T : q[t] <= r[side[t][1]]
  PROVE  Cardinality(PointsOf(T, q)) <= 2 * Cardinality(PointsOf(B, r))
  <1> DEFINE F == [x \in PointsOf(T, q) |-> <<<<side[x[1]][1], x[2]>>, side[x[1]][2]>>]
  <1>1. /\ \A t \in T : side[t] \in B \X {0, 1}
        /\ \A t, u \in T : side[t] = side[u] => t = u
    BY Fun_InjectionProperties
  <1>2. \A x \in PointsOf(T, q) :
          x[1] \in T /\ x[2] \in Nat \ {0} /\ x[2] <= q[x[1]] /\ x = <<x[1], x[2]>>
    BY PointsMember
  <1>3. \A x \in PointsOf(T, q) : F[x] \in PointsOf(B, r) \X {0, 1}
    <2> SUFFICES ASSUME NEW x \in PointsOf(T, q)
                 PROVE  <<side[x[1]][1], x[2]>> \in PointsOf(B, r) /\ side[x[1]][2] \in {0, 1}
      OBVIOUS
    <2>1. side[x[1]][1] \in B /\ side[x[1]][2] \in {0, 1}
      BY <1>1, <1>2
    <2>2. x[2] <= r[side[x[1]][1]]
      <3>1. q[x[1]] \in Int /\ r[side[x[1]][1]] \in Int /\ q[x[1]] <= r[side[x[1]][1]]
        BY <1>2, <2>1
      <3> QED
        BY <1>2, <3>1
    <2> QED
      BY <1>2, <2>1, <2>2, PointsMember
  <1>4. \A x, y \in PointsOf(T, q) : F[x] = F[y] => x = y
    <2> SUFFICES ASSUME NEW x \in PointsOf(T, q), NEW y \in PointsOf(T, q), F[x] = F[y]
                 PROVE  x = y
      OBVIOUS
    <2>1. x[2] = y[2] /\ side[x[1]][1] = side[y[1]][1] /\ side[x[1]][2] = side[y[1]][2]
      OBVIOUS
    <2>2. side[x[1]] = side[y[1]]
      BY <1>1, <1>2, <2>1
    <2> QED
      BY <1>1, <1>2, <2>1, <2>2
  <1>5. F \in Injection(PointsOf(T, q), PointsOf(B, r) \X {0, 1})
    BY <1>3, <1>4, Fun_IsInj
  <1>6. IsFiniteSet(PointsOf(B, r)) /\ IsFiniteSet({0, 1}) /\ Cardinality({0, 1}) = 2
    <2>1. IsFiniteSet({0}) /\ Cardinality({0}) = 1
      BY FS_Singleton
    <2>2. IsFiniteSet({0} \cup {1}) /\ Cardinality({0} \cup {1}) = 2
      <3>1. 1 \notin {0}
        OBVIOUS
      <3>2. IsFiniteSet({0} \cup {1}) /\ Cardinality({0} \cup {1}) = Cardinality({0}) + 1
        BY <2>1, <3>1, FS_AddElement, Zenon
      <3> QED
        BY <2>1, <3>2
    <2>3. {0} \cup {1} = {0, 1}
      OBVIOUS
    <2> QED
      BY <2>2, <2>3, PointsFinite
  <1>7. /\ IsFiniteSet(PointsOf(B, r) \X {0, 1})
        /\ Cardinality(PointsOf(B, r) \X {0, 1}) = Cardinality(PointsOf(B, r)) * 2
    BY <1>6, FS_Product
  <1>8. Cardinality(PointsOf(B, r)) \in Nat
    BY <1>6, FS_CardinalityType
  <1> QED
    BY <1>5, <1>7, <1>8, FS_Injection
-----------------------------------------------------------------------------
\* There are finitely many candidate edges.
LEMMA CandidatesFinite == ASSUME TypeOK PROVE IsFiniteSet(CandidateEdges)
  <1> DEFINE I == 1 .. NRun
  <1>1. NRun \in Int /\ 1 \in Int
    BY NRunNat DEF TypeOK
  <1>2. IsFiniteSet(I)
    BY <1>1, FS_Interval
  <1>3. CandidateEdges \subseteq I \X I
    BY CandidatesAreEdges
  <1> HIDE DEF I
  <1>4. IsFiniteSet(I \X I)
    BY <1>2, FS_Product
  <1> QED
    BY <1>3, <1>4, FS_Subset

\* No choice of disjoint pairs scores more than the bound pairs do when every
\* bound thread counts the score of its pair: level by level, a pair of the
\* other choice that reaches the level lost to a thread of a pair that does,
\* and no other pair of that choice lost to the same thread.
LEMMA BoundThreadsOutscore ==
  ASSUME Inv, EdgesOK, pc = "done", Mode = "SP", NEW M \in Matchings,
         NEW score, score = [d \in decisions |-> Score(pred[d.thread], pred[d.peer])],
         score \in [decisions -> Int]
  PROVE  TotalScore(M) \in Nat /\ TotalScore(M) <= Cardinality(PointsOf(decisions, score))
  <1> USE DEF Inv
  <1> DEFINE weight == [e \in M |-> EdgeScore(e)]
             Above(i) == {e \in M : weight[e] >= i}
             Over(i) == {d \in decisions : score[d] >= i}
  <1>1. M \subseteq CandidateEdges /\ Disjoint(M) /\ Cardinality(M) <= physicalCores
    BY DEF Matchings
  <1>2. CandidateEdges \subseteq (1 .. NRun) \X (1 .. NRun) /\ NRun \in Nat
    BY CandidatesAreEdges, NRunNat DEF TypeOK
  <1>3. IsFiniteSet(M)
    BY <1>1, CandidatesFinite, FS_Subset
  <1>4. IsFiniteSet(decisions) /\ Cardinality(decisions) = 2 * coreIdx
    BY DEF EdgesOK
  <1>5. weight \in [M -> Int]
    BY <1>1, <1>2, EdgeType
  <1>6. \A e \in M, d \in decisions : ChosenOver(e, d) => score[d] >= weight[e]
    BY DEF ChosenOver
  <1>7. ASSUME NEW i \in Nat \ {0} PROVE ExistsInjection(Above(i), Over(i))
    <2>1. CASE \E e \in Above(i) : e \in edges
      <3>1. PICK e \in Above(i) : e \in edges
        BY <2>1
      <3>2. coreIdx = physicalCores /\ \A d \in decisions : ChosenOver(e, d)
        BY <3>1 DEF DoneOK, GreedyOK
      <3>3. \A d \in decisions : score[d] >= i
        <4> SUFFICES ASSUME NEW d \in decisions PROVE score[d] >= i
          OBVIOUS
        <4>1. score[d] \in Int /\ weight[e] \in Int /\ score[d] >= weight[e] /\ weight[e] >= i
          BY <1>5, <1>6, <3>1, <3>2
        <4> QED
          BY <4>1
      <3>4. Over(i) = decisions
        BY <3>3
      <3>5. IsFiniteSet(Above(i)) /\ Cardinality(Above(i)) <= Cardinality(M)
        BY <1>3, FS_Subset
      <3>6. Cardinality(Above(i)) <= Cardinality(decisions)
        <4>1. Cardinality(Above(i)) \in Nat /\ Cardinality(M) \in Nat /\ physicalCores \in Nat
          BY <1>3, <3>5, FS_CardinalityType DEF TypeOK
        <4> QED
          BY <1>1, <1>4, <3>2, <3>5, <4>1
      <3> QED
        BY <1>4, <3>4, <3>5, <3>6, SmallerInjects
    <2>2. CASE \A e \in Above(i) : e \notin edges
      <3> DEFINE Rival(e, d) == d.thread \in {order[e[1]], order[e[2]]} /\ ChosenOver(e, d)
                 rival == [e \in Above(i) |-> CHOOSE d \in decisions : Rival(e, d)]
      <3>1. \A e \in Above(i) : rival[e] \in decisions /\ Rival(e, rival[e])
        <4>1. \A e \in Above(i) : \E d \in decisions : Rival(e, d)
          BY <1>1, <2>2 DEF GreedyOK
        <4> HIDE DEF Rival
        <4> QED
          BY <4>1
      <3> HIDE DEF rival
      <3>2. \A e \in Above(i) : rival[e] \in Over(i)
        <4> SUFFICES ASSUME NEW e \in Above(i) PROVE score[rival[e]] >= i
          BY <3>1
        <4>1. /\ score[rival[e]] \in Int /\ weight[e] \in Int
              /\ score[rival[e]] >= weight[e] /\ weight[e] >= i
          BY <1>5, <1>6, <3>1
        <4> QED
          BY <4>1
      <3>3. \A e, f \in Above(i) : rival[e] = rival[f] => e = f
        <4> SUFFICES ASSUME NEW e \in Above(i), NEW f \in Above(i), rival[e] = rival[f], e # f
                     PROVE  FALSE
          OBVIOUS
        <4>1. PICK x \in {e[1], e[2]}, y \in {f[1], f[2]} :
                rival[e].thread = order[x] /\ rival[f].thread = order[y]
          BY <3>1
        <4>2. x \in 1 .. NRun /\ y \in 1 .. NRun
          BY <1>1, <1>2, <4>1
        <4>3. x = y
          BY <4>1, <4>2 DEF OrderOK, IsSorted
        <4>4. x # y
          BY <1>1, <4>1 DEF Disjoint
        <4> QED
          BY <4>3, <4>4
      <3>4. rival \in [Above(i) -> Over(i)]
        BY <3>2 DEF rival
      <3>5. rival \in Injection(Above(i), Over(i))
        BY <3>3, <3>4, Fun_IsInj
      <3> QED
        BY <3>5, Fun_ExistsInj
    <2> QED
      BY <2>1, <2>2
  <1>8. Cardinality(PointsOf(M, weight)) <= Cardinality(PointsOf(decisions, score))
    BY <1>4, <1>5, <1>7, LevelByLevel
  <1>9. Points(M) = PointsOf(M, weight)
    BY DEF Points, PointsOf
  <1>10. Cardinality(PointsOf(M, weight)) \in Nat
    BY <1>3, <1>5, PointsFinite, FS_CardinalityType
  <1> QED
    BY <1>8, <1>9, <1>10 DEF TotalScore

\* Every pair counts twice when every bound thread counts its score.
LEMMA PairsCountTwice ==
  ASSUME Inv, EdgesOK, pc = "done", Mode = "SP",
         NEW score, score = [d \in decisions |-> Score(pred[d.thread], pred[d.peer])],
         score \in [decisions -> Int]
  PROVE  /\ Cardinality(PointsOf(decisions, score)) \in Nat /\ TotalScore(BoundEdges) \in Nat
         /\ Cardinality(PointsOf(decisions, score)) <= 2 * TotalScore(BoundEdges)
  <1> USE DEF Inv
  <1> DEFINE weight == [e \in BoundEdges |-> EdgeScore(e)]
             pairOf == [d \in decisions |-> CHOOSE e \in CandidateEdges : PairOf(d, e)]
             sideOf == [d \in decisions |-> IF d.thread = order[pairOf[d][1]] THEN 0 ELSE 1]
             side == [d \in decisions |-> <<pairOf[d], sideOf[d]>>]
  <1>1. \A d \in decisions : pairOf[d] \in CandidateEdges /\ PairOf(d, pairOf[d])
    BY DEF EdgesOK
  <1> HIDE DEF pairOf
  <1>2. CandidateEdges \subseteq (1 .. NRun) \X (1 .. NRun) /\ NRun \in Nat
    BY CandidatesAreEdges, NRunNat DEF TypeOK
  <1>3. IsFiniteSet(BoundEdges) /\ BoundEdges \subseteq CandidateEdges
    BY CandidatesFinite, FS_Subset DEF BoundEdges
  <1>4. weight \in [BoundEdges -> Int]
    BY <1>2, <1>3, EdgeType
  <1>5. \A d \in decisions : pairOf[d] \in BoundEdges
    <2> SUFFICES ASSUME NEW d \in decisions PROVE pairOf[d] \in BoundEdges
      OBVIOUS
    <2>1. PICK c \in 0 .. coreIdx - 1, s \in {0, 1} :
            /\ d.cpu = 2 * c + s
            /\ Decision(d.peer, 2 * c + 1 - s, d.thread) \in decisions
      BY DEF PairsOK
    <2>2. \E f \in decisions : f.thread = d.peer /\ f.peer = d.thread
      BY <2>1 DEF Decision
    <2> QED
      BY <1>1, <2>2 DEF BoundEdges, PairOf
  <1>6. \A d \in decisions : score[d] <= weight[pairOf[d]]
    <2> SUFFICES ASSUME NEW d \in decisions PROVE score[d] <= weight[pairOf[d]]
      OBVIOUS
    <2> DEFINE e == pairOf[d]
    <2>1. e \in CandidateEdges /\ e \in BoundEdges /\ PairOf(d, e)
      BY <1>1, <1>5
    <2>2. pred[order[e[1]]] \in Profiles /\ pred[order[e[2]]] \in Profiles
      BY <1>2, <2>1, EdgeType
    <2>3. Score(pred[d.thread], pred[d.peer]) = EdgeScore(e)
      BY <2>1, <2>2, ScoreAssumption DEF PairOf, EdgeScore
    <2>4. score[d] = weight[e] /\ score[d] \in Int
      BY <2>1, <2>3
    <2> QED
      BY <2>4
  <1>7. \A d, f \in decisions : side[d] = side[f] => d = f
    <2> SUFFICES ASSUME NEW d \in decisions, NEW f \in decisions, side[d] = side[f]
                 PROVE  d.thread = f.thread
      BY DEF NoDoubleBooking
    <2>1. pairOf[d] = pairOf[f] /\ sideOf[d] = sideOf[f]
      OBVIOUS
    <2> QED
      BY <1>1, <2>1 DEF PairOf
  <1>8. side \in Injection(decisions, BoundEdges \X {0, 1})
    <2>1. \A d \in decisions : side[d] \in BoundEdges \X {0, 1}
      BY <1>5
    <2> QED
      BY <1>7, <2>1, Fun_IsInj
  <1>9. \A d \in decisions : score[d] <= weight[side[d][1]]
    BY <1>6
  <1> HIDE DEF side, weight
  <1>10. Cardinality(PointsOf(decisions, score)) <= 2 * Cardinality(PointsOf(BoundEdges, weight))
    BY <1>3, <1>4, <1>8, <1>9, TwoSides
  <1>11. Points(BoundEdges) = PointsOf(BoundEdges, weight)
    BY DEF Points, PointsOf, weight
  <1>12. Cardinality(PointsOf(BoundEdges, weight)) \in Nat
    BY <1>3, <1>4, PointsFinite, FS_CardinalityType
  <1>13. Cardinality(PointsOf(decisions, score)) \in Nat
    BY PointsFinite, FS_CardinalityType DEF EdgesOK
  <1> QED
    BY <1>10, <1>11, <1>12, <1>13 DEF TotalScore

\* Whatever the scores and the arguments, the greedy pairs are worth at least
\* half of any other choice of disjoint admissible pairs on these cores.
THEOREM GreedyIsHalfOfBest == Spec => []HalfOfBest
  <1>1. Inv /\ EdgesOK => HalfOfBest
    <2> SUFFICES ASSUME Inv, EdgesOK, pc = "done", Mode = "SP", NEW M \in Matchings
                 PROVE  2 * TotalScore(BoundEdges) >= TotalScore(M)
      BY DEF HalfOfBest
    <2> DEFINE score == [d \in decisions |-> Score(pred[d.thread], pred[d.peer])]
    <2>1. score \in [decisions -> Int]
      <3> SUFFICES ASSUME NEW d \in decisions PROVE Score(pred[d.thread], pred[d.peer]) \in Int
        OBVIOUS
      <3>1. PICK e \in CandidateEdges : PairOf(d, e)
        BY DEF EdgesOK
      <3>2. pred[order[e[1]]] \in Profiles /\ pred[order[e[2]]] \in Profiles
        BY CandidatesAreEdges, EdgeType DEF Inv
      <3> QED
        BY <3>1, <3>2, ScoreAssumption DEF PairOf
    <2>2. TotalScore(M) \in Nat /\ TotalScore(M) <= Cardinality(PointsOf(decisions, score))
      BY <2>1, BoundThreadsOutscore
    <2>3. /\ Cardinality(PointsOf(decisions, score)) \in Nat /\ TotalScore(BoundEdges) \in Nat
          /\ Cardinality(PointsOf(decisions, score)) <= 2 * TotalScore(BoundEdges)
      BY <2>1, PairsCountTwice
    <2> QED
      BY <2>2, <2>3
  <1> QED
    BY EdgesInvariant, <1>1, PTL
-----------------------------------------------------------------------------
\* The scoring rules of the code.

\* A feature of a profile is an integer.
LEMMA FeatureType ==
  ASSUME NEW p \in Profile, NEW f \in Features
  PROVE  p[f] \in Int /\ p[f] >= 0 /\ p[f] <= One
  BY DEF Profile, One

\* Gains and penalties are integers, the same both ways round.
LEMMA TermsSymmetric ==
  ASSUME Theta \in Int, NEW p \in Profile, NEW q \in Profile, NEW f \in Features
  PROVE  /\ Gain(p, q, f) \in Int /\ Gain(p, q, f) = Gain(q, p, f)
         /\ Penalty(p, q, f) \in Int /\ Penalty(p, q, f) = Penalty(q, p, f)
  <1>1. p[f] \in Int /\ q[f] \in Int
    BY FeatureType
  <1>2. DiffWeights[f] \in Int /\ SumWeights[f] \in Int
    BY DEF Features, DiffWeights, SumWeights
  <1>3. Abs(p[f] - q[f]) \in Int /\ Abs(p[f] - q[f]) = Abs(q[f] - p[f])
    BY <1>1 DEF Abs
  <1>4. /\ Positive(p[f] + q[f] - 2 * Theta) \in Int
        /\ Positive(p[f] + q[f] - 2 * Theta) = Positive(q[f] + p[f] - 2 * Theta)
    BY <1>1 DEF Positive
  <1> QED
    BY <1>2, <1>3, <1>4 DEF Gain, Penalty

\* A predicted intensity is an integer.
LEMMA IntensityType == ASSUME NEW p \in Profile PROVE PredictedIntensity(p) \in Int
  <1> DEFINE x == 15 * p["BrMPKI"] + 5 * p["MPKI_L1I"]
             y == 16 * p["IPC"] + 4 * (One - p["MPKI_LLC"])
             z == 16 * p["MPKI_LLC"] + 4 * p["MPKI_TLB"]
  <1>1. x \in Int /\ y \in Int /\ z \in Int
    <2>1. /\ p["BrMPKI"] \in Int /\ p["MPKI_L1I"] \in Int /\ p["IPC"] \in Int
          /\ p["MPKI_LLC"] \in Int /\ p["MPKI_TLB"] \in Int
      BY FeatureType DEF Features
    <2> QED
      BY <2>1 DEF One
  <1>2. PredictedIntensity(p) = Max({x, y, z})
    BY DEF PredictedIntensity
  <1> HIDE DEF x, y, z
  <1>3. \E m \in {x, y, z} : \A n \in {x, y, z} : m >= n
    BY <1>1
  <1>4. Max({x, y, z}) \in {x, y, z}
    BY <1>3 DEF Max
  <1> QED
    BY <1>1, <1>2, <1>4

\* The rules of the code are integer and symmetric: they meet what is assumed
\* of scores.
LEMMA RulesMeetAssumption ==
  ASSUME CodeRules
  PROVE  \A p, q \in Profiles :
           /\ Intensity(p) \in Int
           /\ Score(p, q) \in Int
           /\ Score(p, q) = Score(q, p)
  <1> SUFFICES ASSUME NEW p \in Profiles, NEW q \in Profiles
               PROVE  /\ PredictedIntensity(p) \in Int
                      /\ ComplementarityScore(p, q) \in Int
                      /\ ComplementarityScore(p, q) = ComplementarityScore(q, p)
    BY DEF CodeRules
  <1>1. p \in Profile /\ q \in Profile /\ Theta \in Int
    BY DEF CodeRules
  <1> DEFINE term(a, b, f) == Gain(a, b, f) - Penalty(a, b, f)
  <1>2. \A f \in Features : term(p, q, f) \in Int /\ term(p, q, f) = term(q, p, f)
    BY <1>1, TermsSymmetric
  <1>3. \A a, b : ComplementarityScore(a, b) =
          term(a, b, "IPC") + term(a, b, "MPKI_L1I") + term(a, b, "MPKI_L1D") + term(a, b, "MPKI_L2")
            + term(a, b, "MPKI_LLC") + term(a, b, "BrMPKI") + term(a, b, "MPKI_TLB")
    BY DEF ComplementarityScore, OverFeatures
  <1> HIDE DEF term
  <1>4. ComplementarityScore(p, q) \in Int /\ ComplementarityScore(p, q) = ComplementarityScore(q, p)
    BY <1>2, <1>3 DEF Features
  <1> QED
    BY <1>1, <1>4, IntensityType

\* Two equal profiles with a load above theta score below zero.
LEMMA TwinsScoreNegative ==
  ASSUME Theta \in Int, NEW p \in Profile, NEW g \in Features, p[g] > Theta
  PROVE  ComplementarityScore(p, p) < 0
  <1> DEFINE term(f) == Gain(p, p, f) - Penalty(p, p, f)
  <1>1. \A f \in Features : term(f) \in Int /\ term(f) <= 0
    <2> SUFFICES ASSUME NEW f \in Features PROVE term(f) \in Int /\ term(f) <= 0
      OBVIOUS
    <2>1. p[f] \in Int /\ DiffWeights[f] \in Int /\ SumWeights[f] \in Nat
      BY FeatureType DEF Features, DiffWeights, SumWeights
    <2>2. Gain(p, p, f) = 0
      BY <2>1 DEF Gain, Abs
    <2>3. Positive(p[f] + p[f] - 2 * Theta) \in Nat
      BY <2>1 DEF Positive
    <2>4. Penalty(p, p, f) \in Nat
      BY <2>1, <2>3 DEF Penalty
    <2> QED
      BY <2>2, <2>4
  <1>2. term(g) < 0
    <2>1. p[g] \in Int /\ DiffWeights[g] \in Int /\ SumWeights[g] \in Nat /\ SumWeights[g] >= 1
      BY FeatureType DEF Features, DiffWeights, SumWeights
    <2>2. Gain(p, p, g) = 0
      BY <2>1 DEF Gain, Abs
    <2>3. Positive(p[g] + p[g] - 2 * Theta) \in Nat /\ Positive(p[g] + p[g] - 2 * Theta) >= 1
      BY <2>1 DEF Positive
    <2>4. Penalty(p, p, g) \in Nat /\ Penalty(p, p, g) >= 1
      BY <2>1, <2>3 DEF Penalty
    <2> QED
      BY <2>2, <2>4
  <1>3. ComplementarityScore(p, p) =
          term("IPC") + term("MPKI_L1I") + term("MPKI_L1D") + term("MPKI_L2")
            + term("MPKI_LLC") + term("BrMPKI") + term("MPKI_TLB")
    BY DEF ComplementarityScore, OverFeatures
  <1> HIDE DEF term
  <1> QED
    BY <1>1, <1>2, <1>3 DEF Features

\* Under the rules of the code no two threads with the same prediction share a
\* core when that prediction puts a load above theta.
THEOREM TwinsAreKeptApart == ASSUME CodeRules PROVE Spec => []NoContendingTwins
  <1>1. Inv /\ EdgesOK => NoContendingTwins
    <2> SUFFICES ASSUME Inv, EdgesOK, NEW d \in decisions, d.peer # NoPeer,
                        pred[d.thread] = pred[d.peer],
                        NEW f \in Features, ~ (pred[d.thread][f] <= Theta)
                 PROVE  FALSE
      BY DEF NoContendingTwins
    <2>1. pc \notin {"sort", "pairs"}
      BY DEF Inv, StartOK
    <2>2. CASE Mode = "CE"
      <3>1. pc \in {"ce", "done"}
        BY <2>1, <2>2 DEF Inv, ModeOK, TypeOK
      <3> QED
        BY <2>2, <3>1 DEF Inv, AloneOK, Decision
    <2>3. CASE Mode = "SP"
      <3>1. PICK e \in CandidateEdges : PairOf(d, e)
        BY <2>1, <2>3 DEF EdgesOK
      <3> DEFINE p == pred[d.thread]
      <3>2. p \in Profiles /\ EdgeScore(e) = Score(p, p)
        <4>1. pred[order[e[1]]] \in Profiles /\ pred[order[e[2]]] \in Profiles
          BY <2>1, CandidatesAreEdges, EdgeType DEF Inv
        <4> QED
          BY <3>1, <4>1 DEF PairOf, EdgeScore
      <3>3. EdgeScore(e) >= 0
        BY DEF CandidateEdges
      <3>4. p \in Profile /\ Theta \in Int /\ EdgeScore(e) = ComplementarityScore(p, p)
        BY <3>2 DEF CodeRules
      <3>5. p[f] \in Int /\ p[f] > Theta
        BY <3>4, FeatureType
      <3>6. ComplementarityScore(p, p) < 0
        BY <3>4, <3>5, TwinsScoreNegative
      <3>7. EdgeScore(e) \in Int
        BY <2>1, CandidatesAreEdges, EdgeType DEF Inv
      <3> QED
        BY <3>3, <3>4, <3>6, <3>7
    <2> QED
      BY <2>2, <2>3, ModeCases
  <1> QED
    BY EdgesInvariant, <1>1, PTL
=============================================================================
