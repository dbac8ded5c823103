----------------------- MODULE OfflinePipelineProofs -----------------------
(***************************************************************************)
(* What holds of the files of a driver for every data set, length of the   *)
(* windows and of the histories, and every schedule_window that binds no   *)
(* thread and no CPU twice.                                                *)
(*                                                                         *)
(* A file may be left over from any earlier run, so nothing can be said of *)
(* one by its name.  The invariant follows how far the present driver has  *)
(* come: each file of a script that has begun is the one of the present    *)
(* data, in the directory or still to be written (Has), and it stays so    *)
(* because no later script writes it again (ProgressOK).  The three        *)
(* properties of a driver that did not fail are then statements about sets *)
(* of windows: places in a sorted list, the split, and the last window.    *)
(***************************************************************************)
EXTENDS OfflinePipeline, FiniteSetTheorems, SequenceTheorems, TLAPS

-----------------------------------------------------------------------------
(* Places in a sorted list of windows. *)

\* The windows before one are counted.
LEMMA PositionType ==
  ASSUME NEW wins \in SUBSET Nat, IsFiniteSet(wins), NEW w
  PROVE  /\ IsFiniteSet({v \in wins : v < w})
         /\ Position(wins, w) \in Nat
         /\ Cardinality(wins) \in Nat
         /\ Position(wins, w) <= Cardinality(wins)
  <1>1. {v \in wins : v < w} \in SUBSET wins
    OBVIOUS
  <1> QED
    BY <1>1, FS_Subset, FS_CardinalityType DEF Position

\* An earlier window has a smaller place.
LEMMA PositionLess ==
  ASSUME NEW wins \in SUBSET Nat, IsFiniteSet(wins), NEW v \in wins, NEW w \in Nat, v < w
  PROVE  Position(wins, v) < Position(wins, w)
  <1> DEFINE A == {u \in wins : u < v}
  <1> DEFINE B == {u \in wins : u < w}
  <1>1. A \in SUBSET B /\ v \in B /\ v \notin A
    <2>1. ASSUME NEW u \in A PROVE u \in B
      <3>1. u \in wins /\ u < v /\ u \in Nat /\ v \in Nat
        OBVIOUS
      <3>2. u < w
        BY <3>1
      <3> QED
        BY <3>1, <3>2
    <2>2. v \in B /\ v \notin A
      OBVIOUS
    <2> QED
      BY <2>1, <2>2
  <1>2. IsFiniteSet(A) /\ IsFiniteSet(B) /\ Cardinality(A) \in Nat /\ Cardinality(B) \in Nat
    BY PositionType DEF Position
  <1>3. Cardinality(A) <= Cardinality(B) /\ (Cardinality(B) = Cardinality(A) => B = A)
    BY <1>1, <1>2, FS_Subset
  <1>4. Cardinality(A) < Cardinality(B)
    BY <1>1, <1>2, <1>3
  <1> QED
    BY <1>4 DEF Position

LEMMA PositionMonotonic ==
  ASSUME NEW wins \in SUBSET Nat, IsFiniteSet(wins), NEW v \in wins, NEW w \in wins
  PROVE  Position(wins, v) < Position(wins, w) <=> v < w
  <1>1. v \in Nat /\ w \in Nat /\ Position(wins, v) \in Nat /\ Position(wins, w) \in Nat
    BY PositionType
  <1>2. CASE v < w
    BY <1>2, PositionLess
  <1>3. CASE w < v
    BY <1>1, <1>3, PositionLess
  <1>4. CASE v = w
    BY <1>1, <1>4
  <1> QED
    BY <1>1, <1>2, <1>3, <1>4

\* The places of n windows are 0 to n - 1.
LEMMA PositionRange ==
  ASSUME NEW wins \in SUBSET Nat, IsFiniteSet(wins), NEW w \in wins
  PROVE  Position(wins, w) \in 0 .. Cardinality(wins) - 1
  <1> DEFINE A == {u \in wins : u < w}
  <1>1. A \in SUBSET wins /\ w \notin A
    OBVIOUS
  <1>2. Cardinality(A) <= Cardinality(wins) /\ (Cardinality(wins) = Cardinality(A) => wins = A)
    BY <1>1, FS_Subset
  <1>3. Cardinality(A) \in Nat /\ Cardinality(wins) \in Nat
    BY PositionType DEF Position
  <1>4. Cardinality(A) < Cardinality(wins)
    BY <1>1, <1>2, <1>3
  <1> QED
    BY <1>3, <1>4 DEF Position

\* There is a window at every place.
LEMMA PositionOnto ==
  ASSUME NEW wins \in SUBSET Nat, IsFiniteSet(wins), NEW i \in 0 .. Cardinality(wins) - 1
  PROVE  \E w \in wins : Position(wins, w) = i
  <1> DEFINE places == 0 .. Cardinality(wins) - 1
  <1> DEFINE f == [w \in wins |-> Position(wins, w)]
  <1>1. Cardinality(wins) \in Nat
    BY FS_CardinalityType
  <1>2. IsFiniteSet(places) /\ Cardinality(places) = Cardinality(wins)
    BY <1>1, FS_Interval
  <1>3. f \in [wins -> places]
    BY PositionRange
  <1>4. ASSUME NEW v \in wins, NEW w \in wins, f[v] = f[w] PROVE v = w
    <2>1. Position(wins, v) = Position(wins, w) /\ Position(wins, v) \in Nat
      BY <1>4, PositionType
    <2>2. ~ (v < w) /\ ~ (w < v)
      BY <2>1, PositionLess
    <2> QED
      BY <2>2
  <1>5. f \in Injection(wins, places)
    BY <1>3, <1>4 DEF Injection, IsInjective
  <1>6. f \in Surjection(wins, places)
    <2> HIDE DEF f, places
    <2> QED
      BY <1>2, <1>5, FS_Injection
  <1> QED
    BY <1>6 DEF Surjection

\* The last window of a finite set of them.
LEMMA LastExists ==
  ASSUME NEW wins \in SUBSET Nat, IsFiniteSet(wins), wins # {}
  PROVE  /\ Max(wins) \in wins
         /\ \A v \in wins : v <= Max(wins)
  <1>1. Cardinality(wins) \in Nat \ {0}
    BY FS_CardinalityType, FS_EmptySet
  <1>2. PICK w \in wins : Position(wins, w) = Cardinality(wins) - 1
    BY <1>1, PositionOnto
  <1>3. ASSUME NEW v \in wins PROVE w >= v
    BY <1>1, <1>2, PositionRange, PositionLess
  <1>4. \E x \in wins : \A y \in wins : x >= y
    BY <1>3
  <1> QED
    BY <1>4 DEF Max

\* The windows after one.
LEMMA LaterCount ==
  ASSUME NEW wins \in SUBSET Nat, IsFiniteSet(wins), NEW w \in wins
  PROVE  Cardinality({v \in wins : v > w}) = Cardinality(wins) - 1 - Position(wins, w)
  <1> DEFINE A == {u \in wins : u < w}
  <1> DEFINE R == wins \ A
  <1> DEFINE L == {v \in wins : v > w}
  <1>1. wins \cap A = A /\ w \in R
    OBVIOUS
  <1>0. R \ {w} = L
    <2>1. ASSUME NEW u \in wins PROVE (~ (u < w) /\ u # w) <=> u > w
      <3>1. u \in Nat /\ w \in Nat
        OBVIOUS
      <3> QED
        BY <3>1
    <2> QED
      BY <2>1
  <1>2. IsFiniteSet(R) /\ Cardinality(R) = Cardinality(wins) - Cardinality(A)
    BY <1>1, FS_Difference
  <1>3. Cardinality(L) = Cardinality(R) - 1
    <2> HIDE DEF R, L
    <2> QED
      BY <1>0, <1>1, <1>2, FS_RemoveElement
  <1>4. Cardinality(A) \in Nat /\ Cardinality(wins) \in Nat
    BY PositionType DEF Position
  <1> QED
    BY <1>2, <1>3, <1>4 DEF Position

\* A history is made of the last windows before the one to predict.
LEMMA HistoryIsLast ==
  ASSUME NEW wins \in SUBSET Nat, IsFiniteSet(wins), NEW w \in wins,
         NEW n \in Nat \ {0}, n <= Position(wins, w),
         NEW hist, hist = History(wins, Position(wins, w), n)
  PROVE  /\ hist \subseteq {v \in wins : v < w}
         /\ Cardinality(hist) = n
         /\ \A v \in wins : v < w /\ v \notin hist => \A u \in hist : v < u
  <1> DEFINE pos == Position(wins, w)
  <1> DEFINE places == pos - n .. pos - 1
  <1> DEFINE f == [v \in hist |-> Position(wins, v)]
  <1>1. pos \in Nat /\ pos <= Cardinality(wins) - 1 /\ Cardinality(wins) \in Nat
    <2>1. Cardinality(wins) \in Nat
      BY FS_CardinalityType
    <2> QED
      BY <2>1, PositionRange
  <1>2. \A v \in wins : v \in hist <=> Position(wins, v) \in places
    BY DEF History
  <1>3. hist \subseteq wins
    BY DEF History
  <1>4. \A v, u \in wins : Position(wins, v) \in Nat /\ (Position(wins, v) < Position(wins, u) <=> v < u)
    BY PositionMonotonic, PositionType
  <1>5. hist \subseteq {v \in wins : v < w}
    <2>1. ASSUME NEW v \in hist PROVE v < w
      <3>1. v \in wins /\ Position(wins, v) \in pos - n .. pos - 1
        BY <1>2, <1>3
      <3>2. Position(wins, v) < pos
        BY <1>1, <3>1
      <3> QED
        BY <1>4, <3>1, <3>2
    <2> QED
      BY <1>3, <2>1
  <1>6. ASSUME NEW v \in wins, v < w, v \notin hist, NEW u \in hist PROVE v < u
    <2>1. Position(wins, v) < pos /\ ~ (Position(wins, v) \in places) /\ Position(wins, v) \in Nat
      BY <1>2, <1>4, <1>6
    <2>2. u \in wins /\ Position(wins, u) \in places /\ Position(wins, u) \in Nat
      BY <1>2, <1>3, <1>4
    <2>3. Position(wins, v) < Position(wins, u)
      BY <1>1, <2>1, <2>2
    <2> QED
      BY <1>4, <2>2, <2>3
  <1>7. f \in Injection(hist, places)
    <2>1. f \in [hist -> places]
      BY <1>2, <1>3
    <2>2. ASSUME NEW v \in hist, NEW u \in hist, f[v] = f[u] PROVE v = u
      <3>1. v \in wins /\ u \in wins /\ Position(wins, v) = Position(wins, u)
        BY <1>3, <2>2
      <3>2. ~ (v < u) /\ ~ (u < v)
        BY <1>4, <3>1
      <3> QED
        BY <3>1, <3>2
    <2> QED
      BY <2>1, <2>2 DEF Injection, IsInjective
  <1>8. f \in Surjection(hist, places)
    <2>1. ASSUME NEW i \in places PROVE \E v \in hist : f[v] = i
      <3>1. i \in 0 .. Cardinality(wins) - 1
        BY <1>1
      <3>2. PICK v \in wins : Position(wins, v) = i
        BY <3>1, PositionOnto
      <3> QED
        BY <1>2, <3>2
    <2> QED
      BY <1>7, <2>1 DEF Surjection, Injection
  <1>9. IsFiniteSet(places) /\ Cardinality(places) = n
    <2>1. pos - n \in Int /\ pos - 1 \in Int /\ ~ (pos - n > pos - 1) /\ (pos - 1) - (pos - n) + 1 = n
      BY <1>1
    <2> HIDE DEF pos
    <2> QED
      BY <2>1, FS_Interval
  <1>10. Cardinality(hist) = n
    <2> HIDE DEF f, places
    <2> QED
      BY <1>7, <1>8, <1>9, FS_Injection
  <1> QED
    BY <1>5, <1>6, <1>10

-----------------------------------------------------------------------------
(* The invariant. *)

\* The file will hold this once the present script is through.
Has(name, content) ==
  \/ /\ Readable(name) /\ file[name] = content
     /\ \A i \in 1 .. Len(pending) : pending[i].name # name
  \/ \E i \in 1 .. Len(pending) : pending[i] = To(name, content)

\* The script at place k of the driver has begun.
Begun(k) == Len(todo) < 5 - k \/ (Len(todo) = 5 - k /\ pending # <<>>)

\* thread_windows_norm.csv of the present data.
NormWindow(k, w) == [key |-> k, win |-> w, scale |-> Windows]
NormWindows == Normalized(Windows)

\* What train_thread_predictor.py and predict_thread_windows.py predict.
Validated(n) ==
  SequencesOf(NormWindows, n) \ {s \in SequencesOf(NormWindows, n) : InTraining(s)}

Predicted(n) ==
  {Prediction(s) : s \in IF driver = "reproduce" THEN Validated(n) ELSE SequencesOf(NormWindows, n)}

Model(n, on) == [hist |-> n, trained |-> {Prediction(s) : s \in on}]

Trained(n) == {s \in SequencesOf(NormWindows, n) : InTraining(s)}

BuildDone ==
  Has("windows", Windows) /\ Has("windows_norm", NormWindows) /\ Has("norm_meta", Windows)

ModelDone(n) ==
  IF driver = "reproduce"
  THEN Has("model", Model(n, Trained(n))) /\ Has("model_full", Model(n, SequencesOf(NormWindows, n)))
  ELSE /\ Readable("model") /\ file["model"].hist = n
       /\ \A i \in 1 .. Len(pending) : pending[i].name # "model"

PredictDone(n) ==
  /\ Has("predictions", Predicted(n)) /\ Has("regression", Predicted(n))
  /\ Has("classification", Predicted(n)) /\ Has("confusion", Predicted(n))
  /\ ModelDone(n)

Groups(predictions) == {[load |-> p.key.load, win |-> p.win] : p \in predictions}

ScheduleDone(n) ==
  Has("schedule", Schedule(Predicted(n))) /\ Has("window_summary", Groups(Predicted(n)))

ExportDone(n) ==
  LET selection == Schedule(Predicted(n))
  IN /\ Has("selection", selection) /\ Has("pairs", Pairs(selection))
     /\ Has("final", FinalView(selection))
     /\ Has("selection_summary", {r.load : r \in selection})

Second == IF driver = "reproduce" THEN "train" ELSE "predict"

\* Every file a driver has come to is the one of the present data, whatever
\* was there before it.
ProgressOK ==
  status \in {"running", "ok"} =>
    /\ driver \in {"reproduce", "demo"}
    /\ todo \in {<<"build", Second, "schedule", "export">>, <<Second, "schedule", "export">>,
                 <<"schedule", "export">>, <<"export">>, <<>>}
    /\ Begun(1) => BuildDone
    /\ Begun(2) =>
         \E n \in HistLens :
           PredictDone(n) /\ (Begun(3) => ScheduleDone(n)) /\ (Begun(4) => ExportDone(n))

PredictionsOK(predictions) ==
  \A p \in predictions :
    p.key \in Keys /\ p.win \in Nat /\ \A v \in p.hist : v < p.win

\* What holds of a content wherever it comes from.
ContentOK(name, content) ==
  /\ name \in Files
  /\ name = "predictions" => PredictionsOK(content)
  /\ name = "model" => content.hist \in HistLens

\* The script writes each of its files once.
PendingOK ==
  /\ pending \in Seq({pending[i] : i \in 1 .. Len(pending)})
  /\ \A i \in 1 .. Len(pending) :
       /\ pending[i] = To(pending[i].name, pending[i].content)
       /\ ContentOK(pending[i].name, pending[i].content)
       /\ \A j \in 1 .. Len(pending) : pending[i].name = pending[j].name => i = j

PipelineInv ==
  /\ data \in Datasets
  /\ file = [f \in DOMAIN file |-> file[f]]
  /\ \A f \in DOMAIN file : ContentOK(f, file[f])
  /\ driver \in {"none", "reproduce", "demo"}
  /\ status \in {"none", "running", "ok", "failed"}
  /\ runs \in 0 .. MaxRuns
  /\ (status = "running") = (todo # <<>>)
  /\ pending # <<>> => todo # <<>>
  /\ PendingOK
  /\ ProgressOK

-----------------------------------------------------------------------------
(* The windows and the predictions. *)

LEMMA DataTypes ==
  ASSUME data \in Datasets
  PROVE  /\ IsFiniteSet(data)
         /\ \A r \in data : r.key \in Keys \cup {NoThread} /\ r.ts \in Nat /\ r.ts \div WindowNs \in Nat
  <1>1. WindowNs \in Nat \ {0}
    BY PipelineAssumption
  <1>2. \A t \in Nat : t \div WindowNs \in Nat
    BY <1>1
  <1> QED
    BY <1>2, PipelineAssumption

\* The windows of a thread are finitely many numbers.
LEMMA SeenFinite ==
  ASSUME data \in Datasets, NEW k
  PROVE  Seen(k) \in SUBSET Nat /\ IsFiniteSet(Seen(k))
  <1> DEFINE rows == {x \in data : x.key = k /\ x.busy}
  <1> DEFINE f == [r \in rows |-> r.ts \div WindowNs]
  <1>1. IsFiniteSet(rows)
    BY DataTypes, FS_Subset
  <1>2. f \in Surjection(rows, Seen(k))
    BY DEF Surjection, Seen
  <1>3. IsFiniteSet(Seen(k))
    <2> HIDE DEF rows, f
    <2> QED
      BY <1>1, <1>2, FS_Surjection
  <1>4. Seen(k) \in SUBSET Nat
    BY DataTypes DEF Seen
  <1> QED
    BY <1>3, <1>4

\* build_thread_windows.py loses none of them and adds none.
LEMMA WindowsOfThread ==
  ASSUME data \in Datasets
  PROVE  /\ \A k \in Keys : WinsOf(NormWindows, k) = Seen(k)
         /\ \A x \in NormWindows :
              x.key \in Keys /\ x.win \in Seen(x.key) /\ x = NormWindow(x.key, x.win)
         /\ \A k \in Keys : \A v \in Seen(k) : NormWindow(k, v) \in NormWindows
         /\ Windows = AllSeen
  <1>1. \A k \in Keys : k # NoThread
    BY PipelineAssumption
  <1>2. \A w \in Windows : w.key \in Keys /\ w.win \in Seen(w.key)
    BY DataTypes DEF Windows, FullDataset, Seen
  <1>3. \A k \in Keys : \A v \in Seen(k) : [key |-> k, win |-> v] \in Windows
    BY <1>1 DEF Windows, FullDataset, Seen
  <1>4. \A x \in NormWindows :
          x.key \in Keys /\ x.win \in Seen(x.key) /\ x = NormWindow(x.key, x.win)
    BY <1>2 DEF NormWindows, Normalized, NormWindow
  <1>5. ASSUME NEW k \in Keys, NEW v \in Seen(k) PROVE NormWindow(k, v) \in NormWindows
    <2> DEFINE w == [key |-> k, win |-> v]
    <2>1. w \in Windows /\ NormWindow(k, v) = [key |-> w.key, win |-> w.win, scale |-> Windows]
      BY <1>3 DEF NormWindow
    <2> HIDE DEF w
    <2> QED
      BY <2>1 DEF NormWindows, Normalized
  <1>6. ASSUME NEW k \in Keys PROVE WinsOf(NormWindows, k) = Seen(k)
    <2>1. ASSUME NEW v \in WinsOf(NormWindows, k) PROVE v \in Seen(k)
      BY <1>4, <2>1 DEF WinsOf
    <2>2. ASSUME NEW v \in Seen(k) PROVE v \in WinsOf(NormWindows, k)
      <3>1. NormWindow(k, v) \in NormWindows /\ NormWindow(k, v).key = k /\ NormWindow(k, v).win = v
        BY <1>5 DEF NormWindow
      <3> QED
        BY <3>1 DEF WinsOf
    <2> QED
      BY <2>1, <2>2
  <1>7. Windows = AllSeen
    <2>1. ASSUME NEW w \in Windows PROVE w \in AllSeen
      <3>1. w = [key |-> w.key, win |-> w.win]
        BY DEF Windows
      <3> QED
        BY <1>2, <3>1 DEF AllSeen
    <2>2. ASSUME NEW w \in AllSeen PROVE w \in Windows
      BY <1>3 DEF AllSeen
    <2> QED
      BY <2>1, <2>2
  <1> QED
    BY <1>4, <1>5, <1>6, <1>7

\* What the plan may be about, in terms of the data alone.
Foreseen(k, w, n) ==
  /\ k \in Keys /\ w \in Seen(k)
  /\ Position(Seen(k), w) >= n
  /\ driver = "reproduce" => 10 * Cardinality(Later(k, w)) <= Cardinality(Seen(k)) - 1

\* The split of add_split_column, in whole windows.
LEMMA SplitIsLastTenth ==
  ASSUME data \in Datasets, NEW k \in Keys, NEW w \in Seen(k), NEW n \in Nat \ {0},
         Position(Seen(k), w) >= n
  PROVE  ~ InTraining(Sequence(NormWindow(k, w), Seen(k), n))
           <=> 10 * Cardinality(Later(k, w)) <= Cardinality(Seen(k)) - 1
  <1> DEFINE pos == Position(Seen(k), w)
  <1> DEFINE len == Cardinality(Seen(k))
  <1>1. Seen(k) \in SUBSET Nat /\ IsFiniteSet(Seen(k))
    BY SeenFinite
  <1>2. pos \in 0 .. len - 1 /\ len \in Nat
    BY <1>1, PositionRange, FS_CardinalityType
  <1>3. Cardinality(Later(k, w)) = len - 1 - pos
    BY <1>1, LaterCount DEF Later
  <1>4. InTraining(Sequence(NormWindow(k, w), Seen(k), n))
          <=> 10 * pos < 9 * (IF len > 2 THEN len - 1 ELSE 1)
    BY DEF InTraining, Sequence, NormWindow
  <1>5. pos >= 1
    BY <1>2
  <1>6. len > 2 \/ (len = 2 /\ pos = 1)
    BY <1>2, <1>5
  <1>7. ~ (10 * pos < 9 * (IF len > 2 THEN len - 1 ELSE 1)) <=> 10 * (len - 1 - pos) <= len - 1
    <2> HIDE DEF pos, len
    <2> QED
      BY <1>2, <1>5, <1>6
  <1> QED
    BY <1>3, <1>4, <1>7

\* The sequences of the present data.
LEMMA SequencesAre ==
  ASSUME data \in Datasets, NEW n
  PROVE  /\ \A s \in SequencesOf(NormWindows, n) :
              \E k \in Keys : \E w \in Seen(k) :
                s = Sequence(NormWindow(k, w), Seen(k), n) /\ Position(Seen(k), w) >= n
         /\ \A k \in Keys : \A w \in Seen(k) :
              Position(Seen(k), w) >= n =>
                Sequence(NormWindow(k, w), Seen(k), n) \in SequencesOf(NormWindows, n)
  <1>1. ASSUME NEW s \in SequencesOf(NormWindows, n)
        PROVE  \E k \in Keys : \E w \in Seen(k) :
                 s = Sequence(NormWindow(k, w), Seen(k), n) /\ Position(Seen(k), w) >= n
    <2>1. PICK w \in NormWindows : s = Sequence(w, WinsOf(NormWindows, w.key), n) /\ s.pos >= n
      BY <1>1 DEF SequencesOf
    <2>2. /\ w.key \in Keys /\ w.win \in Seen(w.key) /\ WinsOf(NormWindows, w.key) = Seen(w.key)
          /\ w = NormWindow(w.key, w.win)
      BY WindowsOfThread
    <2>3. s = Sequence(NormWindow(w.key, w.win), Seen(w.key), n)
      BY <2>1, <2>2
    <2>4. Position(Seen(w.key), w.win) >= n
      BY <2>1, <2>2 DEF Sequence
    <2> QED
      BY <2>2, <2>3, <2>4
  <1>2. ASSUME NEW k \in Keys, NEW w \in Seen(k), Position(Seen(k), w) >= n
        PROVE  Sequence(NormWindow(k, w), Seen(k), n) \in SequencesOf(NormWindows, n)
    <2>1. /\ NormWindow(k, w) \in NormWindows /\ WinsOf(NormWindows, k) = Seen(k)
          /\ NormWindow(k, w).key = k
      BY WindowsOfThread DEF NormWindow
    <2>2. Sequence(NormWindow(k, w), Seen(k), n).pos >= n
      BY <1>2 DEF Sequence, NormWindow
    <2> QED
      BY <2>1, <2>2 DEF SequencesOf
  <1> QED
    BY <1>1, <1>2

\* A prediction is one of the windows foreseen, with its history, and each of
\* them is predicted.
LEMMA PredictedAre ==
  ASSUME data \in Datasets, NEW n \in Nat \ {0}
  PROVE  /\ \A p \in Predicted(n) :
              /\ Foreseen(p.key, p.win, n)
              /\ p.hist = History(Seen(p.key), Position(Seen(p.key), p.win), n)
              /\ p.scale = Windows
         /\ \A k, w : Foreseen(k, w, n) => \E p \in Predicted(n) : p.key = k /\ p.win = w
  <1>1. ASSUME NEW p \in Predicted(n)
        PROVE  /\ Foreseen(p.key, p.win, n)
               /\ p.hist = History(Seen(p.key), Position(Seen(p.key), p.win), n)
               /\ p.scale = Windows
    <2>1. PICK s \in SequencesOf(NormWindows, n) :
            p = Prediction(s) /\ (driver = "reproduce" => ~ InTraining(s))
      BY <1>1 DEF Predicted, Validated
    <2>9. PICK k \in Keys : \E w \in Seen(k) :
            s = Sequence(NormWindow(k, w), Seen(k), n) /\ Position(Seen(k), w) >= n
      BY SequencesAre
    <2>2. PICK w \in Seen(k) :
            s = Sequence(NormWindow(k, w), Seen(k), n) /\ Position(Seen(k), w) >= n
      BY <2>9
    <2>3. /\ p.key = k /\ p.win = w /\ p.hist = History(Seen(k), Position(Seen(k), w), n)
          /\ p.scale = Windows
      BY <2>1, <2>2 DEF Prediction, Sequence, NormWindow
    <2>4. Foreseen(k, w, n)
      BY <2>1, <2>2, SplitIsLastTenth DEF Foreseen
    <2> QED
      BY <2>3, <2>4
  <1>2. ASSUME NEW k, NEW w, Foreseen(k, w, n)
        PROVE  \E p \in Predicted(n) : p.key = k /\ p.win = w
    <2> DEFINE s == Sequence(NormWindow(k, w), Seen(k), n)
    <2>1. k \in Keys /\ w \in Seen(k) /\ Position(Seen(k), w) >= n
      BY <1>2 DEF Foreseen
    <2>2. s \in SequencesOf(NormWindows, n)
      BY <2>1, SequencesAre
    <2>3. driver = "reproduce" => ~ InTraining(s)
      BY <1>2, <2>1, SplitIsLastTenth DEF Foreseen
    <2>4. Prediction(s) \in Predicted(n)
      <3> HIDE DEF s
      <3> QED
        BY <2>2, <2>3 DEF Predicted, Validated
    <2>5. Prediction(s).key = k /\ Prediction(s).win = w
      BY DEF Prediction, Sequence, NormWindow
    <2> HIDE DEF s
    <2> QED
      BY <2>4, <2>5
  <1> QED
    BY <1>1, <1>2

-----------------------------------------------------------------------------
(* Files that are to be written, and written. *)

\* What is foreseen depends on the data and the driver alone.
LEMMA SameData ==
  ASSUME data' = data, driver' = driver
  PROVE  /\ Windows' = Windows /\ NormWindows' = NormWindows
         /\ \A n : Predicted(n)' = Predicted(n) /\ Trained(n)' = Trained(n)
         /\ \A n : SequencesOf(NormWindows, n)' = SequencesOf(NormWindows, n)
         /\ Second' = Second
  BY DEF Windows, FullDataset, NormWindows, Predicted, Validated, Trained, Second

\* A script that has written all its files.
LEMMA HasIsFile ==
  ASSUME pending = <<>>, NEW name, NEW content
  PROVE  Has(name, content) <=> Readable(name) /\ file[name] = content
  BY DEF Has

\* The script that begins writes other files.
LEMMA HasKeptByOther ==
  ASSUME pending = <<>>, file' = file, NEW name, NEW content, Has(name, content),
         \A i \in 1 .. Len(pending') : pending'[i].name # name
  PROVE  Has(name, content)'
  BY HasIsFile DEF Has, Readable

\* One file less to write.
LEMMA HeadWritten ==
  ASSUME PendingOK, pending # <<>>, pending' = Tail(pending)
  PROVE  /\ Len(pending) \in Nat \ {0} /\ Head(pending) = pending[1]
         /\ Len(pending') = Len(pending) - 1
         /\ \A i \in 1 .. Len(pending') : i + 1 \in 1 .. Len(pending) /\ pending'[i] = pending[i + 1]
         /\ PendingOK'
  <1> DEFINE S == {pending[i] : i \in 1 .. Len(pending)}
  <1>1. pending \in Seq(S)
    BY DEF PendingOK
  <1>2. Len(pending) \in Nat \ {0} /\ Head(pending) = pending[1]
    <2> HIDE DEF S
    <2> QED
      BY <1>1
  <1>3. /\ pending' \in Seq(S) /\ Len(pending') = Len(pending) - 1
        /\ \A i \in 1 .. Len(pending') : pending'[i] = pending[i + 1]
    <2> HIDE DEF S
    <2> QED
      BY <1>1, HeadTailProperties
  <1>4. \A i \in 1 .. Len(pending') : i + 1 \in 1 .. Len(pending) /\ pending'[i] = pending[i + 1]
    BY <1>2, <1>3
  <1>5. pending' \in Seq({pending'[i] : i \in 1 .. Len(pending')})
    <2> DEFINE T == {pending'[i] : i \in 1 .. Len(pending')}
    <2>1. Len(pending') \in Nat /\ DOMAIN pending' = 1 .. Len(pending')
      <3> HIDE DEF S
      <3> QED
        BY <1>3, LenProperties
    <2>2. pending' \in [1 .. Len(pending') -> S]
      <3> HIDE DEF S
      <3> QED
        BY <1>3, LenProperties
    <2>3. pending' \in [1 .. Len(pending') -> T]
      <3>1. \A i \in 1 .. Len(pending') : pending'[i] \in T
        OBVIOUS
      <3> HIDE DEF S, T
      <3> QED
        BY <2>2, <3>1
    <2>4. pending' \in Seq(T)
      <3> HIDE DEF T
      <3> QED
        BY <2>1, <2>3, SeqDef
    <2> QED
      BY <2>4
  <1>6. PendingOK'
    <2>1. ASSUME NEW i \in 1 .. Len(pending')
          PROVE  /\ pending'[i] = To(pending'[i].name, pending'[i].content)
                 /\ ContentOK(pending'[i].name, pending'[i].content)
                 /\ \A j \in 1 .. Len(pending') : pending'[i].name = pending'[j].name => i = j
      BY <1>4 DEF PendingOK
    <2> QED
      BY <1>5, <2>1 DEF PendingOK, To, ContentOK, PredictionsOK, Files
  <1> QED
    BY <1>2, <1>3, <1>4, <1>6

LEMMA HasKeptByWrite ==
  ASSUME PipelineInv, Write, NEW name, NEW content, Has(name, content)
  PROVE  Has(name, content)'
  <1>1. /\ Len(pending) \in Nat \ {0} /\ Head(pending) = pending[1]
        /\ Len(pending') = Len(pending) - 1
        /\ \A i \in 1 .. Len(pending') : i + 1 \in 1 .. Len(pending) /\ pending'[i] = pending[i + 1]
    BY HeadWritten DEF Write, PipelineInv
  <1>2. /\ DOMAIN file' = DOMAIN file \cup {pending[1].name}
        /\ file'[pending[1].name] = pending[1].content
        /\ \A f \in DOMAIN file : f # pending[1].name => file'[f] = file[f]
    BY <1>1 DEF Write
  <1>3. \A i, j \in 1 .. Len(pending) : pending[i].name = pending[j].name => i = j
    BY DEF PipelineInv, PendingOK
  <1>4. CASE /\ Readable(name) /\ file[name] = content
             /\ \A i \in 1 .. Len(pending) : pending[i].name # name
    BY <1>1, <1>2, <1>4 DEF Has, Readable
  <1>5. CASE \E i \in 1 .. Len(pending) : pending[i] = To(name, content)
    <2>1. PICK i \in 1 .. Len(pending) : pending[i] = To(name, content)
      BY <1>5
    <2>2. CASE i = 1
      <3>1. Readable(name)' /\ file'[name] = content
        BY <1>2, <2>1, <2>2 DEF Readable, To
      <3>2. ASSUME NEW j \in 1 .. Len(pending') PROVE pending'[j].name # name
        <4>1. pending[1].name = name
          BY <2>1, <2>2 DEF To
        <4>2. j + 1 \in 1 .. Len(pending) /\ j + 1 # 1 /\ 1 \in 1 .. Len(pending)
          BY <1>1
        <4> QED
          BY <1>1, <1>3, <4>1, <4>2
      <3> QED
        BY <3>1, <3>2 DEF Has
    <2>3. CASE i # 1
      <3>1. i - 1 \in 1 .. Len(pending') /\ (i - 1) + 1 = i
        BY <1>1, <2>3
      <3>2. pending'[i - 1] = To(name, content)
        BY <1>1, <2>1, <3>1
      <3> QED
        BY <3>1, <3>2 DEF Has, To
    <2> QED
      BY <2>2, <2>3
  <1> QED
    BY <1>4, <1>5 DEF Has

\* How far the driver has come does not change while a script writes.
LEMMA BegunKept ==
  ASSUME PipelineInv, Write, NEW k \in 1 .. 4
  PROVE  Begun(k)' <=> Begun(k)
  <1>1. todo # <<>> /\ pending # <<>> /\ status = "running"
    BY DEF PipelineInv, Write
  <1>2. Len(todo) \in Nat /\ Len(Tail(todo)) = Len(todo) - 1
    BY <1>1 DEF PipelineInv, ProgressOK
  <1> QED
    BY <1>1, <1>2 DEF Begun, Write

-----------------------------------------------------------------------------
(* The invariant is kept. *)

\* What is predicted of the present data has its place among the contents.
LEMMA PredictedOK ==
  ASSUME data \in Datasets, NEW n \in HistLens
  PROVE  PredictionsOK(Predicted(n))
  <1>1. n \in Nat \ {0}
    BY PipelineAssumption
  <1>2. ASSUME NEW p \in Predicted(n)
        PROVE  p.key \in Keys /\ p.win \in Nat /\ \A v \in p.hist : v < p.win
    <2> DEFINE wins == Seen(p.key)
    <2>1. /\ Foreseen(p.key, p.win, n)
          /\ p.hist = History(wins, Position(wins, p.win), n)
      BY <1>1, PredictedAre
    <2>2. p.key \in Keys /\ p.win \in wins /\ Position(wins, p.win) >= n
      BY <2>1 DEF Foreseen
    <2>3. wins \in SUBSET Nat /\ IsFiniteSet(wins)
      BY SeenFinite
    <2>4. n <= Position(wins, p.win)
      BY <1>1, <2>2, <2>3, PositionType
    <2>5. p.hist \subseteq {v \in wins : v < p.win}
      <3> DEFINE w == p.win
      <3> DEFINE hist == p.hist
      <3>1. w \in wins /\ n <= Position(wins, w) /\ hist = History(wins, Position(wins, w), n)
        BY <2>1, <2>2, <2>4
      <3>2. hist \subseteq {v \in wins : v < w}
        <4> HIDE DEF wins, w, hist
        <4> QED
          BY <1>1, <2>3, <3>1, HistoryIsLast
      <3> QED
        BY <3>2
    <2> QED
      BY <2>2, <2>3, <2>5
  <1> QED
    BY <1>2 DEF PredictionsOK

\* Init: no file is there.
LEMMA InitInv == Init => PipelineInv
  BY PipelineAssumption DEF Init, PipelineInv, PendingOK, ProgressOK

\* A script that begins has all its files to write.
LEMMA PendingOfTuple ==
  ASSUME NEW outputs, NEW S, outputs \in Seq(S), Len(outputs) \in Nat,
         \A i \in 1 .. Len(outputs) :
           /\ outputs[i] = To(outputs[i].name, outputs[i].content)
           /\ ContentOK(outputs[i].name, outputs[i].content)
           /\ \A j \in 1 .. Len(outputs) : outputs[i].name = outputs[j].name => i = j,
         pending' = outputs
  PROVE  PendingOK'
  <1> DEFINE T == {outputs[i] : i \in 1 .. Len(outputs)}
  <1>1. outputs \in [1 .. Len(outputs) -> S]
    BY LenProperties
  <1>2. outputs \in Seq(T)
    <2>1. \A i \in 1 .. Len(outputs) : outputs[i] \in T
      OBVIOUS
    <2> HIDE DEF T
    <2>2. outputs \in [1 .. Len(outputs) -> T]
      BY <1>1, <2>1
    <2> QED
      BY <2>2, SeqDef
  <1> QED
    BY <1>2 DEF PendingOK, To, ContentOK, PredictionsOK, Files

\* Only the driver and the data change when one is started.
LEMMA StartInv ==
  ASSUME PipelineInv, Reproduce \/ Demo
  PROVE  PipelineInv'
  <1>1. pending = <<>> /\ pending' = <<>> /\ file' = file
    BY DEF PipelineInv, Reproduce, Demo, Start
  <1>2. data' \in Datasets /\ driver' \in {"reproduce", "demo"} /\ status' = "running"
    BY DEF PipelineInv, Reproduce, Demo, Start
  <1>3. runs' \in 0 .. MaxRuns
    BY PipelineAssumption DEF PipelineInv, Reproduce, Demo, Start
  <1>4. todo' = <<"build", Second', "schedule", "export">>
    BY DEF Reproduce, Demo, Start, Second
  <1>5. PendingOK'
    BY <1>1 DEF PipelineInv, PendingOK, ContentOK, PredictionsOK, To, Files
  <1>6. ProgressOK'
    <2>1. ~ Begun(1)' /\ ~ Begun(2)'
      BY <1>1, <1>4 DEF Begun
    <2> QED
      BY <1>2, <1>4, <2>1 DEF ProgressOK
  <1> QED
    BY <1>1, <1>2, <1>3, <1>4, <1>5, <1>6
       DEF PipelineInv, ContentOK, PredictionsOK, Files

\* build_thread_windows.py.
LEMMA BuildInv ==
  ASSUME PipelineInv, Build
  PROVE  PipelineInv'
  <1>1. /\ data' = data /\ file' = file /\ driver' = driver /\ todo' = todo
        /\ status' = status /\ runs' = runs /\ pending = <<>>
        /\ pending' = <<To("windows", Windows), To("windows_norm", NormWindows), To("norm_meta", Windows)>>
        /\ todo # <<>> /\ Head(todo) = "build" /\ status = "running"
    BY DEF Build, Begins, Writes, PipelineInv, NormWindows
  <1>2. todo = <<"build", Second, "schedule", "export">>
    BY <1>1 DEF PipelineInv, ProgressOK, Second
  <1>3. PendingOK'
    <2> DEFINE outputs == <<To("windows", Windows), To("windows_norm", NormWindows), To("norm_meta", Windows)>>
    <2>1. outputs \in Seq({outputs[1], outputs[2], outputs[3]}) /\ Len(outputs) = 3
      OBVIOUS
    <2>2. \A i \in 1 .. 3 :
            /\ outputs[i] = To(outputs[i].name, outputs[i].content)
            /\ ContentOK(outputs[i].name, outputs[i].content)
            /\ \A j \in 1 .. 3 : outputs[i].name = outputs[j].name => i = j
      BY DEF To, ContentOK, Files
    <2>3. pending' = outputs
      BY <1>1
    <2> HIDE DEF outputs
    <2> QED
      BY <2>1, <2>2, <2>3, PendingOfTuple
  <1>4. ProgressOK'
    <2>1. BuildDone'
      BY <1>1, SameData DEF BuildDone, Has, To
    <2>2. ~ Begun(2)'
      BY <1>1, <1>2 DEF Begun
    <2> QED
      BY <1>1, <1>2, <2>1, <2>2, SameData DEF ProgressOK, PipelineInv
  <1> QED
    BY <1>1, <1>3, <1>4 DEF PipelineInv, ContentOK, PredictionsOK, Files

\* train_thread_predictor.py.
LEMMA TrainInv ==
  ASSUME PipelineInv, Train
  PROVE  PipelineInv'
  <1>1. /\ data' = data /\ file' = file /\ driver' = driver /\ todo' = todo
        /\ status' = status /\ runs' = runs /\ pending = <<>>
        /\ todo # <<>> /\ Head(todo) = "train" /\ status = "running"
    BY DEF Train, Begins, Writes, PipelineInv
  <1>2. todo = <<"train", "schedule", "export">> /\ Second = "train" /\ driver = "reproduce"
    BY <1>1 DEF PipelineInv, ProgressOK, Second
  <1>3. BuildDone
    BY <1>1, <1>2 DEF PipelineInv, ProgressOK, Begun
  <1>4. file["windows_norm"] = NormWindows
    BY <1>1, <1>3, HasIsFile DEF BuildDone
  <1>5. PICK n \in HistLens :
          pending' = <<To("predictions", Predicted(n)), To("regression", Predicted(n)),
                       To("classification", Predicted(n)), To("confusion", Predicted(n)),
                       To("model", Model(n, Trained(n))),
                       To("model_full", Model(n, SequencesOf(NormWindows, n)))>>
    BY <1>2, <1>4 DEF Train, Writes, Predicted, Validated, Trained, Model
  <1> DEFINE outputs ==
        <<To("predictions", Predicted(n)), To("regression", Predicted(n)),
          To("classification", Predicted(n)), To("confusion", Predicted(n)),
          To("model", Model(n, Trained(n))), To("model_full", Model(n, SequencesOf(NormWindows, n)))>>
  <1>6. /\ Len(outputs) = 6 /\ pending' = outputs
        /\ outputs \in Seq({outputs[1], outputs[2], outputs[3], outputs[4], outputs[5], outputs[6]})
    BY <1>5
  <1>7. PendingOK'
    <2>1. Model(n, Trained(n)).hist \in HistLens
      BY DEF Model
    <2>2. \A i \in 1 .. 6 :
            /\ outputs[i] = To(outputs[i].name, outputs[i].content)
            /\ ContentOK(outputs[i].name, outputs[i].content)
            /\ \A j \in 1 .. 6 : outputs[i].name = outputs[j].name => i = j
      BY <2>1, PredictedOK DEF PipelineInv, To, ContentOK, Files
    <2> DEFINE parts == {outputs[1], outputs[2], outputs[3], outputs[4], outputs[5], outputs[6]}
    <2>3. outputs \in Seq(parts) /\ Len(outputs) = 6 /\ Len(outputs) \in Nat /\ pending' = outputs
      BY <1>6
    <2> HIDE DEF outputs, parts
    <2>4. \A i \in 1 .. Len(outputs) :
            /\ outputs[i] = To(outputs[i].name, outputs[i].content)
            /\ ContentOK(outputs[i].name, outputs[i].content)
            /\ \A j \in 1 .. Len(outputs) : outputs[i].name = outputs[j].name => i = j
      BY <2>2, <2>3
    <2> QED
      BY <2>3, <2>4, PendingOfTuple
  <1>8. BuildDone'
    <2>1. \A i \in 1 .. Len(pending') :
            pending'[i].name # "windows" /\ pending'[i].name # "windows_norm" /\ pending'[i].name # "norm_meta"
      BY <1>5 DEF To
    <2>2. Has("windows", Windows)' /\ Has("windows_norm", NormWindows)' /\ Has("norm_meta", Windows)'
      BY <1>1, <1>3, <2>1, HasIsFile, SameData DEF BuildDone, Has, Readable
    <2> QED
      BY <2>2 DEF BuildDone
  <1>9. PredictDone(n)'
    <2>1. Predicted(n)' = Predicted(n) /\ Trained(n)' = Trained(n)
          /\ SequencesOf(NormWindows, n)' = SequencesOf(NormWindows, n)
      BY <1>1, SameData
    <2>2. /\ \A i \in 1 .. 6 : i \in 1 .. Len(pending')
          /\ pending'[1] = To("predictions", Predicted(n)) /\ pending'[2] = To("regression", Predicted(n))
          /\ pending'[3] = To("classification", Predicted(n)) /\ pending'[4] = To("confusion", Predicted(n))
          /\ pending'[5] = To("model", Model(n, Trained(n)))
          /\ pending'[6] = To("model_full", Model(n, SequencesOf(NormWindows, n)))
      BY <1>5
    <2>3. /\ Has("predictions", Predicted(n))' /\ Has("regression", Predicted(n))'
          /\ Has("classification", Predicted(n))' /\ Has("confusion", Predicted(n))'
      BY <2>1, <2>2 DEF Has, To
    <2>4. ModelDone(n)'
      <3>1. Model(n, Trained(n))' = Model(n, Trained(n))
            /\ Model(n, SequencesOf(NormWindows, n))' = Model(n, SequencesOf(NormWindows, n))
        BY <2>1 DEF Model
      <3>2. Has("model", Model(n, Trained(n)))' /\ Has("model_full", Model(n, SequencesOf(NormWindows, n)))'
        BY <2>2, <3>1 DEF Has, To
      <3> QED
        BY <1>1, <1>2, <3>2 DEF ModelDone
    <2> QED
      BY <2>3, <2>4 DEF PredictDone
  <1>10. ProgressOK'
    <2>1. ~ Begun(3)' /\ ~ Begun(4)'
      BY <1>1, <1>2 DEF Begun
    <2> QED
      BY <1>1, <1>2, <1>8, <1>9, <2>1, SameData DEF ProgressOK
  <1> QED
    BY <1>1, <1>7, <1>10 DEF PipelineInv, ContentOK, PredictionsOK, Files

\* predict_thread_windows.py, with whichever model is there.
LEMMA PredictInv ==
  ASSUME PipelineInv, Predict
  PROVE  PipelineInv'
  <1>1. /\ data' = data /\ file' = file /\ driver' = driver /\ todo' = todo
        /\ status' = status /\ runs' = runs /\ pending = <<>>
        /\ todo # <<>> /\ Head(todo) = "predict" /\ status = "running" /\ Readable("model")
    BY DEF Predict, Begins, Writes, PipelineInv
  <1>2. todo = <<"predict", "schedule", "export">> /\ Second = "predict" /\ driver # "reproduce"
    BY <1>1 DEF PipelineInv, ProgressOK, Second
  <1>3. BuildDone
    BY <1>1, <1>2 DEF PipelineInv, ProgressOK, Begun
  <1>4. file["windows_norm"] = NormWindows
    BY <1>1, <1>3, HasIsFile DEF BuildDone
  <1>5. PICK n \in HistLens : n = file["model"].hist
    BY <1>1 DEF PipelineInv, ContentOK, Readable
  <1> DEFINE outputs ==
        <<To("predictions", Predicted(n)), To("regression", Predicted(n)),
          To("classification", Predicted(n)), To("confusion", Predicted(n))>>
  <1>6. /\ Len(outputs) = 4 /\ pending' = outputs
        /\ outputs \in Seq({outputs[1], outputs[2], outputs[3], outputs[4]})
    BY <1>2, <1>4, <1>5 DEF Predict, Writes, Predicted
  <1>7. PendingOK'
    <2>2. \A i \in 1 .. 4 :
            /\ outputs[i] = To(outputs[i].name, outputs[i].content)
            /\ ContentOK(outputs[i].name, outputs[i].content)
            /\ \A j \in 1 .. 4 : outputs[i].name = outputs[j].name => i = j
      BY PredictedOK DEF PipelineInv, To, ContentOK, Files
    <2> HIDE DEF outputs
    <2> QED
      BY <1>6, <2>2, PendingOfTuple
  <1>8. BuildDone'
    <2>1. \A i \in 1 .. Len(pending') :
            pending'[i].name # "windows" /\ pending'[i].name # "windows_norm" /\ pending'[i].name # "norm_meta"
      BY <1>6 DEF To
    <2>2. Has("windows", Windows)' /\ Has("windows_norm", NormWindows)' /\ Has("norm_meta", Windows)'
      BY <1>1, <1>3, <2>1, HasIsFile, SameData DEF BuildDone, Has, Readable
    <2> QED
      BY <2>2 DEF BuildDone
  <1>9. PredictDone(n)'
    <2>1. Predicted(n)' = Predicted(n)
      BY <1>1, SameData
    <2>2. /\ \A i \in 1 .. 4 : i \in 1 .. Len(pending')
          /\ pending'[1] = To("predictions", Predicted(n)) /\ pending'[2] = To("regression", Predicted(n))
          /\ pending'[3] = To("classification", Predicted(n)) /\ pending'[4] = To("confusion", Predicted(n))
      BY <1>6
    <2>3. /\ Has("predictions", Predicted(n))' /\ Has("regression", Predicted(n))'
          /\ Has("classification", Predicted(n))' /\ Has("confusion", Predicted(n))'
      BY <2>1, <2>2 DEF Has, To
    <2>4. ModelDone(n)'
      BY <1>1, <1>2, <1>5, <1>6 DEF ModelDone, Readable, To
    <2> QED
      BY <2>3, <2>4 DEF PredictDone
  <1>10. ProgressOK'
    <2>1. ~ Begun(3)' /\ ~ Begun(4)'
      BY <1>1, <1>2 DEF Begun
    <2> QED
      BY <1>1, <1>2, <1>8, <1>9, <2>1, SameData DEF ProgressOK, PipelineInv
  <1> QED
    BY <1>1, <1>7, <1>10 DEF PipelineInv, ContentOK, PredictionsOK, Files

\* What was done before stays done when a later script begins.
LEMMA DoneKeptByOther ==
  ASSUME pending = <<>>, file' = file, data' = data, driver' = driver, NEW n,
         \A i \in 1 .. Len(pending') :
           pending'[i].name \notin {"windows", "windows_norm", "norm_meta", "predictions", "regression",
                                    "classification", "confusion", "model", "model_full"}
  PROVE  /\ BuildDone => BuildDone'
         /\ PredictDone(n) => PredictDone(n)'
  <1>1. ASSUME NEW name \in {"windows", "windows_norm", "norm_meta", "predictions", "regression",
                             "classification", "confusion", "model", "model_full"},
               NEW content, Has(name, content)
        PROVE  Has(name, content)'
    BY <1>1, HasIsFile DEF Has, Readable
  <1>2. /\ Windows' = Windows /\ NormWindows' = NormWindows /\ Predicted(n)' = Predicted(n) /\ Trained(n)' = Trained(n)
        /\ SequencesOf(NormWindows, n)' = SequencesOf(NormWindows, n)
    BY SameData
  <1>3. BuildDone => BuildDone'
    <2> SUFFICES ASSUME BuildDone PROVE BuildDone'
      OBVIOUS
    <2>1. Has("windows", Windows)' /\ Has("windows_norm", NormWindows)' /\ Has("norm_meta", Windows)'
      BY <1>1, <1>2 DEF BuildDone, Has
    <2> QED
      BY <2>1 DEF BuildDone
  <1>4. PredictDone(n) => PredictDone(n)'
    <2> SUFFICES ASSUME PredictDone(n) PROVE PredictDone(n)'
      OBVIOUS
    <2>1. /\ Has("predictions", Predicted(n))' /\ Has("regression", Predicted(n))'
          /\ Has("classification", Predicted(n))' /\ Has("confusion", Predicted(n))'
      BY <1>1, <1>2 DEF PredictDone, Has
    <2>2. ModelDone(n)'
      <3>1. CASE driver = "reproduce"
        <4>1. Has("model", Model(n, Trained(n))) /\ Has("model_full", Model(n, SequencesOf(NormWindows, n)))
          BY <3>1 DEF PredictDone, ModelDone
        <4>2. Model(n, Trained(n))' = Model(n, Trained(n))
              /\ Model(n, SequencesOf(NormWindows, n))' = Model(n, SequencesOf(NormWindows, n))
          BY <1>2 DEF Model
        <4>3. Has("model", Model(n, Trained(n)))' /\ Has("model_full", Model(n, SequencesOf(NormWindows, n)))'
          BY <1>1, <4>1, <4>2 DEF Has
        <4> QED
          BY <3>1, <4>3 DEF ModelDone
      <3>2. CASE driver # "reproduce"
        BY <3>2 DEF PredictDone, ModelDone, Readable
      <3> QED
        BY <3>1, <3>2
    <2> QED
      BY <2>1, <2>2 DEF PredictDone
  <1> QED
    BY <1>3, <1>4

\* offline_magm_scheduler.py.
LEMMA ScheduleInv ==
  ASSUME PipelineInv, ScheduleWindows
  PROVE  PipelineInv'
  <1>1. /\ data' = data /\ file' = file /\ driver' = driver /\ todo' = todo
        /\ status' = status /\ runs' = runs /\ pending = <<>>
        /\ todo # <<>> /\ Head(todo) = "schedule" /\ status = "running"
    BY DEF ScheduleWindows, Begins, Writes, PipelineInv
  <1>2. todo = <<"schedule", "export">> /\ driver \in {"reproduce", "demo"}
    BY <1>1 DEF PipelineInv, ProgressOK, Second
  <1>3. BuildDone /\ \E n \in HistLens : PredictDone(n)
    BY <1>1, <1>2 DEF PipelineInv, ProgressOK, Begun
  <1>4. PICK n \in HistLens : PredictDone(n)
    BY <1>3
  <1>5. file["predictions"] = Predicted(n)
    BY <1>1, <1>4, HasIsFile DEF PredictDone
  <1> DEFINE outputs ==
        <<To("schedule", Schedule(Predicted(n))), To("window_summary", Groups(Predicted(n)))>>
  <1>6. Len(outputs) = 2 /\ pending' = outputs /\ outputs \in Seq({outputs[1], outputs[2]})
    BY <1>5 DEF ScheduleWindows, Writes, Groups
  <1>7. PendingOK'
    <2>1. \A i \in 1 .. 2 :
            /\ outputs[i] = To(outputs[i].name, outputs[i].content)
            /\ ContentOK(outputs[i].name, outputs[i].content)
            /\ \A j \in 1 .. 2 : outputs[i].name = outputs[j].name => i = j
      BY DEF To, ContentOK, Files
    <2> HIDE DEF outputs
    <2> QED
      BY <1>6, <2>1, PendingOfTuple
  <1>8. BuildDone' /\ PredictDone(n)'
    <2>1. \A i \in 1 .. Len(pending') :
            pending'[i].name \notin {"windows", "windows_norm", "norm_meta", "predictions", "regression",
                                     "classification", "confusion", "model", "model_full"}
      BY <1>6 DEF To
    <2> QED
      BY <1>1, <1>3, <1>4, <2>1, DoneKeptByOther
  <1>9. ScheduleDone(n)'
    <2>1. Predicted(n)' = Predicted(n)
      BY <1>1, SameData
    <2>2. /\ 1 \in 1 .. Len(pending') /\ 2 \in 1 .. Len(pending')
          /\ pending'[1] = To("schedule", Schedule(Predicted(n)))
          /\ pending'[2] = To("window_summary", Groups(Predicted(n)))
      BY <1>6
    <2> QED
      BY <2>1, <2>2 DEF ScheduleDone, Has, To
  <1>10. ProgressOK'
    <2>1. ~ Begun(4)'
      BY <1>1, <1>2 DEF Begun
    <2> QED
      BY <1>1, <1>2, <1>8, <1>9, <2>1 DEF ProgressOK
  <1> QED
    BY <1>1, <1>7, <1>10 DEF PipelineInv, ContentOK, PredictionsOK, Files

\* export_cpu_selection.py.
LEMMA ExportInv ==
  ASSUME PipelineInv, Export
  PROVE  PipelineInv'
  <1>1. /\ data' = data /\ file' = file /\ driver' = driver /\ todo' = todo
        /\ status' = status /\ runs' = runs /\ pending = <<>>
        /\ todo # <<>> /\ Head(todo) = "export" /\ status = "running"
    BY DEF Export, Begins, Writes, PipelineInv
  <1>2. todo = <<"export">> /\ driver \in {"reproduce", "demo"}
    BY <1>1 DEF PipelineInv, ProgressOK, Second
  <1>3. BuildDone /\ \E n \in HistLens : PredictDone(n) /\ ScheduleDone(n)
    BY <1>1, <1>2 DEF PipelineInv, ProgressOK, Begun
  <1>4. PICK n \in HistLens : PredictDone(n) /\ ScheduleDone(n)
    BY <1>3
  <1> DEFINE selection == Schedule(Predicted(n))
  <1> DEFINE loads == {r.load : r \in selection}
  <1>5. file["schedule"] = selection
    BY <1>1, <1>4, HasIsFile DEF ScheduleDone
  <1> DEFINE outputs ==
        <<To("selection", selection), To("pairs", Pairs(selection)), To("final", FinalView(selection)),
          To("selection_summary", loads)>>
  <1>6. /\ Len(outputs) = 4 /\ pending' = outputs
        /\ outputs \in Seq({outputs[1], outputs[2], outputs[3], outputs[4]})
    BY <1>5 DEF Export, Writes
  <1>7. PendingOK'
    <2> HIDE DEF selection, loads
    <2>1. \A i \in 1 .. 4 :
            /\ outputs[i] = To(outputs[i].name, outputs[i].content)
            /\ ContentOK(outputs[i].name, outputs[i].content)
            /\ \A j \in 1 .. 4 : outputs[i].name = outputs[j].name => i = j
      BY DEF To, ContentOK, Files
    <2> HIDE DEF outputs
    <2> QED
      BY <1>6, <2>1, PendingOfTuple
  <1>8. BuildDone' /\ PredictDone(n)'
    <2>1. \A i \in 1 .. Len(pending') :
            pending'[i].name \notin {"windows", "windows_norm", "norm_meta", "predictions", "regression",
                                     "classification", "confusion", "model", "model_full"}
      BY <1>6 DEF To
    <2> QED
      BY <1>1, <1>3, <1>4, <2>1, DoneKeptByOther
  <1>9. Predicted(n)' = Predicted(n)
    BY <1>1, SameData
  <1>10. ScheduleDone(n)'
    <2>1. \A i \in 1 .. Len(pending') :
            pending'[i].name # "schedule" /\ pending'[i].name # "window_summary"
      BY <1>6 DEF To
    <2> QED
      BY <1>1, <1>4, <1>9, <2>1, HasIsFile DEF ScheduleDone, Has, Readable
  <1>11. ExportDone(n)'
    <2>1. /\ \A i \in 1 .. 4 : i \in 1 .. Len(pending')
          /\ pending'[1] = To("selection", selection) /\ pending'[2] = To("pairs", Pairs(selection))
          /\ pending'[3] = To("final", FinalView(selection))
          /\ pending'[4] = To("selection_summary", loads)
      BY <1>6
    <2>2. selection' = selection /\ loads' = loads
      BY <1>9
    <2> HIDE DEF selection, loads
    <2>3. Has("selection", selection)'
      BY <2>1, <2>2 DEF Has, To
    <2>4. Has("pairs", Pairs(selection))'
      BY <2>1, <2>2 DEF Has, To
    <2>5. Has("final", FinalView(selection))'
      BY <2>1, <2>2 DEF Has, To
    <2>6. Has("selection_summary", loads)'
      BY <2>1, <2>2 DEF Has, To
    <2> QED
      BY <2>3, <2>4, <2>5, <2>6 DEF ExportDone, selection, loads
  <1>12. ProgressOK'
    BY <1>1, <1>2, <1>8, <1>10, <1>11 DEF ProgressOK
  <1> QED
    BY <1>1, <1>7, <1>12 DEF PipelineInv, ContentOK, PredictionsOK, Files

\* The next file, and with the last one the script.
LEMMA WriteInv ==
  ASSUME PipelineInv, Write
  PROVE  PipelineInv'
  <1>1. /\ data' = data /\ driver' = driver /\ runs' = runs /\ status = "running"
        /\ todo # <<>> /\ pending # <<>> /\ pending' = Tail(pending)
        /\ todo' = (IF pending' = <<>> THEN Tail(todo) ELSE todo)
        /\ status' = IF todo' = <<>> THEN "ok" ELSE status
    BY DEF Write, PipelineInv
  <1>2. /\ Len(pending) \in Nat \ {0} /\ Head(pending) = pending[1]
        /\ PendingOK'
    BY <1>1, HeadWritten DEF PipelineInv
  <1>3. /\ file' = [f \in DOMAIN file' |-> file'[f]]
        /\ \A f \in DOMAIN file' : ContentOK(f, file'[f])
    <2>1. file' = [f \in DOMAIN file \cup {pending[1].name} |->
                    IF f = pending[1].name THEN pending[1].content ELSE file[f]]
      BY <1>2 DEF Write
    <2>2. ContentOK(pending[1].name, pending[1].content)
      BY <1>2 DEF PipelineInv, PendingOK
    <2>3. \A f \in DOMAIN file : ContentOK(f, file[f])
      BY DEF PipelineInv
    <2> QED
      BY <2>1, <2>2, <2>3
  <1>4. driver \in {"reproduce", "demo"} /\ Second' = Second
        /\ todo \in {<<"build", Second, "schedule", "export">>, <<Second, "schedule", "export">>,
                     <<"schedule", "export">>, <<"export">>, <<>>}
    BY <1>1 DEF PipelineInv, ProgressOK, Second
  <1>5. todo' \in {<<"build", Second, "schedule", "export">>, <<Second, "schedule", "export">>,
                   <<"schedule", "export">>, <<"export">>, <<>>}
    <2>1. CASE todo = <<"build", Second, "schedule", "export">>
      BY <1>1, <2>1
    <2>2. CASE todo = <<Second, "schedule", "export">>
      BY <1>1, <2>2
    <2>3. CASE todo = <<"schedule", "export">>
      BY <1>1, <2>3
    <2>4. CASE todo = <<"export">>
      BY <1>1, <2>4
    <2> QED
      BY <1>1, <1>4, <2>1, <2>2, <2>3, <2>4
  <1>6. \A name, content : Has(name, content) => Has(name, content)'
    BY HasKeptByWrite
  <1>7. Windows' = Windows /\ NormWindows' = NormWindows
        /\ \A n : /\ Predicted(n)' = Predicted(n) /\ Trained(n)' = Trained(n)
                  /\ SequencesOf(NormWindows, n)' = SequencesOf(NormWindows, n)
    BY <1>1, SameData
  <1>8. BuildDone => BuildDone'
    BY <1>6, <1>7 DEF BuildDone
  <1>9. ASSUME NEW n \in HistLens, PredictDone(n) PROVE PredictDone(n)'
    <2>1. /\ Has("predictions", Predicted(n))' /\ Has("regression", Predicted(n))'
          /\ Has("classification", Predicted(n))' /\ Has("confusion", Predicted(n))'
      BY <1>6, <1>7, <1>9 DEF PredictDone
    <2>2. CASE driver = "reproduce"
      <3>1. Has("model", Model(n, Trained(n)))' /\ Has("model_full", Model(n, SequencesOf(NormWindows, n)))'
        <4>1. Has("model", Model(n, Trained(n))) /\ Has("model_full", Model(n, SequencesOf(NormWindows, n)))
          BY <1>9, <2>2 DEF PredictDone, ModelDone
        <4>2. Model(n, Trained(n))' = Model(n, Trained(n))
              /\ Model(n, SequencesOf(NormWindows, n))' = Model(n, SequencesOf(NormWindows, n))
          BY <1>7 DEF Model
        <4> QED
          BY <1>6, <4>1, <4>2
      <3> QED
        BY <1>1, <2>1, <2>2, <3>1 DEF PredictDone, ModelDone
    <2>3. CASE driver # "reproduce"
      <3>1. /\ Readable("model") /\ file["model"].hist = n
            /\ \A i \in 1 .. Len(pending) : pending[i].name # "model"
        BY <1>9, <2>3 DEF PredictDone, ModelDone
      <3>2. Has("model", file["model"])
        BY <3>1 DEF Has
      <3>3. /\ Readable("model")' /\ file'["model"].hist = n
            /\ \A i \in 1 .. Len(pending') : pending'[i].name # "model"
        <4>1. pending[1].name # "model"
          BY <1>2, <3>1
        <4>2. Readable("model")' /\ file'["model"] = file["model"]
          BY <1>2, <3>1, <4>1 DEF Write, Readable
        <4>3. \A i \in 1 .. Len(pending') : i + 1 \in 1 .. Len(pending) /\ pending'[i] = pending[i + 1]
          BY <1>1, HeadWritten DEF PipelineInv
        <4> QED
          BY <3>1, <4>2, <4>3
      <3> QED
        BY <1>1, <2>1, <2>3, <3>3 DEF PredictDone, ModelDone
    <2> QED
      BY <2>2, <2>3
  <1>10. ASSUME NEW n \in HistLens, ScheduleDone(n) PROVE ScheduleDone(n)'
    BY <1>6, <1>7, <1>10 DEF ScheduleDone
  <1>11. ASSUME NEW n \in HistLens, ExportDone(n) PROVE ExportDone(n)'
    <2> DEFINE selection == Schedule(Predicted(n))
    <2> DEFINE loads == {r.load : r \in selection}
    <2>1. /\ Has("selection", selection) /\ Has("pairs", Pairs(selection))
          /\ Has("final", FinalView(selection)) /\ Has("selection_summary", loads)
      BY <1>11 DEF ExportDone
    <2>2. selection' = selection /\ loads' = loads
      BY <1>7
    <2>3. /\ Has("selection", selection)' /\ Has("pairs", Pairs(selection))'
          /\ Has("final", FinalView(selection))' /\ Has("selection_summary", loads)'
      <3> HIDE DEF selection, loads
      <3> QED
        BY <1>6, <2>1, <2>2
    <2> QED
      BY <2>3 DEF ExportDone
  <1>12. \A k \in 1 .. 4 : Begun(k)' <=> Begun(k)
    BY BegunKept
  <1>13. ProgressOK'
    <2>1. /\ Begun(1) => BuildDone
          /\ Begun(2) =>
               \E n \in HistLens :
                 PredictDone(n) /\ (Begun(3) => ScheduleDone(n)) /\ (Begun(4) => ExportDone(n))
      BY <1>1 DEF PipelineInv, ProgressOK
    <2>2. Begun(1)' => BuildDone'
      BY <1>8, <1>12, <2>1
    <2>3. ASSUME Begun(2)'
          PROVE  \E n \in HistLens :
                   PredictDone(n)' /\ (Begun(3)' => ScheduleDone(n)') /\ (Begun(4)' => ExportDone(n)')
      <3>1. PICK n \in HistLens :
              PredictDone(n) /\ (Begun(3) => ScheduleDone(n)) /\ (Begun(4) => ExportDone(n))
        BY <1>12, <2>1, <2>3
      <3>2. PredictDone(n)' /\ (Begun(3)' => ScheduleDone(n)') /\ (Begun(4)' => ExportDone(n)')
        BY <1>9, <1>10, <1>11, <1>12, <3>1
      <3> QED
        BY <3>2
    <2> QED
      BY <1>1, <1>4, <1>5, <2>2, <2>3 DEF ProgressOK
  <1>14. status' \in {"running", "ok"} /\ (status' = "running") = (todo' # <<>>)
         /\ (pending' # <<>> => todo' # <<>>)
    BY <1>1
  <1> QED
    BY <1>1, <1>2, <1>3, <1>13, <1>14 DEF PipelineInv

\* set -e.
LEMMA FailInv ==
  ASSUME PipelineInv, Fail
  PROVE  PipelineInv'
  <1>1. /\ data' = data /\ driver' = driver /\ runs' = runs
        /\ todo' = <<>> /\ status' = "failed" /\ pending' = <<>>
    BY DEF Fail, AfterFailure
  <1>2. PendingOK'
    BY <1>1 DEF PendingOK
  <1>3. /\ file' = [f \in DOMAIN file' |-> file'[f]]
        /\ \A f \in DOMAIN file' : ContentOK(f, file'[f])
    <2>1. CASE file' = file
      <3>1. file = [f \in DOMAIN file |-> file[f]] /\ \A f \in DOMAIN file : ContentOK(f, file[f])
        BY DEF PipelineInv
      <3> QED
        BY <2>1, <3>1
    <2>2. CASE file' = [f \in DOMAIN file \ {Head(pending).name} |-> file[f]]
      <3>1. \A f \in DOMAIN file : ContentOK(f, file[f])
        BY DEF PipelineInv
      <3> QED
        BY <2>2, <3>1
    <2> QED
      BY <2>1, <2>2 DEF Fail
  <1> QED
    BY <1>1, <1>2, <1>3 DEF PipelineInv, ProgressOK

\* Nothing is done and nothing undone when nothing changes.
LEMMA SameProgress ==
  ASSUME UNCHANGED vars, ProgressOK
  PROVE  ProgressOK'
  <1>1. /\ data' = data /\ file' = file /\ driver' = driver /\ todo' = todo
        /\ pending' = pending /\ status' = status
    BY DEF vars
  <1>2. /\ Windows' = Windows /\ NormWindows' = NormWindows /\ Second' = Second
        /\ \A n : /\ Predicted(n)' = Predicted(n) /\ Trained(n)' = Trained(n)
                  /\ SequencesOf(NormWindows, n)' = SequencesOf(NormWindows, n)
    BY <1>1, SameData
  <1>3. \A name, content : Has(name, content)' <=> Has(name, content)
    BY <1>1 DEF Has, Readable
  <1>4. \A k : Begun(k)' <=> Begun(k)
    BY <1>1 DEF Begun
  <1>5. BuildDone' <=> BuildDone
    BY <1>2, <1>3 DEF BuildDone
  <1>6. \A n : Schedule(Predicted(n))' = Schedule(Predicted(n)) /\ Groups(Predicted(n))' = Groups(Predicted(n))
    BY <1>2 DEF Groups
  <1>7. \A n : ScheduleDone(n)' <=> ScheduleDone(n)
    BY <1>2, <1>3, <1>6 DEF ScheduleDone
  <1>8. \A n : ModelDone(n)' <=> ModelDone(n)
    BY <1>1, <1>2, <1>3 DEF ModelDone, Model, Readable
  <1>9. \A n : PredictDone(n)' <=> PredictDone(n)
    BY <1>2, <1>3, <1>8 DEF PredictDone
  <1>10. \A n : ExportDone(n)' <=> ExportDone(n)
    BY <1>2, <1>3, <1>6 DEF ExportDone
  <1> QED
    BY <1>1, <1>2, <1>4, <1>5, <1>7, <1>9, <1>10 DEF ProgressOK

LEMMA PipelineStep == PipelineInv /\ [Next]_vars => PipelineInv'
  <1> SUFFICES ASSUME PipelineInv, [Next]_vars PROVE PipelineInv'
    OBVIOUS
  <1>1. CASE Reproduce \/ Demo
    BY <1>1, StartInv
  <1>2. CASE Build
    BY <1>2, BuildInv
  <1>3. CASE Train
    BY <1>3, TrainInv
  <1>4. CASE Predict
    BY <1>4, PredictInv
  <1>5. CASE ScheduleWindows
    BY <1>5, ScheduleInv
  <1>6. CASE Export
    BY <1>6, ExportInv
  <1>7. CASE Write
    BY <1>7, WriteInv
  <1>8. CASE Fail
    BY <1>8, FailInv
  <1>9. CASE UNCHANGED vars
    <2>1. /\ data' = data /\ file' = file /\ driver' = driver /\ todo' = todo
          /\ pending' = pending /\ status' = status /\ runs' = runs
      BY <1>9 DEF vars
    <2>2. PendingOK'
      BY <2>1 DEF PipelineInv, PendingOK
    <2>3. ProgressOK'
      BY <1>9, SameProgress DEF PipelineInv
    <2> QED
      BY <2>1, <2>2, <2>3 DEF PipelineInv, ContentOK, PredictionsOK, Files
  <1> QED
    BY <1>1, <1>2, <1>3, <1>4, <1>5, <1>6, <1>7, <1>8, <1>9 DEF Next

LEMMA PipelineInvHolds == Spec => []PipelineInv
  BY InitInv, PipelineStep, PTL DEF Spec

-----------------------------------------------------------------------------
(* What the invariant says of a driver that did not fail. *)

LEMMA Finished ==
  ASSUME PipelineInv, status = "ok"
  PROVE  /\ pending = <<>> /\ driver \in {"reproduce", "demo"} /\ BuildDone
         /\ \E n \in HistLens : PredictDone(n) /\ ScheduleDone(n) /\ ExportDone(n)
  <1>1. todo = <<>> /\ pending = <<>>
    BY DEF PipelineInv
  <1>2. Begun(1) /\ Begun(2) /\ Begun(3) /\ Begun(4)
    BY <1>1 DEF Begun
  <1> QED
    BY <1>1, <1>2 DEF PipelineInv, ProgressOK

LEMMA TypeImplied == PipelineInv => PipelineTypeOK
  <1> SUFFICES ASSUME PipelineInv PROVE PipelineTypeOK
    OBVIOUS
  <1>1. DOMAIN file \subseteq Files
    BY DEF PipelineInv, ContentOK
  <1>2. /\ Readable("predictions") => \A p \in file["predictions"] : p.key \in Keys /\ p.win \in Nat
        /\ Readable("model") => file["model"].hist \in HistLens
    BY DEF PipelineInv, ContentOK, PredictionsOK, Readable
  <1>3. \A i \in 1 .. Len(pending) : pending[i].name \in Files
    BY DEF PipelineInv, PendingOK, ContentOK
  <1>4. ASSUME status = "ok", NEW f \in Files
        PROVE  Readable(f) \/ (driver = "demo" /\ f = "model_full")
    <2>1. pending = <<>> /\ driver \in {"reproduce", "demo"} /\ BuildDone
      BY <1>4, Finished
    <2>2. PICK n \in HistLens : PredictDone(n) /\ ScheduleDone(n) /\ ExportDone(n)
      BY <1>4, Finished
    <2>3. \A name, content : Has(name, content) => Readable(name)
      BY <2>1, HasIsFile
    <2>4. Readable("windows") /\ Readable("windows_norm") /\ Readable("norm_meta")
      BY <2>1, <2>3 DEF BuildDone
    <2>5. /\ Readable("predictions") /\ Readable("regression") /\ Readable("classification")
          /\ Readable("confusion")
      BY <2>2, <2>3 DEF PredictDone
    <2>6. Readable("model") /\ (driver = "reproduce" => Readable("model_full"))
      BY <2>2, <2>3 DEF PredictDone, ModelDone
    <2>7. Readable("schedule") /\ Readable("window_summary")
      BY <2>2, <2>3 DEF ScheduleDone
    <2>8. Readable("selection") /\ Readable("pairs") /\ Readable("final") /\ Readable("selection_summary")
      BY <2>2, <2>3 DEF ExportDone
    <2> QED
      BY <2>1, <2>4, <2>5, <2>6, <2>7, <2>8 DEF Files
  <1> QED
    BY <1>1, <1>2, <1>3, <1>4 DEF PipelineInv, PipelineTypeOK

\* The files of a driver that did not fail.
LEMMA FinishedFiles ==
  ASSUME PipelineInv, status = "ok"
  PROVE  \E n \in HistLens :
           /\ n \in Nat \ {0}
           /\ file["predictions"] = Predicted(n)
           /\ file["model"].hist = n
           /\ driver = "reproduce" => file["model"].trained = {Prediction(s) : s \in Trained(n)}
           /\ file["selection"] = Schedule(Predicted(n))
           /\ file["pairs"] = Pairs(Schedule(Predicted(n)))
           /\ file["final"] = FinalView(Schedule(Predicted(n)))
  <1>1. pending = <<>>
    BY Finished
  <1>2. PICK n \in HistLens : PredictDone(n) /\ ScheduleDone(n) /\ ExportDone(n)
    BY Finished
  <1>3. \A name, content : Has(name, content) => file[name] = content
    BY <1>1, HasIsFile
  <1>4. file["predictions"] = Predicted(n)
    BY <1>2, <1>3 DEF PredictDone
  <1>5. /\ file["model"].hist = n
        /\ driver = "reproduce" => file["model"].trained = {Prediction(s) : s \in Trained(n)}
    <2>1. CASE driver = "reproduce"
      <3>1. file["model"] = Model(n, Trained(n))
        BY <1>2, <1>3, <2>1 DEF PredictDone, ModelDone
      <3> QED
        BY <3>1 DEF Model
    <2>2. CASE driver # "reproduce"
      BY <1>2, <2>2 DEF PredictDone, ModelDone
    <2> QED
      BY <2>1, <2>2
  <1>6. /\ file["selection"] = Schedule(Predicted(n))
        /\ file["pairs"] = Pairs(Schedule(Predicted(n)))
        /\ file["final"] = FinalView(Schedule(Predicted(n)))
    BY <1>2, <1>3 DEF ExportDone
  <1>7. n \in Nat \ {0}
    BY PipelineAssumption
  <1> QED
    BY <1>4, <1>5, <1>6, <1>7

\* Of one thread, what is predicted is later than what was trained on.
LEMMA TrainedBefore ==
  ASSUME data \in Datasets, driver = "reproduce", NEW n \in Nat \ {0},
         NEW p \in Predicted(n), NEW q \in Trained(n), q.key = p.key
  PROVE  q.win < p.win
  <1>1. q \in SequencesOf(NormWindows, n) /\ InTraining(q)
    BY DEF Trained
  <1>2. PICK k \in Keys : \E w \in Seen(k) :
          q = Sequence(NormWindow(k, w), Seen(k), n) /\ Position(Seen(k), w) >= n
    BY <1>1, SequencesAre
  <1>3. PICK w \in Seen(k) :
          q = Sequence(NormWindow(k, w), Seen(k), n) /\ Position(Seen(k), w) >= n
    BY <1>2
  <1>4. q.key = k /\ q.win = w
    BY <1>3 DEF Sequence, NormWindow
  <1> DEFINE wins == Seen(k)
  <1> DEFINE v == p.win
  <1>5. wins \in SUBSET Nat /\ IsFiniteSet(wins) /\ Cardinality(wins) \in Nat
    BY SeenFinite, FS_CardinalityType
  <1>6. ~ (10 * Cardinality(Later(k, w)) <= Cardinality(wins) - 1)
    BY <1>1, <1>3, SplitIsLastTenth
  <1>7. v \in wins /\ 10 * Cardinality(Later(k, v)) <= Cardinality(wins) - 1
    BY <1>4, PredictedAre DEF Foreseen
  <1>8. /\ Cardinality(Later(k, w)) = Cardinality(wins) - 1 - Position(wins, w)
        /\ Cardinality(Later(k, v)) = Cardinality(wins) - 1 - Position(wins, v)
    BY <1>5, <1>7, LaterCount DEF Later
  <1>9. Position(wins, w) \in Nat /\ Position(wins, v) \in Nat
    BY <1>5, PositionType
  <1>10. Position(wins, w) < Position(wins, v)
    <2> HIDE DEF wins, v
    <2> QED
      BY <1>5, <1>6, <1>7, <1>8, <1>9
  <1>11. w < v
    <2> HIDE DEF v
    <2> QED
      BY <1>5, <1>7, <1>10, PositionMonotonic
  <1> QED
    BY <1>4, <1>11

LEMMA HistoryImplied == PipelineInv => HistoryIsPast
  <1> SUFFICES ASSUME PipelineInv PROVE HistoryIsPast
    OBVIOUS
  <1>1. Readable("predictions") => \A p \in file["predictions"] : \A v \in p.hist : v < p.win
    BY DEF PipelineInv, ContentOK, PredictionsOK, Readable
  <1>2. ASSUME status = "ok", NEW p \in file["predictions"]
        PROVE  /\ p.hist \subseteq Earlier(p.key, p.win)
               /\ Cardinality(p.hist) = file["model"].hist
               /\ \A v \in Earlier(p.key, p.win) \ p.hist : \A u \in p.hist : v < u
               /\ p.scale = AllSeen
    <2>1. PICK n \in Nat \ {0} : file["predictions"] = Predicted(n) /\ file["model"].hist = n
      BY <1>2, FinishedFiles
    <2> DEFINE wins == Seen(p.key)
    <2> DEFINE w == p.win
    <2> DEFINE hist == p.hist
    <2>2. /\ Foreseen(p.key, w, n) /\ hist = History(wins, Position(wins, w), n)
          /\ p.scale = Windows
      BY <1>2, <2>1, PredictedAre DEF PipelineInv
    <2>6. p.scale = AllSeen
      BY <2>2, WindowsOfThread DEF PipelineInv
    <2>3. wins \in SUBSET Nat /\ IsFiniteSet(wins)
      BY SeenFinite DEF PipelineInv
    <2>4. w \in wins /\ n <= Position(wins, w)
      BY <2>2, <2>3, PositionType DEF Foreseen
    <2>5. /\ hist \subseteq {v \in wins : v < w}
          /\ Cardinality(hist) = n
          /\ \A v \in wins : v < w /\ v \notin hist => \A u \in hist : v < u
      <3> HIDE DEF wins, w, hist
      <3> QED
        BY <2>2, <2>3, <2>4, HistoryIsLast
    <2> QED
      BY <2>1, <2>5, <2>6 DEF Earlier
  <1>3. ASSUME status = "ok", driver = "reproduce",
               NEW p \in file["predictions"], NEW s \in file["model"].trained
        PROVE  /\ s.key = p.key => s.win < p.win
               /\ s.scale = p.scale
    <2>1. PICK n \in Nat \ {0} :
            /\ file["predictions"] = Predicted(n)
            /\ file["model"].trained = {Prediction(q) : q \in Trained(n)}
      BY <1>3, FinishedFiles
    <2>2. PICK q \in Trained(n) : s = Prediction(q)
      BY <2>1
    <2>3. s.key = q.key /\ s.win = q.win /\ s.scale = q.scale
      BY <2>2 DEF Prediction
    <2>4. s.key = p.key => s.win < p.win
      BY <1>3, <2>1, <2>2, <2>3, TrainedBefore DEF PipelineInv
    <2>5. q.scale = Windows
      <3>1. q \in SequencesOf(NormWindows, n)
        BY DEF Trained
      <3>2. PICK k \in Keys : \E w \in Seen(k) : q = Sequence(NormWindow(k, w), Seen(k), n)
        BY <3>1, SequencesAre DEF PipelineInv
      <3> QED
        BY <3>2 DEF Sequence, NormWindow
    <2>6. p.scale = Windows
      BY <1>3, <2>1, PredictedAre DEF PipelineInv
    <2> QED
      BY <2>3, <2>4, <2>5, <2>6
  <1> QED
    BY <1>1, <1>2, <1>3 DEF HistoryIsPast

-----------------------------------------------------------------------------
(* The plan. *)

\* The threads a window is scheduled for.
Threads(predictions, load, w) ==
  {p.key : p \in {q \in predictions : q.key.load = load /\ q.win = w}}

\* A row of the schedule is a decision for the threads of its window, and each
\* decision has its row.
LEMMA ScheduleRows ==
  ASSUME NEW P, \A p \in P : p.key \in Keys
  PROVE  /\ \A r \in Schedule(P) :
              /\ r = [load |-> r.load, win |-> r.win, key |-> r.key, cpu |-> r.cpu]
              /\ [key |-> r.key, cpu |-> r.cpu] \in Decide(Threads(P, r.load, r.win))
         /\ \A load, w : \A d \in Decide(Threads(P, load, w)) :
              /\ [load |-> load, win |-> w, key |-> d.key, cpu |-> d.cpu] \in Schedule(P)
              /\ d = [key |-> d.key, cpu |-> d.cpu] /\ d.key \in Threads(P, load, w) /\ d.cpu \in Nat
  <1>1. \A load, w : Threads(P, load, w) \in SUBSET Keys
    BY DEF Threads
  <1>2. \A load, w : \A d \in Decide(Threads(P, load, w)) :
          d = [key |-> d.key, cpu |-> d.cpu] /\ d.key \in Threads(P, load, w) /\ d.cpu \in Nat
    BY <1>1, DecideAssumption
  <1>3. ASSUME NEW r \in Schedule(P)
        PROVE  /\ r = [load |-> r.load, win |-> r.win, key |-> r.key, cpu |-> r.cpu]
               /\ [key |-> r.key, cpu |-> r.cpu] \in Decide(Threads(P, r.load, r.win))
    <2>1. PICK g \in {[load |-> p.key.load, win |-> p.win] : p \in P} :
            r \in {[load |-> g.load, win |-> g.win, key |-> d.key, cpu |-> d.cpu] :
                     d \in Decide(Threads(P, g.load, g.win))}
      BY <1>3 DEF Schedule, Threads
    <2>2. PICK d \in Decide(Threads(P, g.load, g.win)) :
            r = [load |-> g.load, win |-> g.win, key |-> d.key, cpu |-> d.cpu]
      BY <2>1
    <2> QED
      BY <1>2, <2>2
  <1>4. ASSUME NEW load, NEW w, NEW d \in Decide(Threads(P, load, w))
        PROVE  [load |-> load, win |-> w, key |-> d.key, cpu |-> d.cpu] \in Schedule(P)
    <2>1. d.key \in Threads(P, load, w)
      BY <1>2
    <2>2. PICK p \in P : p.key.load = load /\ p.win = w
      BY <2>1 DEF Threads
    <2> DEFINE g == [load |-> p.key.load, win |-> p.win]
    <2>3. g.load = load /\ g.win = w
      BY <2>2
    <2> DEFINE rowsOf(h) ==
          {[load |-> h.load, win |-> h.win, key |-> e.key, cpu |-> e.cpu] :
             e \in Decide(Threads(P, h.load, h.win))}
    <2>4. [load |-> g.load, win |-> g.win, key |-> d.key, cpu |-> d.cpu] \in Schedule(P)
      <3>1. Schedule(P) = UNION {rowsOf(h) : h \in Groups(P)}
        BY DEF Schedule, Threads, Groups
      <3>2. g \in Groups(P)
        BY DEF Groups
      <3>3. [load |-> g.load, win |-> g.win, key |-> d.key, cpu |-> d.cpu] \in rowsOf(g)
        BY <2>3
      <3> HIDE DEF rowsOf, g
      <3> QED
        BY <3>1, <3>2, <3>3
    <2> QED
      BY <2>3, <2>4
  <1> QED
    BY <1>2, <1>3, <1>4

\* No thread is bound twice in a window, and no CPU given twice.
LEMMA ScheduleOnce ==
  ASSUME NEW P, \A p \in P : p.key \in Keys
  PROVE  /\ \A r \in Schedule(P) : r.key \in Keys /\ r.cpu \in Nat /\ r.win \in {p.win : p \in P}
         /\ \A r, s \in Schedule(P) :
              (r.load = s.load /\ r.win = s.win /\ (r.key = s.key \/ r.cpu = s.cpu)) => r = s
  <1>1. \A load, w : Threads(P, load, w) \in SUBSET Keys
    BY DEF Threads
  <1>2. ASSUME NEW r \in Schedule(P)
        PROVE  r.key \in Keys /\ r.cpu \in Nat /\ r.win \in {p.win : p \in P}
    <2> DEFINE d == [key |-> r.key, cpu |-> r.cpu]
    <2>1. d \in Decide(Threads(P, r.load, r.win))
      BY ScheduleRows
    <2>2. d.key \in Threads(P, r.load, r.win) /\ d.cpu \in Nat
      <3> HIDE DEF d
      <3> QED
        BY <2>1, ScheduleRows
    <2> QED
      BY <2>2 DEF Threads
  <1>3. ASSUME NEW r \in Schedule(P), NEW s \in Schedule(P), r.load = s.load, r.win = s.win,
               r.key = s.key \/ r.cpu = s.cpu
        PROVE  r = s
    <2> DEFINE d == [key |-> r.key, cpu |-> r.cpu]
    <2> DEFINE e == [key |-> s.key, cpu |-> s.cpu]
    <2>1. d \in Decide(Threads(P, r.load, r.win)) /\ e \in Decide(Threads(P, r.load, r.win))
      BY <1>3, ScheduleRows
    <2>2. d.key = e.key \/ d.cpu = e.cpu
      BY <1>3
    <2>3. d = e
      <3> HIDE DEF d, e
      <3> QED
        BY <1>1, <2>1, <2>2, DecideAssumption
    <2>4. r.key = s.key /\ r.cpu = s.cpu
      BY <2>3
    <2>5. /\ r = [load |-> r.load, win |-> r.win, key |-> r.key, cpu |-> r.cpu]
          /\ s = [load |-> s.load, win |-> s.win, key |-> s.key, cpu |-> s.cpu]
      BY ScheduleRows
    <2> QED
      BY <1>3, <2>4, <2>5
  <1> QED
    BY <1>2, <1>3

\* The rows of a window are the decision for its threads.
LEMMA BoundIsDecision ==
  ASSUME NEW P, \A p \in P : p.key \in Keys, NEW load, NEW w
  PROVE  Bound(Schedule(P), load, w) = Decide(Threads(P, load, w))
  <1>1. ASSUME NEW d \in Bound(Schedule(P), load, w) PROVE d \in Decide(Threads(P, load, w))
    BY ScheduleRows DEF Bound
  <1>2. ASSUME NEW d \in Decide(Threads(P, load, w)) PROVE d \in Bound(Schedule(P), load, w)
    <2> DEFINE r == [load |-> load, win |-> w, key |-> d.key, cpu |-> d.cpu]
    <2>1. r \in Schedule(P) /\ d = [key |-> d.key, cpu |-> d.cpu]
      BY ScheduleRows
    <2>2. r.load = load /\ r.win = w /\ r.key = d.key /\ r.cpu = d.cpu
      OBVIOUS
    <2> HIDE DEF r
    <2> QED
      BY <2>1, <2>2 DEF Bound
  <1> QED
    BY <1>1, <1>2

\* The table of pairs has a row in the slot of its CPU, and no row of its own.
LEMMA PairsAreRows ==
  ASSUME NEW P, \A p \in P : p.key \in Keys
  PROVE  /\ \A p \in Pairs(Schedule(P)) : {p.slot0, p.slot1} # {NoKey}
         /\ \A r \in Schedule(P) :
              \E p \in Pairs(Schedule(P)) :
                /\ p.load = r.load /\ p.win = r.win /\ p.core = r.cpu \div 2
                /\ r.key = IF r.cpu % 2 = 0 THEN p.slot0 ELSE p.slot1
  <1> DEFINE selection == Schedule(P)
  <1> DEFINE rowsOf(l, w) == {x \in selection : x.load = l /\ x.win = w}
  <1> DEFINE pair(l, w, c) ==
        [load |-> l, win |-> w, core |-> c,
         slot0 |-> Slot(rowsOf(l, w), c, 0), slot1 |-> Slot(rowsOf(l, w), c, 1)]
  <1>1. \A r \in selection : r.key \in Keys /\ r.cpu \in Nat
    BY ScheduleOnce
  <1>2. \A r, s \in selection : r.load = s.load /\ r.win = s.win /\ r.cpu = s.cpu => r = s
    BY ScheduleOnce
  <1>3. ASSUME NEW r \in selection
        PROVE  /\ r.cpu = 2 * (r.cpu \div 2) + (r.cpu % 2)
               /\ r.cpu % 2 \in {0, 1}
               /\ Slot(rowsOf(r.load, r.win), r.cpu \div 2, r.cpu % 2) = r.key
    <2>1. r.cpu = 2 * (r.cpu \div 2) + (r.cpu % 2) /\ r.cpu % 2 \in {0, 1}
      BY <1>1
    <2> DEFINE there == {x \in rowsOf(r.load, r.win) : x.cpu = 2 * (r.cpu \div 2) + (r.cpu % 2)}
    <2>2. there = {r}
      BY <1>2, <2>1
    <2>3. Slot(rowsOf(r.load, r.win), r.cpu \div 2, r.cpu % 2) =
            IF there = {} THEN NoKey ELSE (CHOOSE x \in there : TRUE).key
      BY DEF Slot
    <2>4. (CHOOSE x \in there : TRUE) = r
      BY <2>2
    <2> QED
      BY <2>1, <2>2, <2>3, <2>4
  <1>4. \A r \in selection : pair(r.load, r.win, r.cpu \div 2) \in Pairs(selection)
    <2>1. ASSUME NEW r \in selection PROVE pair(r.load, r.win, r.cpu \div 2) \in Pairs(selection)
      <3> DEFINE c == [load |-> r.load, win |-> r.win, core |-> r.cpu \div 2]
      <3>1. c \in {[load |-> x.load, win |-> x.win, core |-> x.cpu \div 2] : x \in selection}
        OBVIOUS
      <3>2. c.load = r.load /\ c.win = r.win /\ c.core = r.cpu \div 2
        OBVIOUS
      <3>3. pair(c.load, c.win, c.core) \in Pairs(selection)
        <4> HIDE DEF selection, c
        <4> QED
          BY <3>1 DEF Pairs
      <3> HIDE DEF pair, c
      <3> QED
        BY <3>2, <3>3
    <2> QED
      BY <2>1
  <1>5. ASSUME NEW p \in Pairs(selection)
        PROVE  \E r \in selection : p = pair(r.load, r.win, r.cpu \div 2)
    BY <1>5 DEF Pairs
  <1>6. ASSUME NEW p \in Pairs(selection) PROVE {p.slot0, p.slot1} # {NoKey}
    <2>1. PICK r \in selection : p = pair(r.load, r.win, r.cpu \div 2)
      BY <1>5
    <2>2. p.slot0 = r.key \/ p.slot1 = r.key
      BY <1>3, <2>1
    <2>3. r.key # NoKey
      BY <1>1, PipelineAssumption
    <2> QED
      BY <2>2, <2>3
  <1>7. ASSUME NEW r \in selection
        PROVE  \E p \in Pairs(selection) :
                 /\ p.load = r.load /\ p.win = r.win /\ p.core = r.cpu \div 2
                 /\ r.key = IF r.cpu % 2 = 0 THEN p.slot0 ELSE p.slot1
    <2> DEFINE p == pair(r.load, r.win, r.cpu \div 2)
    <2>1. p \in Pairs(selection)
      BY <1>4
    <2>2. /\ p.load = r.load /\ p.win = r.win /\ p.core = r.cpu \div 2
          /\ r.key = IF r.cpu % 2 = 0 THEN p.slot0 ELSE p.slot1
      BY <1>3
    <2> HIDE DEF p
    <2> QED
      BY <2>1, <2>2
  <1> QED
    BY <1>6, <1>7

\* The final view is the last window of each load.
LEMMA FinalIsLast ==
  ASSUME data \in Datasets, NEW P, \A p \in P : p.key \in Keys /\ p.win \in Seen(p.key)
  PROVE  \A r \in Schedule(P) :
           r \in FinalView(Schedule(P)) <=> \A s \in Schedule(P) : s.load = r.load => s.win <= r.win
  <1> DEFINE selection == Schedule(P)
  <1> DEFINE all == {r.ts \div WindowNs : r \in data}
  <1> DEFINE f == [r \in data |-> r.ts \div WindowNs]
  <1>1. IsFiniteSet(all)
    <2>1. f \in Surjection(data, all)
      BY DEF Surjection
    <2>2. IsFiniteSet(data)
      BY DataTypes
    <2> HIDE DEF f, all
    <2> QED
      BY <2>1, <2>2, FS_Surjection
  <1>2. \A r \in selection : r.win \in all /\ r.win \in Nat
    <2>1. \A p \in P : p.win \in all
      BY DEF Seen
    <2>2. \A v \in all : v \in Nat
      BY DataTypes
    <2> HIDE DEF all
    <2> QED
      BY <2>1, <2>2, ScheduleOnce
  <1>3. ASSUME NEW r \in selection
        PROVE  r \in FinalView(selection) <=> \A s \in selection : s.load = r.load => s.win <= r.win
    <2> DEFINE wins == {s.win : s \in {x \in selection : x.load = r.load}}
    <2>1. wins \in SUBSET all /\ wins \in SUBSET Nat /\ r.win \in wins
      BY <1>2
    <2>2. IsFiniteSet(wins)
      <3> HIDE DEF wins, all
      <3> QED
        BY <1>1, <2>1, FS_Subset
    <2>3. Max(wins) \in wins /\ \A v \in wins : v <= Max(wins)
      <3> HIDE DEF wins
      <3> QED
        BY <2>1, <2>2, LastExists
    <2>4. r \in FinalView(selection) <=> r.win = Max(wins)
      BY DEF FinalView
    <2>5. r.win = Max(wins) <=> \A v \in wins : v <= r.win
      <3> DEFINE w == r.win
      <3> DEFINE last == Max(wins)
      <3>1. \A v \in wins : v \in Nat
        BY <2>1
      <3>2. w \in wins /\ last \in wins /\ \A v \in wins : v <= last
        BY <2>1, <2>3
      <3>3. w = last <=> \A v \in wins : v <= w
        <4> HIDE DEF wins, w, last
        <4> QED
          BY <3>1, <3>2
      <3> QED
        BY <3>3
    <2> QED
      BY <2>4, <2>5
  <1> QED
    BY <1>3

LEMMA PlanImplied == PipelineInv => PlanFromData
  <1> SUFFICES ASSUME PipelineInv, status = "ok" PROVE PlanFromData
    BY DEF PlanFromData
  <1>1. data \in Datasets
    BY DEF PipelineInv
  <1>2. PICK n \in Nat \ {0} :
          /\ file["model"].hist = n
          /\ file["selection"] = Schedule(Predicted(n))
          /\ file["pairs"] = Pairs(Schedule(Predicted(n)))
          /\ file["final"] = FinalView(Schedule(Predicted(n)))
    BY FinishedFiles
  <1> DEFINE P == Predicted(n)
  <1>3. \A p \in P : p.key \in Keys /\ p.win \in Seen(p.key)
    BY <1>1, PredictedAre DEF Foreseen
  <1>4. \A f \in {"model", "selection", "pairs", "final"} : Readable(f)
    <2>1. \A f \in Files : Readable(f) \/ f = "model_full"
      BY TypeImplied DEF PipelineTypeOK
    <2> QED
      BY <2>1 DEF Files
  <1>5. ASSUME NEW load, NEW w PROVE Threads(P, load, w) = Candidates(load, w)
    <2>1. ASSUME NEW k \in Threads(P, load, w) PROVE k \in Candidates(load, w)
      <3>1. PICK p \in P : p.key = k /\ k.load = load /\ p.win = w
        BY <2>1 DEF Threads
      <3>2. Foreseen(k, w, n)
        BY <1>1, <3>1, PredictedAre
      <3> QED
        BY <1>2, <3>1, <3>2 DEF Foreseen, Candidates, Position, Earlier
    <2>2. ASSUME NEW k \in Candidates(load, w) PROVE k \in Threads(P, load, w)
      <3>1. k.load = load /\ Foreseen(k, w, n)
        BY <1>2, <2>2 DEF Foreseen, Candidates, Position, Earlier
      <3>2. PICK p \in P : p.key = k /\ p.win = w
        BY <1>1, <3>1, PredictedAre
      <3> QED
        BY <3>1, <3>2 DEF Threads
    <2> QED
      BY <2>1, <2>2
  <1>6. \A load, w : Bound(Schedule(P), load, w) = Decide(Candidates(load, w))
    <2>1. \A load, w : Bound(Schedule(P), load, w) = Decide(Threads(P, load, w))
      BY <1>3, BoundIsDecision
    <2> QED
      BY <1>5, <2>1
  <1>7. /\ \A p \in Pairs(Schedule(P)) : {p.slot0, p.slot1} # {NoKey}
        /\ \A r \in Schedule(P) :
             \E p \in Pairs(Schedule(P)) :
               /\ p.load = r.load /\ p.win = r.win /\ p.core = r.cpu \div 2
               /\ r.key = IF r.cpu % 2 = 0 THEN p.slot0 ELSE p.slot1
    BY <1>3, PairsAreRows
  <1>8. \A r \in Schedule(P) :
          r \in FinalView(Schedule(P)) <=> \A s \in Schedule(P) : s.load = r.load => s.win <= r.win
    BY <1>1, <1>3, FinalIsLast
  <1> DEFINE selection == file["selection"]
  <1>9. /\ \A k \in Keys, w \in UNION {Seen(k) : k \in Keys} :
             Bound(selection, k.load, w) = Decide(Candidates(k.load, w))
        /\ \A p \in file["pairs"] : {p.slot0, p.slot1} # {NoKey}
        /\ \A r \in selection :
             \E p \in file["pairs"] :
               /\ p.load = r.load /\ p.win = r.win /\ p.core = r.cpu \div 2
               /\ r.key = IF r.cpu % 2 = 0 THEN p.slot0 ELSE p.slot1
        /\ \A r \in selection :
             r \in file["final"] <=> \A s \in selection : s.load = r.load => s.win <= r.win
    <2> HIDE DEF P
    <2>1. \A k \in Keys, w \in UNION {Seen(k) : k \in Keys} :
             Bound(selection, k.load, w) = Decide(Candidates(k.load, w))
      BY <1>2, <1>6 DEF P
    <2>2. selection = Schedule(P) /\ file["pairs"] = Pairs(Schedule(P))
          /\ file["final"] = FinalView(Schedule(P))
      BY <1>2 DEF P
    <2> HIDE DEF selection
    <2> QED
      BY <1>7, <1>8, <2>1, <2>2
  <1> QED
    BY <1>4, <1>9 DEF PlanFromData

-----------------------------------------------------------------------------
\* The types, and that a driver that did not fail leaves every file it writes
\* there, whatever a driver that failed before it left out.
THEOREM PipelineTypeCorrect == Spec => []PipelineTypeOK
  BY PipelineInvHolds, TypeImplied, PTL

\* For every data set, window length and history length, the history of a
\* prediction is the last windows before it, on the scale of all windows of the
\* present data, and after a training a prediction is validated on windows later
\* than every window its thread was trained on, on the same scale.
THEOREM HistoriesFromPast == Spec => []HistoryIsPast
  BY PipelineInvHolds, HistoryImplied, PTL

\* The exported plan of a driver that did not fail is the decision for the
\* present data, for every schedule_window that binds no thread and no CPU
\* twice, and its three views agree.
THEOREM PlanIsFromData == Spec => []PlanFromData
  BY PipelineInvHolds, PlanImplied, PTL
=============================================================================
