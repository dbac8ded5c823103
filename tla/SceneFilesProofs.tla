-------------------------- MODULE SceneFilesProofs --------------------------
(***************************************************************************)
(* What holds of the files of the collection runs for every number of      *)
(* runs, scenes and rows.                                                  *)
(*                                                                         *)
(* attr.csv is right because the runner removes both files before it       *)
(* starts its collectors: from then on a file has only rows of this run    *)
(* (FreshFiles), and, if no collector of an earlier run was alive, just    *)
(* those of its own collectors (OwnFiles).  Both are carried along until   *)
(* the files have been moved and attributed.                               *)
(***************************************************************************)
EXTENDS SceneFiles, SequenceTheorems, FiniteSetTheorems, TLAPS

Labels == {"done", "dead", "cleanCpu", "cleanSched", "startSched", "startCpu",
           "stopSched", "stopCpu", "moveCpu", "moveSched", "attribute"}

\* From the removal of a file to its move.
FromClean == {"cleanSched", "startSched", "startCpu", "stopSched", "stopCpu", "moveCpu"}
Pending(k) == IF k = "cpu" THEN FromClean ELSE (FromClean \ {"cleanSched"}) \cup {"moveSched"}

\* From its move to its attribution.
Moved(k) == IF k = "cpu" THEN {"moveSched", "attribute"} ELSE {"attribute"}

\* The rows a file has.
Rows(f) == IF f = Absent THEN {} ELSE f.rows

TableTypes ==
  /\ scenes \in Seq(Scenes) /\ Run <= MaxRuns
  /\ alone \in BOOLEAN
  /\ attr \in [Scenes -> [run : Runs, cpu : SUBSET Row, sched : SUBSET Row] \cup {Absent}]
  /\ full \subseteq [load : Scenes, row : Row]
  /\ written \in [Kinds -> SUBSET Row]

FileTypes ==
  /\ here \in [Kinds -> File]
  /\ saved \in [Scenes -> [Kinds -> File]]
  /\ \A k \in Kinds : here[k] # Absent /\ ~ here[k].header => here[k].rows # {}

CollectorTypes ==
  /\ collector \in [Runs -> [Kinds -> Alive \cup {"off", "gone"}]]
  /\ \A r \in Runs, k \in Kinds : collector[r][k] \in Alive => r <= Run

\* A run exists while the runner is at work, and once the files can be moved its
\* own collectors have ended; nobody writes before it was started.
LivesOK ==
  /\ pc \in Labels
  /\ pc # "done" => Run >= 1
  /\ pc \in {"moveCpu", "moveSched", "attribute", "done"} /\ Run >= 1 =>
       \A k \in Kinds : collector[Run][k] = "gone"
  /\ pc = "stopCpu" => collector[Run]["sched"] = "gone"
  /\ pc \in {"cleanCpu", "cleanSched", "startSched"} => collector[Run]["sched"] = "off"
  /\ pc \in {"cleanCpu", "cleanSched", "startSched", "startCpu"} => collector[Run]["cpu"] = "off"
  /\ \A r \in Runs, k \in Kinds : r > Run => collector[r][k] = "off"
  /\ \A r \in Runs, k \in Kinds :
       collector[r][k] \in {"off", "start", "create"} => WrittenBy(r, k) = {}
  /\ \A k \in Kinds : IsFiniteSet(written[k])

\* The files of the run at hand have only rows written since it began.
FreshFiles ==
  \A k \in Kinds :
    /\ pc \in Pending(k) => \A w \in Rows(here[k]) : w.during = Run
    /\ pc \in Moved(k) => \A w \in Rows(saved[Scene][k]) : w.during = Run

\* What was attributed and merged names the run it is from, and its scene.
LabelsOK ==
  /\ \A s \in Scenes : attr[s] # Absent =>
       /\ attr[s].run <= Run /\ scenes[attr[s].run] = s
       /\ \A w \in attr[s].cpu \cup attr[s].sched : w.during = attr[s].run
  /\ \A x \in full : x.row.during <= Run /\ scenes[x.row.during] = x.load

\* With no earlier collector alive, the files are those of the run's own.
OwnFiles ==
  alone =>
    /\ \A r \in Runs, k \in Kinds : r < Run => collector[r][k] \notin Alive
    /\ \A k \in Kinds :
         /\ pc \in Pending(k) => Rows(here[k]) = WrittenBy(Run, k)
         /\ pc \in Moved(k) => Rows(saved[Scene][k]) = WrittenBy(Run, k)

FilesInv ==
  /\ TableTypes
  /\ FileTypes
  /\ CollectorTypes
  /\ LivesOK
  /\ FreshFiles
  /\ LabelsOK
  /\ OwnFiles
  /\ ExactRows

-----------------------------------------------------------------------------
(* Types. *)

\* The run at hand and its scene, once there is one.
LEMMA RunTypes ==
  ASSUME TableTypes
  PROVE  /\ Run \in Nat /\ MaxRuns \in Nat /\ MaxRows \in Nat /\ Run <= MaxRuns
         /\ Run >= 1 => Run \in Runs /\ Scene \in Scenes
         /\ scenes # <<>> => Run >= 1
  <1>1. MaxRuns \in Nat /\ MaxRows \in Nat
    BY SceneFilesAssumption
  <1>2. Run \in Nat /\ (scenes # <<>> => Run >= 1)
    BY LenProperties, EmptySeq DEF TableTypes, Run
  <1>3. Run >= 1 => Scene \in Scenes
    BY <1>2, ElementOfSeq DEF TableTypes, Run, Scene
  <1> QED
    BY <1>1, <1>2, <1>3 DEF TableTypes, Runs

\* A file that is there is no absent one.
LEMMA NotAbsent ==
  ASSUME NEW h \in BOOLEAN, NEW R \in SUBSET Row
  PROVE  /\ [header |-> h, rows |-> R] # Absent
         /\ [header |-> h, rows |-> R] \in File
         /\ Rows([header |-> h, rows |-> R]) = R
  <1>1. Row \subseteq [by : Runs, during : Runs, n : Nat]
    BY SceneFilesAssumption DEF Row
  <1>2. [header |-> h, rows |-> R] \in
          [header : BOOLEAN, rows : SUBSET [by : Runs, during : Runs, n : Nat]]
    BY <1>1
  <1> QED
    BY <1>2, SceneFilesAssumption DEF File, Rows

\* A file is absent, or has a header or not, and rows.
LEMMA FileIs ==
  ASSUME NEW f \in File
  PROVE  /\ Rows(f) \subseteq Row
         /\ f # Absent => /\ f.header \in BOOLEAN /\ f.rows \in SUBSET Row /\ Rows(f) = f.rows
                          /\ f = [header |-> f.header, rows |-> f.rows]
  BY DEF File, Rows

\* What becomes of the other collectors when one changes: nothing.
LEMMA Becoming ==
  ASSUME CollectorTypes, NEW r \in Runs, NEW k \in Kinds,
         NEW state \in Alive \cup {"off", "gone"}, Becomes(r, k, state)
  PROVE  /\ collector' \in [Runs -> [Kinds -> Alive \cup {"off", "gone"}]]
         /\ \A q \in Runs, j \in Kinds :
              collector'[q][j] = IF q = r /\ j = k THEN state ELSE collector[q][j]
  BY DEF CollectorTypes, Becomes

-----------------------------------------------------------------------------
\* No run has begun and there is no file.
LEMMA FilesInit == Init => FilesInv
  <1> SUFFICES ASSUME Init PROVE FilesInv
    OBVIOUS
  <1>1. Run = 0 /\ scenes \in Seq(Scenes) /\ MaxRuns \in Nat
    BY SceneFilesAssumption, EmptySeq DEF Init, Run
  <1>2. \A k \in Kinds : here[k] = Absent /\ written[k] = {}
    BY DEF Init
  <1>3. TableTypes
    BY <1>1 DEF Init, TableTypes
  <1>4. FileTypes
    BY DEF Init, FileTypes, File
  <1>5. CollectorTypes
    BY DEF Init, CollectorTypes, Alive
  <1>6. LivesOK
    <2>1. pc = "done" /\ pc \in Labels
      BY DEF Init, Labels
    <2>2. \A r \in Runs, k \in Kinds : collector[r][k] = "off" /\ WrittenBy(r, k) = {}
      BY <1>2 DEF Init, WrittenBy
    <2>3. \A k \in Kinds : IsFiniteSet(written[k])
      BY <1>2, FS_EmptySet
    <2> QED
      BY <1>1, <2>1, <2>2, <2>3 DEF LivesOK
  <1>7. FreshFiles /\ OwnFiles
    BY <1>1 DEF Init, FreshFiles, OwnFiles, Pending, Moved, FromClean, Alive
  <1>8. LabelsOK /\ ExactRows
    BY DEF Init, LabelsOK, ExactRows
  <1> QED
    BY <1>3, <1>4, <1>5, <1>6, <1>7, <1>8 DEF FilesInv

-----------------------------------------------------------------------------
(* The collectors. *)

\* A collector that is alive belongs to a run that has begun, to the one at hand
\* if no other was left, and not to one whose files are being moved.
LEMMA AliveOf ==
  ASSUME FilesInv, NEW r \in Runs, NEW k \in Kinds, collector[r][k] \in Alive
  PROVE  /\ Run \in Runs /\ r <= Run /\ (alone => r = Run)
         /\ pc \in {"moveCpu", "moveSched", "attribute", "done"} => r # Run
  <1>1. Run \in Nat /\ r \in Nat /\ r >= 1 /\ r <= Run /\ Run <= MaxRuns
    BY RunTypes DEF FilesInv, CollectorTypes, Runs
  <1>2. alone => r = Run
    BY <1>1 DEF FilesInv, OwnFiles
  <1>3. pc \in {"moveCpu", "moveSched", "attribute", "done"} => r # Run
    BY <1>1 DEF FilesInv, LivesOK, Alive
  <1> QED
    BY <1>1, <1>2, <1>3, SceneFilesAssumption DEF Runs

\* One that goes from one state to the next keeps the lives of all in order.
LEMMA LifeGoesOn ==
  ASSUME FilesInv, NEW r \in Runs, NEW k \in Kinds, NEW state \in {"create", "on", "gone"},
         collector[r][k] \in Alive, Becomes(r, k, state),
         state = "create" => WrittenBy(r, k) = {},
         UNCHANGED <<runner, written>>
  PROVE  /\ CollectorTypes' /\ LivesOK'
         /\ alone => \A q \in Runs, j \in Kinds : q < Run => collector'[q][j] \notin Alive
  <1>1. UNCHANGED <<pc, scenes, alone, written, Run>>
    BY DEF runner, Run
  <1>2. state \in Alive \cup {"off", "gone"}
    BY DEF Alive
  <1>3. /\ collector' \in [Runs -> [Kinds -> Alive \cup {"off", "gone"}]]
        /\ \A q \in Runs, j \in Kinds :
             collector'[q][j] = IF q = r /\ j = k THEN state ELSE collector[q][j]
    BY <1>2, Becoming DEF FilesInv
  <1>4. /\ Run \in Runs /\ r <= Run /\ (alone => r = Run) /\ Run \in Nat /\ r \in Nat
        /\ pc \in {"moveCpu", "moveSched", "attribute", "done"} => r # Run
    BY AliveOf, RunTypes DEF FilesInv, Runs
  <1>5. CollectorTypes'
    BY <1>1, <1>3, <1>4 DEF FilesInv, CollectorTypes
  <1>6. \A q, j : WrittenBy(q, j)' = WrittenBy(q, j)
    BY <1>1 DEF WrittenBy
  <1>7. LivesOK'
    <2>1. "sched" \in Kinds /\ "cpu" \in Kinds
      BY DEF Kinds
    <2>2. \A q \in Runs, j \in Kinds :
            collector[q][j] \in {"off", "gone"} => collector'[q][j] = collector[q][j]
      BY <1>3 DEF Alive
    <2>3. \A q \in Runs, j \in Kinds :
            collector'[q][j] \in {"off", "start", "create"} => WrittenBy(q, j)' = {}
      BY <1>3, <1>6 DEF FilesInv, LivesOK
    <2> QED
      BY <1>1, <1>4, <2>1, <2>2, <2>3 DEF FilesInv, LivesOK
  <1>8. alone => \A q \in Runs, j \in Kinds : q < Run => collector'[q][j] \notin Alive
    BY <1>3, <1>4 DEF FilesInv, OwnFiles
  <1> QED
    BY <1>5, <1>7, <1>8

\* A collector that looks for its file or ends writes nothing.
LEMMA LookInv ==
  ASSUME FilesInv, NEW r \in Runs, CheckSched(r) \/ \E k \in Kinds : Ends(r, k)
  PROVE  FilesInv'
  <1>1. /\ UNCHANGED <<runner, here, saved, attr, full, written>>
        /\ UNCHANGED <<pc, scenes, alone, Run, Scene>>
    BY DEF CheckSched, Ends, runner, Run, Scene
  <1>2. PICK k \in Kinds, state \in {"create", "on", "gone"} :
          /\ collector[r][k] \in Alive /\ Becomes(r, k, state)
          /\ state = "create" => collector[r][k] = "start"
    BY DEF CheckSched, Ends, Kinds, Alive
  <1>3. state = "create" => WrittenBy(r, k) = {}
    BY <1>2 DEF FilesInv, LivesOK
  <1>4. /\ CollectorTypes' /\ LivesOK'
        /\ alone => \A q \in Runs, j \in Kinds : q < Run => collector'[q][j] \notin Alive
    BY <1>1, <1>2, <1>3, LifeGoesOn
  <1>5. TableTypes' /\ FileTypes'
    BY <1>1 DEF FilesInv, TableTypes, FileTypes
  <1>6. \A q, j : WrittenBy(q, j)' = WrittenBy(q, j)
    BY <1>1 DEF WrittenBy
  <1>7. FreshFiles' /\ LabelsOK'
    BY <1>1 DEF FilesInv, FreshFiles, LabelsOK
  <1>8. OwnFiles' /\ ExactRows'
    BY <1>1, <1>4, <1>6 DEF FilesInv, OwnFiles, ExactRows
  <1> QED
    BY <1>4, <1>5, <1>7, <1>8 DEF FilesInv

\* A collector that creates its file has written nothing yet.
LEMMA CreateInv ==
  ASSUME FilesInv, NEW r \in Runs, CreateSched(r) \/ CreateCpu(r)
  PROVE  FilesInv'
  <1>1. /\ UNCHANGED <<runner, saved, attr, full, written>>
        /\ UNCHANGED <<pc, scenes, alone, Run, Scene>>
    BY DEF CreateSched, CreateCpu, runner, Run, Scene
  <1>2. PICK k \in Kinds :
          /\ collector[r][k] \in {"start", "create"} /\ Becomes(r, k, "on")
          /\ here' = [here EXCEPT ![k] = Fresh]
    BY DEF CreateSched, CreateCpu, Kinds
  <1>3. collector[r][k] \in Alive /\ WrittenBy(r, k) = {}
    BY <1>2 DEF Alive, FilesInv, LivesOK
  <1>4. /\ CollectorTypes' /\ LivesOK'
        /\ alone => \A q \in Runs, j \in Kinds : q < Run => collector'[q][j] \notin Alive
    BY <1>1, <1>2, <1>3, LifeGoesOn
  <1>5. /\ alone => r = Run
        /\ pc \in {"moveCpu", "moveSched", "attribute", "done"} => r # Run
    BY <1>3, AliveOf
  <1>6. Fresh # Absent /\ Fresh \in File /\ Rows(Fresh) = {} /\ Fresh.header
    BY NotAbsent DEF Fresh
  <1>7. \A j \in Kinds : here'[j] = IF j = k THEN Fresh ELSE here[j]
    BY <1>2 DEF FilesInv, FileTypes
  <1>8. TableTypes' /\ FileTypes'
    BY <1>1, <1>2, <1>6, <1>7 DEF FilesInv, TableTypes, FileTypes
  <1>9. \A q, j : WrittenBy(q, j)' = WrittenBy(q, j)
    BY <1>1 DEF WrittenBy
  <1>10. FreshFiles' /\ LabelsOK'
    BY <1>1, <1>6, <1>7 DEF FilesInv, FreshFiles, LabelsOK
  <1>11. OwnFiles'
    BY <1>1, <1>3, <1>4, <1>5, <1>6, <1>7, <1>9 DEF FilesInv, OwnFiles
  <1>12. ExactRows'
    BY <1>1, <1>9 DEF FilesInv, ExactRows
  <1> QED
    BY <1>4, <1>8, <1>10, <1>11, <1>12 DEF FilesInv

\* A row that is appended was written by its collector, during the run at hand.
LEMMA WriteInv ==
  ASSUME FilesInv, NEW r \in Runs, NEW k \in Kinds, WriteRow(r, k)
  PROVE  FilesInv'
  <1> DEFINE row == [by |-> r, during |-> Run, n |-> Cardinality(WrittenBy(r, k)) + 1]
  <1>1. /\ UNCHANGED <<runner, saved, attr, full, collector>>
        /\ UNCHANGED <<pc, scenes, alone, Run, Scene>>
        /\ collector[r][k] = "on" /\ collector[r][k] \in Alive
        /\ row.n <= MaxRows
        /\ here' = [here EXCEPT ![k] = Appended(@, row)]
        /\ written' = [written EXCEPT ![k] = @ \cup {row}]
    BY DEF WriteRow, runner, Run, Scene, Alive
  <1>2. /\ Run \in Runs /\ (alone => r = Run)
        /\ pc \in {"moveCpu", "moveSched", "attribute", "done"} => r # Run
    BY <1>1, AliveOf
  <1>3. row \in Row /\ row.by = r /\ row.during = Run
    <2>1. IsFiniteSet(WrittenBy(r, k))
      BY FS_Subset DEF FilesInv, LivesOK, WrittenBy
    <2>2. Cardinality(WrittenBy(r, k)) \in Nat
      BY <2>1, FS_CardinalityType
    <2>3. Cardinality(WrittenBy(r, k)) + 1 \in 1 .. MaxRows
      BY <1>1, <2>2, SceneFilesAssumption
    <2> QED
      BY <1>2, <2>3 DEF Row
  <1> HIDE DEF row
  <1>4. /\ \A j \in Kinds : written'[j] = IF j = k THEN written[j] \cup {row} ELSE written[j]
        /\ written' \in [Kinds -> SUBSET Row]
    BY <1>1, <1>3 DEF FilesInv, TableTypes
  <1>5. \A q \in Runs, j \in Kinds :
          WrittenBy(q, j)' = IF q = r /\ j = k THEN WrittenBy(q, j) \cup {row} ELSE WrittenBy(q, j)
    BY <1>3, <1>4 DEF WrittenBy
  <1>6. /\ Appended(here[k], row) \in File /\ Appended(here[k], row) # Absent
        /\ Appended(here[k], row).rows # {}
        /\ Rows(Appended(here[k], row)) = Rows(here[k]) \cup {row}
    <2>1. here[k] \in File
      BY DEF FilesInv, FileTypes
    <2>2. CASE here[k] = Absent
      BY <1>3, <2>2, NotAbsent DEF Appended, Rows
    <2>3. CASE here[k] # Absent
      <3>1. /\ here[k].header \in BOOLEAN /\ here[k].rows \cup {row} \in SUBSET Row
            /\ here[k] = [header |-> here[k].header, rows |-> here[k].rows]
            /\ Rows(here[k]) = here[k].rows
        BY <1>3, <2>1, <2>3, FileIs
      <3>2. Appended(here[k], row) = [header |-> here[k].header, rows |-> here[k].rows \cup {row}]
        BY <2>3, <3>1 DEF Appended
      <3> QED
        BY <3>1, <3>2, NotAbsent
    <2> QED
      BY <2>2, <2>3
  <1>7. \A j \in Kinds : here'[j] = IF j = k THEN Appended(here[k], row) ELSE here[j]
    BY <1>1 DEF FilesInv, FileTypes
  <1>8. TableTypes'
    BY <1>1, <1>4 DEF FilesInv, TableTypes
  <1>9. FileTypes'
    BY <1>1, <1>6, <1>7 DEF FilesInv, FileTypes
  <1>10. CollectorTypes'
    BY <1>1 DEF FilesInv, CollectorTypes
  <1>11. LivesOK'
    <2>1. \A j \in Kinds : IsFiniteSet(written'[j])
      BY <1>4, FS_AddElement, SMTT(20) DEF FilesInv, LivesOK
    <2>2. \A q \in Runs, j \in Kinds :
            collector[q][j] \in {"off", "start", "create"} => WrittenBy(q, j)' = {}
      BY <1>1, <1>5 DEF FilesInv, LivesOK
    <2> QED
      BY <1>1, <2>1, <2>2 DEF FilesInv, LivesOK
  <1>12. FreshFiles' /\ LabelsOK'
    BY <1>1, <1>3, <1>6, <1>7 DEF FilesInv, FreshFiles, LabelsOK
  <1>13. OwnFiles'
    <2> SUFFICES ASSUME alone PROVE OwnFiles'
      BY <1>1 DEF OwnFiles
    <2>1. \A q \in Runs, j \in Kinds : q < Run => collector[q][j] \notin Alive
      BY DEF FilesInv, OwnFiles
    <2>2. r = Run /\ pc \notin {"moveCpu", "moveSched", "attribute", "done"}
      BY <1>2
    <2>3. \A j \in Kinds : pc \in Pending(j) => Rows(here'[j]) = WrittenBy(Run, j)'
      BY <1>1, <1>2, <1>5, <1>6, <1>7, <2>2 DEF FilesInv, OwnFiles
    <2>4. \A j \in Kinds : pc \notin Moved(j)
      BY <2>2 DEF Moved
    <2> QED
      BY <1>1, <2>1, <2>3, <2>4 DEF OwnFiles
  <1>14. ExactRows'
    BY <1>1, <1>2 DEF FilesInv, ExactRows
  <1> QED
    BY <1>8, <1>9, <1>10, <1>11, <1>12, <1>13, <1>14 DEF FilesInv

-----------------------------------------------------------------------------
(* The runner. *)

\* The new run is the last one, with its scene; the earlier ones keep theirs.
LEMMA StartInv ==
  ASSUME FilesInv, NEW s \in Scenes, StartRun(s)
  PROVE  FilesInv'
  <1>1. /\ UNCHANGED <<here, saved, attr, full, collector, written>>
        /\ Run < MaxRuns /\ scenes' = Append(scenes, s) /\ pc' = "cleanCpu"
        /\ alone' = (\A r \in Runs, k \in Kinds : collector[r][k] \notin Alive)
    BY DEF StartRun
  <1>2. /\ Run' = Run + 1 /\ scenes' \in Seq(Scenes) /\ Run \in Nat /\ MaxRuns \in Nat
        /\ \A i \in 1 .. Run : scenes'[i] = scenes[i]
    BY <1>1, RunTypes, AppendProperties DEF FilesInv, TableTypes, Run
  <1>3. TableTypes'
    BY <1>1, <1>2 DEF FilesInv, TableTypes
  <1>4. FileTypes'
    BY <1>1 DEF FilesInv, FileTypes
  <1>5. CollectorTypes'
    BY <1>1, <1>2 DEF FilesInv, CollectorTypes, Runs
  <1>6. \A q, j : WrittenBy(q, j)' = WrittenBy(q, j)
    BY <1>1 DEF WrittenBy
  <1>7. LivesOK'
    <2>1. Run' \in Runs /\ Run' \in Nat /\ Run' >= 1 /\ "cpu" \in Kinds /\ "sched" \in Kinds
      BY <1>1, <1>2 DEF Runs, Kinds
    <2>2. \A j \in Kinds : collector[Run'][j] = "off"
      BY <1>2, <2>1 DEF FilesInv, LivesOK
    <2>3. \A q \in Runs, j \in Kinds : q > Run' => collector[q][j] = "off"
      BY <1>2 DEF FilesInv, LivesOK, Runs
    <2>4. \A q \in Runs, j \in Kinds :
            collector'[q][j] \in {"off", "start", "create"} => WrittenBy(q, j)' = {}
      BY <1>1, <1>6 DEF FilesInv, LivesOK
    <2>5. \A j \in Kinds : IsFiniteSet(written'[j])
      BY <1>1 DEF FilesInv, LivesOK
    <2> QED
      BY <1>1, <2>1, <2>2, <2>3, <2>4, <2>5 DEF LivesOK, Labels
  <1>8. \A k \in Kinds : pc' \notin Pending(k) /\ pc' \notin Moved(k)
    BY <1>1 DEF Pending, Moved, FromClean
  <1>9. FreshFiles' /\ ExactRows'
    BY <1>1, <1>8 DEF FreshFiles, ExactRows
  <1>10. OwnFiles'
    BY <1>1, <1>8 DEF OwnFiles
  <1>11. LabelsOK'
    <2>1. \A t \in Scenes : attr[t] # Absent => attr[t].run \in 1 .. Run
      BY <1>2 DEF FilesInv, TableTypes, LabelsOK, Runs
    <2>2. \A x \in full : x.row.during \in 1 .. Run
      BY <1>2 DEF FilesInv, TableTypes, LabelsOK, Runs, Row
    <2>3. ASSUME NEW t \in Scenes, attr[t] # Absent
          PROVE  /\ attr[t].run <= Run' /\ scenes'[attr[t].run] = t
                 /\ \A w \in attr[t].cpu \cup attr[t].sched : w.during = attr[t].run
      <3>1. attr[t].run \in 1 .. Run /\ scenes[attr[t].run] = t
        BY <2>1, <2>3 DEF FilesInv, LabelsOK
      <3>2. attr[t].run <= Run' /\ scenes'[attr[t].run] = t
        BY <1>2, <3>1
      <3> QED
        BY <2>3, <3>2 DEF FilesInv, LabelsOK
    <2>4. ASSUME NEW x \in full PROVE x.row.during <= Run' /\ scenes'[x.row.during] = x.load
      BY <1>2, <2>2 DEF FilesInv, LabelsOK
    <2> QED
      BY <1>1, <2>3, <2>4 DEF LabelsOK
  <1> QED
    BY <1>3, <1>4, <1>5, <1>7, <1>9, <1>10, <1>11 DEF FilesInv

\* A step that leaves files, collectors and tables alone keeps what is said of them.
LEMMA LabelKeeps ==
  ASSUME FilesInv, UNCHANGED <<scenes, alone, full, written>>
  PROVE  /\ UNCHANGED <<Run, Scene>>
         /\ Run \in Nat /\ (pc # "done" => Run \in Runs /\ Scene \in Scenes)
         /\ \A q, j : WrittenBy(q, j)' = WrittenBy(q, j)
         /\ "cpu" \in Kinds /\ "sched" \in Kinds
         /\ UNCHANGED attr => TableTypes' /\ LabelsOK'
         /\ UNCHANGED <<here, saved>> => FileTypes'
         /\ UNCHANGED collector => CollectorTypes'
  <1>1. UNCHANGED <<Run, Scene>> /\ "cpu" \in Kinds /\ "sched" \in Kinds
    BY DEF Run, Scene, Kinds
  <1>2. Run \in Nat /\ (pc # "done" => Run \in Runs /\ Scene \in Scenes)
    BY RunTypes DEF FilesInv, LivesOK
  <1>3. \A q, j : WrittenBy(q, j)' = WrittenBy(q, j)
    BY DEF WrittenBy
  <1>4. UNCHANGED attr => TableTypes' /\ LabelsOK'
    BY <1>1 DEF FilesInv, TableTypes, LabelsOK
  <1>5. UNCHANGED <<here, saved>> => FileTypes'
    BY DEF FilesInv, FileTypes
  <1>6. UNCHANGED collector => CollectorTypes'
    BY <1>1 DEF FilesInv, CollectorTypes
  <1> QED
    BY <1>1, <1>2, <1>3, <1>4, <1>5, <1>6

\* The runner removes a file before any collector of this run is started.
LEMMA CleanInv ==
  ASSUME FilesInv, CleanCpu \/ CleanSched
  PROVE  FilesInv'
  <1>1. /\ UNCHANGED <<scenes, alone, full, written, saved, attr, collector>>
        /\ pc \in {"cleanCpu", "cleanSched"}
    BY DEF CleanCpu, CleanSched, Goto
  <1>2. PICK k \in Kinds :
          /\ here' = [here EXCEPT ![k] = Absent]
          /\ k = "cpu" => pc = "cleanCpu" /\ pc' = "cleanSched"
          /\ k = "sched" => pc = "cleanSched" /\ pc' = "startSched"
    BY DEF CleanCpu, CleanSched, Goto, Kinds, Unlinked
  <1>3. /\ UNCHANGED <<Run, Scene>> /\ Run \in Runs
        /\ \A q, j : WrittenBy(q, j)' = WrittenBy(q, j)
        /\ TableTypes' /\ LabelsOK' /\ CollectorTypes'
        /\ "cpu" \in Kinds /\ "sched" \in Kinds
    BY <1>1, LabelKeeps
  <1>4. \A j \in Kinds : here'[j] = IF j = k THEN Absent ELSE here[j]
    BY <1>2 DEF FilesInv, FileTypes
  <1>5. FileTypes'
    BY <1>1, <1>2, <1>4 DEF FilesInv, FileTypes, File
  <1>6. LivesOK'
    BY <1>1, <1>2, <1>3 DEF FilesInv, LivesOK, Labels, Kinds
  <1>7. Rows(Absent) = {} /\ WrittenBy(Run, k) = {}
    BY <1>1, <1>2, <1>3 DEF FilesInv, LivesOK, Rows, Kinds
  <1>8. \A j \in Kinds : pc' \notin Moved(j) /\ (j # k /\ pc' \in Pending(j) => pc \in Pending(j))
    BY <1>2 DEF Moved, Pending, FromClean, Kinds
  <1>9. FreshFiles' /\ ExactRows'
    BY <1>1, <1>2, <1>3, <1>4, <1>7, <1>8 DEF FilesInv, FreshFiles, ExactRows, Kinds
  <1>10. OwnFiles'
    BY <1>1, <1>3, <1>4, <1>7, <1>8 DEF FilesInv, OwnFiles
  <1> QED
    BY <1>3, <1>5, <1>6, <1>9, <1>10 DEF FilesInv

\* The runner starts and stops the collectors of its own run only.
LEMMA ControlInv ==
  ASSUME FilesInv, StartSched \/ StartCpu \/ StopSched \/ StopCpu
  PROVE  FilesInv'
  <1>1. /\ UNCHANGED <<scenes, alone, full, written, here, saved, attr>>
        /\ pc \in {"startSched", "startCpu", "stopSched", "stopCpu"}
        /\ pc' \in {"startCpu", "stopSched", "stopCpu", "moveCpu"}
    BY DEF StartSched, StartCpu, StopSched, StopCpu, Goto
  <1>2. /\ UNCHANGED <<Run, Scene>> /\ Run \in Runs /\ Run \in Nat
        /\ \A q, j : WrittenBy(q, j)' = WrittenBy(q, j)
        /\ TableTypes' /\ LabelsOK' /\ FileTypes'
        /\ "cpu" \in Kinds /\ "sched" \in Kinds
    BY <1>1, LabelKeeps
  <1>3. PICK k \in Kinds, state \in {"start", "gone"} :
          /\ Becomes(Run, k, state)
          /\ state = "start" => WrittenBy(Run, k) = {}
          /\ pc = "startSched" => k = "sched" /\ pc' = "startCpu"
          /\ pc = "startCpu" => k = "cpu" /\ pc' = "stopSched"
          /\ pc = "stopSched" => k = "sched" /\ pc' = "stopCpu" /\ state = "gone"
          /\ pc = "stopCpu" => k = "cpu" /\ pc' = "moveCpu" /\ state = "gone"
    <2>1. /\ pc = "startSched" => WrittenBy(Run, "sched") = {}
          /\ pc = "startCpu" => WrittenBy(Run, "cpu") = {}
      BY <1>2 DEF FilesInv, LivesOK
    <2>2. CASE StartSched
      BY <1>2, <2>1, <2>2 DEF StartSched, Goto
    <2>3. CASE StartCpu
      BY <1>2, <2>1, <2>3 DEF StartCpu, Goto
    <2>4. CASE StopSched
      BY <1>2, <2>4 DEF StopSched, Goto, Stopped
    <2>5. CASE StopCpu
      BY <1>2, <2>5 DEF StopCpu, Goto, Stopped
    <2> QED
      BY <2>2, <2>3, <2>4, <2>5
  <1>4. /\ collector' \in [Runs -> [Kinds -> Alive \cup {"off", "gone"}]]
        /\ \A q \in Runs, j \in Kinds :
             collector'[q][j] = IF q = Run /\ j = k THEN state ELSE collector[q][j]
    <2>1. state \in Alive \cup {"off", "gone"}
      BY DEF Alive
    <2> QED
      BY <1>2, <1>3, <2>1, Becoming DEF FilesInv
  <1>5. CollectorTypes'
    BY <1>2, <1>4 DEF FilesInv, CollectorTypes
  <1>6. LivesOK'
    BY <1>1, <1>2, <1>3, <1>4 DEF FilesInv, LivesOK, Labels, Kinds
  <1>7. \A j \in Kinds : pc' \notin Moved(j) /\ pc \in Pending(j)
    BY <1>1 DEF Moved, Pending, FromClean
  <1>8. FreshFiles' /\ ExactRows'
    BY <1>1, <1>2, <1>7 DEF FilesInv, FreshFiles, ExactRows
  <1>9. OwnFiles'
    BY <1>1, <1>2, <1>4, <1>7 DEF FilesInv, OwnFiles, Runs
  <1> QED
    BY <1>2, <1>5, <1>6, <1>8, <1>9 DEF FilesInv

\* A file that is moved has what it had.
LEMMA MoveInv ==
  ASSUME FilesInv, MoveCpu \/ MoveSched
  PROVE  FilesInv'
  <1>1. /\ UNCHANGED <<scenes, alone, full, written, attr, collector>>
        /\ pc \in {"moveCpu", "moveSched"}
    BY DEF MoveCpu, MoveSched, Move, Goto
  <1>2. PICK k \in Kinds :
          /\ here[k] # Absent
          /\ saved' = [saved EXCEPT ![Scene][k] = here[k]]
          /\ here' = [here EXCEPT ![k] = Absent]
          /\ k = "cpu" => pc = "moveCpu" /\ pc' = "moveSched"
          /\ k = "sched" => pc = "moveSched" /\ pc' = "attribute"
    BY DEF MoveCpu, MoveSched, Move, CanMove, Goto, Kinds
  <1>3. /\ UNCHANGED <<Run, Scene>> /\ Run \in Runs /\ Scene \in Scenes
        /\ \A q, j : WrittenBy(q, j)' = WrittenBy(q, j)
        /\ TableTypes' /\ LabelsOK' /\ CollectorTypes'
    BY <1>1, LabelKeeps
  <1>4. /\ \A j \in Kinds : here'[j] = IF j = k THEN Absent ELSE here[j]
        /\ \A t \in Scenes, j \in Kinds :
             saved'[t][j] = IF t = Scene /\ j = k THEN here[k] ELSE saved[t][j]
        /\ saved' \in [Scenes -> [Kinds -> File]]
    BY <1>2, <1>3 DEF FilesInv, FileTypes
  <1>5. FileTypes'
    BY <1>2, <1>4 DEF FilesInv, FileTypes, File
  <1>6. LivesOK'
    BY <1>1, <1>2, <1>3 DEF FilesInv, LivesOK, Labels, Kinds
  <1>7. \A j \in Kinds :
          /\ pc' \in Pending(j) => j # k /\ pc \in Pending(j)
          /\ pc' \in Moved(j) => IF j = k THEN pc \in Pending(j) ELSE pc \in Moved(j)
    BY <1>2 DEF Moved, Pending, FromClean, Kinds
  <1>8. FreshFiles'
    BY <1>3, <1>4, <1>7 DEF FilesInv, FreshFiles
  <1>9. OwnFiles'
    BY <1>1, <1>3, <1>4, <1>7 DEF FilesInv, OwnFiles
  <1>10. ExactRows'
    BY <1>2 DEF ExactRows, Kinds
  <1> QED
    BY <1>3, <1>5, <1>6, <1>8, <1>9, <1>10 DEF FilesInv

\* attr.csv is made of the rows of the two files that were moved.
LEMMA AttributeInv ==
  ASSUME FilesInv, Attribute
  PROVE  FilesInv'
  <1> DEFINE table == [run |-> Run, cpu |-> saved[Scene]["cpu"].rows,
                       sched |-> saved[Scene]["sched"].rows]
  <1>1. /\ UNCHANGED <<scenes, alone, full, written, here, saved, collector>>
        /\ pc = "attribute" /\ pc' = "done"
        /\ \A k \in Kinds : saved[Scene][k] # Absent
        /\ attr' = [attr EXCEPT ![Scene] = table]
    BY DEF Attribute, CanAttribute, Goto
  <1>2. /\ UNCHANGED <<Run, Scene>> /\ Run \in Runs /\ Scene \in Scenes /\ Run \in Nat
        /\ \A q, j : WrittenBy(q, j)' = WrittenBy(q, j)
        /\ FileTypes' /\ CollectorTypes' /\ "cpu" \in Kinds /\ "sched" \in Kinds
    BY <1>1, LabelKeeps
  <1>3. \A k \in Kinds : saved[Scene][k].rows \in SUBSET Row
                         /\ Rows(saved[Scene][k]) = saved[Scene][k].rows
    BY <1>1, <1>2, FileIs DEF FilesInv, FileTypes
  <1>4. /\ table \in [run : Runs, cpu : SUBSET Row, sched : SUBSET Row]
        /\ table.run = Run
        /\ table.cpu = Rows(saved[Scene]["cpu"]) /\ table.sched = Rows(saved[Scene]["sched"])
    BY <1>2, <1>3
  <1>5. \A k \in Kinds : pc \in Moved(k) /\ pc' \notin Pending(k) /\ pc' \notin Moved(k)
    BY <1>1 DEF Moved, Pending, FromClean
  <1>6. \A w \in table.cpu \cup table.sched : w.during = Run
    BY <1>2, <1>4, <1>5 DEF FilesInv, FreshFiles
  <1>7. alone => table = [run |-> Run, cpu |-> WrittenBy(Run, "cpu"),
                          sched |-> WrittenBy(Run, "sched")]
    BY <1>2, <1>3, <1>5 DEF FilesInv, OwnFiles
  <1> HIDE DEF table
  <1>8. /\ attr' \in [Scenes -> [run : Runs, cpu : SUBSET Row, sched : SUBSET Row] \cup {Absent}]
        /\ \A t \in Scenes : attr'[t] = IF t = Scene THEN table ELSE attr[t]
    BY <1>1, <1>2, <1>4 DEF FilesInv, TableTypes
  <1>9. TableTypes'
    BY <1>1, <1>2, <1>8 DEF FilesInv, TableTypes
  <1>10. LivesOK'
    BY <1>1, <1>2 DEF FilesInv, LivesOK, Labels
  <1>11. LabelsOK'
    <2>1. table.run <= Run /\ scenes[table.run] = Scene
      BY <1>2, <1>4 DEF Scene
    <2> QED
      BY <1>1, <1>2, <1>4, <1>6, <1>8, <2>1 DEF FilesInv, LabelsOK
  <1>12. FreshFiles'
    BY <1>5 DEF FreshFiles
  <1>13. OwnFiles'
    BY <1>1, <1>2, <1>5 DEF FilesInv, OwnFiles
  <1>14. ExactRows'
    BY <1>1, <1>2, <1>7, <1>8 DEF ExactRows
  <1> QED
    BY <1>2, <1>9, <1>10, <1>11, <1>12, <1>13, <1>14 DEF FilesInv

\* A runner that dies leaves everything as it is.
LEMMA DiesInv ==
  ASSUME FilesInv, Dies
  PROVE  FilesInv'
  <1>1. /\ UNCHANGED <<scenes, alone, full, written, here, saved, attr, collector>>
        /\ pc # "done" /\ pc' = "dead"
    BY DEF Dies, Goto
  <1>2. /\ UNCHANGED <<Run, Scene>> /\ Run \in Runs
        /\ \A q, j : WrittenBy(q, j)' = WrittenBy(q, j)
        /\ TableTypes' /\ LabelsOK' /\ FileTypes' /\ CollectorTypes'
    BY <1>1, LabelKeeps
  <1>3. LivesOK'
    BY <1>1, <1>2 DEF FilesInv, LivesOK, Labels
  <1>4. \A k \in Kinds : pc' \notin Pending(k) /\ pc' \notin Moved(k)
    BY <1>1 DEF Moved, Pending, FromClean
  <1>5. FreshFiles' /\ ExactRows'
    BY <1>1, <1>4 DEF FreshFiles, ExactRows
  <1>6. OwnFiles'
    BY <1>1, <1>2, <1>4 DEF FilesInv, OwnFiles
  <1> QED
    BY <1>2, <1>3, <1>5, <1>6 DEF FilesInv

\* full_dataset.csv takes the rows and the scene of every attr.csv it merges.
LEMMA MergeInv ==
  ASSUME FilesInv, NEW requested \in SUBSET Scenes, Merge(requested)
  PROVE  FilesInv'
  <1>1. /\ UNCHANGED <<pc, scenes, alone, here, saved, attr, collector, written>>
        /\ UNCHANGED <<Run, Scene>>
        /\ full' = UNION {{[load |-> s, row |-> w] : w \in attr[s].cpu} :
                            s \in {x \in requested : attr[x] # Absent}}
    BY DEF Merge, runner, Run, Scene
  <1>2. \A q, j : WrittenBy(q, j)' = WrittenBy(q, j)
    BY <1>1 DEF WrittenBy
  <1>3. ASSUME NEW x \in full'
        PROVE  /\ x \in [load : Scenes, row : Row]
               /\ x.row.during <= Run /\ scenes[x.row.during] = x.load
    <2>1. PICK s \in Scenes : attr[s] # Absent /\ \E w \in attr[s].cpu : x = [load |-> s, row |-> w]
      BY <1>1, <1>3
    <2>2. PICK w \in attr[s].cpu : x = [load |-> s, row |-> w]
      BY <2>1
    <2>3. w \in Row
      BY <2>1, <2>2 DEF FilesInv, TableTypes
    <2>4. w.during = attr[s].run /\ attr[s].run <= Run /\ scenes[attr[s].run] = s
      BY <2>1, <2>2 DEF FilesInv, LabelsOK
    <2> QED
      BY <2>2, <2>3, <2>4
  <1>4. TableTypes'
    BY <1>1, <1>3 DEF FilesInv, TableTypes
  <1>5. LabelsOK'
    BY <1>1, <1>3 DEF FilesInv, LabelsOK
  <1>6. FileTypes' /\ CollectorTypes' /\ FreshFiles'
    BY <1>1 DEF FilesInv, FileTypes, CollectorTypes, FreshFiles
  <1>7. LivesOK' /\ OwnFiles' /\ ExactRows'
    BY <1>1, <1>2 DEF FilesInv, LivesOK, OwnFiles, ExactRows
  <1> QED
    BY <1>4, <1>5, <1>6, <1>7 DEF FilesInv

-----------------------------------------------------------------------------
\* No step of a collector, of the runner or of the merge breaks FilesInv.
LEMMA FilesNext == FilesInv /\ [Next]_vars => FilesInv'
  <1> SUFFICES ASSUME FilesInv, [Next]_vars PROVE FilesInv'
    OBVIOUS
  <1>1. CASE UNCHANGED vars
    <2>1. /\ UNCHANGED <<pc, scenes, here, saved, attr, full, collector, written, alone>>
          /\ UNCHANGED <<Run, Scene>>
      BY <1>1 DEF vars, Run, Scene
    <2>2. \A q, j : WrittenBy(q, j)' = WrittenBy(q, j)
      BY <2>1 DEF WrittenBy
    <2>3. TableTypes' /\ FileTypes' /\ CollectorTypes' /\ FreshFiles' /\ LabelsOK'
      BY <2>1 DEF FilesInv, TableTypes, FileTypes, CollectorTypes, FreshFiles, LabelsOK
    <2>4. LivesOK' /\ OwnFiles' /\ ExactRows'
      BY <2>1, <2>2 DEF FilesInv, LivesOK, OwnFiles, ExactRows
    <2> QED
      BY <2>3, <2>4 DEF FilesInv
  <1>2. ASSUME Collectors PROVE FilesInv'
    BY <1>2, LookInv, CreateInv, WriteInv DEF Collectors
  <1>3. ASSUME Runner PROVE FilesInv'
    BY <1>3, StartInv, CleanInv, ControlInv, MoveInv, AttributeInv, DiesInv DEF Runner
  <1>4. ASSUME NEW requested \in SUBSET Scenes, Merge(requested) PROVE FilesInv'
    BY <1>4, MergeInv
  <1> QED
    BY <1>1, <1>2, <1>3, <1>4 DEF Next

\* FilesInv holds in every state of every execution.
THEOREM FilesInvariant == Spec => []FilesInv
  BY FilesInit, FilesNext, PTL DEF Spec

\* Type correctness: collectors belong to runs that began, and none of the run
\* at hand is left when its files are moved.
THEOREM FilesTypeCorrect == Spec => []FilesTypeOK
  <1>1. FilesInv => FilesTypeOK
    <2> SUFFICES ASSUME FilesInv PROVE FilesTypeOK
      OBVIOUS
    <2>1. pc \in {"moveCpu", "moveSched", "attribute"} => \A k \in Kinds : collector[Run][k] = "gone"
      BY DEF FilesInv, LivesOK
    <2> QED
      BY <2>1 DEF FilesInv, TableTypes, FileTypes, CollectorTypes, FilesTypeOK
  <1> QED
    BY <1>1, FilesInvariant, PTL

\* No attr.csv has a row that was written before its run began, and
\* full_dataset.csv labels every row with the scene of its run.
THEOREM RowsAreFresh == Spec => []FreshRows
  <1>1. FilesInv => FreshRows
    BY DEF FilesInv, LabelsOK, FreshRows
  <1> QED
    BY <1>1, FilesInvariant, PTL

\* A run that ends, and that no collector of an earlier run disturbed, has
\* attributed exactly what its own collectors wrote.
THEOREM RowsAreExact == Spec => []ExactRows
  <1>1. FilesInv => ExactRows
    BY DEF FilesInv
  <1> QED
    BY <1>1, FilesInvariant, PTL
=============================================================================
