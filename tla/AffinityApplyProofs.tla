------------------------ MODULE AffinityApplyProofs ------------------------
(***************************************************************************)
(* What holds of scripts/apply_cpu_affinity.py for every plan, every       *)
(* command line and every number of threads that come and go meanwhile.    *)
(*                                                                         *)
(* BoundAsPlanned speaks of the end of the script; BoundSoFar says the     *)
(* same of the rows the loop has passed.  MatchedOK carries the comparison *)
(* of the names, made a few system calls earlier, to the binding.          *)
(* OneThreadPerCpu rests on two facts: a thread that is not as it was born *)
(* was bound by some row (BoundByRow), and with one load type all rows are *)
(* of one window (Selected).                                               *)
(***************************************************************************)
EXTENDS AffinityApply, SequenceTheorems, FiniteSetTheorems, TLAPS

ThreadTypes ==
  /\ task \in [Tids -> Task \cup {NoTask}]
  /\ changed \in Seq(Tids) /\ Len(changed) <= MaxChanges

\* The loop is at a row, or it is over; there is one status for every row passed.
LoopOK ==
  /\ plan \in Plans
  /\ pc \in {"choose", "row", "comm", "pin", "done", "aborted"}
  /\ pos \in Nat \ {0} /\ pos <= Len(rows) + 1
  /\ pc \in {"row", "comm", "pin"} => pos <= Len(rows)
  /\ pc = "done" => pos = Len(rows) + 1
  /\ pc = "choose" => rows = <<>>
  /\ pc \in {"comm", "pin"} => ~ Unusable(Row)
  /\ report \in Seq({"skipped", "dry-run", "applied", "failed"})
  /\ Len(report) = pos - 1

\* The rows are selected ones.
RowsOK == rows \in Seq(Selected)

\* Row i speaks of the thread t as it is, and its binding was not refused.
About(i, t) ==
  /\ rows[i].tid = t
  /\ rows[i].cpu \in CpuSet
  /\ opt.strict => task[t].comm = Shown[rows[i].comm]
  /\ report[i] # "failed"

\* Row i is the last of those passed that speak of t.
LastAbout(i, t) ==
  /\ i \in 1 .. pos - 1 /\ About(i, t)
  /\ \A j \in 1 .. pos - 1 : About(j, t) => j <= i

\* A thread that has not changed is bound as the last row about it says.
BoundSoFar ==
  \A t \in Undisturbed :
    \/ opt.apply /\ \E i \in 1 .. pos - 1 : LastAbout(i, t) /\ task[t].mask = {rows[i].cpu}
    \/ /\ ~ opt.apply \/ \A i \in 1 .. pos - 1 : ~ About(i, t)
       /\ task[t].mask = CpuSet

\* The thread that is to be bound has the name of the row, unless it has changed
\* since the names were compared.
MatchedOK ==
  pc = "pin" /\ opt.strict /\ Row.tid \in Undisturbed =>
    task[Row.tid].comm = Shown[Row.comm]

\* Whoever is not as born has been bound by a row that was passed.
BoundByRow ==
  \A t \in Tids :
    task[t] # NoTask /\ task[t].mask # CpuSet =>
      \E i \in 1 .. pos - 1 : rows[i].tid = t /\ task[t].mask = {rows[i].cpu}

ApplyInv ==
  /\ ThreadTypes
  /\ LoopOK
  /\ RowsOK
  /\ BoundSoFar
  /\ MatchedOK
  /\ BoundByRow

-----------------------------------------------------------------------------
(* Types. *)

\* A row of the loop is a row of the plan, with a TID there may be.
LEMMA RowTypes ==
  ASSUME LoopOK, RowsOK
  PROVE  /\ Len(rows) \in Nat /\ pos \in Nat /\ pos >= 1
         /\ \A i \in 1 .. Len(rows) : rows[i] \in Selected /\ rows[i] \in plan
         /\ \A i \in 1 .. Len(rows) : ~ Unusable(rows[i]) => rows[i].tid \in Tids
  <1>1. Len(rows) \in Nat /\ pos \in Nat /\ pos >= 1
    BY LenProperties DEF RowsOK, LoopOK
  <1>2. \A i \in 1 .. Len(rows) : rows[i] \in Selected
    BY ElementOfSeq DEF RowsOK
  <1>3. Selected \subseteq plan
    BY DEF Selected, OfLoad
  <1>4. \A i \in 1 .. Len(rows) : ~ Unusable(rows[i]) => rows[i].tid \in Tids
    BY <1>2, <1>3, AffinityApplyAssumption DEF LoopOK, Unusable
  <1> QED
    BY <1>1, <1>2, <1>3, <1>4

\* A thread that has not changed is not changed by the script.
LEMMA SameUndisturbed ==
  ASSUME UNCHANGED changed, \A t \in Tids : task'[t] = NoTask <=> task[t] = NoTask
  PROVE  Undisturbed' = Undisturbed
  BY DEF Undisturbed

-----------------------------------------------------------------------------
\* Every thread starts with all CPUs, and no row has been chosen.
LEMMA ApplyInit == Init => ApplyInv
  <1> SUFFICES ASSUME Init PROVE ApplyInv
    OBVIOUS
  <1>1. MaxChanges \in Nat /\ CpuCount \in Nat
    BY AffinityApplyAssumption
  <1>2. ThreadTypes
    BY <1>1, EmptySeq DEF Init, ThreadTypes, Task
  <1>3. LoopOK
    BY EmptySeq DEF Init, LoopOK
  <1>4. RowsOK
    BY EmptySeq DEF Init, RowsOK
  <1>5. \A t \in Tids : task[t] # NoTask => task[t].mask = CpuSet
    BY DEF Init
  <1>6. BoundSoFar
    BY <1>5 DEF Init, BoundSoFar, Undisturbed
  <1>7. MatchedOK /\ BoundByRow
    BY <1>5 DEF Init, MatchedOK, BoundByRow
  <1> QED
    BY <1>2, <1>3, <1>4, <1>6, <1>7 DEF ApplyInv

-----------------------------------------------------------------------------
(* The script. *)

\* The rows of the loop are the selected ones in their order.
LEMMA ChooseInv == ASSUME ApplyInv, ChooseRows PROVE ApplyInv'
  <1> DEFINE n == Cardinality(Selected)
  <1>1. /\ UNCHANGED <<plan, opt, pos, opened, report, task, changed>>
        /\ pc = "choose" /\ rows' \in Sorted(Selected)
        /\ pc' = IF Selected = {} THEN "done" ELSE "row"
    BY DEF ChooseRows
  <1>2. IsFiniteSet(Selected) /\ n \in Nat /\ (n = 0 <=> Selected = {})
    <2>1. Selected \in SUBSET plan /\ IsFiniteSet(plan)
      BY AffinityApplyAssumption DEF ApplyInv, LoopOK, Selected, OfLoad
    <2>2. IsFiniteSet(Selected)
      BY <2>1, FS_Subset
    <2> QED
      BY <2>2, FS_CardinalityType, FS_EmptySet
  <1>3. rows' \in [1 .. n -> Selected]
    BY <1>1 DEF Sorted
  <1> HIDE DEF n
  <1>4. rows' \in Seq(Selected) /\ Len(rows') = n
    <2>1. rows' \in Seq(Selected)
      BY <1>2, <1>3
    <2>2. DOMAIN rows' = 1 .. n
      BY <1>3
    <2> QED
      BY <1>2, <2>1, <2>2, LenProperties
  <1>5. Selected' = Selected /\ Undisturbed' = Undisturbed
    BY <1>1 DEF Selected, OfLoad, Latest, Undisturbed
  <1>6. pos = 1 /\ rows = <<>> /\ Len(report) = 0
    <2>1. rows = <<>> /\ pos \in Nat \ {0} /\ pos <= Len(rows) + 1 /\ Len(report) = pos - 1
      BY <1>1 DEF ApplyInv, LoopOK
    <2> QED
      BY <2>1, EmptySeq
  <1>7. ThreadTypes'
    BY <1>1 DEF ApplyInv, ThreadTypes
  <1>8. LoopOK'
    BY <1>1, <1>2, <1>4, <1>6 DEF ApplyInv, LoopOK
  <1>9. RowsOK'
    BY <1>4, <1>5 DEF RowsOK
  <1>10. BoundSoFar' /\ BoundByRow'
    BY <1>1, <1>5, <1>6 DEF ApplyInv, BoundSoFar, BoundByRow
  <1>11. MatchedOK'
    BY <1>1 DEF MatchedOK
  <1> QED
    BY <1>7, <1>8, <1>9, <1>10, <1>11 DEF ApplyInv

\* The status of a row is added, those of the rows before stay.
LEMMA Reporting ==
  ASSUME ApplyInv, pc \in {"row", "comm", "pin"},
         NEW status \in {"skipped", "dry-run", "applied", "failed"}, Report(status)
  PROVE  /\ UNCHANGED <<plan, opt, rows, changed>> /\ pos' = pos + 1
         /\ LoopOK' /\ RowsOK' /\ MatchedOK'
         /\ pos \in 1 .. Len(rows) /\ Len(rows) \in Nat
         /\ report'[pos] = status /\ \A i \in 1 .. pos - 1 : report'[i] = report[i]
  <1>1. /\ UNCHANGED <<plan, opt, rows, changed>> /\ pos' = pos + 1
        /\ report' = Append(report, status)
        /\ pc' = IF pos < Len(rows) THEN "row" ELSE "done"
    BY DEF Report
  <1>2. pos \in 1 .. Len(rows) /\ Len(rows) \in Nat
    BY RowTypes DEF ApplyInv, LoopOK
  <1>3. /\ report' \in Seq({"skipped", "dry-run", "applied", "failed"})
        /\ Len(report') = pos
        /\ report'[pos] = status /\ \A i \in 1 .. pos - 1 : report'[i] = report[i]
    <2>1. report \in Seq({"skipped", "dry-run", "applied", "failed"}) /\ Len(report) = pos - 1
      BY DEF ApplyInv, LoopOK
    <2> QED
      BY <1>1, <1>2, <2>1, AppendProperties
  <1>4. LoopOK'
    BY <1>1, <1>2, <1>3 DEF ApplyInv, LoopOK
  <1>5. RowsOK'
    BY <1>1 DEF ApplyInv, RowsOK, Selected, OfLoad, Latest
  <1>6. MatchedOK'
    BY <1>1 DEF MatchedOK
  <1> QED
    BY <1>1, <1>2, <1>3, <1>4, <1>5, <1>6

\* A row that says nothing of a thread that has not changed, or in vain, is passed.
LEMMA PassedInv ==
  ASSUME ApplyInv, pc \in {"row", "comm", "pin"},
         NEW status \in {"skipped", "dry-run", "applied", "failed"}, Report(status),
         UNCHANGED task,
         \A t \in Undisturbed : opt.apply =>
           \/ Row.tid # t
           \/ Row.cpu \notin CpuSet
           \/ opt.strict /\ task[t].comm # Shown[Row.comm]
           \/ status = "failed"
  PROVE  ApplyInv'
  <1>1. /\ UNCHANGED <<plan, opt, rows, changed>> /\ pos' = pos + 1
        /\ LoopOK' /\ RowsOK' /\ MatchedOK'
        /\ pos \in 1 .. Len(rows) /\ Len(rows) \in Nat
        /\ report'[pos] = status /\ \A i \in 1 .. pos - 1 : report'[i] = report[i]
    BY Reporting
  <1>2. PICK k \in Nat : k = pos
    BY <1>1
  <1>3. Undisturbed' = Undisturbed
    BY <1>1, SameUndisturbed
  <1>4. ThreadTypes'
    BY <1>1 DEF ApplyInv, ThreadTypes
  <1>5. \A t : \A i \in 1 .. pos - 1 : About(i, t)' <=> About(i, t)
    BY <1>1 DEF About
  <1>6. \A t \in Undisturbed : opt.apply => ~ About(k, t)'
    BY <1>1, <1>2 DEF About, Row
  <1>7. \A t \in Undisturbed : opt.apply =>
          \A i \in 1 .. pos - 1 : LastAbout(i, t) => LastAbout(i, t)'
    BY <1>1, <1>5, <1>6, <1>2 DEF LastAbout
  <1>8. BoundSoFar'
    <2> SUFFICES ASSUME NEW t \in Undisturbed
                 PROVE  \/ opt.apply /\ \E i \in 1 .. pos : LastAbout(i, t)' /\ task[t].mask = {rows[i].cpu}
                        \/ /\ ~ opt.apply \/ \A i \in 1 .. pos : ~ About(i, t)'
                           /\ task[t].mask = CpuSet
      BY <1>1, <1>3 DEF BoundSoFar
    <2>1. CASE opt.apply /\ \E i \in 1 .. pos - 1 : LastAbout(i, t) /\ task[t].mask = {rows[i].cpu}
      BY <1>1, <1>7, <2>1
    <2>2. CASE /\ ~ opt.apply \/ \A i \in 1 .. pos - 1 : ~ About(i, t)
               /\ task[t].mask = CpuSet
      BY <1>1, <1>5, <1>6, <1>2, <2>2
    <2> QED
      BY <2>1, <2>2 DEF ApplyInv, BoundSoFar
  <1>9. BoundByRow'
    BY <1>1 DEF ApplyInv, BoundByRow
  <1> QED
    BY <1>1, <1>4, <1>8, <1>9 DEF ApplyInv

\* Rows that are skipped, and bindings that are refused or only tried.
LEMMA SkipInv ==
  ASSUME ApplyInv, SkipRow \/ NotLive \/ CommDiffers \/ DryRun \/ TaskExited \/ PinFails
  PROVE  ApplyInv'
  <1>1. \A t \in Undisturbed : task[t] # NoTask
    BY DEF Undisturbed
  <1>2. CASE SkipRow
    <2>1. \A t \in Undisturbed : Row.tid # t \/ Row.cpu \notin CpuSet
      BY <1>2, AffinityApplyAssumption DEF SkipRow, Unusable, Undisturbed, Unparsed
    <2> QED
      BY <1>2, <2>1, PassedInv DEF SkipRow
  <1>3. CASE NotLive
    BY <1>1, <1>3, PassedInv DEF NotLive
  <1>4. CASE CommDiffers
    <2>1. opt.strict /\ task[Row.tid].comm # Shown[Row.comm]
      BY <1>4 DEF CommDiffers, Accepted, SameComm
    <2> QED
      BY <1>4, <2>1, PassedInv DEF CommDiffers
  <1>5. CASE DryRun
    BY <1>5, PassedInv DEF DryRun
  <1>6. CASE TaskExited
    BY <1>1, <1>6, PassedInv DEF TaskExited
  <1>7. CASE PinFails
    BY <1>7, PassedInv DEF PinFails
  <1> QED
    BY <1>2, <1>3, <1>4, <1>5, <1>6, <1>7

\* A binding makes the row the last one about its thread.
LEMMA PinInv == ASSUME ApplyInv, Pin PROVE ApplyInv'
  <1>1. PICK k, u : k \in Nat /\ k = pos /\ u = Row.tid
    BY DEF ApplyInv, LoopOK
  <1>2. /\ pc = "pin" /\ opt.apply /\ task[u] # NoTask
        /\ task' = [task EXCEPT ![u].mask = {Row.cpu}] /\ Report("applied")
    BY <1>1 DEF Pin
  <1>3. /\ UNCHANGED <<plan, opt, rows, changed>> /\ pos' = pos + 1
        /\ LoopOK' /\ RowsOK' /\ MatchedOK'
        /\ pos \in 1 .. Len(rows) /\ Len(rows) \in Nat
        /\ report'[pos] = "applied" /\ \A i \in 1 .. pos - 1 : report'[i] = report[i]
    BY <1>2, Reporting
  <1>4. u \in Tids /\ Row.cpu \in CpuSet /\ Row = rows[pos]
    BY <1>2, <1>3, <1>1, RowTypes DEF ApplyInv, LoopOK, Unusable, Row
  <1>5. task[u] \in Task
    BY <1>2, <1>4 DEF ApplyInv, ThreadTypes
  <1> DEFINE new == [born |-> task[u].born, comm |-> task[u].comm, mask |-> {Row.cpu}]
  <1>6. /\ new \in Task /\ new.comm = task[u].comm /\ new.mask = {Row.cpu}
        /\ task' = [task EXCEPT ![u] = new]
    <2>1. new = [task[u] EXCEPT !.mask = {Row.cpu}]
      BY <1>5 DEF Task
    <2>2. new \in Task
      BY <1>4, <1>5 DEF Task
    <2> QED
      BY <1>2, <2>1, <2>2
  <1> HIDE DEF new
  <1>7. \A t \in Tids : task'[t] = IF t = u THEN new ELSE task[t]
    BY <1>6 DEF ApplyInv, ThreadTypes
  <1>8. ThreadTypes'
    BY <1>3, <1>4, <1>6 DEF ApplyInv, ThreadTypes
  <1>9. Undisturbed' \subseteq Undisturbed
    BY <1>2, <1>3, <1>7 DEF Undisturbed
  <1>10. \A t \in Tids : \A i \in 1 .. pos - 1 : About(i, t)' <=> About(i, t)
    BY <1>3, <1>6, <1>7 DEF About
  <1>11. \A t \in Tids : t # u => ~ About(k, t)'
    BY <1>3, <1>4, <1>1 DEF About
  <1>12. u \in Undisturbed => LastAbout(k, u)'
    <2> SUFFICES ASSUME u \in Undisturbed PROVE LastAbout(k, u)'
      OBVIOUS
    <2>1. opt.strict => task[u].comm = Shown[Row.comm]
      BY <1>2, <1>1 DEF ApplyInv, MatchedOK
    <2>2. About(k, u)'
      BY <1>3, <1>4, <1>6, <1>7, <1>1, <2>1 DEF About
    <2> QED
      BY <1>3, <1>1, <2>2 DEF LastAbout
  <1>13. BoundSoFar'
    <2> SUFFICES ASSUME NEW t \in Undisturbed
                 PROVE  \/ opt.apply /\ \E i \in 1 .. pos : LastAbout(i, t)' /\ task'[t].mask = {rows[i].cpu}
                        \/ /\ ~ opt.apply \/ \A i \in 1 .. pos : ~ About(i, t)'
                           /\ task'[t].mask = CpuSet
      BY <1>3, <1>9 DEF BoundSoFar
    <2>1. CASE t = u
      BY <1>2, <1>3, <1>4, <1>6, <1>7, <1>12, <1>1, <2>1
    <2>2. CASE t # u
      <3>1. t \in Tids /\ task'[t] = task[t]
        BY <1>7, <2>2 DEF Undisturbed
      <3>2. CASE \E i \in 1 .. pos - 1 : LastAbout(i, t) /\ task[t].mask = {rows[i].cpu}
        <4>1. PICK i \in 1 .. pos - 1 : LastAbout(i, t) /\ task[t].mask = {rows[i].cpu}
          BY <3>2
        <4>2. \A j \in 1 .. pos : About(j, t)' => j \in 1 .. pos - 1 /\ About(j, t)
          BY <1>3, <1>10, <1>11, <1>1, <2>2, <3>1
        <4>3. i \in 1 .. pos /\ About(i, t)' /\ \A j \in 1 .. pos : About(j, t)' => j <= i
          BY <1>3, <1>10, <3>1, <4>1, <4>2 DEF LastAbout
        <4>4. pos' - 1 = pos
          BY <1>3
        <4>5. LastAbout(i, t)'
          BY <4>3, <4>4 DEF LastAbout
        <4> QED
          BY <1>2, <1>3, <3>1, <4>1, <4>3, <4>5
      <3>3. CASE (\A i \in 1 .. pos - 1 : ~ About(i, t)) /\ task[t].mask = CpuSet
        BY <1>3, <1>10, <1>11, <1>1, <2>2, <3>1, <3>3
      <3> QED
        BY <1>2, <3>2, <3>3 DEF ApplyInv, BoundSoFar
    <2> QED
      BY <2>1, <2>2
  <1>14. BoundByRow'
    <2> SUFFICES ASSUME NEW t \in Tids, task'[t] # NoTask, task'[t].mask # CpuSet
                 PROVE  \E i \in 1 .. pos : rows[i].tid = t /\ task'[t].mask = {rows[i].cpu}
      BY <1>3 DEF BoundByRow
    <2>1. CASE t = u
      BY <1>3, <1>4, <1>6, <1>7, <1>1, <2>1
    <2>2. CASE t # u
      BY <1>3, <1>7, <2>2 DEF ApplyInv, BoundByRow
    <2> QED
      BY <2>1, <2>2
  <1> QED
    BY <1>3, <1>8, <1>13, <1>14 DEF ApplyInv

\* What happens between two system calls of the script: it opens the file of the
\* name, reads it, or gives up.
LEMMA CommInv ==
  ASSUME ApplyInv, OpenComm \/ CommGone \/ CommMatches
  PROVE  ApplyInv'
  <1>1. UNCHANGED <<plan, opt, rows, pos, report, task, changed>>
    BY DEF OpenComm, CommGone, CommMatches, Goto
  <1>2. /\ Undisturbed' = Undisturbed /\ Selected' = Selected /\ Row' = Row
        /\ \A i, t : About(i, t)' <=> About(i, t)
    BY <1>1 DEF Undisturbed, Selected, OfLoad, Latest, Row, About
  <1>3. \A i, t : LastAbout(i, t)' <=> LastAbout(i, t)
    BY <1>1, <1>2 DEF LastAbout
  <1>4. ThreadTypes' /\ RowsOK' /\ BoundByRow'
    BY <1>1, <1>2 DEF ApplyInv, ThreadTypes, RowsOK, BoundByRow
  <1>5. BoundSoFar'
    BY <1>1, <1>2, <1>3 DEF ApplyInv, BoundSoFar
  <1>6. LoopOK'
    BY <1>1, <1>2 DEF ApplyInv, LoopOK, OpenComm, CommGone, CommMatches, Goto, Unusable
  <1>7. MatchedOK'
    BY <1>1, <1>2 DEF MatchedOK, OpenComm, CommGone, CommMatches, Goto, Accepted, SameComm
  <1> QED
    BY <1>4, <1>5, <1>6, <1>7 DEF ApplyInv

-----------------------------------------------------------------------------
\* A thread that exits, is born or takes another name is disturbed from then on;
\* the others are as they were.
LEMMA ChangeInv ==
  ASSUME ApplyInv, NEW t \in Tids,
         Exit(t) \/ \E comm \in Names : Reuse(t, comm) \/ Rename(t, comm)
  PROVE  ApplyInv'
  <1>1. PICK new : /\ Change(t, new) /\ new \in Task \cup {NoTask}
                   /\ \/ new = NoTask \/ new.mask = CpuSet
                      \/ task[t] # NoTask /\ new.mask = task[t].mask
    <2>1. CASE Exit(t)
      BY <2>1 DEF Exit
    <2>2. ASSUME NEW comm \in Names, Reuse(t, comm)
          PROVE  /\ Change(t, [born |-> Len(changed) + 1, comm |-> comm, mask |-> CpuSet])
                 /\ [born |-> Len(changed) + 1, comm |-> comm, mask |-> CpuSet] \in Task
      <3>1. Len(changed) \in Nat /\ Len(changed) < MaxChanges
        BY <2>2, LenProperties DEF Reuse, Change, ApplyInv, ThreadTypes
      <3>2. Len(changed) + 1 \in 0 .. MaxChanges
        BY <3>1, AffinityApplyAssumption
      <3> QED
        BY <2>2, <3>2 DEF Reuse, Task
    <2>3. ASSUME NEW comm \in Names, Rename(t, comm)
          PROVE  /\ Change(t, [task[t] EXCEPT !.comm = comm]) /\ task[t] # NoTask
                 /\ [task[t] EXCEPT !.comm = comm] \in Task
                 /\ [task[t] EXCEPT !.comm = comm].mask = task[t].mask
      <3>1. task[t] \in Task
        BY <2>3 DEF Rename, ApplyInv, ThreadTypes
      <3> QED
        BY <2>3, <3>1 DEF Rename, Task
    <2>4. ASSUME NEW comm \in Names, Reuse(t, comm) \/ Rename(t, comm)
          PROVE  \E new : /\ Change(t, new) /\ new \in Task
                         /\ \/ new.mask = CpuSet
                            \/ task[t] # NoTask /\ new.mask = task[t].mask
      <3>1. CASE Reuse(t, comm)
        <4> DEFINE new == [born |-> Len(changed) + 1, comm |-> comm, mask |-> CpuSet]
        <4>1. Change(t, new) /\ new \in Task /\ new.mask = CpuSet
          BY <2>2, <3>1
        <4> QED
          BY <4>1
      <3>2. CASE Rename(t, comm)
        BY <2>3, <3>2
      <3> QED
        BY <2>4, <3>1, <3>2
    <2> QED
      BY <2>1, <2>4
  <1>2. /\ UNCHANGED <<plan, opt, rows, pos, pc, opened, report>>
        /\ changed' = Append(changed, t) /\ Len(changed) < MaxChanges
        /\ task' = [task EXCEPT ![t] = new]
    BY <1>1 DEF Change
  <1>3. \A u \in Tids : task'[u] = IF u = t THEN new ELSE task[u]
    BY <1>2 DEF ApplyInv, ThreadTypes
  <1>4. /\ changed' \in Seq(Tids) /\ Len(changed') = Len(changed) + 1 /\ Len(changed) \in Nat
        /\ changed'[Len(changed) + 1] = t
        /\ \A i \in 1 .. Len(changed) : changed'[i] = changed[i]
    BY <1>2, AppendProperties, LenProperties DEF ApplyInv, ThreadTypes
  <1>5. ThreadTypes'
    BY <1>1, <1>2, <1>4, AffinityApplyAssumption DEF ApplyInv, ThreadTypes
  <1>6. \A u \in Undisturbed' : u \in Undisturbed /\ u \in Tids /\ u # t /\ task'[u] = task[u]
    <2> SUFFICES ASSUME NEW u \in Undisturbed'
                 PROVE  u \in Undisturbed /\ u \in Tids /\ u # t /\ task'[u] = task[u]
      OBVIOUS
    <2>1. u \in Tids /\ task'[u] # NoTask /\ \A i \in 1 .. Len(changed) + 1 : u # changed'[i]
      BY <1>4 DEF Undisturbed
    <2>2. u # t /\ \A i \in 1 .. Len(changed) : u # changed[i]
      BY <1>4, <2>1
    <2> QED
      BY <1>3, <2>1, <2>2 DEF Undisturbed
  <1>7. \A u \in Undisturbed' : \A i : About(i, u)' <=> About(i, u)
    BY <1>2, <1>6 DEF About
  <1>8. \A u \in Undisturbed' : \A i : LastAbout(i, u)' <=> LastAbout(i, u)
    BY <1>2, <1>7 DEF LastAbout
  <1>9. BoundSoFar'
    BY <1>2, <1>6, <1>7, <1>8 DEF ApplyInv, BoundSoFar
  <1>10. Row' = Row /\ Selected' = Selected
    BY <1>2 DEF Row, Selected, OfLoad, Latest
  <1>11. LoopOK' /\ RowsOK'
    BY <1>2, <1>10 DEF ApplyInv, LoopOK, RowsOK, Unusable
  <1>12. MatchedOK'
    BY <1>2, <1>6, <1>10 DEF ApplyInv, MatchedOK
  <1>13. BoundByRow'
    BY <1>1, <1>2, <1>3 DEF ApplyInv, BoundByRow
  <1> QED
    BY <1>5, <1>9, <1>11, <1>12, <1>13 DEF ApplyInv

-----------------------------------------------------------------------------
\* No step of the script or of a thread breaks ApplyInv.
LEMMA ApplyNext == ApplyInv /\ [Next]_vars => ApplyInv'
  <1> SUFFICES ASSUME ApplyInv, [Next]_vars PROVE ApplyInv'
    OBVIOUS
  <1>1. CASE UNCHANGED vars
    <2>1. UNCHANGED <<plan, opt, rows, pos, pc, opened, report, task, changed>>
      BY <1>1 DEF vars
    <2>2. /\ Undisturbed' = Undisturbed /\ Selected' = Selected /\ Row' = Row
          /\ \A i, t : About(i, t)' <=> About(i, t)
      BY <2>1 DEF Undisturbed, Selected, OfLoad, Latest, Row, About
    <2>3. \A i, t : LastAbout(i, t)' <=> LastAbout(i, t)
      BY <2>1, <2>2 DEF LastAbout
    <2>4. ThreadTypes' /\ RowsOK' /\ BoundByRow' /\ MatchedOK'
      BY <2>1, <2>2 DEF ApplyInv, ThreadTypes, RowsOK, BoundByRow, MatchedOK
    <2>5. LoopOK' /\ BoundSoFar'
      BY <2>1, <2>2, <2>3 DEF ApplyInv, LoopOK, BoundSoFar, Unusable
    <2> QED
      BY <2>4, <2>5 DEF ApplyInv
  <1>2. CASE Script
    BY <1>2, ChooseInv, SkipInv, PinInv, CommInv DEF Script
  <1>3. CASE Threads
    BY <1>3, ChangeInv DEF Threads
  <1> QED
    BY <1>1, <1>2, <1>3 DEF Next

\* ApplyInv holds in every state of every execution.
THEOREM ApplyInvariant == Spec => []ApplyInv
  BY ApplyInit, ApplyNext, PTL DEF Spec

\* Type correctness: one status for every row passed, and only a TID and a CPU
\* there may be reach sched_setaffinity.
THEOREM ApplyTypeCorrect == Spec => []ApplyTypeOK
  <1>1. ApplyInv => ApplyTypeOK
    <2> SUFFICES ASSUME ApplyInv PROVE ApplyTypeOK
      OBVIOUS
    <2>1. pos \in 1 .. Len(rows) + 1
      BY RowTypes DEF ApplyInv, LoopOK
    <2>2. pc \in {"comm", "pin"} => Row.tid \in Tids /\ Row.cpu \in CpuSet
      <3> SUFFICES ASSUME pc \in {"comm", "pin"} PROVE Row.tid \in Tids /\ Row.cpu \in CpuSet
        OBVIOUS
      <3>1. ~ Unusable(Row) /\ pos <= Len(rows)
        BY DEF ApplyInv, LoopOK
      <3>2. pos \in 1 .. Len(rows)
        BY <3>1, RowTypes DEF ApplyInv
      <3> QED
        BY <3>1, <3>2, RowTypes DEF ApplyInv, Row, Unusable
    <2> QED
      BY <2>1, <2>2 DEF ApplyInv, ThreadTypes, LoopOK, ApplyTypeOK
  <1> QED
    BY <1>1, ApplyInvariant, PTL

\* When the script has ended, a thread that was there all the time is bound as
\* the last row about it says, and left alone if there is none.
THEOREM ThreadsBoundAsPlanned == Spec => []BoundAsPlanned
  <1>1. ApplyInv => BoundAsPlanned
    <2> SUFFICES ASSUME ApplyInv, pc = "done", NEW t \in Undisturbed
                 PROVE  task[t].mask =
                          IF opt.apply /\ RowsOf(t) # {}
                            THEN {rows[CHOOSE i \in RowsOf(t) : \A j \in RowsOf(t) : j <= i].cpu}
                            ELSE CpuSet
      BY DEF BoundAsPlanned
    <2>1. pos - 1 = Len(rows) /\ Len(rows) \in Nat
      BY RowTypes DEF ApplyInv, LoopOK
    <2>2. RowsOf(t) = {i \in 1 .. pos - 1 : About(i, t)}
      BY <2>1 DEF RowsOf, About
    <2>3. CASE opt.apply /\ \E i \in 1 .. pos - 1 : LastAbout(i, t) /\ task[t].mask = {rows[i].cpu}
      <3>1. PICK i \in 1 .. pos - 1 : LastAbout(i, t) /\ task[t].mask = {rows[i].cpu}
        BY <2>3
      <3>2. i \in RowsOf(t) /\ \A j \in RowsOf(t) : j <= i
        BY <2>2, <3>1 DEF LastAbout
      <3>3. RowsOf(t) \subseteq Nat
        BY <2>1, <2>2
      <3>4. \A k \in RowsOf(t) : (\A j \in RowsOf(t) : j <= k) => k = i
        BY <3>2, <3>3
      <3>5. (CHOOSE k \in RowsOf(t) : \A j \in RowsOf(t) : j <= k) = i
        BY <3>2, <3>4
      <3> QED
        BY <2>3, <3>1, <3>2, <3>5
    <2>4. CASE /\ ~ opt.apply \/ \A i \in 1 .. pos - 1 : ~ About(i, t)
               /\ task[t].mask = CpuSet
      BY <2>2, <2>4
    <2> QED
      BY <2>3, <2>4 DEF ApplyInv, BoundSoFar
  <1> QED
    BY <1>1, ApplyInvariant, PTL

\* With one load type given, no two threads are bound to one CPU.
THEOREM NoSharedCpu == Spec => []OneThreadPerCpu
  <1>1. ApplyInv => OneThreadPerCpu
    <2> SUFFICES ASSUME ApplyInv, opt.load # NotGiven, NEW t \in Tids, NEW u \in Tids, t # u,
                        task[t] # NoTask, task[u] # NoTask,
                        task[t].mask # CpuSet, task[u].mask # CpuSet
                 PROVE  task[t].mask \cap task[u].mask = {}
      BY DEF OneThreadPerCpu
    <2>1. PICK i \in 1 .. pos - 1 : rows[i].tid = t /\ task[t].mask = {rows[i].cpu}
      BY DEF ApplyInv, BoundByRow
    <2>2. PICK j \in 1 .. pos - 1 : rows[j].tid = u /\ task[u].mask = {rows[j].cpu}
      BY DEF ApplyInv, BoundByRow
    <2>3. rows[i] \in Selected /\ rows[j] \in Selected
      BY RowTypes DEF ApplyInv, LoopOK
    <2>4. rows[i].load = rows[j].load /\ rows[i] \in plan /\ rows[j] \in plan
      BY <2>3 DEF Selected, OfLoad
    <2>5. rows[i].window = rows[j].window
      <3>1. rows[i].window \in Nat /\ rows[j].window \in Nat
        BY <2>4, AffinityApplyAssumption DEF ApplyInv, LoopOK
      <3> QED
        BY <2>3, <2>4, <3>1 DEF Selected, OfLoad, Latest
    <2>6. rows[i].cpu # rows[j].cpu
      BY <2>1, <2>2, <2>4, <2>5, AffinityApplyAssumption DEF ApplyInv, LoopOK
    <2> QED
      BY <2>1, <2>2, <2>6
  <1> QED
    BY <1>1, ApplyInvariant, PTL
=============================================================================
