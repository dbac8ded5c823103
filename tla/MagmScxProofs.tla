--------------------------- MODULE MagmScxProofs ---------------------------
(***************************************************************************)
(* What holds of the sched_ext prototype for every plan, every set of      *)
(* tasks and CPUs and every capacity of the map.                           *)
(*                                                                         *)
(* All but the placement of the tasks rests on one fact: the loader is     *)
(* through with the map and the counters before the kernel calls the BPF   *)
(* side for the first time.  ScxInv has this as StagesOK, and beside it    *)
(* what the map holds of the lines read so far (OriginOK, LatestOK,        *)
(* LoadedOK, AdmittedOK), how many of them have been counted               *)
(* (ConfiguredOK), what the tasks have been told (ToldOK) and where they   *)
(* are (PlacesOK).                                                         *)
(***************************************************************************)
EXTENDS MagmScx, SequenceTheorems, FiniteSetTheorems, TLAPS

\* The lines of the plan that load_plan_csv is through with.
Passed == IF pc \in {"bump", "write"} THEN 1 .. pos ELSE 1 .. pos - 1

\* The types of what the loader has.
LoaderTypes ==
  /\ plan \in Plans
  /\ pc \in {"open", "load", "bump", "write", "attach", "arm", "loop", "cleanup", "gone"}
  /\ pos \in Nat \ {0} /\ pos <= Len(plan) + 1
  /\ pc \in {"bump", "write"} => pos <= Len(plan)
  /\ signalled \in BOOLEAN /\ armed \in BOOLEAN /\ exiting \in BOOLEAN /\ attached \in BOOLEAN
  /\ selects \in 0 .. MaxSelects

MapTypes ==
  /\ DOMAIN target \subseteq Nat
  /\ target \in [DOMAIN target -> Nat]
  /\ IsFiniteSet(DOMAIN target) /\ Cardinality(DOMAIN target) <= MapCapacity
  /\ stat \in [configured : Nat, selected : Nat, fallback : Nat]
  /\ copy \in [configured : Nat, selected : Nat, fallback : Nat]

\* The scheduler is attached only when the plan is loaded, and the kernel has
\* no task of it otherwise.
StagesOK ==
  /\ attached => pc \in {"arm", "loop", "cleanup"}
  /\ attached \/ pc \in {"attach", "arm", "loop"} => pos = Len(plan) + 1
  /\ pc \in {"open", "load", "bump", "write", "attach"} => selects = 0
  /\ ~ attached => at = AllAsleep /\ hint = NoHint /\ dsq = <<>> /\ on = AllIdle

\* Nothing was counted while bump_configured had its copy.
CountsOK ==
  /\ stat.selected + stat.fallback = selects
  /\ pc = "write" => copy = stat

\* A line whose entry has been made is one to count, once.
ConfiguredOK ==
  /\ stat.configured = Cardinality({k \in 1 .. pos - 1 : Accepted(k)})
  /\ pc \in {"bump", "write"} => Accepted(pos)

\* An entry of the map comes from a usable line read so far ...
OriginOK ==
  \A t \in DOMAIN target :
    \E k \in 1 .. Len(plan) :
      /\ k <= pos /\ (pc # "gone" => k \in Passed)
      /\ Usable(plan[k]) /\ plan[k].tid = t /\ plan[k].cpu = target[t]

\* ... and from the last one of its TID: no later one says anything else.
LatestOK ==
  pc # "gone" =>
    \A t \in DOMAIN target : \A k \in Passed :
      (/\ Usable(plan[k]) /\ plan[k].tid = t
       /\ \A j \in Passed : j > k => plan[j].tid # t \/ ~ Usable(plan[j]))
      => plan[k].cpu = target[t]

\* The TID of a line that can enter the map has done so.
LoadedOK == pc # "gone" => \A k \in Passed : Accepted(k) => plan[k].tid \in DOMAIN target

\* The map has refused no TID before it was full, and none has entered it by a
\* line that Accepted does not name.
AdmittedOK ==
  pc # "gone" =>
    /\ \A t \in DOMAIN target : \E k \in Passed : Accepted(k) /\ plan[k].tid = t
    /\ Cardinality(DOMAIN target) < MapCapacity =>
         \A k \in Passed : Usable(plan[k]) => plan[k].tid \in DOMAIN target

\* A task has been told what the map says of it, and one that was not in the
\* map is counted as a fallback, one that was as selected.
ToldOK ==
  /\ \A t \in Tids : hint[t] # NoCpu /\ t \in DOMAIN target => hint[t] = target[t]
  /\ stat.fallback > 0 => \E t \in Tids : t \notin DOMAIN target
  /\ stat.selected > 0 => \E t \in Tids : t \in DOMAIN target

\* The scheduler was ejected only for a CPU the host does not have.
EjectedOK ==
  (pc \in {"arm", "loop"} /\ ~ attached) =>
    \E t \in DOMAIN target : target[t] \notin Cpus

PlacesOK ==
  /\ at \in [Tids -> {"asleep", "chosen", "queued", "running"}]
  /\ hint \in [Tids -> Cpus \cup {NoCpu}]
  /\ on \in [Cpus -> Tids \cup {NoTask}]
  /\ dsq \in Seq(Tids)
  /\ \A i, j \in 1 .. Len(dsq) : dsq[i] = dsq[j] => i = j
  /\ \A t \in Tids : at[t] = "queued" <=> \E i \in 1 .. Len(dsq) : dsq[i] = t
  /\ \A t \in Tids : at[t] = "running" <=> \E c \in Cpus : on[c] = t
  /\ \A c, d \in Cpus : on[c] = on[d] /\ on[c] # NoTask => c = d

ScxInv ==
  /\ LoaderTypes
  /\ MapTypes
  /\ StagesOK
  /\ CountsOK
  /\ ConfiguredOK
  /\ OriginOK
  /\ LatestOK
  /\ LoadedOK
  /\ AdmittedOK
  /\ ToldOK
  /\ EjectedOK
  /\ PlacesOK

-----------------------------------------------------------------------------
(* The plan and the map. *)

\* A plan is a sequence of lines.
LEMMA PlanTypes ==
  ASSUME LoaderTypes
  PROVE  /\ plan \in Seq(Row) /\ Len(plan) \in Nat
         /\ \A k \in 1 .. Len(plan) :
              plan[k].tid \in Nat /\ plan[k].cpu \in Nat /\ plan[k].cut \in BOOLEAN
         /\ Passed \subseteq 1 .. Len(plan)
  <1>1. plan \in Seq(Row) /\ Len(plan) \in Nat
    BY MagmScxAssumption, LenProperties DEF LoaderTypes
  <1>2. \A k \in 1 .. Len(plan) : plan[k] \in Row
    BY <1>1, ElementOfSeq
  <1>3. Passed \subseteq 1 .. Len(plan)
    BY <1>1 DEF LoaderTypes, Passed
  <1> QED
    BY <1>1, <1>2, <1>3 DEF Row

\* What is said of the plan stays true.
LEMMA PlanStable ==
  ASSUME UNCHANGED plan
  PROVE  \A k : Accepted(k)' = Accepted(k)
  BY DEF Accepted, Earlier, Usable

\* The TIDs of the lines before a line are finitely many.
LEMMA EarlierFinite ==
  ASSUME LoaderTypes, NEW k \in 1 .. Len(plan)
  PROVE  IsFiniteSet(Earlier(k)) /\ Cardinality(Earlier(k)) \in Nat
  <1> DEFINE S == {j \in 1 .. k - 1 : Usable(plan[j])}
             f == [i \in S |-> plan[i].tid]
  <1>1. IsFiniteSet(S)
    <2>1. k - 1 \in Int /\ IsFiniteSet(1 .. k - 1)
      BY PlanTypes, FS_Interval
    <2> QED
      BY <2>1, FS_Subset
  <1>2. f \in Surjection(S, Earlier(k))
    BY DEF Earlier, Surjection
  <1> QED
    BY <1>1, <1>2, FS_Surjection, FS_CardinalityType

\* A step that reads no line leaves the map as true as it was.
LEMMA MapKept ==
  ASSUME ScxInv, UNCHANGED <<plan, target>>, pos' \in Nat, pos' >= pos,
         pc' = "gone" \/ (pc # "gone" /\ Passed' = Passed)
  PROVE  OriginOK' /\ LatestOK' /\ LoadedOK' /\ AdmittedOK'
  <1>1. OriginOK'
    <2> SUFFICES ASSUME NEW t \in DOMAIN target
                 PROVE  \E k \in 1 .. Len(plan) :
                          /\ k <= pos' /\ (pc' # "gone" => k \in Passed')
                          /\ Usable(plan[k]) /\ plan[k].tid = t /\ plan[k].cpu = target[t]
      BY DEF OriginOK, Usable
    <2>1. PICK k \in 1 .. Len(plan) :
            /\ k <= pos /\ (pc # "gone" => k \in Passed)
            /\ Usable(plan[k]) /\ plan[k].tid = t /\ plan[k].cpu = target[t]
      BY DEF ScxInv, OriginOK
    <2>2. k <= pos'
      BY <2>1, PlanTypes DEF ScxInv, LoaderTypes
    <2> QED
      BY <2>1, <2>2
  <1>2. LatestOK'
    BY DEF ScxInv, LatestOK, Usable
  <1>3. LoadedOK'
    BY PlanStable DEF ScxInv, LoadedOK
  <1>4. AdmittedOK'
    BY PlanStable DEF ScxInv, AdmittedOK, Usable
  <1> QED
    BY <1>1, <1>2, <1>3, <1>4

\* A step that counts no line leaves the count as true as it was.
LEMMA ConfiguredKept ==
  ASSUME ScxInv, UNCHANGED <<plan, pos>>, stat'.configured = stat.configured,
         pc' \in {"bump", "write"} => pc \in {"bump", "write"}
  PROVE  ConfiguredOK'
  <1>1. \A k : Accepted(k)' = Accepted(k)
    BY PlanStable
  <1>2. {k \in 1 .. pos - 1 : Accepted(k)}' = {k \in 1 .. pos - 1 : Accepted(k)}
    BY <1>1
  <1>3. pc' \in {"bump", "write"} => Accepted(pos)'
    BY <1>1 DEF ScxInv, ConfiguredOK
  <1> QED
    BY <1>2, <1>3 DEF ScxInv, ConfiguredOK

-----------------------------------------------------------------------------
(* The tasks. *)

\* Where nothing is, nothing is amiss.
LEMMA ReleasedPlaces ==
  /\ (at = AllAsleep /\ hint = NoHint /\ dsq = <<>> /\ on = AllIdle) => PlacesOK
  /\ Released => PlacesOK'
  <1>1. ASSUME at = AllAsleep, hint = NoHint, dsq = <<>>, on = AllIdle PROVE PlacesOK
    <2>1. Len(dsq) = 0 /\ dsq \in Seq(Tids)
      BY <1>1
    <2>2. /\ \A t \in Tids : at[t] = "asleep" /\ \A c \in Cpus : on[c] # t
          /\ \A c \in Cpus : on[c] = NoTask
      BY <1>1, MagmScxAssumption DEF AllAsleep, AllIdle
    <2>3. /\ at \in [Tids -> {"asleep", "chosen", "queued", "running"}]
          /\ hint \in [Tids -> Cpus \cup {NoCpu}]
          /\ on \in [Cpus -> Tids \cup {NoTask}]
      BY <1>1 DEF AllAsleep, NoHint, AllIdle
    <2> QED
      BY <2>1, <2>2, <2>3 DEF PlacesOK
  <1>2. Released => PlacesOK'
    BY MagmScxAssumption DEF Released, PlacesOK, AllAsleep, NoHint, AllIdle
  <1> QED
    BY <1>1, <1>2

\* The types of the tasks, and that a task at the head of the queue is a task.
LEMMA PlaceTypes ==
  ASSUME PlacesOK
  PROVE  /\ Len(dsq) \in Nat /\ dsq \in [1 .. Len(dsq) -> Tids]
         /\ dsq # <<>> => Len(dsq) > 0 /\ Head(dsq) = dsq[1] /\ dsq[1] \in Tids
  <1>1. dsq \in Seq(Tids)
    BY DEF PlacesOK
  <1>2. Len(dsq) \in Nat /\ dsq \in [1 .. Len(dsq) -> Tids]
    BY <1>1, LenProperties
  <1>3. ASSUME dsq # <<>> PROVE Len(dsq) > 0 /\ Head(dsq) = dsq[1] /\ dsq[1] \in Tids
    BY <1>1, <1>2, <1>3, EmptySeq
  <1> QED
    BY <1>2, <1>3

\* Inserting a task that is neither queued nor stays on a CPU.
LEMMA InsertPlaces ==
  ASSUME PlacesOK, NEW t \in Tids, at[t] # "queued",
         dsq' = Append(dsq, t), at' = [at EXCEPT ![t] = "queued"],
         hint' \in [Tids -> Cpus \cup {NoCpu}],
         on' \in [Cpus -> Tids \cup {NoTask}],
         \A c \in Cpus : on'[c] = IF on[c] = t THEN NoTask ELSE on[c]
  PROVE  PlacesOK'
  <1>1. /\ dsq' \in Seq(Tids) /\ Len(dsq') = Len(dsq) + 1 /\ dsq'[Len(dsq) + 1] = t
        /\ \A i \in 1 .. Len(dsq) : dsq'[i] = dsq[i]
    BY AppendProperties DEF PlacesOK
  <1>2. \A i \in 1 .. Len(dsq) : dsq[i] # t
    BY DEF PlacesOK
  <1>3. \A i, j \in 1 .. Len(dsq') : dsq'[i] = dsq'[j] => i = j
    BY <1>1, <1>2, PlaceTypes DEF PlacesOK
  <1>4. at' \in [Tids -> {"asleep", "chosen", "queued", "running"}]
    BY DEF PlacesOK
  <1>5. ASSUME NEW u \in Tids
        PROVE  /\ at'[u] = "queued" <=> \E i \in 1 .. Len(dsq') : dsq'[i] = u
               /\ at'[u] = "running" <=> \E c \in Cpus : on'[c] = u
    <2>1. CASE u = t
      <3>1. at'[t] = "queued" /\ Len(dsq) + 1 \in 1 .. Len(dsq')
        BY <1>1, PlaceTypes DEF PlacesOK
      <3>2. \A c \in Cpus : on'[c] # t
        BY MagmScxAssumption
      <3> QED
        BY <2>1, <3>1, <3>2, <1>1
    <2>2. CASE u # t
      <3>1. at'[u] = at[u]
        BY <2>2 DEF PlacesOK
      <3>2. (\E i \in 1 .. Len(dsq') : dsq'[i] = u) <=> (\E i \in 1 .. Len(dsq) : dsq[i] = u)
        BY <2>2, <1>1, PlaceTypes
      <3>3. \A c \in Cpus : on'[c] = u <=> on[c] = u
        BY <2>2, MagmScxAssumption
      <3> QED
        BY <3>1, <3>2, <3>3 DEF PlacesOK
    <2> QED
      BY <2>1, <2>2
  <1>6. \A c, d \in Cpus : on'[c] = on'[d] /\ on'[c] # NoTask => c = d
    BY DEF PlacesOK
  <1> QED
    BY <1>1, <1>3, <1>4, <1>5, <1>6 DEF PlacesOK

\* A task leaves its CPU and goes to sleep, or one that sleeps is told a CPU.
LEMMA RestPlaces ==
  ASSUME PlacesOK, NEW t \in Tids, at[t] # "queued",
         NEW where \in {"asleep", "chosen"},
         dsq' = dsq, at' = [at EXCEPT ![t] = where],
         hint' \in [Tids -> Cpus \cup {NoCpu}],
         on' \in [Cpus -> Tids \cup {NoTask}],
         \A c \in Cpus : on'[c] = IF on[c] = t THEN NoTask ELSE on[c]
  PROVE  PlacesOK'
  <1>1. at' \in [Tids -> {"asleep", "chosen", "queued", "running"}]
    BY DEF PlacesOK
  <1>2. ASSUME NEW u \in Tids
        PROVE  /\ at'[u] = "queued" <=> \E i \in 1 .. Len(dsq) : dsq[i] = u
               /\ at'[u] = "running" <=> \E c \in Cpus : on'[c] = u
    <2>1. CASE u = t
      <3>1. at'[t] = where /\ \A c \in Cpus : on'[c] # t
        BY MagmScxAssumption DEF PlacesOK
      <3> QED
        BY <2>1, <3>1 DEF PlacesOK
    <2>2. CASE u # t
      <3>1. at'[u] = at[u] /\ \A c \in Cpus : on'[c] = u <=> on[c] = u
        BY <2>2, MagmScxAssumption DEF PlacesOK
      <3> QED
        BY <3>1 DEF PlacesOK
    <2> QED
      BY <2>1, <2>2
  <1>3. \A c, d \in Cpus : on'[c] = on'[d] /\ on'[c] # NoTask => c = d
    BY DEF PlacesOK
  <1> QED
    BY <1>1, <1>2, <1>3 DEF PlacesOK

\* An idle CPU takes the first task of the queue.
LEMMA RunPlaces ==
  ASSUME PlacesOK, NEW c \in Cpus, Run(c)
  PROVE  PlacesOK'
  <1> DEFINE t == dsq[1]
  <1>1. /\ dsq # <<>> /\ Len(dsq) > 0 /\ Head(dsq) = t /\ t \in Tids /\ on[c] = NoTask
        /\ on' = [on EXCEPT ![c] = t] /\ at' = [at EXCEPT ![t] = "running"]
        /\ dsq' = Tail(dsq) /\ hint' = hint
    BY PlaceTypes DEF Run
  <1>2. /\ dsq' \in Seq(Tids) /\ Len(dsq') = Len(dsq) - 1
        /\ \A i \in 1 .. Len(dsq') : dsq'[i] = dsq[i + 1]
    BY <1>1, HeadTailProperties DEF PlacesOK
  <1>3. /\ at[t] = "queued" /\ \A d \in Cpus : on[d] # t
        /\ \A i \in 1 .. Len(dsq) : dsq[i] = t => i = 1
    <2>1. 1 \in 1 .. Len(dsq)
      BY <1>1, PlaceTypes
    <2> QED
      BY <1>1, <2>1 DEF PlacesOK
  <1> HIDE DEF t
  <1>4. \A i, j \in 1 .. Len(dsq') : dsq'[i] = dsq'[j] => i = j
    <2> SUFFICES ASSUME NEW i \in 1 .. Len(dsq'), NEW j \in 1 .. Len(dsq'), dsq'[i] = dsq'[j]
                 PROVE  i = j
      OBVIOUS
    <2>1. i + 1 \in 1 .. Len(dsq) /\ j + 1 \in 1 .. Len(dsq) /\ dsq[i + 1] = dsq[j + 1]
      BY <1>2, PlaceTypes
    <2>2. i + 1 = j + 1
      BY <2>1 DEF PlacesOK
    <2> QED
      BY <2>2
  <1>5. /\ at' \in [Tids -> {"asleep", "chosen", "queued", "running"}]
        /\ on' \in [Cpus -> Tids \cup {NoTask}]
        /\ hint' \in [Tids -> Cpus \cup {NoCpu}]
        /\ on'[c] = t /\ \A d \in Cpus : d # c => on'[d] = on[d]
    BY <1>1 DEF PlacesOK
  <1>6. ASSUME NEW u \in Tids
        PROVE  /\ at'[u] = "queued" <=> \E i \in 1 .. Len(dsq') : dsq'[i] = u
               /\ at'[u] = "running" <=> \E d \in Cpus : on'[d] = u
    <2>1. CASE u = t
      <3>1. at'[t] = "running"
        BY <1>1 DEF PlacesOK
      <3>2. \A i \in 1 .. Len(dsq') : dsq'[i] # t
        BY <1>2, <1>3, PlaceTypes
      <3> QED
        BY <2>1, <3>1, <3>2, <1>5
    <2>2. CASE u # t
      <3>1. at'[u] = at[u]
        BY <2>2, <1>1 DEF PlacesOK
      <3>2. (\E i \in 1 .. Len(dsq') : dsq'[i] = u) <=> (\E i \in 1 .. Len(dsq) : dsq[i] = u)
        <4>1. ASSUME NEW i \in 1 .. Len(dsq), dsq[i] = u
              PROVE  i - 1 \in 1 .. Len(dsq') /\ dsq'[i - 1] = u
          <5>1. i # 1
            BY <4>1, <2>2 DEF t
          <5>2. i - 1 \in 1 .. Len(dsq') /\ (i - 1) + 1 = i
            BY <5>1, <1>2, PlaceTypes
          <5> QED
            BY <4>1, <5>2, <1>2
        <4>2. ASSUME NEW i \in 1 .. Len(dsq'), dsq'[i] = u
              PROVE  i + 1 \in 1 .. Len(dsq) /\ dsq[i + 1] = u
          BY <4>2, <1>2, PlaceTypes
        <4> QED
          BY <4>1, <4>2
      <3>3. (\E d \in Cpus : on'[d] = u) <=> (\E d \in Cpus : on[d] = u)
        BY <2>2, <1>1, <1>5, MagmScxAssumption
      <3> QED
        BY <3>1, <3>2, <3>3 DEF PlacesOK
    <2> QED
      BY <2>1, <2>2
  <1>7. \A d, e \in Cpus : on'[d] = on'[e] /\ on'[d] # NoTask => d = e
    BY <1>3, <1>5 DEF PlacesOK
  <1> QED
    BY <1>2, <1>4, <1>5, <1>6, <1>7 DEF PlacesOK

-----------------------------------------------------------------------------
(* The steps. *)

\* The loader starts with an empty map, zero counts and no scheduler attached.
LEMMA ScxInit == Init => ScxInv
  <1> SUFFICES ASSUME Init PROVE ScxInv
    OBVIOUS
  <1>1. Len(plan) \in Nat
    BY MagmScxAssumption, LenProperties DEF Init
  <1>2. DOMAIN target = {} /\ Passed = {} /\ pos = 1 /\ pc = "open"
    BY DEF Init, Passed
  <1>3. LoaderTypes
    <2>1. pos \in Nat \ {0} /\ pos <= Len(plan) + 1 /\ selects \in 0 .. MaxSelects
      BY <1>1, <1>2, MagmScxAssumption DEF Init
    <2>2. signalled \in BOOLEAN /\ armed \in BOOLEAN /\ exiting \in BOOLEAN /\ attached \in BOOLEAN
      BY DEF Init
    <2> QED
      BY <1>2, <2>1, <2>2 DEF Init, LoaderTypes
  <1>4. MapTypes
    <2>1. target \in [DOMAIN target -> Nat]
      BY <1>2 DEF Init
    <2>2. IsFiniteSet(DOMAIN target) /\ Cardinality(DOMAIN target) <= MapCapacity
      BY <1>2, FS_EmptySet, MagmScxAssumption
    <2> QED
      BY <1>2, <2>1, <2>2 DEF Init, MapTypes, ZeroStat
  <1>5. StagesOK /\ CountsOK /\ EjectedOK
    BY DEF Init, StagesOK, CountsOK, EjectedOK, ZeroStat
  <1>6. OriginOK /\ LatestOK /\ LoadedOK /\ AdmittedOK
    BY <1>2 DEF OriginOK, LatestOK, LoadedOK, AdmittedOK
  <1>9. ConfiguredOK
    <2>1. {k \in 1 .. pos - 1 : Accepted(k)} = {}
      BY <1>2
    <2> QED
      BY <1>2, <2>1, FS_EmptySet DEF Init, ConfiguredOK, ZeroStat
  <1>7. ToldOK
    BY MagmScxAssumption DEF Init, ToldOK, NoHint, ZeroStat
  <1>8. PlacesOK
    BY ReleasedPlaces DEF Init
  <1> QED
    BY <1>3, <1>4, <1>5, <1>6, <1>7, <1>8, <1>9 DEF ScxInv

\* The map has room for the lines that Accepted names and for no other.
LEMMA RoomIffAccepted ==
  ASSUME ScxInv, pc = "load", pos \in 1 .. Len(plan)
  PROVE  (Usable(plan[pos]) /\ HasRoom(plan[pos])) <=> Accepted(pos)
  <1> DEFINE row == plan[pos]
  <1>1. pos \in Nat /\ Len(plan) \in Nat /\ Passed = 1 .. pos - 1
    BY PlanTypes DEF ScxInv, LoaderTypes, Passed
  <1>2. \A j \in 1 .. pos - 1 : Accepted(j) => plan[j].tid \in DOMAIN target
    BY <1>1 DEF ScxInv, LoadedOK
  <1>3. /\ IsFiniteSet(Earlier(pos)) /\ Cardinality(Earlier(pos)) \in Nat
        /\ IsFiniteSet(DOMAIN target) /\ Cardinality(DOMAIN target) \in Nat
        /\ MapCapacity \in Nat
    BY EarlierFinite, FS_CardinalityType, MagmScxAssumption DEF ScxInv, MapTypes
  <1>4. DOMAIN target \subseteq Earlier(pos)
    <2> SUFFICES ASSUME NEW t \in DOMAIN target PROVE t \in Earlier(pos)
      OBVIOUS
    <2>1. PICK j \in 1 .. pos - 1 : Usable(plan[j]) /\ plan[j].tid = t
      BY <1>1 DEF ScxInv, OriginOK
    <2> QED
      BY <2>1 DEF Earlier
  <1>5. ASSUME Accepted(pos) PROVE Usable(row) /\ HasRoom(row)
    <2>1. PICK first \in 1 .. pos :
            /\ plan[first].tid = row.tid /\ Usable(plan[first]) /\ Usable(row)
            /\ Cardinality(Earlier(first)) < MapCapacity
            /\ row.tid \notin Earlier(first)
      BY <1>5 DEF Accepted
    <2>2. CASE first # pos
      <3>1. first \in 1 .. pos - 1 /\ first \in 1 .. first
        BY <2>2, <1>1
      <3>2. Accepted(first)
        BY <2>1, <3>1 DEF Accepted
      <3> QED
        BY <1>2, <2>1, <3>1, <3>2 DEF HasRoom
    <2>3. CASE first = pos
      <3>1. Cardinality(DOMAIN target) <= Cardinality(Earlier(pos))
        BY <1>3, <1>4, FS_Subset
      <3>2. Cardinality(DOMAIN target) < MapCapacity
        BY <1>3, <2>1, <2>3, <3>1
      <3> QED
        BY <2>1, <3>2 DEF HasRoom
    <2> QED
      BY <2>2, <2>3
  <1>6. ASSUME Usable(row), HasRoom(row) PROVE Accepted(pos)
    <2>1. CASE row.tid \in DOMAIN target
      <3>1. PICK k \in 1 .. pos - 1 : Accepted(k) /\ plan[k].tid = row.tid
        BY <1>1, <2>1 DEF ScxInv, AdmittedOK
      <3>2. PICK first \in 1 .. k :
              /\ plan[first].tid = plan[k].tid /\ Usable(plan[first])
              /\ Cardinality(Earlier(first)) < MapCapacity
              /\ plan[k].tid \notin Earlier(first)
        BY <3>1 DEF Accepted
      <3>3. first \in 1 .. pos
        BY <1>1, <3>1, <3>2
      <3> QED
        BY <1>6, <3>1, <3>2, <3>3 DEF Accepted
    <2>2. CASE row.tid \notin DOMAIN target
      <3>1. Cardinality(DOMAIN target) < MapCapacity
        BY <1>6, <2>2 DEF HasRoom
      <3>2. \A j \in 1 .. pos - 1 : Usable(plan[j]) => plan[j].tid \in DOMAIN target
        BY <1>1, <3>1 DEF ScxInv, AdmittedOK
      <3>3. Earlier(pos) = DOMAIN target
        BY <1>4, <3>2 DEF Earlier
      <3>4. pos \in 1 .. pos
        BY <1>1
      <3> QED
        BY <1>6, <2>2, <3>1, <3>3, <3>4 DEF Accepted
    <2> QED
      BY <2>1, <2>2
  <1> QED
    BY <1>5, <1>6

\* A line that is read becomes an entry of the map, if it is usable and the map
\* has room.
LEMMA LoadRowInv == ASSUME ScxInv, LoadRow PROVE ScxInv'
  <1> DEFINE row == plan[pos]
             enters == Usable(row) /\ HasRoom(row)
  <1>1. /\ pc = "load" /\ pos \in 1 .. Len(plan) /\ pos \in Nat /\ Len(plan) \in Nat
        /\ UNCHANGED <<plan, copy, signalled, armed, exiting, stat, attached, at, hint, dsq, on, selects>>
        /\ ~ attached /\ selects = 0
    BY PlanTypes DEF LoadRow, ScxInv, LoaderTypes, StagesOK, tasks
  <1>2. row.tid \in Nat /\ row.cpu \in Nat
    BY <1>1, PlanTypes DEF ScxInv
  <1>3. /\ Passed = 1 .. pos - 1 /\ Passed' = 1 .. pos
        /\ pos' = IF enters THEN pos ELSE pos + 1
        /\ pc' = IF enters THEN "bump" ELSE "load"
        /\ target' = IF enters THEN Updated(row) ELSE target
    BY <1>1 DEF LoadRow, Passed
  <1>4. /\ DOMAIN target' = IF enters THEN DOMAIN target \cup {row.tid} ELSE DOMAIN target
        /\ \A t \in DOMAIN target' :
             target'[t] = IF enters /\ t = row.tid THEN row.cpu ELSE target[t]
    BY <1>3 DEF Updated, Value
  <1>12. enters <=> Accepted(pos)
    BY <1>1, RoomIffAccepted
  <1>15. /\ IsFiniteSet(DOMAIN target') /\ Cardinality(DOMAIN target') <= MapCapacity
         /\ Cardinality(DOMAIN target) \in Nat /\ Cardinality(DOMAIN target') \in Nat
         /\ Cardinality(DOMAIN target) <= Cardinality(DOMAIN target')
    <2>1. /\ IsFiniteSet(DOMAIN target) /\ Cardinality(DOMAIN target) <= MapCapacity
          /\ Cardinality(DOMAIN target) \in Nat /\ MapCapacity \in Nat
      BY FS_CardinalityType, MagmScxAssumption DEF ScxInv, MapTypes
    <2>2. CASE ~ enters \/ row.tid \in DOMAIN target
      <3>1. DOMAIN target' = DOMAIN target
        BY <2>2, <1>4
      <3> QED
        BY <2>1, <3>1
    <2>3. CASE enters /\ row.tid \notin DOMAIN target
      <3>1. DOMAIN target' = DOMAIN target \cup {row.tid} /\ Cardinality(DOMAIN target) < MapCapacity
        BY <2>3, <1>4 DEF HasRoom
      <3>2. /\ IsFiniteSet(DOMAIN target')
            /\ Cardinality(DOMAIN target') = Cardinality(DOMAIN target) + 1
        BY <2>1, <2>3, <3>1, FS_AddElement
      <3> QED
        BY <2>1, <3>1, <3>2
    <2> QED
      BY <2>2, <2>3
  <1>5. LoaderTypes'
    BY <1>1, <1>3 DEF ScxInv, LoaderTypes
  <1>6. MapTypes'
    <2>1. target' \in [DOMAIN target' -> Nat]
      BY <1>2, <1>3, <1>4 DEF ScxInv, MapTypes, Updated
    <2>2. IsFiniteSet(DOMAIN target') /\ Cardinality(DOMAIN target') <= MapCapacity
      BY <1>15
    <2> QED
      BY <2>1, <2>2, <1>1, <1>2, <1>4 DEF ScxInv, MapTypes
  <1>7. StagesOK' /\ CountsOK' /\ EjectedOK' /\ PlacesOK'
    BY <1>1, <1>3
    DEF ScxInv, StagesOK, CountsOK, EjectedOK, PlacesOK, AllAsleep, NoHint, AllIdle
  <1>8. ToldOK'
    <2>1. \A t \in Tids : hint[t] = NoCpu
      BY <1>1 DEF ScxInv, StagesOK, NoHint
    <2>2. stat.fallback = 0 /\ stat.selected = 0
      BY <1>1 DEF ScxInv, CountsOK, MapTypes
    <2> QED
      BY <1>1, <2>1, <2>2 DEF ToldOK
  <1>9. OriginOK'
    <2> SUFFICES ASSUME NEW t \in DOMAIN target'
                 PROVE  \E k \in 1 .. Len(plan) :
                          /\ k <= pos' /\ k \in 1 .. pos
                          /\ Usable(plan[k]) /\ plan[k].tid = t /\ plan[k].cpu = target'[t]
      BY <1>1, <1>3 DEF OriginOK, Usable
    <2>1. CASE enters /\ t = row.tid
      BY <2>1, <1>1, <1>3, <1>4
    <2>2. CASE ~ (enters /\ t = row.tid)
      <3>1. t \in DOMAIN target /\ target'[t] = target[t]
        BY <2>2, <1>4
      <3>2. PICK k \in 1 .. Len(plan) :
              k <= pos /\ Usable(plan[k]) /\ plan[k].tid = t /\ plan[k].cpu = target[t]
        BY <3>1 DEF ScxInv, OriginOK
      <3>3. k <= pos'
        BY <3>2, <1>1, <1>3
      <3> QED
        BY <3>1, <3>2, <3>3
    <2> QED
      BY <2>1, <2>2
  <1>10. LatestOK'
    <2> SUFFICES ASSUME NEW t \in DOMAIN target', NEW k \in 1 .. pos,
                        Usable(plan[k]), plan[k].tid = t,
                        \A j \in 1 .. pos : j > k => plan[j].tid # t \/ ~ Usable(plan[j])
                 PROVE  plan[k].cpu = target'[t]
      BY <1>1, <1>3 DEF LatestOK, Usable
    <2>1. CASE enters /\ t = row.tid
      <3>1. k = pos
        BY <2>1, <1>1
      <3> QED
        BY <3>1, <2>1, <1>4
    <2>2. CASE ~ (enters /\ t = row.tid)
      <3>1. t \in DOMAIN target /\ target'[t] = target[t]
        BY <2>2, <1>4
      <3>2. k # pos
        BY <2>2, <3>1 DEF HasRoom
      <3>3. k \in 1 .. pos - 1 /\ \A j \in 1 .. pos - 1 : j \in 1 .. pos
        BY <3>2, <1>1
      <3> QED
        BY <3>1, <3>3, <1>1, <1>3 DEF ScxInv, LatestOK
    <2> QED
      BY <2>1, <2>2
  <1>11. LoadedOK'
    <2> SUFFICES ASSUME NEW k \in 1 .. pos, Accepted(k) PROVE plan[k].tid \in DOMAIN target'
      BY <1>1, <1>3, PlanStable DEF LoadedOK
    <2>1. \A j \in 1 .. pos - 1 : Accepted(j) => plan[j].tid \in DOMAIN target
      BY <1>1, <1>3 DEF ScxInv, LoadedOK
    <2>2. CASE k # pos
      BY <2>1, <2>2, <1>1, <1>4
    <2>3. CASE k = pos
      BY <2>3, <1>4, <1>12
    <2> QED
      BY <2>2, <2>3
  <1>13. ConfiguredOK'
    <2>1. \A k : Accepted(k)' = Accepted(k)
      BY <1>1, PlanStable
    <2>2. {k \in 1 .. pos' - 1 : Accepted(k)'} = {k \in 1 .. pos - 1 : Accepted(k)}
      <3>1. CASE enters
        BY <2>1, <3>1, <1>3
      <3>2. CASE ~ enters
        <4>1. pos' = pos + 1 /\ ~ Accepted(pos)
          BY <3>2, <1>3, <1>12
        <4>2. \A k : k \in 1 .. pos' - 1 <=> k \in 1 .. pos - 1 \/ k = pos
          BY <1>1, <4>1
        <4> QED
          BY <2>1, <4>1, <4>2
      <3> QED
        BY <3>1, <3>2
    <2>3. pc' \in {"bump", "write"} => Accepted(pos)'
      BY <2>1, <1>3, <1>12
    <2> QED
      BY <1>1, <2>2, <2>3 DEF ScxInv, ConfiguredOK
  <1>14. AdmittedOK'
    <2>1. \A k : Accepted(k)' = Accepted(k)
      BY <1>1, PlanStable
    <2>2. pos \in 1 .. pos /\ \A k \in 1 .. pos - 1 : k \in 1 .. pos
      BY <1>1
    <2>3. ASSUME NEW t \in DOMAIN target' PROVE \E k \in 1 .. pos : Accepted(k) /\ plan[k].tid = t
      <3>1. CASE enters /\ t = row.tid
        BY <3>1, <2>2, <1>12
      <3>2. CASE ~ (enters /\ t = row.tid)
        <4>1. t \in DOMAIN target
          BY <3>2, <1>4
        <4>2. PICK k \in 1 .. pos - 1 : Accepted(k) /\ plan[k].tid = t
          BY <4>1, <1>1, <1>3 DEF ScxInv, AdmittedOK
        <4> QED
          BY <4>2, <2>2
      <3> QED
        BY <3>1, <3>2
    <2>4. ASSUME Cardinality(DOMAIN target') < MapCapacity, NEW k \in 1 .. pos, Usable(plan[k])
          PROVE  plan[k].tid \in DOMAIN target'
      <3>1. Cardinality(DOMAIN target) < MapCapacity
        BY <2>4, <1>4, <1>15, MagmScxAssumption
      <3>2. CASE k = pos
        BY <2>4, <3>1, <3>2, <1>4 DEF HasRoom
      <3>3. CASE k # pos
        <4>1. k \in 1 .. pos - 1
          BY <3>3, <1>1
        <4> QED
          BY <2>4, <3>1, <4>1, <1>1, <1>3, <1>4 DEF ScxInv, AdmittedOK
      <3> QED
        BY <3>2, <3>3
    <2> QED
      BY <2>1, <2>3, <2>4, <1>1, <1>3 DEF AdmittedOK, Usable
  <1> QED
    BY <1>5, <1>6, <1>7, <1>8, <1>9, <1>10, <1>11, <1>13, <1>14 DEF ScxInv

\* bump_configured writes back what it read, and nobody has counted meanwhile.
LEMMA BumpInv == ASSUME ScxInv, BumpRead \/ BumpWrite PROVE ScxInv'
  <1>1. /\ UNCHANGED <<plan, signalled, armed, exiting, target, attached, at, hint, dsq, on, selects>>
        /\ pc \in {"bump", "write"} /\ pos \in 1 .. Len(plan) /\ pos \in Nat
        /\ ~ attached /\ selects = 0 /\ Len(plan) \in Nat
    BY PlanTypes DEF BumpRead, BumpWrite, ScxInv, LoaderTypes, StagesOK, tasks, maps
  <1>2. pc' \in {"write", "load"} /\ pos' \in Nat /\ pos' >= pos /\ Passed' = Passed
    BY <1>1 DEF BumpRead, BumpWrite, Passed
  <1>3. LoaderTypes'
    BY <1>1 DEF BumpRead, BumpWrite, ScxInv, LoaderTypes
  <1>4. MapTypes'
    BY <1>1 DEF BumpRead, BumpWrite, ScxInv, MapTypes, maps
  <1>5. StagesOK' /\ EjectedOK' /\ PlacesOK'
    BY <1>1, <1>2 DEF ScxInv, StagesOK, EjectedOK, PlacesOK, AllAsleep, NoHint, AllIdle
  <1>6. CountsOK' /\ stat'.fallback = stat.fallback /\ stat'.selected = stat.selected
    BY <1>1 DEF BumpRead, BumpWrite, ScxInv, CountsOK, MapTypes, maps
  <1>7. ToldOK'
    BY <1>1, <1>6 DEF ScxInv, ToldOK
  <1>8. OriginOK' /\ LatestOK' /\ LoadedOK' /\ AdmittedOK'
    BY <1>1, <1>2, MapKept
  <1>9. ConfiguredOK'
    <2>1. CASE BumpRead
      BY <2>1, <1>1, ConfiguredKept DEF BumpRead, maps
    <2>2. CASE BumpWrite
      <3>1. /\ stat'.configured = stat.configured + 1 /\ pos' = pos + 1 /\ pc' = "load"
            /\ Accepted(pos) /\ \A k : Accepted(k)' = Accepted(k)
        BY <2>2, <1>1, PlanStable DEF BumpWrite, ScxInv, CountsOK, ConfiguredOK, MapTypes
      <3> DEFINE counted == {k \in 1 .. pos - 1 : Accepted(k)}
      <3>2. {k \in 1 .. pos' - 1 : Accepted(k)'} = counted \cup {pos} /\ pos \notin counted
        <4>1. \A k : k \in 1 .. pos' - 1 <=> k \in 1 .. pos - 1 \/ k = pos
          BY <1>1, <3>1
        <4>2. pos \notin 1 .. pos - 1
          BY <1>1
        <4> QED
          BY <3>1, <4>1, <4>2
      <3>3. IsFiniteSet(counted)
        <4>1. IsFiniteSet(1 .. pos - 1)
          BY <1>1, FS_Interval
        <4> QED
          BY <4>1, FS_Subset
      <3>4. Cardinality(counted \cup {pos}) = Cardinality(counted) + 1
        <4> HIDE DEF counted
        <4> QED
          BY <3>2, <3>3, FS_AddElement
      <3>5. stat.configured = Cardinality(counted)
        BY DEF ScxInv, ConfiguredOK
      <3>6. stat'.configured = Cardinality({k \in 1 .. pos' - 1 : Accepted(k)'})
        BY <3>1, <3>2, <3>4, <3>5
      <3> QED
        BY <3>1, <3>6 DEF ConfiguredOK
    <2> QED
      BY <1>1, <2>1, <2>2 DEF BumpRead, BumpWrite
  <1> QED
    BY <1>3, <1>4, <1>5, <1>6, <1>7, <1>8, <1>9 DEF ScxInv

\* The steps of main that do nothing but go on.
LEMMA GoOnInv ==
  ASSUME ScxInv, Open \/ LoadEnd \/ LoadFails \/ AttachFails \/ Arm \/ LeaveLoop
  PROVE  ScxInv'
  <1>1. /\ UNCHANGED <<plan, pos, copy, signalled, exiting, target, stat, attached>>
        /\ UNCHANGED <<at, hint, dsq, on, selects>>
        /\ armed' \in {armed, TRUE}
        /\ \/ pc = "open" /\ pc' \in {"load", "gone"}
           \/ pc = "load" /\ pos > Len(plan) /\ pc' = "attach"
           \/ pc \in {"load", "attach"} /\ pc' = "cleanup"
           \/ pc = "arm" /\ pc' = "loop"
           \/ pc = "loop" /\ pc' = "cleanup"
    BY DEF Open, LoadEnd, LoadFails, AttachFails, Arm, LeaveLoop, Then, maps, tasks
  <1>2. pos \in Nat /\ Len(plan) \in Nat /\ pos <= Len(plan) + 1
    BY PlanTypes DEF ScxInv, LoaderTypes
  <1>3. LoaderTypes'
    BY <1>1, <1>2 DEF ScxInv, LoaderTypes
  <1>4. MapTypes' /\ ToldOK' /\ PlacesOK'
    BY <1>1 DEF ScxInv, MapTypes, ToldOK, PlacesOK
  <1>5. StagesOK'
    BY <1>1, <1>2 DEF ScxInv, StagesOK, AllAsleep, NoHint, AllIdle
  <1>6. CountsOK' /\ EjectedOK'
    BY <1>1 DEF ScxInv, CountsOK, EjectedOK
  <1>7. OriginOK' /\ LatestOK' /\ LoadedOK' /\ AdmittedOK'
    BY <1>1, <1>2, MapKept DEF Passed
  <1>8. ConfiguredOK'
    BY <1>1, ConfiguredKept
  <1> QED
    BY <1>3, <1>4, <1>5, <1>6, <1>7, <1>8 DEF ScxInv

\* The kernel hands the tasks over, those with work to do in a queue.
LEMMA AttachInv == ASSUME ScxInv, Attach PROVE ScxInv'
  <1>1. /\ UNCHANGED <<plan, pos, copy, signalled, armed, exiting, target, stat, hint, on, selects>>
        /\ pc = "attach" /\ pc' = "arm" /\ attached' = TRUE
        /\ ~ attached /\ hint = NoHint /\ on = AllIdle
    BY DEF Attach, Then, maps, ScxInv, StagesOK
  <1>2. LoaderTypes'
    BY <1>1 DEF ScxInv, LoaderTypes
  <1>3. MapTypes' /\ ToldOK' /\ CountsOK' /\ EjectedOK' /\ StagesOK'
    BY <1>1 DEF ScxInv, MapTypes, ToldOK, CountsOK, EjectedOK, StagesOK
  <1>4. OriginOK' /\ LatestOK' /\ LoadedOK' /\ AdmittedOK'
    BY <1>1, PlanTypes, MapKept DEF Passed, ScxInv, LoaderTypes
  <1>5. PlacesOK'
    <2>1. PICK n \in 0 .. Cardinality(Tids) : \E q \in [1 .. n -> Tids] :
            /\ \A i, j \in DOMAIN q : q[i] = q[j] => i = j
            /\ dsq' = q
            /\ at' = [t \in Tids |-> IF \E i \in DOMAIN q : q[i] = t THEN "queued" ELSE "asleep"]
      BY DEF Attach
    <2>2. n \in Nat
      BY <2>1, MagmScxAssumption, FS_CardinalityType
    <2>3. /\ dsq' \in Seq(Tids) /\ Len(dsq') = n /\ DOMAIN dsq' = 1 .. n
          /\ \A i, j \in 1 .. n : dsq'[i] = dsq'[j] => i = j
          /\ at' = [t \in Tids |-> IF \E i \in 1 .. n : dsq'[i] = t THEN "queued" ELSE "asleep"]
      BY <2>1, <2>2
    <2>4. \A c \in Cpus : on'[c] = NoTask
      BY <1>1 DEF AllIdle
    <2>5. \A t \in Tids : /\ at'[t] = "queued" <=> \E i \in 1 .. Len(dsq') : dsq'[i] = t
                          /\ at'[t] = "running" <=> \E c \in Cpus : on'[c] = t
      BY <2>3, <2>4, MagmScxAssumption
    <2>6. /\ at' \in [Tids -> {"asleep", "chosen", "queued", "running"}]
          /\ hint' \in [Tids -> Cpus \cup {NoCpu}] /\ on' \in [Cpus -> Tids \cup {NoTask}]
      BY <2>3, <1>1 DEF NoHint, AllIdle
    <2> QED
      BY <2>3, <2>4, <2>5, <2>6 DEF PlacesOK
  <1>6. ConfiguredOK'
    BY <1>1, ConfiguredKept
  <1> QED
    BY <1>2, <1>3, <1>4, <1>5, <1>6 DEF ScxInv

\* The tasks go back to the kernel's own class.
LEMMA ReleaseInv == ASSUME ScxInv, Cleanup \/ Signal PROVE ScxInv'
  <1>1. UNCHANGED <<plan, pos, copy, target, stat, selects>>
    BY DEF Cleanup, Signal, maps
  <1>2. \/ UNCHANGED <<pc, attached, at, hint, dsq, on>>
        \/ pc' = "gone" /\ Released
    BY DEF Cleanup, Signal, Destroyed, tasks
  <1>3. LoaderTypes'
    BY <1>1, <1>2 DEF ScxInv, LoaderTypes, Cleanup, Signal, Released
  <1>4. MapTypes' /\ ConfiguredOK'
    BY <1>1, <1>2, ConfiguredKept DEF ScxInv, MapTypes
  <1>5. CASE UNCHANGED <<pc, attached, at, hint, dsq, on>>
    <2>1. StagesOK' /\ CountsOK' /\ ToldOK' /\ EjectedOK' /\ PlacesOK'
      BY <1>1, <1>5
      DEF ScxInv, StagesOK, CountsOK, ToldOK, EjectedOK, PlacesOK, AllAsleep,
          NoHint, AllIdle
    <2>2. OriginOK' /\ LatestOK' /\ LoadedOK' /\ AdmittedOK'
      <3>1. Passed' = Passed
        BY <1>1, <1>5 DEF Passed
      <3>2. OriginOK' /\ LatestOK'
        BY <1>1, <1>5, <3>1 DEF ScxInv, OriginOK, LatestOK, Usable
      <3>3. LoadedOK' /\ AdmittedOK'
        BY <1>1, <1>5, <3>1, PlanStable DEF ScxInv, LoadedOK, AdmittedOK, Usable
      <3> QED
        BY <3>2, <3>3
    <2> QED
      BY <1>3, <1>4, <2>1, <2>2 DEF ScxInv
  <1>6. CASE pc' = "gone" /\ Released
    <2>1. StagesOK' /\ CountsOK' /\ EjectedOK'
      BY <1>1, <1>6
      DEF ScxInv, StagesOK, CountsOK, EjectedOK, Released, AllAsleep, NoHint, AllIdle
    <2>2. PlacesOK'
      BY <1>6, ReleasedPlaces
    <2>3. ToldOK'
      BY <1>1, <1>6 DEF ScxInv, ToldOK, Released, NoHint
    <2>4. OriginOK' /\ LatestOK' /\ LoadedOK' /\ AdmittedOK'
      BY <1>1, <1>6, MapKept DEF ScxInv, LoaderTypes
    <2> QED
      BY <1>3, <1>4, <2>1, <2>2, <2>3, <2>4 DEF ScxInv
  <1> QED
    BY <1>2, <1>5, <1>6

\* magm_select_cpu counts every call and answers what the map says.
LEMMA SelectInv == ASSUME ScxInv, NEW t \in Tids, SelectCpu(t) PROVE ScxInv'
  <1>1. /\ UNCHANGED <<plan, pc, pos, copy, signalled, armed, exiting, target>>
        /\ attached /\ at[t] = "asleep" /\ selects' = selects + 1 /\ selects < MaxSelects
        /\ pc \in {"arm", "loop", "cleanup"} /\ BumpStat(t)
    BY DEF SelectCpu, loader, ScxInv, StagesOK
  <1>2. selects \in Nat /\ selects' \in 0 .. MaxSelects
    BY <1>1, MagmScxAssumption DEF ScxInv, LoaderTypes
  <1>3. /\ stat' \in [configured : Nat, selected : Nat, fallback : Nat]
        /\ stat'.selected + stat'.fallback = stat.selected + stat.fallback + 1
        /\ stat'.fallback > 0 => stat.fallback > 0 \/ t \notin DOMAIN target
        /\ stat'.selected > 0 => stat.selected > 0 \/ t \in DOMAIN target
        /\ stat'.configured = stat.configured
    <2>1. CASE HasTarget(t)
      BY <1>1, <2>1 DEF BumpStat, ScxInv, MapTypes, HasTarget
    <2>2. CASE ~ HasTarget(t)
      BY <1>1, <2>2 DEF BumpStat, ScxInv, MapTypes, HasTarget
    <2> QED
      BY <2>1, <2>2
  <1>4. LoaderTypes'
    <2>1. attached' \in BOOLEAN
      BY <1>1 DEF SelectCpu, Released
    <2> QED
      BY <1>1, <1>2, <2>1 DEF ScxInv, LoaderTypes
  <1>5. MapTypes'
    BY <1>1, <1>3 DEF ScxInv, MapTypes
  <1>6. CountsOK' /\ ConfiguredOK'
    BY <1>1, <1>2, <1>3, ConfiguredKept DEF ScxInv, CountsOK
  <1>7. OriginOK' /\ LatestOK' /\ LoadedOK' /\ AdmittedOK'
    BY <1>1, PlanTypes, MapKept DEF ScxInv, LoaderTypes, Passed
  <1>8. CASE /\ UNCHANGED <<dsq, on, attached>>
             /\ at' = [at EXCEPT ![t] = "chosen"]
             /\ \E c \in Cpus : /\ hint' = [hint EXCEPT ![t] = c]
                                /\ HasTarget(t) => c = target[t]
    <2>1. PICK c \in Cpus : hint' = [hint EXCEPT ![t] = c] /\ (HasTarget(t) => c = target[t])
      BY <1>8
    <2>2. StagesOK' /\ EjectedOK'
      BY <1>1, <1>8 DEF ScxInv, StagesOK, EjectedOK
    <2>3. /\ hint' \in [Tids -> Cpus \cup {NoCpu}] /\ hint \in [Tids -> Cpus \cup {NoCpu}]
          /\ on \in [Cpus -> Tids \cup {NoTask}]
      BY <2>1 DEF ScxInv, PlacesOK
    <2>4. ToldOK'
      BY <1>1, <1>3, <2>1, <2>3 DEF ScxInv, ToldOK, HasTarget
    <2>5. \A d \in Cpus : on'[d] = IF on[d] = t THEN NoTask ELSE on[d]
      BY <1>1, <1>8 DEF ScxInv, PlacesOK
    <2>6. PlacesOK'
      BY <1>1, <1>8, <2>3, <2>5, RestPlaces DEF ScxInv
    <2> QED
      BY <1>4, <1>5, <1>6, <1>7, <2>2, <2>4, <2>6 DEF ScxInv
  <1>9. CASE HasTarget(t) /\ target[t] \notin Cpus /\ Released
    <2>1. PlacesOK' /\ StagesOK'
      BY <1>1, <1>9, ReleasedPlaces DEF Released, StagesOK, ScxInv, AllAsleep, NoHint, AllIdle
    <2>2. EjectedOK'
      BY <1>1, <1>9 DEF EjectedOK, HasTarget
    <2>3. ToldOK'
      BY <1>1, <1>3, <1>9 DEF ScxInv, ToldOK, Released, NoHint
    <2> QED
      BY <1>4, <1>5, <1>6, <1>7, <2>1, <2>2, <2>3 DEF ScxInv
  <1> QED
    BY <1>8, <1>9 DEF SelectCpu

\* What the kernel does between two calls of magm_select_cpu moves one task.
LEMMA KernelInv ==
  ASSUME ScxInv,
         \/ \E t \in Tids : Enqueue(t)
         \/ \E c \in Cpus : Run(c) \/ Expire(c) \/ Block(c)
  PROVE  ScxInv'
  <1>1. /\ UNCHANGED <<plan, pc, pos, copy, signalled, armed, exiting, target, stat, attached, selects>>
        /\ attached /\ pc # "gone"
    BY DEF Enqueue, Run, Expire, Block, loader, maps, ScxInv, StagesOK
  <1>2. PlacesOK' /\ \A t \in Tids : hint'[t] \in {hint[t], NoCpu}
    <2>1. ASSUME NEW t \in Tids, Enqueue(t) PROVE PlacesOK' /\ \A u \in Tids : hint'[u] \in {hint[u], NoCpu}
      <3>1. \A d \in Cpus : on'[d] = IF on[d] = t THEN NoTask ELSE on[d]
        BY <2>1 DEF ScxInv, PlacesOK, Enqueue
      <3>2. /\ at[t] # "queued" /\ hint' \in [Tids -> Cpus \cup {NoCpu}]
            /\ on' \in [Cpus -> Tids \cup {NoTask}] /\ hint' = hint
            /\ dsq' = Append(dsq, t) /\ at' = [at EXCEPT ![t] = "queued"]
        BY <2>1 DEF ScxInv, PlacesOK, Enqueue, Inserted
      <3> QED
        BY <3>1, <3>2, InsertPlaces DEF ScxInv
    <2>2. ASSUME NEW c \in Cpus, Run(c) PROVE PlacesOK' /\ \A u \in Tids : hint'[u] \in {hint[u], NoCpu}
      BY <2>2, RunPlaces DEF ScxInv, Run
    <2>3. ASSUME NEW c \in Cpus, Expire(c) \/ Block(c)
          PROVE  PlacesOK' /\ \A u \in Tids : hint'[u] \in {hint[u], NoCpu}
      <3> DEFINE t == on[c]
      <3>1. t \in Tids /\ at[t] = "running" /\ at[t] # "queued"
        BY <2>3 DEF ScxInv, PlacesOK, Expire, Block
      <3>2. /\ hint' = [hint EXCEPT ![t] = NoCpu] /\ hint \in [Tids -> Cpus \cup {NoCpu}]
            /\ on' = [on EXCEPT ![c] = NoTask] /\ on \in [Cpus -> Tids \cup {NoTask}]
            /\ \A d, e \in Cpus : on[d] = on[e] /\ on[d] # NoTask => d = e
        BY <2>3 DEF ScxInv, PlacesOK, Expire, Block
      <3>3. /\ hint' \in [Tids -> Cpus \cup {NoCpu}] /\ on' \in [Cpus -> Tids \cup {NoTask}]
            /\ \A d \in Cpus : on'[d] = IF on[d] = t THEN NoTask ELSE on[d]
        BY <3>1, <3>2, MagmScxAssumption
      <3>4. \A u \in Tids : hint'[u] \in {hint[u], NoCpu}
        BY <3>2
      <3>5. CASE Expire(c)
        <4>1. dsq' = Append(dsq, t) /\ at' = [at EXCEPT ![t] = "queued"]
          BY <3>5 DEF Expire, Inserted
        <4> QED
          BY <3>1, <3>3, <3>4, <4>1, InsertPlaces DEF ScxInv
      <3>6. CASE Block(c)
        <4>1. dsq' = dsq /\ at' = [at EXCEPT ![t] = "asleep"]
          BY <3>6 DEF Block
        <4> QED
          BY <3>1, <3>3, <3>4, <4>1, RestPlaces DEF ScxInv
      <3> QED
        BY <2>3, <3>5, <3>6
    <2> QED
      BY <2>1, <2>2, <2>3
  <1>3. LoaderTypes' /\ MapTypes' /\ StagesOK' /\ CountsOK' /\ EjectedOK'
    BY <1>1 DEF ScxInv, LoaderTypes, MapTypes, StagesOK, CountsOK, EjectedOK
  <1>4. ToldOK'
    BY <1>1, <1>2 DEF ScxInv, ToldOK
  <1>5. OriginOK' /\ LatestOK' /\ LoadedOK' /\ AdmittedOK'
    BY <1>1, PlanTypes, MapKept DEF ScxInv, LoaderTypes, Passed
  <1>6. ConfiguredOK'
    BY <1>1, ConfiguredKept
  <1> QED
    BY <1>2, <1>3, <1>4, <1>5, <1>6 DEF ScxInv

\* No step of the loader, the BPF side or the kernel breaks ScxInv.
LEMMA ScxNext == ScxInv /\ [Next]_vars => ScxInv'
  <1> SUFFICES ASSUME ScxInv, [Next]_vars PROVE ScxInv'
    OBVIOUS
  <1>1. CASE UNCHANGED vars
    <2>1. /\ UNCHANGED <<plan, pc, pos, copy, signalled, armed, exiting>>
          /\ UNCHANGED <<target, stat, attached, at, hint, dsq, on, selects>>
      BY <1>1 DEF vars
    <2>2. LoaderTypes' /\ MapTypes' /\ CountsOK' /\ ToldOK' /\ EjectedOK'
      BY <2>1 DEF ScxInv, LoaderTypes, MapTypes, CountsOK, ToldOK, EjectedOK
    <2>3. StagesOK' /\ PlacesOK'
      BY <2>1 DEF ScxInv, StagesOK, PlacesOK, AllAsleep, NoHint, AllIdle
    <2>4. Passed' = Passed
      BY <2>1 DEF Passed
    <2>5. OriginOK' /\ LatestOK'
      BY <2>1, <2>4 DEF ScxInv, OriginOK, LatestOK, Usable
    <2>6. LoadedOK' /\ AdmittedOK' /\ ConfiguredOK'
      BY <2>1, <2>4, PlanStable, ConfiguredKept DEF ScxInv, LoadedOK, AdmittedOK, Usable
    <2> QED
      BY <2>2, <2>3, <2>5, <2>6 DEF ScxInv
  <1>2. CASE LoaderStep
    BY <1>2, LoadRowInv, BumpInv, GoOnInv, AttachInv, ReleaseInv DEF LoaderStep
  <1>3. CASE Signal
    BY <1>3, ReleaseInv
  <1>4. ASSUME NEW t \in Tids, SelectCpu(t) PROVE ScxInv'
    BY <1>4, SelectInv
  <1>5. CASE \/ \E t \in Tids : Enqueue(t)
             \/ \E c \in Cpus : Run(c) \/ Expire(c) \/ Block(c)
    BY <1>5, KernelInv
  <1> QED
    BY <1>1, <1>2, <1>3, <1>4, <1>5 DEF Next

\* ScxInv holds in every state of every execution.
THEOREM ScxInvariant == Spec => []ScxInv
  BY ScxInit, ScxNext, PTL DEF Spec

-----------------------------------------------------------------------------
(* The properties. *)

\* Type correctness: the map keeps to its capacity, and queue, CPUs and tasks
\* agree on which task is where, none queued twice or run by two CPUs.
THEOREM ScxTypeCorrect == Spec => []TypeOK
  <1>1. ScxInv => TypeOK
    <2> SUFFICES ASSUME ScxInv PROVE TypeOK
      OBVIOUS
    <2>1. {signalled, armed, exiting, attached} \subseteq BOOLEAN
      BY DEF ScxInv, LoaderTypes
    <2>2. pos \in 1 .. Len(plan) + 1
      BY PlanTypes DEF ScxInv, LoaderTypes
    <2>3. {stat, copy} \subseteq [configured : Nat, selected : Nat, fallback : Nat]
      BY DEF ScxInv, MapTypes
    <2>4. /\ DOMAIN target \subseteq Nat /\ \A t \in DOMAIN target : target[t] \in Nat
          /\ IsFiniteSet(DOMAIN target) /\ Cardinality(DOMAIN target) <= MapCapacity
      BY DEF ScxInv, MapTypes
    <2> QED
      BY <2>1, <2>2, <2>3, <2>4 DEF ScxInv, LoaderTypes, PlacesOK, TypeOK
  <1> QED
    BY <1>1, ScxInvariant, PTL

\* The statistics lose neither a call of magm_select_cpu nor a line of the plan
\* that could enter the map, although bump_configured rewrites the element
\* without synchronisation.
THEOREM NoCountLost == Spec => []StatsConserved
  <1>1. ScxInv => StatsConserved
    BY DEF ScxInv, CountsOK, ConfiguredOK, StatsConserved
  <1> QED
    BY <1>1, ScxInvariant, PTL

\* No wakeup sees a half-loaded plan: a task of the plan is told the CPU of its
\* last line that was accepted, no wakeup is counted as a fallback when every
\* task has such a line, and none as selected when no task has.
THEOREM WakeupsFollowPlan == Spec => []HintFollowsPlan
  <1>1. ScxInv => HintFollowsPlan
    <2> SUFFICES ASSUME ScxInv, attached PROVE HintFollowsPlan
      BY DEF HintFollowsPlan
    <2>1. Passed = 1 .. Len(plan) /\ pc # "gone" /\ Len(plan) \in Nat
      BY PlanTypes DEF ScxInv, StagesOK, Passed
    <2>2. \A k \in 1 .. Len(plan) : Accepted(k) => plan[k].tid \in DOMAIN target
      BY <2>1 DEF ScxInv, LoadedOK
    <2>3. ASSUME NEW t \in Tids, hint[t] # NoCpu, NEW k \in 1 .. Len(plan), LastRow(t, k)
          PROVE  hint[t] = plan[k].cpu
      <3>1. t \in DOMAIN target /\ Usable(plan[k]) /\ plan[k].tid = t
        BY <2>2, <2>3 DEF LastRow, Accepted
      <3>2. hint[t] = target[t]
        BY <2>3, <3>1 DEF ScxInv, ToldOK
      <3>3. \A j \in Passed : j > k => plan[j].tid # t \/ ~ Usable(plan[j])
        BY <2>1, <2>3 DEF LastRow
      <3> QED
        BY <2>1, <3>1, <3>2, <3>3 DEF ScxInv, LatestOK
    <2>4. ASSUME \A t \in Tids : \E k \in 1 .. Len(plan) : plan[k].tid = t /\ Accepted(k)
          PROVE  stat.fallback = 0
      <3>1. \A t \in Tids : t \in DOMAIN target
        BY <2>2, <2>4
      <3>2. ~ (stat.fallback > 0) /\ stat.fallback \in Nat
        BY <3>1 DEF ScxInv, ToldOK, MapTypes
      <3> QED
        BY <3>2
    <2>5. ASSUME \A t \in Tids : ~ \E k \in 1 .. Len(plan) : plan[k].tid = t /\ Accepted(k)
          PROVE  stat.selected = 0
      <3>1. \A t \in Tids : t \notin DOMAIN target
        BY <2>1, <2>5 DEF ScxInv, AdmittedOK
      <3>2. ~ (stat.selected > 0) /\ stat.selected \in Nat
        BY <3>1 DEF ScxInv, ToldOK, MapTypes
      <3> QED
        BY <3>2
    <2> QED
      BY <2>3, <2>4, <2>5 DEF HintFollowsPlan
  <1> QED
    BY <1>1, ScxInvariant, PTL

\* Two TIDs have one target only if two windows of the plan gave it to them.
THEOREM SharingSpansWindows == Spec => []SharedTargetsSpanWindows
  <1>1. ScxInv => SharedTargetsSpanWindows
    <2> SUFFICES ASSUME ScxInv, NEW t \in DOMAIN target, NEW u \in DOMAIN target,
                        t # u, target[t] = target[u]
                 PROVE  \E j, k \in {i \in 1 .. Len(plan) : i <= pos /\ Usable(plan[i])} :
                          /\ plan[j].tid = t /\ plan[k].tid = u
                          /\ plan[j].cpu = target[t] /\ plan[k].cpu = target[u]
                          /\ plan[j].window # plan[k].window
      BY DEF SharedTargetsSpanWindows
    <2>1. PICK j \in 1 .. Len(plan) :
            j <= pos /\ Usable(plan[j]) /\ plan[j].tid = t /\ plan[j].cpu = target[t]
      BY DEF ScxInv, OriginOK
    <2>2. PICK k \in 1 .. Len(plan) :
            k <= pos /\ Usable(plan[k]) /\ plan[k].tid = u /\ plan[k].cpu = target[u]
      BY DEF ScxInv, OriginOK
    <2>3. plan[j].window # plan[k].window
      BY <2>1, <2>2, WindowsBookOnce DEF ScxInv, LoaderTypes
    <2> QED
      BY <2>1, <2>2, <2>3
  <1> QED
    BY <1>1, ScxInvariant, PTL

\* The loader waits with no scheduler attached only if the plan names a CPU the
\* host does not have.
THEOREM EjectedForAlienCpu == Spec => []OnlyAlienCpuEjects
  <1>1. ScxInv => OnlyAlienCpuEjects
    BY DEF ScxInv, EjectedOK, OriginOK, OnlyAlienCpuEjects
  <1> QED
    BY <1>1, ScxInvariant, PTL
=============================================================================
