-------------------------- MODULE RunWatch_proofs --------------------------
(***************************************************************************)
(* Proofs about RunWatch for any number of tasks, runs, failing calls and  *)
(* restarts: the state is well typed, a finished run is announced at most  *)
(* once, a start does not announce the past, and what ends under the watch *)
(* is not taken for it.                                                    *)
(***************************************************************************)
EXTENDS RunWatch, FiniteSetTheorems, SequenceTheorems, TLAPS

-----------------------------------------------------------------------------
(* The inductive invariant. *)

\* The watcher's memory has room for everything a scan can return.
MemorySuffices ==
  /\ IsFiniteSet(Tasks)
  /\ Cardinality(Tasks) * HistoryLimit <= MaxKeep

Scanned == {r.id : r \in got}

TaskOf(i) == runs[i].task

\* Run i must not be announced any more.
Done(i) == emitted[i] > 0 \/ i \in old

\* No later scan returns run i.
Gone(i) == i \notin Recent(TaskOf(i))

\* What the watcher holds was true when it was read, and what had finished then
\* is still so.
GotInv ==
  \A r \in got :
    /\ Ended(r.status) => runs[r.id].status = r.status
    /\ pc = "emit" => Ended(r.status)

TInv == TypeOK /\ GotInv

\* A run that is done had ended when it was read.
FoundInv == \A r \in got : Done(r.id) => Ended(r.status)

PhaseInv ==
  /\ firstPass /\ pc = "emit" => got = {}
  /\ pc = "collect" => ~first
  /\ mode = "event" => pc = "emit" /\ got = {}

\* While a scan is read, a run that is done was found, or will not be found.
CollectInv ==
  pc = "collect" =>
    \A i \in DOMAIN runs :
      Done(i) => \/ TaskOf(i) \in todo \cup missed
                 \/ i \in Scanned
                 \/ Gone(i)

\* A run that is done is remembered, out of reach, or about to be.
RememberInv ==
  mode = "poll" =>
    \A i \in DOMAIN runs :
      Done(i) => \/ TaskOf(i) \in excused
                 \/ i \in seen
                 \/ firstPass
                 \/ first /\ i \in Scanned
                 \/ Gone(i) /\ i \notin Scanned

EventInv ==
  /\ events # {} => mode = "event"
  /\ \A i \in events : ~Done(i)

OnceInv ==
  \A i \in Ids :
    /\ Done(i) => i \in EndedRuns
    /\ emitted[i] > 1 => i \in DOMAIN runs /\ TaskOf(i) \in excused

\* The size of a scan: each task read so far has brought HistoryLimit runs.
SizeInv ==
  pc = "collect" =>
    /\ IsFiniteSet(Scanned)
    /\ Cardinality(Scanned) <= (Cardinality(Tasks) - Cardinality(todo)) * HistoryLimit

IInv ==
  /\ TInv /\ FoundInv /\ PhaseInv /\ CollectInv /\ RememberInv /\ EventInv
  /\ OnceInv /\ SizeInv

-----------------------------------------------------------------------------
(* Latest and Recent. *)

\* Sets of numbers have a least element.
LEMMA Minimum ==
  ASSUME NEW S \in SUBSET Nat, S # {}
  PROVE  \E m \in S : \A i \in S : m <= i
<1>1. PICK m \in S : \A i \in S : <<i, m>> \notin OpToRel(<, Nat)
  BY NatLessThanWellFounded, WFMin, Zenon
<1>2. \A i \in S : ~(i < m)
  BY <1>1 DEF OpToRel
<1> QED
  BY <1>2

\* All of a set that is small enough.
LEMMA LatestAll ==
  ASSUME NEW S \in SUBSET Nat, IsFiniteSet(S), NEW n \in Nat, Cardinality(S) <= n
  PROVE  Latest(S, n) = S
<1> SUFFICES ASSUME NEW i \in S PROVE Cardinality({j \in S : j > i}) < n
  BY DEF Latest
<1>1. {j \in S : j > i} \in SUBSET (S \ {i})
  OBVIOUS
<1>2. IsFiniteSet(S \ {i}) /\ Cardinality(S \ {i}) = Cardinality(S) - 1
  BY FS_RemoveElement
<1>3. Cardinality({j \in S : j > i}) <= Cardinality(S \ {i})
  BY <1>1, <1>2, FS_Subset
<1>4. Cardinality(S) \in Nat /\ Cardinality(S \ {i}) \in Nat
      /\ Cardinality({j \in S : j > i}) \in Nat
  BY <1>1, <1>2, FS_Subset, FS_CardinalityType
<1> QED
  BY <1>2, <1>3, <1>4

\* No more than n elements.
LEMMA LatestSize ==
  ASSUME NEW S \in SUBSET Nat, IsFiniteSet(S), NEW n \in Nat
  PROVE  /\ IsFiniteSet(Latest(S, n))
         /\ Cardinality(Latest(S, n)) <= n
<1> DEFINE L == Latest(S, n)
<1>1. L \in SUBSET S
  BY DEF Latest
<1>2. IsFiniteSet(L) /\ Cardinality(L) \in Nat
  BY <1>1, FS_Subset, FS_CardinalityType
<1>3. CASE L = {}
  BY <1>2, <1>3, FS_EmptySet
<1>4. CASE L # {}
  <2>1. PICK m \in L : \A i \in L : m <= i
    BY <1>1, <1>4, Minimum
  <2>2. Cardinality({j \in S : j > m}) < n
    BY <2>1 DEF Latest
  <2>3. L \ {m} \in SUBSET {j \in S : j > m}
    <3>1. L \subseteq S /\ m \in Nat /\ \A i \in L : i \in Nat /\ m <= i
      BY <1>1, <2>1
    <3>2. \A i \in L \ {m} : i \in S /\ i > m
      BY <3>1
    <3> QED
      BY <3>2
  <2>4. IsFiniteSet({j \in S : j > m}) /\ Cardinality({j \in S : j > m}) \in Nat
    <3>1. {j \in S : j > m} \in SUBSET S
      OBVIOUS
    <3> QED
      BY <3>1, FS_Subset, FS_CardinalityType
  <2>5. Cardinality(L \ {m}) <= Cardinality({j \in S : j > m})
    BY <2>3, <2>4, FS_Subset
  <2>6. Cardinality(L \ {m}) = Cardinality(L) - 1
    BY <1>2, <2>1, FS_RemoveElement
  <2> QED
    BY <1>2, <2>2, <2>4, <2>5, <2>6
<1> QED
  BY <1>2, <1>3, <1>4

\* What has left the latest n does not come back when the set grows.
LEMMA LatestShrinks ==
  ASSUME NEW T \in SUBSET Nat, IsFiniteSet(T), NEW S \in SUBSET T, NEW n \in Nat,
         NEW i \in S, i \notin Latest(S, n)
  PROVE  i \notin Latest(T, n)
<1>1. ~(Cardinality({j \in S : j > i}) < n)
  BY DEF Latest
<1>2. {j \in T : j > i} \in SUBSET T /\ {j \in S : j > i} \in SUBSET {j \in T : j > i}
  OBVIOUS
<1>3. IsFiniteSet({j \in T : j > i})
  BY <1>2, FS_Subset
<1>4. Cardinality({j \in S : j > i}) <= Cardinality({j \in T : j > i})
      /\ IsFiniteSet({j \in S : j > i})
  BY <1>2, <1>3, FS_Subset
<1>5. Cardinality({j \in S : j > i}) \in Nat /\ Cardinality({j \in T : j > i}) \in Nat
  BY <1>3, <1>4, FS_CardinalityType
<1> QED
  BY <1>1, <1>4, <1>5 DEF Latest

-----------------------------------------------------------------------------
(* How the runs change. *)

RunType == [task : Tasks, status : {"running", "success", "failed"}]

LEMMA RunsTyped ==
  ASSUME TypeOK
  PROVE  /\ runs \in Seq(RunType) /\ Len(runs) \in Nat /\ DOMAIN runs = 1 .. Len(runs)
         /\ \A i \in DOMAIN runs : runs[i] \in RunType
         /\ DOMAIN runs \subseteq Ids /\ IsFiniteSet(DOMAIN runs)
         /\ EndedRuns \subseteq DOMAIN runs
<1>1. runs \in Seq(RunType) /\ Len(runs) <= MaxRuns
  BY DEF TypeOK, RunType
<1>2. Len(runs) \in Nat /\ DOMAIN runs = 1 .. Len(runs)
  BY <1>1
<1>3. IsFiniteSet(DOMAIN runs)
  BY <1>2, FS_Interval
<1> QED
  BY <1>1, <1>2, <1>3, BoundsNatural DEF Ids, EndedRuns

\* Runs are added, and a run that has ended stays as it is.
Grown ==
  /\ runs' \in Seq(RunType) /\ Len(runs') <= MaxRuns
  /\ DOMAIN runs \subseteq DOMAIN runs'
  /\ \A i \in DOMAIN runs :
       /\ runs'[i].task = runs[i].task
       /\ Ended(runs[i].status) => runs'[i].status = runs[i].status
  /\ \A i \in DOMAIN runs' : i \notin DOMAIN runs => runs'[i].status = "running"

LEMMA BeginGrows ==
  ASSUME TypeOK, NEW t \in Tasks, Begin(t)
  PROVE  Grown
<1>1. runs \in Seq(RunType) /\ Len(runs) < MaxRuns /\ MaxRuns \in Nat /\ Len(runs) \in Nat
  BY RunsTyped, BoundsNatural DEF Begin
<1>2. [task |-> t, status |-> "running"] \in RunType
  BY DEF RunType
<1>3. /\ runs' \in Seq(RunType) /\ Len(runs') = Len(runs) + 1
      /\ \A i \in 1 .. Len(runs) : runs'[i] = runs[i]
      /\ runs'[Len(runs) + 1] = [task |-> t, status |-> "running"]
  BY <1>1, <1>2 DEF Begin
<1>4. DOMAIN runs = 1 .. Len(runs) /\ DOMAIN runs' = 1 .. Len(runs) + 1
  BY <1>1, <1>3
<1> QED
  BY <1>1, <1>3, <1>4 DEF Grown

LEMMA FinishGrows ==
  ASSUME TypeOK, NEW i \in Ids, FinishRun(i)
  PROVE  Grown /\ DOMAIN runs' = DOMAIN runs
<1>1. PICK s \in {"success", "failed"} : runs' = [runs EXCEPT ![i].status = s]
  BY DEF FinishRun
<1>2. i \in DOMAIN runs /\ runs[i].status = "running"
  BY DEF FinishRun
<1>3. runs \in Seq(RunType) /\ DOMAIN runs = 1 .. Len(runs) /\ runs[i] \in RunType
      /\ Len(runs) <= MaxRuns /\ \A j \in DOMAIN runs : runs[j] \in RunType
  BY <1>2, RunsTyped DEF TypeOK
<1>4. [runs[i] EXCEPT !.status = s] \in RunType
  BY <1>3 DEF RunType
<1>5. runs' = [runs EXCEPT ![i] = [runs[i] EXCEPT !.status = s]]
  BY <1>1
<1>6. runs' \in Seq(RunType) /\ Len(runs') = Len(runs) /\ DOMAIN runs' = DOMAIN runs
  <2> DEFINE v == [runs[i] EXCEPT !.status = s]
  <2>1. v \in RunType /\ i \in 1 .. Len(runs) /\ runs' = [runs EXCEPT ![i] = v]
    BY <1>2, <1>3, <1>4, <1>5
  <2> HIDE DEF v
  <2> QED
    BY <1>3, <2>1, ExceptSeq
<1>7. \A j \in DOMAIN runs : runs'[j].task = runs[j].task /\ (j # i => runs'[j] = runs[j])
  BY <1>2, <1>3, <1>5 DEF RunType
<1> QED
  BY <1>2, <1>3, <1>6, <1>7 DEF Grown, Ended

LEMMA EmitGrows ==
  ASSUME TypeOK, NEW i \in DOMAIN runs, NEW s, Emit(i, s)
  PROVE  Grown
<1>1. runs[i].task \in Tasks /\ runs \in Seq(RunType) /\ Len(runs) <= MaxRuns
  BY RunsTyped DEF RunType, TypeOK
<1>2. CASE Begin(runs[i].task)
  BY <1>1, <1>2, BeginGrows
<1>3. CASE UNCHANGED runs
  BY <1>1, <1>3 DEF Grown
<1> QED
  BY <1>2, <1>3 DEF Emit

LEMMA RunsGrow == TypeOK /\ [Next]_vars => Grown
<1> SUFFICES ASSUME TypeOK, [Next]_vars PROVE Grown
  OBVIOUS
<1>1. ASSUME UNCHANGED runs PROVE Grown
  BY <1>1, RunsTyped DEF Grown, TypeOK
<1>2. CASE StartRun
  BY <1>2, BeginGrows DEF StartRun
<1>3. ASSUME NEW i \in Ids, FinishRun(i) PROVE Grown
  BY <1>3, FinishGrows
<1>4. ASSUME NEW i \in Ids, OnRunEvent(i) PROVE Grown
  <2>1. i \in DOMAIN runs
    BY <1>4, RunsTyped DEF OnRunEvent, TypeOK
  <2> QED
    BY <1>4, <2>1, EmitGrows DEF OnRunEvent
<1>5. ASSUME NEW r \in got, Handle(r) PROVE Grown
  <2>1. r.id \in DOMAIN runs
    BY <1>5 DEF TypeOK
  <2> QED
    BY <1>1, <1>5, <2>1, EmitGrows DEF Handle
<1>6. CASE ListTasks \/ EndCollect \/ \E t \in Tasks : ListHistory(t)
  BY <1>1, <1>6 DEF ListTasks, EndCollect, ListHistory, core
<1>7. CASE Restart \/ UNCHANGED vars
  BY <1>1, <1>7 DEF Restart, vars
<1> QED
  BY <1>2, <1>3, <1>4, <1>5, <1>6, <1>7 DEF Next, Tick

\* A run that no scan returns is not returned later.
LEMMA GoneForever ==
  ASSUME TypeOK, Grown, TypeOK', NEW i \in DOMAIN runs, Gone(i)
  PROVE  Gone(i)'
<1> DEFINE t == runs[i].task
           S == {j \in DOMAIN runs : runs[j].task = t}
           T == {j \in DOMAIN runs' : runs'[j].task = t}
<1>1. i \in S /\ S \in SUBSET T /\ runs'[i].task = t
  BY DEF Grown
<1>2. T \in SUBSET (DOMAIN runs)' /\ (DOMAIN runs)' \subseteq Nat /\ IsFiniteSet((DOMAIN runs)')
  <2>1. /\ (Len(runs) \in Nat)' /\ (DOMAIN runs = 1 .. Len(runs))'
    BY DEF TypeOK
  <2>2. IsFiniteSet(1 .. Len(runs'))
    BY <2>1, FS_Interval
  <2> QED
    BY <2>1, <2>2
<1>3. T \in SUBSET Nat /\ IsFiniteSet(T)
  BY <1>2, FS_Subset
<1>4. i \notin Latest(S, HistoryLimit)
  BY DEF Gone, TaskOf, Recent
<1>5. i \notin Latest(T, HistoryLimit)
  BY <1>1, <1>3, <1>4, LatestShrinks, LimitPositive
<1> QED
  BY <1>1, <1>5 DEF Gone, TaskOf, Recent, Latest

-----------------------------------------------------------------------------
(* Type correctness. *)

Statuses == {"running", "success", "failed"}

LEMMA EndedGrow == TypeOK /\ Grown => EndedRuns \subseteq EndedRuns'
BY DEF Grown, EndedRuns

LEMMA HandledEnded ==
  ASSUME TypeOK, GotInv, NEW r \in got, pc = "emit"
  PROVE  /\ r.id \in DOMAIN runs /\ r.id \in EndedRuns
         /\ Ended(r.status) /\ runs[r.id].status = r.status
<1>1. r.id \in DOMAIN runs
  BY DEF TypeOK
<1> QED
  BY <1>1 DEF GotInv, EndedRuns

LEMMA EmitCounts ==
  ASSUME emitted \in [Ids -> Nat], NEW i \in Ids, NEW s, Emit(i, s)
  PROVE  /\ emitted' \in [Ids -> Nat] /\ emitted'[i] = emitted[i] + 1
         /\ \A j \in Ids \ {i} : emitted'[j] = emitted[j]
         /\ owed' = owed \ {i}
BY DEF Emit

LEMMA TypeStep == TInv /\ [Next]_vars => TypeOK'
<1> SUFFICES ASSUME TInv, [Next]_vars PROVE TypeOK'
  OBVIOUS
<1>g. Grown /\ EndedRuns \subseteq EndedRuns' /\ TypeOK /\ GotInv /\ DOMAIN runs \subseteq Ids
  BY RunsGrow, EndedGrow, RunsTyped DEF TInv, Grown
<1>r. (runs \in Seq([task : Tasks, status : Statuses]) /\ Len(runs) <= MaxRuns)'
  BY <1>g DEF Grown, RunType, Statuses
<1>k. got \in SUBSET [id : (DOMAIN runs)', status : Statuses]
  BY <1>g DEF Grown, TypeOK, Statuses
<1> USE DEF Statuses
<1>1. CASE StartRun
  BY <1>1, <1>g, <1>r, <1>k DEF StartRun, TypeOK, watcher, history
<1>2. ASSUME NEW i \in Ids, FinishRun(i) PROVE TypeOK'
  <2>1. i \in EndedRuns'
    <3>1. i \in DOMAIN runs /\ DOMAIN runs' = DOMAIN runs
      BY <1>2, <1>g, FinishGrows DEF FinishRun
    <3>2. PICK s \in {"success", "failed"} : runs' = [runs EXCEPT ![i].status = s]
      BY <1>2 DEF FinishRun
    <3>3. runs[i] \in RunType
      BY <3>1, <1>g, RunsTyped
    <3>4. runs'[i].status = s
      BY <3>1, <3>2, <3>3 DEF RunType
    <3> QED
      BY <3>1, <3>4 DEF EndedRuns, Ended
  <2>2. events' \in SUBSET EndedRuns' /\ owed' \in SUBSET EndedRuns'
    BY <1>2, <1>g, <2>1 DEF FinishRun, TypeOK
  <2> QED
    BY <1>2, <1>g, <1>r, <1>k, <2>2 DEF FinishRun, TypeOK, watcher, history
<1>3. ASSUME NEW i \in Ids, OnRunEvent(i) PROVE TypeOK'
  <2>1. emitted' \in [Ids -> Nat] /\ events' \in SUBSET EndedRuns' /\ owed' \in SUBSET EndedRuns'
    BY <1>3, <1>g, EmitCounts DEF OnRunEvent, TypeOK
  <2> QED
    BY <1>3, <1>g, <1>r, <1>k, <2>1 DEF OnRunEvent, TypeOK, watcher, history
<1>4. CASE ListTasks
  <2>1. failures' \in 0 .. MaxFailures
    BY <1>4, <1>g, BoundsNatural DEF ListTasks, TypeOK
  <2>2. pc' \in {"collect", "emit"} /\ todo' \subseteq Tasks /\ missed' \subseteq Tasks
    BY <1>4, <1>g DEF ListTasks, TypeOK
  <2> QED
    BY <1>4, <1>g, <1>r, <1>k, <2>1, <2>2 DEF ListTasks, TypeOK, core
<1>5. ASSUME NEW t \in Tasks, ListHistory(t) PROVE TypeOK'
  <2>1. Recent(t) \subseteq DOMAIN runs
    BY DEF Recent, Latest
  <2>2. \A i \in DOMAIN runs : runs[i].status \in Statuses
    BY <1>g, RunsTyped DEF RunType
  <2>3. runs' = runs
    BY <1>5 DEF ListHistory, core
  <2>4. got' \in SUBSET [id : (DOMAIN runs)', status : Statuses]
    BY <1>5, <1>k, <2>1, <2>2, <2>3 DEF ListHistory
  <2>5. failures' \in 0 .. MaxFailures /\ missed' \subseteq Tasks /\ todo' \subseteq Tasks
    BY <1>5, <1>g, BoundsNatural DEF ListHistory, TypeOK
  <2> QED
    BY <1>5, <1>g, <1>r, <2>4, <2>5 DEF ListHistory, TypeOK, core
<1>6. CASE EndCollect
  <2>1. seen' \in SUBSET EndedRuns'
    BY <1>6, <1>g DEF EndCollect, TypeOK, Prune, Latest
  <2>2. got' \in SUBSET [id : (DOMAIN runs)', status : Statuses]
    BY <1>6, <1>k DEF EndCollect, Handled
  <2>3. excused' \in SUBSET Tasks /\ missed' \in SUBSET Tasks
    BY <1>6, <1>g DEF EndCollect, TypeOK
  <2>4. first' \in BOOLEAN /\ firstPass' \in BOOLEAN /\ pc' = "emit"
    BY <1>6, <1>g DEF EndCollect, TypeOK
  <2> QED
    BY <1>6, <1>g, <1>r, <2>1, <2>2, <2>3, <2>4 DEF EndCollect, TypeOK, core
<1>7. ASSUME NEW r \in got, Handle(r) PROVE TypeOK'
  <2>1. r.id \in EndedRuns /\ r.id \in Ids
    BY <1>7, <1>g, HandledEnded DEF Handle
  <2>2. emitted' \in [Ids -> Nat] /\ owed' \in SUBSET EndedRuns'
    BY <1>7, <1>g, <2>1, EmitCounts DEF Handle, TypeOK
  <2>3. seen' \in SUBSET EndedRuns' /\ got' \in SUBSET [id : (DOMAIN runs)', status : Statuses]
    BY <1>7, <1>g, <1>k, <2>1 DEF Handle, TypeOK
  <2> QED
    BY <1>7, <1>g, <1>r, <2>2, <2>3 DEF Handle, TypeOK, history
<1>8. CASE Restart
  <2>1. restarts' \in 0 .. MaxRestarts
    BY <1>8, <1>g, BoundsNatural DEF Restart, TypeOK
  <2>2. old' \in SUBSET EndedRuns' /\ events' \in SUBSET EndedRuns' /\ seen' \in SUBSET EndedRuns'
    BY <1>8, <1>g DEF Restart
  <2>3. got' = {} /\ todo' = {} /\ missed' = {} /\ pc' = "emit"
        /\ firstPass' = TRUE /\ first' = FALSE
    BY <1>8 DEF Restart
  <2> QED
    BY <1>8, <1>g, <1>r, <2>1, <2>2, <2>3 DEF Restart, TypeOK
<1>9. CASE UNCHANGED vars
  BY <1>9, <1>g DEF vars, TypeOK, EndedRuns
<1> QED
  BY <1>1, <1>2, <1>3, <1>4, <1>5, <1>6, <1>7, <1>8, <1>9 DEF Next, Tick

LEMMA GotStep == TInv /\ [Next]_vars => GotInv'
<1> SUFFICES ASSUME TInv, [Next]_vars PROVE GotInv'
  OBVIOUS
<1>g. Grown /\ TypeOK /\ GotInv
  BY RunsGrow DEF TInv
<1>1. ASSUME got' \subseteq got, pc' = pc PROVE GotInv'
  BY <1>1, <1>g DEF GotInv, Grown, TypeOK
<1>2. CASE StartRun \/ \E i \in Ids : FinishRun(i) \/ OnRunEvent(i)
  BY <1>1, <1>2 DEF StartRun, FinishRun, OnRunEvent, watcher
<1>3. CASE ListTasks
  BY <1>3 DEF ListTasks, GotInv
<1>4. ASSUME NEW t \in Tasks, ListHistory(t) PROVE GotInv'
  <2>1. runs' = runs /\ pc' = "collect"
    BY <1>4 DEF ListHistory, core
  <2>2. CASE UNCHANGED got
    BY <1>4, <2>1, <2>2, <1>g DEF GotInv
  <2>3. CASE got' = got \cup {[id |-> i, status |-> runs[i].status] : i \in Recent(t)}
    BY <1>4, <2>1, <2>3, <1>g DEF GotInv
  <2> QED
    BY <1>4, <2>2, <2>3 DEF ListHistory
<1>5. CASE EndCollect
  BY <1>5, <1>g DEF EndCollect, Handled, GotInv, core
<1>6. ASSUME NEW r \in got, Handle(r) PROVE GotInv'
  BY <1>1, <1>6 DEF Handle
<1>7. CASE Restart
  BY <1>7 DEF Restart, GotInv
<1>8. CASE UNCHANGED vars
  BY <1>1, <1>8 DEF vars
<1> QED
  BY <1>2, <1>3, <1>4, <1>5, <1>6, <1>7, <1>8 DEF Next, Tick

LEMMA InitTyped == Init => TInv
<1> SUFFICES ASSUME Init PROVE TInv
  OBVIOUS
<1>1. runs \in Seq([task : Tasks, status : {"running", "success", "failed"}])
      /\ Len(runs) <= MaxRuns
  BY BoundsNatural DEF Init
<1>2. emitted \in [Ids -> Nat]
  BY DEF Init
<1>3. 0 \in 0 .. MaxFailures /\ 0 \in 0 .. MaxRestarts
  BY BoundsNatural
<1>4. TypeOK
  BY <1>1, <1>2, <1>3 DEF Init, TypeOK
<1> QED
  BY <1>4 DEF Init, TInv, GotInv

\* The state is well typed, for any number of tasks, runs, failing calls and
\* restarts.
THEOREM TypeCorrect == Spec => []TypeOK
<1>1. Init => TInv
  BY InitTyped
<1>2. TInv /\ [Next]_vars => TInv'
  BY TypeStep, GotStep DEF TInv
<1>3. TInv => TypeOK
  BY DEF TInv
<1> QED
  BY <1>1, <1>2, <1>3, PTL DEF Spec

-----------------------------------------------------------------------------
(* Nothing that ends under the watch is taken for the past. *)

WatchInv ==
  /\ mode = "event" => pc = "emit" /\ got = {}
  /\ mode = "poll" /\ firstPass => owed = {}
  /\ first /\ pc = "emit" => Scanned \cap owed = {}
  /\ NothingSwallowed

LEMMA WatchStep == TInv /\ WatchInv /\ [Next]_vars => WatchInv'
<1> SUFFICES ASSUME TInv, WatchInv, [Next]_vars PROVE WatchInv'
  OBVIOUS
<1>0. TypeOK /\ GotInv /\ mode \in {"event", "poll"}
  BY DEF TInv, TypeOK
<1>1. CASE StartRun \/ UNCHANGED vars
  BY <1>1 DEF StartRun, watcher, history, vars, WatchInv, NothingSwallowed, Scanned
<1>2. ASSUME NEW i \in Ids, FinishRun(i) PROVE WatchInv'
  <2>1. /\ i \notin EndedRuns /\ owed' \subseteq owed \cup {i}
        /\ mode = "poll" /\ firstPass => owed' = owed
        /\ mode = "event" => events' = events \cup {i}
        /\ UNCHANGED <<mode, firstPass, seen, pc, got, first>>
    BY <1>2 DEF FinishRun, Watching, EndedRuns, Ended, watcher
  <2>2. i \notin seen /\ (pc = "emit" => i \notin Scanned)
    BY <1>0, <2>1, HandledEnded DEF TypeOK, Scanned
  <2> QED
    BY <2>1, <2>2 DEF WatchInv, NothingSwallowed, Scanned
<1>3. ASSUME NEW i \in Ids, OnRunEvent(i) PROVE WatchInv'
  <2>1. owed' = owed \ {i} /\ events' = events \ {i}
        /\ UNCHANGED <<mode, firstPass, seen, pc, got, first>>
    BY <1>0, <1>3, EmitCounts DEF OnRunEvent, watcher, TypeOK
  <2> QED
    BY <2>1 DEF WatchInv, NothingSwallowed, Scanned
<1>4. CASE ListTasks
  BY <1>4 DEF ListTasks, core, WatchInv, NothingSwallowed, Scanned
<1>5. ASSUME NEW t \in Tasks, ListHistory(t) PROVE WatchInv'
  BY <1>5 DEF ListHistory, core, WatchInv, NothingSwallowed
<1>6. CASE EndCollect
  <2>1. mode = "poll" /\ pc = "collect" /\ seen' \subseteq seen
    BY <1>0, <1>6 DEF EndCollect, Prune, Latest, WatchInv
  <2> QED
    BY <1>6, <2>1 DEF EndCollect, core, WatchInv, NothingSwallowed
<1>7. ASSUME NEW r \in got, Handle(r) PROVE WatchInv'
  <2>1. /\ mode = "poll" /\ pc = "emit" /\ got' \subseteq got /\ seen' = seen \cup {r.id}
        /\ UNCHANGED <<mode, firstPass, pc, first>>
    BY <1>0, <1>7 DEF Handle, WatchInv
  <2>2. r.id \in Ids
    BY <1>0, <1>7, RunsTyped DEF TypeOK
  <2>3. owed' \subseteq owed /\ r.id \notin owed'
    <3>1. CASE News(r.id)
      BY <1>0, <1>7, <2>2, <3>1, EmitCounts DEF Handle, TypeOK
    <3>2. CASE ~News(r.id)
      BY <1>7, <2>1, <3>2 DEF Handle, News, WatchInv, NothingSwallowed, Scanned
    <3> QED
      BY <3>1, <3>2
  <2> QED
    BY <2>1, <2>3 DEF WatchInv, NothingSwallowed, Scanned
<1>8. CASE Restart
  BY <1>8 DEF Restart, WatchInv, NothingSwallowed
<1> QED
  BY <1>1, <1>2, <1>3, <1>4, <1>5, <1>6, <1>7, <1>8 DEF Next, Tick

\* A run that ends under the watch is not marked as seen, and its event not
\* dropped, before it is announced, however scans, runs and restarts interleave.
\* This needs no room in the memory.
THEOREM NewsKept == Spec => []NothingSwallowed
<1> DEFINE P == TInv /\ WatchInv
<1>1. Init => P
  <2>1. Init => WatchInv
    BY DEF Init, WatchInv, NothingSwallowed
  <2> QED
    BY <2>1, InitTyped
<1>2. P /\ [Next]_vars => P'
  BY TypeStep, GotStep, WatchStep DEF TInv
<1>3. P => NothingSwallowed
  BY DEF WatchInv
<1> QED
  BY <1>1, <1>2, <1>3, PTL DEF Spec

-----------------------------------------------------------------------------
(* At most once. *)

\* Everything but TypeOK, GotInv and EventInv.
MemoryInv == FoundInv /\ PhaseInv /\ CollectInv /\ RememberInv /\ OnceInv /\ SizeInv

LEMMA DoneEnded ==
  ASSUME IInv, NEW i \in Ids, Done(i)
  PROVE  i \in DOMAIN runs /\ i \in EndedRuns /\ Ended(runs[i].status)
BY DEF IInv, OnceInv, EndedRuns

LEMMA TaskFixed ==
  ASSUME Grown, NEW i \in DOMAIN runs
  PROVE  i \in DOMAIN runs' /\ TaskOf(i)' = TaskOf(i)
BY DEF Grown, TaskOf

\* What holds of the runs that are done is kept when no other run becomes done.
LEMMA DoneWasRun ==
  ASSUME IInv, Grown, TypeOK', NEW i \in (DOMAIN runs)', Done(i)
  PROVE  i \in DOMAIN runs /\ TaskOf(i)' = TaskOf(i) /\ (Gone(i) => Gone(i)')
<1>1. i \in Ids
  <2>1. (runs \in Seq(RunType) /\ Len(runs) <= MaxRuns)'
    BY DEF TypeOK, RunType
  <2>2. i \in 1 .. Len(runs') /\ Len(runs') \in Nat
    BY <2>1
  <2> QED
    BY <2>1, <2>2, BoundsNatural DEF Ids
<1>2. i \in DOMAIN runs
  BY <1>1, DoneEnded
<1> QED
  BY <1>2, TaskFixed, GoneForever DEF IInv, TInv

LEMMA QuietStep ==
  ASSUME IInv, TypeOK', Grown,
         UNCHANGED <<mode, firstPass, seen, pc, todo, got, first, emitted, old,
                     missed, excused>>
  PROVE  MemoryInv'
<1>1. \A i : Done(i)' <=> Done(i)
  BY DEF Done
<1>2. Scanned' = Scanned
  BY DEF Scanned
<1>3. FoundInv' /\ PhaseInv' /\ SizeInv'
  BY <1>1, <1>2 DEF IInv, FoundInv, PhaseInv, SizeInv
<1>4. ASSUME NEW i \in (DOMAIN runs)', Done(i)'
      PROVE  i \in DOMAIN runs /\ Done(i) /\ TaskOf(i)' = TaskOf(i) /\ (Gone(i) => Gone(i)')
  BY <1>1, <1>4, DoneWasRun
<1>5. CollectInv'
  BY <1>2, <1>4 DEF IInv, CollectInv
<1>6. RememberInv'
  BY <1>2, <1>4 DEF IInv, RememberInv
<1>7. OnceInv'
  <2>1. EndedRuns \subseteq EndedRuns'
    BY EndedGrow DEF IInv, TInv
  <2>2. ASSUME NEW i \in Ids, emitted'[i] > 1 PROVE i \in DOMAIN runs' /\ TaskOf(i)' \in excused'
    BY <2>2, TaskFixed DEF IInv, OnceInv
  <2> QED
    BY <1>1, <2>1, <2>2 DEF IInv, OnceInv
<1> QED
  BY <1>3, <1>5, <1>6, <1>7 DEF MemoryInv

\* Event mode: the memory is not used.
LEMMA EventStep ==
  ASSUME IInv, TypeOK', Grown, NEW i \in Ids, OnRunEvent(i)
  PROVE  MemoryInv' /\ EventInv'
<1>1. mode = "event" /\ i \in events /\ got = {} /\ pc = "emit"
  BY DEF OnRunEvent, IInv, EventInv, PhaseInv
<1>2. ~Done(i) /\ emitted[i] = 0 /\ i \in EndedRuns
  BY <1>1 DEF IInv, TInv, TypeOK, EventInv, Done
<1>3. /\ emitted'[i] = 1
      /\ \A j \in Ids \ {i} : emitted'[j] = emitted[j]
  BY <1>2, EmitCounts DEF OnRunEvent, IInv, TInv, TypeOK
<1>4. EndedRuns \subseteq EndedRuns' /\ EndedRuns \subseteq Ids
  BY EndedGrow, RunsTyped DEF IInv, TInv
<1>5. OnceInv'
  <2>1. ASSUME NEW j \in Ids, Done(j)' PROVE j \in EndedRuns'
    BY <1>2, <1>3, <1>4, <2>1 DEF IInv, OnceInv, Done, OnRunEvent, history
  <2>2. ASSUME NEW j \in Ids, emitted'[j] > 1 PROVE j \in DOMAIN runs' /\ TaskOf(j)' \in excused'
    BY <1>3, <2>2, TaskFixed DEF IInv, OnceInv, OnRunEvent, history
  <2> QED
    BY <2>1, <2>2 DEF OnceInv
<1>6. FoundInv' /\ PhaseInv' /\ CollectInv' /\ RememberInv' /\ SizeInv'
  BY <1>1 DEF OnRunEvent, watcher, IInv, FoundInv, PhaseInv, CollectInv, RememberInv, SizeInv
<1>7. EventInv'
  <2>1. \A j \in events' : j \in Ids /\ j # i /\ j \in events
    BY <1>4 DEF OnRunEvent, IInv, TInv, TypeOK
  <2> QED
    BY <1>1, <1>3, <2>1 DEF OnRunEvent, watcher, history, IInv, EventInv, Done
<1> QED
  BY <1>5, <1>6, <1>7 DEF MemoryInv

LEMMA ListTasksStep ==
  ASSUME IInv, MemorySuffices, TypeOK', ListTasks
  PROVE  MemoryInv' /\ EventInv'
<1>1. /\ mode = "poll" /\ got = {} /\ got' = {} /\ first' = FALSE /\ runs' = runs
      /\ mode' = mode /\ seen' = seen /\ firstPass' = firstPass /\ events' = events
      /\ emitted' = emitted /\ old' = old /\ excused' = excused
  BY DEF ListTasks, core
<1>2. Scanned = {} /\ Scanned' = {} /\ \A i : Done(i)' <=> Done(i)
  BY <1>1 DEF Scanned, Done
<1>3. FoundInv' /\ EventInv'
  BY <1>1, <1>2 DEF FoundInv, IInv, EventInv
<1>4. PhaseInv' /\ OnceInv'
  BY <1>1, <1>2 DEF PhaseInv, IInv, OnceInv, EndedRuns, TaskOf
<1>5. CollectInv'
  <2>1. pc' = "collect" => todo' = Tasks
    BY DEF ListTasks
  <2>2. \A i \in DOMAIN runs' : TaskOf(i)' \in Tasks
    BY <1>1, RunsTyped DEF IInv, TInv, TaskOf, RunType
  <2> QED
    BY <2>1, <2>2 DEF CollectInv
<1>6. RememberInv'
  BY <1>1, <1>2 DEF IInv, RememberInv, Gone, TaskOf, Recent, Latest
<1>7. SizeInv'
  <2>1. pc' = "collect" => todo' = Tasks
    BY DEF ListTasks
  <2>2. Cardinality(Tasks) \in Nat /\ (Cardinality(Tasks) - Cardinality(Tasks)) * HistoryLimit = 0
    BY LimitPositive, FS_CardinalityType DEF MemorySuffices
  <2> QED
    BY <1>2, <2>1, <2>2, FS_EmptySet DEF SizeInv
<1> QED
  BY <1>3, <1>4, <1>5, <1>6, <1>7 DEF MemoryInv

LEMMA RecentSize ==
  ASSUME TypeOK, NEW t
  PROVE  /\ Recent(t) \subseteq {i \in DOMAIN runs : TaskOf(i) = t}
         /\ IsFiniteSet(Recent(t)) /\ Cardinality(Recent(t)) <= HistoryLimit
<1> DEFINE S == {i \in DOMAIN runs : runs[i].task = t}
<1>1. DOMAIN runs \subseteq Nat /\ IsFiniteSet(DOMAIN runs)
  BY RunsTyped
<1>2. S \in SUBSET Nat /\ IsFiniteSet(S)
  BY <1>1, FS_Subset
<1>3. Recent(t) = Latest(S, HistoryLimit)
  BY DEF Recent
<1>4. IsFiniteSet(Latest(S, HistoryLimit)) /\ Cardinality(Latest(S, HistoryLimit)) <= HistoryLimit
  BY <1>2, LatestSize, LimitPositive
<1> QED
  BY <1>3, <1>4 DEF Latest, TaskOf

LEMMA ListHistoryStep ==
  ASSUME IInv, MemorySuffices, TypeOK', NEW t \in Tasks, ListHistory(t)
  PROVE  MemoryInv' /\ EventInv'
<1>1. /\ pc = "collect" /\ pc' = "collect" /\ mode' = mode /\ ~first /\ first' = first
      /\ runs' = runs /\ events' = events /\ emitted' = emitted /\ old' = old
      /\ seen' = seen /\ firstPass' = firstPass /\ excused' = excused
      /\ t \in todo /\ todo' = todo \ {t} /\ mode = "poll"
  <2>1. pc = "collect" /\ mode \in {"event", "poll"}
    BY DEF ListHistory, IInv, TInv, TypeOK
  <2> QED
    BY <2>1 DEF ListHistory, core, IInv, PhaseInv
<1> DEFINE new == {[id |-> i, status |-> runs[i].status] : i \in Recent(t)}
<1>2. \/ got' = got \cup new /\ missed' = missed
      \/ got' = got /\ missed' = missed \cup {t}
  BY DEF ListHistory
<1>3. (\A i : Done(i)' <=> Done(i)) /\ (\A i : Gone(i)' <=> Gone(i)) /\ (\A i : TaskOf(i)' = TaskOf(i))
  BY <1>1 DEF Done, Gone, TaskOf, Recent, Latest
<1>4. \/ Scanned' = Scanned \cup Recent(t) /\ missed' = missed
      \/ Scanned' = Scanned /\ missed' = missed \cup {t}
  <2>1. {r.id : r \in new} = Recent(t)
    <3>1. \A i \in Recent(t) : [id |-> i, status |-> runs[i].status] \in new
      OBVIOUS
    <3>2. \A r \in new : r.id \in Recent(t)
      OBVIOUS
    <3>3. \A i \in Recent(t) : \E r \in new : r.id = i
      BY <3>1
    <3> QED
      BY <3>2, <3>3
  <2>2. {r.id : r \in got \cup new} = Scanned \cup {r.id : r \in new}
    BY DEF Scanned
  <2> QED
    BY <1>2, <2>1, <2>2 DEF Scanned
<1>5. Recent(t) \subseteq {i \in DOMAIN runs : TaskOf(i) = t}
  BY RecentSize DEF IInv, TInv
<1>6. FoundInv'
  <2>1. ASSUME NEW r \in new, Done(r.id) PROVE Ended(r.status)
    <3>1. r.id \in Ids /\ r.status = runs[r.id].status
      BY <1>5, RunsTyped DEF IInv, TInv
    <3> QED
      BY <2>1, <3>1, DoneEnded
  <2> QED
    BY <1>2, <1>3, <2>1 DEF IInv, FoundInv
<1>7. PhaseInv' /\ OnceInv' /\ EventInv'
  BY <1>1, <1>3 DEF IInv, PhaseInv, OnceInv, EventInv, EndedRuns
<1>8. CollectInv'
  <2>1. SUFFICES ASSUME NEW i \in DOMAIN runs, Done(i)
                 PROVE  TaskOf(i) \in todo' \cup missed' \/ i \in Scanned' \/ Gone(i)
    BY <1>1, <1>3 DEF CollectInv
  <2>2. TaskOf(i) \in todo \cup missed \/ i \in Scanned \/ Gone(i)
    BY <1>1, <2>1 DEF IInv, CollectInv
  <2>3. CASE TaskOf(i) = t
    BY <1>1, <1>4, <2>2, <2>3 DEF Gone
  <2>4. CASE TaskOf(i) # t
    BY <1>1, <1>4, <2>2, <2>4
  <2> QED
    BY <2>3, <2>4
<1>9. RememberInv'
  <2>1. SUFFICES ASSUME NEW i \in DOMAIN runs, Done(i)
                 PROVE  \/ TaskOf(i) \in excused \/ i \in seen \/ firstPass
                        \/ Gone(i) /\ i \notin Scanned'
    BY <1>1, <1>3 DEF RememberInv
  <2>2. \/ TaskOf(i) \in excused \/ i \in seen \/ firstPass
        \/ Gone(i) /\ i \notin Scanned
    BY <1>1, <2>1 DEF IInv, RememberInv
  <2>3. Gone(i) => i \notin Recent(t)
    BY <1>5 DEF Gone
  <2> QED
    BY <1>4, <2>2, <2>3
<1>10. SizeInv'
  <2> DEFINE a == Cardinality(Tasks)
             b == Cardinality(todo)
  <2>1. IsFiniteSet(Scanned) /\ Cardinality(Scanned) <= (a - b) * HistoryLimit
    BY <1>1 DEF IInv, SizeInv
  <2>2. IsFiniteSet(todo) /\ a \in Nat /\ b \in Nat /\ HistoryLimit \in Nat
        /\ Cardinality(todo') = b - 1
    BY <1>1, LimitPositive, FS_Subset, FS_RemoveElement, FS_CardinalityType DEF MemorySuffices, IInv, TInv, TypeOK
  <2>3. (a - (b - 1)) * HistoryLimit = (a - b) * HistoryLimit + HistoryLimit
    <3> HIDE DEF a, b
    <3> QED
      BY <2>2
  <2>4. /\ IsFiniteSet(Recent(t)) /\ Cardinality(Recent(t)) <= HistoryLimit
        /\ Cardinality(Recent(t)) \in Nat
    BY RecentSize, FS_CardinalityType DEF IInv, TInv
  <2>5. IsFiniteSet(Scanned \cup Recent(t))
        /\ Cardinality(Scanned \cup Recent(t)) <= Cardinality(Scanned) + Cardinality(Recent(t))
    <3>1. IsFiniteSet(Scanned \cap Recent(t))
      BY <2>4, FS_Subset
    <3>2. Cardinality(Scanned \cap Recent(t)) \in Nat /\ Cardinality(Scanned) \in Nat
      BY <2>1, <3>1, FS_CardinalityType
    <3> QED
      BY <2>1, <2>4, <3>2, FS_Union
  <2>6. (a - b) * HistoryLimit \in Int
    BY <2>2
  <2>7. Cardinality(Scanned) \in Nat /\ Cardinality(Scanned \cup Recent(t)) \in Nat
    BY <2>1, <2>5, FS_CardinalityType
  <2>8. IsFiniteSet(Scanned') /\ Cardinality(Scanned') <= (a - b) * HistoryLimit + HistoryLimit
    <3> DEFINE c == (a - b) * HistoryLimit
    <3>1. Cardinality(Scanned) <= c /\ c \in Int
      BY <2>1, <2>6
    <3> HIDE DEF a, b, c
    <3>2. Cardinality(Scanned \cup Recent(t)) <= c + HistoryLimit
      BY <3>1, <2>2, <2>4, <2>5, <2>7
    <3>3. Cardinality(Scanned) <= c + HistoryLimit
      BY <3>1, <2>2, <2>7
    <3>4. CASE Scanned' = Scanned
      BY <3>3, <3>4, <2>1 DEF c
    <3>5. CASE Scanned' = Scanned \cup Recent(t)
      BY <3>2, <3>5, <2>5 DEF c
    <3> QED
      BY <1>4, <3>4, <3>5
  <2> QED
    BY <2>2, <2>3, <2>8 DEF SizeInv
<1> QED
  BY <1>6, <1>7, <1>8, <1>9, <1>10 DEF MemoryInv

\* Pruning keeps what the scan has found.
LEMMA PruneKeeps ==
  ASSUME IInv, MemorySuffices, pc = "collect", todo = {}
  PROVE  /\ Prune(Scanned) \subseteq seen
         /\ seen \cap Scanned \subseteq Prune(Scanned)
         /\ Cardinality(seen) > MaxKeep \/ Prune(Scanned) = seen
<1>1. IsFiniteSet(Scanned) /\ Cardinality(Scanned) <= (Cardinality(Tasks) - 0) * HistoryLimit
  BY FS_EmptySet DEF IInv, SizeInv
<1>2. Cardinality(Tasks) \in Nat /\ HistoryLimit \in Nat /\ MaxKeep \in Nat
  BY FS_CardinalityType, LimitPositive, BoundsNatural DEF MemorySuffices
<1>3. IsFiniteSet(seen \cap Scanned) /\ Cardinality(seen \cap Scanned) <= Cardinality(Scanned)
  BY <1>1, FS_Subset
<1>4. Cardinality(seen \cap Scanned) \in Nat /\ Cardinality(Scanned) \in Nat
  BY <1>1, <1>3, FS_CardinalityType
<1>5. Cardinality(seen \cap Scanned) <= MaxKeep
  <2>1. Cardinality(Scanned) <= Cardinality(Tasks) * HistoryLimit
    BY <1>1, <1>2
  <2>2. Cardinality(Tasks) * HistoryLimit \in Nat
    BY <1>2
  <2> QED
    BY <1>2, <1>3, <1>4, <2>1, <2>2 DEF MemorySuffices
<1>6. seen \cap Scanned \in SUBSET Nat
  BY RunsTyped DEF IInv, TInv, TypeOK
<1>7. Latest(seen \cap Scanned, MaxKeep) = seen \cap Scanned
  BY <1>2, <1>3, <1>5, <1>6, LatestAll
<1> QED
  BY <1>7 DEF Prune

LEMMA EndCollectStep ==
  ASSUME IInv, MemorySuffices, TypeOK', EndCollect
  PROVE  MemoryInv' /\ EventInv'
<1>1. /\ pc = "collect" /\ todo = {} /\ pc' = "emit" /\ mode' = mode /\ mode = "poll" /\ ~first
      /\ runs' = runs /\ events' = events /\ emitted' = emitted /\ old' = old
      /\ first' = firstPass /\ firstPass' = FALSE /\ got' = Handled(got)
      /\ excused \subseteq excused'
  <2>1. pc = "collect" /\ mode \in {"event", "poll"}
    BY DEF EndCollect, IInv, TInv, TypeOK
  <2> QED
    BY <2>1 DEF EndCollect, core, IInv, PhaseInv
<1>2. seen' = Prune(Scanned)
  BY DEF EndCollect, Scanned
<1>3. (\A i : Done(i)' <=> Done(i)) /\ (\A i : Gone(i)' <=> Gone(i)) /\ (\A i : TaskOf(i)' = TaskOf(i))
  BY <1>1 DEF Done, Gone, TaskOf, Recent, Latest
<1>4. Scanned' \subseteq Scanned /\ \A i \in Scanned : Done(i) => i \in Scanned'
  BY <1>1 DEF Scanned, Handled, IInv, FoundInv
<1>5. FoundInv' /\ CollectInv' /\ SizeInv'
  BY <1>1 DEF Handled, FoundInv, CollectInv, SizeInv
<1>6. PhaseInv' /\ OnceInv' /\ EventInv'
  BY <1>1, <1>3 DEF IInv, PhaseInv, OnceInv, EventInv, EndedRuns
<1>7. RememberInv'
  <2>1. SUFFICES ASSUME NEW i \in DOMAIN runs, Done(i)
                 PROVE  \/ TaskOf(i) \in excused' \/ i \in seen'
                        \/ first' /\ i \in Scanned'
                        \/ Gone(i) /\ i \notin Scanned'
    BY <1>1, <1>3 DEF RememberInv
  <2>2. TaskOf(i) \in missed \/ i \in Scanned \/ Gone(i)
    BY <1>1, <2>1 DEF IInv, CollectInv
  <2>3. CASE firstPass
    <3>1. missed \subseteq excused'
      BY <2>3 DEF EndCollect
    <3> QED
      BY <1>1, <1>4, <2>1, <2>2, <2>3, <3>1
  <2>4. CASE ~firstPass
    <3>1. \/ TaskOf(i) \in excused
          \/ i \in seen
          \/ Gone(i) /\ i \notin Scanned
      <4>1. mode = "poll" /\ ~first /\ RememberInv
        BY <1>1 DEF IInv
      <4> QED
        BY <2>1, <2>4, <4>1 DEF RememberInv
    <3>2. CASE i \in seen
      <4>1. CASE Cardinality(seen) > MaxKeep
        <5>1. missed \subseteq excused'
          BY <4>1 DEF EndCollect
        <5> QED
          BY <1>1, <1>2, <1>4, <2>2, <3>2, <5>1, PruneKeeps
      <4>2. CASE ~(Cardinality(seen) > MaxKeep)
        BY <1>1, <1>2, <3>2, <4>2, PruneKeeps
      <4> QED
        BY <4>1, <4>2
    <3> QED
      BY <1>1, <1>4, <3>1, <3>2
  <2> QED
    BY <2>3, <2>4
<1> QED
  BY <1>5, <1>6, <1>7 DEF MemoryInv

\* A run that is done is not announced by the loop of tick.
LEMMA NotAgain ==
  ASSUME IInv, NEW r \in got, pc = "emit", News(r.id), Done(r.id)
  PROVE  TaskOf(r.id) \in excused
<1>1. r.id \in DOMAIN runs /\ r.id \in Scanned /\ mode = "poll"
  <2>1. mode \in {"event", "poll"} /\ got # {}
    BY DEF IInv, TInv, TypeOK
  <2> QED
    BY <2>1 DEF IInv, TInv, TypeOK, Scanned, PhaseInv
<1>2. ~first /\ r.id \notin seen /\ ~firstPass
  BY DEF News, IInv, PhaseInv
<1> QED
  BY <1>1, <1>2 DEF IInv, RememberInv

LEMMA HandleStep ==
  ASSUME IInv, TypeOK', Grown, NEW r \in got, Handle(r)
  PROVE  MemoryInv' /\ EventInv'
<1>1. /\ pc = "emit" /\ pc' = "emit" /\ mode' = mode /\ mode = "poll" /\ events' = events
      /\ first' = first /\ firstPass' = firstPass /\ old' = old /\ excused' = excused
      /\ got' = got \ {r} /\ seen' = seen \cup {r.id}
  <2>1. mode \in {"event", "poll"} /\ got # {}
    BY DEF IInv, TInv, TypeOK
  <2> QED
    BY <2>1 DEF Handle, history, IInv, PhaseInv
<1>2. r.id \in EndedRuns /\ r.id \in DOMAIN runs /\ r.id \in Ids
  BY <1>1, HandledEnded, RunsTyped DEF IInv, TInv
<1>3. /\ \A j \in Ids \ {r.id} : emitted'[j] = emitted[j]
      /\ emitted'[r.id] = IF News(r.id) THEN emitted[r.id] + 1 ELSE emitted[r.id]
  BY <1>2, EmitCounts DEF Handle, IInv, TInv, TypeOK
<1>4. \A j \in Ids \ {r.id} : Done(j)' <=> Done(j)
  BY <1>1, <1>3 DEF Done
<1>5. EndedRuns \subseteq EndedRuns' /\ (DOMAIN runs)' \subseteq Ids
  <2>1. (DOMAIN runs \subseteq Ids)'
    <3>1. (runs \in Seq(RunType) /\ Len(runs) <= MaxRuns)'
      BY DEF TypeOK, RunType
    <3>2. DOMAIN runs' = 1 .. Len(runs') /\ Len(runs') \in Nat
      BY <3>1
    <3> QED
      BY <3>1, <3>2, BoundsNatural DEF Ids
  <2> QED
    BY <2>1, EndedGrow DEF IInv, TInv
<1>6. FoundInv'
  BY <1>1 DEF IInv, TInv, GotInv, FoundInv
<1>7. PhaseInv' /\ CollectInv' /\ SizeInv'
  BY <1>1 DEF IInv, PhaseInv, CollectInv, SizeInv
<1>8. EventInv'
  <2>1. events = {}
    BY <1>1 DEF IInv, EventInv
  <2> QED
    BY <1>1, <2>1 DEF EventInv
<1>9. OnceInv'
  <2>1. ASSUME NEW j \in Ids, Done(j)' PROVE j \in EndedRuns'
    BY <1>2, <1>4, <1>5, <2>1 DEF IInv, OnceInv
  <2>2. ASSUME NEW j \in Ids, emitted'[j] > 1 PROVE j \in DOMAIN runs /\ TaskOf(j) \in excused
    <3>1. CASE j # r.id \/ ~News(r.id)
      BY <1>3, <2>2, <3>1 DEF IInv, OnceInv
    <3>2. CASE j = r.id /\ News(r.id)
      <4>1. emitted[j] > 0
        <5>1. emitted[j] \in Nat /\ emitted'[j] = emitted[j] + 1
          BY <1>3, <3>2 DEF IInv, TInv, TypeOK
        <5> QED
          BY <2>2, <5>1
      <4> QED
        BY <1>1, <1>2, <3>2, <4>1, NotAgain DEF Done
    <3> QED
      BY <3>1, <3>2
  <2>3. ASSUME NEW j \in Ids, emitted'[j] > 1 PROVE j \in DOMAIN runs' /\ TaskOf(j)' \in excused'
    BY <1>1, <2>2, <2>3, TaskFixed
  <2> QED
    BY <2>1, <2>3 DEF OnceInv
<1>10. RememberInv'
  <2>1. SUFFICES ASSUME NEW i \in (DOMAIN runs)', Done(i)', i # r.id
                 PROVE  \/ TaskOf(i)' \in excused \/ i \in seen \/ firstPass
                        \/ first /\ i \in Scanned'
                        \/ Gone(i)' /\ i \notin Scanned'
    BY <1>1 DEF RememberInv
  <2>2. Done(i) /\ i \in DOMAIN runs /\ TaskOf(i)' = TaskOf(i) /\ (Gone(i) => Gone(i)')
    BY <1>4, <1>5, <2>1, DoneWasRun
  <2>3. i \in Scanned <=> i \in Scanned'
    BY <1>1, <2>1 DEF Scanned
  <2> QED
    BY <1>1, <2>2, <2>3 DEF IInv, RememberInv
<1> QED
  BY <1>6, <1>7, <1>8, <1>9, <1>10 DEF MemoryInv

LEMMA RestartStep ==
  ASSUME IInv, TypeOK', Restart
  PROVE  MemoryInv' /\ EventInv'
<1>1. /\ runs' = runs /\ events' = {} /\ firstPass' = TRUE /\ pc' = "emit" /\ got' = {}
      /\ emitted' = emitted /\ old' = EndedRuns /\ excused' = excused
  BY DEF Restart
<1>2. FoundInv' /\ PhaseInv' /\ CollectInv' /\ RememberInv' /\ SizeInv' /\ EventInv'
  BY <1>1 DEF FoundInv, PhaseInv, CollectInv, RememberInv, SizeInv, EventInv
<1>3. EndedRuns' = EndedRuns
  BY <1>1 DEF EndedRuns
<1>4. OnceInv'
  BY <1>1, <1>3 DEF IInv, OnceInv, Done, TaskOf
<1> QED
  BY <1>2, <1>4 DEF MemoryInv

LEMMA MemoryStep == MemorySuffices /\ IInv /\ [Next]_vars => IInv'
<1> SUFFICES ASSUME MemorySuffices, IInv, [Next]_vars PROVE IInv'
  OBVIOUS
<1>g. Grown /\ TInv' /\ TypeOK'
  BY RunsGrow, TypeStep, GotStep DEF IInv, TInv
<1>q. IInv' <=> MemoryInv' /\ EventInv'
  BY <1>g DEF IInv, MemoryInv
<1>1. ASSUME UNCHANGED <<watcher, emitted, history>> PROVE MemoryInv'
  BY <1>1, <1>g, QuietStep DEF watcher, history
<1>2. CASE StartRun
  <2>1. EventInv'
    BY <1>2 DEF StartRun, watcher, history, IInv, EventInv, Done
  <2> QED
    BY <1>1, <1>2, <1>q, <2>1 DEF StartRun
<1>3. ASSUME NEW i \in Ids, FinishRun(i) PROVE IInv'
  <2>1. ~Done(i)
    BY <1>3, DoneEnded DEF FinishRun, Ended
  <2>2. events' \subseteq events \cup {i} /\ (mode # "event" => events' = events)
    BY <1>3 DEF FinishRun
  <2>3. EventInv'
    BY <1>3, <2>1, <2>2 DEF FinishRun, watcher, history, IInv, EventInv, Done
  <2> QED
    BY <1>1, <1>3, <1>q, <2>3 DEF FinishRun
<1>4. ASSUME NEW i \in Ids, OnRunEvent(i) PROVE IInv'
  BY <1>4, <1>g, <1>q, EventStep
<1>5. CASE ListTasks \/ EndCollect \/ Restart
  BY <1>5, <1>g, <1>q, ListTasksStep, EndCollectStep, RestartStep
<1>6. ASSUME NEW t \in Tasks, ListHistory(t) PROVE IInv'
  BY <1>6, <1>g, <1>q, ListHistoryStep
<1>7. ASSUME NEW r \in got, Handle(r) PROVE IInv'
  BY <1>7, <1>g, <1>q, HandleStep
<1>8. CASE UNCHANGED vars
  <2>1. EventInv'
    BY <1>8 DEF vars, IInv, EventInv, Done
  <2> QED
    BY <1>1, <1>8, <1>q, <2>1 DEF vars, watcher, history
<1> QED
  BY <1>2, <1>3, <1>4, <1>5, <1>6, <1>7, <1>8 DEF Next, Tick

LEMMA MemoryInit == MemorySuffices /\ Init => IInv
<1> SUFFICES ASSUME MemorySuffices, Init PROVE IInv
  OBVIOUS
<1>1. \A i \in Ids : ~Done(i) /\ ~(emitted[i] > 1)
  BY DEF Init, Done
<1>2. DOMAIN runs = {}
  BY DEF Init
<1>3. FoundInv /\ PhaseInv /\ CollectInv /\ RememberInv /\ EventInv /\ SizeInv
  BY <1>2 DEF Init, FoundInv, PhaseInv, CollectInv, RememberInv, EventInv, SizeInv
<1>4. OnceInv
  BY <1>1 DEF OnceInv
<1> QED
  BY <1>3, <1>4, InitTyped DEF IInv

\* A finished run is announced at most once over the life of the process and
\* its restarts, except for tasks whose history could not be read when it
\* mattered, provided the memory has room for everything a scan returns.
THEOREM AnnouncedOnce == MemorySuffices /\ Spec => []AtMostOnce
<1> DEFINE P == MemorySuffices /\ IInv
<1>1. MemorySuffices /\ Init => P
  BY MemoryInit
<1>2. P /\ [Next]_vars => P'
  BY MemoryStep
<1>3. P => AtMostOnce
  BY DEF IInv, OnceInv, AtMostOnce, TaskOf
<1> QED
  BY <1>1, <1>2, <1>3, PTL DEF Spec

\* A start does not announce what had finished before, under the same
\* conditions.
THEOREM StartsQuietly == MemorySuffices /\ Spec => QuietStart
<1> DEFINE P == MemorySuffices /\ IInv
           Quiet == \A i \in old : emitted'[i] > emitted[i] => runs[i].task \in excused'
<1>1. MemorySuffices /\ Init => P
  BY MemoryInit
<1>2. P /\ [Next]_vars => P'
  BY MemoryStep
<1>3. P /\ [Next]_vars => [Quiet]_vars
  <2> SUFFICES ASSUME IInv, Next, NEW i \in old, emitted'[i] > emitted[i]
               PROVE  runs[i].task \in excused'
    BY DEF vars
  <2>1. i \in Ids /\ Done(i) /\ emitted[i] \in Nat
    BY RunsTyped DEF IInv, TInv, TypeOK, Done
  <2>2. emitted' # emitted
    BY <2>1
  <2>3. ASSUME NEW j \in Ids, OnRunEvent(j) PROVE FALSE
    <3>1. j # i /\ emitted'[i] = emitted[i]
      BY <2>1, <2>3, EmitCounts DEF OnRunEvent, IInv, TInv, TypeOK, EventInv
    <3> QED
      BY <2>1, <3>1
  <2>4. ASSUME NEW r \in got, Handle(r) PROVE runs[i].task \in excused'
    <3>1. r.id \in Ids
      BY RunsTyped DEF IInv, TInv, TypeOK
    <3>2. News(r.id) /\ r.id = i
      BY <2>1, <2>2, <2>4, <3>1, EmitCounts DEF Handle, IInv, TInv, TypeOK
    <3> QED
      BY <2>1, <2>4, <3>2, NotAgain DEF Handle, history, TaskOf
  <2> QED
    BY <2>2, <2>3, <2>4 DEF Next, Tick, StartRun, FinishRun, ListTasks, ListHistory,
                            EndCollect, Restart
<1> QED
  BY <1>1, <1>2, <1>3, PTL DEF Spec, QuietStart
=============================================================================
