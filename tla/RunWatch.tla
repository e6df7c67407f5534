------------------------------ MODULE RunWatch ------------------------------
(***************************************************************************)
(* The run watcher (internal/runwatch/watcher.go), which announces every   *)
(* finished run of a sync task (metrics, heartbeat, notification) and asks *)
(* for an automatic retry of the failed ones.  In event mode core calls it *)
(* with each finished run; in poll mode it scans the recent history of     *)
(* every task and remembers in memory what it has seen, while runs start   *)
(* and finish.  The tasks, their history and the retry policy are core's,  *)
(* outside this repository, and are modelled by how the watcher uses them. *)
(***************************************************************************)
EXTENDS Naturals, Sequences, FiniteSets

CONSTANTS
  Tasks,         \* numbers: ListTasks returns them in a fixed order
  HistoryLimit,  \* Config.HistoryLimit: runs of a task that a scan asks for
  MaxKeep,       \* pruneMaps' maxKeep
  MaxRuns,       \* bound on the runs of a behaviour
  MaxFailures,   \* bound on the calls of ListTasks and ListHistory that fail
  MaxRestarts    \* bound on the restarts of the process

ASSUME TasksNumbered == Tasks \subseteq Nat
ASSUME LimitPositive == HistoryLimit \in Nat \ {0}
ASSUME BoundsNatural ==
  /\ MaxKeep \in Nat /\ MaxRuns \in Nat
  /\ MaxFailures \in Nat /\ MaxRestarts \in Nat

Ids == 1 .. MaxRuns

VARIABLES
  runs,      \* the runs in core's database in the order of their ids
  mode,      \* Config.Mode
  events,    \* finished runs that core has not yet handed to the watcher
  firstPass, \* Watcher.firstPass
  seen,      \* Watcher.seen
  pc,        \* whether tick collects or emits; it is over when got is empty
  todo,      \* tasks whose history collectRecent has still to read
  got,       \* what it has read: runs with the status they had then
  first,     \* tick's local copy of firstPass
  emitted,   \* how often emit has been called for a run
  old,       \* runs that had finished when the process last started
  owed,      \* runs that ended under the watch and have not been announced
  missed,    \* tasks ListHistory failed for in this tick
  excused,   \* tasks it failed for when the tick was the first or pruned
  failures, restarts

core    == <<runs, events>>
watcher == <<mode, firstPass, seen, pc, todo, got, first>>
history == <<old, missed, excused, failures, restarts>>
vars == <<runs, events, mode, firstPass, seen, pc, todo, got, first, emitted,
          old, owed, missed, excused, failures, restarts>>

Ended(s) == s \in {"success", "failed"}
EndedRuns == {i \in DOMAIN runs : Ended(runs[i].status)}

Init ==
  /\ runs = <<>>
  /\ mode \in {"event", "poll"}
  /\ events = {}
  /\ firstPass = TRUE
  /\ seen = {}
  /\ pc = "emit" /\ todo = {} /\ got = {} /\ first = FALSE
  /\ emitted = [i \in Ids |-> 0]
  /\ old = {} /\ owed = {} /\ missed = {} /\ excused = {}
  /\ failures = 0 /\ restarts = 0

-----------------------------------------------------------------------------
(* Core: the runs of the tasks. *)

\* A run of t begins: cron, webhook, a user, or the watcher's own retry.
Begin(t) ==
  /\ Len(runs) < MaxRuns
  /\ runs' = Append(runs, [task |-> t, status |-> "running"])

StartRun ==
  /\ \E t \in Tasks : Begin(t)
  /\ UNCHANGED <<events, watcher, emitted, owed, history>>

\* Whether the end of a run is news for the watcher.
Watching == mode = "event" \/ ~firstPass

FinishRun(i) ==
  /\ i \in DOMAIN runs /\ runs[i].status = "running"
  /\ \E s \in {"success", "failed"} : runs' = [runs EXCEPT ![i].status = s]
  /\ events' = IF mode = "event" THEN events \cup {i} ELSE events
  /\ owed' = IF Watching THEN owed \cup {i} ELSE owed
  /\ UNCHANGED <<watcher, emitted, history>>

\* The n greatest ids of S.
Latest(S, n) == {i \in S : Cardinality({j \in S : j > i}) < n}

\* What ListHistory(t, 0, HistoryLimit) returns: the latest runs of t.
Recent(t) ==
  Latest({i \in DOMAIN runs : runs[i].task = t}, HistoryLimit)

-----------------------------------------------------------------------------
(* Announcing a run. *)

\* emit; core's policy decides whether a failed run is run again.
Emit(i, s) ==
  /\ emitted' = [emitted EXCEPT ![i] = @ + 1]
  /\ owed' = owed \ {i}
  /\ \/ s = "failed" /\ Begin(runs[i].task)
     \/ UNCHANGED runs

\* Mutant: only failures are announced.
OnFailureOnly(i) ==
  /\ i \in events
  /\ events' = events \ {i}
  /\ IF runs[i].status = "failed" THEN Emit(i, "failed") ELSE UNCHANGED <<runs, emitted, owed>>
  /\ UNCHANGED <<watcher, history>>

\* Event mode: the callback, on the goroutine of the run that finished.
OnRunEvent(i) ==
  /\ i \in events
  /\ events' = events \ {i}
  /\ Emit(i, runs[i].status)
  /\ UNCHANGED <<watcher, history>>

-----------------------------------------------------------------------------
(* Poll mode: one tick at a time. *)

ListTasks ==
  /\ mode = "poll" /\ pc = "emit" /\ got = {}
  /\ first' = FALSE
  /\ \/ pc' = "collect" /\ todo' = Tasks /\ missed' = {} /\ UNCHANGED failures
     \/ /\ failures < MaxFailures
        /\ failures' = failures + 1
        /\ UNCHANGED <<pc, todo, missed>>
  /\ UNCHANGED <<core, mode, firstPass, seen, got, emitted, old, owed, excused,
                 restarts>>

\* A task whose history cannot be read is skipped.
ListHistory(t) ==
  /\ pc = "collect" /\ t \in todo /\ \A u \in todo : t <= u
  /\ todo' = todo \ {t}
  /\ \/ /\ got' = got \cup {[id |-> i, status |-> runs[i].status] : i \in Recent(t)}
        /\ UNCHANGED <<missed, failures>>
     \/ /\ failures < MaxFailures
        /\ failures' = failures + 1
        /\ missed' = missed \cup {t}
        /\ UNCHANGED got
  /\ UNCHANGED <<core, mode, firstPass, seen, pc, first, emitted, old, owed,
                 excused, restarts>>

\* Mutant: what is pruned is not what the scan no longer finds.
PruneLatest(live) == IF Cardinality(seen) > MaxKeep THEN Latest(seen, 1) ELSE seen

\* pruneMaps: above maxKeep what the scan did not find is dropped, then the
\* oldest of the rest.
Prune(live) ==
  IF Cardinality(seen) > MaxKeep THEN Latest(seen \cap live, MaxKeep) ELSE seen

\* Mutant: runs in progress are handled too.
HandledAll(R) == R

\* The runs the loop of tick does not skip.
Handled(R) == {r \in R : Ended(r.status)}

\* pruneMaps, then firstPass is read and cleared.
EndCollect ==
  /\ pc = "collect" /\ todo = {}
  /\ pc' = "emit"
  /\ seen' = Prune({r.id : r \in got})
  /\ first' = firstPass
  /\ firstPass' = FALSE
  /\ got' = Handled(got)
  /\ excused' = IF firstPass \/ Cardinality(seen) > MaxKeep
                  THEN excused \cup missed ELSE excused
  /\ missed' = {}
  /\ UNCHANGED <<core, mode, todo, emitted, old, owed, failures, restarts>>

\* Mutant: the baseline is announced.
NewsAlways(i) == i \notin seen

\* Whether the loop body goes on to emit.
News(i) == ~first /\ i \notin seen

\* The loop of tick, in the order of the ids, on what the scan returned.
Handle(r) ==
  /\ pc = "emit" /\ r \in got
  /\ \A q \in got : r.id <= q.id
  /\ got' = got \ {r}
  /\ seen' = seen \cup {r.id}
  /\ IF News(r.id) THEN Emit(r.id, r.status) ELSE UNCHANGED <<runs, emitted, owed>>
  /\ UNCHANGED <<events, mode, firstPass, pc, todo, first, history>>

Tick == ListTasks \/ EndCollect
          \/ (\E t \in Tasks : ListHistory(t)) \/ (\E r \in got : Handle(r))

\* The process ends and starts again: a new Watcher, and events are lost.
Restart ==
  /\ restarts < MaxRestarts
  /\ restarts' = restarts + 1
  /\ events' = {}
  /\ firstPass' = TRUE
  /\ seen' = {} /\ pc' = "emit" /\ todo' = {} /\ got' = {} /\ first' = FALSE
  /\ old' = EndedRuns /\ owed' = {}
  /\ missed' = {}
  /\ UNCHANGED <<runs, mode, emitted, excused, failures>>

Next ==
  \/ StartRun
  \/ \E i \in Ids : FinishRun(i) \/ OnRunEvent(i)
  \/ Tick
  \/ Restart

Spec == Init /\ [][Next]_vars

\* The loop ticks on, runs end and core hands over their events.
FairSpec ==
  /\ Spec
  /\ WF_vars(Tick)
  /\ \A i \in Ids : WF_vars(FinishRun(i)) /\ WF_vars(OnRunEvent(i))

-----------------------------------------------------------------------------
(* Properties. *)

\* Type correctness of the whole state.
TypeOK ==
  /\ runs \in Seq([task : Tasks, status : {"running", "success", "failed"}])
  /\ Len(runs) <= MaxRuns
  /\ mode \in {"event", "poll"}
  /\ events \in SUBSET EndedRuns
  /\ firstPass \in BOOLEAN /\ first \in BOOLEAN
  /\ seen \in SUBSET EndedRuns
  /\ pc \in {"collect", "emit"}
  /\ todo \in SUBSET Tasks /\ missed \in SUBSET Tasks /\ excused \in SUBSET Tasks
  /\ got \in SUBSET [id : DOMAIN runs, status : {"running", "success", "failed"}]
  /\ emitted \in [Ids -> Nat]
  /\ old \in SUBSET EndedRuns /\ owed \in SUBSET EndedRuns
  /\ failures \in 0 .. MaxFailures /\ restarts \in 0 .. MaxRestarts

\* A finished run is announced, and retried, at most once over the life of
\* the process and its restarts, although what was seen is pruned and forgotten:
\* what is forgotten has left every scan for good.  The exception is a task whose
\* history could not be read when the baseline was set or the memory pruned.
AtMostOnce == \A i \in Ids : emitted[i] > 1 => runs[i].task \in excused

\* A start does not announce the past, with the same exception.
QuietStart ==
  [][\A i \in old : emitted'[i] > emitted[i] => runs[i].task \in excused']_vars

\* watcher.go:272: what ends under the watch is not mistaken for the baseline or
\* for something announced before: it is not marked as seen unannounced, although
\* it may end while a scan is read or its result handled, and no event is dropped.
NothingSwallowed ==
  /\ owed \cap seen = {}
  /\ mode = "event" => owed \subseteq events

\* A run that ends under the watch of the process is announced, unless later runs
\* of its task push it out of what a scan asks for or the process is restarted.
Told ==
  \A i \in Ids :
    i \in DOMAIN runs /\ runs[i].status = "running" /\ Watching
      ~> \/ emitted[i] > 0
         \/ \A t \in Tasks : i \notin Recent(t)
         \/ i \in old \/ ~Watching

-----------------------------------------------------------------------------
(* What the comments of the code say of it, and does not hold. *)

\* watcher.go:89: the first pass only sets the baseline and announces nothing, so
\* that a start does not pour out the whole history.
HistoryKeptQuiet == [][\A i \in old : emitted'[i] = emitted[i]]_vars
=============================================================================
