# git-ferry in TLA+

TLA+ models of git-ferry, the TLC configurations that check them on small
instances, and TLAPS proofs of the properties that matter most for all
instances. Source paths are relative to the repository; `PROJECT.json` maps each
definition to the lines it stands for.

## 1. The system

git-ferry is a shell around `git-ferry-core`, a module outside this repository
that owns the repositories, tasks, runs, approvals and backups and does the git
work. What this repository adds is an HTTP and CLI front end (mostly one
validated call of core per request), a run watcher, and an AI assistant with
three interchangeable backends. The concurrency is in the latter two.

| component | state it keeps | operations | talks to |
|---|---|---|---|
| confirmation chain (`internal/agent/confirm.go`, `tools/danger.go`, `tools/permission.go`, `decorator.go`, `engine_eino.go`) | per chat session: one pending call with token and expiry, one announcement, one allow-mark, a permission mode | dangerGuard, setPending, consumePending, MarkConsumed, ConsumeConsumedPending, SetPermissionMode | the model's tool calls, the confirm request of `ai_service.go`, core |
| native ACP backend (`internal/agent/engine/acp/acp.go`, `wire.go`) | map chat session -> agent process; per process turn mutex, sink, busy counter, last use | Run, procFor, start, evictOldest, reapIdle, Close | child processes over JSON-RPC, the chat runner |
| ACP client services (`permission.go`, `terminal.go`, `fs.go`) | pending permission requests, terminals | permission request and answer with a 5 minute limit, terminal/*, fs/* | the agent (reader goroutine), the user |
| acpx backend (`acpx.go`) | which sessions were created and when used | one process per turn, janitor | `acpx` command |
| chat runner and sessions (`runner.go`, `session.go`) | concurrency slots, sessions with history and TTL | Run, forward events, compact, janitor | HTTP/SSE, a backend |
| delegated tasks (`tools/delegate.go`, `acp/delegate.go`) | task registry | start, finish, get, prune | a backend, the session |
| AI settings (`settings.go`, `main.go`, `ai_config.go`, `ai_backend.go`) | settings in memory and on disk, current runner, the agents' MCP key | save, build, swap, close | backends, API keys |
| run watcher (`internal/runwatch/watcher.go`) | ids seen, whether the baseline was taken | event callback, poll tick, automatic retry | core, metrics, heartbeat, notifier |
| heartbeat, notifier (`internal/notify`) | time of the last failure | mark, periodic ping, HTTP push | outside |
| retry handlers, webhook receiver (`biz/handler/git_sync`) | rate limiter | retry one or many runs, receive | core |
| authentication (`rbac.go`, `apikey.go`, `oidc_auth.go`) | scoped keys | role of a request | every handler |
| other handlers, CLI, MCP server, git server, converters, frontend | none to speak of | one call of core each | core |

What is hard, and what must hold:

* **Confirmation chain.** Three one-element slots under two locks, written by
  parallel tool calls and by confirm requests. A dangerous call runs only on an
  approval of the card that showed it, once per approval.
* **ACP backend.** Processes are started outside the lock and closed by four
  parties; turns queue on a mutex and may be abandoned at any point. No process is
  lost, no output goes astray, every turn ends.
* **Run watcher.** Memory that is rebuilt after a restart and pruned while it is
  used, from scans that may fail in part. Each finished run is announced once, and
  the past never.
* **Permission requests and terminals.** One registry and one table for all agents,
  answers that race their timeout, a reader that serves one message at a time, a turn
  that closes its channel under those who write to it. No agent is told what nobody
  allowed, none waits for ever, no process of a terminal is lost.
* **Chat turns and delegated tasks.** Three goroutines per turn that may end in any
  order, and tasks that outlive the turn. Slots come back exactly once, histories are
  cut at the right end, results arrive.
* **AI settings.** Updates that nothing orders, over memory, a file and a backend that
  can each fail, and kills in between.

`hazards` in `PROJECT.json` lists the places one by one.

## 2. Plan

Done:

1. `ConfirmOnce`, `DangerConfirm`, `DangerConfirm_proofs`
2. `AgentTurns`, `AgentPool`, `AgentPool_proofs`
3. `RunWatch`, `RunWatch_proofs`
4. `AcpPermission`, `AcpPermission_proofs`
5. `AcpReader`, `AcpReader_proofs`
6. `ChatRunner`, `ChatRunner_proofs` (with the delegated tasks, which write to the
   same sessions)
7. `ServiceSlot`, `AiReload`, `AiReload_proofs`

Next, in this order:

8. `AcpxSessions`: created/usedAt against the janitor that closes sessions unlocked.
9. `RetryRuns`, `Heartbeat`: small.
10. The append of ExecuteConfirmed in `ChatRunner`; several turns per agent in
    `AcpPermission`; requests that hold a replaced runner in `AiReload`.

## 3. The modules

### ConfirmOnce

The promise: a token is asked for one call, approved once, and pays for one
execution of that call. No sessions, slots or locks.

### DangerConfirm

One chat session. A *turn* (`Turns`) is a goroutine of the eino tool loop, a
*request* (`Requests`) an HTTP request with `confirmed_tool_call`. The program
counter `pc[t]` walks through the code:

| pc | action | code |
|---|---|---|
| idle | `ModelCalls` / `UserConfirms` | the model calls a dangerous tool / AIChat's confirm branch |
| consume | `ConsumePending` | consumePending, under `store.mu` |
| mark | `MarkConsumed` | MarkConsumed, under `muConfirm` |
| gate | `Gate` | dangerGuard's role and policy gates, setModeIn's admin gate |
| claim | `Claim` | ConsumeConsumedPending, under `muConfirm` |
| exec | `Exec` | the tool body; for `set_permission_mode` it sets the session's mode |
| register | `SetPending` | setPending, under `store.mu` |
| announce | `SetLastConfirm` | SetLastConfirm, under `muConfirm` |
| decorate | `Decorate` | the decorator's LastConfirm and the `tool_confirm` event |

`Expire` is the passing of pendingTTL. `cards` is what the user has been shown and
may click at any later time. `asked`, `approved`, `runs`, `ranAs` and the field `by`
of a mark are history: no guard of the code's side reads them. Tokens are numbered
in the order of their creation; `confirmToken` draws 128 random bits and collisions
are not modelled. The arguments a card shows are the whole arguments, where the
code cuts the display at 300 characters. `ModeAudit` behaves as `ModeDefault`.
A role is forgotten once the gates have been passed, since nothing reads it later.

### AgentPool

`procs`, `inFlight`, `turnMu`, `sink` are the fields of `Engine` and `sessionProc`.
The last-use time is kept as an order (`before[p]`: the processes used earlier than
p). A run has the caller's part `cpc` (procFor, beginTurn, the deferred endTurn) and
the turn's part `tpc` (lock, prompt, await, finish), and its watcher `watch`. The
operating system's and the agent's side are `up`, `open` and `prompts`, the queue of
prompts an agent has not answered. Starting can fail at once or in the handshake;
a process can crash at any time; a client can go away at any time (`EndContext`,
also the turn's timeout).

`ReapIdle` takes any set of least recently used processes: how long they have been
idle is time. By default the turn limit (10 minutes) is below the idle limit (15
minutes), so the janitor cannot meet a running turn; `SlowTurns` is the
configuration where it can. `pool` runs with it, `pool_live` without.

The pool implements `AgentTurns`, the promise to chat sessions: a process works for
one session as long as a turn uses it, and its output goes to one turn at a time,
from the moment the turn is served until it is over. The mapping: the session a
process works for is the `key` of the runs that know it (`Users`), its speaker is
`sink`, a turn waits while it is at the lock, is served from there to `Finish`, and
has its session and agent from its first step on. Map, recycling, busy counter and
closing have no counterpart.

Messages of the agent other than the answer to a prompt are in `AcpPermission` and
`AcpReader`. A session update goes to whatever `sink` points to, which is what
`StreamsToOwnTurn` is about.

### AcpPermission

`items` is `permRegistry.items`, `ch` the one-place channel of an entry. A request's
handler (`pc`) goes decide, show, emit, wait, and ends as decided, answered,
timedout or dead; a call of RespondPermission (`click`) goes get, remove, send, as
`respond` takes the registry's lock twice and then sends without waiting. A call that
changes nothing (unknown id, foreign option) is not an action. `turn` holds the
agents whose turn's channel is open. `ShowCard`, `DropCard` and `SendOnClosed` are
the branches of emit's select: when the turn has ended, both the cancelled context
and the closed channel are ready, and a send on the latter panics; GoSafe ends the
handler, whose entry nobody removes. An agent may be asked for permission after its
turn. Each agent has one turn; an entry of an earlier turn is like one of another
agent with the same id, except that agents do not reuse ids.
`autoDecide` takes the first option of the wanted kind, the model any of them.

### AcpReader

The reader of an agent is a record: where it is (`at`), the terminal id of the message
it handles and the process it has looked up. `terms` and `seq` are terminalHandler's;
`running` and `killed` the operating system's; `known` are the ids an agent has been
told, which is history: the table does not say whose a terminal is, ids are counted,
and `Read` takes a message about any of them, so that several agents may wait for,
kill and release one terminal. Starting a process, entering it in the table,
taking it out and killing it are steps of their own, as in the code. `ReadEnd` is the
end of the pipe. `SendOnClosed` is the same panic as in `AcpPermission`, here on the
reader itself: the goroutine ends without closing the client (`dead`).

### ChatRunner

| state | code |
|---|---|
| `pc` idle, got, acquired, appended, compacted, on | AIChat's Get, then Runner.Run step by step, then AIChat's loop over the events |
| `pc` left, done, refused | the client has gone; the channel was closed; an error was returned |
| `eng` run, send, last, over | the goroutine of Engine.Run: working, handing over an event, the last one, ended |
| `fw` idle, holding, over | the forwarder of Runner.Run: waiting for an event, holding one, ended |
| `store` fresh, stale, gone | a session used within sessionTTL, not used, deleted |
| `dt` none, running, settled, pruned, noted | the goroutine of delegateIn: agent works, finish, prune, note |

`log` is history: all that was appended to a session. The 64 places of the channels
only delay, and are left out. The error path of a model that fails sends the error
before it appends what there is of the answer (`Conclude`, the branch to `over`).
`Prune` contains both peculiarities of the code: the ids are sorted as strings
(`Key`), and the loop's bound shrinks as it deletes (`ToPrune`). `Key` is right for
ids of up to two digits, which `TwoDigits` assumes; the code's limit of 100 makes it
three, with the same effect. `Past` are tasks delegated before the behaviour starts.

### AiReload

An update (`pc`) goes gated, checked, stored, opened, written, saved, built, swapped.
`Settings` keeps whose they are, whether the assistant is enabled, the kind of backend
and whose key; other fields are refused or not, and external permissions are part of
`kind`. `fd` is the name under which the file an update has open can be found: a
rename moves it. `Written` says what WriteFile leaves when another update has written
to the same file: the longer text may show its end (`Torn`). A file truncated and not
yet written is `Empty`. `Kill` may come anywhere and takes the backends with it;
`Start` needs a file that parses. `alone` and `overlap` are history.

The backends implement `ServiceSlot`: a backend is fresh, spare, serving, retired and
closed, in this order (a kill closes it from anywhere), and one step takes the
serving one out and its successor in. `Stage` maps a backend to these: it serves when
it is `aiRunner`, and one that is open otherwise is spare or retired as the update
that holds it has yet to swap or has swapped.

### RunWatch

`StartRun`, `FinishRun`, `ListHistory`'s answer and the decision to retry are core's
and external. A tick is `ListTasks`, one `ListHistory` per task in order,
`EndCollect` (pruneMaps, firstPass) and one `Handle` per finished run of the scan in
the order of ids; other actions interleave. `Emit` is metrics, heartbeat and
notification of one run together with the retry core may decide on. Task names and
the wording of notifications are left out. `pc = "emit"` with nothing in `got` is
the watcher between ticks. `old`, `owed`, `missed` and `excused` are history for
the properties; `owed` are the runs that ended while the watcher was `Watching` (past
its baseline, or subscribed) and have not been announced.

## 4. The runs

Every passing run but `pool_live` also checks its module's `TypeOK`; what each
property says stands before its definition.

| run | question | properties | bounds |
|---|---|---|---|
| `confirm` | is an approval spent once, on what the user saw; does the chain implement `ConfirmOnce` | `OncePerApproval`, `SeenBeforeRun`, `ImplementsConfirmOnce` | 1 turn, 2 requests, `run_task` with two arguments and the mode switch, 2 tokens |
| `confirm_replay` (violated) | does the same call need a new confirmation | `ReplayNeedsConfirm` | 1 turn, 1 request, 1 argument |
| `pool` | is a process lost, does output go astray, how large may the pool become; does it implement `AgentTurns` | `Accounted`, `StreamsToOwnTurn`, `GrowsWithCallers`, `ImplementsAgentTurns` | 2 chat sessions, 2 runs, 2 processes, MaxProcs 1, slow turns |
| `pool_live` | do turns end, is everything given back | `TurnEnds`, `Reclaimed` | 1 chat session, 2 runs |
| `pool_evicts_turn` (violated) | the comment on evictOldest | `TurnNotEvicted` | 2 sessions, 2 runs |
| `runwatch` | once, never the past, never taken for known unannounced, always in the end | `AtMostOnce`, `QuietStart`, `NothingSwallowed`, `Told` | 2 tasks, 3 runs, scans of 1, memory of 2, 1 failing call, 1 restart |
| `runwatch_first` (violated) | the comment on `firstPass` | `HistoryKeptQuiet` | the same |
| `permission` | can a waiting request be answered, was what an agent does allowed, are answers kept, do requests end | `Answerable`, `OnlyOffered`, `Consent`, `AnswerKept`, `EveryRequestEnds` | 2 agents, 2 requests, 2 ids of which one may be shared, 2 options, 2 clicks, all four levels |
| `permission_wrong` (violated) | does an answer go to the agent whose card was clicked | `AnswersItsOwnCard` | the same |
| `reader` | is a process lost, is the limit kept, are ids mixed up, does the reader come back | `AlmostBounded`, `Reachable`, `OwnTerminal`, `ReaderReturns` | 2 agents, limit 1, 3 starts |
| `chat` | slots, histories, the table of tasks; does everything come back and arrive | `SlotsAccounted`, `KeepsLatest`, `TableBounded`, `SlotReturned`, `NoteArrives` | 2 turns, 1 slot, 1 session of 2 messages, 2 new tasks after 8 old ones, table of 2, 1 event before the last |
| `reload` | backends, file, agreement of the three, the gate; do backends implement `ServiceSlot` | `BackendsAccounted`, `FileWhole`, `LoneUpdateTakesEffect`, `OperatorKeepsKind`, `ImplementsServiceSlot`, `ReplacedIsClosed` | 2 updates, 1 admin, 4 backends, 1 kill |

Why they are enough. Each slot of a session can be overwritten by another call of the
same tool and of another tool, a card can be clicked twice at once, and an old card
after a newer one; a third token repeats these. With one place in the pool two runs
meet in every way the code distinguishes: the same process, one evicting the other's,
both starting one for the same session (for which two processes are needed). In
`RunWatch` a second finished run of a task pushes the first out of the scan, and the
memory overflows at the third run. Two requests are enough for a shared id, and two
clicks for a click on either card and a double click. Two readers and a limit of one
meet between check and insertion; the third start follows a release. Two turns compete
for the slot, and with a history of two messages the third of the six that may be
appended is cut; the tenth task is the first whose id sorts before an older one, and
two prunes see a table that is too large by two. Two updates overlap in every order,
and the backends suffice for both, the first one and a restart. The runs of the pool
are symmetric in sessions, runs and processes, those of the chain in turns and
requests; the liveness run uses no symmetry. Deadlock is not checked because each
behaviour ends when its bound is used up.

Fairness. `AgentPool!FairSpec`: goroutines are scheduled and Go's mutex starves
nobody; a turn's context ends because prompt sets a timeout; the janitor's ticker
fires. Nothing is assumed of the agent, of clients, or of crashes. `AcpPermission`:
handlers and calls that can run do, and timers fire; nobody has to click and no turn
has to end. `AcpReader`: a reader goes on with its message, and a killed process ends;
no other process has to, and no agent has to write. In `AcpReader`, `AcpPermission` and
`ChatRunner` a send on a turn's channel goes through: the client takes its events or
goes away. A client that stays connected and does not read fills the 64 places and
blocks the sender until the turn's context ends; that wait is not represented.
`ChatRunner`: while some goroutine
can run, one does (each has finitely many steps, so none is starved for ever);
backends and delegated agents come to an end because they have timeouts and a bounded
number of iterations. `AiReload`: a handler runs to its end, unless the process is
killed. `RunWatch!FairSpec`: the loop ticks, a run of core ends, core calls its
subscribers. Starts, failures and restarts are not fair (failures are bounded).

### What the violated runs show

1. **`confirm_replay`**: ExecuteConfirmed marks before dangerGuard's gates. If they
   refuse (a read-only user clicked, or the session is read-only) the mark stays, and
   the model's next identical call runs unconfirmed, although `confirm.go:96` says
   it must be confirmed again. The proved property that still holds is that the
   call was displayed and confirmed by someone, and runs once.
2. **`pool_evicts_turn`**: `defer proc.endTurn()` in Run ends the busy count when
   Run returns, before the turn has ended, so evictOldest closes processes in the
   middle of a turn, against `acp.go:260`.
3. **`permission_wrong`**: two agent processes count their JSON-RPC ids from the same
   number, and the registry has one entry per id. The second request replaces the
   first one's entry; a click on the first card answers the second agent, if it
   offered that option. `acp.go:221` says that the choice goes back to the agent. What
   still holds, and is proved: nobody is told an option it did not offer, and someone
   clicked that option on a card with that id.
4. **`runwatch_first`**: a task whose history could not be read in the first pass
   has its past announced in the second, against `watcher.go:89`.

Two more comments of `acp.go` do not hold in `AgentPool`, and have no run: a cancelled
turn releases turnMu while the agent works on, so that the next prompt is concurrent
(`acp.go:661`), and the watcher of a turn can send its session/cancel after the next
turn's prompt (`acp.go:196`). A delegated task may lose its entry while it runs
(`Key`), although the comment at `delegate.go:112` says that ids in their order are
tasks in the order of creation; `Prune` models the string order, and no run states the
comment. A reader that waits for a terminal cannot read the message that would kill it
(`Wait`); of that no comment claims the contrary.

## 5. Properties that need a remark

* `AtMostOnce`: pruning keeps at most `maxKeep` ids. The property holds when all
  the ids a scan can return fit, i.e. tasks times HistoryLimit is at most `maxKeep`
  (1000; 100 tasks by default). The run's constants satisfy this with equality;
  beyond it the code drops ids it will meet again. Tasks whose history could not be
  read at the baseline or while pruning are excepted (`excused`): the code treats
  an unreadable history as an empty one.
* `NothingSwallowed` is the safety behind `Told`: what ended under the watch is not in
  the watcher's memory before it has been announced, and in event mode its event is
  still to come. Pruning, failing scans and a memory that is too small cannot break it.
* `GrowsWithCallers`: the capacity is checked before a start that takes seconds, and
  nobody is evicted while all are busy, so MaxProcs can be exceeded. The property is
  about steps that make the pool larger: it then holds fewer processes than MaxProcs
  and the callers inside Run together. It says nothing of a pool whose callers leave
  it as it is, which the janitor shrinks (`Reclaimed`). Processes whose start has not
  yet returned count.
* `Told` excepts runs pushed out of what a scan asks for, and restarts: a run that
  ends while the process is down, or before the first pass, belongs to the past.
* `Reachable` speaks of one terminal at a time. The terminals of an agent that has ended
  are still in the table, so the property holds of them; that nobody releases them is
  `ReadEnd`. What several agents do to one terminal is within it: a process that one of
  them has taken out of the table is killed by that one.
* `Accounted` and `Reclaimed` do not tell of the process that enters the map of a closed
  engine: it is in the map. `Reclaimed` excepts a closed engine: Close stops the janitor, and a process whose
  start was in progress enters the map afterwards and stays (hazard at `acp.go:123`).
* `Answerable` and `Consent` except requests that share their id with another agent's
  (`AloneWithId`), and `EveryRequestEnds` and `ReaderReturns` count a goroutine that
  died on a closed channel as ended. `Answerable` is about the order of registration,
  removal by id, expiry and clicks, each of which is a step of its own.
* `ReaderReturns` excepts the wait for a terminal that runs, which may take for ever.
* `AlmostBounded`: with n readers the limit is exceeded by at most n - 1.
* `KeepsLatest` shows that Compact never changes anything: Append has cut to 40 what
  Compact would cut above 40. It holds as long as Compact's threshold is not below the
  cap (`ThresholdCoversCap`).
* `NoteArrives` and `KeepsLatest` are about session objects; one that the janitor has
  deleted is written to but not found any more.
* `FileWhole` and `LoneUpdateTakesEffect` except updates that overlap. Without the
  exception each fails: the shared temporary file is torn, and the backend in service
  belongs to one update and the file to the other. A settings file that does not parse
  stops the server at its start.
* `OperatorKeepsKind` covers overlapping updates. The gate's answer may be stale when
  the settings are replaced, and an operator's update then switches the kind of backend
  back; the property says that this takes an overlap and an admin who has changed the
  settings. Operators among themselves, however they overlap, switch nothing.
* `ReplacedIsClosed` counts a backend that ends with the process as closed.
* `TypeOK` of AgentPool contains that `before` is asymmetric, which is what makes
  evictOldest find a minimum.

## 6. The proofs

The theorems hold for every value of the constants under the named assumptions of
the modules (thread sets disjoint, tool names distinct, bounds natural, `None` new).

**DangerConfirm.** `OncePerApproval` is not inductive: nothing in it stops a token
from being in two places. `IInv` follows the token: it is asked for one call
(`AskedInv`), on a card, approved only when the pending slot is emptied, so that a
pending token is never an approved one (`ApprovedInv`), and unspent wherever it is
held; and it is held in one place, by one thread or by the mark (`HoldersInv`).
`TypeStep` and `InvStep` take the actions of Next one by one; the theorems follow
from `Invariance`. `Refinement` maps SetPending to Ask, a successful ConsumePending
to Approve, Exec to Run, and everything else to stuttering (`StepRefines`).

**AgentPool.** For `Accounted` one needs that a process being started is known to
its caller only (`StartInv`), for `StreamsToOwnTurn` that a process has one session
(`KeysInv`), that turnMu and the program counters agree, and that sink and turnMu do
(`HolderInv`). `LocatedInv` says where a running process can be. `Effects`
summarises what each action can do to the map and to the runs' processes, so that
the steps for `KeysInv` and `StartInv` argue about six cases and not twenty actions.

A second invariant, `PoolInv`, is inductive on top of it. `BusyInv`: `inFlight` of a
process is exactly the number of callers between beginTurn and endTurn (which the code
clamps at zero; it never has to). `FiniteInv`: the map and the callers in Run are
finite, for any constants, because each step adds at most one of each. `UsedInv`: a
process in the map was given by procFor to a run that knows it. `GrowthBounded` needs
the first two, because it compares cardinalities: a caller that finds nobody to evict
has found each mapped process busy with a caller of its own, and those that are
starting are callers, too (`GrowsWithoutEviction`); one that finds the pool full and
evicts puts its own process in the place of another (`EvictionMakesRoom`); one that
finds room was below MaxProcs. `Refinement` takes the mapping of section 3 step by
step: a lookup that misses starts a process, one that hits changes nothing for anybody
because the session has a run that knows the process (`UsedInv`); a caller that lets
go of the process it started stops it (`LetGoRefines`); the goroutine of a turn queues
it, Lock serves it, Finish finishes it, and everything else stutters (`StepRefines`).

**RunWatch.** Call a run *done* when it has been announced or had finished before the
last start. `AtMostOnce` and `QuietStart` both say that a run that is done is not
announced again, and follow from one invariant, `RememberInv`: between scans a run
that is done is in `seen`, or part of a baseline not yet set, or out of reach of every
later scan (`Gone`), or excused. It survives pruning because while a scan is being
read every run that is done has been found by it, is still to be read, could not be
read, or is gone (`CollectInv`), and because what the scan has found fits into the
memory (`SizeInv`, which counts the tasks read so far; `PruneKeeps`). `GoneForever`
says that runs only ever push others out. Type correctness needs none of this. The two
theorems have the hypothesis `MemorySuffices`: finitely many tasks, and tasks times
HistoryLimit at most `maxKeep`. `NothingSwallowed` needs no such hypothesis, for
forgetting cannot swallow anything. Its invariant `WatchInv` also says that what is
owed is not in a baseline that is about to be set, and that event mode never enters a
scan.

**AcpPermission.** `Answerable` needs to know where an entry can be: registered under
its own id only, and not after its handler has removed it; `Consent` and `AnswerKept`
follow an accepted answer from the click through the channel to what the agent is
told, which is only possible because a second send finds the channel full or the
entry gone. The ids of one agent are distinct (`Ask`), so that a shared id always
means two agents.

**AcpReader.** `CountInv` says that the terminals counted in `seq` and the readers about
to insert one add up to the processes started; types depend on it, for an inserting
reader must find an id left. `TableInv` keeps the ids in the table and the ids an agent
knows at or below `seq`, so that no terminal is overwritten, and gives every process in
the table an owner; `ReaderInv` says what a reader holds at each
of its steps, and that the process it is inserting is its own agent's. `AlmostBounded`
is an argument about cardinalities: a reader that starts a terminal saw the table below
its limit, and every reader between check and insertion is counted in `Starting`.

**ChatRunner.** `SlotsAccounted` follows from `SlotInv` (free slots and holders add up)
and `PhaseInv` (the three goroutines start together, and the forwarder outlives the
backend unless the client has gone). `KeepsLatest` rests on `LastOfAppend`: cutting
before an element is added makes no difference to cutting after. `TableBounded` is
inductive with the types: a prune of half the excess, rounded up, takes at least one
task off, and one task has stopped waiting to prune. `HistoryInOrder` is about the log
that `KeepsLatest` relates the history to: no message is in it twice or in another
session's, and an answer comes after its turn's question. Its invariant `SaidInv` reads
off the program counters what has been said; that a backend which still runs has not
answered, and that its question has been asked, comes from `PhaseInv`. No run checks
the statement (`SaidOnce`); it is defined with its proof.

**AiReload.** `BackendsAccounted` is inductive with the program counters: only `built`
and `swapped` hold a backend. `FileWhole` needs to know what each open file holds: one
update alone writes a whole text to a file of which it knows the name. For
`LoneUpdateTakesEffect` the invariant says of an update that overlaps no other that
nobody else is under way, and what memory, file and backend hold at each of its steps.
`OperatorKeepsKind` needs `KindInv` besides: until an admin has changed the settings,
every operator's update that has passed the gate brings the kind there is, so that
operators who overlap cannot switch it, and a start, which reads the file, finds no
update under way.
`Refinement` computes each backend's stage from the same invariant (`StageOf`): the
update that holds a backend is unique, so its place decides between spare and
retired. Build makes, Swap swaps, CloseOld closes, Kill takes down, Start brings up
(`BuildRefines` to `StartRefines`); no other step changes a stage (`StageKept`).

Only model-checked: the liveness properties (`TurnEnds`, `Reclaimed`, `Told`,
`EveryRequestEnds`, `ReaderReturns`, `SlotReturned`, `NoteArrives`,
`ReplacedIsClosed`; fairness and ENABLED are beyond the prover). The properties that
do not hold are refuted by TLC and have no theorem.

## 7. Not modelled

Planned but not done: the acpx backend, the retry handlers and the heartbeat, each of
which would be a run of its own (section 2), and the omissions that section 3 names:
ExecuteConfirmed's append to the history, more than one turn per agent in
`AcpPermission`, requests that still hold a replaced backend, the agents' MCP key, the
places of the channels.

Not worth a model: core itself; HTTP, SSE and JSON framing; sandbox path rules; the
content of prompts and the model; token collisions; the Go runtime. Handlers that make
one call of core have no state of their own to check. The reasons for each component
are in `PROJECT.json`.
