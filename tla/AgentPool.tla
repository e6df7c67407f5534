----------------------------- MODULE AgentPool -----------------------------
(***************************************************************************)
(* The native ACP backend (internal/agent/engine/acp/acp.go): one          *)
(* long-lived agent process per chat session, a map of them under e.mu,    *)
(* eviction above MaxProcs, idle recycling, and the turns that share a     *)
(* process.                                                                *)
(*                                                                         *)
(* A run is one call of Engine.Run: the caller's goroutine (cpc) finds or  *)
(* starts the process and spawns the turn's goroutine (tpc), which prompts *)
(* the agent under turnMu and has a watcher (watch) that forwards a        *)
(* cancellation.  Each action is one critical section of e.mu or turnMu,   *)
(* one message, or the code between two.  What the agent writes back       *)
(* besides the answer to a prompt is not modelled here.                    *)
(***************************************************************************)
EXTENDS Naturals, FiniteSets, SequencesExt

CONSTANTS
  Keys,       \* chat sessions
  Runs,       \* calls of Engine.Run, each made once
  Procs,      \* agent processes: one per run is enough
  MaxProcs,   \* Config.MaxProcs
  SlowTurns,  \* whether Config.Timeout exceeds Config.IdleTTL (it does not by default)
  None

ASSUME MaxProcsPositive == MaxProcs \in Nat \ {0}
ASSUME SlowTurnsBoolean == SlowTurns \in BOOLEAN
ASSUME NoneIsNew == None \notin Keys \cup Runs \cup Procs

VARIABLES
  procs,     \* Engine.procs
  before,    \* for each process those whose sessionProc.used is earlier
  closed,    \* Engine.Close has been called
  up,        \* processes the operating system runs
  open,      \* processes whose JSON-RPC client is not closed
  closing,   \* processes on which sessionProc.close is about to run
  inFlight,  \* sessionProc.inFlight
  turnMu,    \* the run that holds sessionProc.turnMu
  sink,      \* the run whose channel sessionProc.sink writes to
  prompts,   \* prompts an agent has received and not answered, by run
  key, proc, \* the chat session and the process of a run
  cpc, tpc,  \* where the caller and the turn are
  watch,     \* the watcher of the turn's cancellation
  ctxDone    \* the turn's context: cancelled, timed out or released

pool   == <<procs, before, closed>>
world  == <<up, open, closing, prompts>>
shared == <<inFlight, turnMu, sink>>
locals == <<key, proc, cpc, tpc, watch, ctxDone>>
vars == <<procs, before, closed, up, open, closing, inFlight, turnMu, sink,
          prompts, key, proc, cpc, tpc, watch, ctxDone>>

Init ==
  /\ procs = [k \in Keys |-> None]
  /\ before = [p \in Procs |-> {}]
  /\ closed = FALSE
  /\ up = {} /\ open = {} /\ closing = {}
  /\ inFlight = [p \in Procs |-> 0]
  /\ turnMu = [p \in Procs |-> None]
  /\ sink = [p \in Procs |-> None]
  /\ prompts = [p \in Procs |-> <<>>]
  /\ key = [r \in Runs |-> None]
  /\ proc = [r \in Runs |-> None]
  /\ cpc = [r \in Runs |-> "new"]
  /\ tpc = [r \in Runs |-> "none"]
  /\ watch = [r \in Runs |-> "none"]
  /\ ctxDone = [r \in Runs |-> FALSE]

Mapped == {procs[k] : k \in Keys} \ {None}

Caller(r, from, to) == cpc[r] = from /\ cpc' = [cpc EXCEPT ![r] = to]
Turn(r, from, to) == tpc[r] = from /\ tpc' = [tpc EXCEPT ![r] = to]

\* Mutant: a touch that leaves p among the ones used before the others.
TouchKeepsOld(p) == before' = [before EXCEPT ![p] = Procs \ {p}]

\* sessionProc.touch: p becomes the most recently used.
Touch(p) ==
  before' = [q \in Procs |-> IF q = p THEN Procs \ {p} ELSE before[q] \ {p}]

\* The processes of P end, their pipes close and what they worked on is lost.
Kill(P) ==
  /\ up' = up \ P
  /\ open' = open \ P
  /\ prompts' = [p \in Procs |-> IF p \in P THEN <<>> ELSE prompts[p]]

\* Mutant: the process is forgotten but not closed.
DiscardNothing(p) == UNCHANGED <<up, open, prompts>>

\* A caller closes the process it started, which nobody else knows.
Discard(p) == Kill({p})

\* The processes of P leave the map; a goroutine will close each.
Unmap(P) ==
  /\ procs' = [k \in Keys |-> IF procs[k] \in P THEN None ELSE procs[k]]
  /\ before' = [p \in Procs |-> IF p \in P THEN {} ELSE before[p] \ P]
  /\ closing' = closing \cup P

-----------------------------------------------------------------------------
(* procFor and start, on the caller's goroutine. *)

Busy(p) == inFlight[p] > 0

\* evictOldest: the least recently used process that is not busy, if any.
Oldest(p) ==
  /\ p \in Mapped /\ ~Busy(p)
  /\ \A q \in Mapped : Busy(q) \/ q \notin before[p]

Unused(p) == p \notin up \cup closing \cup Mapped /\ \A r \in Runs : proc[r] # p

\* Found in the map, or room is made and a process started (which may fail).
Lookup(r, k) ==
  /\ key' = [key EXCEPT ![r] = k]
  /\ \/ /\ procs[k] # None
        /\ Caller(r, "new", "begin")
        /\ proc' = [proc EXCEPT ![r] = procs[k]]
        /\ Touch(procs[k])
        /\ UNCHANGED <<procs, closing, up, open>>
     \/ /\ procs[k] = None
        /\ IF Cardinality(Mapped) >= MaxProcs /\ \E p \in Mapped : ~Busy(p)
             THEN \E p \in Mapped : Oldest(p) /\ Unmap({p})
             ELSE UNCHANGED <<procs, before, closing>>
        /\ \/ /\ Caller(r, "new", "handshake")
              /\ \E p \in Procs :
                   /\ Unused(p)
                   /\ up' = up \cup {p}
                   /\ open' = open \cup {p}
                   /\ proc' = [proc EXCEPT ![r] = p]
           \/ Caller(r, "new", "returned") /\ UNCHANGED <<up, open, proc>>
  /\ UNCHANGED <<closed, prompts, shared, tpc, watch, ctxDone>>

\* initialize and session/new.
HandshakeOk(r) ==
  /\ Caller(r, "handshake", "insert")
  /\ proc[r] \in up
  /\ Touch(proc[r])
  /\ UNCHANGED <<procs, closed, world, shared, key, proc, tpc, watch, ctxDone>>

\* An error, 30 seconds, the end of the caller's context, or a crash.
HandshakeFails(r) ==
  /\ Caller(r, "handshake", "returned")
  /\ Discard(proc[r])
  /\ proc' = [proc EXCEPT ![r] = None]
  /\ UNCHANGED <<pool, closing, shared, key, tpc, watch, ctxDone>>

\* The second critical section of procFor: when another caller was faster the
\* new process is closed and the older one used.
Insert(r) ==
  /\ cpc[r] = "insert"
  /\ \/ /\ procs[key[r]] = None
        /\ Caller(r, "insert", "begin")
        /\ procs' = [procs EXCEPT ![key[r]] = proc[r]]
        /\ UNCHANGED <<up, open, prompts, proc>>
     \/ /\ procs[key[r]] # None
        /\ Caller(r, "insert", "touch")
        /\ Discard(proc[r])
        /\ proc' = [proc EXCEPT ![r] = procs[key[r]]]
        /\ UNCHANGED procs
  /\ UNCHANGED <<before, closed, closing, shared, key, tpc, watch, ctxDone>>

TouchOld(r) ==
  /\ Caller(r, "touch", "begin")
  /\ Touch(proc[r])
  /\ UNCHANGED <<procs, closed, world, shared, key, proc, tpc, watch, ctxDone>>

\* beginTurn, then the turn gets its goroutine.
BeginTurn(r) ==
  /\ Caller(r, "begin", "end")
  /\ inFlight' = [inFlight EXCEPT ![proc[r]] = @ + 1]
  /\ Touch(proc[r])
  /\ Turn(r, "none", "lock")
  /\ UNCHANGED <<procs, closed, world, turnMu, sink, key, proc, watch, ctxDone>>

\* Mutant: the counter is not decremented.
EndTurnCounted(r) ==
  /\ Caller(r, "end", "returned")
  /\ UNCHANGED <<pool, world, shared, key, proc, tpc, watch, ctxDone>>

\* The deferred endTurn runs when Run returns, not when the turn ends.
EndTurn(r) ==
  /\ Caller(r, "end", "returned")
  /\ inFlight' = [inFlight EXCEPT ![proc[r]] = IF @ > 0 THEN @ - 1 ELSE @]
  /\ UNCHANGED <<pool, world, turnMu, sink, key, proc, tpc, watch, ctxDone>>

-----------------------------------------------------------------------------
(* prompt, on the turn's goroutine, and its watcher. *)

\* Mutant: turns do not queue.
FreeAlways(p) == TRUE

\* Nobody holds turnMu.
FreeMu(p) == turnMu[p] = None

Lock(r) ==
  /\ Turn(r, "lock", "prompt")
  /\ FreeMu(proc[r])
  /\ turnMu' = [turnMu EXCEPT ![proc[r]] = r]
  /\ sink' = [sink EXCEPT ![proc[r]] = r]
  /\ watch' = [watch EXCEPT ![r] = "armed"]
  /\ UNCHANGED <<pool, world, inFlight, key, proc, cpc, ctxDone>>

\* session/prompt is written whatever the state of the context.
Prompt(r) ==
  /\ \/ /\ proc[r] \in up \cap open
        /\ Turn(r, "prompt", "await")
        /\ prompts' = [prompts EXCEPT ![proc[r]] = Append(@, r)]
     \/ /\ proc[r] \notin up \cap open
        /\ Turn(r, "prompt", "finish")
        /\ UNCHANGED prompts
  /\ UNCHANGED <<pool, up, open, closing, shared, key, proc, cpc, watch, ctxDone>>

\* The agent answers its oldest prompt; nobody waits for an abandoned one.
Answer(p) ==
  /\ p \in up \cap open /\ prompts[p] # <<>>
  /\ prompts' = [prompts EXCEPT ![p] = Tail(@)]
  /\ LET r == Head(prompts[p])
     IN  tpc' = [tpc EXCEPT ![r] = IF @ = "await" THEN "finish" ELSE @]
  /\ UNCHANGED <<pool, up, open, closing, shared, key, proc, cpc, watch, ctxDone>>

\* Mutant: the call waits for the agent alone.
AgentGone(r) == proc[r] \notin open

\* What ends the wait of client.call other than the answer.
CallOver(r) == ctxDone[r] \/ proc[r] \notin open

GiveUp(r) ==
  /\ Turn(r, "await", "finish")
  /\ CallOver(r)
  /\ UNCHANGED <<pool, world, shared, key, proc, cpc, watch, ctxDone>>

\* The deferred close(finished), setSink(nil), turnMu.Unlock and cancel, which
\* releases the turn's context.
Finish(r) ==
  /\ Turn(r, "finish", "done")
  /\ sink' = [sink EXCEPT ![proc[r]] = None]
  /\ turnMu' = [turnMu EXCEPT ![proc[r]] = None]
  /\ ctxDone' = [ctxDone EXCEPT ![r] = TRUE]
  /\ UNCHANGED <<pool, world, inFlight, key, proc, cpc, watch>>

\* The watcher's select: with both channels ready either branch may be taken.
Watch(r) ==
  /\ watch[r] = "armed"
  /\ \/ ctxDone[r] /\ watch' = [watch EXCEPT ![r] = "cancelling"]
     \/ tpc[r] = "done" /\ watch' = [watch EXCEPT ![r] = "off"]
  /\ UNCHANGED <<pool, world, shared, key, proc, cpc, tpc, ctxDone>>

\* session/cancel names the ACP session, not the prompt it is about.
SendCancel(r) ==
  /\ watch[r] = "cancelling"
  /\ watch' = [watch EXCEPT ![r] = "off"]
  /\ UNCHANGED <<pool, world, shared, key, proc, cpc, tpc, ctxDone>>

\* The client goes away, or Config.Timeout passes.
EndContext(r) ==
  /\ tpc[r] \in {"lock", "prompt", "await"} /\ ~ctxDone[r]
  /\ ctxDone' = [ctxDone EXCEPT ![r] = TRUE]
  /\ UNCHANGED <<pool, world, shared, key, proc, cpc, tpc, watch>>

-----------------------------------------------------------------------------
(* Processes, the janitor and Close. *)

Crash(p) ==
  /\ p \in up
  /\ up' = up \ {p}
  /\ prompts' = [prompts EXCEPT ![p] = <<>>]
  /\ UNCHANGED <<pool, open, closing, shared, locals>>

\* The reader goroutine meets the end of stdout and closes the client.
ReaderEnds(p) ==
  /\ p \in open \ up
  /\ open' = open \ {p}
  /\ UNCHANGED <<pool, up, closing, prompts, shared, locals>>

CloseProc(p) ==
  /\ p \in closing
  /\ closing' = closing \ {p}
  /\ Kill({p})
  /\ UNCHANGED <<pool, shared, locals>>

AtRest(r) == cpc[r] \in {"new", "returned"} /\ tpc[r] \in {"none", "done"}

\* Which processes have been idle for IdleTTL is a matter of time: any number
\* of the oldest, but none with a turn shorter than IdleTTL in progress.
ReapIdle ==
  /\ ~closed
  /\ \E idle \in SUBSET Mapped \ {{}} :
       /\ \A p \in idle : before[p] \cap Mapped \subseteq idle
       /\ SlowTurns \/ \A r \in Runs : proc[r] \in idle => AtRest(r)
       /\ Unmap(idle)
  /\ UNCHANGED <<closed, up, open, prompts, shared, locals>>

\* Engine.Close, called by Runner.Close when the backend is replaced.
Close ==
  /\ ~closed
  /\ closed' = TRUE
  /\ Unmap(Mapped)
  /\ UNCHANGED <<up, open, prompts, shared, locals>>

CallerStep(r) ==
  \/ HandshakeOk(r) \/ HandshakeFails(r) \/ Insert(r) \/ TouchOld(r)
  \/ BeginTurn(r) \/ EndTurn(r)

TurnStep(r) == Lock(r) \/ Prompt(r) \/ GiveUp(r) \/ Finish(r)

Next ==
  \/ \E r \in Runs :
       \/ \E k \in Keys : Lookup(r, k)
       \/ CallerStep(r) \/ TurnStep(r)
       \/ EndContext(r) \/ Watch(r) \/ SendCancel(r)
  \/ \E p \in Procs : Answer(p) \/ Crash(p) \/ ReaderEnds(p) \/ CloseProc(p)
  \/ ReapIdle \/ Close

Spec == Init /\ [][Next]_vars

\* Goroutines are scheduled, Go's mutex starves nobody, Config.Timeout passes,
\* and the janitor ticks.  No client need call and no agent need answer.
Fairness ==
  /\ \A r \in Runs : WF_vars(CallerStep(r)) /\ WF_vars(TurnStep(r)) /\ WF_vars(EndContext(r))
                     /\ WF_vars(Watch(r)) /\ WF_vars(SendCancel(r))
  /\ \A p \in Procs : WF_vars(ReaderEnds(p)) /\ WF_vars(CloseProc(p))
  /\ WF_vars(ReapIdle)

FairSpec == Spec /\ Fairness

-----------------------------------------------------------------------------
(* Properties. *)

InTurn(r) == tpc[r] \in {"lock", "prompt", "await", "finish"}

\* Type correctness of the whole state.
TypeOK ==
  /\ procs \in [Keys -> Procs \cup {None}]
  /\ before \in [Procs -> SUBSET Procs]
  /\ \A p, q \in Procs : p \in before[q] => q \notin before[p]
  /\ closed \in BOOLEAN
  /\ up \in SUBSET Procs /\ open \in SUBSET Procs /\ closing \in SUBSET Procs
  /\ inFlight \in [Procs -> Nat]
  /\ turnMu \in [Procs -> Runs \cup {None}]
  /\ sink \in [Procs -> Runs \cup {None}]
  /\ prompts \in [Procs -> Seq(Runs)]
  /\ key \in [Runs -> Keys \cup {None}]
  /\ proc \in [Runs -> Procs \cup {None}]
  /\ cpc \in [Runs -> {"new", "handshake", "insert", "touch", "begin", "end",
                       "returned"}]
  /\ tpc \in [Runs -> {"none", "lock", "prompt", "await", "finish", "done"}]
  /\ watch \in [Runs -> {"none", "armed", "cancelling", "off"}]
  /\ ctxDone \in [Runs -> BOOLEAN]

\* No agent process is lost: one that runs is in the map (once), or with the
\* caller that is starting it, or about to be closed, through every race of
\* start, duplicate start, eviction, recycling, crash and Close.
Accounted ==
  \A p \in up :
    \/ p \in closing
    \/ \E k \in Keys : procs[k] = p /\ \A j \in Keys \ {k} : procs[j] # p
    \/ \E r \in Runs : cpc[r] \in {"handshake", "insert"} /\ proc[r] = p

\* While a turn runs what its agent says reaches it, and nobody is told what
\* the agent of another chat session says: the session a process was started
\* for is the only one that has it in the map or runs turns on it.
StreamsToOwnTurn ==
  /\ \A r \in Runs : tpc[r] \in {"prompt", "await", "finish"} => sink[proc[r]] = r
  /\ \A p \in Procs : sink[p] # None =>
       /\ \A k \in Keys : procs[k] = p => k = key[sink[p]]
       /\ \A r \in Runs : proc[r] = p => key[r] = key[sink[p]]

\* Every turn ends, and its watcher with it, though the agent never answers,
\* dies, or is evicted, and other turns queue on the same process.
TurnEnds == \A r \in Runs : tpc[r] = "lock" ~> tpc[r] = "done" /\ watch[r] = "off"

\* Once callers go away neither an agent process nor an entry of the map is
\* left, unless the backend was closed: the janitor gives back what eviction,
\* duplicate starts and crashes do not.
Reclaimed == <>[](closed \/ (up = {} /\ Mapped = {}))

\* The processes in the map or on their way there, and the callers in Run.
Pooled == Mapped \cup {proc[r] : r \in {s \in Runs : cpc[s] \in {"handshake", "insert"}}}
UnderWay == {r \in Runs : cpc[r] \notin {"new", "returned"}}

\* acp.go:236: the limit is checked before a start that takes seconds, and nobody
\* is evicted while all are busy, so the pool may exceed it.  But it never grows
\* to MaxProcs plus the number of callers in Run, and so not at all for callers
\* that come one after the other.
GrowsWithCallers ==
  [][Cardinality(Pooled') > Cardinality(Pooled)
       => Cardinality(Pooled') < MaxProcs + Cardinality(UnderWay')]_vars

\* The abstract promise: an agent works for one chat session, for one turn at a
\* time.  A process works for the session of the runs that know it.
Users(p) == {r \in Runs : proc[r] = p}
Turns ==
  INSTANCE AgentTurns WITH
    chat <- [p \in Procs |-> IF Users(p) = {} THEN None ELSE key[CHOOSE r \in Runs : proc[r] = p]],
    speaker <- sink,
    phase <- [r \in Runs |->
                CASE tpc[r] = "none" -> "none" [] tpc[r] = "lock" -> "waiting"
                  [] tpc[r] = "done" -> "over" [] OTHER -> "served"],
    of <- [r \in Runs |-> IF tpc[r] = "none" THEN None ELSE key[r]],
    agent <- [r \in Runs |-> IF tpc[r] = "none" THEN None ELSE proc[r]]
ImplementsAgentTurns == Turns!Spec

-----------------------------------------------------------------------------
(* What a comment of the code says of it, and does not hold. *)

\* acp.go:260: evictOldest skips processes that are running a turn.
TurnNotEvicted ==
  [][\A p \in Mapped : p \in closing' /\ ~closed' =>
       \A r \in Runs : InTurn(r) => proc[r] # p]_vars

=============================================================================
