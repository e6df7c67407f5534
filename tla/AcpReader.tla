----------------------------- MODULE AcpReader -----------------------------
(***************************************************************************)
(* What an agent asks of git-ferry besides permission: it streams updates  *)
(* and runs terminals (engine/acp/acp.go, wire.go, terminal.go).           *)
(*                                                                         *)
(* One goroutine per agent reads its pipe and handles one message after    *)
(* the other, terminal requests included, terminal/wait_for_exit until the *)
(* terminal's process has ended.  The table of terminals is one for all    *)
(* agents of the engine.  A step of a reader is one critical section of    *)
(* the table, one system call, or one send.  The agent writes without      *)
(* waiting for answers, and may name any terminal: the table does not say  *)
(* whose a terminal is.                                                    *)
(*                                                                         *)
(* Reading files, reading a terminal's output and permission requests,     *)
(* which get a goroutine of their own, change nothing here.                *)
(***************************************************************************)
EXTENDS Naturals, FiniteSets

CONSTANTS
  Agents,     \* agent processes
  Starts,     \* how many processes the terminals start
  max,        \* terminalHandler.max
  None

Procs == 1 .. Starts   \* processes, numbered as they start
Ids == 1 .. Starts     \* what follows "term-" in a terminal's id

ASSUME AgentsFinite == IsFiniteSet(Agents)
ASSUME BoundsPositive == max \in Nat \ {0} /\ Starts \in Nat \ {0}
ASSUME NoneIsNew == None \notin Procs \cup Agents

VARIABLES
  known,    \* history: the terminal ids an agent has been told
  reader,   \* where the reader of an agent is, and with what
  terms,    \* terminalHandler.terms
  seq,      \* terminalHandler.seq
  running,  \* processes the operating system runs
  killed,   \* those that have been sent SIGKILL
  owner     \* the agent for which a process was started

vars == <<known, reader, terms, seq, running, killed, owner>>

Message ==
  [kind : {"update", "create"}, id : {0}] \cup
  [kind : {"wait", "kill", "release"}, id : Ids]

ReaderRec ==
  [at : {"idle", "emit", "check", "start", "insert", "wait", "kill",
         "release", "slay", "closed", "dead"},
   id : Ids \cup {0}, proc : Procs \cup {None}]

At(place) == [at |-> place, id |-> 0, proc |-> None]

Init ==
  /\ known = [a \in Agents |-> {}]
  /\ reader = [a \in Agents |-> At("idle")]
  /\ terms = [i \in Ids |-> None]
  /\ seq = 0
  /\ running = {} /\ killed = {}
  /\ owner = [p \in Procs |-> None]

Live == {i \in Ids : terms[i] # None}

-----------------------------------------------------------------------------
Goes(a, r) == reader' = [reader EXCEPT ![a] = r]
Table == UNCHANGED <<terms, seq, running, killed, owner>>
Rest == UNCHANGED known

FirstStep(kind) ==
  CASE kind = "update" -> "emit"
    [] kind = "create" -> "check"
    [] OTHER -> kind

(* client.dispatch and onMessage: one message at a time.  Ids are counted,  *)
(* so an agent may name a terminal that it was not told of, or one that    *)
(* does not exist.                                                         *)
Read(a, m) ==
  /\ reader[a].at = "idle"
  /\ Goes(a, [at |-> FirstStep(m.kind), id |-> m.id, proc |-> None])
  /\ Rest /\ Table

(* The agent is gone, by itself or because the pool closed it, and the     *)
(* pipe is empty: the connection is closed and the reader ends.  Nothing   *)
(* is done about the agent's terminals.                                    *)
ReadEnd(a) ==
  /\ reader[a].at = "idle"
  /\ Goes(a, At("closed"))
  /\ Rest /\ Table

-----------------------------------------------------------------------------
(* session/update: sinkEvent reads the sink under the lock and calls it    *)
(* after unlocking.  The turn, if there is one, takes the event or has     *)
(* ended its context.                                                      *)
Emit(a) ==
  /\ reader[a].at = "emit"
  /\ Goes(a, At("idle"))
  /\ Rest /\ Table

(* The turn has ended in between and its channel is closed: the select may *)
(* take the send, which panics.  The reader is gone, and its client.close  *)
(* was not deferred.                                                       *)
SendOnClosed(a) ==
  /\ reader[a].at = "emit"
  /\ Goes(a, At("dead"))
  /\ Rest /\ Table

(* Mutant: the limit is off by one. *)
CheckLimitLate(a) ==
  /\ reader[a].at = "check"
  /\ Goes(a, At(IF Cardinality(Live) > max THEN "idle" ELSE "start"))
  /\ Rest /\ Table

-----------------------------------------------------------------------------
(* terminal/create *)
CheckLimit(a) ==
  /\ reader[a].at = "check"
  /\ Goes(a, At(IF Cardinality(Live) >= max THEN "idle" ELSE "start"))
  /\ Rest /\ Table

StartFails(a) ==
  /\ reader[a].at = "start"
  /\ Goes(a, At("idle"))
  /\ Rest /\ Table

Start(a, p) ==
  /\ reader[a].at = "start"
  /\ owner[p] = None /\ \A q \in Procs : q < p => owner[q] # None
  /\ running' = running \cup {p}
  /\ owner' = [owner EXCEPT ![p] = a]
  /\ Goes(a, [At("insert") EXCEPT !.proc = p])
  /\ Rest /\ UNCHANGED <<terms, seq, killed>>

(* Mutant: the id is the number of terminals. *)
NextIdByLength == Cardinality(Live) + 1

NextId == seq + 1

Insert(a) ==
  /\ reader[a].at = "insert"
  /\ seq' = NextId
  /\ terms' = [terms EXCEPT ![NextId] = reader[a].proc]
  /\ known' = [known EXCEPT ![a] = @ \cup {NextId}]
  /\ Goes(a, At("idle"))
  /\ UNCHANGED <<running, killed, owner>>

(* Mutant: a terminal that is not in the table is waited for. *)
WaitForAny(a) ==
  /\ reader[a].at = "wait" /\ reader[a].proc = None
  /\ Goes(a, [reader[a] EXCEPT !.proc = terms[reader[a].id]])
  /\ Rest /\ Table

(* terminal/wait_for_exit: get, then wait for the process to end. *)
Wait(a) ==
  /\ reader[a].at = "wait" /\ reader[a].proc = None
  /\ Goes(a, IF terms[reader[a].id] = None THEN At("idle")
             ELSE [reader[a] EXCEPT !.proc = terms[reader[a].id]])
  /\ Rest /\ Table

Waits(a) == reader[a].at = "wait" /\ reader[a].proc \in running

WaitOver(a) ==
  /\ reader[a].at = "wait" /\ reader[a].proc # None /\ ~Waits(a)
  /\ Goes(a, At("idle"))
  /\ Rest /\ Table

(* Mutant: a terminal that is not in the table is killed. *)
KillAny(a) ==
  /\ reader[a].at = "kill"
  /\ killed' = killed \cup {terms[reader[a].id]}
  /\ Goes(a, At("idle"))
  /\ Rest /\ UNCHANGED <<terms, seq, running, owner>>

(* terminal/kill *)
Kill(a) ==
  /\ reader[a].at = "kill"
  /\ killed' = killed \cup ({terms[reader[a].id]} \cap running)
  /\ Goes(a, At("idle"))
  /\ Rest /\ UNCHANGED <<terms, seq, running, owner>>

(* terminal/release takes the entry out and then kills the process. *)
Release(a) ==
  /\ reader[a].at = "release"
  /\ terms' = [terms EXCEPT ![reader[a].id] = None]
  /\ Goes(a, IF terms[reader[a].id] = None THEN At("idle")
             ELSE [At("slay") EXCEPT !.proc = terms[reader[a].id]])
  /\ Rest /\ UNCHANGED <<seq, running, killed, owner>>

(* Mutant: release leaves the process to end by itself. *)
SlayNothing(a) ==
  /\ reader[a].at = "slay"
  /\ Goes(a, At("idle"))
  /\ Rest /\ Table

Slay(a) ==
  /\ reader[a].at = "slay"
  /\ killed' = killed \cup ({reader[a].proc} \cap running)
  /\ Goes(a, At("idle"))
  /\ Rest /\ UNCHANGED <<terms, seq, running, owner>>

ReaderStep(a) ==
  \/ Emit(a) \/ SendOnClosed(a)
  \/ CheckLimit(a) \/ StartFails(a) \/ (\E p \in Procs : Start(a, p)) \/ Insert(a)
  \/ Wait(a) \/ WaitOver(a) \/ Kill(a) \/ Release(a) \/ Slay(a)

-----------------------------------------------------------------------------
(* A terminal's process ends by itself, or because it was killed. *)
Exit(p) ==
  /\ p \in running
  /\ running' = running \ {p} /\ killed' = killed \ {p}
  /\ UNCHANGED <<known, reader, terms, seq, owner>>

Next ==
  \/ \E a \in Agents, m \in Message : Read(a, m)
  \/ \E a \in Agents : ReadEnd(a) \/ ReaderStep(a)
  \/ \E p \in Procs : Exit(p)

(* A reader goes on with its message, and a killed process ends.  Other    *)
(* processes need not end, and agents need not write.                      *)
Fairness ==
  /\ \A a \in Agents : WF_vars(ReaderStep(a))
  /\ \A p \in Procs : WF_vars(p \in killed /\ Exit(p))

Spec == Init /\ [][Next]_vars /\ Fairness

-----------------------------------------------------------------------------
TypeOK ==
  /\ known \in [Agents -> SUBSET Ids]
  /\ reader \in [Agents -> ReaderRec]
  /\ terms \in [Ids -> Procs \cup {None}]
  /\ seq \in Ids \cup {0}
  /\ running \subseteq Procs /\ killed \subseteq running
  /\ owner \in [Procs -> Agents \cup {None}]

(* terminal.go, create: the limit is checked in one critical section and   *)
(* the entry added in another, so it may be exceeded, but only by as many  *)
(* terminals as other readers are starting at that time.                   *)
Starting == {a \in Agents : reader[a].at \in {"start", "insert"}}
AlmostBounded == Cardinality(Live) + Cardinality(Starting) < max + Cardinality(Agents)

(* terminal.go: no process is lost.  One that runs can be reached by its   *)
(* id, is about to get one, or is about to be killed, whatever readers     *)
(* create, kill and release at the same time.                              *)
Reachable ==
  \A p \in running \ killed :
    \/ \E i \in Live : terms[i] = p
    \/ \E a \in Agents : reader[a].at \in {"insert", "slay"} /\ reader[a].proc = p

(* terminal.go, seq: agents share the table, but the id an agent was given *)
(* never comes to denote the terminal of another agent.                    *)
OwnTerminal ==
  \A a \in Agents : \A i \in known[a] : terms[i] # None => owner[terms[i]] = a

(* acp.go, onMessage: the reader comes back to the pipe after each message *)
(* unless it waits for a terminal that runs, or died on a closed channel.  *)
ReaderReturns ==
  \A a \in Agents :
    reader[a].at # "idle" ~> reader[a].at \in {"idle", "closed", "dead"} \/ Waits(a)

=============================================================================
