----------------------------- MODULE AgentTurns -----------------------------
(***************************************************************************)
(* What the native ACP backend promises to chat sessions: an agent process *)
(* works for one session as long as anybody uses it, and its output goes   *)
(* to one turn of that session at a time, from the moment the turn is      *)
(* served until it is over.  AgentPool implements this specification.      *)
(***************************************************************************)
CONSTANTS
  Keys,    \* chat sessions
  Runs,    \* turns
  Procs,   \* agent processes
  None

VARIABLES
  chat,     \* the session a process works for
  speaker,  \* the turn that a process's output goes to
  phase,    \* where a turn is
  of,       \* the session of a turn
  agent     \* the process that serves it

vars == <<chat, speaker, phase, of, agent>>

Init ==
  /\ chat = [p \in Procs |-> None]
  /\ speaker = [p \in Procs |-> None]
  /\ phase = [r \in Runs |-> "none"]
  /\ of = [r \in Runs |-> None]
  /\ agent = [r \in Runs |-> None]

Start(p, k) ==
  /\ chat[p] = None
  /\ chat' = [chat EXCEPT ![p] = k]
  /\ UNCHANGED <<speaker, phase, of, agent>>

\* A process that no turn uses any more; it may work for another session later.
Stop(p) ==
  /\ chat[p] # None
  /\ \A r \in Runs : agent[r] # p
  /\ chat' = [chat EXCEPT ![p] = None]
  /\ UNCHANGED <<speaker, phase, of, agent>>

Queue(r, p) ==
  /\ phase[r] = "none" /\ chat[p] # None
  /\ phase' = [phase EXCEPT ![r] = "waiting"]
  /\ of' = [of EXCEPT ![r] = chat[p]]
  /\ agent' = [agent EXCEPT ![r] = p]
  /\ UNCHANGED <<chat, speaker>>

Serve(r) ==
  /\ phase[r] = "waiting" /\ speaker[agent[r]] = None
  /\ phase' = [phase EXCEPT ![r] = "served"]
  /\ speaker' = [speaker EXCEPT ![agent[r]] = r]
  /\ UNCHANGED <<chat, of, agent>>

Finish(r) ==
  /\ phase[r] = "served" /\ speaker[agent[r]] = r
  /\ phase' = [phase EXCEPT ![r] = "over"]
  /\ speaker' = [speaker EXCEPT ![agent[r]] = None]
  /\ UNCHANGED <<chat, of, agent>>

Next ==
  \/ \E p \in Procs, k \in Keys : Start(p, k)
  \/ \E p \in Procs : Stop(p)
  \/ \E r \in Runs, p \in Procs : Queue(r, p)
  \/ \E r \in Runs : Serve(r) \/ Finish(r)

Spec == Init /\ [][Next]_vars
=============================================================================
