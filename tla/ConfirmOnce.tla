---------------------------- MODULE ConfirmOnce ----------------------------
(***************************************************************************)
(* What the confirmation chain of the built-in AI assistant promises: a    *)
(* dangerous tool call is first asked (a card with a token is registered), *)
(* a user then approves that token, and only then the very call on the     *)
(* card runs, once.  DangerConfirm implements this specification.          *)
(***************************************************************************)
EXTENDS Naturals

CONSTANTS
  Calls,      \* the dangerous tool calls (tool and arguments)
  Tokens,     \* the confirmation tokens
  NotRun      \* the value of ranAs for a token whose call has not run

VARIABLES
  asked,      \* pairs of a token and the call it was issued for
  approved,   \* the tokens a user has confirmed
  runs,       \* how many executions a token has paid for
  ranAs       \* the call that ran on a token

vars == <<asked, approved, runs, ranAs>>

Init ==
  /\ asked = {}
  /\ approved = {}
  /\ runs = [k \in Tokens |-> 0]
  /\ ranAs = [k \in Tokens |-> NotRun]

Ask(k, c) ==
  /\ \A d \in Calls : [token |-> k, call |-> d] \notin asked
  /\ asked' = asked \cup {[token |-> k, call |-> c]}
  /\ UNCHANGED <<approved, runs, ranAs>>

Approve(k) ==
  /\ k \notin approved
  /\ \E c \in Calls : [token |-> k, call |-> c] \in asked
  /\ approved' = approved \cup {k}
  /\ UNCHANGED <<asked, runs, ranAs>>

Run(k, c) ==
  /\ k \in approved
  /\ [token |-> k, call |-> c] \in asked
  /\ runs[k] = 0
  /\ runs' = [runs EXCEPT ![k] = 1]
  /\ ranAs' = [ranAs EXCEPT ![k] = c]
  /\ UNCHANGED <<asked, approved>>

Next ==
  \E k \in Tokens :
    \/ Approve(k)
    \/ \E c \in Calls : Ask(k, c) \/ Run(k, c)

Spec == Init /\ [][Next]_vars
=============================================================================
