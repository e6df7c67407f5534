--------------------------- MODULE DangerConfirm ---------------------------
(***************************************************************************)
(* The confirmation chain of dangerous tools in the built-in AI backend,   *)
(* for one chat session shared by model turns and confirm requests.        *)
(*                                                                         *)
(*   confirm.go          setPending / consumePending under store.mu,       *)
(*                       SetLastConfirm / LastConfirm / MarkConsumed /     *)
(*                       ConsumeConsumedPending under muConfirm            *)
(*   tools/danger.go     dangerGuard: role gate, policy gate, claim the    *)
(*                       allow-mark or register a pending call             *)
(*   tools/permission.go guardByPolicy, setModeIn                          *)
(*   decorator.go        the tool_confirm event (the card the user sees)   *)
(*   engine_eino.go      ExecuteConfirmed                                  *)
(*                                                                         *)
(* Each action is one critical section of a lock, or the code between two. *)
(* Two of the variables are the user's side (cards) and the others history *)
(* that no action reads (asked, approved, runs, ranAs, and the approval a  *)
(* mark carries).                                                          *)
(***************************************************************************)
EXTENDS Naturals

CONSTANTS
  Turns,       \* goroutines of the model: each makes one tool call at a time
  Requests,    \* HTTP requests carrying confirmed_tool_call
  ExecTools,   \* dangerous tools other than set_permission_mode
  Args,        \* their arguments (canonical JSON)
  MaxTokens    \* bound on confirmations registered in a behaviour

ASSUME ThreadsDisjoint == Turns \cap Requests = {}
ASSUME ToolNames == {"set_permission_mode", "none"} \cap ExecTools = {}
ASSUME TokenBound == MaxTokens \in Nat

Threads == Turns \cup Requests
Tokens  == 1 .. MaxTokens

Roles == {"admin", "operator", "readonly"}
\* ModeAudit is classified like ModeDefault and an unset session mode falls
\* back to the process default, which nothing changes at run time.
Modes == {"default", "readonly"}

SetPermissionMode == "set_permission_mode"
Calls == [tool : ExecTools, args : Args]
           \cup [tool : {SetPermissionMode}, args : Modes]
NoCall == [tool |-> "none", args |-> "none"]

VARIABLES
  pending,      \* Session.pending: at most one call waiting for the user
  lastConfirm,  \* Session.lastConfirm: the confirmation to announce
  mark,         \* Session.consumedTool/consumedArgs, and whose approval it is
  permMode,     \* Session.permMode
  issued,       \* how many tokens confirmToken has produced
  pc, call, role,
  tool,         \* the tool name a confirm request carries
  tok,          \* the token a thread carries
  cards,        \* the confirmations shown to the user
  asked, approved, runs, ranAs

shared  == <<pending, lastConfirm, mark, permMode, issued>>
local   == <<pc, call, role, tool, tok>>
history == <<asked, approved, runs, ranAs>>
vars == <<pending, lastConfirm, mark, permMode, issued, pc, call, role, tool,
          tok, cards, asked, approved, runs, ranAs>>

Init ==
  /\ pending = {}
  /\ lastConfirm = {}
  /\ mark = {}
  /\ permMode = "default"
  /\ issued = 0
  /\ pc = [t \in Threads |-> "idle"]
  /\ call = [t \in Threads |-> NoCall]
  /\ role = [t \in Threads |-> "readonly"]
  /\ tool = [t \in Threads |-> "none"]
  /\ tok = [t \in Threads |-> 0]
  /\ cards = {}
  /\ asked = {}
  /\ approved = {}
  /\ runs = [k \in Tokens |-> 0]
  /\ ranAs = [k \in Tokens |-> NoCall]

Goto(t, label) == pc' = [pc EXCEPT ![t] = label]

\* The call of t returns: a turn may make another, a request is answered.
Return(t) ==
  /\ Goto(t, "idle")
  /\ call' = [call EXCEPT ![t] = NoCall]
  /\ role' = [role EXCEPT ![t] = "readonly"]
  /\ tool' = [tool EXCEPT ![t] = "none"]
  /\ tok' = [tok EXCEPT ![t] = 0]

-----------------------------------------------------------------------------
(* The two ways into a dangerous tool. *)

\* The model calls a tool; the role is that of the HTTP request of the turn.
ModelCalls(t, c, r) ==
  /\ t \in Turns /\ pc[t] = "idle"
  /\ Goto(t, "gate")
  /\ call' = [call EXCEPT ![t] = c]
  /\ role' = [role EXCEPT ![t] = r]
  /\ UNCHANGED <<shared, tool, tok, cards, history>>

\* The user clicks a card, possibly an old one or one already clicked.
UserConfirms(t, card, r) ==
  /\ t \in Requests /\ pc[t] = "idle"
  /\ Goto(t, "consume")
  /\ role' = [role EXCEPT ![t] = r]
  /\ tool' = [tool EXCEPT ![t] = card.call.tool]
  /\ tok' = [tok EXCEPT ![t] = card.token]
  /\ UNCHANGED <<shared, call, cards, history>>

Accepts(t, p) == p.call.tool = tool[t] /\ p.token = tok[t] /\ ~p.expired

\* Mutant: the pending call survives the attempt to confirm it.
LeavePending == UNCHANGED pending

\* consumePending: the pending call is gone whether or not the token fits.
ClearPending == pending' = {}

ConsumePending(t) ==
  /\ pc[t] = "consume"
  /\ ClearPending
  /\ \/ /\ \A p \in pending : ~Accepts(t, p)
        /\ Return(t)
        /\ UNCHANGED approved
     \/ \E p \in pending :
          /\ Accepts(t, p)
          /\ Goto(t, "mark")
          /\ call' = [call EXCEPT ![t] = p.call]
          /\ tool' = [tool EXCEPT ![t] = "none"]
          /\ approved' = approved \cup {p.token}
          /\ UNCHANGED <<role, tok>>
  /\ UNCHANGED <<lastConfirm, mark, permMode, issued, cards, asked, runs, ranAs>>

\* MarkConsumed overwrites the single slot of the session.
MarkConsumed(t) ==
  /\ pc[t] = "mark"
  /\ mark' = {[call |-> call[t], by |-> tok[t]]}
  /\ Goto(t, "gate")
  /\ tok' = [tok EXCEPT ![t] = 0]
  /\ UNCHANGED <<pending, lastConfirm, permMode, issued, call, role, tool,
                 cards, history>>

-----------------------------------------------------------------------------
(* dangerGuard. *)

CanWrite(r) == r \in {"admin", "operator"}

\* The role gate, setModeIn's admin gate, and the policy gate, which lets the
\* mode switch itself through in read-only mode.  Nothing reads the role after
\* them, so it is forgotten here.
Allowed(t) ==
  /\ CanWrite(role[t])
  /\ call[t].tool = SetPermissionMode => role[t] = "admin"
  /\ permMode = "readonly" => call[t].tool = SetPermissionMode

Gate(t) ==
  /\ pc[t] = "gate"
  /\ \/ /\ Allowed(t)
        /\ Goto(t, "claim")
        /\ role' = [role EXCEPT ![t] = "readonly"]
        /\ UNCHANGED <<call, tool, tok>>
     \/ ~Allowed(t) /\ Return(t)
  /\ UNCHANGED <<shared, cards, history>>

\* Mutant: the arguments are not compared.
FitsTool(t, m) == m.call.tool = call[t].tool

Fits(t, m) == m.call = call[t]

\* Mutant: the mark is read but not taken.
LeaveMark == UNCHANGED mark

ClearMark == mark' = {}

\* ConsumeConsumedPending.
Claim(t) ==
  /\ pc[t] = "claim"
  /\ \/ \E m \in mark :
          /\ Fits(t, m)
          /\ ClearMark
          /\ Goto(t, "exec")
          /\ tok' = [tok EXCEPT ![t] = m.by]
     \/ /\ \A m \in mark : ~Fits(t, m)
        /\ Goto(t, "register")
        /\ UNCHANGED <<mark, tok>>
  /\ UNCHANGED <<pending, lastConfirm, permMode, issued, call, role, tool,
                 cards, history>>

\* Mutant: any executed call sets the mode.
ModeAfterAny(c) == c.args

ModeAfter(c) == IF c.tool = SetPermissionMode THEN c.args ELSE permMode

Exec(t) ==
  /\ pc[t] = "exec"
  /\ permMode' = ModeAfter(call[t])
  /\ runs' = [runs EXCEPT ![tok[t]] = @ + 1]
  /\ ranAs' = [ranAs EXCEPT ![tok[t]] = call[t]]
  /\ Return(t)
  /\ UNCHANGED <<pending, lastConfirm, mark, issued, cards, asked, approved>>

\* setPending: a new call overwrites the one that was waiting.
SetPending(t) ==
  /\ pc[t] = "register"
  /\ issued < MaxTokens
  /\ issued' = issued + 1
  /\ pending' = {[call |-> call[t], token |-> issued', expired |-> FALSE]}
  /\ asked' = asked \cup {[token |-> issued', call |-> call[t]]}
  /\ tok' = [tok EXCEPT ![t] = issued']
  /\ Goto(t, "announce")
  /\ UNCHANGED <<lastConfirm, mark, permMode, call, role, tool, cards,
                 approved, runs, ranAs>>

\* SetLastConfirm; the confirm path calls the tool without its decorator.
SetLastConfirm(t) ==
  /\ pc[t] = "announce"
  /\ lastConfirm' = {[token |-> tok[t], call |-> call[t]]}
  /\ \/ /\ t \in Turns
        /\ Goto(t, "decorate")
        /\ UNCHANGED <<call, role, tool, tok>>
     \/ t \in Requests /\ Return(t)
  /\ UNCHANGED <<pending, mark, permMode, issued, cards, history>>

\* The decorator takes the announcement; the card carries a token only when
\* the announcement is for this tool (it may be another parallel call's).
Decorate(t) ==
  /\ pc[t] = "decorate"
  /\ lastConfirm' = {}
  /\ cards' = cards \cup {a \in lastConfirm : a.call.tool = call[t].tool}
  /\ Return(t)
  /\ UNCHANGED <<pending, mark, permMode, issued, history>>

\* pendingTTL passes.
Expire ==
  /\ \E p \in pending : ~p.expired
  /\ pending' = {[call |-> p.call, token |-> p.token, expired |-> TRUE] : p \in pending}
  /\ UNCHANGED <<lastConfirm, mark, permMode, issued, local, cards, history>>

Next ==
  \/ \E t \in Threads :
       \/ \E r \in Roles : \/ \E c \in Calls : ModelCalls(t, c, r)
                           \/ \E card \in cards : UserConfirms(t, card, r)
       \/ ConsumePending(t) \/ MarkConsumed(t)
       \/ Gate(t) \/ Claim(t) \/ Exec(t)
       \/ SetPending(t) \/ SetLastConfirm(t) \/ Decorate(t)
  \/ Expire

Spec == Init /\ [][Next]_vars

-----------------------------------------------------------------------------
(* Properties. *)

Asked == [token : Tokens, call : Calls]

\* Type correctness of the whole state.
TypeOK ==
  /\ pending \in SUBSET [call : Calls, token : Tokens, expired : BOOLEAN]
  /\ lastConfirm \in SUBSET Asked
  /\ mark \in SUBSET [call : Calls, by : Tokens]
  /\ permMode \in Modes
  /\ issued \in 0 .. MaxTokens
  /\ pc \in [Threads -> {"idle", "consume", "mark", "gate", "claim", "exec",
                         "register", "announce", "decorate"}]
  /\ call \in [Threads -> Calls \cup {NoCall}]
  /\ role \in [Threads -> Roles]
  /\ tool \in [Threads -> ExecTools \cup {SetPermissionMode, "none"}]
  /\ tok \in [Threads -> 0 .. MaxTokens]
  /\ cards \in SUBSET Asked
  /\ asked \in SUBSET Asked
  /\ approved \in SUBSET Tokens
  /\ runs \in [Tokens -> Nat]
  /\ ranAs \in [Tokens -> Calls \cup {NoCall}]

\* One confirmation pays for at most one execution of a dangerous tool, whatever
\* the order in which turns and double-clicked confirm requests reach the
\* single pending slot and the single allow-mark (consumePending's one-shot
\* rule and ConsumeConsumedPending's read-and-clear).
OncePerApproval == \A k \in Tokens : runs[k] <= 1

\* What runs is what the user saw: a dangerous call is only executed on the
\* strength of a card that was displayed for exactly that tool and those
\* arguments, and that the user confirmed, although the pending slot, the
\* announcement and the mark are three slots under two locks that other turns
\* overwrite in between.
SeenBeforeRun ==
  \A t \in Threads : pc[t] = "exec" =>
    /\ [token |-> tok[t], call |-> call[t]] \in cards
    /\ tok[t] \in approved

\* The abstract promise: asked, then approved, then run once and as asked.
Promise == INSTANCE ConfirmOnce WITH NotRun <- NoCall
ImplementsConfirmOnce == Promise!Spec

\* confirm.go: an allow-mark lets "this" confirmed execution through and "the
\* same call afterwards must be confirmed again": a model turn is never let
\* through when no confirm request for that call is being served.
ReplayNeedsConfirm ==
  [][\A t \in Turns :
       pc[t] = "claim" /\ pc'[t] = "exec" =>
         \E q \in Requests : pc[q] \in {"gate", "claim"} /\ call[q] = call[t]]_vars
=============================================================================
