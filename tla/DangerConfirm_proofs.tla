------------------------ MODULE DangerConfirm_proofs ------------------------
(***************************************************************************)
(* Proofs about DangerConfirm for any number of turns, confirm requests,   *)
(* tools, arguments and tokens: the state is well typed, one confirmation  *)
(* pays for at most one execution, what runs is what the user saw, and     *)
(* DangerConfirm implements ConfirmOnce.                                   *)
(***************************************************************************)
EXTENDS DangerConfirm, TLAPS

\* Only what the later proofs need of a call, whose set can stay opaque.
LEMMA CallShape ==
  \A c \in Calls :
    /\ c.tool \in ExecTools \cup {SetPermissionMode}
    /\ c.tool = SetPermissionMode => c.args \in Modes
BY ToolNames DEF Calls, SetPermissionMode

-----------------------------------------------------------------------------
(* The inductive invariant.                                                *)
(*                                                                         *)
(* A token travels: it is asked, shown, approved when the pending slot is  *)
(* consumed, carried by the request, left in the mark, carried by the      *)
(* thread that claims the mark, and spent by Exec.  At any moment an       *)
(* unspent approval is in one place only.                                  *)

\* t carries an approval: between consuming the pending slot and marking, and
\* between claiming the mark and running.
Carries(t) == pc[t] \in {"mark", "exec"}

\* Token k was shown for call c, is approved and has not been spent.
Unspent(k, c) ==
  /\ [token |-> k, call |-> c] \in cards
  /\ k \in approved
  /\ runs[k] = 0

SlotsInv ==
  /\ \A m, n \in mark : m = n
  /\ cards \subseteq asked
  /\ lastConfirm \subseteq asked

CallsInv ==
  \A t \in Threads :
    /\ pc[t] \in {"mark", "gate", "claim", "exec", "register", "announce", "decorate"}
         => call[t] \in Calls
    /\ pc[t] = "announce" => [token |-> tok[t], call |-> call[t]] \in asked
    /\ pc[t] = "consume" => \E a \in cards : a.token = tok[t]

AskedInv ==
  /\ \A a \in asked : a.token <= issued
  /\ \A a, b \in asked : a.token = b.token => a = b

ApprovedInv ==
  /\ \A k \in approved : \E a \in cards : a.token = k
  /\ \A p \in pending : /\ [token |-> p.token, call |-> p.call] \in asked
                        /\ p.token \notin approved
  /\ \A k \in Tokens : /\ k \notin approved => runs[k] = 0
                       /\ runs[k] <= 1

HoldersInv ==
  /\ \A m \in mark : Unspent(m.by, m.call)
  /\ \A t \in Threads : Carries(t) => /\ Unspent(tok[t], call[t])
                                      /\ \A m \in mark : m.by # tok[t]
  /\ \A t, u \in Threads : Carries(t) /\ Carries(u) /\ t # u => tok[t] # tok[u]

IInv == TypeOK /\ SlotsInv /\ CallsInv /\ AskedInv /\ ApprovedInv /\ HoldersInv

-----------------------------------------------------------------------------
LEMMA InitInv == Init => IInv
BY TokenBound DEF Init, IInv, TypeOK, SlotsInv, CallsInv, AskedInv, ApprovedInv,
   HoldersInv, Carries, Unspent, Modes, Roles, Tokens

\* Where a step leaves the threads' own variables.
LocalTypeOK ==
  /\ pc \in [Threads -> {"idle", "consume", "mark", "gate", "claim", "exec",
                         "register", "announce", "decorate"}]
  /\ call \in [Threads -> Calls \cup {NoCall}]
  /\ role \in [Threads -> Roles]
  /\ tool \in [Threads -> ExecTools \cup {SetPermissionMode, "none"}]
  /\ tok \in [Threads -> 0 .. MaxTokens]

LEMMA ReturnTypes ==
  ASSUME TypeOK, NEW t \in Threads, Return(t) PROVE LocalTypeOK'
BY TokenBound DEF TypeOK, LocalTypeOK, Return, Goto, Roles

LEMMA TypeStep == IInv /\ [Next]_vars => TypeOK'
<1> SUFFICES ASSUME IInv, [Next]_vars PROVE TypeOK'
  OBVIOUS
<1> USE TokenBound
<1>0. TypeOK
  BY DEF IInv
<1>1. ASSUME NEW t \in Threads, NEW r \in Roles, NEW c \in Calls,
             ModelCalls(t, c, r)
      PROVE  TypeOK'
  BY <1>0, <1>1 DEF TypeOK, ModelCalls, Goto, shared, history
<1>2. ASSUME NEW t \in Threads, NEW r \in Roles, NEW card \in cards,
             UserConfirms(t, card, r)
      PROVE  TypeOK'
  <2>1. card.call.tool \in ExecTools \cup {SetPermissionMode} /\ card.token \in Tokens
    BY <1>0, CallShape DEF TypeOK, Asked
  <2> QED
    BY <1>0, <1>2, <2>1 DEF TypeOK, UserConfirms, Goto, shared, history, Tokens
<1>3. ASSUME NEW t \in Threads, ConsumePending(t) PROVE TypeOK'
  <2>1. CASE Return(t) /\ UNCHANGED approved
    BY <1>0, <1>3, <2>1, ReturnTypes DEF TypeOK, LocalTypeOK, ConsumePending, ClearPending
  <2>2. ASSUME NEW p \in pending, Goto(t, "mark"),
               call' = [call EXCEPT ![t] = p.call],
               tool' = [tool EXCEPT ![t] = "none"],
               approved' = approved \cup {p.token}, UNCHANGED <<role, tok>>
        PROVE  TypeOK'
    <3>1. p.call \in Calls /\ p.token \in Tokens
      BY <1>0 DEF TypeOK
    <3> QED
      BY <1>0, <1>3, <2>2, <3>1 DEF TypeOK, ConsumePending, ClearPending, Goto
  <2> QED
    BY <1>3, <2>1, <2>2 DEF ConsumePending
<1>4. ASSUME NEW t \in Threads, MarkConsumed(t) PROVE TypeOK'
  <2>1. call[t] \in Calls /\ tok[t] \in Tokens
    BY <1>4, <1>0 DEF IInv, MarkConsumed, CallsInv, HoldersInv, Carries, Unspent, TypeOK
  <2> QED
    BY <1>0, <1>4, <2>1 DEF TypeOK, MarkConsumed, Goto, history
<1>5. ASSUME NEW t \in Threads, Gate(t) PROVE TypeOK'
  <2>1. CASE Return(t)
    BY <1>0, <1>5, <2>1, ReturnTypes DEF TypeOK, LocalTypeOK, Gate, shared, history
  <2>2. CASE ~Return(t)
    BY <1>0, <1>5, <2>2 DEF TypeOK, Gate, Goto, shared, history, Roles
  <2> QED
    BY <2>1, <2>2
<1>6. ASSUME NEW t \in Threads, Claim(t) PROVE TypeOK'
  <2>1. \A m \in mark : m.by \in 0 .. MaxTokens
    BY <1>0 DEF TypeOK, Tokens
  <2>2. mark' \in SUBSET [call : Calls, by : Tokens]
    BY <1>0, <1>6 DEF TypeOK, Claim, ClearMark
  <2>3. tok' \in [Threads -> 0 .. MaxTokens]
    BY <1>0, <1>6, <2>1 DEF TypeOK, Claim
  <2>4. pc' = [pc EXCEPT ![t] = "exec"] \/ pc' = [pc EXCEPT ![t] = "register"]
    BY <1>6 DEF Claim, Goto
  <2> QED
    BY <1>0, <1>6, <2>2, <2>3, <2>4 DEF TypeOK, Claim, history
<1>7. ASSUME NEW t \in Threads, Exec(t) PROVE TypeOK'
  <2>1. call[t] \in Calls /\ tok[t] \in Tokens
    BY <1>7, <1>0 DEF IInv, Exec, CallsInv, HoldersInv, Carries, Unspent, TypeOK
  <2>2. permMode' \in Modes
    BY <1>0, <1>7, <2>1, CallShape DEF TypeOK, Exec, ModeAfter
  <2> QED
    BY <1>0, <1>7, <2>1, <2>2, ReturnTypes DEF TypeOK, LocalTypeOK, Exec
<1>8. ASSUME NEW t \in Threads, SetPending(t) PROVE TypeOK'
  <2>1. call[t] \in Calls
    BY <1>8 DEF IInv, SetPending, CallsInv
  <2>2. issued' \in Tokens
    BY <1>0, <1>8 DEF TypeOK, SetPending, Tokens
  <2> QED
    BY <1>0, <1>8, <2>1, <2>2 DEF TypeOK, SetPending, Goto, Asked, Tokens
<1>9. ASSUME NEW t \in Threads, SetLastConfirm(t) PROVE TypeOK'
  <2>1. [token |-> tok[t], call |-> call[t]] \in Asked
    BY <1>0, <1>9 DEF IInv, TypeOK, SetLastConfirm, CallsInv
  <2>2. CASE Return(t)
    BY <1>0, <1>9, <2>1, <2>2, ReturnTypes
       DEF TypeOK, LocalTypeOK, SetLastConfirm, history
  <2>3. CASE ~Return(t)
    BY <1>0, <1>9, <2>1, <2>3 DEF TypeOK, SetLastConfirm, Goto, history
  <2> QED
    BY <2>2, <2>3
<1>10. ASSUME NEW t \in Threads, Decorate(t) PROVE TypeOK'
  BY <1>0, <1>10, ReturnTypes DEF TypeOK, LocalTypeOK, Decorate, history
<1>11. ASSUME Expire PROVE TypeOK'
  <2> DEFINE Late(p) == [call |-> p.call, token |-> p.token, expired |-> TRUE]
  <2>0. \A p \in pending : Late(p) \in [call : Calls, token : Tokens, expired : BOOLEAN]
    BY <1>0 DEF TypeOK
  <2>1. pending' \in SUBSET [call : Calls, token : Tokens, expired : BOOLEAN]
    <3>1. pending' = {Late(p) : p \in pending}
      BY <1>11 DEF Expire
    <3> HIDE DEF Late
    <3> QED
      BY <2>0, <3>1
  <2> QED
    BY <1>0, <1>11, <2>1 DEF TypeOK, Expire, local, history
<1>12. ASSUME UNCHANGED vars PROVE TypeOK'
  BY <1>0, <1>12 DEF TypeOK, vars
<1> QED
  BY <1>1, <1>2, <1>3, <1>4, <1>5, <1>6, <1>7, <1>8, <1>9, <1>10, <1>11,
     <1>12 DEF Next

\* What a step of t leaves to the other threads.
Others(t) ==
  \A u \in Threads : u # t => /\ pc'[u] = pc[u]
                              /\ call'[u] = call[u]
                              /\ tok'[u] = tok[u]

LEMMA ReturnFrame ==
  ASSUME TypeOK, NEW t \in Threads, Return(t)
  PROVE  Others(t) /\ pc'[t] = "idle"
BY DEF TypeOK, Return, Goto, Others

\* A step of t that takes up no approval leaves the holders as they were.
LEMMA HoldersFrame ==
  ASSUME HoldersInv, NEW t \in Threads, Others(t), ~Carries(t)',
         cards \subseteq cards', UNCHANGED <<mark, approved, runs>>
  PROVE  HoldersInv'
<1>1. \A m \in mark' : Unspent(m.by, m.call)'
  BY DEF HoldersInv, Unspent
<1>2. \A u \in Threads : Carries(u)' => u # t /\ Carries(u)
  BY DEF Others, Carries
<1>3. \A u \in Threads : Carries(u)' => Unspent(tok[u], call[u])'
  BY <1>2 DEF HoldersInv, Unspent, Others
<1> QED
  BY <1>1, <1>2, <1>3 DEF HoldersInv, Others

\* A thread that returns leaves the others' calls, tokens and cards in place.
LEMMA CallsFrame ==
  ASSUME CallsInv, NEW t \in Threads, Others(t), pc'[t] = "idle",
         asked \subseteq asked', cards \subseteq cards'
  PROVE  CallsInv'
BY DEF CallsInv, Others

LEMMA InvStep == IInv /\ [Next]_vars => IInv'
<1> SUFFICES ASSUME IInv, [Next]_vars
             PROVE  (SlotsInv /\ CallsInv /\ AskedInv /\ ApprovedInv /\ HoldersInv)'
  BY TypeStep DEF IInv
<1> USE TokenBound
<1> USE DEF IInv, TypeOK, Asked, Goto, Return, shared, local, history, Tokens
<1>1. ASSUME NEW t \in Threads, NEW r \in Roles, NEW c \in Calls,
             ModelCalls(t, c, r)
      PROVE  (SlotsInv /\ CallsInv /\ AskedInv /\ ApprovedInv /\ HoldersInv)'
  <2> USE <1>1 DEF ModelCalls
  <2>1. SlotsInv'
    BY DEF SlotsInv
  <2>2. CallsInv'
    BY DEF CallsInv, SlotsInv
  <2>3. AskedInv'
    BY DEF AskedInv
  <2>4. ApprovedInv'
    BY DEF ApprovedInv, AskedInv, SlotsInv, CallsInv
  <2>5. HoldersInv'
    BY DEF HoldersInv, Carries, Unspent, ApprovedInv, SlotsInv, AskedInv, CallsInv
  <2> QED
    BY <2>1, <2>2, <2>3, <2>4, <2>5
<1>2. ASSUME NEW t \in Threads, NEW r \in Roles, NEW card \in cards,
             UserConfirms(t, card, r)
      PROVE  (SlotsInv /\ CallsInv /\ AskedInv /\ ApprovedInv /\ HoldersInv)'
  <2> USE <1>2 DEF UserConfirms
  <2>1. SlotsInv'
    BY DEF SlotsInv
  <2>2. CallsInv'
    BY DEF CallsInv, SlotsInv
  <2>3. AskedInv'
    BY DEF AskedInv
  <2>4. ApprovedInv'
    BY DEF ApprovedInv, AskedInv, SlotsInv, CallsInv
  <2>5. HoldersInv'
    BY DEF HoldersInv, Carries, Unspent, ApprovedInv, SlotsInv, AskedInv, CallsInv
  <2> QED
    BY <2>1, <2>2, <2>3, <2>4, <2>5
<1>3. ASSUME NEW t \in Threads,
             ConsumePending(t)
      PROVE  (SlotsInv /\ CallsInv /\ AskedInv /\ ApprovedInv /\ HoldersInv)'
  <2>1. SlotsInv' /\ AskedInv'
    BY <1>3 DEF ConsumePending, SlotsInv, AskedInv
  <2>2. CASE Return(t) /\ UNCHANGED approved
    <3>1. Others(t) /\ pc'[t] = "idle"
      BY <2>2, ReturnFrame
    <3>2. CallsInv'
      BY <1>3, <3>1, CallsFrame DEF ConsumePending
    <3>3. ApprovedInv'
      BY <1>3, <2>2 DEF ConsumePending, ClearPending, ApprovedInv
    <3>4. HoldersInv'
      <4>1. ~Carries(t)'
        BY <3>1 DEF Carries
      <4> QED
        BY <1>3, <2>2, <3>1, <4>1, HoldersFrame DEF ConsumePending
    <3> QED
      BY <2>1, <3>2, <3>3, <3>4
  <2>3. ASSUME NEW p \in pending, Accepts(t, p), Goto(t, "mark"),
               call' = [call EXCEPT ![t] = p.call],
               approved' = approved \cup {p.token}, UNCHANGED tok
        PROVE  CallsInv' /\ ApprovedInv' /\ HoldersInv'
    <3>1. Others(t) /\ pc[t] = "consume" /\ pc'[t] = "mark" /\ call'[t] = p.call
      BY <1>3, <2>3 DEF ConsumePending, Goto, Others
    <3>2. /\ p.call \in Calls /\ p.token \in Tokens
          /\ tok[t] = p.token /\ p.token \notin approved
          /\ [token |-> p.token, call |-> p.call] \in asked
      BY <2>3 DEF Accepts, ApprovedInv
    <3>3. [token |-> p.token, call |-> p.call] \in cards
      <4>1. PICK card \in cards : card.token = tok[t]
        BY <3>1 DEF CallsInv
      <4>2. card \in asked /\ card.token = p.token
        BY <4>1, <3>2 DEF SlotsInv
      <4>3. card = [token |-> p.token, call |-> p.call]
        BY <3>2, <4>2 DEF AskedInv
      <4> QED
        BY <4>1, <4>3
    <3>4. CallsInv'
      BY <1>3, <3>1, <3>2 DEF ConsumePending, CallsInv, Others
    <3>5. ApprovedInv'
      <4>1. \A k \in approved' : \E card \in cards' : card.token = k
        BY <1>3, <2>3, <3>3 DEF ConsumePending, ApprovedInv
      <4> QED
        BY <1>3, <2>3, <4>1 DEF ConsumePending, ClearPending, ApprovedInv
    <3>6. HoldersInv'
      <4>1. \A k, c : Unspent(k, c) => Unspent(k, c)' /\ k # p.token
        BY <1>3, <2>3, <3>2 DEF ConsumePending, Unspent
      <4>2. Unspent(p.token, p.call)'
        BY <1>3, <2>3, <3>2, <3>3 DEF ConsumePending, Unspent, ApprovedInv
      <4>3. mark' = mark /\ tok' = tok
        BY <1>3, <2>3 DEF ConsumePending
      <4>4. \A u \in Threads : u # t /\ Carries(u)' =>
                /\ Carries(u) /\ Unspent(tok[u], call[u]) /\ call'[u] = call[u]
        BY <3>1 DEF Others, Carries, HoldersInv
      <4>5. \A m \in mark' : Unspent(m.by, m.call)' /\ m.by # p.token
        BY <4>1, <4>3 DEF HoldersInv
      <4>6. ASSUME NEW u \in Threads, Carries(u)'
            PROVE  Unspent(tok[u], call[u])' /\ \A m \in mark' : m.by # tok'[u]
        <5>1. CASE u = t
          BY <5>1, <3>1, <3>2, <4>2, <4>3, <4>5
        <5>2. CASE u # t
          BY <5>2, <4>6, <4>1, <4>3, <4>4 DEF HoldersInv
        <5> QED
          BY <5>1, <5>2
      <4>7. ASSUME NEW u \in Threads, NEW v \in Threads, Carries(u)', Carries(v)', u # v
            PROVE  tok'[u] # tok'[v]
        BY <4>7, <4>1, <4>3, <4>4, <3>2 DEF HoldersInv
      <4> QED
        BY <4>5, <4>6, <4>7 DEF HoldersInv
    <3> QED
      BY <3>4, <3>5, <3>6
  <2> QED
    BY <1>3, <2>1, <2>2, <2>3 DEF ConsumePending
<1>4. ASSUME NEW t \in Threads,
             MarkConsumed(t)
      PROVE  (SlotsInv /\ CallsInv /\ AskedInv /\ ApprovedInv /\ HoldersInv)'
  <2> USE <1>4 DEF MarkConsumed
  <2>1. SlotsInv'
    BY DEF SlotsInv
  <2>2. CallsInv'
    BY DEF CallsInv, SlotsInv, HoldersInv, Carries, Unspent
  <2>3. AskedInv'
    BY DEF AskedInv
  <2>4. ApprovedInv'
    BY DEF ApprovedInv, AskedInv, SlotsInv, CallsInv
  <2>5. HoldersInv'
    BY DEF HoldersInv, Carries, Unspent, ApprovedInv, SlotsInv, AskedInv, CallsInv
  <2> QED
    BY <2>1, <2>2, <2>3, <2>4, <2>5
<1>5. ASSUME NEW t \in Threads,
             Gate(t)
      PROVE  (SlotsInv /\ CallsInv /\ AskedInv /\ ApprovedInv /\ HoldersInv)'
  <2> USE <1>5 DEF Gate
  <2>0. Others(t) /\ pc'[t] \in {"claim", "idle"}
    BY ReturnFrame DEF Others
  <2>1. SlotsInv'
    BY DEF SlotsInv
  <2>2. CallsInv'
    BY DEF CallsInv
  <2>3. AskedInv'
    BY DEF AskedInv
  <2>4. ApprovedInv'
    BY DEF ApprovedInv
  <2>5. HoldersInv'
    BY <2>0, HoldersFrame DEF Carries
  <2> QED
    BY <2>1, <2>2, <2>3, <2>4, <2>5
<1>6. ASSUME NEW t \in Threads,
             Claim(t)
      PROVE  (SlotsInv /\ CallsInv /\ AskedInv /\ ApprovedInv /\ HoldersInv)'
  <2>1. SlotsInv' /\ AskedInv' /\ ApprovedInv'
    BY <1>6 DEF Claim, ClearMark, SlotsInv, AskedInv, ApprovedInv
  <2>2. Others(t) /\ call' = call /\ pc[t] = "claim" /\ pc'[t] \in {"exec", "register"}
    BY <1>6 DEF Claim, Others
  <2>3. CallsInv'
    <3>1. UNCHANGED <<asked, cards>>
      BY <1>6 DEF Claim
    <3> QED
      BY <2>2, <3>1 DEF CallsInv, Others
  <2>4. HoldersInv'
    <3>1. CASE pc'[t] = "register"
      BY <1>6, <2>2, <3>1, HoldersFrame DEF Claim, Carries
    <3>2. CASE pc'[t] = "exec"
      <4>1. PICK m \in mark : Fits(t, m) /\ mark' = {} /\ tok' = [tok EXCEPT ![t] = m.by]
        BY <1>6, <3>2 DEF Claim, ClearMark
      <4>2. tok'[t] = m.by /\ call'[t] = m.call /\ Unspent(m.by, m.call)
        BY <2>2, <4>1 DEF Fits, HoldersInv
      <4>3. \A k, c : Unspent(k, c) => Unspent(k, c)'
        BY <1>6 DEF Claim, Unspent
      <4>4. \A u \in Threads : u # t /\ Carries(u)' =>
               Carries(u) /\ Unspent(tok[u], call[u]) /\ tok[u] # m.by /\ tok'[u] = tok[u]
        BY <2>2, <4>1 DEF Others, Carries, HoldersInv
      <4>5. \A u \in Threads : Carries(u)' => Unspent(tok[u], call[u])'
        BY <2>2, <4>2, <4>3, <4>4
      <4>6. \A u, v \in Threads : Carries(u)' /\ Carries(v)' /\ u # v => tok'[u] # tok'[v]
        BY <4>2, <4>4 DEF HoldersInv
      <4> QED
        BY <4>1, <4>5, <4>6 DEF HoldersInv
    <3> QED
      BY <2>2, <3>1, <3>2
  <2> QED
    BY <2>1, <2>3, <2>4
<1>7. ASSUME NEW t \in Threads,
             Exec(t)
      PROVE  (SlotsInv /\ CallsInv /\ AskedInv /\ ApprovedInv /\ HoldersInv)'
  <2>1. Others(t) /\ pc[t] = "exec" /\ pc'[t] = "idle"
    BY <1>7, ReturnFrame DEF Exec
  <2>2. Unspent(tok[t], call[t]) /\ tok[t] \in Tokens
    BY <2>1 DEF HoldersInv, Carries, Unspent
  <2>3. SlotsInv' /\ AskedInv'
    BY <1>7 DEF Exec, SlotsInv, AskedInv
  <2>4. CallsInv'
    BY <1>7, <2>1, CallsFrame DEF Exec
  <2>5. \A k \in Tokens : runs'[k] = IF k = tok[t] THEN 1 ELSE runs[k]
    BY <1>7, <2>2 DEF Exec, Unspent
  <2>6. ApprovedInv'
    BY <1>7, <2>2, <2>5 DEF Exec, ApprovedInv, Unspent
  <2>7. HoldersInv'
    <3>1. \A k \in Tokens, c \in Calls \cup {NoCall} : k # tok[t] /\ Unspent(k, c) => Unspent(k, c)'
      BY <1>7, <2>5 DEF Exec, Unspent
    <3>2. \A m \in mark' : m \in mark /\ m.by # tok[t] /\ m.by \in Tokens /\ m.call \in Calls
      BY <1>7, <2>1 DEF Exec, HoldersInv, Carries
    <3>3. \A u \in Threads : Carries(u)' =>
             /\ Carries(u) /\ tok[u] # tok[t] /\ tok[u] \in Tokens
             /\ tok'[u] = tok[u] /\ call'[u] = call[u]
      BY <2>1 DEF Others, Carries, HoldersInv, Unspent
    <3>4. \A m \in mark' : Unspent(m.by, m.call)'
      BY <3>1, <3>2 DEF HoldersInv
    <3>5. \A u \in Threads : Carries(u)' => Unspent(tok[u], call[u])'
      BY <3>1, <3>3 DEF HoldersInv
    <3> QED
      BY <3>2, <3>3, <3>4, <3>5 DEF HoldersInv
  <2> QED
    BY <2>3, <2>4, <2>6, <2>7
<1>8. ASSUME NEW t \in Threads,
             SetPending(t)
      PROVE  (SlotsInv /\ CallsInv /\ AskedInv /\ ApprovedInv /\ HoldersInv)'
  <2> USE <1>8 DEF SetPending
  <2>1. SlotsInv'
    BY DEF SlotsInv
  <2>2. CallsInv'
    BY DEF CallsInv, SlotsInv
  <2>3. AskedInv'
    BY DEF AskedInv
  <2>4. ApprovedInv'
    BY DEF ApprovedInv, AskedInv, SlotsInv, CallsInv
  <2>5. HoldersInv'
    BY DEF HoldersInv, Carries, Unspent, ApprovedInv, SlotsInv, AskedInv, CallsInv
  <2> QED
    BY <2>1, <2>2, <2>3, <2>4, <2>5
<1>9. ASSUME NEW t \in Threads,
             SetLastConfirm(t)
      PROVE  (SlotsInv /\ CallsInv /\ AskedInv /\ ApprovedInv /\ HoldersInv)'
  <2>1. /\ pc[t] = "announce" /\ lastConfirm' = {[token |-> tok[t], call |-> call[t]]}
        /\ UNCHANGED <<pending, mark, issued, cards, asked, approved, runs>>
    BY <1>9 DEF SetLastConfirm
  <2>2. Others(t) /\ pc'[t] \in {"decorate", "idle"} /\ (pc'[t] = "decorate" => call' = call)
    <3>1. CASE Return(t)
      BY <3>1, ReturnFrame
    <3>2. CASE ~Return(t)
      BY <1>9, <3>2 DEF SetLastConfirm, Others
    <3> QED
      BY <3>1, <3>2
  <2>3. SlotsInv'
    BY <2>1 DEF SlotsInv, CallsInv
  <2>4. CallsInv'
    BY <2>1, <2>2 DEF CallsInv, Others
  <2>5. AskedInv' /\ ApprovedInv'
    BY <2>1 DEF AskedInv, ApprovedInv
  <2>6. HoldersInv'
    BY <2>1, <2>2, HoldersFrame DEF Carries
  <2> QED
    BY <2>3, <2>4, <2>5, <2>6
<1>10. ASSUME NEW t \in Threads,
             Decorate(t)
      PROVE  (SlotsInv /\ CallsInv /\ AskedInv /\ ApprovedInv /\ HoldersInv)'
  <2>1. /\ lastConfirm' = {} /\ cards \subseteq cards' /\ cards' \subseteq cards \cup lastConfirm
        /\ UNCHANGED <<pending, mark, issued, asked, approved, runs>>
    BY <1>10 DEF Decorate
  <2>2. Others(t) /\ pc'[t] = "idle"
    BY <1>10, ReturnFrame DEF Decorate
  <2>3. SlotsInv'
    BY <2>1 DEF SlotsInv
  <2>4. CallsInv'
    BY <2>1, <2>2, CallsFrame
  <2>5. AskedInv' /\ ApprovedInv'
    BY <2>1 DEF AskedInv, ApprovedInv
  <2>6. HoldersInv'
    BY <2>1, <2>2, HoldersFrame DEF Carries
  <2> QED
    BY <2>3, <2>4, <2>5, <2>6
<1>11. ASSUME Expire
       PROVE  (SlotsInv /\ CallsInv /\ AskedInv /\ ApprovedInv /\ HoldersInv)'
  BY <1>11 DEF Expire, SlotsInv, CallsInv, AskedInv, ApprovedInv, HoldersInv, Carries, Unspent
<1>12. ASSUME UNCHANGED vars
       PROVE  (SlotsInv /\ CallsInv /\ AskedInv /\ ApprovedInv /\ HoldersInv)'
  BY <1>12 DEF vars, SlotsInv, CallsInv, AskedInv, ApprovedInv, HoldersInv, Carries, Unspent
<1> QED
  BY <1>1, <1>2, <1>3, <1>4, <1>5, <1>6, <1>7, <1>8, <1>9, <1>10, <1>11,
     <1>12 DEF Next

-----------------------------------------------------------------------------
(* The theorems. *)

LEMMA Invariance == Spec => []IInv
BY InitInv, InvStep, PTL DEF Spec

\* Every state of the confirmation chain is well typed, for any sets of turns,
\* confirm requests, tools and arguments.
THEOREM TypeCorrect == Spec => []TypeOK
<1>1. IInv => TypeOK
  BY DEF IInv
<1> QED
  BY Invariance, <1>1, PTL

\* One confirmation never pays for two executions of a dangerous tool
\* (consumePending's one-shot rule with ConsumeConsumedPending's read-and-clear).
THEOREM AtMostOneRun == Spec => []OncePerApproval
<1>1. IInv => OncePerApproval
  BY DEF IInv, ApprovedInv, OncePerApproval
<1> QED
  BY Invariance, <1>1, PTL

\* A dangerous call that runs was shown to the user with exactly its tool and
\* arguments, and confirmed.
THEOREM RunsWhatWasSeen == Spec => []SeenBeforeRun
<1>1. IInv => SeenBeforeRun
  BY DEF IInv, HoldersInv, Carries, Unspent, SeenBeforeRun
<1> QED
  BY Invariance, <1>1, PTL

-----------------------------------------------------------------------------
(* The refinement: SetPending asks, the consuming half of ConsumePending      *)
(* approves, Exec runs; every other step stutters.                            *)

LEMMA StepRefines == IInv /\ [Next]_vars => [Promise!Next]_(Promise!vars)
<1> SUFFICES ASSUME IInv, [Next]_vars
             PROVE  Promise!Next \/ UNCHANGED history
  BY DEF Promise!vars, history
<1>1. ASSUME NEW t \in Threads, SetPending(t) PROVE Promise!Next
  <2>1. issued' = issued + 1 /\ issued' \in Tokens /\ call[t] \in Calls
    <3>1. issued \in 0 .. MaxTokens
      BY DEF IInv, TypeOK
    <3>2. issued' = issued + 1 /\ issued < MaxTokens /\ pc[t] = "register"
      BY <1>1 DEF SetPending
    <3>3. call[t] \in Calls
      BY <3>2 DEF IInv, CallsInv
    <3> QED
      BY <3>1, <3>2, <3>3, TokenBound DEF Tokens
  <2>2. \A d \in Calls : [token |-> issued', call |-> d] \notin asked
    <3>1. issued \in Nat /\ ~(issued + 1 <= issued)
      BY TokenBound DEF IInv, TypeOK
    <3> QED
      BY <2>1, <3>1 DEF IInv, AskedInv
  <2>3. Promise!Ask(issued', call[t])
    BY <1>1, <2>2 DEF SetPending, Promise!Ask
  <2> QED
    BY <2>1, <2>3 DEF Promise!Next
<1>2. ASSUME NEW t \in Threads, ConsumePending(t)
      PROVE  Promise!Next \/ UNCHANGED history
  <2>1. CASE UNCHANGED approved
    BY <1>2, <2>1 DEF ConsumePending, history
  <2>2. ASSUME NEW p \in pending, approved' = approved \cup {p.token}
        PROVE  Promise!Next
    <3>1. /\ p.token \in Tokens /\ p.call \in Calls /\ p.token \notin approved
          /\ [token |-> p.token, call |-> p.call] \in asked
      BY DEF IInv, TypeOK, ApprovedInv
    <3>2. Promise!Approve(p.token)
      BY <1>2, <2>2, <3>1 DEF ConsumePending, Promise!Approve
    <3> QED
      BY <3>1, <3>2 DEF Promise!Next
  <2> QED
    BY <1>2, <2>1, <2>2 DEF ConsumePending
<1>3. ASSUME NEW t \in Threads, Exec(t) PROVE Promise!Next
  <2>1. Unspent(tok[t], call[t]) /\ call[t] \in Calls
    BY <1>3 DEF IInv, HoldersInv, CallsInv, Carries, Exec
  <2>2. tok[t] \in Tokens /\ [token |-> tok[t], call |-> call[t]] \in asked
    BY <2>1 DEF IInv, TypeOK, SlotsInv, Unspent
  <2>3. runs' = [runs EXCEPT ![tok[t]] = 1]
    BY <1>3, <2>1 DEF Exec, Unspent
  <2>4. Promise!Run(tok[t], call[t])
    BY <1>3, <2>1, <2>2, <2>3 DEF Exec, Unspent, Promise!Run
  <2> QED
    BY <2>1, <2>2, <2>4 DEF Promise!Next
<1>4. ASSUME NEW t \in Threads,
             \/ \E r \in Roles : \/ \E c \in Calls : ModelCalls(t, c, r)
                                 \/ \E card \in cards : UserConfirms(t, card, r)
             \/ MarkConsumed(t) \/ Gate(t) \/ Claim(t)
             \/ SetLastConfirm(t) \/ Decorate(t)
      PROVE  UNCHANGED history
  BY <1>4 DEF ModelCalls, UserConfirms, MarkConsumed, Gate, Claim, SetLastConfirm,
              Decorate, history
<1>5. CASE Expire \/ UNCHANGED vars
  BY <1>5 DEF Expire, vars, history
<1> QED
  BY <1>1, <1>2, <1>3, <1>4, <1>5 DEF Next

\* The chain keeps the promise of ConfirmOnce: asked, approved, then run once
\* and as it was asked.
THEOREM Refinement == Spec => ImplementsConfirmOnce
<1>1. Init => Promise!Init
  BY DEF Init, Promise!Init
<1> QED
  BY Invariance, StepRefines, <1>1, PTL DEF Spec, Promise!Spec, ImplementsConfirmOnce
=============================================================================
