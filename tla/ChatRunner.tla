---------------------------- MODULE ChatRunner ----------------------------
(***************************************************************************)
(* Chat turns (internal/agent/runner.go, session.go, engine_eino.go and    *)
(* the handler AIChat) and the coding tasks delegated from a session       *)
(* (tools/delegate.go).                                                    *)
(*                                                                         *)
(* A turn is the request's goroutine (pc), which takes a slot of the gate, *)
(* appends the user's message, starts the backend and then copies events   *)
(* to the client; the backend's goroutine (eng), which produces events and *)
(* appends the answer; and the forwarder between the two (fw), which gives *)
(* the slot back.  A delegated task (dt) outlives the turn and appends its *)
(* result to the session.  Each action is one critical section of the      *)
(* session store, the gate or the table of tasks, or one event handed on.  *)
(* Events have no contents; the 64 places of the channels only delay and   *)
(* are left out.                                                           *)
(***************************************************************************)
EXTENDS Integers, FiniteSets, Sequences

CONSTANTS
  Turns,               \* requests to chat
  Sessions,
  MaxConcurrentChats,
  maxMsgs,             \* SessionStore.maxRounds * 2
  histMax,             \* the threshold that Run passes to Compact
  maxDelegateTasks,
  Past,                \* tasks delegated earlier; the last of them are still recorded
  New,                 \* bound on the tasks delegated during the behaviour
  MaxEvents            \* bound on the events of a turn before its last one

Old == 1 .. Past
Fresh == Past + 1 .. Past + New
Ids == Old \cup Fresh
Messages == [role : {"user", "assistant", "system"}, by : Turns \cup Ids \cup {0}]

ASSUME BoundsPositive ==
  /\ MaxConcurrentChats \in Nat \ {0}
  /\ maxMsgs \in Nat \ {0} /\ histMax \in Nat
  /\ maxDelegateTasks \in Nat \ {0} /\ Past \in Nat /\ New \in Nat
  /\ MaxEvents \in Nat
ASSUME ThresholdCoversCap == histMax >= 2 /\ histMax >= maxMsgs  \* 40 and 20 * 2
ASSUME TurnsFinite == IsFiniteSet(Turns)
ASSUME TurnsAreNotTasks == Turns \cap Ids = {}
ASSUME TwoDigits == Past + New < 100  \* what Key covers

VARIABLES
  free,   \* what is left of Runner.gate
  pc,     \* where the request is
  eng,    \* where the backend's goroutine is
  fw,     \* where the forwarder is
  sent,   \* events a turn has produced
  sess,   \* the session of a turn or of a task
  store,  \* sessions: in SessionStore with LastAt within the TTL or beyond it, or deleted
  msgs,   \* Session.Messages
  log,    \* all that was ever appended to a session
  dt,     \* where the goroutine of a delegated task is
  tasks   \* ids in delegateTasks.tasks

vars == <<free, pc, eng, fw, sent, sess, store, msgs, log, dt, tasks>>
turns == <<free, pc, eng, fw, sent>>
history == <<store, msgs, log>>
table == <<dt, tasks>>

Init ==
  /\ free = MaxConcurrentChats
  /\ pc = [t \in Turns |-> "idle"]
  /\ eng = [t \in Turns |-> "off"]
  /\ fw = [t \in Turns |-> "off"]
  /\ sent = [t \in Turns |-> 0]
  /\ sess \in [Turns \cup Ids -> Sessions]
  /\ store = [s \in Sessions |-> "fresh"]
  /\ msgs = [s \in Sessions |-> <<>>]
  /\ log = [s \in Sessions |-> <<>>]
  /\ dt = [i \in Ids |-> IF i \in Old THEN "noted" ELSE "none"]
  /\ tasks = {i \in Old : i > Past - maxDelegateTasks}

-----------------------------------------------------------------------------
(* SessionStore *)

LastOf(s, n) == IF Len(s) > n THEN SubSeq(s, Len(s) - n + 1, Len(s)) ELSE s

(* Mutant: the cap is checked before the message is added. *)
AppendThenCut(s, m) ==
  /\ msgs' = [msgs EXCEPT ![s] = Append(LastOf(@, maxMsgs), m)]
  /\ log' = [log EXCEPT ![s] = Append(@, m)]
  /\ store' = [store EXCEPT ![s] = IF @ = "gone" THEN @ ELSE "fresh"]

(* A session that was deleted may still be written to by those that hold it. *)
AppendMsg(s, m) ==
  /\ msgs' = [msgs EXCEPT ![s] = LastOf(Append(@, m), maxMsgs)]
  /\ log' = [log EXCEPT ![s] = Append(@, m)]
  /\ store' = [store EXCEPT ![s] = IF @ = "gone" THEN @ ELSE "fresh"]

Summary == [role |-> "system", by |-> 0]

Compact(s) ==
  /\ msgs' = IF Len(msgs[s]) <= histMax THEN msgs
             ELSE [msgs EXCEPT ![s] = <<Summary>> \o LastOf(@, histMax - 2)]
  /\ UNCHANGED <<store, log>>

(* Thirty minutes pass without a message. *)
Age(s) ==
  /\ store[s] = "fresh"
  /\ store' = [store EXCEPT ![s] = "stale"]
  /\ UNCHANGED <<turns, sess, msgs, log, table>>

Janitor ==
  /\ \E s \in Sessions : store[s] = "stale"
  /\ store' = [s \in Sessions |-> IF store[s] = "stale" THEN "gone" ELSE store[s]]
  /\ UNCHANGED <<turns, sess, msgs, log, table>>

-----------------------------------------------------------------------------
(* AIChat and Runner.Run *)

Go(t, from, to) == pc[t] = from /\ pc' = [pc EXCEPT ![t] = to]

(* SessionStore.Get: an expired session is deleted, and the request ends. *)
Get(t) ==
  LET s == sess[t] IN
  /\ \/ store[s] = "fresh" /\ Go(t, "idle", "got") /\ UNCHANGED store
     \/ /\ store[s] # "fresh" /\ Go(t, "idle", "refused")
        /\ store' = [store EXCEPT ![s] = "gone"]
  /\ UNCHANGED <<free, eng, fw, sent, sess, msgs, log, table>>

(* Gate.TryAcquire, else ErrBusy. *)
TryAcquire(t) ==
  /\ \/ free > 0 /\ free' = free - 1 /\ Go(t, "got", "acquired")
     \/ free = 0 /\ Go(t, "got", "refused") /\ UNCHANGED free
  /\ UNCHANGED <<eng, fw, sent, sess, history, table>>

AppendUser(t) ==
  /\ Go(t, "acquired", "appended")
  /\ AppendMsg(sess[t], [role |-> "user", by |-> t])
  /\ UNCHANGED <<free, eng, fw, sent, sess, table>>

CompactHistory(t) ==
  /\ Go(t, "appended", "compacted")
  /\ Compact(sess[t])
  /\ UNCHANGED <<free, eng, fw, sent, sess, table>>

(* Mutant: the slot is given back by the forwarder only. *)
RefuseAndKeepSlot(t) ==
  /\ Go(t, "compacted", "refused")
  /\ UNCHANGED <<free, eng, fw, sent, sess, history, table>>

(* Engine.Run fails; the user's message stays. *)
EngineRefuses(t) ==
  /\ Go(t, "compacted", "refused")
  /\ free' = free + 1
  /\ UNCHANGED <<eng, fw, sent, sess, history, table>>

EngineRuns(t) ==
  /\ Go(t, "compacted", "on")
  /\ eng' = [eng EXCEPT ![t] = "run"]
  /\ fw' = [fw EXCEPT ![t] = "idle"]
  /\ UNCHANGED <<free, sent, sess, history, table>>

(* Sending an event to the client fails when it has gone; the request then  *)
(* cancels the turn and returns.                                           *)
Publish(t) ==
  /\ fw[t] = "holding"
  /\ Go(t, "on", "on") \/ Go(t, "on", "left")
  /\ fw' = [fw EXCEPT ![t] = "idle"]
  /\ UNCHANGED <<free, eng, sent, sess, history, table>>

(* Mutant: the request gives the slot back, too. *)
FinishedReleasing(t) ==
  /\ fw[t] = "over" /\ Go(t, "on", "done")
  /\ free' = free + 1
  /\ UNCHANGED <<eng, fw, sent, sess, history, table>>

(* The forwarder has closed the channel of events. *)
Finished(t) ==
  /\ fw[t] = "over" /\ Go(t, "on", "done")
  /\ UNCHANGED <<free, eng, fw, sent, sess, history, table>>

Request(t) ==
  \/ TryAcquire(t) \/ AppendUser(t) \/ CompactHistory(t) \/ EngineRefuses(t)
  \/ EngineRuns(t) \/ Publish(t) \/ Finished(t)

-----------------------------------------------------------------------------
(* The backend's goroutine *)

(* Cancelled by the request, or by the forwarder when it ends. *)
Cancelled(t) == pc[t] = "left" \/ fw[t] = "over"

Produce(t) ==
  /\ eng[t] = "run" /\ sent[t] < MaxEvents
  /\ eng' = [eng EXCEPT ![t] = "send"]
  /\ sent' = [sent EXCEPT ![t] = @ + 1]
  /\ UNCHANGED <<free, pc, fw, sess, history, table>>

(* The answer is appended before the closing event is sent.  When the model *)
(* fails the error is sent first, and then what there is of the answer is   *)
(* appended; an external agent that fails, and a panic, append nothing.    *)
Conclude(t) ==
  /\ eng[t] = "run"
  /\ \/ /\ AppendMsg(sess[t], [role |-> "assistant", by |-> t])
        /\ eng' = [eng EXCEPT ![t] = "last"] \/ (sent[t] > 0 /\ eng' = [eng EXCEPT ![t] = "over"])
     \/ /\ UNCHANGED history
        /\ eng' = [eng EXCEPT ![t] = "last"]
  /\ UNCHANGED <<free, pc, fw, sent, sess, table>>

AfterSend(t) == [eng EXCEPT ![t] = IF @ = "send" THEN "run" ELSE "over"]

(* emit: hand the event to the forwarder, or drop it once cancelled. *)
Emit(t) ==
  /\ eng[t] \in {"send", "last"}
  /\ eng' = AfterSend(t)
  /\ \/ fw[t] = "idle" /\ fw' = [fw EXCEPT ![t] = "holding"]
     \/ Cancelled(t) /\ UNCHANGED fw
  /\ UNCHANGED <<free, pc, sent, sess, history, table>>

-----------------------------------------------------------------------------
(* The forwarder.  Release is idempotent, and deferred once. *)

Release(t) ==
  /\ fw' = [fw EXCEPT ![t] = "over"]
  /\ free' = free + 1
  /\ UNCHANGED <<pc, eng, sent, sess, history, table>>

(* Mutant: the forwarder waits for a client that has gone. *)
ForwardOnly(t) ==
  /\ fw[t] = "idle" /\ eng[t] = "over"
  /\ Release(t)

(* The backend's channel is closed, or the context is done while an event   *)
(* waits for the client.                                                   *)
Forward(t) ==
  /\ \/ fw[t] = "idle" /\ eng[t] = "over"
     \/ fw[t] = "holding" /\ pc[t] = "left"
  /\ Release(t)

-----------------------------------------------------------------------------
(* Delegated tasks *)

(* newTask: the next id of the sequence. *)
Dispatch(i) ==
  /\ i \in Fresh /\ dt[i] = "none" /\ \A j \in Ids : j < i => dt[j] # "none"
  /\ dt' = [dt EXCEPT ![i] = "running"]
  /\ tasks' = tasks \cup {i}
  /\ UNCHANGED <<turns, sess, history>>

(* Mutant: the agent works in the context of a request. *)
SettleInContext(i) ==
  /\ dt[i] = "running" /\ \E t \in Turns : pc[t] = "on"
  /\ dt' = [dt EXCEPT ![i] = "settled"]
  /\ UNCHANGED <<turns, sess, history, tasks>>

(* The agent answers, fails or runs out of time; finish records which. *)
Settle(i) ==
  /\ dt[i] = "running"
  /\ dt' = [dt EXCEPT ![i] = "settled"]
  /\ UNCHANGED <<turns, sess, history, tasks>>

(* The place of "dtask-i" in the order of strings. *)
Key(i) == IF i < 10 THEN 11 * i ELSE 11 * (i \div 10) + (i % 10) + 1

(* Mutant: off by one. *)
ToPruneOneLess == (Cardinality(tasks) - maxDelegateTasks) \div 2

(* prune's loop deletes while i < len(tasks) - max, and each deletion makes *)
(* len(tasks) smaller: it stops half way.                                  *)
ToPrune == (Cardinality(tasks) - maxDelegateTasks + 1) \div 2

Prune(i) ==
  /\ dt[i] = "settled"
  /\ dt' = [dt EXCEPT ![i] = "pruned"]
  /\ IF Cardinality(tasks) <= maxDelegateTasks THEN UNCHANGED tasks
     ELSE \E first \in SUBSET tasks :
            /\ Cardinality(first) = ToPrune
            /\ \A x \in first, y \in tasks \ first : Key(x) < Key(y)
            /\ tasks' = tasks \ first
  /\ UNCHANGED <<turns, sess, history>>

Note(i) ==
  /\ dt[i] = "pruned"
  /\ dt' = [dt EXCEPT ![i] = "noted"]
  /\ AppendMsg(sess[i], [role |-> "user", by |-> i])
  /\ UNCHANGED <<turns, sess, tasks>>

Task(i) == Settle(i) \/ Prune(i) \/ Note(i)

-----------------------------------------------------------------------------
(* What the goroutines of requests that have a session, of backends, of     *)
(* forwarders and of delegated tasks do.  A backend concludes (a model has *)
(* ten iterations and a timeout, an agent has a timeout for the turn), and *)
(* so does the agent of a delegated task.                                  *)
Work ==
  \/ \E t \in Turns : Request(t) \/ Produce(t) \/ Conclude(t) \/ Emit(t) \/ Forward(t)
  \/ \E i \in Ids : Task(i)

Next ==
  \/ \E t \in Turns : Get(t)
  \/ \E i \in Ids : Dispatch(i)
  \/ Work
  \/ \E s \in Sessions : Age(s)
  \/ Janitor

(* While some goroutine can run, one does.  Each has finitely many steps. *)
Spec == Init /\ [][Next]_vars /\ WF_vars(Work)

-----------------------------------------------------------------------------
TypeOK ==
  /\ free \in 0 .. MaxConcurrentChats
  /\ pc \in [Turns -> {"idle", "got", "acquired", "appended", "compacted", "on", "left",
                       "done", "refused"}]
  /\ eng \in [Turns -> {"off", "run", "send", "last", "over"}]
  /\ fw \in [Turns -> {"off", "idle", "holding", "over"}]
  /\ sent \in [Turns -> 0 .. MaxEvents]
  /\ sess \in [Turns \cup Ids -> Sessions]
  /\ store \in [Sessions -> {"fresh", "stale", "gone"}]
  /\ msgs \in [Sessions -> Seq(Messages)]
  /\ log \in [Sessions -> Seq(Messages)]
  /\ dt \in [Ids -> {"none", "running", "settled", "pruned", "noted"}]
  /\ tasks \subseteq Ids

Holds(t) == pc[t] \in {"acquired", "appended", "compacted"} \/ fw[t] \in {"idle", "holding"}

(* runner.go, Run: the slots of the gate are free or held by turns, and a   *)
(* backend works without a slot only after its client has gone, whatever   *)
(* the order in which request, backend and forwarder end.                  *)
SlotsAccounted ==
  /\ free + Cardinality({t \in Turns : Holds(t)}) = MaxConcurrentChats
  /\ \A t \in Turns : eng[t] \in {"run", "send", "last"} => Holds(t) \/ pc[t] = "left"

(* session.go: what a session shows is the latest of all that was appended  *)
(* by turns, answers and notes in any order.  Compact's placeholder never  *)
(* appears, because Append has cut the history to Compact's threshold.     *)
KeepsLatest == \A s \in Sessions : msgs[s] = LastOf(log[s], maxMsgs)

(* delegate.go, prune: the table exceeds its bound by no more than the      *)
(* tasks whose goroutine has yet to prune, although each prune deletes     *)
(* only half of what is too much.                                          *)
TableBounded ==
  Cardinality(tasks) <= maxDelegateTasks + Cardinality({i \in Ids : dt[i] \in {"running", "settled"}})

(* runner.go, Run: every slot is given back, when the client has gone and   *)
(* nobody takes the events any more, too.                                  *)
SlotReturned == \A t \in Turns : Holds(t) ~> ~Holds(t)

(* delegate.go, delegateIn: a delegated task ends with its result in the    *)
(* session, whatever becomes of the turn, the request and the record.      *)
NoteArrives ==
  \A i \in Fresh : dt[i] = "running" ~>
    \E k \in 1 .. Len(log[sess[i]]) : log[sess[i]][k] = [role |-> "user", by |-> i]

=============================================================================
