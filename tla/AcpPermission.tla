--------------------------- MODULE AcpPermission ---------------------------
(***************************************************************************)
(* Permission requests of the agents (engine/acp/permission.go and the     *)
(* handler in acp.go).  An agent that wants to call a tool sends           *)
(* session/request_permission and waits; git-ferry decides by the          *)
(* configured level or shows a card in the chat and waits for the user's   *)
(* choice, five minutes at most.                                           *)
(*                                                                         *)
(* One registry serves all agents of an engine and is keyed by the         *)
(* JSON-RPC id, which every agent process counts on its own.  Each request *)
(* has a goroutine (pc), each RespondPermission is one too (click); both   *)
(* are cut at the registry's lock and at the request's one-place channel.  *)
(* The card goes through the sink of the turn, whose channel is closed     *)
(* when the turn is over.                                                  *)
(***************************************************************************)
EXTENDS Naturals, FiniteSets

CONSTANTS
  Agents,     \* agent processes
  Requests,   \* session/request_permission messages
  Ids,        \* JSON-RPC ids
  Options,    \* option ids
  Allow,      \* those whose kind starts with "allow"; the others start with "reject"
  Messages,   \* what a request of an agent may say
  Clicks,     \* calls of RespondPermission, each accepted once at most
  Cancelled,  \* the outcome "cancelled", and the empty option with which a user rejects
  None

RequestRec == [agent : Agents, id : Ids, options : SUBSET Options, reads : BOOLEAN]

Choices == Options \cup {Cancelled}
ClickRec == [at : {"remove", "send", "ok"}, card : Requests, option : Choices, item : Requests]

ASSUME OptionsHaveKinds == Allow \subseteq Options
ASSUME MessagesAreRequests == Messages \subseteq RequestRec
ASSUME NoneIsNew ==
  Cancelled \notin Options /\ None \notin Choices \cup Requests \cup RequestRec \cup ClickRec

VARIABLES
  permission,  \* Config.Permission
  turn,        \* agents in a turn: the sink is set and its channel open
  req,         \* what a request says
  pc,          \* where its handler is
  items,       \* permRegistry.items
  ch,          \* permItem.ch
  shown,       \* requests whose card has reached the user
  told,        \* the outcome written to the agent
  click        \* the calls of RespondPermission that are not refused

vars == <<permission, turn, req, pc, items, ch, shown, told, click>>

Levels == {"ask", "approve_reads", "approve_all", "deny"}

Init ==
  /\ permission \in Levels
  /\ turn = Agents
  /\ req = [r \in Requests |-> None]
  /\ pc = [r \in Requests |-> "unsent"]
  /\ items = [i \in Ids |-> None]
  /\ ch = [r \in Requests |-> None]
  /\ shown = {}
  /\ told = [r \in Requests |-> None]
  /\ click = [c \in Clicks |-> None]

-----------------------------------------------------------------------------
(* What every step of a handler leaves alone. *)
Others == UNCHANGED <<permission, turn, req, click>>

(* client.respond: the handler ignores whether a process was there to read  *)
(* it, and nothing here changes when a process ends.                       *)
Respond(r, outcome) == told' = [told EXCEPT ![r] = outcome]

(* permRegistry.remove: by id, whatever is registered there. *)
Remove(i) == items' = [items EXCEPT ![i] = None]

(* The agent picks an id that none of its own requests has had. *)
Ask(r, m) ==
  /\ pc[r] = "unsent"
  /\ \A q \in Requests : req[q] # None /\ req[q].agent = m.agent => req[q].id # m.id
  /\ req' = [req EXCEPT ![r] = m]
  /\ pc' = [pc EXCEPT ![r] = "decide"]
  /\ UNCHANGED <<permission, turn, items, ch, shown, told, click>>

(* What autoDecide may pick; nothing means that the user is asked. *)
Automatic(r) ==
  CASE permission = "approve_all" -> req[r].options \cap Allow
    [] permission = "deny" -> req[r].options \ Allow
    [] permission = "approve_reads" -> IF req[r].reads THEN req[r].options \cap Allow ELSE {}
    [] OTHER -> {}

AutoDecide(r) ==
  /\ pc[r] = "decide"
  /\ \E o \in Automatic(r) : Respond(r, o)
  /\ pc' = [pc EXCEPT ![r] = "decided"]
  /\ Others /\ UNCHANGED <<items, ch, shown>>

(* permRegistry.add replaces an entry that has the same id. *)
Add(r) ==
  /\ pc[r] = "decide" /\ Automatic(r) = {}
  /\ items' = [items EXCEPT ![req[r].id] = r]
  /\ pc' = [pc EXCEPT ![r] = "show"]
  /\ Others /\ UNCHANGED <<ch, shown, told>>

(* sinkEvent reads the sink under the lock and calls it after unlocking. *)
ReadSink(r) ==
  /\ pc[r] = "show"
  /\ pc' = [pc EXCEPT ![r] = IF req[r].agent \in turn THEN "emit" ELSE "wait"]
  /\ Others /\ UNCHANGED <<items, ch, shown, told>>

(* Mutant: the card is remembered by its id. *)
ShowCardById(r) ==
  /\ pc[r] = "emit" /\ req[r].agent \in turn
  /\ shown' = shown \cup {req[r].id}
  /\ pc' = [pc EXCEPT ![r] = "wait"]
  /\ Others /\ UNCHANGED <<items, ch, told>>

(* emit chooses between sending and the end of the context. *)
ShowCard(r) ==
  /\ pc[r] = "emit" /\ req[r].agent \in turn
  /\ shown' = shown \cup {r}
  /\ pc' = [pc EXCEPT ![r] = "wait"]
  /\ Others /\ UNCHANGED <<items, ch, told>>

(* Mutant: a card that nobody can see takes its request from the registry. *)
DropCardAndForget(r) ==
  /\ pc[r] = "emit" /\ req[r].agent \notin turn
  /\ pc' = [pc EXCEPT ![r] = "wait"]
  /\ Remove(req[r].id)
  /\ Others /\ UNCHANGED <<ch, shown, told>>

DropCard(r) ==
  /\ pc[r] = "emit" /\ req[r].agent \notin turn
  /\ pc' = [pc EXCEPT ![r] = "wait"]
  /\ Others /\ UNCHANGED <<items, ch, shown, told>>

(* Both branches of the select are ready once Run has closed the channel;  *)
(* sending there panics, and GoSafe ends the handler.                      *)
SendOnClosed(r) ==
  /\ pc[r] = "emit" /\ req[r].agent \notin turn
  /\ pc' = [pc EXCEPT ![r] = "dead"]
  /\ Others /\ UNCHANGED <<items, ch, shown, told>>

Take(r) ==
  /\ pc[r] = "wait" /\ ch[r] # None
  /\ ch' = [ch EXCEPT ![r] = None]
  /\ Respond(r, ch[r])
  /\ pc' = [pc EXCEPT ![r] = "answered"]
  /\ Others /\ UNCHANGED <<items, shown>>

(* Mutant: only a request that is still registered times out. *)
TimeoutIfRegistered(r) ==
  /\ pc[r] = "wait" /\ items[req[r].id] = r
  /\ pc' = [pc EXCEPT ![r] = "expired"]
  /\ Others /\ UNCHANGED <<items, ch, shown, told>>

Timeout(r) ==
  /\ pc[r] = "wait"
  /\ pc' = [pc EXCEPT ![r] = "expired"]
  /\ Others /\ UNCHANGED <<items, ch, shown, told>>

Expire(r) ==
  /\ pc[r] = "expired"
  /\ Remove(req[r].id)
  /\ Respond(r, Cancelled)
  /\ pc' = [pc EXCEPT ![r] = "timedout"]
  /\ Others /\ UNCHANGED <<ch, shown>>

Handle(r) ==
  \/ AutoDecide(r) \/ Add(r) \/ ReadSink(r) \/ ShowCard(r) \/ DropCard(r)
  \/ SendOnClosed(r) \/ Take(r) \/ Timeout(r) \/ Expire(r)

-----------------------------------------------------------------------------
(* Mutant: the option is not checked against the request. *)
ValidAlways(o, r) == TRUE

Valid(o, r) == o = Cancelled \/ o \in req[r].options

(* Mutant: one slot for whatever is pending, as with confirmations. *)
AnyRegistered(i) ==
  IF \E j \in Ids : items[j] # None
  THEN items[CHOOSE j \in Ids : items[j] # None] ELSE None

(* permRegistry.get *)
Registered(i) == items[i]

(* RespondPermission: a card stays on the page, so it may be clicked late  *)
(* and more than once.  The call carries the card's id, not its request.   *)
(* A call is refused, and changes nothing, when the id is not registered   *)
(* or the option is not one of the request found.                          *)
Get(c, r, o) ==
  LET found == Registered(req[r].id) IN
  /\ click[c] = None /\ r \in shown /\ o \in req[r].options \cup {Cancelled}
  /\ found # None /\ Valid(o, found)
  /\ click' = [click EXCEPT ![c] = [at |-> "remove", card |-> r, option |-> o, item |-> found]]
  /\ UNCHANGED <<permission, turn, req, pc, items, ch, shown, told>>

Calls == UNCHANGED <<permission, turn, req, pc, shown, told>>

RemoveClicked(c) ==
  /\ click[c] # None /\ click[c].at = "remove"
  /\ Remove(req[click[c].item].id)
  /\ click' = [click EXCEPT ![c].at = "send"]
  /\ Calls /\ UNCHANGED ch

(* Mutant: the later of two answers replaces the earlier. *)
SendReplacing(c) ==
  /\ click[c] # None /\ click[c].at = "send"
  /\ ch' = [ch EXCEPT ![click[c].item] = click[c].option]
  /\ click' = [click EXCEPT ![c].at = "ok"]
  /\ Calls /\ UNCHANGED items

(* A send that does not wait: the channel has one place, and the handler   *)
(* may have emptied it, or left, in the meantime.  If it is full the call  *)
(* is refused.                                                             *)
Send(c) ==
  /\ click[c] # None /\ click[c].at = "send"
  /\ \/ /\ ch[click[c].item] = None
        /\ ch' = [ch EXCEPT ![click[c].item] = click[c].option]
        /\ click' = [click EXCEPT ![c].at = "ok"]
     \/ /\ ch[click[c].item] # None
        /\ click' = [click EXCEPT ![c] = None]
        /\ UNCHANGED ch
  /\ Calls /\ UNCHANGED items

RespondPermission(c) == RemoveClicked(c) \/ Send(c)

-----------------------------------------------------------------------------
(* The turn is over: prompt clears the sink, and Run's goroutine cancels    *)
(* the context and closes the channel.  An agent may ask after that too.   *)
EndTurn(a) ==
  /\ a \in turn
  /\ turn' = turn \ {a}
  /\ UNCHANGED <<permission, req, pc, items, ch, shown, told, click>>

Next ==
  \/ \E r \in Requests, m \in Messages : Ask(r, m)
  \/ \E r \in Requests : Handle(r)
  \/ \E c \in Clicks, r \in Requests, o \in Choices : Get(c, r, o)
  \/ \E c \in Clicks : RespondPermission(c)
  \/ \E a \in Agents : EndTurn(a)

(* Goroutines that can run do, and timers fire.  Nobody has to click and   *)
(* no turn has to end.                                                     *)
Fairness ==
  /\ \A r \in Requests : WF_vars(Handle(r))
  /\ \A c \in Clicks : WF_vars(RespondPermission(c))

Spec == Init /\ [][Next]_vars /\ Fairness

-----------------------------------------------------------------------------
TypeOK ==
  /\ permission \in Levels
  /\ turn \subseteq Agents
  /\ req \in [Requests -> RequestRec \cup {None}]
  /\ pc \in [Requests -> {"unsent", "decide", "show", "emit", "wait", "expired",
                          "decided", "answered", "timedout", "dead"}]
  /\ items \in [Ids -> Requests \cup {None}]
  /\ ch \in [Requests -> Choices \cup {None}]
  /\ shown \subseteq Requests
  /\ told \in [Requests -> Choices \cup {None}]
  /\ click \in [Clicks -> ClickRec \cup {None}]

(* The call c was accepted and its answer put into the channel of r. *)
Accepted(c, r) == click[c] # None /\ click[c].at = "ok" /\ click[c].item = r

AloneWithId(r) == \A q \in Requests \ {r} : req[q] # None => req[q].id # req[r].id

(* permission.go: an entry belongs to a handler that has not finished (or  *)
(* that died on the closed channel of its turn), and a handler that waits  *)
(* can be answered: it is registered, or an answer is on its way, unless   *)
(* another agent has used the same id.  Registration, removal by id,       *)
(* expiry and duplicate clicks may come in any order.                      *)
Answerable ==
  /\ \A i \in Ids : items[i] # None =>
       /\ req[items[i]].id = i
       /\ pc[items[i]] \in {"show", "emit", "wait", "expired", "dead"}
  /\ \A r \in Requests : pc[r] \in {"show", "emit", "wait"} =>
       \/ items[req[r].id] = r
       \/ \E c \in Clicks : click[c] # None /\ click[c].item = r /\ click[c].at \in {"send", "ok"}
       \/ ~AloneWithId(r)

(* permission.go, respond: an agent is never told an option it did not     *)
(* offer, although the card that was clicked may be another request's with *)
(* the same id.                                                            *)
OnlyOffered == \A r \in Requests : told[r] \in Options => told[r] \in req[r].options

(* acp.go, handlePermission: what an agent may do was allowed by the       *)
(* configured level, or chosen by a user on a card with the request's id,  *)
(* which is the request's own card when no other agent has used the id.    *)
Consent ==
  \A r \in Requests : told[r] \in Options =>
    \/ told[r] \in Automatic(r)
    \/ \E c \in Clicks :
         /\ Accepted(c, r)
         /\ click[c].option = told[r]
         /\ req[click[c].card].id = req[r].id
         /\ AloneWithId(r) => click[c].card = r

(* permission.go, respond: an answer that was accepted waits in the        *)
(* channel of a handler that still waits, however often the card was       *)
(* clicked; it is lost only when the handler has ended.                    *)
AnswerKept ==
  \A c \in Clicks, r \in Requests :
    Accepted(c, r) /\ pc[r] \in {"show", "emit", "wait"} => ch[r] = click[c].option

(* acp.go, handlePermission: no agent waits for ever.  Every request is    *)
(* decided, answered or cancelled after five minutes, unless its handler   *)
(* died on the closed channel.                                             *)
EveryRequestEnds ==
  \A r \in Requests :
    pc[r] = "decide" ~> pc[r] \in {"decided", "answered", "timedout", "dead"}

(* acp.go:221: RespondPermission passes the user's choice to the agent     *)
(* that asked.  Violated: entries of two agents share one key.             *)
AnswersItsOwnCard ==
  \A r \in Requests : pc[r] = "answered" /\ told[r] \in Options =>
    \E c \in Clicks : Accepted(c, r) /\ click[c].card = r

=============================================================================
