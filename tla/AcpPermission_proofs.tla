------------------------ MODULE AcpPermission_proofs ------------------------
(***************************************************************************)
(* Proofs about AcpPermission for any agents, requests, ids and clicks.    *)
(***************************************************************************)
EXTENDS AcpPermission, TLAPS

Waiting == {"show", "emit", "wait"}

\* A request is known from the moment it is asked, and an entry is a request
\* under its own id whose handler has not finished.
RegInv ==
  /\ \A r \in Requests : pc[r] = "unsent" <=> req[r] = None
  /\ \A r \in shown : req[r] # None
  /\ \A i \in Ids : items[i] # None =>
       /\ req[items[i]] # None
       /\ req[items[i]].id = i
       /\ pc[items[i]] \in Waiting \cup {"expired", "dead"}

\* What a call holds: an item with the card's id that offers the option; and
\* once it has removed that item nobody finds the item again.
ClickInv ==
  \A c \in Clicks : click[c] # None =>
    /\ req[click[c].card] # None
    /\ req[click[c].item] # None
    /\ pc[click[c].item] \notin {"unsent", "decide", "decided"}
    /\ req[click[c].item].id = req[click[c].card].id
    /\ Valid(click[c].option, click[c].item)
    /\ click[c].at \in {"send", "ok"} => items[req[click[c].item].id] # click[c].item

\* What is in a channel is an accepted answer, and an accepted answer stays
\* there while the handler waits.
ChanInv ==
  /\ \A r \in Requests : ch[r] # None =>
       \E c \in Clicks : Accepted(c, r) /\ click[c].option = ch[r]
  /\ AnswerKept

\* A handler that waits can be answered.
WaitInv ==
  \A r \in Requests : pc[r] \in Waiting =>
    \/ items[req[r].id] = r
    \/ \E c \in Clicks : click[c] # None /\ click[c].item = r /\ click[c].at \in {"send", "ok"}
    \/ ~AloneWithId(r)

\* Where an answer came from.
ToldInv ==
  \A r \in Requests : told[r] # None =>
    /\ pc[r] \in {"decided", "answered", "timedout"}
    /\ told[r] \in Options =>
         \/ pc[r] = "decided" /\ told[r] \in Automatic(r)
         \/ \E c \in Clicks : Accepted(c, r) /\ click[c].option = told[r]

IInv == TypeOK /\ RegInv /\ ClickInv /\ ChanInv /\ WaitInv /\ ToldInv

\* Every step keeps the types.
LEMMA TypeStep == IInv /\ [Next]_vars => TypeOK'
<1> SUFFICES ASSUME IInv, [Next]_vars PROVE TypeOK'
  OBVIOUS
<1> USE NoneIsNew, MessagesAreRequests, OptionsHaveKinds
<1>1. ASSUME NEW r \in Requests, NEW m \in Messages, Ask(r, m) PROVE TypeOK'
  BY <1>1 DEF Ask, IInv, TypeOK, RequestRec, ClickRec, Choices
<1>2. ASSUME NEW r \in Requests, AutoDecide(r) PROVE TypeOK'
  <2>1. Automatic(r) \subseteq Options
    BY <1>2 DEF AutoDecide, IInv, RegInv, Automatic, TypeOK, RequestRec
  <2> QED
    BY <1>2, <2>1 DEF AutoDecide, Respond, Others, IInv, TypeOK, Choices
<1>3. ASSUME NEW r \in Requests, Add(r) PROVE TypeOK'
  BY <1>3 DEF Add, Others, IInv, TypeOK, RequestRec, ClickRec, Choices
<1>4. ASSUME NEW r \in Requests, ReadSink(r) PROVE TypeOK'
  BY <1>4 DEF ReadSink, Others, IInv, TypeOK, RequestRec, ClickRec, Choices
<1>5. ASSUME NEW r \in Requests, ShowCard(r) PROVE TypeOK'
  BY <1>5 DEF ShowCard, Others, IInv, TypeOK, RequestRec, ClickRec, Choices
<1>6. ASSUME NEW r \in Requests, DropCard(r) PROVE TypeOK'
  BY <1>6 DEF DropCard, Others, IInv, TypeOK, RequestRec, ClickRec, Choices
<1>7. ASSUME NEW r \in Requests, SendOnClosed(r) PROVE TypeOK'
  BY <1>7 DEF SendOnClosed, Others, IInv, TypeOK, RequestRec, ClickRec, Choices
<1>8. ASSUME NEW r \in Requests, Take(r) PROVE TypeOK'
  BY <1>8 DEF Take, Respond, Others, IInv, TypeOK, RequestRec, ClickRec, Choices
<1>9. ASSUME NEW r \in Requests, Timeout(r) PROVE TypeOK'
  BY <1>9 DEF Timeout, Others, IInv, TypeOK, RequestRec, ClickRec, Choices
<1>10. ASSUME NEW r \in Requests, Expire(r) PROVE TypeOK'
  BY <1>10 DEF Expire, Remove, Respond, Others, IInv, TypeOK, RequestRec, ClickRec, Choices
<1>11. ASSUME NEW c \in Clicks, NEW r \in Requests, NEW o \in Choices, Get(c, r, o) PROVE TypeOK'
  <2>1. req[r] # None /\ req[r].id \in Ids
    BY <1>11 DEF Get, IInv, RegInv, TypeOK, RequestRec
  <2>2. click' \in [Clicks -> ClickRec \cup {None}]
    BY <1>11, <2>1 DEF Get, Registered, IInv, TypeOK, ClickRec
  <2> QED
    BY <1>11, <2>2 DEF Get, IInv, TypeOK
<1>12. ASSUME NEW c \in Clicks, RemoveClicked(c) PROVE TypeOK'
  <2>1. items' \in [Ids -> Requests \cup {None}]
    BY <1>12 DEF RemoveClicked, Remove, IInv, TypeOK
  <2>2. click' \in [Clicks -> ClickRec \cup {None}]
    BY <1>12 DEF RemoveClicked, IInv, TypeOK, ClickRec
  <2> QED
    BY <1>12, <2>1, <2>2 DEF RemoveClicked, Calls, IInv, TypeOK
<1>13. ASSUME NEW c \in Clicks, Send(c) PROVE TypeOK'
  BY <1>13 DEF Send, Calls, IInv, TypeOK, RequestRec, ClickRec, Choices
<1>14. ASSUME NEW a \in Agents, EndTurn(a) PROVE TypeOK'
  BY <1>14 DEF EndTurn, IInv, TypeOK, RequestRec, ClickRec, Choices
<1>15. ASSUME UNCHANGED vars PROVE TypeOK'
  BY <1>15 DEF vars, IInv, TypeOK, RequestRec, ClickRec, Choices
<1> QED
    BY <1>1, <1>2, <1>3, <1>4, <1>5, <1>6, <1>7, <1>8, <1>9, <1>10, <1>11, <1>12, <1>13,
     <1>14, <1>15 DEF Next, Handle, RespondPermission

\* Registering, removing and expiring keep the entries right.
LEMMA RegStep == IInv /\ TypeOK' /\ [Next]_vars => RegInv'
<1> SUFFICES ASSUME IInv, TypeOK', [Next]_vars PROVE RegInv'
  OBVIOUS
<1> USE NoneIsNew, MessagesAreRequests
<1>1. ASSUME NEW r \in Requests, NEW m \in Messages, Ask(r, m) PROVE RegInv'
    BY <1>1 DEF Ask, IInv, RegInv, ClickInv, ChanInv, Accepted, Waiting, TypeOK,
     RequestRec, ClickRec, Choices
<1>2. ASSUME NEW r \in Requests, AutoDecide(r) PROVE RegInv'
    BY <1>2 DEF AutoDecide, Respond, Others, IInv, RegInv, ClickInv, ChanInv, Accepted,
     Waiting, TypeOK, RequestRec, ClickRec, Choices
<1>3. ASSUME NEW r \in Requests, Add(r) PROVE RegInv'
    BY <1>3 DEF Add, Others, IInv, RegInv, ClickInv, ChanInv, Accepted, Waiting, TypeOK,
     RequestRec, ClickRec, Choices
<1>4. ASSUME NEW r \in Requests, ReadSink(r) PROVE RegInv'
    BY <1>4 DEF ReadSink, Others, IInv, RegInv, ClickInv, ChanInv, Accepted, Waiting,
     TypeOK, RequestRec, ClickRec, Choices
<1>5. ASSUME NEW r \in Requests, ShowCard(r) PROVE RegInv'
    BY <1>5 DEF ShowCard, Others, IInv, RegInv, ClickInv, ChanInv, Accepted, Waiting,
     TypeOK, RequestRec, ClickRec, Choices
<1>6. ASSUME NEW r \in Requests, DropCard(r) PROVE RegInv'
    BY <1>6 DEF DropCard, Others, IInv, RegInv, ClickInv, ChanInv, Accepted, Waiting,
     TypeOK, RequestRec, ClickRec, Choices
<1>7. ASSUME NEW r \in Requests, SendOnClosed(r) PROVE RegInv'
    BY <1>7 DEF SendOnClosed, Others, IInv, RegInv, ClickInv, ChanInv, Accepted, Waiting,
     TypeOK, RequestRec, ClickRec, Choices
<1>8. ASSUME NEW r \in Requests, Take(r) PROVE RegInv'
    BY <1>8 DEF Take, Respond, Others, IInv, RegInv, ClickInv, ChanInv, Accepted, Waiting,
     TypeOK, RequestRec, ClickRec, Choices
<1>9. ASSUME NEW r \in Requests, Timeout(r) PROVE RegInv'
    BY <1>9 DEF Timeout, Others, IInv, RegInv, ClickInv, ChanInv, Accepted, Waiting,
     TypeOK, RequestRec, ClickRec, Choices
<1>10. ASSUME NEW r \in Requests, Expire(r) PROVE RegInv'
    BY <1>10 DEF Expire, Remove, Respond, Others, IInv, RegInv, ClickInv, ChanInv,
     Accepted, Waiting, TypeOK, RequestRec, ClickRec, Choices
<1>11. ASSUME NEW c \in Clicks, NEW r \in Requests, NEW o \in Choices, Get(c, r, o) PROVE RegInv'
    BY <1>11 DEF Get, Valid, Registered, IInv, RegInv, ClickInv, ChanInv, Accepted,
     Waiting, TypeOK, RequestRec, ClickRec, Choices
<1>12. ASSUME NEW c \in Clicks, RemoveClicked(c) PROVE RegInv'
    BY <1>12 DEF RemoveClicked, Remove, Calls, IInv, RegInv, ClickInv, ChanInv, Accepted,
     Waiting, TypeOK, RequestRec, ClickRec, Choices
<1>13. ASSUME NEW c \in Clicks, Send(c) PROVE RegInv'
    BY <1>13 DEF Send, Calls, IInv, RegInv, ClickInv, ChanInv, Accepted, Waiting, TypeOK,
     RequestRec, ClickRec, Choices
<1>14. ASSUME NEW a \in Agents, EndTurn(a) PROVE RegInv'
    BY <1>14 DEF EndTurn, IInv, RegInv, ClickInv, ChanInv, Accepted, Waiting, TypeOK,
     RequestRec, ClickRec, Choices
<1>15. ASSUME UNCHANGED vars PROVE RegInv'
    BY <1>15 DEF vars, IInv, RegInv, ClickInv, ChanInv, Accepted, Waiting, TypeOK,
     RequestRec, ClickRec, Choices
<1> QED
    BY <1>1, <1>2, <1>3, <1>4, <1>5, <1>6, <1>7, <1>8, <1>9, <1>10, <1>11, <1>12, <1>13,
     <1>14, <1>15 DEF Next, Handle, RespondPermission

\* A call keeps what get found, and a removed item is never found again.
LEMMA ClickStep == IInv /\ TypeOK' /\ [Next]_vars => ClickInv'
<1> SUFFICES ASSUME IInv, TypeOK', [Next]_vars PROVE ClickInv'
  OBVIOUS
<1> USE NoneIsNew, MessagesAreRequests
<1>1. ASSUME NEW r \in Requests, NEW m \in Messages, Ask(r, m) PROVE ClickInv'
    BY <1>1 DEF Ask, IInv, RegInv, ClickInv, Valid, Waiting, TypeOK, RequestRec, ClickRec,
     Choices
<1>2. ASSUME NEW r \in Requests, AutoDecide(r) PROVE ClickInv'
    BY <1>2 DEF AutoDecide, Respond, Others, IInv, RegInv, ClickInv, Valid, Waiting,
     TypeOK, RequestRec, ClickRec, Choices
<1>3. ASSUME NEW r \in Requests, Add(r) PROVE ClickInv'
    BY <1>3 DEF Add, Others, IInv, RegInv, ClickInv, Valid, Waiting, TypeOK, RequestRec,
     ClickRec, Choices
<1>4. ASSUME NEW r \in Requests, ReadSink(r) PROVE ClickInv'
    BY <1>4 DEF ReadSink, Others, IInv, RegInv, ClickInv, Valid, Waiting, TypeOK,
     RequestRec, ClickRec, Choices
<1>5. ASSUME NEW r \in Requests, ShowCard(r) PROVE ClickInv'
    BY <1>5 DEF ShowCard, Others, IInv, RegInv, ClickInv, Valid, Waiting, TypeOK,
     RequestRec, ClickRec, Choices
<1>6. ASSUME NEW r \in Requests, DropCard(r) PROVE ClickInv'
    BY <1>6 DEF DropCard, Others, IInv, RegInv, ClickInv, Valid, Waiting, TypeOK,
     RequestRec, ClickRec, Choices
<1>7. ASSUME NEW r \in Requests, SendOnClosed(r) PROVE ClickInv'
    BY <1>7 DEF SendOnClosed, Others, IInv, RegInv, ClickInv, Valid, Waiting, TypeOK,
     RequestRec, ClickRec, Choices
<1>8. ASSUME NEW r \in Requests, Take(r) PROVE ClickInv'
    BY <1>8 DEF Take, Respond, Others, IInv, RegInv, ClickInv, Valid, Waiting, TypeOK,
     RequestRec, ClickRec, Choices
<1>9. ASSUME NEW r \in Requests, Timeout(r) PROVE ClickInv'
    BY <1>9 DEF Timeout, Others, IInv, RegInv, ClickInv, Valid, Waiting, TypeOK,
     RequestRec, ClickRec, Choices
<1>10. ASSUME NEW r \in Requests, Expire(r) PROVE ClickInv'
    BY <1>10 DEF Expire, Remove, Respond, Others, IInv, RegInv, ClickInv, Valid, Waiting,
     TypeOK, RequestRec, ClickRec, Choices
<1>11. ASSUME NEW c \in Clicks, NEW r \in Requests, NEW o \in Choices, Get(c, r, o) PROVE ClickInv'
    BY <1>11 DEF Get, Valid, Registered, IInv, RegInv, ClickInv, Valid, Waiting, TypeOK,
     RequestRec, ClickRec, Choices
<1>12. ASSUME NEW c \in Clicks, RemoveClicked(c) PROVE ClickInv'
    BY <1>12 DEF RemoveClicked, Remove, Calls, IInv, RegInv, ClickInv, Valid, Waiting,
     TypeOK, RequestRec, ClickRec, Choices
<1>13. ASSUME NEW c \in Clicks, Send(c) PROVE ClickInv'
  <2>1. ASSUME NEW d \in Clicks, click'[d] # None
        PROVE  /\ click[d] # None
               /\ click'[d].card = click[d].card /\ click'[d].option = click[d].option
               /\ click'[d].item = click[d].item
               /\ click'[d].at = IF d = c THEN "ok" ELSE click[d].at
               /\ click[c].at = "send"
    BY <1>13, <2>1 DEF Send, Calls, IInv, TypeOK, ClickRec
  <2>2. UNCHANGED <<req, pc, items>>
    BY <1>13 DEF Send, Calls
  <2> QED
    BY <2>1, <2>2 DEF IInv, ClickInv, Valid
<1>14. ASSUME NEW a \in Agents, EndTurn(a) PROVE ClickInv'
    BY <1>14 DEF EndTurn, IInv, RegInv, ClickInv, Valid, Waiting, TypeOK, RequestRec,
     ClickRec, Choices
<1>15. ASSUME UNCHANGED vars PROVE ClickInv'
    BY <1>15 DEF vars, IInv, RegInv, ClickInv, Valid, Waiting, TypeOK, RequestRec,
     ClickRec, Choices
<1> QED
    BY <1>1, <1>2, <1>3, <1>4, <1>5, <1>6, <1>7, <1>8, <1>9, <1>10, <1>11, <1>12, <1>13,
     <1>14, <1>15 DEF Next, Handle, RespondPermission

\* An answer enters a channel by an accepted call, and leaves it only to a
\* handler that stops waiting.
LEMMA ChanStep == IInv /\ TypeOK' /\ [Next]_vars => ChanInv'
<1> SUFFICES ASSUME IInv, TypeOK', [Next]_vars PROVE ChanInv'
  OBVIOUS
<1> USE NoneIsNew, MessagesAreRequests
<1>1. ASSUME NEW r \in Requests, NEW m \in Messages, Ask(r, m) PROVE ChanInv'
    BY <1>1 DEF Ask, IInv, RegInv, ClickInv, ChanInv, AnswerKept, Accepted, Waiting,
     TypeOK, RequestRec, ClickRec, Choices
<1>2. ASSUME NEW r \in Requests, AutoDecide(r) PROVE ChanInv'
    BY <1>2 DEF AutoDecide, Respond, Others, IInv, RegInv, ClickInv, ChanInv, AnswerKept,
     Accepted, Waiting, TypeOK, RequestRec, ClickRec, Choices
<1>3. ASSUME NEW r \in Requests, Add(r) PROVE ChanInv'
    BY <1>3 DEF Add, Others, IInv, RegInv, ClickInv, ChanInv, AnswerKept, Accepted,
     Waiting, TypeOK, RequestRec, ClickRec, Choices
<1>4. ASSUME NEW r \in Requests, ReadSink(r) PROVE ChanInv'
    BY <1>4 DEF ReadSink, Others, IInv, RegInv, ClickInv, ChanInv, AnswerKept, Accepted,
     Waiting, TypeOK, RequestRec, ClickRec, Choices
<1>5. ASSUME NEW r \in Requests, ShowCard(r) PROVE ChanInv'
    BY <1>5 DEF ShowCard, Others, IInv, RegInv, ClickInv, ChanInv, AnswerKept, Accepted,
     Waiting, TypeOK, RequestRec, ClickRec, Choices
<1>6. ASSUME NEW r \in Requests, DropCard(r) PROVE ChanInv'
    BY <1>6 DEF DropCard, Others, IInv, RegInv, ClickInv, ChanInv, AnswerKept, Accepted,
     Waiting, TypeOK, RequestRec, ClickRec, Choices
<1>7. ASSUME NEW r \in Requests, SendOnClosed(r) PROVE ChanInv'
    BY <1>7 DEF SendOnClosed, Others, IInv, RegInv, ClickInv, ChanInv, AnswerKept,
     Accepted, Waiting, TypeOK, RequestRec, ClickRec, Choices
<1>8. ASSUME NEW r \in Requests, Take(r) PROVE ChanInv'
    BY <1>8 DEF Take, Respond, Others, IInv, RegInv, ClickInv, ChanInv, AnswerKept,
     Accepted, Waiting, TypeOK, RequestRec, ClickRec, Choices
<1>9. ASSUME NEW r \in Requests, Timeout(r) PROVE ChanInv'
    BY <1>9 DEF Timeout, Others, IInv, RegInv, ClickInv, ChanInv, AnswerKept, Accepted,
     Waiting, TypeOK, RequestRec, ClickRec, Choices
<1>10. ASSUME NEW r \in Requests, Expire(r) PROVE ChanInv'
    BY <1>10 DEF Expire, Remove, Respond, Others, IInv, RegInv, ClickInv, ChanInv,
     AnswerKept, Accepted, Waiting, TypeOK, RequestRec, ClickRec, Choices
<1>11. ASSUME NEW c \in Clicks, NEW r \in Requests, NEW o \in Choices, Get(c, r, o) PROVE ChanInv'
  <2>1. UNCHANGED <<ch, pc>>
    BY <1>11 DEF Get
  <2>2. ASSUME NEW d \in Clicks, NEW q \in Requests
        PROVE  /\ Accepted(d, q)' <=> Accepted(d, q)
               /\ Accepted(d, q) => click'[d] = click[d]
    BY <1>11 DEF Get, Accepted, IInv, TypeOK, ClickRec
  <2> QED
    BY <2>1, <2>2 DEF IInv, ChanInv, AnswerKept
<1>12. ASSUME NEW c \in Clicks, RemoveClicked(c) PROVE ChanInv'
    BY <1>12 DEF RemoveClicked, Remove, Calls, IInv, RegInv, ClickInv, ChanInv,
     AnswerKept, Accepted, Waiting, TypeOK, RequestRec, ClickRec, Choices
<1>13. ASSUME NEW c \in Clicks, Send(c) PROVE ChanInv'
  <2>1. ASSUME NEW d \in Clicks, d # c PROVE click'[d] = click[d]
    BY <1>13, <2>1 DEF Send, Calls, IInv, TypeOK
  <2>2. /\ click[c] # None /\ click[c].at = "send" /\ click[c].item \in Requests
        /\ click[c].option # None
    BY <1>13 DEF Send, Calls, IInv, ClickInv, TypeOK, ClickRec, Choices
  <2>3. UNCHANGED pc
    BY <1>13 DEF Send, Calls
  <2>4. CASE /\ ch[click[c].item] = None
             /\ ch' = [ch EXCEPT ![click[c].item] = click[c].option]
             /\ click' = [click EXCEPT ![c].at = "ok"]
    <3>0. /\ click'[c] # None /\ click'[c].at = "ok" /\ click'[c].item = click[c].item
          /\ click'[c].option = click[c].option
      BY <2>2, <2>4 DEF IInv, TypeOK, ClickRec
    <3>1. ASSUME NEW q \in Requests, ch'[q] # None
          PROVE  \E d \in Clicks : Accepted(d, q)' /\ click'[d].option = ch'[q]
      <4>1. CASE q = click[c].item
        BY <2>2, <2>4, <3>0, <4>1 DEF Accepted, IInv, TypeOK
      <4>2. CASE q # click[c].item
        BY <2>1, <2>2, <2>4, <3>1, <4>2 DEF IInv, ChanInv, Accepted, TypeOK
      <4> QED
        BY <4>1, <4>2
    <3>2. ASSUME NEW d \in Clicks, NEW q \in Requests, Accepted(d, q)', pc[q] \in Waiting
          PROVE  ch'[q] = click'[d].option
      <4>1. CASE d = c
        BY <2>2, <2>4, <3>0, <3>2, <4>1 DEF Accepted, IInv, TypeOK
      <4>2. CASE d # c
        <5>1. Accepted(d, q) /\ click'[d] = click[d]
          BY <2>1, <3>2, <4>2 DEF Accepted
        <5>2. ch[q] = click[d].option /\ click[d].option # None
                    BY <3>2, <5>1 DEF IInv, ChanInv, AnswerKept, Accepted, Waiting,
             TypeOK, ClickRec, Choices
        <5> QED
          BY <2>2, <2>4, <5>1, <5>2 DEF IInv, TypeOK
      <4> QED
        BY <4>1, <4>2
    <3> QED
      BY <2>3, <3>1, <3>2 DEF ChanInv, AnswerKept, Waiting
  <2>5. CASE UNCHANGED ch /\ click' = [click EXCEPT ![c] = None]
    <3>1. ASSUME NEW d \in Clicks, NEW q \in Requests
          PROVE  /\ Accepted(d, q)' <=> Accepted(d, q)
                 /\ Accepted(d, q) => click'[d] = click[d]
      BY <2>2, <2>5 DEF Accepted, IInv, TypeOK, ClickRec
    <3> QED
      BY <2>3, <2>5, <3>1 DEF IInv, ChanInv, AnswerKept
  <2> QED
    BY <1>13, <2>4, <2>5 DEF Send
<1>14. ASSUME NEW a \in Agents, EndTurn(a) PROVE ChanInv'
    BY <1>14 DEF EndTurn, IInv, RegInv, ClickInv, ChanInv, AnswerKept, Accepted, Waiting,
     TypeOK, RequestRec, ClickRec, Choices
<1>15. ASSUME UNCHANGED vars PROVE ChanInv'
    BY <1>15 DEF vars, IInv, RegInv, ClickInv, ChanInv, AnswerKept, Accepted, Waiting,
     TypeOK, RequestRec, ClickRec, Choices
<1> QED
    BY <1>1, <1>2, <1>3, <1>4, <1>5, <1>6, <1>7, <1>8, <1>9, <1>10, <1>11, <1>12, <1>13,
     <1>14, <1>15 DEF Next, Handle, RespondPermission

\* A request that leaves the registry has its answer on the way.
LEMMA WaitStep == IInv /\ TypeOK' /\ [Next]_vars => WaitInv'
<1> SUFFICES ASSUME IInv, TypeOK', [Next]_vars PROVE WaitInv'
  OBVIOUS
<1> USE NoneIsNew, MessagesAreRequests
<1>1. ASSUME NEW r \in Requests, NEW m \in Messages, Ask(r, m) PROVE WaitInv'
  <2>1. ASSUME NEW q \in Requests, pc'[q] \in Waiting
        PROVE  pc[q] \in Waiting /\ req'[q] = req[q] /\ req[q] # None
    BY <1>1, <2>1 DEF Ask, IInv, RegInv, TypeOK, Waiting
  <2>2. ASSUME NEW q \in Requests, req[q] # None PROVE req'[q] = req[q]
    BY <1>1, <2>2 DEF Ask, IInv, RegInv, TypeOK
  <2>3. UNCHANGED <<items, click>>
    BY <1>1 DEF Ask
  <2> QED
    BY <2>1, <2>2, <2>3 DEF IInv, WaitInv, AloneWithId
<1>2. ASSUME NEW r \in Requests, AutoDecide(r) PROVE WaitInv'
    BY <1>2 DEF AutoDecide, Respond, Others, IInv, RegInv, ClickInv, ChanInv, WaitInv,
     AloneWithId, Accepted, Waiting, TypeOK, RequestRec, ClickRec, Choices
<1>3. ASSUME NEW r \in Requests, Add(r) PROVE WaitInv'
    BY <1>3 DEF Add, Others, IInv, RegInv, ClickInv, ChanInv, WaitInv, AloneWithId,
     Accepted, Waiting, TypeOK, RequestRec, ClickRec, Choices
<1>4. ASSUME NEW r \in Requests, ReadSink(r) PROVE WaitInv'
    BY <1>4 DEF ReadSink, Others, IInv, RegInv, ClickInv, ChanInv, WaitInv, AloneWithId,
     Accepted, Waiting, TypeOK, RequestRec, ClickRec, Choices
<1>5. ASSUME NEW r \in Requests, ShowCard(r) PROVE WaitInv'
    BY <1>5 DEF ShowCard, Others, IInv, RegInv, ClickInv, ChanInv, WaitInv, AloneWithId,
     Accepted, Waiting, TypeOK, RequestRec, ClickRec, Choices
<1>6. ASSUME NEW r \in Requests, DropCard(r) PROVE WaitInv'
    BY <1>6 DEF DropCard, Others, IInv, RegInv, ClickInv, ChanInv, WaitInv, AloneWithId,
     Accepted, Waiting, TypeOK, RequestRec, ClickRec, Choices
<1>7. ASSUME NEW r \in Requests, SendOnClosed(r) PROVE WaitInv'
    BY <1>7 DEF SendOnClosed, Others, IInv, RegInv, ClickInv, ChanInv, WaitInv,
     AloneWithId, Accepted, Waiting, TypeOK, RequestRec, ClickRec, Choices
<1>8. ASSUME NEW r \in Requests, Take(r) PROVE WaitInv'
    BY <1>8 DEF Take, Respond, Others, IInv, RegInv, ClickInv, ChanInv, WaitInv,
     AloneWithId, Accepted, Waiting, TypeOK, RequestRec, ClickRec, Choices
<1>9. ASSUME NEW r \in Requests, Timeout(r) PROVE WaitInv'
    BY <1>9 DEF Timeout, Others, IInv, RegInv, ClickInv, ChanInv, WaitInv, AloneWithId,
     Accepted, Waiting, TypeOK, RequestRec, ClickRec, Choices
<1>10. ASSUME NEW r \in Requests, Expire(r) PROVE WaitInv'
    BY <1>10 DEF Expire, Remove, Respond, Others, IInv, RegInv, ClickInv, ChanInv,
     WaitInv, AloneWithId, Accepted, Waiting, TypeOK, RequestRec, ClickRec, Choices
<1>11. ASSUME NEW c \in Clicks, NEW r \in Requests, NEW o \in Choices, Get(c, r, o) PROVE WaitInv'
    BY <1>11 DEF Get, Valid, Registered, IInv, RegInv, ClickInv, ChanInv, WaitInv,
     AloneWithId, Accepted, Waiting, TypeOK, RequestRec, ClickRec, Choices
<1>12. ASSUME NEW c \in Clicks, RemoveClicked(c) PROVE WaitInv'
    BY <1>12 DEF RemoveClicked, Remove, Calls, IInv, RegInv, ClickInv, ChanInv, WaitInv,
     AloneWithId, Accepted, Waiting, TypeOK, RequestRec, ClickRec, Choices
<1>13. ASSUME NEW c \in Clicks, Send(c) PROVE WaitInv'
  <2>1. ASSUME NEW d \in Clicks, d # c PROVE click'[d] = click[d]
    BY <1>13, <2>1 DEF Send, Calls, IInv, TypeOK
  <2>2. click[c] # None /\ click[c].item \in Requests
    BY <1>13 DEF Send, Calls, IInv, ClickInv, TypeOK, ClickRec
  <2>3. UNCHANGED <<pc, items, req>>
    BY <1>13 DEF Send, Calls
  <2>4. \/ click'[c] # None /\ click'[c].item = click[c].item /\ click'[c].at = "ok"
        \/ ch[click[c].item] # None
    BY <1>13, <2>2 DEF Send, Calls, IInv, TypeOK, ClickRec
  <2>5. ch[click[c].item] # None => \E d \in Clicks : d # c /\ Accepted(d, click[c].item)
    BY <1>13, <2>2 DEF Send, IInv, ChanInv, Accepted
  <2> QED
    BY <2>1, <2>2, <2>3, <2>4, <2>5 DEF IInv, WaitInv, AloneWithId, Accepted
<1>14. ASSUME NEW a \in Agents, EndTurn(a) PROVE WaitInv'
    BY <1>14 DEF EndTurn, IInv, RegInv, ClickInv, ChanInv, WaitInv, AloneWithId, Accepted,
     Waiting, TypeOK, RequestRec, ClickRec, Choices
<1>15. ASSUME UNCHANGED vars PROVE WaitInv'
    BY <1>15 DEF vars, IInv, RegInv, ClickInv, ChanInv, WaitInv, AloneWithId, Accepted,
     Waiting, TypeOK, RequestRec, ClickRec, Choices
<1> QED
    BY <1>1, <1>2, <1>3, <1>4, <1>5, <1>6, <1>7, <1>8, <1>9, <1>10, <1>11, <1>12, <1>13,
     <1>14, <1>15 DEF Next, Handle, RespondPermission

\* Answers come from the level, from a channel or from the timer.
LEMMA ToldStep == IInv /\ TypeOK' /\ [Next]_vars => ToldInv'
<1> SUFFICES ASSUME IInv, TypeOK', [Next]_vars PROVE ToldInv'
  OBVIOUS
<1> USE NoneIsNew, MessagesAreRequests
<1>1. ASSUME NEW r \in Requests, NEW m \in Messages, Ask(r, m) PROVE ToldInv'
    BY <1>1 DEF Ask, IInv, RegInv, ClickInv, ChanInv, ToldInv, Automatic, Accepted,
     Waiting, TypeOK, RequestRec, ClickRec, Choices
<1>2. ASSUME NEW r \in Requests, AutoDecide(r) PROVE ToldInv'
    BY <1>2 DEF AutoDecide, Respond, Others, IInv, RegInv, ClickInv, ChanInv, ToldInv,
     Automatic, Accepted, Waiting, TypeOK, RequestRec, ClickRec, Choices
<1>3. ASSUME NEW r \in Requests, Add(r) PROVE ToldInv'
    BY <1>3 DEF Add, Others, IInv, RegInv, ClickInv, ChanInv, ToldInv, Automatic,
     Accepted, Waiting, TypeOK, RequestRec, ClickRec, Choices
<1>4. ASSUME NEW r \in Requests, ReadSink(r) PROVE ToldInv'
    BY <1>4 DEF ReadSink, Others, IInv, RegInv, ClickInv, ChanInv, ToldInv, Automatic,
     Accepted, Waiting, TypeOK, RequestRec, ClickRec, Choices
<1>5. ASSUME NEW r \in Requests, ShowCard(r) PROVE ToldInv'
    BY <1>5 DEF ShowCard, Others, IInv, RegInv, ClickInv, ChanInv, ToldInv, Automatic,
     Accepted, Waiting, TypeOK, RequestRec, ClickRec, Choices
<1>6. ASSUME NEW r \in Requests, DropCard(r) PROVE ToldInv'
    BY <1>6 DEF DropCard, Others, IInv, RegInv, ClickInv, ChanInv, ToldInv, Automatic,
     Accepted, Waiting, TypeOK, RequestRec, ClickRec, Choices
<1>7. ASSUME NEW r \in Requests, SendOnClosed(r) PROVE ToldInv'
    BY <1>7 DEF SendOnClosed, Others, IInv, RegInv, ClickInv, ChanInv, ToldInv, Automatic,
     Accepted, Waiting, TypeOK, RequestRec, ClickRec, Choices
<1>8. ASSUME NEW r \in Requests, Take(r) PROVE ToldInv'
    BY <1>8 DEF Take, Respond, Others, IInv, RegInv, ClickInv, ChanInv, ToldInv,
     Automatic, Accepted, Waiting, TypeOK, RequestRec, ClickRec, Choices
<1>9. ASSUME NEW r \in Requests, Timeout(r) PROVE ToldInv'
    BY <1>9 DEF Timeout, Others, IInv, RegInv, ClickInv, ChanInv, ToldInv, Automatic,
     Accepted, Waiting, TypeOK, RequestRec, ClickRec, Choices
<1>10. ASSUME NEW r \in Requests, Expire(r) PROVE ToldInv'
    BY <1>10 DEF Expire, Remove, Respond, Others, IInv, RegInv, ClickInv, ChanInv,
     ToldInv, Automatic, Accepted, Waiting, TypeOK, RequestRec, ClickRec, Choices
<1>11. ASSUME NEW c \in Clicks, NEW r \in Requests, NEW o \in Choices, Get(c, r, o) PROVE ToldInv'
    BY <1>11 DEF Get, Valid, Registered, IInv, RegInv, ClickInv, ChanInv, ToldInv,
     Automatic, Accepted, Waiting, TypeOK, RequestRec, ClickRec, Choices
<1>12. ASSUME NEW c \in Clicks, RemoveClicked(c) PROVE ToldInv'
    BY <1>12 DEF RemoveClicked, Remove, Calls, IInv, RegInv, ClickInv, ChanInv, ToldInv,
     Automatic, Accepted, Waiting, TypeOK, RequestRec, ClickRec, Choices
<1>13. ASSUME NEW c \in Clicks, Send(c) PROVE ToldInv'
    BY <1>13 DEF Send, Calls, IInv, RegInv, ClickInv, ChanInv, ToldInv, Automatic,
     Accepted, Waiting, TypeOK, RequestRec, ClickRec, Choices
<1>14. ASSUME NEW a \in Agents, EndTurn(a) PROVE ToldInv'
    BY <1>14 DEF EndTurn, IInv, RegInv, ClickInv, ChanInv, ToldInv, Automatic, Accepted,
     Waiting, TypeOK, RequestRec, ClickRec, Choices
<1>15. ASSUME UNCHANGED vars PROVE ToldInv'
    BY <1>15 DEF vars, IInv, RegInv, ClickInv, ChanInv, ToldInv, Automatic, Accepted,
     Waiting, TypeOK, RequestRec, ClickRec, Choices
<1> QED
    BY <1>1, <1>2, <1>3, <1>4, <1>5, <1>6, <1>7, <1>8, <1>9, <1>10, <1>11, <1>12, <1>13,
     <1>14, <1>15 DEF Next, Handle, RespondPermission

-----------------------------------------------------------------------------
LEMMA InitInv == Init => IInv
BY NoneIsNew DEF Init, IInv, TypeOK, RegInv, ClickInv, ChanInv, AnswerKept, WaitInv,
   ToldInv,
   Accepted, Waiting

LEMMA StepInv == IInv /\ [Next]_vars => IInv'
<1> SUFFICES ASSUME IInv, [Next]_vars PROVE IInv'
  OBVIOUS
<1>1. TypeOK'
  BY TypeStep
<1> QED
  BY <1>1, RegStep, ClickStep, ChanStep, WaitStep, ToldStep DEF IInv

THEOREM Invariance == Spec => []IInv
BY InitInv, StepInv, PTL DEF Spec

\* The state of requests, entries, channels and clicks is well typed.
THEOREM TypeCorrect == Spec => []TypeOK
<1>1. IInv => TypeOK
  BY DEF IInv
<1> QED
  BY Invariance, <1>1, PTL

\* No entry outlives its handler, and a handler that waits can be answered:
\* add, remove and respond of permission.go in any order.
THEOREM EntriesRight == Spec => []Answerable
<1>1. IInv => Answerable
  BY DEF IInv, RegInv, WaitInv, Answerable, Waiting
<1> QED
  BY Invariance, <1>1, PTL

\* The check of respond suffices although ids of agents may clash.
THEOREM NothingInvented == Spec => []OnlyOffered
<1>1. IInv => OnlyOffered
  <2> SUFFICES ASSUME IInv, NEW r \in Requests, told[r] \in Options
               PROVE  told[r] \in req[r].options
    BY DEF OnlyOffered
  <2>1. told[r] # None /\ told[r] # Cancelled
    BY NoneIsNew DEF Choices
  <2>2. CASE told[r] \in Automatic(r)
    BY <2>2 DEF Automatic
  <2>3. ASSUME NEW c \in Clicks, Accepted(c, r), click[c].option = told[r]
        PROVE  told[r] \in req[r].options
    BY <2>1, <2>3, NoneIsNew DEF IInv, ClickInv, Accepted, Valid
  <2> QED
    BY <2>1, <2>2, <2>3 DEF IInv, ToldInv
<1> QED
  BY Invariance, <1>1, PTL

\* Nothing is allowed that neither the level nor a user allowed.
THEOREM ConsentHolds == Spec => []Consent
<1>1. IInv => Consent
  <2> SUFFICES ASSUME IInv, NEW r \in Requests, told[r] \in Options, told[r] \notin Automatic(r)
               PROVE  \E c \in Clicks :
                        /\ Accepted(c, r)
                        /\ click[c].option = told[r]
                        /\ req[click[c].card].id = req[r].id
                        /\ AloneWithId(r) => click[c].card = r
    BY DEF Consent
  <2>1. PICK c \in Clicks : Accepted(c, r) /\ click[c].option = told[r]
    BY NoneIsNew DEF IInv, ToldInv, Choices
  <2>2. /\ click[c].card \in Requests /\ req[click[c].card] # None
        /\ req[click[c].card].id = req[r].id
    BY <2>1, NoneIsNew DEF IInv, TypeOK, ClickRec, ClickInv, Accepted
  <2> QED
    BY <2>1, <2>2 DEF AloneWithId
<1> QED
  BY Invariance, <1>1, PTL

\* An accepted answer is in the channel as long as the handler waits.
THEOREM AnswersStay == Spec => []AnswerKept
<1>1. IInv => AnswerKept
  BY DEF IInv, ChanInv
<1> QED
  BY Invariance, <1>1, PTL
=============================================================================
