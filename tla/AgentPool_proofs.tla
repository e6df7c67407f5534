-------------------------- MODULE AgentPool_proofs --------------------------
(***************************************************************************)
(* Proofs about AgentPool for any number of chat sessions, runs and        *)
(* processes: the state is well typed, no agent process is lost, what an   *)
(* agent says reaches the running turn of its own session, the pool        *)
(* outgrows its limit by less than the callers in Run, and it implements   *)
(* AgentTurns.                                                             *)
(***************************************************************************)
EXTENDS AgentPool, FiniteSetTheorems, TLAPS

-----------------------------------------------------------------------------
(* The inductive invariant. *)

\* A caller that has forked a process and not yet published it.
Starting(r) == cpc[r] \in {"handshake", "insert"}

\* The turn of r holds the turnMu of its process.
Holds(r) == tpc[r] \in {"prompt", "await", "finish"}

\* Which fields of a run are set, by where it is.
RunsInv ==
  \A r \in Runs :
    /\ cpc[r] = "new" => proc[r] = None
    /\ cpc[r] \in {"handshake", "insert", "touch", "begin", "end"} => proc[r] \in Procs
    /\ cpc[r] \in {"new", "handshake", "insert", "touch", "begin"} => tpc[r] = "none"
    /\ tpc[r] # "none" => proc[r] \in Procs
    /\ proc[r] # None => key[r] \in Keys

\* A process serves one session: in the map, and among the runs that use it.
KeysInv ==
  /\ \A j, k \in Keys : procs[j] = procs[k] /\ procs[j] # None => j = k
  /\ \A k \in Keys, r \in Runs : procs[k] = proc[r] /\ proc[r] # None => key[r] = k
  /\ \A r, s \in Runs : proc[r] = proc[s] /\ proc[r] # None => key[r] = key[s]

\* A process that is being started is known to its caller only.
StartInv ==
  \A r \in Runs : Starting(r) =>
    /\ \A k \in Keys : procs[k] # proc[r]
    /\ \A s \in Runs : s # r => proc[s] # proc[r]

\* turnMu and sink name the run that holds the process.
HolderInv ==
  /\ \A r \in Runs : Holds(r) => turnMu[proc[r]] = r
  /\ \A p \in Procs : sink[p] = turnMu[p]
  /\ \A p \in Procs : turnMu[p] # None => proc[turnMu[p]] = p /\ Holds(turnMu[p])

\* Where a running process can be.
LocatedInv ==
  \A p \in up : p \in closing \cup Mapped \/ \E r \in Runs : Starting(r) /\ proc[r] = p

IInv == TypeOK /\ RunsInv /\ KeysInv /\ StartInv /\ HolderInv /\ LocatedInv

-----------------------------------------------------------------------------
LEMMA InitInv == Init => IInv
<1> SUFFICES ASSUME Init PROVE IInv
  OBVIOUS
<1>1. TypeOK
  <2>1. <<>> \in Seq(Runs)
    OBVIOUS
  <2>2. prompts \in [Procs -> Seq(Runs)]
    BY <2>1 DEF Init
  <2> QED
    BY <2>2 DEF Init, TypeOK
<1>2. RunsInv /\ KeysInv /\ StartInv
  BY DEF Init, RunsInv, KeysInv, StartInv, Starting
<1>3. HolderInv /\ LocatedInv
  BY DEF Init, HolderInv, LocatedInv, Holds
<1> QED
  BY <1>1, <1>2, <1>3 DEF IInv

-----------------------------------------------------------------------------
(* Type correctness. *)

\* The part of TypeOK about the order of use.
BeforeOK ==
  /\ before \in [Procs -> SUBSET Procs]
  /\ \A p, q \in Procs : p \in before[q] => q \notin before[p]

LEMMA TouchType ==
  ASSUME TypeOK, NEW p \in Procs, Touch(p) PROVE BeforeOK'
BY DEF TypeOK, Touch, BeforeOK

LEMMA UnmapType ==
  ASSUME TypeOK, NEW P \in SUBSET Procs, Unmap(P)
  PROVE  /\ BeforeOK'
         /\ procs' \in [Keys -> Procs \cup {None}]
         /\ closing' \in SUBSET Procs
BY DEF TypeOK, Unmap, BeforeOK

LEMMA KillType ==
  ASSUME TypeOK, NEW P \in SUBSET Procs, Kill(P)
  PROVE  up' \in SUBSET Procs /\ open' \in SUBSET Procs /\ prompts' \in [Procs -> Seq(Runs)]
<1>1. <<>> \in Seq(Runs)
  OBVIOUS
<1> QED
  BY <1>1 DEF TypeOK, Kill

LEMMA MappedType == TypeOK => Mapped \subseteq Procs
BY DEF TypeOK, Mapped

LEMMA TypeStep == IInv /\ [Next]_vars => TypeOK'
<1> SUFFICES ASSUME IInv, [Next]_vars PROVE TypeOK'
  OBVIOUS
<1>0. TypeOK /\ RunsInv /\ Mapped \subseteq Procs
  BY MappedType DEF IInv
<1>1. ASSUME NEW r \in Runs, NEW k \in Keys, Lookup(r, k) PROVE TypeOK'
  <2>1. CASE procs[k] # None
    <3>1. procs[k] \in Procs
      BY <1>0, <2>1 DEF TypeOK
    <3>2. BeforeOK'
      BY <1>0, <1>1, <2>1, <3>1, TouchType DEF Lookup
    <3> QED
      BY <1>0, <1>1, <2>1, <3>1, <3>2 DEF TypeOK, BeforeOK, Lookup, Caller, shared
  <2>2. CASE procs[k] = None
    <3>1. BeforeOK' /\ procs' \in [Keys -> Procs \cup {None}] /\ closing' \in SUBSET Procs
      <4>1. CASE \E p \in Mapped : Oldest(p) /\ Unmap({p})
        BY <1>0, <4>1, UnmapType
      <4>2. CASE UNCHANGED <<procs, before, closing>>
        BY <1>0, <4>2 DEF TypeOK, BeforeOK
      <4> QED
        BY <1>1, <2>2, <4>1, <4>2 DEF Lookup
    <3>2. /\ up' \in SUBSET Procs /\ open' \in SUBSET Procs
          /\ proc' \in [Runs -> Procs \cup {None}]
      BY <1>0, <1>1, <2>2 DEF TypeOK, Lookup
    <3>3. cpc' = [cpc EXCEPT ![r] = "handshake"] \/ cpc' = [cpc EXCEPT ![r] = "returned"]
      BY <1>1, <2>2 DEF Lookup, Caller
    <3>4. UNCHANGED <<closed, prompts, inFlight, turnMu, sink, tpc, watch, ctxDone>>
          /\ key' = [key EXCEPT ![r] = k]
      BY <1>1 DEF Lookup, shared
    <3> QED
      BY <1>0, <3>1, <3>2, <3>3, <3>4 DEF TypeOK, BeforeOK
  <2> QED
    BY <2>1, <2>2
<1>2. ASSUME NEW r \in Runs, HandshakeOk(r) \/ TouchOld(r) PROVE TypeOK'
  <2>1. BeforeOK'
    BY <1>0, <1>2, TouchType DEF HandshakeOk, TouchOld, Caller, RunsInv
  <2> QED
    BY <1>0, <1>2, <2>1 DEF TypeOK, BeforeOK, HandshakeOk, TouchOld, Caller, world, shared
<1>3. ASSUME NEW r \in Runs, HandshakeFails(r) PROVE TypeOK'
  <2>1. up' \in SUBSET Procs /\ open' \in SUBSET Procs /\ prompts' \in [Procs -> Seq(Runs)]
    BY <1>0, <1>3, KillType DEF HandshakeFails, Discard, Caller, RunsInv
  <2> QED
    BY <1>0, <1>3, <2>1 DEF TypeOK, HandshakeFails, Caller, pool, shared
<1>4. ASSUME NEW r \in Runs, Insert(r) PROVE TypeOK'
  <2>1. proc[r] \in Procs /\ key[r] \in Keys
    BY <1>0, <1>4, NoneIsNew DEF Insert, RunsInv
  <2>2. CASE procs[key[r]] = None
    BY <1>0, <1>4, <2>1, <2>2 DEF TypeOK, Insert, Caller, shared
  <2>3. CASE procs[key[r]] # None
    <3>1. up' \in SUBSET Procs /\ open' \in SUBSET Procs /\ prompts' \in [Procs -> Seq(Runs)]
      BY <1>0, <1>4, <2>1, <2>3, KillType DEF Insert, Discard
    <3> QED
      BY <1>0, <1>4, <2>1, <2>3, <3>1 DEF TypeOK, Insert, Caller, shared
  <2> QED
    BY <2>2, <2>3
<1>5. ASSUME NEW r \in Runs, BeginTurn(r) PROVE TypeOK'
  <2>1. proc[r] \in Procs
    BY <1>0, <1>5 DEF BeginTurn, Caller, RunsInv
  <2>2. BeforeOK'
    BY <1>0, <1>5, <2>1, TouchType DEF BeginTurn
  <2>3. inFlight' \in [Procs -> Nat]
    BY <1>0, <1>5, <2>1 DEF TypeOK, BeginTurn
  <2>4. cpc' = [cpc EXCEPT ![r] = "end"] /\ tpc' = [tpc EXCEPT ![r] = "lock"]
    BY <1>5 DEF BeginTurn, Caller, Turn
  <2>5. UNCHANGED <<procs, closed, up, open, closing, prompts, turnMu, sink, key, proc,
                    watch, ctxDone>>
    BY <1>5 DEF BeginTurn, world
  <2> QED
    BY <1>0, <2>2, <2>3, <2>4, <2>5 DEF TypeOK, BeforeOK
<1>6. ASSUME NEW r \in Runs, EndTurn(r) PROVE TypeOK'
  <2>1. proc[r] \in Procs
    BY <1>0, <1>6 DEF EndTurn, Caller, RunsInv
  <2> QED
    BY <1>0, <1>6, <2>1 DEF TypeOK, EndTurn, Caller, pool, world
<1>7. ASSUME NEW r \in Runs, Lock(r) \/ Prompt(r) \/ GiveUp(r) \/ Finish(r) PROVE TypeOK'
  <2>1. proc[r] \in Procs
    BY <1>0, <1>7 DEF Lock, Prompt, GiveUp, Finish, Turn, RunsInv
  <2>2. CASE Prompt(r)
    <3>1. Append(prompts[proc[r]], r) \in Seq(Runs)
      BY <1>0, <2>1 DEF TypeOK
    <3>2. prompts' \in [Procs -> Seq(Runs)]
      BY <1>0, <2>2, <3>1 DEF TypeOK, Prompt
    <3> QED
      BY <1>0, <2>2, <3>2 DEF TypeOK, Prompt, Turn, pool, shared
  <2>3. CASE Lock(r)
    BY <1>0, <2>1, <2>3 DEF TypeOK, Lock, Turn, pool, world
  <2>4. CASE GiveUp(r)
    BY <1>0, <2>4 DEF TypeOK, GiveUp, Turn, pool, world, shared
  <2>5. CASE Finish(r)
    BY <1>0, <2>1, <2>5 DEF TypeOK, Finish, Turn, pool, world
  <2> QED
    BY <1>7, <2>2, <2>3, <2>4, <2>5
<1>8. ASSUME NEW p \in Procs, Answer(p) PROVE TypeOK'
  <2>1. prompts[p] \in Seq(Runs) /\ prompts[p] # <<>>
    BY <1>0, <1>8 DEF TypeOK, Answer
  <2>2. Head(prompts[p]) \in Runs /\ Tail(prompts[p]) \in Seq(Runs)
    BY <2>1
  <2> QED
    BY <1>0, <1>8, <2>2 DEF TypeOK, Answer, pool, shared
<1>9. ASSUME NEW r \in Runs, EndContext(r) \/ Watch(r) \/ SendCancel(r) PROVE TypeOK'
  BY <1>0, <1>9 DEF TypeOK, EndContext, Watch, SendCancel, pool, world, shared
<1>10. ASSUME NEW p \in Procs, Crash(p) \/ ReaderEnds(p) PROVE TypeOK'
  <2>1. <<>> \in Seq(Runs)
    OBVIOUS
  <2>2. prompts' \in [Procs -> Seq(Runs)] /\ up' \in SUBSET Procs /\ open' \in SUBSET Procs
    BY <1>0, <1>10, <2>1 DEF TypeOK, Crash, ReaderEnds
  <2>3. UNCHANGED <<pool, closing, shared, locals>>
    BY <1>10 DEF Crash, ReaderEnds
  <2> QED
    BY <1>0, <2>2, <2>3 DEF TypeOK, pool, shared, locals
<1>11. ASSUME NEW p \in Procs, CloseProc(p) PROVE TypeOK'
  <2>1. up' \in SUBSET Procs /\ open' \in SUBSET Procs /\ prompts' \in [Procs -> Seq(Runs)]
    BY <1>0, <1>11, KillType DEF CloseProc
  <2> QED
    BY <1>0, <1>11, <2>1 DEF TypeOK, CloseProc, pool, shared, locals
<1>12. CASE ReapIdle \/ Close
  <2>1. PICK P \in SUBSET Procs : Unmap(P)
    BY <1>0, <1>12 DEF ReapIdle, Close
  <2>2. BeforeOK' /\ procs' \in [Keys -> Procs \cup {None}] /\ closing' \in SUBSET Procs
    BY <1>0, <2>1, UnmapType
  <2>3. closed' \in BOOLEAN /\ UNCHANGED <<up, open, prompts, shared, locals>>
    BY <1>0, <1>12 DEF TypeOK, ReapIdle, Close
  <2> QED
    BY <1>0, <2>2, <2>3 DEF TypeOK, BeforeOK, shared, locals
<1>13. CASE UNCHANGED vars
  BY <1>0, <1>13 DEF TypeOK, vars
<1> QED
  BY <1>1, <1>2, <1>3, <1>4, <1>5, <1>6, <1>7, <1>8, <1>9, <1>10, <1>11, <1>12, <1>13
     DEF Next, CallerStep, TurnStep

-----------------------------------------------------------------------------
(* The other conjuncts.  First what the actions do to the variables that     *)
(* matter, so that each conjunct is proved from a few equations.             *)

CoreType ==
  /\ procs \in [Keys -> Procs \cup {None}]
  /\ key \in [Runs -> Keys \cup {None}]
  /\ proc \in [Runs -> Procs \cup {None}]
  /\ cpc \in [Runs -> {"new", "handshake", "insert", "touch", "begin", "end", "returned"}]
  /\ tpc \in [Runs -> {"none", "lock", "prompt", "await", "finish", "done"}]
  /\ turnMu \in [Procs -> Runs \cup {None}]
  /\ sink \in [Procs -> Runs \cup {None}]

LEMMA CoreTyped == TypeOK => CoreType
BY DEF TypeOK, CoreType

\* What a step of the caller of r leaves to the others.
OtherRuns(r) ==
  /\ UNCHANGED <<tpc, turnMu, sink>>
  /\ \A s \in Runs : s # r => cpc'[s] = cpc[s] /\ proc'[s] = proc[s] /\ key'[s] = key[s]

\* The map loses some processes, which will be closed.
Shrinks ==
  /\ \A k \in Keys : procs'[k] = procs[k] \/ procs'[k] = None
  /\ \A p \in Mapped : p \in Mapped' \/ p \in closing'
  /\ closing \subseteq closing'

LEMMA UnmapShrinks ==
  ASSUME TypeOK, NEW P \in SUBSET Mapped, Unmap(P) PROVE Shrinks
<1>1. \A k \in Keys : procs'[k] = IF procs[k] \in P THEN None ELSE procs[k]
  BY DEF Unmap
<1>2. closing' = closing \cup P
  BY DEF Unmap
<1>3. ASSUME NEW p \in Mapped, p \notin P PROVE p \in Mapped'
  <2>1. PICK k \in Keys : procs[k] = p /\ p # None
    BY DEF Mapped
  <2>2. procs'[k] = p
    BY <1>1, <1>3, <2>1
  <2> QED
    BY <2>1, <2>2 DEF Mapped
<1> QED
  BY <1>1, <1>2, <1>3 DEF Shrinks

\* A miss: room is made, and a fresh process is forked or nothing is.
LEMMA LookupMiss ==
  ASSUME TypeOK, NEW r \in Runs, NEW k \in Keys, Lookup(r, k), procs[k] = None
  PROVE  /\ Shrinks /\ OtherRuns(r)
         /\ cpc[r] = "new" /\ key'[r] = k
         /\ \/ /\ cpc'[r] = "handshake"
               /\ proc'[r] \in Procs \ Mapped
               /\ \A s \in Runs : proc[s] # proc'[r]
               /\ up' = up \cup {proc'[r]}
            \/ cpc'[r] = "returned" /\ proc'[r] = proc[r] /\ up' = up
<1>1. Shrinks
  <2>1. CASE \E p \in Mapped : Oldest(p) /\ Unmap({p})
    BY <2>1, UnmapShrinks
  <2>2. CASE UNCHANGED <<procs, before, closing>>
    BY <2>2 DEF Shrinks, Mapped
  <2> QED
    BY <2>1, <2>2 DEF Lookup
<1>2. \/ /\ cpc' = [cpc EXCEPT ![r] = "handshake"]
         /\ \E p \in Procs : /\ p \notin Mapped /\ \A s \in Runs : proc[s] # p
                             /\ up' = up \cup {p}
                             /\ proc' = [proc EXCEPT ![r] = p]
      \/ cpc' = [cpc EXCEPT ![r] = "returned"] /\ UNCHANGED <<up, proc>>
  BY DEF Lookup, Caller, Unused
<1>3. cpc[r] = "new" /\ key' = [key EXCEPT ![r] = k] /\ UNCHANGED <<tpc, turnMu, sink>>
  BY DEF Lookup, Caller, shared
<1> QED
  BY <1>1, <1>2, <1>3, CoreTyped DEF CoreType, OtherRuns

LEMMA LookupHit ==
  ASSUME TypeOK, NEW r \in Runs, NEW k \in Keys, Lookup(r, k), procs[k] # None
  PROVE  /\ OtherRuns(r) /\ procs[k] \in Procs
         /\ cpc[r] = "new" /\ cpc'[r] = "begin" /\ key'[r] = k /\ proc'[r] = procs[k]
         /\ UNCHANGED <<procs, up, closing>>
<1>1. /\ cpc[r] = "new" /\ cpc' = [cpc EXCEPT ![r] = "begin"]
      /\ key' = [key EXCEPT ![r] = k] /\ proc' = [proc EXCEPT ![r] = procs[k]]
      /\ UNCHANGED <<procs, tpc, up, closing, turnMu, sink>>
  BY DEF Lookup, Caller, shared
<1> QED
  BY <1>1, CoreTyped DEF CoreType, OtherRuns

LEMMA FailsEffect ==
  ASSUME TypeOK, NEW r \in Runs, HandshakeFails(r)
  PROVE  /\ OtherRuns(r)
         /\ cpc[r] = "handshake" /\ cpc'[r] = "returned"
         /\ proc'[r] = None /\ key'[r] = key[r]
         /\ up' = up \ {proc[r]}
         /\ UNCHANGED <<procs, closing>>
<1>1. /\ cpc[r] = "handshake" /\ cpc' = [cpc EXCEPT ![r] = "returned"]
      /\ proc' = [proc EXCEPT ![r] = None] /\ up' = up \ {proc[r]}
      /\ UNCHANGED <<procs, key, tpc, closing, turnMu, sink>>
  BY DEF HandshakeFails, Caller, Discard, Kill, pool, shared
<1> QED
  BY <1>1, CoreTyped DEF CoreType, OtherRuns

LEMMA InsertEffect ==
  ASSUME TypeOK, RunsInv, NEW r \in Runs, Insert(r)
  PROVE  /\ OtherRuns(r) /\ key[r] \in Keys /\ proc[r] \in Procs
         /\ cpc[r] = "insert" /\ key'[r] = key[r] /\ UNCHANGED closing
         /\ \/ /\ procs[key[r]] = None /\ cpc'[r] = "begin" /\ proc'[r] = proc[r] /\ up' = up
               /\ \A j \in Keys : procs'[j] = IF j = key[r] THEN proc[r] ELSE procs[j]
            \/ /\ procs[key[r]] \in Procs /\ cpc'[r] = "touch" /\ proc'[r] = procs[key[r]]
               /\ up' = up \ {proc[r]} /\ procs' = procs
<1>1. cpc[r] = "insert" /\ UNCHANGED <<key, tpc, closing, turnMu, sink>>
  BY DEF Insert, shared
<1>2. key[r] \in Keys /\ proc[r] \in Procs
  BY <1>1, NoneIsNew DEF RunsInv
<1>3. \/ /\ procs[key[r]] = None
         /\ cpc' = [cpc EXCEPT ![r] = "begin"]
         /\ procs' = [procs EXCEPT ![key[r]] = proc[r]]
         /\ UNCHANGED <<up, proc>>
      \/ /\ procs[key[r]] # None
         /\ cpc' = [cpc EXCEPT ![r] = "touch"]
         /\ up' = up \ {proc[r]}
         /\ proc' = [proc EXCEPT ![r] = procs[key[r]]]
         /\ UNCHANGED procs
  BY DEF Insert, Caller, Discard, Kill
<1> QED
  BY <1>1, <1>2, <1>3, CoreTyped DEF CoreType, OtherRuns

\* A caller's move that touches neither the map nor its own process.
CallerMoves ==
  \E r \in Runs :
    /\ \/ cpc[r] = "handshake" /\ cpc' = [cpc EXCEPT ![r] = "insert"] /\ UNCHANGED tpc
       \/ cpc[r] = "touch" /\ cpc' = [cpc EXCEPT ![r] = "begin"] /\ UNCHANGED tpc
       \/ /\ cpc[r] = "begin" /\ cpc' = [cpc EXCEPT ![r] = "end"]
          /\ tpc' = [tpc EXCEPT ![r] = "lock"]
       \/ cpc[r] = "end" /\ cpc' = [cpc EXCEPT ![r] = "returned"] /\ UNCHANGED tpc
    /\ UNCHANGED <<procs, key, proc, up, closing, turnMu, sink>>

\* A turn's move, or nothing that concerns the conjuncts but the end of a process.
TurnMoves ==
  /\ UNCHANGED <<procs, key, proc, cpc>>
  /\ up' \subseteq up
  /\ \A p \in closing : p \in closing' \/ p \notin up'
  /\ \/ \E r \in Runs :
          \/ /\ tpc[r] = "lock" /\ tpc' = [tpc EXCEPT ![r] = "prompt"]
             /\ turnMu[proc[r]] = None
             /\ turnMu' = [turnMu EXCEPT ![proc[r]] = r]
             /\ sink' = [sink EXCEPT ![proc[r]] = r]
          \/ /\ tpc[r] = "finish" /\ tpc' = [tpc EXCEPT ![r] = "done"]
             /\ turnMu' = [turnMu EXCEPT ![proc[r]] = None]
             /\ sink' = [sink EXCEPT ![proc[r]] = None]
          \/ /\ Holds(r) /\ UNCHANGED <<turnMu, sink>>
             /\ \/ tpc' = [tpc EXCEPT ![r] = "await"]
                \/ tpc' = [tpc EXCEPT ![r] = "finish"]
     \/ UNCHANGED <<tpc, turnMu, sink>>

Unmaps ==
  /\ Shrinks
  /\ UNCHANGED <<key, proc, cpc, tpc, up, turnMu, sink>>

LEMMA Effects ==
  ASSUME TypeOK, [Next]_vars
  PROVE  \/ \E r \in Runs : \/ \E k \in Keys : Lookup(r, k)
                            \/ HandshakeFails(r) \/ Insert(r)
         \/ CallerMoves \/ TurnMoves \/ Unmaps
<1>1. ASSUME NEW r \in Runs, HandshakeOk(r) \/ TouchOld(r) \/ BeginTurn(r) \/ EndTurn(r)
      PROVE  CallerMoves
  BY <1>1 DEF HandshakeOk, TouchOld, BeginTurn, EndTurn, CallerMoves, Caller, Turn, world, shared, pool
<1>2. ASSUME NEW r \in Runs, Lock(r) \/ Finish(r) PROVE TurnMoves
  BY <1>2 DEF Lock, FreeMu, Finish, TurnMoves, Turn, pool, world
<1>3. ASSUME NEW r \in Runs, Prompt(r) \/ GiveUp(r) PROVE TurnMoves
  BY <1>3 DEF Prompt, GiveUp, TurnMoves, Turn, Holds, pool, world, shared
<1>4. ASSUME NEW p \in Procs, Answer(p) PROVE TurnMoves
  <2>1. prompts[p] \in Seq(Runs) /\ prompts[p] # <<>>
    BY <1>4 DEF TypeOK, Answer
  <2>2. Head(prompts[p]) \in Runs
    BY <2>1
  <2>3. UNCHANGED <<procs, key, proc, cpc, up, closing, turnMu, sink>>
    BY <1>4 DEF Answer, pool, shared
  <2>4. PICK r \in Runs : tpc' = [tpc EXCEPT ![r] = IF @ = "await" THEN "finish" ELSE @]
    BY <1>4, <2>2 DEF Answer
  <2>5. CASE tpc[r] = "await"
    BY <2>3, <2>4, <2>5 DEF TurnMoves, Holds
  <2>6. CASE tpc[r] # "await"
    <3>1. tpc' = tpc
      BY <2>4, <2>6 DEF TypeOK
    <3> QED
      BY <2>3, <3>1 DEF TurnMoves
  <2> QED
    BY <2>5, <2>6
<1>5. ASSUME NEW r \in Runs, EndContext(r) \/ Watch(r) \/ SendCancel(r) PROVE TurnMoves
  BY <1>5 DEF EndContext, Watch, SendCancel, TurnMoves, pool, world, shared
<1>6. ASSUME NEW p \in Procs, Crash(p) \/ ReaderEnds(p) \/ CloseProc(p) PROVE TurnMoves
  BY <1>6 DEF Crash, ReaderEnds, CloseProc, Kill, TurnMoves, pool, shared, locals
<1>7. ASSUME ReapIdle \/ Close PROVE Unmaps
  <2>1. PICK P \in SUBSET Mapped : Unmap(P)
    BY <1>7 DEF ReapIdle, Close
  <2> QED
    BY <1>7, <2>1, UnmapShrinks DEF ReapIdle, Close, Unmaps, shared, locals
<1>8. ASSUME UNCHANGED vars PROVE TurnMoves
  BY <1>8 DEF vars, TurnMoves
<1> QED
  BY <1>1, <1>2, <1>3, <1>4, <1>5, <1>6, <1>7, <1>8 DEF Next, CallerStep, TurnStep

-----------------------------------------------------------------------------
LEMMA RunsStep == IInv /\ [Next]_vars => RunsInv'
<1> SUFFICES ASSUME IInv, [Next]_vars PROVE RunsInv'
  OBVIOUS
<1>0. TypeOK /\ CoreType /\ RunsInv
  BY CoreTyped DEF IInv
<1>1. ASSUME NEW r \in Runs, NEW k \in Keys, Lookup(r, k) PROVE RunsInv'
  <2>1. CASE procs[k] = None
    BY <1>0, <1>1, <2>1, LookupMiss DEF RunsInv, OtherRuns
  <2>2. CASE procs[k] # None
    BY <1>0, <1>1, <2>2, LookupHit DEF RunsInv, OtherRuns
  <2> QED
    BY <2>1, <2>2
<1>2. ASSUME NEW r \in Runs, HandshakeFails(r) PROVE RunsInv'
  BY <1>0, <1>2, FailsEffect, NoneIsNew DEF RunsInv, OtherRuns
<1>3. ASSUME NEW r \in Runs, Insert(r) PROVE RunsInv'
  BY <1>0, <1>3, InsertEffect DEF RunsInv, OtherRuns
<1>4. CASE CallerMoves
  BY <1>0, <1>4 DEF CoreType, RunsInv, CallerMoves
<1>5. CASE TurnMoves
  BY <1>0, <1>5 DEF CoreType, RunsInv, TurnMoves, Holds
<1>6. CASE Unmaps
  BY <1>0, <1>6 DEF RunsInv, Unmaps
<1> QED
  BY <1>0, <1>1, <1>2, <1>3, <1>4, <1>5, <1>6, Effects

LEMMA KeysStep == IInv /\ [Next]_vars => KeysInv'
<1> SUFFICES ASSUME IInv, [Next]_vars PROVE KeysInv'
  OBVIOUS
<1>0. TypeOK /\ RunsInv /\ KeysInv /\ StartInv
  BY DEF IInv
<1>1. ASSUME NEW r \in Runs, NEW k \in Keys, Lookup(r, k) PROVE KeysInv'
  <2>1. CASE procs[k] = None
    <3>1. \A j \in Keys : procs'[j] = procs[j] \/ procs'[j] = None
      BY <1>0, <1>1, <2>1, LookupMiss DEF Shrinks
    <3>2. /\ key'[r] = k
          /\ \A s \in Runs : s # r => key'[s] = key[s] /\ proc'[s] = proc[s]
      BY <1>0, <1>1, <2>1, LookupMiss DEF OtherRuns
    <3>3. proc'[r] # None => /\ \A j \in Keys : procs[j] # proc'[r]
                             /\ \A s \in Runs : proc[s] # proc'[r]
      BY <1>0, <1>1, <2>1, LookupMiss, NoneIsNew DEF RunsInv, Mapped
    <3> QED
      BY <1>0, <3>1, <3>2, <3>3 DEF KeysInv
  <2>2. CASE procs[k] # None
    BY <1>0, <1>1, <2>2, LookupHit DEF KeysInv, OtherRuns
  <2> QED
    BY <2>1, <2>2
<1>2. ASSUME NEW r \in Runs, HandshakeFails(r) PROVE KeysInv'
  BY <1>0, <1>2, FailsEffect DEF KeysInv, OtherRuns
<1>3. ASSUME NEW r \in Runs, Insert(r) PROVE KeysInv'
  <2>1. Starting(r) /\ key[r] \in Keys
    BY <1>0, <1>3, InsertEffect DEF Starting
  <2>2. /\ \A s \in Runs : s # r => key'[s] = key[s] /\ proc'[s] = proc[s]
        /\ key'[r] = key[r]
    BY <1>0, <1>3, InsertEffect DEF OtherRuns
  <2>3. CASE procs[key[r]] = None
    <3>1. /\ proc'[r] = proc[r]
          /\ \A j \in Keys : procs'[j] = IF j = key[r] THEN proc[r] ELSE procs[j]
      BY <1>0, <1>3, <2>3, InsertEffect, NoneIsNew
    <3> QED
      BY <1>0, <2>1, <2>2, <3>1 DEF KeysInv, StartInv
  <2>4. CASE procs[key[r]] # None
    <3>1. proc'[r] = procs[key[r]] /\ procs' = procs
      BY <1>0, <1>3, <2>4, InsertEffect
    <3> QED
      BY <1>0, <2>1, <2>2, <2>4, <3>1 DEF KeysInv
  <2> QED
    BY <2>3, <2>4
<1>4. CASE CallerMoves \/ TurnMoves
  BY <1>0, <1>4 DEF KeysInv, CallerMoves, TurnMoves
<1>5. CASE Unmaps
  BY <1>0, <1>5 DEF KeysInv, Unmaps, Shrinks
<1> QED
  BY <1>0, <1>1, <1>2, <1>3, <1>4, <1>5, Effects

LEMMA StartStep == IInv /\ [Next]_vars => StartInv'
<1> SUFFICES ASSUME IInv, [Next]_vars PROVE StartInv'
  OBVIOUS
<1>0. TypeOK /\ CoreType /\ RunsInv /\ StartInv
  BY CoreTyped DEF IInv
<1>1. \A s \in Runs : Starting(s) => proc[s] \in Procs /\ proc[s] # None
  BY <1>0, NoneIsNew DEF RunsInv, Starting
<1>2. ASSUME NEW r \in Runs, NEW k \in Keys, Lookup(r, k) PROVE StartInv'
  <2>1. CASE procs[k] = None
    <3>1. \A j \in Keys : procs'[j] = procs[j] \/ procs'[j] = None
      BY <1>0, <1>2, <2>1, LookupMiss DEF Shrinks
    <3>2. \A s \in Runs : s # r => cpc'[s] = cpc[s] /\ proc'[s] = proc[s]
      BY <1>0, <1>2, <2>1, LookupMiss DEF OtherRuns
    <3>3. /\ Starting(r)' => /\ proc'[r] \in Procs
                             /\ \A j \in Keys : procs[j] # proc'[r]
                             /\ \A s \in Runs : proc[s] # proc'[r]
          /\ ~Starting(r)' => proc'[r] = None
      BY <1>0, <1>2, <2>1, LookupMiss, NoneIsNew DEF RunsInv, Mapped, Starting
    <3> QED
      BY <1>0, <1>1, <3>1, <3>2, <3>3, NoneIsNew DEF StartInv, Starting
  <2>2. CASE procs[k] # None
    BY <1>0, <1>2, <2>2, LookupHit DEF StartInv, Starting, OtherRuns
  <2> QED
    BY <2>1, <2>2
<1>3. ASSUME NEW r \in Runs, HandshakeFails(r) PROVE StartInv'
  BY <1>0, <1>1, <1>3, FailsEffect DEF StartInv, Starting, OtherRuns
<1>4. ASSUME NEW r \in Runs, Insert(r) PROVE StartInv'
  <2>1. Starting(r) /\ key[r] \in Keys /\ ~Starting(r)'
    BY <1>0, <1>4, InsertEffect DEF Starting
  <2>2. \A s \in Runs : s # r => cpc'[s] = cpc[s] /\ proc'[s] = proc[s]
    BY <1>0, <1>4, InsertEffect DEF OtherRuns
  <2>3. \/ /\ proc'[r] = proc[r]
           /\ \A j \in Keys : procs'[j] = procs[j] \/ procs'[j] = proc[r]
        \/ proc'[r] = procs[key[r]] /\ procs' = procs
    BY <1>0, <1>4, InsertEffect
  <2> QED
    BY <1>0, <2>1, <2>2, <2>3 DEF StartInv, Starting
<1>5. CASE CallerMoves
  <2>1. \A s \in Runs : Starting(s)' => Starting(s)
    BY <1>0, <1>5 DEF CoreType, CallerMoves, Starting
  <2> QED
    BY <1>0, <1>5, <2>1 DEF StartInv, CallerMoves
<1>6. CASE TurnMoves
  BY <1>0, <1>6 DEF StartInv, TurnMoves, Starting
<1>7. CASE Unmaps
  BY <1>0, <1>1, <1>7 DEF StartInv, Unmaps, Shrinks, Starting
<1> QED
  BY <1>0, <1>2, <1>3, <1>4, <1>5, <1>6, <1>7, Effects

LEMMA HolderStep == IInv /\ [Next]_vars => HolderInv'
<1> SUFFICES ASSUME IInv, [Next]_vars PROVE HolderInv'
  OBVIOUS
<1>0. TypeOK /\ CoreType /\ RunsInv /\ HolderInv
  BY CoreTyped DEF IInv
\* A caller that has not spawned its turn may change its own process.
<1>1. ASSUME NEW r \in Runs, tpc[r] = "none", OtherRuns(r) PROVE HolderInv'
  <2>1. \A s \in Runs : Holds(s) => s # r
    BY <1>1 DEF Holds
  <2>2. \A p \in Procs : turnMu[p] # None => turnMu[p] # r /\ turnMu[p] \in Runs
    BY <1>0, <2>1 DEF CoreType, HolderInv
  <2>3. \A s \in Runs : Holds(s)' <=> Holds(s)
    BY <1>1 DEF OtherRuns, Holds
  <2> QED
    BY <1>0, <1>1, <2>1, <2>2, <2>3 DEF HolderInv, OtherRuns
<1>2. ASSUME NEW r \in Runs, NEW k \in Keys, Lookup(r, k) PROVE HolderInv'
  <2>1. cpc[r] = "new" /\ OtherRuns(r)
    BY <1>0, <1>2, LookupMiss, LookupHit
  <2> QED
    BY <1>0, <1>1, <2>1 DEF RunsInv
<1>3. ASSUME NEW r \in Runs, HandshakeFails(r) \/ Insert(r) PROVE HolderInv'
  <2>1. cpc[r] \in {"handshake", "insert"} /\ OtherRuns(r)
    BY <1>0, <1>3, FailsEffect, InsertEffect
  <2> QED
    BY <1>0, <1>1, <2>1 DEF RunsInv
<1>4. CASE CallerMoves
  <2>1. \A s \in Runs : Holds(s)' <=> Holds(s)
    BY <1>0, <1>4 DEF CoreType, RunsInv, CallerMoves, Holds
  <2> QED
    BY <1>0, <1>4, <2>1 DEF CoreType, HolderInv, CallerMoves
<1>5. CASE TurnMoves
  <2>1. ASSUME NEW r \in Runs, tpc[r] = "lock", tpc' = [tpc EXCEPT ![r] = "prompt"],
               turnMu[proc[r]] = None, turnMu' = [turnMu EXCEPT ![proc[r]] = r],
               sink' = [sink EXCEPT ![proc[r]] = r]
        PROVE  HolderInv'
    <3>1. proc[r] \in Procs /\ proc' = proc
      BY <1>0, <1>5, <2>1 DEF RunsInv, TurnMoves
    <3>2. \A s \in Runs : Holds(s)' <=> s = r \/ Holds(s)
      BY <1>0, <2>1 DEF CoreType, Holds
    <3>3. /\ turnMu'[proc[r]] = r /\ sink'[proc[r]] = r
          /\ \A p \in Procs : p # proc[r] => turnMu'[p] = turnMu[p] /\ sink'[p] = sink[p]
      BY <1>0, <2>1, <3>1 DEF CoreType
    <3>4. \A s \in Runs : Holds(s) => proc[s] \in Procs /\ turnMu[proc[s]] = s
      BY <1>0 DEF HolderInv, RunsInv, Holds
    <3>5. \A s \in Runs : Holds(s) => proc[s] # proc[r]
      BY <2>1, <3>4, NoneIsNew
    <3> QED
      BY <1>0, <3>1, <3>2, <3>3, <3>4, <3>5 DEF CoreType, HolderInv
  <2>2. ASSUME NEW r \in Runs, tpc[r] = "finish", tpc' = [tpc EXCEPT ![r] = "done"],
               turnMu' = [turnMu EXCEPT ![proc[r]] = None],
               sink' = [sink EXCEPT ![proc[r]] = None]
        PROVE  HolderInv'
    <3>1. proc[r] \in Procs /\ proc' = proc /\ turnMu[proc[r]] = r
      BY <1>0, <1>5, <2>2 DEF RunsInv, TurnMoves, HolderInv, Holds
    <3>2. \A s \in Runs : Holds(s)' <=> s # r /\ Holds(s)
      BY <1>0, <2>2 DEF CoreType, Holds
    <3>3. /\ turnMu'[proc[r]] = None /\ sink'[proc[r]] = None
          /\ \A p \in Procs : p # proc[r] => turnMu'[p] = turnMu[p] /\ sink'[p] = sink[p]
      BY <1>0, <2>2, <3>1 DEF CoreType
    <3>4. \A s \in Runs : Holds(s) => proc[s] \in Procs /\ turnMu[proc[s]] = s
      BY <1>0 DEF HolderInv, RunsInv, Holds
    <3>5. \A s \in Runs : s # r /\ Holds(s) => proc[s] # proc[r]
      BY <3>1, <3>4
    <3>6. \A p \in Procs : p # proc[r] /\ turnMu[p] # None => turnMu[p] \in Runs \ {r}
      BY <1>0 DEF CoreType, HolderInv
    <3> QED
      BY <1>0, <3>1, <3>2, <3>3, <3>4, <3>5, <3>6 DEF HolderInv
  <2>3. ASSUME NEW r \in Runs, Holds(r), UNCHANGED <<turnMu, sink>>,
               tpc' = [tpc EXCEPT ![r] = "await"] \/ tpc' = [tpc EXCEPT ![r] = "finish"]
        PROVE  HolderInv'
    <3>1. \A s \in Runs : Holds(s)' <=> Holds(s)
      BY <1>0, <2>3 DEF CoreType, Holds
    <3> QED
      BY <1>0, <1>5, <2>3, <3>1 DEF CoreType, HolderInv, TurnMoves
  <2>4. CASE UNCHANGED <<tpc, turnMu, sink>>
    BY <1>0, <1>5, <2>4 DEF HolderInv, TurnMoves, Holds
  <2> QED
    BY <1>5, <2>1, <2>2, <2>3, <2>4 DEF TurnMoves
<1>6. CASE Unmaps
  BY <1>0, <1>6 DEF HolderInv, Unmaps, Holds
<1> QED
  BY <1>0, <1>2, <1>3, <1>4, <1>5, <1>6, Effects

LEMMA LocatedStep == IInv /\ [Next]_vars => LocatedInv'
<1> SUFFICES ASSUME IInv, [Next]_vars PROVE LocatedInv'
  OBVIOUS
<1>0. TypeOK /\ CoreType /\ RunsInv /\ LocatedInv
  BY CoreTyped DEF IInv
<1>1. ASSUME NEW r \in Runs, NEW k \in Keys, Lookup(r, k) PROVE LocatedInv'
  <2>1. CASE procs[k] = None
    <3>1. \A p \in closing \cup Mapped : p \in closing' \cup Mapped'
      BY <1>0, <1>1, <2>1, LookupMiss DEF Shrinks
    <3>2. \A s \in Runs : Starting(s) => Starting(s)' /\ proc'[s] = proc[s]
      BY <1>0, <1>1, <2>1, LookupMiss DEF OtherRuns, Starting
    <3>3. up' = up \/ (up' = up \cup {proc'[r]} /\ Starting(r)')
      BY <1>0, <1>1, <2>1, LookupMiss DEF Starting
    <3> QED
      BY <1>0, <3>1, <3>2, <3>3 DEF LocatedInv
  <2>2. CASE procs[k] # None
    <3>1. \A s \in Runs : Starting(s) => Starting(s)' /\ proc'[s] = proc[s]
      BY <1>0, <1>1, <2>2, LookupHit DEF OtherRuns, Starting
    <3>2. UNCHANGED <<up, closing>> /\ Mapped' = Mapped
      BY <1>0, <1>1, <2>2, LookupHit DEF Mapped
    <3> QED
      BY <1>0, <3>1, <3>2 DEF LocatedInv
  <2> QED
    BY <2>1, <2>2
<1>2. ASSUME NEW r \in Runs, HandshakeFails(r) PROVE LocatedInv'
  <2>1. \A s \in Runs : s # r /\ Starting(s) => Starting(s)' /\ proc'[s] = proc[s]
    BY <1>0, <1>2, FailsEffect DEF OtherRuns, Starting
  <2>2. up' = up \ {proc[r]} /\ UNCHANGED closing /\ Mapped' = Mapped
    BY <1>0, <1>2, FailsEffect DEF Mapped
  <2> QED
    BY <1>0, <2>1, <2>2 DEF LocatedInv
<1>3. ASSUME NEW r \in Runs, Insert(r) PROVE LocatedInv'
  <2>1. \A s \in Runs : s # r /\ Starting(s) => Starting(s)' /\ proc'[s] = proc[s]
    BY <1>0, <1>3, InsertEffect DEF OtherRuns, Starting
  <2>2. Mapped \subseteq Mapped' /\ UNCHANGED closing /\ up' \subseteq up
    BY <1>0, <1>3, InsertEffect DEF Mapped
  <2>3. proc[r] \notin up' \/ proc[r] \in Mapped'
    BY <1>0, <1>3, InsertEffect, NoneIsNew DEF Mapped
  <2> QED
    BY <1>0, <2>1, <2>2, <2>3 DEF LocatedInv
<1>4. CASE CallerMoves
  <2>1. \A s \in Runs : Starting(s) => Starting(s)'
    BY <1>0, <1>4 DEF CoreType, CallerMoves, Starting
  <2> QED
    BY <1>0, <1>4, <2>1 DEF LocatedInv, CallerMoves, Mapped
<1>5. CASE TurnMoves
  BY <1>0, <1>5 DEF LocatedInv, TurnMoves, Mapped, Starting
<1>6. CASE Unmaps
  BY <1>0, <1>6 DEF LocatedInv, Unmaps, Shrinks, Starting
<1> QED
  BY <1>0, <1>1, <1>2, <1>3, <1>4, <1>5, <1>6, Effects

-----------------------------------------------------------------------------
(* The theorems. *)

LEMMA Invariance == Spec => []IInv
<1>1. IInv /\ [Next]_vars => IInv'
  BY TypeStep, RunsStep, KeysStep, StartStep, HolderStep, LocatedStep DEF IInv
<1> QED
  BY InitInv, <1>1, PTL DEF Spec

\* Every state of the pool is well typed, and the order of use is a strict one.
THEOREM TypeCorrect == Spec => []TypeOK
<1>1. IInv => TypeOK
  BY DEF IInv
<1> QED
  BY Invariance, <1>1, PTL

\* Whatever the number of sessions, runs and processes, every agent process
\* that runs is in the map once, being started, or about to be closed.
THEOREM NoProcessLost == Spec => []Accounted
<1>1. ASSUME IInv PROVE Accounted
  <2>1. ASSUME NEW p \in up, p \in Mapped
        PROVE  \E k \in Keys : procs[k] = p /\ \A j \in Keys \ {k} : procs[j] # p
    <3>1. PICK k \in Keys : procs[k] = p /\ p # None
      BY <2>1 DEF Mapped
    <3> QED
      BY <1>1, <3>1 DEF IInv, KeysInv
  <2> QED
    BY <1>1, <2>1 DEF IInv, LocatedInv, Accounted, Starting
<1> QED
  BY Invariance, <1>1, PTL

\* While a turn runs its agent's events reach it, and the agent serves no
\* other chat session.
THEOREM StreamsRight == Spec => []StreamsToOwnTurn
<1>1. ASSUME IInv PROVE StreamsToOwnTurn
  <2>1. ASSUME NEW r \in Runs, Holds(r) PROVE sink[proc[r]] = r
    BY <1>1, <2>1 DEF IInv, HolderInv, RunsInv, Holds
  <2>2. ASSUME NEW p \in Procs, sink[p] # None
        PROVE  /\ \A k \in Keys : procs[k] = p => k = key[sink[p]]
               /\ \A r \in Runs : proc[r] = p => key[r] = key[sink[p]]
    <3>1. sink[p] \in Runs /\ proc[sink[p]] = p /\ p # None
      BY <1>1, <2>2, CoreTyped, NoneIsNew DEF IInv, CoreType, HolderInv
    <3> QED
      BY <1>1, <3>1 DEF IInv, KeysInv
  <2> QED
    BY <2>1, <2>2 DEF StreamsToOwnTurn, Holds
<1> QED
  BY Invariance, <1>1, PTL

-----------------------------------------------------------------------------
(* The counters, and who uses what is in the map.                            *)

\* The callers between beginTurn and endTurn on p.
InRun(p) == {r \in Runs : cpc[r] = "end" /\ proc[r] = p}

\* inFlight counts them: nothing is counted twice or left over.
BusyInv == \A p \in Procs : inFlight[p] = Cardinality(InRun(p))

\* What has been in the pool so far is finite, whatever the constants.
FiniteInv == IsFiniteSet(Mapped) /\ IsFiniteSet(UnderWay)

\* Some run got each process of the map from procFor.
UsedInv ==
  \A k \in Keys : procs[k] # None => \E s \in Runs : proc[s] = procs[k] /\ ~Starting(s)

PoolInv == BusyInv /\ FiniteInv /\ UsedInv

LEMMA InitPool == Init => PoolInv
<1> SUFFICES ASSUME Init PROVE PoolInv
  OBVIOUS
<1>1. /\ Mapped = {} /\ UnderWay = {} /\ \A p \in Procs : InRun(p) = {}
      /\ inFlight = [p \in Procs |-> 0]
  BY DEF Init, Mapped, UnderWay, InRun
<1>2. BusyInv /\ FiniteInv
  BY <1>1, FS_EmptySet DEF BusyInv, FiniteInv
<1>3. UsedInv
  BY DEF Init, UsedInv
<1> QED
  BY <1>2, <1>3 DEF PoolInv

LEMMA UsedStep == IInv /\ UsedInv /\ [Next]_vars => UsedInv'
<1> SUFFICES ASSUME IInv, UsedInv, [Next]_vars PROVE UsedInv'
  OBVIOUS
<1>0. TypeOK /\ CoreType /\ RunsInv /\ UsedInv
  BY CoreTyped DEF IInv
<1>1. ASSUME NEW r \in Runs, NEW k \in Keys, Lookup(r, k) PROVE UsedInv'
  <2>1. cpc[r] = "new" /\ proc[r] = None /\ OtherRuns(r)
    BY <1>0, <1>1, LookupHit, LookupMiss DEF RunsInv
  <2>2. \A j \in Keys : procs'[j] = procs[j] \/ procs'[j] = None
    BY <1>0, <1>1, LookupHit, LookupMiss DEF Shrinks
  <2> QED
    BY <1>0, <2>1, <2>2 DEF UsedInv, OtherRuns, Starting
<1>2. ASSUME NEW r \in Runs, HandshakeFails(r) PROVE UsedInv'
  BY <1>0, <1>2, FailsEffect DEF UsedInv, OtherRuns, Starting
<1>3. ASSUME NEW r \in Runs, Insert(r) PROVE UsedInv'
  <2>1. /\ Starting(r) /\ ~Starting(r)'
        /\ \A s \in Runs : s # r => cpc'[s] = cpc[s] /\ proc'[s] = proc[s]
    BY <1>0, <1>3, InsertEffect DEF OtherRuns, Starting
  <2>2. \A j \in Keys : procs'[j] = procs[j] \/ procs'[j] = proc'[r]
    BY <1>0, <1>3, InsertEffect
  <2> QED
    BY <1>0, <2>1, <2>2 DEF UsedInv, Starting
<1>4. CASE CallerMoves
  <2>1. \A s \in Runs : Starting(s)' => Starting(s)
    BY <1>0, <1>4 DEF CoreType, CallerMoves, Starting
  <2> QED
    BY <1>0, <1>4, <2>1 DEF UsedInv, CallerMoves
<1>5. CASE TurnMoves \/ Unmaps
  BY <1>0, <1>5 DEF UsedInv, TurnMoves, Unmaps, Shrinks, Starting
<1> QED
  BY <1>0, <1>1, <1>2, <1>3, <1>4, <1>5, Effects

LEMMA FiniteStep == IInv /\ FiniteInv /\ [Next]_vars => FiniteInv'
<1> SUFFICES ASSUME IInv, FiniteInv, [Next]_vars PROVE FiniteInv'
  OBVIOUS
<1>0. TypeOK /\ CoreType /\ RunsInv /\ FiniteInv
  BY CoreTyped DEF IInv
\* A step adds at most one process and one caller.
<1>1. ASSUME NEW p, NEW r, Mapped' \subseteq Mapped \cup {p}, UnderWay' \subseteq UnderWay \cup {r}
      PROVE  FiniteInv'
  <2>1. IsFiniteSet(Mapped \cup {p}) /\ IsFiniteSet(UnderWay \cup {r})
    BY <1>0, FS_AddElement DEF FiniteInv
  <2> QED
    BY <1>1, <2>1, FS_Subset DEF FiniteInv
<1>2. ASSUME NEW r \in Runs, OtherRuns(r) PROVE UnderWay' \subseteq UnderWay \cup {r}
  BY <1>2 DEF OtherRuns, UnderWay
<1>3. ASSUME Shrinks PROVE Mapped' \subseteq Mapped
  BY <1>3 DEF Shrinks, Mapped
<1>4. ASSUME NEW r \in Runs, NEW k \in Keys, Lookup(r, k) PROVE FiniteInv'
  <2>1. OtherRuns(r) /\ Mapped' \subseteq Mapped
    BY <1>0, <1>3, <1>4, LookupHit, LookupMiss DEF Mapped
  <2> QED
    BY <1>1, <1>2, <2>1
<1>5. ASSUME NEW r \in Runs, HandshakeFails(r) \/ Insert(r) PROVE FiniteInv'
  <2>1. OtherRuns(r)
    BY <1>0, <1>5, FailsEffect, InsertEffect
  <2>2. Mapped' \subseteq Mapped \cup {proc[r]}
    BY <1>0, <1>5, FailsEffect, InsertEffect DEF Mapped
  <2> QED
    BY <1>1, <1>2, <2>1, <2>2
<1>6. CASE CallerMoves
  <2>1. UnderWay' \subseteq UnderWay
    BY <1>0, <1>6 DEF CoreType, CallerMoves, UnderWay
  <2>2. Mapped' = Mapped
    BY <1>6 DEF CallerMoves, Mapped
  <2> QED
    BY <1>1, <2>1, <2>2
<1>7. CASE TurnMoves \/ Unmaps
  <2>1. UnderWay' = UnderWay
    BY <1>7 DEF TurnMoves, Unmaps, UnderWay
  <2>2. Mapped' \subseteq Mapped
    BY <1>3, <1>7 DEF TurnMoves, Unmaps, Mapped
  <2> QED
    BY <1>1, <2>1, <2>2
<1> QED
  BY <1>0, <1>4, <1>5, <1>6, <1>7, Effects

\* Only beginTurn and endTurn touch the counter.
LEMMA CountEffects ==
  ASSUME TypeOK, [Next]_vars
  PROVE  \/ \E r \in Runs : BeginTurn(r) \/ EndTurn(r)
         \/ /\ UNCHANGED inFlight
            /\ \A r \in Runs : (cpc'[r] = "end") <=> (cpc[r] = "end")
            /\ \A r \in Runs : cpc[r] = "end" => proc'[r] = proc[r]
<1>0. CoreType
  BY CoreTyped
<1>1. ASSUME NEW r \in Runs, NEW k \in Keys, Lookup(r, k)
      PROVE  UNCHANGED inFlight /\ cpc[r] = "new" /\ cpc'[r] # "end" /\ OtherRuns(r)
  <2>1. UNCHANGED inFlight
    BY <1>1 DEF Lookup, shared
  <2> QED
    BY <1>1, <2>1, LookupHit, LookupMiss
<1>2. ASSUME NEW r \in Runs, HandshakeFails(r)
      PROVE  UNCHANGED inFlight /\ cpc[r] # "end" /\ cpc'[r] # "end" /\ OtherRuns(r)
  <2>1. UNCHANGED inFlight
    BY <1>2 DEF HandshakeFails, shared
  <2> QED
    BY <1>2, <2>1, FailsEffect
<1>3. ASSUME NEW r \in Runs, Insert(r)
      PROVE  UNCHANGED inFlight /\ cpc[r] # "end" /\ cpc'[r] # "end" /\ OtherRuns(r)
  <2>1. UNCHANGED <<inFlight, tpc, turnMu, sink, key>> /\ cpc[r] = "insert"
    BY <1>3 DEF Insert, shared
  <2>2. cpc' = [cpc EXCEPT ![r] = "begin"] \/ cpc' = [cpc EXCEPT ![r] = "touch"]
    BY <1>3 DEF Insert, Caller
  <2>3. \A s \in Runs : s # r => proc'[s] = proc[s]
    BY <1>0, <1>3 DEF Insert, CoreType
  <2> QED
    BY <1>0, <2>1, <2>2, <2>3 DEF OtherRuns, CoreType
<1>4. ASSUME NEW r \in Runs, HandshakeOk(r) \/ TouchOld(r)
      PROVE  /\ UNCHANGED <<inFlight, proc>> /\ cpc[r] # "end"
             /\ cpc' = [cpc EXCEPT ![r] = "insert"] \/ cpc' = [cpc EXCEPT ![r] = "begin"]
  BY <1>4 DEF HandshakeOk, TouchOld, Caller, shared
<1>5. ASSUME NEW r \in Runs, \/ Lock(r) \/ Prompt(r) \/ GiveUp(r) \/ Finish(r)
                             \/ EndContext(r) \/ Watch(r) \/ SendCancel(r)
      PROVE  UNCHANGED <<inFlight, cpc, proc>>
  BY <1>5 DEF Lock, Prompt, GiveUp, Finish, EndContext, Watch, SendCancel, shared
<1>6. ASSUME NEW p \in Procs, Answer(p) \/ Crash(p) \/ ReaderEnds(p) \/ CloseProc(p)
      PROVE  UNCHANGED <<inFlight, cpc, proc>>
  BY <1>6 DEF Answer, Crash, ReaderEnds, CloseProc, shared, locals
<1>7. ASSUME ReapIdle \/ Close \/ UNCHANGED vars PROVE UNCHANGED <<inFlight, cpc, proc>>
  BY <1>7 DEF ReapIdle, Close, shared, locals, vars
<1>8. ASSUME NEW r \in Runs, UNCHANGED inFlight, cpc[r] # "end", cpc'[r] # "end", OtherRuns(r)
      PROVE  /\ UNCHANGED inFlight
             /\ \A s \in Runs : (cpc'[s] = "end") <=> (cpc[s] = "end")
             /\ \A s \in Runs : cpc[s] = "end" => proc'[s] = proc[s]
  BY <1>8 DEF OtherRuns
<1>9. ASSUME NEW r \in Runs, HandshakeOk(r) \/ TouchOld(r)
      PROVE  /\ UNCHANGED inFlight
             /\ \A s \in Runs : (cpc'[s] = "end") <=> (cpc[s] = "end")
             /\ \A s \in Runs : cpc[s] = "end" => proc'[s] = proc[s]
  BY <1>0, <1>4, <1>9 DEF CoreType
<1> QED
  BY <1>1, <1>2, <1>3, <1>5, <1>6, <1>7, <1>8, <1>9 DEF Next, CallerStep, TurnStep

LEMMA BusyStep == IInv /\ FiniteInv /\ BusyInv /\ [Next]_vars => BusyInv'
<1> SUFFICES ASSUME IInv, FiniteInv, BusyInv, [Next]_vars PROVE BusyInv'
  OBVIOUS
<1>0. TypeOK /\ CoreType /\ RunsInv /\ BusyInv
  BY CoreTyped DEF IInv
<1>1. \A p \in Procs : IsFiniteSet(InRun(p)) /\ Cardinality(InRun(p)) \in Nat
  <2>1. \A p \in Procs : InRun(p) \in SUBSET UnderWay
    BY DEF InRun, UnderWay
  <2> QED
    BY <2>1, FS_Subset, FS_CardinalityType DEF FiniteInv
<1>2. ASSUME NEW r \in Runs, BeginTurn(r) PROVE BusyInv'
  <2>1. /\ cpc[r] = "begin" /\ cpc' = [cpc EXCEPT ![r] = "end"] /\ proc' = proc
        /\ inFlight' = [inFlight EXCEPT ![proc[r]] = @ + 1] /\ proc[r] \in Procs
    BY <1>0, <1>2 DEF BeginTurn, Caller, RunsInv
  <2>2. InRun(proc[r])' = InRun(proc[r]) \cup {r} /\ r \notin InRun(proc[r])
    BY <1>0, <2>1 DEF InRun, CoreType
  <2>3. \A p \in Procs : p # proc[r] => InRun(p)' = InRun(p) /\ inFlight'[p] = inFlight[p]
    BY <1>0, <2>1 DEF InRun, CoreType, TypeOK
  <2>4. Cardinality(InRun(proc[r]) \cup {r}) = Cardinality(InRun(proc[r])) + 1
    BY <1>1, <2>1, <2>2, FS_AddElement
  <2>5. inFlight'[proc[r]] = inFlight[proc[r]] + 1
    BY <1>0, <2>1 DEF TypeOK
  <2>6. inFlight'[proc[r]] = Cardinality(InRun(proc[r])')
    BY <1>0, <2>1, <2>2, <2>4, <2>5 DEF BusyInv
  <2> QED
    BY <1>0, <2>1, <2>3, <2>6 DEF BusyInv
<1>3. ASSUME NEW r \in Runs, EndTurn(r) PROVE BusyInv'
  <2>1. /\ cpc[r] = "end" /\ cpc' = [cpc EXCEPT ![r] = "returned"] /\ proc' = proc
        /\ inFlight' = [inFlight EXCEPT ![proc[r]] = IF @ > 0 THEN @ - 1 ELSE @]
        /\ proc[r] \in Procs
    BY <1>0, <1>3 DEF EndTurn, Caller, RunsInv
  <2>2. InRun(proc[r])' = InRun(proc[r]) \ {r} /\ r \in InRun(proc[r])
    BY <1>0, <2>1 DEF InRun, CoreType
  <2>3. \A p \in Procs : p # proc[r] => InRun(p)' = InRun(p) /\ inFlight'[p] = inFlight[p]
    BY <1>0, <2>1 DEF InRun, CoreType, TypeOK
  <2>4. /\ Cardinality(InRun(proc[r]) \ {r}) = Cardinality(InRun(proc[r])) - 1
        /\ Cardinality(InRun(proc[r]) \ {r}) \in Nat
    BY <1>1, <2>1, <2>2, FS_RemoveElement, FS_CardinalityType
  <2>5. inFlight[proc[r]] = Cardinality(InRun(proc[r])) /\ inFlight[proc[r]] \in Nat
    BY <1>0, <2>1 DEF BusyInv, TypeOK
  <2>6. inFlight[proc[r]] > 0 /\ inFlight'[proc[r]] = inFlight[proc[r]] - 1
    <3>1. inFlight[proc[r]] > 0
      BY <2>4, <2>5
    <3>2. inFlight'[proc[r]] = IF inFlight[proc[r]] > 0 THEN inFlight[proc[r]] - 1 ELSE inFlight[proc[r]]
      BY <1>0, <2>1 DEF TypeOK
    <3> QED
      BY <3>1, <3>2
  <2>7. inFlight'[proc[r]] = Cardinality(InRun(proc[r])')
    BY <2>2, <2>4, <2>5, <2>6
  <2> QED
    BY <1>0, <2>1, <2>3, <2>7 DEF BusyInv
<1>4. ASSUME UNCHANGED inFlight,
             \A r \in Runs : (cpc'[r] = "end") <=> (cpc[r] = "end"),
             \A r \in Runs : cpc[r] = "end" => proc'[r] = proc[r]
      PROVE  BusyInv'
  <2>1. \A p \in Procs : InRun(p)' = InRun(p)
    BY <1>4 DEF InRun
  <2> QED
    BY <1>0, <1>4, <2>1 DEF BusyInv
<1> QED
  BY <1>0, <1>2, <1>3, <1>4, CountEffects

LEMMA PoolInvariance == Spec => [](IInv /\ PoolInv)
<1>1. IInv /\ PoolInv /\ [Next]_vars => PoolInv'
  BY UsedStep, FiniteStep, BusyStep DEF PoolInv
<1> QED
  BY Invariance, InitPool, <1>1, PTL DEF Spec

\* inFlight, which keeps a process from eviction, is at any time the number of
\* callers between beginTurn and endTurn: no path of Run counts twice or leaks.
THEOREM BusyCounterExact == Spec => []BusyInv
<1>1. PoolInv => BusyInv
  BY DEF PoolInv
<1> QED
  BY PoolInvariance, <1>1, PTL

-----------------------------------------------------------------------------
(* The size of the pool. *)

Starters == {r \in Runs : Starting(r)}
Started == {proc[r] : r \in Starters}

LEMMA PooledIs == Pooled = Mapped \cup Started /\ Pooled' = Mapped' \cup Started'
BY DEF Pooled, Started, Starters, Starting

\* No more processes than the runs that name them.
LEMMA ImageBound ==
  ASSUME NEW S, IsFiniteSet(S), NEW f, NEW T, T \subseteq {f[x] : x \in S}
  PROVE  IsFiniteSet(T) /\ Cardinality(T) \in Nat /\ Cardinality(T) <= Cardinality(S)
<1> DEFINE F == {f[x] : x \in S}
           g == [x \in S |-> f[x]]
<1>1. g \in Surjection(S, F)
  BY DEF Surjection
<1>2. IsFiniteSet(F) /\ Cardinality(F) <= Cardinality(S)
  BY <1>1, FS_Surjection
<1>3. IsFiniteSet(T) /\ Cardinality(T) <= Cardinality(F)
  BY <1>2, FS_Subset
<1>4. Cardinality(T) \in Nat /\ Cardinality(F) \in Nat /\ Cardinality(S) \in Nat
  BY <1>2, <1>3, FS_CardinalityType
<1> QED
  BY <1>2, <1>3, <1>4

LEMMA PooledFinite == FiniteInv => IsFiniteSet(Pooled) /\ Cardinality(Pooled) \in Nat
<1> SUFFICES ASSUME FiniteInv PROVE IsFiniteSet(Pooled) /\ Cardinality(Pooled) \in Nat
  OBVIOUS
<1>1. Started \subseteq {proc[r] : r \in UnderWay}
  BY DEF Started, Starters, Starting, UnderWay
<1>2. IsFiniteSet(Started)
  BY <1>1, ImageBound DEF FiniteInv
<1> QED
  BY <1>2, PooledIs, FS_Union, FS_CardinalityType DEF FiniteInv

\* The pool shrinks, or stays.
LEMMA Shrunk ==
  ASSUME FiniteInv, Pooled' \subseteq Pooled
  PROVE  ~(Cardinality(Pooled') > Cardinality(Pooled))
<1>1. IsFiniteSet(Pooled) /\ Cardinality(Pooled) \in Nat
  BY PooledFinite
<1>2. IsFiniteSet(Pooled') /\ Cardinality(Pooled') <= Cardinality(Pooled)
  BY <1>1, FS_Subset
<1>3. Cardinality(Pooled') \in Nat
  BY <1>2, FS_CardinalityType
<1> QED
  BY <1>1, <1>2, <1>3

\* Nobody is evicted and a process is forked: there was room, or every process
\* of the map works for a caller in Run.
LEMMA GrowsWithoutEviction ==
  ASSUME IInv, PoolInv, PoolInv', NEW r \in Runs, OtherRuns(r), cpc[r] = "new",
         Mapped' = Mapped, Cardinality(Mapped) < MaxProcs \/ \A p \in Mapped : Busy(p)
  PROVE  Cardinality(Pooled') < MaxProcs + Cardinality(UnderWay')
<1>0. /\ IsFiniteSet(Mapped) /\ IsFiniteSet(UnderWay') /\ Mapped \subseteq Procs
      /\ Cardinality(Mapped) \in Nat /\ Cardinality(UnderWay') \in Nat
      /\ MaxProcs \in Nat /\ MaxProcs > 0
  BY MappedType, FS_CardinalityType, MaxProcsPositive DEF IInv, PoolInv, FiniteInv
<1>1. Started' \subseteq {proc'[s] : s \in UnderWay'}
  BY DEF Started, Starters, Starting, UnderWay
<1>2. CASE Cardinality(Mapped) < MaxProcs
  <2>1. /\ IsFiniteSet(Started') /\ Cardinality(Started') \in Nat
        /\ Cardinality(Started') <= Cardinality(UnderWay')
    BY <1>0, <1>1, ImageBound
  <2>2. Pooled' = Mapped \cup Started'
    BY PooledIs
  <2>3. IsFiniteSet(Mapped \cap Started') /\ Cardinality(Mapped \cap Started') \in Nat
    BY <1>0, FS_Intersection, FS_CardinalityType
  <2>4. Cardinality(Pooled') = Cardinality(Mapped) + Cardinality(Started')
                                 - Cardinality(Mapped \cap Started')
    BY <1>0, <2>1, <2>2, FS_Union
  <2> QED
    BY <1>0, <1>2, <2>1, <2>3, <2>4
<1>3. CASE \A p \in Mapped : Busy(p)
  <2>1. ASSUME NEW p \in Mapped PROVE p \in {proc'[s] : s \in UnderWay'}
    <3>1. p \in Procs /\ inFlight[p] > 0 /\ inFlight[p] = Cardinality(InRun(p))
      BY <1>0, <1>3 DEF Busy, PoolInv, BusyInv
    <3>2. InRun(p) # {}
      BY <3>1, FS_EmptySet
    <3>3. PICK s \in Runs : cpc[s] = "end" /\ proc[s] = p
      BY <3>2 DEF InRun
    <3>4. s # r /\ cpc'[s] = "end" /\ proc'[s] = p
      BY <3>3 DEF OtherRuns
    <3> QED
      BY <3>4 DEF UnderWay
  <2>2. Pooled' \subseteq {proc'[s] : s \in UnderWay'}
    BY <1>1, <2>1, PooledIs
  <2>3. Cardinality(Pooled') \in Nat /\ Cardinality(Pooled') <= Cardinality(UnderWay')
    BY <1>0, <2>2, ImageBound
  <2> QED
    BY <1>0, <2>3
<1> QED
  BY <1>2, <1>3

\* A process nobody else knows leaves the map, and one is forked.
LEMMA EvictionMakesRoom ==
  ASSUME IInv, PoolInv, NEW r \in Runs, OtherRuns(r), cpc[r] = "new",
         NEW p \in Mapped, Unmap({p})
  PROVE  ~(Cardinality(Pooled') > Cardinality(Pooled))
<1>0. IsFiniteSet(Pooled) /\ Cardinality(Pooled) \in Nat /\ p \in Pooled
  BY PooledFinite, PooledIs DEF PoolInv
<1>1. Mapped' \subseteq Mapped \ {p}
  BY DEF Unmap, Mapped
<1>2. Started' \subseteq Started \cup {proc'[r]}
  BY DEF OtherRuns, Started, Starters, Starting
<1>3. p \notin Started
  BY DEF IInv, StartInv, Mapped, Started, Starters
<1>4. Pooled' \subseteq (Pooled \ {p}) \cup {proc'[r]}
  BY <1>1, <1>2, <1>3, PooledIs
<1>5. /\ IsFiniteSet(Pooled \ {p}) /\ Cardinality(Pooled \ {p}) = Cardinality(Pooled) - 1
      /\ Cardinality(Pooled \ {p}) \in Nat
  BY <1>0, FS_RemoveElement, FS_CardinalityType
<1>6. /\ IsFiniteSet((Pooled \ {p}) \cup {proc'[r]})
      /\ Cardinality((Pooled \ {p}) \cup {proc'[r]}) <= Cardinality(Pooled \ {p}) + 1
      /\ Cardinality((Pooled \ {p}) \cup {proc'[r]}) \in Nat
  <2> DEFINE Q == Pooled \ {p}
  <2>1. IsFiniteSet(Q) /\ Cardinality(Q) \in Nat
    BY <1>5
  <2> HIDE DEF Q
  <2>2. /\ IsFiniteSet(Q \cup {proc'[r]})
        /\ Cardinality(Q \cup {proc'[r]})
             = IF proc'[r] \in Q THEN Cardinality(Q) ELSE Cardinality(Q) + 1
    BY <2>1, FS_AddElement
  <2>3. Cardinality(Q \cup {proc'[r]}) <= Cardinality(Q) + 1 /\ Cardinality(Q \cup {proc'[r]}) \in Nat
    BY <2>1, <2>2
  <2> QED
    BY <2>2, <2>3 DEF Q
<1>7. IsFiniteSet(Pooled') /\ Cardinality(Pooled') <= Cardinality((Pooled \ {p}) \cup {proc'[r]})
  BY <1>4, <1>6, FS_Subset
<1>8. Cardinality(Pooled') \in Nat
  BY <1>7, FS_CardinalityType
<1> QED
  BY <1>0, <1>5, <1>6, <1>7, <1>8

LEMMA GrowthStep ==
  IInv /\ PoolInv /\ PoolInv' /\ [Next]_vars
    => (Cardinality(Pooled') > Cardinality(Pooled)
          => Cardinality(Pooled') < MaxProcs + Cardinality(UnderWay'))
<1> SUFFICES ASSUME IInv, PoolInv, PoolInv', [Next]_vars,
                    Cardinality(Pooled') > Cardinality(Pooled)
             PROVE  Cardinality(Pooled') < MaxProcs + Cardinality(UnderWay')
  OBVIOUS
<1>0. TypeOK /\ CoreType /\ RunsInv /\ FiniteInv
  BY CoreTyped DEF IInv, PoolInv
<1>1. ~(Pooled' \subseteq Pooled)
  BY <1>0, Shrunk
<1>2. ASSUME NEW r \in Runs, NEW k \in Keys, Lookup(r, k)
      PROVE  Cardinality(Pooled') < MaxProcs + Cardinality(UnderWay')
  <2>1. CASE procs[k] # None
    <3>1. Mapped' = Mapped /\ Started' = Started
      <4>1. Mapped' = Mapped
        BY <1>0, <1>2, <2>1, LookupHit DEF Mapped
      <4>2. /\ Starters' = Starters
            /\ \A s \in Starters : proc'[s] = proc[s]
        BY <1>0, <1>2, <2>1, LookupHit DEF OtherRuns, Starters, Starting
      <4> QED
        BY <4>1, <4>2 DEF Started
    <3> QED
      BY <1>1, <3>1, PooledIs
  <2>2. CASE procs[k] = None
    <3>1. cpc[r] = "new" /\ OtherRuns(r)
      BY <1>0, <1>2, <2>2, LookupMiss
    <3>2. CASE Cardinality(Mapped) >= MaxProcs /\ \E p \in Mapped : ~Busy(p)
      <4>1. PICK p \in Mapped : Unmap({p})
        BY <1>2, <2>2, <3>2 DEF Lookup
      <4> QED
        BY <3>1, <4>1, EvictionMakesRoom
    <3>3. CASE ~(Cardinality(Mapped) >= MaxProcs /\ \E p \in Mapped : ~Busy(p))
      <4>1. Mapped' = Mapped
        BY <1>2, <2>2, <3>3 DEF Lookup, Mapped
      <4>2. Cardinality(Mapped) < MaxProcs \/ \A p \in Mapped : Busy(p)
        <5>1. Cardinality(Mapped) \in Nat /\ MaxProcs \in Nat
          BY <1>0, FS_CardinalityType, MaxProcsPositive DEF FiniteInv
        <5> QED
          BY <3>3, <5>1
      <4> QED
        BY <3>1, <4>1, <4>2, GrowsWithoutEviction
    <3> QED
      BY <3>2, <3>3
  <2> QED
    BY <2>1, <2>2
<1>3. ASSUME NEW r \in Runs, HandshakeFails(r) PROVE FALSE
  <2>1. Mapped' = Mapped
    BY <1>0, <1>3, FailsEffect DEF Mapped
  <2>2. Started' \subseteq Started
    BY <1>0, <1>3, FailsEffect DEF OtherRuns, Started, Starters, Starting
  <2> QED
    BY <1>1, <2>1, <2>2, PooledIs
<1>4. ASSUME NEW r \in Runs, Insert(r) PROVE FALSE
  <2>1. Started' \subseteq Started /\ proc[r] \in Started
    BY <1>0, <1>4, InsertEffect DEF OtherRuns, Started, Starters, Starting
  <2>2. Mapped' \subseteq Mapped \cup {proc[r]}
    BY <1>0, <1>4, InsertEffect DEF Mapped
  <2> QED
    BY <1>1, <2>1, <2>2, PooledIs
<1>5. CASE CallerMoves
  <2>1. Starters' \subseteq Starters
    BY <1>0, <1>5 DEF CoreType, CallerMoves, Starters, Starting
  <2>2. Started' \subseteq Started /\ Mapped' = Mapped
    BY <1>5, <2>1 DEF CallerMoves, Started, Mapped
  <2> QED
    BY <1>1, <2>2, PooledIs
<1>6. CASE TurnMoves \/ Unmaps
  <2>1. Started' = Started
    BY <1>6 DEF TurnMoves, Unmaps, Started, Starters, Starting
  <2>2. Mapped' \subseteq Mapped
    BY <1>6 DEF TurnMoves, Unmaps, Shrinks, Mapped
  <2> QED
    BY <1>1, <2>1, <2>2, PooledIs
<1> QED
  BY <1>0, <1>2, <1>3, <1>4, <1>5, <1>6, Effects

\* The limit is checked before a start that takes seconds, and yet the pool never
\* grows to MaxProcs plus the callers in Run, for any number of them.
THEOREM GrowthBounded == Spec => GrowsWithCallers
<1>1. IInv /\ PoolInv /\ PoolInv' /\ [Next]_vars
        => [Cardinality(Pooled') > Cardinality(Pooled)
              => Cardinality(Pooled') < MaxProcs + Cardinality(UnderWay')]_vars
  BY GrowthStep
<1> QED
  BY PoolInvariance, <1>1, PTL DEF Spec, GrowsWithCallers

-----------------------------------------------------------------------------
(* AgentPool implements AgentTurns.  The step is proved for the refinement   *)
(* mapping written out.                                                      *)

Chat == [p \in Procs |-> IF Users(p) = {} THEN None ELSE key[CHOOSE r \in Runs : proc[r] = p]]
Phase == [r \in Runs |->
            CASE tpc[r] = "none" -> "none" [] tpc[r] = "lock" -> "waiting"
              [] tpc[r] = "done" -> "over" [] OTHER -> "served"]
Of == [r \in Runs |-> IF tpc[r] = "none" THEN None ELSE key[r]]
Agent == [r \in Runs |-> IF tpc[r] = "none" THEN None ELSE proc[r]]

LEMMA ExceptIs ==
  ASSUME NEW S, NEW f, NEW g, f = [x \in S |-> f[x]], g = [x \in S |-> g[x]],
         NEW a \in S, \A x \in S : x # a => g[x] = f[x]
  PROVE  g = [f EXCEPT ![a] = g[a]]
OBVIOUS

LEMMA MappingFunctions ==
  /\ Chat = [p \in Procs |-> Chat[p]] /\ Chat' = [p \in Procs |-> Chat'[p]]
  /\ Phase = [r \in Runs |-> Phase[r]] /\ Phase' = [r \in Runs |-> Phase'[r]]
BY DEF Chat, Phase

\* The session a process works for is that of whoever uses it.
ChatInv ==
  /\ \A r \in Runs : proc[r] \in Procs /\ proc[r] # None => Chat[proc[r]] = key[r]
  /\ \A p \in Procs : (\A r \in Runs : proc[r] # p) => Chat[p] = None

LEMMA ChatIs == KeysInv => ChatInv
<1> SUFFICES ASSUME KeysInv PROVE ChatInv
  OBVIOUS
<1>1. ASSUME NEW r \in Runs, proc[r] \in Procs, proc[r] # None PROVE Chat[proc[r]] = key[r]
  <2> DEFINE s == CHOOSE x \in Runs : proc[x] = proc[r]
  <2>1. s \in Runs /\ proc[s] = proc[r]
    OBVIOUS
  <2>2. key[s] = key[r]
    BY <1>1, <2>1 DEF KeysInv
  <2>3. Users(proc[r]) # {}
    BY DEF Users
  <2> QED
    BY <1>1, <2>2, <2>3 DEF Chat
<1>2. ASSUME NEW p \in Procs, \A r \in Runs : proc[r] # p PROVE Chat[p] = None
  BY <1>2 DEF Chat, Users
<1> QED
  BY <1>1, <1>2 DEF ChatInv

LEMMA ChatIsNext == KeysInv' => ChatInv'
BY ChatIs, PTL

\* A step that changes neither who uses a process nor for which session.
LEMMA ChatStays ==
  ASSUME KeysInv, KeysInv', NEW p \in Procs, p # None,
         \A r \in Runs : proc'[r] = p => \E s \in Runs : proc[s] = p /\ key[s] = key'[r],
         \A r \in Runs : proc[r] = p => \E s \in Runs : proc'[s] = p
  PROVE  Chat'[p] = Chat[p]
<1>1. CASE \E r \in Runs : proc'[r] = p
  <2>1. PICK r \in Runs : proc'[r] = p
    BY <1>1
  <2>2. PICK s \in Runs : proc[s] = p /\ key[s] = key'[r]
    BY <2>1
  <2>3. Chat[p] = key[s]
    BY <2>2, ChatIs DEF ChatInv
  <2>4. Chat'[p] = key'[r]
    BY <2>1, ChatIsNext DEF ChatInv
  <2> QED
    BY <2>2, <2>3, <2>4
<1>2. CASE \A r \in Runs : proc'[r] # p
  <2>1. \A r \in Runs : proc[r] # p
    BY <1>2
  <2>2. Chat[p] = None /\ Chat'[p] = None
    BY <1>2, <2>1, ChatIs, ChatIsNext DEF ChatInv
  <2> QED
    BY <2>2
<1> QED
  BY <1>1, <1>2

\* The four steps of AgentTurns that this one takes, or a stutter.
TurnsStep ==
  \/ \E p \in Procs, k \in Keys :
       /\ Chat[p] = None /\ Chat' = [Chat EXCEPT ![p] = k]
       /\ UNCHANGED <<sink, Phase, Of, Agent>>
  \/ \E p \in Procs :
       /\ Chat[p] # None /\ \A r \in Runs : Agent[r] # p
       /\ Chat' = [Chat EXCEPT ![p] = None]
       /\ UNCHANGED <<sink, Phase, Of, Agent>>
  \/ \E r \in Runs, p \in Procs :
       /\ Phase[r] = "none" /\ Chat[p] # None
       /\ Phase' = [Phase EXCEPT ![r] = "waiting"]
       /\ Of' = [Of EXCEPT ![r] = Chat[p]]
       /\ Agent' = [Agent EXCEPT ![r] = p]
       /\ UNCHANGED <<Chat, sink>>
  \/ \E r \in Runs :
       \/ /\ Phase[r] = "waiting" /\ sink[Agent[r]] = None
          /\ Phase' = [Phase EXCEPT ![r] = "served"]
          /\ sink' = [sink EXCEPT ![Agent[r]] = r]
          /\ UNCHANGED <<Chat, Of, Agent>>
       \/ /\ Phase[r] = "served" /\ sink[Agent[r]] = r
          /\ Phase' = [Phase EXCEPT ![r] = "over"]
          /\ sink' = [sink EXCEPT ![Agent[r]] = None]
          /\ UNCHANGED <<Chat, Of, Agent>>
  \/ UNCHANGED <<Chat, sink, Phase, Of, Agent>>

LEMMA TurnsStepIs == TurnsStep <=> [Turns!Next]_(Turns!vars)
BY DEF TurnsStep, Chat, Phase, Of, Agent, Turns!Next, Turns!vars, Turns!Start, Turns!Stop,
       Turns!Queue, Turns!Serve, Turns!Finish

\* The caller of a run without a turn may get, change or lose its process.
LEMMA OtherTurns ==
  ASSUME CoreType, RunsInv, NEW r \in Runs, tpc[r] = "none", OtherRuns(r)
  PROVE  UNCHANGED <<sink, Phase, Of, Agent>>
<1>1. UNCHANGED sink /\ tpc' = tpc
  BY DEF OtherRuns
<1>2. Phase' = Phase
  BY <1>1 DEF Phase
<1>3. \A s \in Runs : tpc[s] # "none" => key'[s] = key[s] /\ proc'[s] = proc[s]
  BY DEF OtherRuns
<1>4. Of' = Of /\ Agent' = Agent
  BY <1>1, <1>3 DEF Of, Agent
<1> QED
  BY <1>1, <1>2, <1>4

LEMMA LookupRefines ==
  ASSUME IInv, IInv', UsedInv, NEW r \in Runs, NEW k \in Keys, Lookup(r, k)
  PROVE  TurnsStep
<1>0. TypeOK /\ CoreType /\ RunsInv /\ KeysInv /\ KeysInv'
  BY CoreTyped DEF IInv
<1>1. cpc[r] = "new" /\ proc[r] = None /\ tpc[r] = "none" /\ OtherRuns(r)
  BY <1>0, LookupHit, LookupMiss DEF RunsInv
<1>2. UNCHANGED <<sink, Phase, Of, Agent>>
  BY <1>0, <1>1, OtherTurns
<1>3. \A s \in Runs : s # r => key'[s] = key[s] /\ proc'[s] = proc[s]
  BY <1>1 DEF OtherRuns
<1>4. \A p \in Procs : p # None
  BY NoneIsNew
<1>5. CASE procs[k] # None
  <2>1. proc'[r] = procs[k] /\ key'[r] = k
    BY <1>0, <1>5, LookupHit
  <2>2. PICK s \in Runs : proc[s] = procs[k]
    BY <1>5 DEF UsedInv
  <2>3. key[s] = k
    BY <1>0, <1>5, <2>2 DEF KeysInv
  <2>4. ASSUME NEW p \in Procs PROVE Chat'[p] = Chat[p]
    BY <1>0, <1>1, <1>3, <1>4, <2>1, <2>2, <2>3, ChatStays
  <2>5. Chat' = Chat
    BY <2>4 DEF Chat
  <2> QED
    BY <1>2, <2>5 DEF TurnsStep
<1>6. CASE procs[k] = None /\ cpc'[r] = "handshake"
  <2>1. proc'[r] \in Procs /\ key'[r] = k /\ \A s \in Runs : proc[s] # proc'[r]
    BY <1>0, <1>6, LookupMiss
  <2>2. Chat[proc'[r]] = None
    BY <1>0, <2>1, ChatIs DEF ChatInv
  <2>3. Chat'[proc'[r]] = k
    BY <1>0, <1>4, <2>1, ChatIsNext DEF ChatInv
  <2>4. ASSUME NEW p \in Procs, p # proc'[r] PROVE Chat'[p] = Chat[p]
    BY <1>0, <1>1, <1>3, <1>4, <2>4, ChatStays
  <2>5. Chat' = [Chat EXCEPT ![proc'[r]] = k]
    BY <2>1, <2>3, <2>4, MappingFunctions, ExceptIs
  <2> QED
    BY <1>2, <2>1, <2>2, <2>5 DEF TurnsStep
<1>7. CASE procs[k] = None /\ cpc'[r] = "returned"
  <2>1. proc'[r] = None
    BY <1>0, <1>1, <1>7, LookupMiss
  <2>2. ASSUME NEW p \in Procs PROVE Chat'[p] = Chat[p]
    BY <1>0, <1>1, <1>3, <1>4, <2>1, ChatStays
  <2>3. Chat' = Chat
    BY <2>2 DEF Chat
  <2> QED
    BY <1>2, <2>3 DEF TurnsStep
<1> QED
  BY <1>0, <1>5, <1>6, <1>7, LookupMiss

\* A caller lets go of the process it started, which stops.
LEMMA LetGoRefines ==
  ASSUME IInv, IInv', NEW r \in Runs, Starting(r), OtherRuns(r), key'[r] = key[r],
         proc'[r] # proc[r],
         proc'[r] \in Procs => \E s \in Runs : proc[s] = proc'[r] /\ key[s] = key[r]
  PROVE  TurnsStep
<1>0. TypeOK /\ CoreType /\ RunsInv /\ KeysInv /\ KeysInv' /\ StartInv
  BY CoreTyped DEF IInv
<1>1. tpc[r] = "none" /\ proc[r] \in Procs /\ key[r] \in Keys
  BY <1>0, NoneIsNew DEF RunsInv, Starting
<1>2. UNCHANGED <<sink, Phase, Of, Agent>>
  BY <1>0, <1>1, OtherTurns
<1>3. \A p \in Procs : p # None
  BY NoneIsNew
<1>4. \A s \in Runs : s # r => proc[s] # proc[r] /\ proc'[s] = proc[s] /\ key'[s] = key[s]
  BY <1>0 DEF OtherRuns, StartInv
<1>5. Chat[proc[r]] = key[r] /\ key[r] # None
  BY <1>0, <1>1, <1>3, ChatIs, NoneIsNew DEF ChatInv
<1>6. Chat'[proc[r]] = None
  BY <1>0, <1>1, <1>4, ChatIsNext DEF ChatInv
<1>7. \A s \in Runs : Agent[s] # proc[r]
  BY <1>1, <1>3, <1>4 DEF Agent
<1>8. ASSUME NEW p \in Procs, p # proc[r] PROVE Chat'[p] = Chat[p]
  BY <1>0, <1>3, <1>4, <1>8, ChatStays
<1>9. Chat' = [Chat EXCEPT ![proc[r]] = None]
  BY <1>1, <1>6, <1>8, MappingFunctions, ExceptIs
<1> QED
  BY <1>1, <1>2, <1>5, <1>7, <1>9 DEF TurnsStep

LEMMA CallerRefines ==
  ASSUME IInv, IInv', UsedInv, CallerMoves PROVE TurnsStep
<1>0. TypeOK /\ CoreType /\ RunsInv /\ KeysInv /\ KeysInv'
  BY CoreTyped DEF IInv
<1>1. UNCHANGED <<key, proc, sink>> /\ Chat' = Chat
  BY DEF CallerMoves, Chat, Users
<1>2. CASE UNCHANGED tpc
  <2>1. UNCHANGED <<Phase, Of, Agent>>
    BY <1>1, <1>2 DEF Phase, Of, Agent
  <2> QED
    BY <1>1, <2>1 DEF TurnsStep
<1>3. ASSUME NEW r \in Runs, cpc[r] = "begin", tpc' = [tpc EXCEPT ![r] = "lock"]
      PROVE  TurnsStep
  <2>1. tpc[r] = "none" /\ proc[r] \in Procs /\ proc[r] # None /\ key[r] \in Keys
    BY <1>0, <1>3, NoneIsNew DEF RunsInv
  <2>2. Chat[proc[r]] = key[r] /\ key[r] # None
    BY <1>0, <2>1, ChatIs, NoneIsNew DEF ChatInv
  <2>3. \A s \in Runs : tpc'[s] = IF s = r THEN "lock" ELSE tpc[s]
    BY <1>0, <1>3 DEF CoreType
  <2>4. Phase[r] = "none" /\ Phase' = [Phase EXCEPT ![r] = "waiting"]
    BY <2>1, <2>3 DEF Phase
  <2>5. Of' = [Of EXCEPT ![r] = key[r]] /\ Agent' = [Agent EXCEPT ![r] = proc[r]]
    BY <1>1, <2>1, <2>3 DEF Of, Agent
  <2> QED
    BY <1>1, <2>1, <2>2, <2>4, <2>5 DEF TurnsStep
<1> QED
  BY <1>2, <1>3 DEF CallerMoves

LEMMA TurnRefines ==
  ASSUME IInv, IInv', TurnMoves PROVE TurnsStep
<1>0. TypeOK /\ CoreType /\ RunsInv /\ HolderInv
  BY CoreTyped DEF IInv
<1>1. UNCHANGED <<key, proc>> /\ Chat' = Chat
  BY DEF TurnMoves, Chat, Users
<1>2. ASSUME NEW r \in Runs, tpc[r] # "none", NEW w, w # "none", tpc' = [tpc EXCEPT ![r] = w]
      PROVE  /\ \A s \in Runs : tpc'[s] = IF s = r THEN w ELSE tpc[s]
             /\ Of' = Of /\ Agent' = Agent /\ Agent[r] = proc[r]
  <2>1. \A s \in Runs : tpc'[s] = IF s = r THEN w ELSE tpc[s]
    BY <1>0, <1>2 DEF CoreType
  <2> QED
    BY <1>1, <1>2, <2>1 DEF Of, Agent
<1>3. ASSUME NEW r \in Runs, tpc[r] = "lock", tpc' = [tpc EXCEPT ![r] = "prompt"],
             turnMu[proc[r]] = None, sink' = [sink EXCEPT ![proc[r]] = r]
      PROVE  TurnsStep
  <2>1. /\ \A s \in Runs : tpc'[s] = IF s = r THEN "prompt" ELSE tpc[s]
        /\ UNCHANGED <<Of, Agent>> /\ Agent[r] = proc[r]
    BY <1>2, <1>3
  <2>2. Phase[r] = "waiting" /\ Phase' = [Phase EXCEPT ![r] = "served"]
    <3>1. Phase[r] = "waiting" /\ Phase'[r] = "served" /\ \A s \in Runs : s # r => Phase'[s] = Phase[s]
      BY <1>3, <2>1 DEF Phase
    <3> QED
      BY <3>1, MappingFunctions, ExceptIs
  <2>3. sink[proc[r]] = None
    BY <1>0, <1>3 DEF HolderInv, RunsInv
  <2> QED
    BY <1>1, <1>3, <2>1, <2>2, <2>3 DEF TurnsStep
<1>4. ASSUME NEW r \in Runs, tpc[r] = "finish", tpc' = [tpc EXCEPT ![r] = "done"],
             sink' = [sink EXCEPT ![proc[r]] = None]
      PROVE  TurnsStep
  <2>1. /\ \A s \in Runs : tpc'[s] = IF s = r THEN "done" ELSE tpc[s]
        /\ UNCHANGED <<Of, Agent>> /\ Agent[r] = proc[r]
    BY <1>2, <1>4
  <2>2. Phase[r] = "served" /\ Phase' = [Phase EXCEPT ![r] = "over"]
    <3>1. Phase[r] = "served" /\ Phase'[r] = "over" /\ \A s \in Runs : s # r => Phase'[s] = Phase[s]
      BY <1>4, <2>1 DEF Phase
    <3> QED
      BY <3>1, MappingFunctions, ExceptIs
  <2>3. sink[proc[r]] = r
    BY <1>0, <1>4 DEF HolderInv, RunsInv, Holds
  <2> QED
    BY <1>1, <1>4, <2>1, <2>2, <2>3 DEF TurnsStep
<1>5. ASSUME NEW r \in Runs, Holds(r), UNCHANGED sink,
             tpc' = [tpc EXCEPT ![r] = "await"] \/ tpc' = [tpc EXCEPT ![r] = "finish"]
      PROVE  TurnsStep
  <2>1. /\ \A s \in Runs : s # r => tpc'[s] = tpc[s]
        /\ Holds(r)' /\ UNCHANGED <<Of, Agent>>
    BY <1>0, <1>2, <1>5 DEF CoreType, Holds
  <2>2. Phase' = Phase
    BY <1>5, <2>1 DEF Phase, Holds
  <2> QED
    BY <1>1, <1>5, <2>1, <2>2 DEF TurnsStep
<1>6. CASE UNCHANGED <<tpc, sink>>
  <2>1. UNCHANGED <<Phase, Of, Agent>>
    BY <1>1, <1>6 DEF Phase, Of, Agent
  <2> QED
    BY <1>1, <1>6, <2>1 DEF TurnsStep
<1> QED
  BY <1>3, <1>4, <1>5, <1>6 DEF TurnMoves

LEMMA StepRefines ==
  IInv /\ IInv' /\ UsedInv /\ [Next]_vars => [Turns!Next]_(Turns!vars)
<1> SUFFICES ASSUME IInv, IInv', UsedInv, [Next]_vars PROVE TurnsStep
  BY TurnsStepIs
<1>0. TypeOK /\ CoreType /\ RunsInv /\ KeysInv
  BY CoreTyped DEF IInv
<1>1. ASSUME NEW r \in Runs, HandshakeFails(r) PROVE TurnsStep
  <2>1. Starting(r) /\ OtherRuns(r) /\ proc[r] \in Procs /\ proc'[r] = None /\ key'[r] = key[r]
    BY <1>0, <1>1, FailsEffect DEF RunsInv, Starting
  <2> QED
    BY <2>1, LetGoRefines, NoneIsNew
<1>2. ASSUME NEW r \in Runs, Insert(r) PROVE TurnsStep
  <2>1. Starting(r) /\ OtherRuns(r) /\ key'[r] = key[r] /\ key[r] \in Keys /\ tpc[r] = "none"
    BY <1>0, <1>2, InsertEffect DEF RunsInv, Starting
  <2>2. CASE proc'[r] = proc[r]
    <3>1. UNCHANGED <<sink, Phase, Of, Agent>>
      BY <1>0, <2>1, OtherTurns
    <3>2. proc' = proc /\ key' = key
      <4>1. /\ proc \in [Runs -> Procs \cup {None}] /\ proc' \in [Runs -> Procs \cup {None}]
            /\ key \in [Runs -> Keys \cup {None}] /\ key' \in [Runs -> Keys \cup {None}]
        BY DEF IInv, TypeOK
      <4> QED
        BY <2>1, <2>2, <4>1 DEF OtherRuns
    <3>3. Chat' = Chat
      BY <3>2 DEF Chat, Users
    <3> QED
      BY <3>1, <3>3 DEF TurnsStep
  <2>3. CASE proc'[r] # proc[r]
    <3>1. procs[key[r]] # None /\ proc'[r] = procs[key[r]]
      BY <1>0, <1>2, <2>3, InsertEffect, NoneIsNew
    <3>2. PICK s \in Runs : proc[s] = procs[key[r]]
      BY <2>1, <3>1 DEF UsedInv
    <3>3. key[s] = key[r]
      BY <1>0, <2>1, <3>1, <3>2 DEF KeysInv
    <3> QED
      BY <2>1, <2>3, <3>1, <3>2, <3>3, LetGoRefines
  <2> QED
    BY <2>2, <2>3
<1>3. CASE Unmaps
  <2>1. UNCHANGED <<Chat, sink, Phase, Of, Agent>>
    BY <1>3 DEF Unmaps, Chat, Users, Phase, Of, Agent
  <2> QED
    BY <2>1 DEF TurnsStep
<1> QED
  BY <1>0, <1>1, <1>2, <1>3, LookupRefines, CallerRefines, TurnRefines, Effects

\* Through every race of start, eviction, recycling, crash and Close the pool
\* keeps the promise of AgentTurns: an agent for one session, one turn at a time.
THEOREM Refinement == Spec => ImplementsAgentTurns
<1>1. Init => Turns!Init
  BY DEF Init, Turns!Init, Users
<1>2. (IInv /\ PoolInv) /\ (IInv /\ PoolInv)' /\ [Next]_vars => [Turns!Next]_(Turns!vars)
  BY StepRefines DEF PoolInv
<1> QED
  BY PoolInvariance, <1>1, <1>2, PTL DEF Spec, Turns!Spec, ImplementsAgentTurns

=============================================================================
