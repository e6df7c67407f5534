------------------------- MODULE ChatRunner_proofs -------------------------
(***************************************************************************)
(* Proofs about ChatRunner for any turns, sessions, tasks and bounds: the  *)
(* inductive invariant and its consequences, then the order of messages.   *)
(***************************************************************************)
EXTENDS ChatRunner, SequenceTheorems, FiniteSetTheorems, TLAPS

Slots == {t \in Turns : Holds(t)}
Unpruned == {i \in Ids : dt[i] \in {"running", "settled"}}

\* The three goroutines of a turn start together, and the forwarder outlives
\* the backend unless the client has gone.
PhaseInv ==
  \A t \in Turns :
    /\ fw[t] = "off" <=> pc[t] \notin {"on", "left", "done"}
    /\ eng[t] = "off" <=> fw[t] = "off"
    /\ pc[t] = "done" => fw[t] = "over"
    /\ fw[t] = "over" => eng[t] = "over" \/ pc[t] = "left"

TypeInv ==
  /\ pc \in [Turns -> {"idle", "got", "acquired", "appended", "compacted", "on", "left",
                       "done", "refused"}]
  /\ eng \in [Turns -> {"off", "run", "send", "last", "over"}]
  /\ fw \in [Turns -> {"off", "idle", "holding", "over"}]
  /\ sent \in [Turns -> 0 .. MaxEvents]
  /\ sess \in [Turns \cup Ids -> Sessions]
  /\ store \in [Sessions -> {"fresh", "stale", "gone"}]
  /\ msgs \in [Sessions -> Seq(Messages)]
  /\ log \in [Sessions -> Seq(Messages)]
  /\ dt \in [Ids -> {"none", "running", "settled", "pruned", "noted"}]
  /\ tasks \subseteq Ids

SlotInv == free \in Nat /\ free + Cardinality(Slots) = MaxConcurrentChats

IInv == TypeInv /\ PhaseInv /\ SlotInv /\ KeepsLatest /\ TableBounded

-----------------------------------------------------------------------------
\* The last n elements of a sequence.
LEMMA LastOfProperties ==
  ASSUME NEW S, NEW s \in Seq(S), NEW n \in Nat
  PROVE  /\ LastOf(s, n) \in Seq(S)
         /\ Len(LastOf(s, n)) = IF Len(s) > n THEN n ELSE Len(s)
         /\ \A k \in 1 .. Len(LastOf(s, n)) :
              LastOf(s, n)[k] = s[k + (IF Len(s) > n THEN Len(s) - n ELSE 0)]
<1>1. CASE Len(s) > n
  <2>1. Len(s) \in Nat /\ \A i \in (Len(s) - n + 1) .. Len(s) : s[i] \in S
    BY <1>1, ElementOfSeq, LenProperties
  <2>2. /\ SubSeq(s, Len(s) - n + 1, Len(s)) \in Seq(S)
        /\ Len(SubSeq(s, Len(s) - n + 1, Len(s))) = n
        /\ \A i \in 1 .. n : SubSeq(s, Len(s) - n + 1, Len(s))[i] = s[Len(s) - n + i]
    <3> DEFINE a == Len(s) - n + 1
    <3>1. a \in Int /\ Len(s) \in Int /\ \A i \in a .. Len(s) : s[i] \in S
      BY <2>1
    <3>2. /\ SubSeq(s, a, Len(s)) \in Seq(S)
          /\ Len(SubSeq(s, a, Len(s))) = IF a <= Len(s) THEN Len(s) - a + 1 ELSE 0
          /\ \A i \in 1 .. Len(s) - a + 1 : SubSeq(s, a, Len(s))[i] = s[a + i - 1]
      <4> HIDE DEF a
      <4> QED
        BY <3>1, SubSeqProperties
    <3> QED
      BY <1>1, <2>1, <3>2
  <2> QED
    BY <1>1, <2>1, <2>2 DEF LastOf
<1>2. CASE ~(Len(s) > n)
  BY <1>2, LenProperties DEF LastOf
<1> QED
  BY <1>1, <1>2

\* Cutting before an element is added makes no difference to cutting after.
LEMMA LastOfAppend ==
  ASSUME NEW S, NEW s \in Seq(S), NEW m \in S, NEW n \in Nat \ {0}
  PROVE  LastOf(Append(LastOf(s, n), m), n) = LastOf(Append(s, m), n)
<1> DEFINE c == LastOf(s, n)
           a == Append(c, m)
           b == Append(s, m)
           x == LastOf(a, n)
           y == LastOf(b, n)
<1>1. /\ c \in Seq(S) /\ Len(s) \in Nat /\ Len(c) \in Nat
      /\ Len(c) = IF Len(s) > n THEN n ELSE Len(s)
      /\ \A k \in 1 .. Len(c) : c[k] = s[k + (IF Len(s) > n THEN Len(s) - n ELSE 0)]
  BY LastOfProperties, LenProperties
<1> HIDE DEF c
<1>2. /\ a \in Seq(S) /\ Len(a) = Len(c) + 1
      /\ \A k \in 1 .. Len(c) + 1 : a[k] = IF k <= Len(c) THEN c[k] ELSE m
  BY <1>1
<1>3. /\ b \in Seq(S) /\ Len(b) = Len(s) + 1
      /\ \A k \in 1 .. Len(s) + 1 : b[k] = IF k <= Len(s) THEN s[k] ELSE m
  BY <1>1
<1> HIDE DEF a, b
<1>4. /\ x \in Seq(S) /\ Len(x) = IF Len(a) > n THEN n ELSE Len(a)
      /\ \A k \in 1 .. Len(x) : x[k] = a[k + (IF Len(a) > n THEN Len(a) - n ELSE 0)]
  BY <1>2, LastOfProperties
<1>5. /\ y \in Seq(S) /\ Len(y) = IF Len(b) > n THEN n ELSE Len(b)
      /\ \A k \in 1 .. Len(y) : y[k] = b[k + (IF Len(b) > n THEN Len(b) - n ELSE 0)]
  BY <1>3, LastOfProperties
<1> HIDE DEF x, y
<1>6. Len(x) = Len(y)
  BY <1>1, <1>2, <1>3, <1>4, <1>5
<1>7. ASSUME NEW k \in 1 .. Len(x) PROVE x[k] = y[k]
  <2>1. CASE Len(s) > n
    <3>a. /\ Len(c) = n /\ Len(a) = n + 1 /\ Len(b) = Len(s) + 1 /\ Len(x) = n /\ Len(y) = n
          /\ k \in 1 .. n /\ Len(a) > n /\ Len(b) > n
      BY <1>1, <1>2, <1>3, <1>4, <1>5, <1>6, <2>1
    <3>b. x[k] = a[k + (Len(a) - n)]
      BY <1>4, <3>a
    <3>c. y[k] = b[k + (Len(b) - n)]
      BY <1>5, <3>a
    <3>d. Len(a) - n = 1 /\ Len(b) - n = Len(s) + 1 - n
      BY <3>a
    <3>1. /\ Len(c) = n /\ Len(a) = n + 1 /\ Len(b) = Len(s) + 1 /\ Len(x) = n /\ k \in 1 .. n
          /\ x[k] = a[k + 1] /\ y[k] = b[k + (Len(s) + 1 - n)]
      BY <3>a, <3>b, <3>c, <3>d
    <3>2. a[k + 1] = IF k + 1 <= n THEN c[k + 1] ELSE m
      BY <1>2, <3>1
    <3>3. b[k + (Len(s) + 1 - n)] = IF k + 1 <= n THEN s[k + (Len(s) + 1 - n)] ELSE m
      <4> DEFINE j == k + (Len(s) + 1 - n)
      <4>1. /\ j \in 1 .. Len(s) + 1
            /\ j <= Len(s) <=> k + 1 <= n
        <5>1. Len(s) \in Nat /\ n \in Nat /\ k \in 1 .. n /\ Len(s) > n
          BY <1>1, <2>1, <3>1
        <5> QED
          BY <5>1
      <4> HIDE DEF j
      <4>2. b[j] = IF j <= Len(s) THEN s[j] ELSE m
        BY <1>3, <4>1
      <4>3. b[j] = IF k + 1 <= n THEN s[j] ELSE m
        BY <4>1, <4>2
      <4> QED
        BY <4>3 DEF j
    <3>4. ASSUME k + 1 <= n PROVE c[k + 1] = s[k + (Len(s) + 1 - n)]
      <4>1. k + 1 \in 1 .. Len(c) /\ k + 1 + (Len(s) - n) = k + (Len(s) + 1 - n)
        BY <1>1, <3>1, <3>4
      <4> QED
        BY <1>1, <2>1, <4>1
    <3> QED
      BY <3>1, <3>2, <3>3, <3>4
  <2>2. CASE ~(Len(s) > n)
    <3>1. Len(c) = Len(s) /\ Len(a) = Len(b)
      BY <1>1, <1>2, <1>3, <2>2
    <3>2. ASSUME NEW j \in 1 .. Len(a) PROVE a[j] = b[j]
      <4>1. a[j] = IF j <= Len(s) THEN c[j] ELSE m
        BY <1>2, <3>1
      <4>2. b[j] = IF j <= Len(s) THEN s[j] ELSE m
        BY <1>2, <1>3, <3>1
      <4>3. ASSUME j <= Len(s) PROVE c[j] = s[j]
        <5>1. j \in 1 .. Len(c) /\ j + 0 = j
          BY <1>1, <1>2, <3>1, <4>3
        <5> QED
          BY <1>1, <2>2, <5>1
      <4> QED
        BY <4>1, <4>2, <4>3
    <3> DEFINE j == k + (IF Len(a) > n THEN Len(a) - n ELSE 0)
    <3>3. j \in 1 .. Len(a)
      BY <1>1, <1>2, <1>4
    <3>4. x[k] = a[j] /\ y[k] = b[j]
      BY <1>4, <1>5, <1>6, <3>1
    <3> QED
      BY <3>2, <3>3, <3>4
  <2> QED
    BY <2>1, <2>2
<1>8. x = y
  BY <1>4, <1>5, <1>6, <1>7, SeqEqual
<1> QED
  BY <1>8 DEF x, y, a, b, c

\* Append to a session, and the history stays the latest of the log.
LEMMA AppendKeeps ==
  ASSUME TypeInv, KeepsLatest, NEW s \in Sessions, NEW m \in Messages, AppendMsg(s, m)
  PROVE  /\ msgs' \in [Sessions -> Seq(Messages)] /\ log' \in [Sessions -> Seq(Messages)]
         /\ store' \in [Sessions -> {"fresh", "stale", "gone"}]
         /\ KeepsLatest'
<1>1. maxMsgs \in Nat \ {0} /\ msgs[s] = LastOf(log[s], maxMsgs) /\ log[s] \in Seq(Messages)
  BY BoundsPositive DEF TypeInv, KeepsLatest
<1>2. Append(log[s], m) \in Seq(Messages) /\ Append(msgs[s], m) \in Seq(Messages)
  BY <1>1 DEF TypeInv
<1>3. LastOf(Append(msgs[s], m), maxMsgs) \in Seq(Messages)
  BY <1>1, <1>2, LastOfProperties
<1>4. LastOf(Append(msgs[s], m), maxMsgs) = LastOf(Append(log[s], m), maxMsgs)
  BY <1>1, LastOfAppend
<1> QED
  BY <1>2, <1>3, <1>4 DEF AppendMsg, TypeInv, KeepsLatest

\* Compact finds nothing to cut.
LEMMA CompactKeeps ==
  ASSUME TypeInv, KeepsLatest, NEW s \in Sessions, Compact(s)
  PROVE  UNCHANGED history
<1>1. Len(msgs[s]) <= maxMsgs
  <2>1. msgs[s] = LastOf(log[s], maxMsgs) /\ log[s] \in Seq(Messages) /\ maxMsgs \in Nat
    BY BoundsPositive DEF TypeInv, KeepsLatest
  <2>2. Len(log[s]) \in Nat
    BY <2>1, LenProperties
  <2> QED
    BY <2>1, <2>2, LastOfProperties
<1>2. Len(msgs[s]) \in Nat
  BY LenProperties DEF TypeInv
<1>3. Len(msgs[s]) <= histMax
  BY <1>1, <1>2, BoundsPositive, ThresholdCoversCap
<1> QED
  BY <1>3 DEF Compact, history

-----------------------------------------------------------------------------
LEMMA IdsFinite == IsFiniteSet(Ids)
<1>1. Ids = 1 .. Past + New
  BY BoundsPositive DEF Ids, Old, Fresh
<1> QED
  BY <1>1, BoundsPositive, FS_Interval

LEMMA SlotsFinite == IsFiniteSet(Slots)
BY TurnsFinite, FS_Subset DEF Slots

LEMMA GiveSlot ==
  ASSUME SlotInv, NEW t \in Slots, Slots' = Slots \ {t}, free' = free + 1
  PROVE  SlotInv'
<1>1. Cardinality(Slots) \in Nat
  BY SlotsFinite, FS_CardinalityType
<1>2. Cardinality(Slots') = Cardinality(Slots) - 1
  BY SlotsFinite, FS_RemoveElement
<1>3. free' \in Nat /\ free' + Cardinality(Slots') = free + Cardinality(Slots)
  BY <1>1, <1>2 DEF SlotInv
<1> QED
  BY <1>3 DEF SlotInv

\* Sets of tasks have a size.
LEMMA TasksFinite ==
  ASSUME TypeInv
  PROVE  /\ IsFiniteSet(tasks) /\ Cardinality(tasks) \in Nat
         /\ IsFiniteSet(Unpruned) /\ Cardinality(Unpruned) \in Nat
<1>1. tasks \in SUBSET Ids /\ Unpruned \in SUBSET Ids
  BY DEF TypeInv, Unpruned
<1> QED
  BY <1>1, IdsFinite, FS_Subset, FS_CardinalityType

\* Every step keeps the types, and the history the latest of the log.
LEMMA TypeStep == IInv /\ [Next]_vars => (TypeInv /\ KeepsLatest)'
<1> SUFFICES ASSUME IInv, [Next]_vars PROVE (TypeInv /\ KeepsLatest)'
  OBVIOUS
<1>1. ASSUME NEW t \in Turns, Get(t) PROVE (TypeInv /\ KeepsLatest)'
  BY <1>1 DEF Get, Go, IInv, TypeInv, KeepsLatest, turns, history, table
<1>2. ASSUME NEW t \in Turns, TryAcquire(t) PROVE (TypeInv /\ KeepsLatest)'
  BY <1>2 DEF TryAcquire, Go, IInv, TypeInv, KeepsLatest, turns, history, table
<1>3. ASSUME NEW t \in Turns, AppendUser(t) PROVE (TypeInv /\ KeepsLatest)'
  <2>1. sess[t] \in Sessions /\ [role |-> "user", by |-> t] \in Messages
    BY <1>3 DEF IInv, TypeInv, Messages
  <2>2. AppendMsg(sess[t], [role |-> "user", by |-> t])
    BY <1>3 DEF AppendUser
  <2>3. /\ msgs' \in [Sessions -> Seq(Messages)] /\ log' \in [Sessions -> Seq(Messages)]
        /\ store' \in [Sessions -> {"fresh", "stale", "gone"}] /\ KeepsLatest'
    BY <2>1, <2>2, AppendKeeps DEF IInv
  <2> QED
    BY <1>3, <2>3 DEF AppendUser, Go, IInv, TypeInv, turns, table
<1>4. ASSUME NEW t \in Turns, CompactHistory(t) PROVE (TypeInv /\ KeepsLatest)'
  <2>1. sess[t] \in Sessions /\ Compact(sess[t])
    BY <1>4 DEF CompactHistory, IInv, TypeInv
  <2>2. UNCHANGED history
    BY <2>1, CompactKeeps DEF IInv
  <2> QED
    BY <1>4, <2>2 DEF CompactHistory, Go, IInv, TypeInv, KeepsLatest, history, table
<1>5. ASSUME NEW t \in Turns, EngineRefuses(t) PROVE (TypeInv /\ KeepsLatest)'
  BY <1>5 DEF EngineRefuses, Go, IInv, TypeInv, KeepsLatest, turns, history, table
<1>6. ASSUME NEW t \in Turns, EngineRuns(t) PROVE (TypeInv /\ KeepsLatest)'
  BY <1>6 DEF EngineRuns, Go, IInv, TypeInv, KeepsLatest, turns, history, table
<1>7. ASSUME NEW t \in Turns, Publish(t) PROVE (TypeInv /\ KeepsLatest)'
  BY <1>7 DEF Publish, Go, IInv, TypeInv, KeepsLatest, turns, history, table
<1>8. ASSUME NEW t \in Turns, Finished(t) PROVE (TypeInv /\ KeepsLatest)'
  BY <1>8 DEF Finished, Go, IInv, TypeInv, KeepsLatest, turns, history, table
<1>9. ASSUME NEW t \in Turns, Produce(t) PROVE (TypeInv /\ KeepsLatest)'
  <2>1. sent' \in [Turns -> 0 .. MaxEvents]
    BY <1>9, BoundsPositive DEF Produce, IInv, TypeInv
  <2> QED
    BY <1>9, <2>1 DEF Produce, IInv, TypeInv, KeepsLatest, history, table
<1>10. ASSUME NEW t \in Turns, Conclude(t) PROVE (TypeInv /\ KeepsLatest)'
  <2>1. sess[t] \in Sessions /\ [role |-> "assistant", by |-> t] \in Messages
    BY <1>10 DEF IInv, TypeInv, Messages
  <2>2. CASE AppendMsg(sess[t], [role |-> "assistant", by |-> t])
    <3>1. /\ msgs' \in [Sessions -> Seq(Messages)] /\ log' \in [Sessions -> Seq(Messages)]
          /\ store' \in [Sessions -> {"fresh", "stale", "gone"}] /\ KeepsLatest'
      BY <2>1, <2>2, AppendKeeps DEF IInv
    <3> QED
      BY <1>10, <3>1 DEF Conclude, IInv, TypeInv, table
  <2>3. CASE UNCHANGED history
    BY <1>10, <2>3 DEF Conclude, IInv, TypeInv, KeepsLatest, history, table
  <2> QED
    BY <1>10, <2>2, <2>3 DEF Conclude
<1>11. ASSUME NEW t \in Turns, Emit(t) PROVE (TypeInv /\ KeepsLatest)'
  BY <1>11 DEF Emit, AfterSend, Cancelled, IInv, TypeInv, KeepsLatest, turns, history, table
<1>12. ASSUME NEW t \in Turns, Forward(t) PROVE (TypeInv /\ KeepsLatest)'
  BY <1>12 DEF Forward, Release, IInv, TypeInv, KeepsLatest, turns, history, table
<1>13. ASSUME NEW i \in Ids, Dispatch(i) PROVE (TypeInv /\ KeepsLatest)'
  BY <1>13 DEF Dispatch, IInv, TypeInv, KeepsLatest, turns, history, table
<1>14. ASSUME NEW i \in Ids, Settle(i) PROVE (TypeInv /\ KeepsLatest)'
  BY <1>14 DEF Settle, IInv, TypeInv, KeepsLatest, turns, history, table
<1>15. ASSUME NEW i \in Ids, Prune(i) PROVE (TypeInv /\ KeepsLatest)'
  <2>1. tasks' \subseteq Ids
    BY <1>15 DEF Prune, IInv, TypeInv
  <2> QED
    BY <1>15, <2>1 DEF Prune, IInv, TypeInv, KeepsLatest, turns, history
<1>16. ASSUME NEW i \in Ids, Note(i) PROVE (TypeInv /\ KeepsLatest)'
  <2>1. sess[i] \in Sessions /\ [role |-> "user", by |-> i] \in Messages
    BY <1>16 DEF IInv, TypeInv, Messages
  <2>2. AppendMsg(sess[i], [role |-> "user", by |-> i])
    BY <1>16 DEF Note
  <2>3. /\ msgs' \in [Sessions -> Seq(Messages)] /\ log' \in [Sessions -> Seq(Messages)]
        /\ store' \in [Sessions -> {"fresh", "stale", "gone"}] /\ KeepsLatest'
    BY <2>1, <2>2, AppendKeeps DEF IInv
  <2> QED
    BY <1>16, <2>3 DEF Note, IInv, TypeInv, turns, table
<1>17. ASSUME NEW s \in Sessions, Age(s) PROVE (TypeInv /\ KeepsLatest)'
  BY <1>17 DEF Age, IInv, TypeInv, KeepsLatest, turns, history, table
<1>18. ASSUME Janitor PROVE (TypeInv /\ KeepsLatest)'
  BY <1>18 DEF Janitor, IInv, TypeInv, KeepsLatest, turns, history, table
<1>19. ASSUME UNCHANGED vars PROVE (TypeInv /\ KeepsLatest)'
  BY <1>19 DEF vars, IInv, TypeInv, KeepsLatest, turns, history, table
<1> QED
    BY <1>1, <1>2, <1>3, <1>4, <1>5, <1>6, <1>7, <1>8, <1>9, <1>10, <1>11, <1>12, <1>13,
     <1>14, <1>15, <1>16, <1>17, <1>18, <1>19 DEF Next, Work, Request, Task

\* Request, backend and forwarder end in the right order.
LEMMA PhaseStep == IInv /\ [Next]_vars => PhaseInv'
<1> SUFFICES ASSUME IInv, [Next]_vars PROVE PhaseInv'
  OBVIOUS
<1>1. ASSUME NEW t \in Turns, Get(t) PROVE PhaseInv'
  BY <1>1 DEF Get, Go, IInv, TypeInv, PhaseInv, turns
<1>2. ASSUME NEW t \in Turns, TryAcquire(t) PROVE PhaseInv'
  BY <1>2 DEF TryAcquire, Go, IInv, TypeInv, PhaseInv, turns
<1>3. ASSUME NEW t \in Turns, AppendUser(t) PROVE PhaseInv'
  BY <1>3 DEF AppendUser, Go, IInv, TypeInv, PhaseInv, turns
<1>4. ASSUME NEW t \in Turns, CompactHistory(t) PROVE PhaseInv'
  BY <1>4 DEF CompactHistory, Go, IInv, TypeInv, PhaseInv, turns
<1>5. ASSUME NEW t \in Turns, EngineRefuses(t) PROVE PhaseInv'
  BY <1>5 DEF EngineRefuses, Go, IInv, TypeInv, PhaseInv, turns
<1>6. ASSUME NEW t \in Turns, EngineRuns(t) PROVE PhaseInv'
  BY <1>6 DEF EngineRuns, Go, IInv, TypeInv, PhaseInv, turns
<1>7. ASSUME NEW t \in Turns, Publish(t) PROVE PhaseInv'
  BY <1>7 DEF Publish, Go, IInv, TypeInv, PhaseInv, turns
<1>8. ASSUME NEW t \in Turns, Finished(t) PROVE PhaseInv'
  BY <1>8 DEF Finished, Go, IInv, TypeInv, PhaseInv, turns
<1>9. ASSUME NEW t \in Turns, Produce(t) PROVE PhaseInv'
  BY <1>9 DEF Produce, IInv, TypeInv, PhaseInv, turns
<1>10. ASSUME NEW t \in Turns, Conclude(t) PROVE PhaseInv'
  BY <1>10 DEF Conclude, IInv, TypeInv, PhaseInv, turns
<1>11. ASSUME NEW t \in Turns, Emit(t) PROVE PhaseInv'
  BY <1>11 DEF Emit, AfterSend, Cancelled, IInv, TypeInv, PhaseInv, turns
<1>12. ASSUME NEW t \in Turns, Forward(t) PROVE PhaseInv'
  BY <1>12 DEF Forward, Release, IInv, TypeInv, PhaseInv, turns
<1>13. ASSUME NEW i \in Ids, Dispatch(i) PROVE PhaseInv'
  BY <1>13 DEF Dispatch, IInv, TypeInv, PhaseInv, turns
<1>14. ASSUME NEW i \in Ids, Settle(i) PROVE PhaseInv'
  BY <1>14 DEF Settle, IInv, TypeInv, PhaseInv, turns
<1>15. ASSUME NEW i \in Ids, Prune(i) PROVE PhaseInv'
  BY <1>15 DEF Prune, IInv, TypeInv, PhaseInv, turns
<1>16. ASSUME NEW i \in Ids, Note(i) PROVE PhaseInv'
  BY <1>16 DEF Note, IInv, TypeInv, PhaseInv, turns
<1>17. ASSUME NEW s \in Sessions, Age(s) PROVE PhaseInv'
  BY <1>17 DEF Age, IInv, TypeInv, PhaseInv, turns
<1>18. ASSUME Janitor PROVE PhaseInv'
  BY <1>18 DEF Janitor, IInv, TypeInv, PhaseInv, turns
<1>19. ASSUME UNCHANGED vars PROVE PhaseInv'
  BY <1>19 DEF vars, IInv, TypeInv, PhaseInv, turns
<1> QED
    BY <1>1, <1>2, <1>3, <1>4, <1>5, <1>6, <1>7, <1>8, <1>9, <1>10, <1>11, <1>12, <1>13,
     <1>14, <1>15, <1>16, <1>17, <1>18, <1>19 DEF Next, Work, Request, Task

\* A slot changes hands or is given back once.
LEMMA SlotStep == IInv /\ [Next]_vars => SlotInv'
<1> SUFFICES ASSUME IInv, [Next]_vars PROVE SlotInv'
  OBVIOUS
<1>1. ASSUME NEW t \in Turns, Get(t) PROVE SlotInv'
  <2>1. Slots' = Slots /\ free' = free
    BY <1>1 DEF Get, Go, Slots, Holds, IInv, TypeInv, PhaseInv
  <2> QED
    BY <2>1 DEF IInv, SlotInv
<1>2. ASSUME NEW t \in Turns, TryAcquire(t) PROVE SlotInv'
    <2>1. CASE pc[t] = "got" /\ free > 0 /\ free' = free - 1 /\ pc' = [pc EXCEPT ![t] =
     "acquired"]
    <3>1. fw' = fw /\ fw[t] = "off"
      BY <1>2, <2>1 DEF TryAcquire, IInv, PhaseInv
    <3>2. t \notin Slots
      BY <2>1, <3>1 DEF Slots, Holds
    <3>3. \A u \in Turns : Holds(u)' <=> Holds(u) \/ u = t
      BY <2>1, <3>1 DEF Holds, IInv, TypeInv
    <3>4. Slots' = Slots \cup {t}
      BY <3>3 DEF Slots
    <3>5. Cardinality(Slots) \in Nat /\ Cardinality(Slots') = Cardinality(Slots) + 1
      BY <3>2, <3>4, SlotsFinite, FS_AddElement, FS_CardinalityType
    <3> QED
      BY <2>1, <3>5 DEF IInv, SlotInv
  <2>2. CASE pc[t] = "got" /\ UNCHANGED free /\ pc' = [pc EXCEPT ![t] = "refused"]
    <3>1. Slots' = Slots
      BY <1>2, <2>2 DEF TryAcquire, Slots, Holds, IInv, TypeInv, PhaseInv
    <3> QED
      BY <2>2, <3>1 DEF IInv, SlotInv
  <2> QED
    BY <1>2, <2>1, <2>2 DEF TryAcquire, Go
<1>3. ASSUME NEW t \in Turns, AppendUser(t) PROVE SlotInv'
  <2>1. Slots' = Slots /\ free' = free
    BY <1>3 DEF AppendUser, Go, Slots, Holds, IInv, TypeInv, PhaseInv
  <2> QED
    BY <2>1 DEF IInv, SlotInv
<1>4. ASSUME NEW t \in Turns, CompactHistory(t) PROVE SlotInv'
  <2>1. Slots' = Slots /\ free' = free
    BY <1>4 DEF CompactHistory, Go, Slots, Holds, IInv, TypeInv, PhaseInv
  <2> QED
    BY <2>1 DEF IInv, SlotInv
<1>5. ASSUME NEW t \in Turns, EngineRefuses(t) PROVE SlotInv'
  <2>1. t \in Slots /\ Slots' = Slots \ {t} /\ free' = free + 1
    BY <1>5 DEF EngineRefuses, Go, Slots, Holds, IInv, TypeInv, PhaseInv
  <2> QED
    BY <2>1, GiveSlot DEF IInv
<1>6. ASSUME NEW t \in Turns, EngineRuns(t) PROVE SlotInv'
  <2>1. Slots' = Slots /\ free' = free
    BY <1>6 DEF EngineRuns, Go, Slots, Holds, IInv, TypeInv, PhaseInv
  <2> QED
    BY <2>1 DEF IInv, SlotInv
<1>7. ASSUME NEW t \in Turns, Publish(t) PROVE SlotInv'
  <2>1. Slots' = Slots /\ free' = free
    BY <1>7 DEF Publish, Go, Slots, Holds, IInv, TypeInv, PhaseInv
  <2> QED
    BY <2>1 DEF IInv, SlotInv
<1>8. ASSUME NEW t \in Turns, Finished(t) PROVE SlotInv'
  <2>1. Slots' = Slots /\ free' = free
    BY <1>8 DEF Finished, Go, Slots, Holds, IInv, TypeInv, PhaseInv
  <2> QED
    BY <2>1 DEF IInv, SlotInv
<1>9. ASSUME NEW t \in Turns, Produce(t) PROVE SlotInv'
  <2>1. Slots' = Slots /\ free' = free
    BY <1>9 DEF Produce, Slots, Holds, IInv, TypeInv, PhaseInv
  <2> QED
    BY <2>1 DEF IInv, SlotInv
<1>10. ASSUME NEW t \in Turns, Conclude(t) PROVE SlotInv'
  <2>1. Slots' = Slots /\ free' = free
    BY <1>10 DEF Conclude, Slots, Holds, IInv, TypeInv, PhaseInv
  <2> QED
    BY <2>1 DEF IInv, SlotInv
<1>11. ASSUME NEW t \in Turns, Emit(t) PROVE SlotInv'
  <2>1. Slots' = Slots /\ free' = free
    BY <1>11 DEF Emit, AfterSend, Cancelled, Slots, Holds, IInv, TypeInv, PhaseInv
  <2> QED
    BY <2>1 DEF IInv, SlotInv
<1>12. ASSUME NEW t \in Turns, Forward(t) PROVE SlotInv'
  <2>1. t \in Slots /\ Slots' = Slots \ {t} /\ free' = free + 1
    BY <1>12 DEF Forward, Release, Slots, Holds, IInv, TypeInv, PhaseInv
  <2> QED
    BY <2>1, GiveSlot DEF IInv
<1>13. ASSUME NEW i \in Ids, Dispatch(i) PROVE SlotInv'
  <2>1. Slots' = Slots /\ free' = free
    BY <1>13 DEF Dispatch, turns, Slots, Holds, IInv, TypeInv, PhaseInv
  <2> QED
    BY <2>1 DEF IInv, SlotInv
<1>14. ASSUME NEW i \in Ids, Settle(i) PROVE SlotInv'
  <2>1. Slots' = Slots /\ free' = free
    BY <1>14 DEF Settle, turns, Slots, Holds, IInv, TypeInv, PhaseInv
  <2> QED
    BY <2>1 DEF IInv, SlotInv
<1>15. ASSUME NEW i \in Ids, Prune(i) PROVE SlotInv'
  <2>1. Slots' = Slots /\ free' = free
    BY <1>15 DEF Prune, turns, Slots, Holds, IInv, TypeInv, PhaseInv
  <2> QED
    BY <2>1 DEF IInv, SlotInv
<1>16. ASSUME NEW i \in Ids, Note(i) PROVE SlotInv'
  <2>1. Slots' = Slots /\ free' = free
    BY <1>16 DEF Note, turns, Slots, Holds, IInv, TypeInv, PhaseInv
  <2> QED
    BY <2>1 DEF IInv, SlotInv
<1>17. ASSUME NEW s \in Sessions, Age(s) PROVE SlotInv'
  <2>1. Slots' = Slots /\ free' = free
    BY <1>17 DEF Age, turns, Slots, Holds, IInv, TypeInv, PhaseInv
  <2> QED
    BY <2>1 DEF IInv, SlotInv
<1>18. ASSUME Janitor PROVE SlotInv'
  <2>1. Slots' = Slots /\ free' = free
    BY <1>18 DEF Janitor, turns, Slots, Holds, IInv, TypeInv, PhaseInv
  <2> QED
    BY <2>1 DEF IInv, SlotInv
<1>19. ASSUME UNCHANGED vars PROVE SlotInv'
  <2>1. Slots' = Slots /\ free' = free
    BY <1>19 DEF vars, Slots, Holds, IInv, TypeInv, PhaseInv
  <2> QED
    BY <2>1 DEF IInv, SlotInv
<1> QED
    BY <1>1, <1>2, <1>3, <1>4, <1>5, <1>6, <1>7, <1>8, <1>9, <1>10, <1>11, <1>12, <1>13,
     <1>14, <1>15, <1>16, <1>17, <1>18, <1>19 DEF Next, Work, Request, Task

\* A prune takes off at least one task when there are too many.
LEMMA TableStep == IInv /\ [Next]_vars => TableBounded'
<1> SUFFICES ASSUME IInv, [Next]_vars PROVE TableBounded'
  OBVIOUS
<1>1. ASSUME NEW t \in Turns, Get(t) PROVE TableBounded'
  <2>1. tasks' = tasks /\ Unpruned' = Unpruned
    BY <1>1 DEF Get, table, Unpruned, IInv, TypeInv
  <2> QED
    BY <2>1 DEF IInv, TableBounded, Unpruned
<1>2. ASSUME NEW t \in Turns, TryAcquire(t) PROVE TableBounded'
  <2>1. tasks' = tasks /\ Unpruned' = Unpruned
    BY <1>2 DEF TryAcquire, table, Unpruned, IInv, TypeInv
  <2> QED
    BY <2>1 DEF IInv, TableBounded, Unpruned
<1>3. ASSUME NEW t \in Turns, AppendUser(t) PROVE TableBounded'
  <2>1. tasks' = tasks /\ Unpruned' = Unpruned
    BY <1>3 DEF AppendUser, table, Unpruned, IInv, TypeInv
  <2> QED
    BY <2>1 DEF IInv, TableBounded, Unpruned
<1>4. ASSUME NEW t \in Turns, CompactHistory(t) PROVE TableBounded'
  <2>1. tasks' = tasks /\ Unpruned' = Unpruned
    BY <1>4 DEF CompactHistory, table, Unpruned, IInv, TypeInv
  <2> QED
    BY <2>1 DEF IInv, TableBounded, Unpruned
<1>5. ASSUME NEW t \in Turns, EngineRefuses(t) PROVE TableBounded'
  <2>1. tasks' = tasks /\ Unpruned' = Unpruned
    BY <1>5 DEF EngineRefuses, table, Unpruned, IInv, TypeInv
  <2> QED
    BY <2>1 DEF IInv, TableBounded, Unpruned
<1>6. ASSUME NEW t \in Turns, EngineRuns(t) PROVE TableBounded'
  <2>1. tasks' = tasks /\ Unpruned' = Unpruned
    BY <1>6 DEF EngineRuns, table, Unpruned, IInv, TypeInv
  <2> QED
    BY <2>1 DEF IInv, TableBounded, Unpruned
<1>7. ASSUME NEW t \in Turns, Publish(t) PROVE TableBounded'
  <2>1. tasks' = tasks /\ Unpruned' = Unpruned
    BY <1>7 DEF Publish, table, Unpruned, IInv, TypeInv
  <2> QED
    BY <2>1 DEF IInv, TableBounded, Unpruned
<1>8. ASSUME NEW t \in Turns, Finished(t) PROVE TableBounded'
  <2>1. tasks' = tasks /\ Unpruned' = Unpruned
    BY <1>8 DEF Finished, table, Unpruned, IInv, TypeInv
  <2> QED
    BY <2>1 DEF IInv, TableBounded, Unpruned
<1>9. ASSUME NEW t \in Turns, Produce(t) PROVE TableBounded'
  <2>1. tasks' = tasks /\ Unpruned' = Unpruned
    BY <1>9 DEF Produce, table, Unpruned, IInv, TypeInv
  <2> QED
    BY <2>1 DEF IInv, TableBounded, Unpruned
<1>10. ASSUME NEW t \in Turns, Conclude(t) PROVE TableBounded'
  <2>1. tasks' = tasks /\ Unpruned' = Unpruned
    BY <1>10 DEF Conclude, table, Unpruned, IInv, TypeInv
  <2> QED
    BY <2>1 DEF IInv, TableBounded, Unpruned
<1>11. ASSUME NEW t \in Turns, Emit(t) PROVE TableBounded'
  <2>1. tasks' = tasks /\ Unpruned' = Unpruned
    BY <1>11 DEF Emit, table, Unpruned, IInv, TypeInv
  <2> QED
    BY <2>1 DEF IInv, TableBounded, Unpruned
<1>12. ASSUME NEW t \in Turns, Forward(t) PROVE TableBounded'
  <2>1. tasks' = tasks /\ Unpruned' = Unpruned
    BY <1>12 DEF Forward, Release, table, Unpruned, IInv, TypeInv
  <2> QED
    BY <2>1 DEF IInv, TableBounded, Unpruned
<1>13. ASSUME NEW i \in Ids, Dispatch(i) PROVE TableBounded'
  <2>1. tasks' = tasks \cup {i} /\ Unpruned' = Unpruned \cup {i} /\ i \notin Unpruned
    BY <1>13 DEF Dispatch, Unpruned, IInv, TypeInv
  <2>2. Cardinality(tasks') <= Cardinality(tasks) + 1 /\ Cardinality(tasks') \in Nat
    <3>1. Cardinality(tasks) \in Nat /\ IsFiniteSet(tasks)
      BY TasksFinite DEF IInv
    <3>2. CASE i \in tasks
      BY <2>1, <3>1, <3>2, tasks \cup {i} = tasks
    <3>3. CASE i \notin tasks
      <4>1. Cardinality(tasks \cup {i}) = Cardinality(tasks) + 1
        BY <3>1, <3>3, FS_AddElement
      <4> QED
        BY <2>1, <3>1, <4>1
    <3> QED
      BY <3>2, <3>3
  <2>3. Cardinality(Unpruned') = Cardinality(Unpruned) + 1
    BY <2>1, TasksFinite, FS_AddElement DEF IInv
  <2> QED
    BY <2>2, <2>3, TasksFinite, BoundsPositive DEF IInv, TableBounded, Unpruned
<1>14. ASSUME NEW i \in Ids, Settle(i) PROVE TableBounded'
  <2>1. tasks' = tasks /\ Unpruned' = Unpruned
    BY <1>14 DEF Settle, Unpruned, IInv, TypeInv
  <2> QED
    BY <2>1 DEF IInv, TableBounded, Unpruned
<1>15. ASSUME NEW i \in Ids, Prune(i) PROVE TableBounded'
  <2> DEFINE c == Cardinality(tasks)
             n == Cardinality(Unpruned)
  <2>1. c \in Nat /\ n \in Nat /\ maxDelegateTasks \in Nat /\ c <= maxDelegateTasks + n
    BY TasksFinite, BoundsPositive DEF IInv, TableBounded, Unpruned
  <2>2. i \in Unpruned /\ Unpruned' = Unpruned \ {i}
    BY <1>15 DEF Prune, Unpruned, IInv, TypeInv
  <2>3. Cardinality(Unpruned') = n - 1
    BY <2>2, TasksFinite, FS_RemoveElement DEF IInv
  <2>4. n # 0
    BY <2>2, TasksFinite, FS_EmptySet DEF IInv
  <2>5. CASE c <= maxDelegateTasks
    BY <1>15, <2>1, <2>3, <2>4, <2>5 DEF Prune, TableBounded, Unpruned
  <2>6. CASE c > maxDelegateTasks
    <3>1. PICK first \in SUBSET tasks :
            Cardinality(first) = ToPrune /\ tasks' = tasks \ first
      BY <1>15, <2>1, <2>6 DEF Prune
    <3>2. tasks \cap first = first
      BY <3>1
    <3>3. Cardinality(tasks') = c - ToPrune
      BY <3>1, <3>2, TasksFinite, FS_Difference DEF IInv
    <3>4. ToPrune \in Nat /\ ToPrune >= 1 /\ c - ToPrune <= maxDelegateTasks + n - 1
      BY <2>1, <2>4, <2>6 DEF ToPrune
    <3> QED
      BY <2>1, <2>3, <3>3, <3>4 DEF TableBounded, Unpruned
  <2> QED
    BY <2>1, <2>5, <2>6
<1>16. ASSUME NEW i \in Ids, Note(i) PROVE TableBounded'
  <2>1. tasks' = tasks /\ Unpruned' = Unpruned
    BY <1>16 DEF Note, Unpruned, IInv, TypeInv
  <2> QED
    BY <2>1 DEF IInv, TableBounded, Unpruned
<1>17. ASSUME NEW s \in Sessions, Age(s) PROVE TableBounded'
  <2>1. tasks' = tasks /\ Unpruned' = Unpruned
    BY <1>17 DEF Age, table, Unpruned, IInv, TypeInv
  <2> QED
    BY <2>1 DEF IInv, TableBounded, Unpruned
<1>18. ASSUME Janitor PROVE TableBounded'
  <2>1. tasks' = tasks /\ Unpruned' = Unpruned
    BY <1>18 DEF Janitor, table, Unpruned, IInv, TypeInv
  <2> QED
    BY <2>1 DEF IInv, TableBounded, Unpruned
<1>19. ASSUME UNCHANGED vars PROVE TableBounded'
  <2>1. tasks' = tasks /\ Unpruned' = Unpruned
    BY <1>19 DEF vars, Unpruned, IInv, TypeInv
  <2> QED
    BY <2>1 DEF IInv, TableBounded, Unpruned
<1> QED
    BY <1>1, <1>2, <1>3, <1>4, <1>5, <1>6, <1>7, <1>8, <1>9, <1>10, <1>11, <1>12, <1>13,
     <1>14, <1>15, <1>16, <1>17, <1>18, <1>19 DEF Next, Work, Request, Task

-----------------------------------------------------------------------------
LEMMA InitInv == Init => IInv
<1> SUFFICES ASSUME Init PROVE IInv
  OBVIOUS
<1> USE BoundsPositive
<1>1. \A s \in Sessions : LastOf(log[s], maxMsgs) = <<>>
  BY EmptySeq DEF Init, LastOf
<1>2. TypeInv /\ PhaseInv /\ KeepsLatest
  <2>1. tasks \subseteq Ids /\ <<>> \in Seq(Messages) /\ 0 \in 0 .. MaxEvents
    BY EmptySeq DEF Init, Ids
  <2>2. TypeInv /\ PhaseInv
    BY <2>1 DEF Init, TypeInv, PhaseInv
  <2> QED
    BY <1>1, <2>2 DEF Init, KeepsLatest
<1>3. SlotInv
  <2>1. Slots = {}
    BY DEF Init, Slots, Holds
  <2> QED
    BY <2>1, FS_EmptySet DEF Init, SlotInv
<1>4. TableBounded
  <2>1. Unpruned = {}
    BY DEF Init, Unpruned
  <2>2. tasks \in SUBSET ((Past - maxDelegateTasks + 1) .. Past)
    BY DEF Init, Old
  <2>3. Cardinality(tasks) <= maxDelegateTasks
    <3>1. /\ IsFiniteSet((Past - maxDelegateTasks + 1) .. Past)
          /\ Cardinality((Past - maxDelegateTasks + 1) .. Past) = maxDelegateTasks
      BY FS_Interval
    <3> QED
      BY <2>2, <3>1, FS_Subset
  <2>4. Cardinality(Unpruned) = 0
    BY <2>1, FS_EmptySet
  <2>5. Cardinality(tasks) \in Nat
    BY <1>2, IdsFinite, FS_Subset, FS_CardinalityType DEF TypeInv
  <2> QED
    BY <2>3, <2>4, <2>5 DEF TableBounded, Unpruned
<1> QED
  BY <1>2, <1>3, <1>4 DEF IInv

LEMMA StepInv == IInv /\ [Next]_vars => IInv'
BY TypeStep, PhaseStep, SlotStep, TableStep DEF IInv

\* The parts of IInv hold together in every behaviour.
THEOREM Invariance == Spec => []IInv
BY InitInv, StepInv, PTL DEF Spec

\* Slots, turns, sessions and tasks are well typed; the gate never has more
\* slots than it was made with.
THEOREM TypeCorrect == Spec => []TypeOK
<1>1. IInv => TypeOK
  <2> SUFFICES ASSUME IInv PROVE TypeOK
    OBVIOUS
  <2>1. Cardinality(Slots) \in Nat
    BY TurnsFinite, FS_Subset, FS_CardinalityType DEF Slots
  <2>2. free \in 0 .. MaxConcurrentChats
    BY <2>1, BoundsPositive DEF IInv, SlotInv
  <2> QED
    BY <2>2 DEF IInv, TypeInv, TypeOK
<1> QED
  BY Invariance, <1>1, PTL

\* No slot is lost or given back twice, and a backend without a slot belongs
\* to a client that has gone (runner.go, Run).
THEOREM NoSlotLost == Spec => []SlotsAccounted
<1>1. IInv => SlotsAccounted
  <2> SUFFICES ASSUME IInv PROVE SlotsAccounted
    OBVIOUS
  <2>1. free + Cardinality({t \in Turns : Holds(t)}) = MaxConcurrentChats
    BY DEF IInv, SlotInv, Slots
  <2>2. \A t \in Turns : eng[t] \in {"run", "send", "last"} => Holds(t) \/ pc[t] = "left"
    BY DEF IInv, TypeInv, PhaseInv, Holds
  <2> QED
    BY <2>1, <2>2 DEF SlotsAccounted
<1> QED
  BY Invariance, <1>1, PTL

\* A session shows the latest of what was appended, and never Compact's
\* placeholder (session.go).
THEOREM HistoryIsLatest == Spec => []KeepsLatest
<1>1. IInv => KeepsLatest
  BY DEF IInv
<1> QED
  BY Invariance, <1>1, PTL

\* The table of tasks is as small as the prunes still due allow
\* (delegate.go).
THEOREM TableStaysSmall == Spec => []TableBounded
<1>1. IInv => TableBounded
  BY DEF IInv
<1> QED
  BY Invariance, <1>1, PTL
-----------------------------------------------------------------------------
(***************************************************************************)
(* What a session has been told.  KeepsLatest relates what it shows to the *)
(* log; this is about the log.                                             *)
(***************************************************************************)

Said(s, m) == \E k \in 1 .. Len(log[s]) : log[s][k] = m
User(x) == [role |-> "user", by |-> x]
Answer(t) == [role |-> "assistant", by |-> t]

\* A message is in the session of its turn or task only and once, and an
\* answer comes after the question of its turn.
SaidOnce ==
  \A s \in Sessions : \A k \in 1 .. Len(log[s]) :
    LET m == log[s][k] IN
    /\ m.by \in Turns \cup Ids /\ s = sess[m.by]
    /\ \A j \in 1 .. Len(log[s]) : log[s][j] = m => j = k
    /\ m.role = "assistant" => \E j \in 1 .. Len(log[s]) : j < k /\ log[s][j] = User(m.by)

\* How far the goroutines have come tells what has been said.
SaidInv ==
  /\ \A t \in Turns :
       /\ Said(sess[t], User(t)) => pc[t] \notin {"idle", "got", "acquired"}
       /\ pc[t] \in {"appended", "compacted", "on", "left", "done"} => Said(sess[t], User(t))
       /\ Said(sess[t], Answer(t)) => eng[t] \in {"last", "over"}
  /\ \A i \in Ids : Said(sess[i], User(i)) => dt[i] = "noted"

LEMMA AppendSays ==
  ASSUME TypeInv, SaidOnce, NEW s \in Sessions, NEW m \in Messages, AppendMsg(s, m),
         UNCHANGED sess, ~Said(s, m),
         m.by \in Turns \cup Ids /\ s = sess[m.by],
         m.role = "assistant" => Said(s, User(m.by))
  PROVE  /\ SaidOnce'
         /\ \A x \in Sessions : \A n : Said(x, n)' <=> Said(x, n) \/ (x = s /\ n = m)
<1>1. \A x \in Sessions : log[x] \in Seq(Messages) /\ Len(log[x]) \in Nat
  BY LenProperties DEF TypeInv
<1>2. \A x \in Sessions : x # s => log'[x] = log[x]
  BY DEF AppendMsg, TypeInv
<1>3. log'[s] = Append(log[s], m)
  BY DEF AppendMsg, TypeInv
<1> DEFINE old == log[s]
           now == log'[s]
<1>4. /\ Len(now) = Len(old) + 1 /\ now[Len(old) + 1] = m
      /\ \A k \in 1 .. Len(old) : now[k] = old[k]
  BY <1>1, <1>3
<1>5. 1 .. Len(now) = 1 .. Len(old) \cup {Len(old) + 1} /\ Len(old) + 1 \notin 1 .. Len(old)
  BY <1>1, <1>4
<1>6. \A x \in Sessions : \A n : Said(x, n)' <=> Said(x, n) \/ (x = s /\ n = m)
  <2> SUFFICES ASSUME NEW x \in Sessions, NEW n
               PROVE  Said(x, n)' <=> Said(x, n) \/ (x = s /\ n = m)
    OBVIOUS
  <2>1. CASE x # s
    BY <1>2, <2>1 DEF Said
  <2>2. CASE x = s
    BY <1>4, <1>5, <2>2 DEF Said
  <2> QED
    BY <2>1, <2>2
<1>7. \A k \in 1 .. Len(old) : now[k] # m
  BY <1>4 DEF Said
<1>8. SaidOnce'
  <2> SUFFICES ASSUME NEW x \in Sessions, NEW k \in 1 .. Len(log'[x])
               PROVE  /\ log'[x][k].by \in Turns \cup Ids /\ x = sess[log'[x][k].by]
                      /\ \A j \in 1 .. Len(log'[x]) : log'[x][j] = log'[x][k] => j = k
                      /\ log'[x][k].role = "assistant" =>
                           \E j \in 1 .. Len(log'[x]) :
                             j < k /\ log'[x][j] = User(log'[x][k].by)
    BY DEF SaidOnce, User
  <2>1. CASE x # s
    BY <1>2, <2>1 DEF SaidOnce
  <2>2. CASE x = s /\ k = Len(old) + 1
    <3>1. log'[x][k] = m
      BY <1>4, <2>2
    <3>2. \A j \in 1 .. Len(log'[x]) : log'[x][j] = m => j = k
      BY <1>4, <1>5, <1>7, <2>2
    <3>3. ASSUME m.role = "assistant"
          PROVE  \E j \in 1 .. Len(log'[x]) : j < k /\ log'[x][j] = User(m.by)
      <4>1. PICK j \in 1 .. Len(old) : old[j] = User(m.by)
        BY <3>3 DEF Said
      <4>2. j \in 1 .. Len(now) /\ j < k /\ now[j] = User(m.by)
        BY <1>1, <1>4, <1>5, <2>2, <4>1
      <4> QED
        BY <2>2, <4>2
    <3> QED
      BY <2>2, <3>1, <3>2, <3>3
  <2>3. CASE x = s /\ k \in 1 .. Len(old)
    <3>1. now[k] = old[k] /\ old[k].by \in Turns \cup Ids /\ s = sess[old[k].by]
      BY <1>4, <2>3 DEF SaidOnce
    <3>2. ASSUME NEW j \in 1 .. Len(now), now[j] = now[k] PROVE j = k
      <4>1. j \in 1 .. Len(old)
        BY <1>4, <1>5, <1>7, <2>3, <3>2
      <4>2. old[j] = old[k]
        BY <1>4, <2>3, <3>2, <4>1
      <4> QED
        BY <2>3, <4>1, <4>2 DEF SaidOnce
    <3>3. ASSUME old[k].role = "assistant"
          PROVE  \E j \in 1 .. Len(now) : j < k /\ now[j] = User(old[k].by)
      <4>1. PICK j \in 1 .. Len(old) : j < k /\ old[j] = User(old[k].by)
        BY <2>3, <3>3 DEF SaidOnce
      <4> QED
        BY <1>4, <1>5, <4>1
    <3> QED
      BY <2>3, <3>1, <3>2, <3>3
  <2> QED
    BY <1>5, <2>1, <2>2, <2>3
<1> QED
  BY <1>6, <1>8

LEMMA NothingSays ==
  ASSUME UNCHANGED <<log, sess>>
  PROVE  /\ SaidOnce => SaidOnce'
         /\ \A x \in Sessions : \A n : Said(x, n)' <=> Said(x, n)
BY DEF SaidOnce, Said, User

\* A session of a turn or a task is a session.
LEMMA SessOf == TypeInv => \A x \in Turns \cup Ids : sess[x] \in Sessions
BY DEF TypeInv

LEMMA SaidStep == IInv /\ SaidOnce /\ SaidInv /\ [Next]_vars => (SaidOnce /\ SaidInv)'
<1> SUFFICES ASSUME IInv, SaidOnce, SaidInv, [Next]_vars PROVE (SaidOnce /\ SaidInv)'
  OBVIOUS
<1> USE SessOf, TurnsAreNotTasks
<1>0. TypeInv /\ PhaseInv /\ KeepsLatest
  BY DEF IInv
<1>1. ASSUME NEW t \in Turns, AppendUser(t) PROVE (SaidOnce /\ SaidInv)'
  <2>1. /\ pc[t] = "acquired" /\ pc' = [pc EXCEPT ![t] = "appended"]
        /\ AppendMsg(sess[t], User(t)) /\ UNCHANGED <<eng, sess, dt>>
    BY <1>1 DEF AppendUser, Go, User, table
  <2>2. User(t) \in Messages /\ User(t).by = t /\ User(t).role = "user"
    BY DEF User, Messages
  <2>3. ~Said(sess[t], User(t))
    BY <2>1 DEF SaidInv
  <2>4. SaidOnce' /\ \A x \in Sessions : \A n :
          Said(x, n)' <=> Said(x, n) \/ (x = sess[t] /\ n = User(t))
    BY <1>0, <2>1, <2>2, <2>3, AppendSays
  <2>5. \A x \in Turns \cup Ids : (User(x) = User(t) <=> x = t) /\ Answer(x) # User(t)
    BY DEF User, Answer
  <2> QED
    BY <1>0, <2>1, <2>4, <2>5 DEF SaidInv, TypeInv
<1>2. ASSUME NEW t \in Turns, Conclude(t), ~UNCHANGED history PROVE (SaidOnce /\ SaidInv)'
  <2>1. /\ eng[t] = "run" /\ AppendMsg(sess[t], Answer(t))
        /\ eng' = [eng EXCEPT ![t] = "last"] \/ eng' = [eng EXCEPT ![t] = "over"]
        /\ UNCHANGED <<pc, sess, dt>>
    BY <1>2 DEF Conclude, Answer, table
  <2>2. Answer(t) \in Messages /\ Answer(t).by = t /\ Answer(t).role = "assistant"
    BY DEF Answer, Messages
  <2>3. ~Said(sess[t], Answer(t)) /\ Said(sess[t], User(t))
    BY <1>0, <2>1 DEF SaidInv, PhaseInv
  <2>4. SaidOnce' /\ \A x \in Sessions : \A n :
          Said(x, n)' <=> Said(x, n) \/ (x = sess[t] /\ n = Answer(t))
    BY <1>0, <2>1, <2>2, <2>3, AppendSays
  <2>5. \A x \in Turns \cup Ids : User(x) # Answer(t) /\ (Answer(x) = Answer(t) <=> x = t)
    BY DEF User, Answer
  <2>6. eng'[t] \in {"last", "over"} /\ \A u \in Turns : u # t => eng'[u] = eng[u]
    BY <1>0, <2>1 DEF TypeInv
  <2>7. \A x \in Turns \cup Ids : Said(sess[x], User(x))' <=> Said(sess[x], User(x))
    BY <1>0, <2>1, <2>4, <2>5
  <2>8. \A u \in Turns : u # t => (Said(sess[u], Answer(u))' <=> Said(sess[u], Answer(u)))
    BY <1>0, <2>1, <2>4, <2>5
  <2> QED
    BY <2>1, <2>4, <2>6, <2>7, <2>8 DEF SaidInv
<1>3. ASSUME NEW i \in Ids, Note(i) PROVE (SaidOnce /\ SaidInv)'
  <2>1. /\ dt[i] = "pruned" /\ dt' = [dt EXCEPT ![i] = "noted"]
        /\ AppendMsg(sess[i], User(i)) /\ UNCHANGED <<pc, eng, sess>>
    BY <1>3 DEF Note, User, turns
  <2>2. User(i) \in Messages /\ User(i).by = i /\ User(i).role = "user"
    BY DEF User, Messages
  <2>3. ~Said(sess[i], User(i))
    BY <2>1 DEF SaidInv
  <2>4. SaidOnce' /\ \A x \in Sessions : \A n :
          Said(x, n)' <=> Said(x, n) \/ (x = sess[i] /\ n = User(i))
    BY <1>0, <2>1, <2>2, <2>3, AppendSays
  <2>5. \A x \in Turns \cup Ids : (User(x) = User(i) <=> x = i) /\ Answer(x) # User(i)
    BY DEF User, Answer
  <2> QED
    BY <1>0, <2>1, <2>4, <2>5 DEF SaidInv, TypeInv
<1> DEFINE Quiet == UNCHANGED <<log, sess>>
\* Steps that append nothing.
<1>4. ASSUME Quiet, UNCHANGED <<eng, dt>>, NEW t \in Turns, NEW to,
             pc' = [pc EXCEPT ![t] = to],
             to \in {"got", "acquired"} => pc[t] \in {"idle", "got"},
             to \in {"appended", "compacted", "on", "left", "done"} =>
               pc[t] \in {"appended", "compacted", "on", "left", "done"},
             to # "idle"
      PROVE  (SaidOnce /\ SaidInv)'
  BY <1>0, <1>4, NothingSays DEF SaidInv, TypeInv
<1>5. ASSUME NEW t \in Turns,
             \/ Get(t) \/ TryAcquire(t) \/ CompactHistory(t) \/ EngineRefuses(t)
             \/ Publish(t) \/ Finished(t)
      PROVE  (SaidOnce /\ SaidInv)'
  <2>1. Quiet /\ UNCHANGED <<eng, dt>>
    BY <1>0, <1>5, CompactKeeps DEF Get, TryAcquire, CompactHistory, EngineRefuses, Publish,
       Finished, history, table
  <2>2. CASE Get(t)
    BY <1>4, <2>1, <2>2 DEF Get, Go
  <2>3. CASE TryAcquire(t)
    BY <1>4, <2>1, <2>3 DEF TryAcquire, Go
  <2>4. CASE CompactHistory(t)
    BY <1>4, <2>1, <2>4 DEF CompactHistory, Go
  <2>5. CASE EngineRefuses(t)
    BY <1>4, <2>1, <2>5 DEF EngineRefuses, Go
  <2>6. CASE Publish(t) \/ Finished(t)
    BY <1>4, <2>1, <2>6 DEF Publish, Finished, Go
  <2> QED
    BY <1>5, <2>2, <2>3, <2>4, <2>5, <2>6
<1>6. ASSUME NEW t \in Turns, EngineRuns(t) PROVE (SaidOnce /\ SaidInv)'
  <2>1. /\ Quiet /\ UNCHANGED dt /\ pc[t] = "compacted" /\ pc' = [pc EXCEPT ![t] = "on"]
        /\ eng' = [eng EXCEPT ![t] = "run"] /\ eng[t] = "off"
    BY <1>0, <1>6 DEF EngineRuns, Go, history, table, PhaseInv
  <2> QED
    BY <1>0, <2>1, NothingSays DEF SaidInv, TypeInv
<1>7. ASSUME NEW t \in Turns,
             \/ Produce(t) \/ Emit(t) \/ Forward(t) \/ (Conclude(t) /\ UNCHANGED history)
      PROVE  (SaidOnce /\ SaidInv)'
  <2>1. Quiet /\ UNCHANGED <<pc, dt>>
    BY <1>7 DEF Produce, Emit, Forward, Release, Conclude, history, table
  <2>2. \A u \in Turns : eng[u] \in {"last", "over"} => eng'[u] \in {"last", "over"}
    BY <1>0, <1>7 DEF Produce, Emit, AfterSend, Forward, Release, Conclude, TypeInv
  <2> QED
    BY <1>0, <2>1, <2>2, NothingSays DEF SaidInv
<1>8. ASSUME Quiet, UNCHANGED <<pc, eng>>, \A i \in Ids : dt[i] = "noted" => dt'[i] = "noted"
      PROVE  (SaidOnce /\ SaidInv)'
  BY <1>0, <1>8, NothingSays DEF SaidInv
<1>9. ASSUME NEW i \in Ids, Dispatch(i) \/ Settle(i) \/ Prune(i) PROVE (SaidOnce /\ SaidInv)'
  <2>1. Quiet /\ UNCHANGED <<pc, eng>>
    BY <1>9 DEF Dispatch, Settle, Prune, turns, history
  <2>2. \A j \in Ids : dt[j] = "noted" => dt'[j] = "noted"
    BY <1>0, <1>9 DEF Dispatch, Settle, Prune, TypeInv
  <2> QED
    BY <1>8, <2>1, <2>2
<1>10. CASE Janitor \/ (\E s \in Sessions : Age(s)) \/ UNCHANGED vars
  BY <1>8, <1>10 DEF Janitor, Age, turns, table, vars
<1> QED
  BY <1>1, <1>2, <1>3, <1>5, <1>6, <1>7, <1>9, <1>10 DEF Next, Work, Request, Task

\* Turns, backends and tasks that write to one session in any order repeat
\* and misplace no message, and no answer comes before its question
\* (runner.go, engine_eino.go, delegate.go).
THEOREM HistoryInOrder == Spec => []SaidOnce
<1>1. Init => SaidOnce /\ SaidInv
  <2> SUFFICES ASSUME Init PROVE SaidOnce /\ SaidInv
    OBVIOUS
  <2>1. \A s \in Sessions : 1 .. Len(log[s]) = {}
    BY DEF Init
  <2>2. \A x \in Turns \cup Ids : sess[x] \in Sessions
    BY DEF Init
  <2> QED
    BY <2>1, <2>2 DEF Init, SaidOnce, SaidInv, Said
<1> QED
  BY Invariance, SaidStep, <1>1, PTL DEF Spec
=============================================================================
