------------------------- MODULE AcpReader_proofs -------------------------
(***************************************************************************)
(* Proofs about AcpReader for any agents, limit and number of terminals.   *)
(***************************************************************************)
EXTENDS AcpReader, FiniteSetTheorems, TLAPS

Started == {p \in Procs : owner[p] # None}
Inserting == {a \in Agents : reader[a].at = "insert"}

\* Each process that was started has its id or a reader about to give it one.
CountInv == seq + Cardinality(Inserting) = Cardinality(Started)

\* Ids are given in order, and the processes in the table have an owner.
TableInv ==
  /\ \A i \in Ids : terms[i] # None => i <= seq /\ owner[terms[i]] # None
  /\ \A a \in Agents : \A i \in known[a] : i <= seq

\* What a reader holds.
ReaderInv ==
  /\ \A a \in Agents : reader[a].at \in {"wait", "kill", "release"} => reader[a].id \in Ids
  /\ \A a \in Agents : reader[a].at \in {"insert", "slay"} => reader[a].proc \in Procs
  /\ \A a \in Agents : reader[a].at = "insert" => owner[reader[a].proc] = a
  /\ \A p \in running : owner[p] # None

IInv == TypeOK /\ CountInv /\ TableInv /\ ReaderInv /\ AlmostBounded /\ Reachable /\ OwnTerminal


LEMMA Finite ==
  ASSUME TypeOK
  PROVE  /\ IsFiniteSet(Started) /\ Cardinality(Started) \in Nat /\ Cardinality(Started) <= Starts
         /\ IsFiniteSet(Inserting) /\ Cardinality(Inserting) \in Nat
         /\ IsFiniteSet(Live) /\ Cardinality(Live) \in Nat
         /\ IsFiniteSet(Starting) /\ Cardinality(Starting) \in Nat
         /\ Cardinality(Starting) <= Cardinality(Agents)
         /\ Cardinality(Agents) \in Nat
<1>1. IsFiniteSet(Procs) /\ Cardinality(Procs) = Starts
  BY BoundsPositive, FS_Interval DEF Procs
<1>2. Started \subseteq Procs /\ Inserting \subseteq Agents /\ Live \subseteq Procs /\ Starting \subseteq Agents
  BY DEF Started, Inserting, Live, Starting, Ids, Procs
<1> QED
  BY <1>1, <1>2, AgentsFinite, FS_Subset, FS_CardinalityType

\* Types; that the next id exists follows from the count of started processes.
LEMMA TypeStep == IInv /\ [Next]_vars => TypeOK'
<1> SUFFICES ASSUME IInv, [Next]_vars PROVE TypeOK'
  OBVIOUS
<1> USE NoneIsNew, BoundsPositive DEF Goes, At, Rest, Table, Procs, Ids, ReaderRec
<1>1. ASSUME NEW a \in Agents, NEW m \in Message, Read(a, m) PROVE TypeOK'
  BY <1>1 DEF Read, FirstStep, Message, IInv, TypeOK, TableInv, ReaderInv
<1>2. ASSUME NEW a \in Agents, ReadEnd(a) PROVE TypeOK'
  BY <1>2 DEF ReadEnd, IInv, TypeOK, TableInv, ReaderInv
<1>3. ASSUME NEW a \in Agents, Emit(a) PROVE TypeOK'
  BY <1>3 DEF Emit, IInv, TypeOK, TableInv, ReaderInv
<1>4. ASSUME NEW a \in Agents, SendOnClosed(a) PROVE TypeOK'
  BY <1>4 DEF SendOnClosed, IInv, TypeOK, TableInv, ReaderInv
<1>5. ASSUME NEW a \in Agents, CheckLimit(a) PROVE TypeOK'
  BY <1>5 DEF CheckLimit, IInv, TypeOK, TableInv, ReaderInv
<1>6. ASSUME NEW a \in Agents, StartFails(a) PROVE TypeOK'
  BY <1>6 DEF StartFails, IInv, TypeOK, TableInv, ReaderInv
<1>7. ASSUME NEW a \in Agents, NEW p \in Procs, Start(a, p) PROVE TypeOK'
  BY <1>7 DEF Start, IInv, TypeOK, TableInv, ReaderInv
<1>8. ASSUME NEW a \in Agents, Insert(a) PROVE TypeOK'
  <2>1. a \in Inserting
    BY <1>8 DEF Insert, Inserting
  <2>2. Cardinality(Inserting) # 0
    BY <2>1, Finite, FS_EmptySet DEF IInv
  <2>3. seq + 1 \in Ids
    BY <2>2, Finite DEF IInv, CountInv, TypeOK
  <2> QED
    BY <1>8, <2>3 DEF Insert, NextId, IInv, TypeOK, ReaderInv
<1>9. ASSUME NEW a \in Agents, Wait(a) PROVE TypeOK'
  BY <1>9 DEF Wait, IInv, TypeOK, TableInv, ReaderInv
<1>10. ASSUME NEW a \in Agents, WaitOver(a) PROVE TypeOK'
  BY <1>10 DEF WaitOver, Waits, IInv, TypeOK, TableInv, ReaderInv
<1>11. ASSUME NEW a \in Agents, Kill(a) PROVE TypeOK'
  BY <1>11 DEF Kill, IInv, TypeOK, TableInv, ReaderInv
<1>12. ASSUME NEW a \in Agents, Release(a) PROVE TypeOK'
  BY <1>12 DEF Release, IInv, TypeOK, TableInv, ReaderInv
<1>13. ASSUME NEW a \in Agents, Slay(a) PROVE TypeOK'
  BY <1>13 DEF Slay, IInv, TypeOK, TableInv, ReaderInv
<1>14. ASSUME NEW p \in Procs, Exit(p) PROVE TypeOK'
  BY <1>14 DEF Exit, IInv, TypeOK, TableInv, ReaderInv
<1>15. ASSUME UNCHANGED vars PROVE TypeOK'
  BY <1>15 DEF vars, IInv, TypeOK, TableInv, ReaderInv
<1> QED
  BY <1>1, <1>2, <1>3, <1>4, <1>5, <1>6, <1>7, <1>8, <1>9, <1>10, <1>11, <1>12, <1>13, <1>14, <1>15 DEF Next, ReaderStep

\* The count of started processes.
LEMMA CountStep == IInv /\ [Next]_vars => CountInv'
<1> SUFFICES ASSUME IInv, [Next]_vars PROVE CountInv'
  OBVIOUS
<1> USE NoneIsNew, BoundsPositive DEF Goes, At, Rest, Table, Procs, Ids, ReaderRec
<1>1. ASSUME NEW a \in Agents, NEW m \in Message, Read(a, m) PROVE CountInv'
  <2>1. Inserting' = Inserting /\ Started' = Started /\ seq' = seq
    BY <1>1 DEF Read, FirstStep, Message, Inserting, Started, IInv, TypeOK
  <2> QED
    BY <2>1 DEF IInv, CountInv
<1>2. ASSUME NEW a \in Agents, ReadEnd(a) PROVE CountInv'
  <2>1. Inserting' = Inserting /\ Started' = Started /\ seq' = seq
    BY <1>2 DEF ReadEnd, Inserting, Started, IInv, TypeOK
  <2> QED
    BY <2>1 DEF IInv, CountInv
<1>3. ASSUME NEW a \in Agents, Emit(a) PROVE CountInv'
  <2>1. Inserting' = Inserting /\ Started' = Started /\ seq' = seq
    BY <1>3 DEF Emit, Inserting, Started, IInv, TypeOK
  <2> QED
    BY <2>1 DEF IInv, CountInv
<1>4. ASSUME NEW a \in Agents, SendOnClosed(a) PROVE CountInv'
  <2>1. Inserting' = Inserting /\ Started' = Started /\ seq' = seq
    BY <1>4 DEF SendOnClosed, Inserting, Started, IInv, TypeOK
  <2> QED
    BY <2>1 DEF IInv, CountInv
<1>5. ASSUME NEW a \in Agents, CheckLimit(a) PROVE CountInv'
  <2>1. Inserting' = Inserting /\ Started' = Started /\ seq' = seq
    BY <1>5 DEF CheckLimit, Inserting, Started, IInv, TypeOK
  <2> QED
    BY <2>1 DEF IInv, CountInv
<1>6. ASSUME NEW a \in Agents, StartFails(a) PROVE CountInv'
  <2>1. Inserting' = Inserting /\ Started' = Started /\ seq' = seq
    BY <1>6 DEF StartFails, Inserting, Started, IInv, TypeOK
  <2> QED
    BY <2>1 DEF IInv, CountInv
<1>7. ASSUME NEW a \in Agents, NEW p \in Procs, Start(a, p) PROVE CountInv'
  <2>1. Inserting' = Inserting \cup {a} /\ a \notin Inserting
    BY <1>7 DEF Start, Inserting, IInv, TypeOK
  <2>2. Started' = Started \cup {p} /\ p \notin Started /\ seq' = seq
    BY <1>7 DEF Start, Started, IInv, TypeOK
  <2>3. Cardinality(Inserting') = Cardinality(Inserting) + 1
    BY <2>1, Finite, FS_AddElement DEF IInv
  <2>4. Cardinality(Started') = Cardinality(Started) + 1
    BY <2>2, Finite, FS_AddElement DEF IInv
  <2> QED
    BY <2>2, <2>3, <2>4, Finite DEF IInv, CountInv, TypeOK
<1>8. ASSUME NEW a \in Agents, Insert(a) PROVE CountInv'
  <2>1. Inserting' = Inserting \ {a} /\ a \in Inserting
    BY <1>8 DEF Insert, Inserting, IInv, TypeOK
  <2>2. Started' = Started /\ seq' = seq + 1
    BY <1>8 DEF Insert, NextId, Started
  <2>3. Cardinality(Inserting') = Cardinality(Inserting) - 1
    BY <2>1, Finite, FS_RemoveElement DEF IInv
  <2> QED
    <3>1. /\ seq \in Nat /\ Cardinality(Inserting) \in Nat /\ Cardinality(Started) \in Nat
          /\ seq + Cardinality(Inserting) = Cardinality(Started)
      BY Finite DEF IInv, CountInv, TypeOK
    <3> QED
      BY <2>2, <2>3, <3>1 DEF CountInv
<1>9. ASSUME NEW a \in Agents, Wait(a) PROVE CountInv'
  <2>1. Inserting' = Inserting /\ Started' = Started /\ seq' = seq
    BY <1>9 DEF Wait, Inserting, Started, IInv, TypeOK
  <2> QED
    BY <2>1 DEF IInv, CountInv
<1>10. ASSUME NEW a \in Agents, WaitOver(a) PROVE CountInv'
  <2>1. Inserting' = Inserting /\ Started' = Started /\ seq' = seq
    BY <1>10 DEF WaitOver, Waits, Inserting, Started, IInv, TypeOK
  <2> QED
    BY <2>1 DEF IInv, CountInv
<1>11. ASSUME NEW a \in Agents, Kill(a) PROVE CountInv'
  <2>1. Inserting' = Inserting /\ Started' = Started /\ seq' = seq
    BY <1>11 DEF Kill, Inserting, Started, IInv, TypeOK
  <2> QED
    BY <2>1 DEF IInv, CountInv
<1>12. ASSUME NEW a \in Agents, Release(a) PROVE CountInv'
  <2>1. Inserting' = Inserting /\ Started' = Started /\ seq' = seq
    BY <1>12 DEF Release, Inserting, Started, IInv, TypeOK
  <2> QED
    BY <2>1 DEF IInv, CountInv
<1>13. ASSUME NEW a \in Agents, Slay(a) PROVE CountInv'
  <2>1. Inserting' = Inserting /\ Started' = Started /\ seq' = seq
    BY <1>13 DEF Slay, Inserting, Started, IInv, TypeOK
  <2> QED
    BY <2>1 DEF IInv, CountInv
<1>14. ASSUME NEW p \in Procs, Exit(p) PROVE CountInv'
  <2>1. Inserting' = Inserting /\ Started' = Started /\ seq' = seq
    BY <1>14 DEF Exit, Inserting, Started, IInv, TypeOK
  <2> QED
    BY <2>1 DEF IInv, CountInv
<1>15. ASSUME UNCHANGED vars PROVE CountInv'
  <2>1. Inserting' = Inserting /\ Started' = Started /\ seq' = seq
    BY <1>15 DEF vars, Inserting, Started, IInv, TypeOK
  <2> QED
    BY <2>1 DEF IInv, CountInv
<1> QED
  BY <1>1, <1>2, <1>3, <1>4, <1>5, <1>6, <1>7, <1>8, <1>9, <1>10, <1>11, <1>12, <1>13, <1>14, <1>15 DEF Next, ReaderStep

\* Ids in the table and ids that agents know have been given.
LEMMA TableStep == IInv /\ TypeOK' /\ [Next]_vars => TableInv'
<1> SUFFICES ASSUME IInv, TypeOK', [Next]_vars PROVE TableInv'
  OBVIOUS
<1> USE NoneIsNew, BoundsPositive DEF Goes, At, Rest, Table, Procs, Ids, ReaderRec
<1>1. ASSUME NEW a \in Agents, NEW m \in Message, Read(a, m) PROVE TableInv'
  BY <1>1 DEF Read, FirstStep, Message, IInv, TypeOK, TableInv, ReaderInv
<1>2. ASSUME NEW a \in Agents, ReadEnd(a) PROVE TableInv'
  BY <1>2 DEF ReadEnd, IInv, TypeOK, TableInv, ReaderInv
<1>3. ASSUME NEW a \in Agents, Emit(a) PROVE TableInv'
  BY <1>3 DEF Emit, IInv, TypeOK, TableInv, ReaderInv
<1>4. ASSUME NEW a \in Agents, SendOnClosed(a) PROVE TableInv'
  BY <1>4 DEF SendOnClosed, IInv, TypeOK, TableInv, ReaderInv
<1>5. ASSUME NEW a \in Agents, CheckLimit(a) PROVE TableInv'
  BY <1>5 DEF CheckLimit, IInv, TypeOK, TableInv, ReaderInv
<1>6. ASSUME NEW a \in Agents, StartFails(a) PROVE TableInv'
  BY <1>6 DEF StartFails, IInv, TypeOK, TableInv, ReaderInv
<1>7. ASSUME NEW a \in Agents, NEW p \in Procs, Start(a, p) PROVE TableInv'
  BY <1>7 DEF Start, IInv, TypeOK, TableInv, ReaderInv
<1>8. ASSUME NEW a \in Agents, Insert(a) PROVE TableInv'
  BY <1>8 DEF Insert, NextId, IInv, TypeOK, TableInv, ReaderInv
<1>9. ASSUME NEW a \in Agents, Wait(a) PROVE TableInv'
  BY <1>9 DEF Wait, IInv, TypeOK, TableInv, ReaderInv
<1>10. ASSUME NEW a \in Agents, WaitOver(a) PROVE TableInv'
  BY <1>10 DEF WaitOver, Waits, IInv, TypeOK, TableInv, ReaderInv
<1>11. ASSUME NEW a \in Agents, Kill(a) PROVE TableInv'
  BY <1>11 DEF Kill, IInv, TypeOK, TableInv, ReaderInv
<1>12. ASSUME NEW a \in Agents, Release(a) PROVE TableInv'
  BY <1>12 DEF Release, IInv, TypeOK, TableInv, ReaderInv
<1>13. ASSUME NEW a \in Agents, Slay(a) PROVE TableInv'
  BY <1>13 DEF Slay, IInv, TypeOK, TableInv, ReaderInv
<1>14. ASSUME NEW p \in Procs, Exit(p) PROVE TableInv'
  BY <1>14 DEF Exit, IInv, TypeOK, TableInv, ReaderInv
<1>15. ASSUME UNCHANGED vars PROVE TableInv'
  BY <1>15 DEF vars, IInv, TypeOK, TableInv, ReaderInv
<1> QED
  BY <1>1, <1>2, <1>3, <1>4, <1>5, <1>6, <1>7, <1>8, <1>9, <1>10, <1>11, <1>12, <1>13, <1>14, <1>15 DEF Next, ReaderStep

\* What readers hold between two critical sections.
LEMMA ReaderStepInv == IInv /\ TypeOK' /\ [Next]_vars => ReaderInv'
<1> SUFFICES ASSUME IInv, TypeOK', [Next]_vars PROVE ReaderInv'
  OBVIOUS
<1> USE NoneIsNew, BoundsPositive DEF Goes, At, Rest, Table, Procs, Ids, ReaderRec
<1>1. ASSUME NEW a \in Agents, NEW m \in Message, Read(a, m) PROVE ReaderInv'
  BY <1>1 DEF Read, FirstStep, Message, IInv, TypeOK, TableInv, ReaderInv
<1>2. ASSUME NEW a \in Agents, ReadEnd(a) PROVE ReaderInv'
  BY <1>2 DEF ReadEnd, IInv, TypeOK, TableInv, ReaderInv
<1>3. ASSUME NEW a \in Agents, Emit(a) PROVE ReaderInv'
  BY <1>3 DEF Emit, IInv, TypeOK, TableInv, ReaderInv
<1>4. ASSUME NEW a \in Agents, SendOnClosed(a) PROVE ReaderInv'
  BY <1>4 DEF SendOnClosed, IInv, TypeOK, TableInv, ReaderInv
<1>5. ASSUME NEW a \in Agents, CheckLimit(a) PROVE ReaderInv'
  BY <1>5 DEF CheckLimit, IInv, TypeOK, TableInv, ReaderInv
<1>6. ASSUME NEW a \in Agents, StartFails(a) PROVE ReaderInv'
  BY <1>6 DEF StartFails, IInv, TypeOK, TableInv, ReaderInv
<1>7. ASSUME NEW a \in Agents, NEW p \in Procs, Start(a, p) PROVE ReaderInv'
  BY <1>7 DEF Start, IInv, TypeOK, TableInv, ReaderInv
<1>8. ASSUME NEW a \in Agents, Insert(a) PROVE ReaderInv'
  BY <1>8 DEF Insert, NextId, IInv, TypeOK, TableInv, ReaderInv
<1>9. ASSUME NEW a \in Agents, Wait(a) PROVE ReaderInv'
  BY <1>9 DEF Wait, IInv, TypeOK, TableInv, ReaderInv
<1>10. ASSUME NEW a \in Agents, WaitOver(a) PROVE ReaderInv'
  BY <1>10 DEF WaitOver, Waits, IInv, TypeOK, TableInv, ReaderInv
<1>11. ASSUME NEW a \in Agents, Kill(a) PROVE ReaderInv'
  BY <1>11 DEF Kill, IInv, TypeOK, TableInv, ReaderInv
<1>12. ASSUME NEW a \in Agents, Release(a) PROVE ReaderInv'
  BY <1>12 DEF Release, IInv, TypeOK, TableInv, ReaderInv
<1>13. ASSUME NEW a \in Agents, Slay(a) PROVE ReaderInv'
  BY <1>13 DEF Slay, IInv, TypeOK, TableInv, ReaderInv
<1>14. ASSUME NEW p \in Procs, Exit(p) PROVE ReaderInv'
  BY <1>14 DEF Exit, IInv, TypeOK, TableInv, ReaderInv
<1>15. ASSUME UNCHANGED vars PROVE ReaderInv'
  BY <1>15 DEF vars, IInv, TypeOK, TableInv, ReaderInv
<1> QED
  BY <1>1, <1>2, <1>3, <1>4, <1>5, <1>6, <1>7, <1>8, <1>9, <1>10, <1>11, <1>12, <1>13, <1>14, <1>15 DEF Next, ReaderStep

\* A reader that passed the check counts until its terminal is in the table.
LEMMA BoundStep == IInv /\ TypeOK' /\ [Next]_vars => AlmostBounded'
<1> SUFFICES ASSUME IInv, TypeOK', [Next]_vars PROVE AlmostBounded'
  OBVIOUS
<1> USE NoneIsNew, BoundsPositive DEF Goes, At, Rest, Table, Procs, Ids, ReaderRec
<1>1. ASSUME NEW a \in Agents, NEW m \in Message, Read(a, m) PROVE AlmostBounded'
  <2>1. Live' = Live /\ Starting' = Starting
    BY <1>1 DEF Read, FirstStep, Message, Live, Starting, IInv, TypeOK
  <2> QED
    BY <2>1 DEF IInv, AlmostBounded
<1>2. ASSUME NEW a \in Agents, ReadEnd(a) PROVE AlmostBounded'
  <2>1. Live' = Live /\ Starting' = Starting
    BY <1>2 DEF ReadEnd, Live, Starting, IInv, TypeOK
  <2> QED
    BY <2>1 DEF IInv, AlmostBounded
<1>3. ASSUME NEW a \in Agents, Emit(a) PROVE AlmostBounded'
  <2>1. Live' = Live /\ Starting' = Starting
    BY <1>3 DEF Emit, Live, Starting, IInv, TypeOK
  <2> QED
    BY <2>1 DEF IInv, AlmostBounded
<1>4. ASSUME NEW a \in Agents, SendOnClosed(a) PROVE AlmostBounded'
  <2>1. Live' = Live /\ Starting' = Starting
    BY <1>4 DEF SendOnClosed, Live, Starting, IInv, TypeOK
  <2> QED
    BY <2>1 DEF IInv, AlmostBounded
<1>5. ASSUME NEW a \in Agents, CheckLimit(a) PROVE AlmostBounded'
  <2>1. Live' = Live
    BY <1>5 DEF CheckLimit, Live
  <2>2. CASE Cardinality(Live) >= max
    <3>1. Starting' = Starting
      BY <1>5, <2>2 DEF CheckLimit, Starting, IInv, TypeOK
    <3> QED
      BY <2>1, <3>1 DEF IInv, AlmostBounded
  <2>3. CASE Cardinality(Live) < max
    <3>1. Cardinality(Starting') <= Cardinality(Agents) /\ Cardinality(Starting') \in Nat
          /\ Cardinality(Agents) \in Nat
      <4>1. Starting' \subseteq Agents
        BY DEF Starting
      <4> QED
        BY <4>1, AgentsFinite, FS_Subset, FS_CardinalityType
    <3> QED
      BY <2>1, <2>3, <3>1, Finite DEF IInv, AlmostBounded
  <2> QED
    BY <2>2, <2>3, Finite DEF IInv
<1>6. ASSUME NEW a \in Agents, StartFails(a) PROVE AlmostBounded'
  <2>1. Live' = Live /\ Starting' = Starting \ {a} /\ a \in Starting
    BY <1>6 DEF StartFails, Live, Starting, IInv, TypeOK
  <2>2. Cardinality(Starting') = Cardinality(Starting) - 1
    BY <2>1, Finite, FS_RemoveElement DEF IInv
  <2> QED
    BY <2>1, <2>2, Finite DEF IInv, AlmostBounded
<1>7. ASSUME NEW a \in Agents, NEW p \in Procs, Start(a, p) PROVE AlmostBounded'
  <2>1. Live' = Live /\ Starting' = Starting
    BY <1>7 DEF Start, Live, Starting, IInv, TypeOK
  <2> QED
    BY <2>1 DEF IInv, AlmostBounded
<1>8. ASSUME NEW a \in Agents, Insert(a) PROVE AlmostBounded'
  <2>1. Live' = Live \cup {seq + 1} /\ seq + 1 \notin Live
    BY <1>8 DEF Insert, NextId, Live, IInv, TypeOK, TableInv, ReaderInv
  <2>2. Starting' = Starting \ {a} /\ a \in Starting
    BY <1>8 DEF Insert, Starting, IInv, TypeOK
  <2>3. Cardinality(Live') = Cardinality(Live) + 1
    BY <2>1, Finite, FS_AddElement DEF IInv
  <2>4. Cardinality(Starting') = Cardinality(Starting) - 1
    BY <2>2, Finite, FS_RemoveElement DEF IInv
  <2> QED
    BY <2>3, <2>4, Finite DEF IInv, AlmostBounded
<1>9. ASSUME NEW a \in Agents, Wait(a) PROVE AlmostBounded'
  <2>1. Live' = Live /\ Starting' = Starting
    BY <1>9 DEF Wait, Live, Starting, IInv, TypeOK
  <2> QED
    BY <2>1 DEF IInv, AlmostBounded
<1>10. ASSUME NEW a \in Agents, WaitOver(a) PROVE AlmostBounded'
  <2>1. Live' = Live /\ Starting' = Starting
    BY <1>10 DEF WaitOver, Waits, Live, Starting, IInv, TypeOK
  <2> QED
    BY <2>1 DEF IInv, AlmostBounded
<1>11. ASSUME NEW a \in Agents, Kill(a) PROVE AlmostBounded'
  <2>1. Live' = Live /\ Starting' = Starting
    BY <1>11 DEF Kill, Live, Starting, IInv, TypeOK
  <2> QED
    BY <2>1 DEF IInv, AlmostBounded
<1>12. ASSUME NEW a \in Agents, Release(a) PROVE AlmostBounded'
  <2>1. Live' \subseteq Live /\ Starting' = Starting
    BY <1>12 DEF Release, Live, Starting, IInv, TypeOK
  <2>2. Cardinality(Live') <= Cardinality(Live) /\ Cardinality(Live') \in Nat
    BY <2>1, Finite, FS_Subset, FS_CardinalityType DEF IInv
  <2> QED
    BY <2>1, <2>2, Finite DEF IInv, AlmostBounded
<1>13. ASSUME NEW a \in Agents, Slay(a) PROVE AlmostBounded'
  <2>1. Live' = Live /\ Starting' = Starting
    BY <1>13 DEF Slay, Live, Starting, IInv, TypeOK
  <2> QED
    BY <2>1 DEF IInv, AlmostBounded
<1>14. ASSUME NEW p \in Procs, Exit(p) PROVE AlmostBounded'
  <2>1. Live' = Live /\ Starting' = Starting
    BY <1>14 DEF Exit, Live, Starting, IInv, TypeOK
  <2> QED
    BY <2>1 DEF IInv, AlmostBounded
<1>15. ASSUME UNCHANGED vars PROVE AlmostBounded'
  <2>1. Live' = Live /\ Starting' = Starting
    BY <1>15 DEF vars, Live, Starting, IInv, TypeOK
  <2> QED
    BY <2>1 DEF IInv, AlmostBounded
<1> QED
  BY <1>1, <1>2, <1>3, <1>4, <1>5, <1>6, <1>7, <1>8, <1>9, <1>10, <1>11, <1>12, <1>13, <1>14, <1>15 DEF Next, ReaderStep

\* A process passes from the reader to the table and back to a reader.
LEMMA ReachStep == IInv /\ TypeOK' /\ [Next]_vars => Reachable'
<1> SUFFICES ASSUME IInv, TypeOK', [Next]_vars PROVE Reachable'
  OBVIOUS
<1> USE NoneIsNew, BoundsPositive DEF Goes, At, Rest, Table, Procs, Ids, ReaderRec
<1>1. ASSUME NEW a \in Agents, NEW m \in Message, Read(a, m) PROVE Reachable'
  BY <1>1 DEF Read, FirstStep, Message, IInv, TypeOK, TableInv, ReaderInv, Reachable, Live
<1>2. ASSUME NEW a \in Agents, ReadEnd(a) PROVE Reachable'
  BY <1>2 DEF ReadEnd, IInv, TypeOK, TableInv, ReaderInv, Reachable, Live
<1>3. ASSUME NEW a \in Agents, Emit(a) PROVE Reachable'
  BY <1>3 DEF Emit, IInv, TypeOK, TableInv, ReaderInv, Reachable, Live
<1>4. ASSUME NEW a \in Agents, SendOnClosed(a) PROVE Reachable'
  BY <1>4 DEF SendOnClosed, IInv, TypeOK, TableInv, ReaderInv, Reachable, Live
<1>5. ASSUME NEW a \in Agents, CheckLimit(a) PROVE Reachable'
  BY <1>5 DEF CheckLimit, IInv, TypeOK, TableInv, ReaderInv, Reachable, Live
<1>6. ASSUME NEW a \in Agents, StartFails(a) PROVE Reachable'
  BY <1>6 DEF StartFails, IInv, TypeOK, TableInv, ReaderInv, Reachable, Live
<1>7. ASSUME NEW a \in Agents, NEW p \in Procs, Start(a, p) PROVE Reachable'
  <2>1. /\ terms' = terms /\ killed' = killed /\ running' = running \cup {p}
        /\ reader'[a].at = "insert" /\ reader'[a].proc = p
        /\ \A b \in Agents \ {a} : reader'[b] = reader[b]
        /\ reader[a].at = "start"
    BY <1>7 DEF Start, IInv, TypeOK
  <2>2. ASSUME NEW q \in running' \ killed', q # p
        PROVE  \/ \E i \in Live' : terms'[i] = q
               \/ \E b \in Agents : reader'[b].at \in {"insert", "slay"} /\ reader'[b].proc = q
    BY <2>1, <2>2 DEF IInv, Reachable, Live
  <2> QED
    BY <2>1, <2>2 DEF Reachable
<1>8. ASSUME NEW a \in Agents, Insert(a) PROVE Reachable'
  <2>1. /\ killed' = killed /\ running' = running
        /\ reader[a].at = "insert"
        /\ \A b \in Agents \ {a} : reader'[b] = reader[b]
    BY <1>8 DEF Insert, IInv, TypeOK
  <2>2. /\ seq + 1 \in Ids /\ terms'[seq + 1] = reader[a].proc
        /\ \A i \in Ids \ {seq + 1} : terms'[i] = terms[i]
        /\ terms[seq + 1] = None
    BY <1>8 DEF Insert, NextId, IInv, TypeOK, TableInv
  <2>3. ASSUME NEW q \in running' \ killed'
        PROVE  \/ \E i \in Live' : terms'[i] = q
               \/ \E b \in Agents : reader'[b].at \in {"insert", "slay"} /\ reader'[b].proc = q
    <3>1. q \in running \ killed /\ q # None
      BY <2>1, <2>3 DEF IInv, TypeOK
    <3>2. CASE q = reader[a].proc
      BY <2>2, <3>1, <3>2 DEF Live
    <3>3. CASE \E i \in Live : terms[i] = q
      BY <2>2, <3>1, <3>3 DEF Live
    <3>4. CASE \E b \in Agents \ {a} : reader[b].at \in {"insert", "slay"} /\ reader[b].proc = q
      BY <2>1, <3>4
    <3> QED
      BY <3>1, <3>2, <3>3, <3>4 DEF IInv, Reachable
  <2> QED
    BY <2>3 DEF Reachable
<1>9. ASSUME NEW a \in Agents, Wait(a) PROVE Reachable'
  BY <1>9 DEF Wait, IInv, TypeOK, TableInv, ReaderInv, Reachable, Live
<1>10. ASSUME NEW a \in Agents, WaitOver(a) PROVE Reachable'
  BY <1>10 DEF WaitOver, Waits, IInv, TypeOK, TableInv, ReaderInv, Reachable, Live
<1>11. ASSUME NEW a \in Agents, Kill(a) PROVE Reachable'
  BY <1>11 DEF Kill, IInv, TypeOK, TableInv, ReaderInv, Reachable, Live
<1>12. ASSUME NEW a \in Agents, Release(a) PROVE Reachable'
  BY <1>12 DEF Release, IInv, TypeOK, TableInv, ReaderInv, Reachable, Live
<1>13. ASSUME NEW a \in Agents, Slay(a) PROVE Reachable'
  BY <1>13 DEF Slay, IInv, TypeOK, TableInv, ReaderInv, Reachable, Live
<1>14. ASSUME NEW p \in Procs, Exit(p) PROVE Reachable'
  BY <1>14 DEF Exit, IInv, TypeOK, TableInv, ReaderInv, Reachable, Live
<1>15. ASSUME UNCHANGED vars PROVE Reachable'
  BY <1>15 DEF vars, IInv, TypeOK, TableInv, ReaderInv, Reachable, Live
<1> QED
  BY <1>1, <1>2, <1>3, <1>4, <1>5, <1>6, <1>7, <1>8, <1>9, <1>10, <1>11, <1>12, <1>13, <1>14, <1>15 DEF Next, ReaderStep

\* Ids are never given twice.
LEMMA OwnStep == IInv /\ TypeOK' /\ [Next]_vars => OwnTerminal'
<1> SUFFICES ASSUME IInv, TypeOK', [Next]_vars PROVE OwnTerminal'
  OBVIOUS
<1> USE NoneIsNew, BoundsPositive DEF Goes, At, Rest, Table, Procs, Ids, ReaderRec
<1>1. ASSUME NEW a \in Agents, NEW m \in Message, Read(a, m) PROVE OwnTerminal'
  BY <1>1 DEF Read, FirstStep, Message, IInv, TypeOK, TableInv, ReaderInv, OwnTerminal
<1>2. ASSUME NEW a \in Agents, ReadEnd(a) PROVE OwnTerminal'
  BY <1>2 DEF ReadEnd, IInv, TypeOK, TableInv, ReaderInv, OwnTerminal
<1>3. ASSUME NEW a \in Agents, Emit(a) PROVE OwnTerminal'
  BY <1>3 DEF Emit, IInv, TypeOK, TableInv, ReaderInv, OwnTerminal
<1>4. ASSUME NEW a \in Agents, SendOnClosed(a) PROVE OwnTerminal'
  BY <1>4 DEF SendOnClosed, IInv, TypeOK, TableInv, ReaderInv, OwnTerminal
<1>5. ASSUME NEW a \in Agents, CheckLimit(a) PROVE OwnTerminal'
  BY <1>5 DEF CheckLimit, IInv, TypeOK, TableInv, ReaderInv, OwnTerminal
<1>6. ASSUME NEW a \in Agents, StartFails(a) PROVE OwnTerminal'
  BY <1>6 DEF StartFails, IInv, TypeOK, TableInv, ReaderInv, OwnTerminal
<1>7. ASSUME NEW a \in Agents, NEW p \in Procs, Start(a, p) PROVE OwnTerminal'
  BY <1>7 DEF Start, IInv, TypeOK, TableInv, ReaderInv, OwnTerminal
<1>8. ASSUME NEW a \in Agents, Insert(a) PROVE OwnTerminal'
  BY <1>8 DEF Insert, NextId, IInv, TypeOK, TableInv, ReaderInv, OwnTerminal
<1>9. ASSUME NEW a \in Agents, Wait(a) PROVE OwnTerminal'
  BY <1>9 DEF Wait, IInv, TypeOK, TableInv, ReaderInv, OwnTerminal
<1>10. ASSUME NEW a \in Agents, WaitOver(a) PROVE OwnTerminal'
  BY <1>10 DEF WaitOver, Waits, IInv, TypeOK, TableInv, ReaderInv, OwnTerminal
<1>11. ASSUME NEW a \in Agents, Kill(a) PROVE OwnTerminal'
  BY <1>11 DEF Kill, IInv, TypeOK, TableInv, ReaderInv, OwnTerminal
<1>12. ASSUME NEW a \in Agents, Release(a) PROVE OwnTerminal'
  BY <1>12 DEF Release, IInv, TypeOK, TableInv, ReaderInv, OwnTerminal
<1>13. ASSUME NEW a \in Agents, Slay(a) PROVE OwnTerminal'
  BY <1>13 DEF Slay, IInv, TypeOK, TableInv, ReaderInv, OwnTerminal
<1>14. ASSUME NEW p \in Procs, Exit(p) PROVE OwnTerminal'
  BY <1>14 DEF Exit, IInv, TypeOK, TableInv, ReaderInv, OwnTerminal
<1>15. ASSUME UNCHANGED vars PROVE OwnTerminal'
  BY <1>15 DEF vars, IInv, TypeOK, TableInv, ReaderInv, OwnTerminal
<1> QED
  BY <1>1, <1>2, <1>3, <1>4, <1>5, <1>6, <1>7, <1>8, <1>9, <1>10, <1>11, <1>12, <1>13, <1>14, <1>15 DEF Next, ReaderStep

-----------------------------------------------------------------------------
LEMMA InitInv == Init => IInv
<1> SUFFICES ASSUME Init PROVE IInv
  OBVIOUS
<1> USE NoneIsNew, BoundsPositive DEF Init, At, Procs, Ids, ReaderRec
<1>1. TypeOK
  BY DEF TypeOK
<1>2. Inserting = {} /\ Started = {} /\ Live = {} /\ Starting = {}
  BY DEF Inserting, Started, Live, Starting
<1>3. CountInv /\ AlmostBounded
  BY <1>1, <1>2, Finite, FS_EmptySet DEF CountInv, AlmostBounded
<1> QED
  BY <1>1, <1>3 DEF IInv, TableInv, ReaderInv, Reachable, OwnTerminal

LEMMA StepInv == IInv /\ [Next]_vars => IInv'
<1> SUFFICES ASSUME IInv, [Next]_vars PROVE IInv'
  OBVIOUS
<1>1. TypeOK'
  BY TypeStep
<1> QED
  BY <1>1, CountStep, TableStep, ReaderStepInv, BoundStep, ReachStep, OwnStep DEF IInv

\* The strengthened invariant holds in every behaviour.
THEOREM Invariance == Spec => []IInv
BY InitInv, StepInv, PTL DEF Spec

\* The state of readers, table and processes is well typed: the counter of
\* terminals never passes the number of processes that were started.
THEOREM TypeCorrect == Spec => []TypeOK
<1>1. IInv => TypeOK
  BY DEF IInv
<1> QED
  BY Invariance, <1>1, PTL

\* The unlocked gap of terminal/create costs at most one terminal per other
\* agent above the limit.
THEOREM LimitAlmostKept == Spec => []AlmostBounded
<1>1. IInv => AlmostBounded
  BY DEF IInv
<1> QED
  BY Invariance, <1>1, PTL

\* No terminal's process runs without an id, a creator or a killer.
THEOREM NoTerminalLost == Spec => []Reachable
<1>1. IInv => Reachable
  BY DEF IInv
<1> QED
  BY Invariance, <1>1, PTL

\* An agent's terminal ids denote its own terminals or nothing.
THEOREM IdsStayOwn == Spec => []OwnTerminal
<1>1. IInv => OwnTerminal
  BY DEF IInv
<1> QED
  BY Invariance, <1>1, PTL
=============================================================================
