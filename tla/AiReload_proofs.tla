-------------------------- MODULE AiReload_proofs --------------------------
(***************************************************************************)
(* Proofs about AiReload for any updates, backends and number of kills:    *)
(* the inductive invariant and its consequences, then the implementation   *)
(* of ServiceSlot.                                                         *)
(***************************************************************************)
EXTENDS AiReload, TLAPS

\* What an update holds follows from where it is; a process that is down
\* holds nothing.
PcInv ==
  /\ \A u \in Updates : pc[u] = "idle" \/ new[u] # None
  /\ \A u \in Updates : fd[u] # None <=> pc[u] \in {"opened", "written"}
  /\ \A u \in Updates : held[u] # None => pc[u] \in {"built", "swapped"}
  /\ ~up => aiRunner = None /\ \A u \in Updates : pc[u] \in Ended

BackInv ==
  /\ BackendsAccounted
  /\ \A u \in Updates : held[u] # None => life[held[u]] = "open"

\* Without overlapping writes there is one writer, and the temporary file is
\* its own.
FileInv ==
  ~overlap =>
    /\ file \in Settings
    /\ \A u, v \in Updates : fd[u] # None /\ fd[v] # None => u = v
    /\ \A u \in Updates : fd[u] # None =>
         fd[u] = "tmp" /\ tmp = IF pc[u] = "opened" THEN Empty ELSE new[u]

\* An update that overlaps no other finds what it left.
LoneInv ==
  \A u \in alone : pc[u] \notin Ended =>
    /\ \A v \in Updates \ {u} : pc[v] \in Ended
    /\ u \notin Admins /\ pc[u] \in {"gated", "checked"} => new[u].kind = mem.kind
    /\ pc[u] \notin {"gated", "checked"} => mem = new[u]
    /\ pc[u] \in {"opened", "written"} =>
         fd[u] = "tmp" /\ tmp = IF pc[u] = "opened" THEN Empty ELSE new[u]
    /\ pc[u] \in {"saved", "built", "swapped"} => file = new[u]
    /\ pc[u] = "built" =>
         IF new[u].enabled THEN held[u] # None /\ built[held[u]] = new[u] ELSE held[u] = None
    /\ pc[u] = "swapped" =>
         IF new[u].enabled THEN aiRunner # None /\ built[aiRunner] = new[u] ELSE aiRunner = None

\* Until an admin has changed the settings, operators bring the kind there is.
KindInv ==
  (\A v \in Admins : pc[v] \notin Stored) =>
    \A u \in Updates \ Admins : pc[u] \in {"gated", "checked"} => new[u].kind = mem.kind

IInv == TypeOK /\ PcInv /\ BackInv /\ FileInv /\ LoneInv /\ KindInv

\* A new backend is one that was not built.
LEMMA NewIsUnbuilt ==
  ASSUME NEW s, NewRunner(s)
  PROVE  Unbuilt \in Backends /\ life[Unbuilt] = "unbuilt"
BY DEF Unbuilt, NewRunner

\* Every step keeps the types.
LEMMA TypeStep == IInv /\ [Next]_vars => TypeOK'
<1> SUFFICES ASSUME IInv, [Next]_vars PROVE TypeOK'
  OBVIOUS
<1> USE NoneIsNew, UnreadableIsNew, InternalIsKind, BootIsNew, CrashesBounded
<1>1. ASSUME NEW u \in Updates, NEW s \in Settings, Request(u, s) PROVE TypeOK'
    BY <1>1 DEF Request, Go, Ended, MaySwitch, process, disk, service, IInv, PcInv,
     TypeOK, Ended, Settings, Sources
<1>2. ASSUME NEW u \in Updates, TakeKey(u) PROVE TypeOK'
    BY <1>2 DEF TakeKey, Go, process, disk, service, IInv, PcInv, TypeOK, Ended, Settings,
     Sources
<1>3. ASSUME NEW u \in Updates, Replace(u) PROVE TypeOK'
    BY <1>3 DEF Replace, Go, process, disk, service, IInv, PcInv, TypeOK, Ended, Settings,
     Sources
<1>4. ASSUME NEW u \in Updates, Open(u) PROVE TypeOK'
    BY <1>4 DEF Open, Go, process, disk, service, IInv, PcInv, TypeOK, Ended, Settings,
     Sources
<1>5. ASSUME NEW u \in Updates, Write(u) PROVE TypeOK'
    BY <1>5 DEF Write, Go, process, disk, service, Written, IInv, PcInv, TypeOK, Ended,
     Settings, Sources
<1>6. ASSUME NEW u \in Updates, Rename(u) PROVE TypeOK'
    BY <1>6 DEF Rename, Go, process, disk, service, IInv, PcInv, TypeOK, Ended, Settings,
     Sources
<1>7. ASSUME NEW u \in Updates, SaveFails(u) PROVE TypeOK'
    BY <1>7 DEF SaveFails, Go, process, disk, service, IInv, PcInv, TypeOK, Ended,
     Settings, Sources
<1>8. ASSUME NEW u \in Updates, Build(u) PROVE TypeOK'
  <2>1. CASE new[u].enabled
    <3>1. NewRunner(new[u]) /\ held' = [held EXCEPT ![u] = Unbuilt]
      BY <1>8, <2>1 DEF Build
    <3>2. Unbuilt \in Backends /\ life[Unbuilt] = "unbuilt"
      BY <3>1, NewIsUnbuilt
    <3> QED
            BY <1>8, <2>1, <3>1, <3>2 DEF Build, NewRunner, Go, process, disk, service,
         IInv, PcInv, TypeOK, Ended, Settings, Sources
  <2>2. CASE ~new[u].enabled
        BY <1>8, <2>2 DEF Build, Go, process, disk, service, IInv, PcInv, TypeOK, Ended,
       Settings, Sources
  <2> QED
    BY <2>1, <2>2
<1>9. ASSUME NEW u \in Updates, BuildFails(u) PROVE TypeOK'
    BY <1>9 DEF BuildFails, Go, process, disk, service, IInv, PcInv, TypeOK, Ended,
     Settings, Sources
<1>10. ASSUME NEW u \in Updates, Swap(u) PROVE TypeOK'
    BY <1>10 DEF Swap, Go, process, disk, service, IInv, PcInv, TypeOK, Ended, Settings,
     Sources
<1>11. ASSUME NEW u \in Updates, CloseOld(u) PROVE TypeOK'
    BY <1>11 DEF CloseOld, Go, process, disk, service, IInv, PcInv, TypeOK, Ended,
     Settings, Sources
<1>12. ASSUME Kill PROVE TypeOK'
  <2>1. crashes' \in 0 .. MaxCrashes
    <3>1. crashes \in Nat /\ crashes < MaxCrashes /\ crashes' = crashes + 1
      BY <1>12, CrashesBounded DEF Kill, IInv, TypeOK
    <3> QED
      BY <3>1, CrashesBounded
  <2>2. pc' \in [Updates -> Ended \cup {"gated", "checked", "stored", "opened", "written",
                                        "saved", "built", "swapped"}]
    BY <1>12 DEF Kill, IInv, TypeOK, Ended
  <2>3. life' \in [Backends -> {"unbuilt", "open", "closed"}]
    BY <1>12 DEF Kill, IInv, TypeOK
  <2> QED
    BY <1>12, <2>1, <2>2, <2>3 DEF Kill, IInv, TypeOK
<1>13. ASSUME Start PROVE TypeOK'
  <2>1. CASE NewRunner(file) /\ aiRunner' = Unbuilt
    <3>1. Unbuilt \in Backends /\ life[Unbuilt] = "unbuilt"
      BY <2>1, NewIsUnbuilt
    <3> QED
            BY <1>13, <2>1, <3>1 DEF Start, NewRunner, disk, IInv, PcInv, TypeOK, Ended,
         Settings, Sources
  <2>2. CASE UNCHANGED service
    BY <1>13, <2>2 DEF Start, service, disk, IInv, PcInv, TypeOK, Ended, Settings, Sources
  <2> QED
    BY <1>13, <2>1, <2>2 DEF Start
<1>14. ASSUME UNCHANGED vars PROVE TypeOK'
  BY <1>14 DEF vars, IInv, PcInv, TypeOK, Ended, Settings, Sources
<1> QED
    BY <1>1, <1>2, <1>3, <1>4, <1>5, <1>6, <1>7, <1>8, <1>9, <1>10, <1>11, <1>12, <1>13,
     <1>14 DEF Next, Step

\* Every step takes and gives back what its place says.
LEMMA PcStep == IInv /\ TypeOK' /\ [Next]_vars => PcInv'
<1> SUFFICES ASSUME IInv, TypeOK', [Next]_vars PROVE PcInv'
  OBVIOUS
<1> USE NoneIsNew, UnreadableIsNew, InternalIsKind, BootIsNew
<1>1. ASSUME NEW u \in Updates, NEW s \in Settings, Request(u, s) PROVE PcInv'
    BY <1>1 DEF Request, Go, Ended, MaySwitch, process, disk, service, IInv, PcInv,
     TypeOK, Ended
<1>2. ASSUME NEW u \in Updates, TakeKey(u) PROVE PcInv'
  <2>1. new[u] \in Settings
    BY <1>2 DEF TakeKey, IInv, PcInv, TypeOK
  <2>2. new' = [new EXCEPT ![u] = new'[u]] /\ new'[u] \in Settings
    BY <1>2, <2>1 DEF TakeKey, IInv, TypeOK, Settings
  <2> QED
    BY <1>2, <2>2 DEF TakeKey, Go, process, disk, service, IInv, PcInv, TypeOK, Ended
<1>3. ASSUME NEW u \in Updates, Replace(u) PROVE PcInv'
  BY <1>3 DEF Replace, Go, process, disk, service, IInv, PcInv, TypeOK, Ended
<1>4. ASSUME NEW u \in Updates, Open(u) PROVE PcInv'
  BY <1>4 DEF Open, Go, process, disk, service, IInv, PcInv, TypeOK, Ended
<1>5. ASSUME NEW u \in Updates, Write(u) PROVE PcInv'
  BY <1>5 DEF Write, Go, process, disk, service, Written, IInv, PcInv, TypeOK, Ended
<1>6. ASSUME NEW u \in Updates, Rename(u) PROVE PcInv'
  BY <1>6 DEF Rename, Go, process, disk, service, IInv, PcInv, TypeOK, Ended
<1>7. ASSUME NEW u \in Updates, SaveFails(u) PROVE PcInv'
  BY <1>7 DEF SaveFails, Go, process, disk, service, IInv, PcInv, TypeOK, Ended
<1>8. ASSUME NEW u \in Updates, Build(u) PROVE PcInv'
  BY <1>8 DEF Build, Go, process, disk, service, NewRunner, IInv, PcInv, TypeOK, Ended
<1>9. ASSUME NEW u \in Updates, BuildFails(u) PROVE PcInv'
  BY <1>9 DEF BuildFails, Go, process, disk, service, IInv, PcInv, TypeOK, Ended
<1>10. ASSUME NEW u \in Updates, Swap(u) PROVE PcInv'
  BY <1>10 DEF Swap, Go, process, disk, service, IInv, PcInv, TypeOK, Ended
<1>11. ASSUME NEW u \in Updates, CloseOld(u) PROVE PcInv'
  BY <1>11 DEF CloseOld, Go, process, disk, service, IInv, PcInv, TypeOK, Ended
<1>12. ASSUME Kill PROVE PcInv'
  BY <1>12 DEF Kill, IInv, PcInv, TypeOK, Ended
<1>13. ASSUME Start PROVE PcInv'
  BY <1>13 DEF Start, NewRunner, service, disk, IInv, PcInv, TypeOK, Ended
<1>14. ASSUME UNCHANGED vars PROVE PcInv'
  BY <1>14 DEF vars, IInv, PcInv, TypeOK, Ended
<1> QED
    BY <1>1, <1>2, <1>3, <1>4, <1>5, <1>6, <1>7, <1>8, <1>9, <1>10, <1>11, <1>12, <1>13,
     <1>14 DEF Next, Step

\* A backend passes from hand to hand.
LEMMA BackStep == IInv /\ TypeOK' /\ [Next]_vars => BackInv'
<1> SUFFICES ASSUME IInv, TypeOK', [Next]_vars PROVE BackInv'
  OBVIOUS
<1> USE NoneIsNew, UnreadableIsNew, InternalIsKind, BootIsNew
<1>1. ASSUME NEW u \in Updates, NEW s \in Settings, Request(u, s) PROVE BackInv'
    BY <1>1 DEF Request, Go, Ended, MaySwitch, process, disk, service, IInv, PcInv,
     BackInv, BackendsAccounted, TypeOK
<1>2. ASSUME NEW u \in Updates, TakeKey(u) PROVE BackInv'
    BY <1>2 DEF TakeKey, Go, process, disk, service, IInv, PcInv, BackInv,
     BackendsAccounted, TypeOK
<1>3. ASSUME NEW u \in Updates, Replace(u) PROVE BackInv'
    BY <1>3 DEF Replace, Go, process, disk, service, IInv, PcInv, BackInv,
     BackendsAccounted, TypeOK
<1>4. ASSUME NEW u \in Updates, Open(u) PROVE BackInv'
    BY <1>4 DEF Open, Go, process, disk, service, IInv, PcInv, BackInv, BackendsAccounted,
     TypeOK
<1>5. ASSUME NEW u \in Updates, Write(u) PROVE BackInv'
    BY <1>5 DEF Write, Go, process, disk, service, Written, IInv, PcInv, BackInv,
     BackendsAccounted, TypeOK
<1>6. ASSUME NEW u \in Updates, Rename(u) PROVE BackInv'
    BY <1>6 DEF Rename, Go, process, disk, service, IInv, PcInv, BackInv,
     BackendsAccounted, TypeOK
<1>7. ASSUME NEW u \in Updates, SaveFails(u) PROVE BackInv'
    BY <1>7 DEF SaveFails, Go, process, disk, service, IInv, PcInv, BackInv,
     BackendsAccounted, TypeOK
<1>8. ASSUME NEW u \in Updates, Build(u) PROVE BackInv'
  <2>1. CASE new[u].enabled
    <3>1. NewRunner(new[u]) /\ held' = [held EXCEPT ![u] = Unbuilt]
      BY <1>8, <2>1 DEF Build
    <3>2. Unbuilt \in Backends /\ life[Unbuilt] = "unbuilt"
      BY <3>1, NewIsUnbuilt
    <3> QED
            BY <1>8, <2>1, <3>1, <3>2 DEF Build, NewRunner, Go, process, disk, service,
         IInv, PcInv, BackInv, BackendsAccounted, TypeOK, Ended
  <2>2. CASE ~new[u].enabled
        BY <1>8, <2>2 DEF Build, Go, process, disk, service, IInv, PcInv, BackInv,
       BackendsAccounted, TypeOK, Ended
  <2> QED
    BY <2>1, <2>2
<1>9. ASSUME NEW u \in Updates, BuildFails(u) PROVE BackInv'
    BY <1>9 DEF BuildFails, Go, process, disk, service, IInv, PcInv, BackInv,
     BackendsAccounted, TypeOK
<1>10. ASSUME NEW u \in Updates, Swap(u) PROVE BackInv'
    BY <1>10 DEF Swap, Go, process, disk, service, IInv, PcInv, BackInv,
     BackendsAccounted, TypeOK
<1>11. ASSUME NEW u \in Updates, CloseOld(u) PROVE BackInv'
    BY <1>11 DEF CloseOld, Go, process, disk, service, IInv, PcInv, BackInv,
     BackendsAccounted, TypeOK
<1>12. ASSUME Kill PROVE BackInv'
  BY <1>12 DEF Kill, IInv, PcInv, BackInv, BackendsAccounted, TypeOK
<1>13. ASSUME Start PROVE BackInv'
  <2>1. CASE NewRunner(file) /\ aiRunner' = Unbuilt
    <3>1. Unbuilt \in Backends /\ life[Unbuilt] = "unbuilt"
      BY <2>1, NewIsUnbuilt
    <3> QED
            BY <1>13, <2>1, <3>1 DEF Start, NewRunner, disk, IInv, PcInv, BackInv,
         BackendsAccounted, TypeOK, Ended
  <2>2. CASE UNCHANGED service
        BY <1>13, <2>2 DEF Start, service, disk, IInv, PcInv, BackInv, BackendsAccounted,
       TypeOK, Ended
  <2> QED
    BY <1>13, <2>1, <2>2 DEF Start
<1>14. ASSUME UNCHANGED vars PROVE BackInv'
  BY <1>14 DEF vars, IInv, PcInv, BackInv, BackendsAccounted, TypeOK
<1> QED
    BY <1>1, <1>2, <1>3, <1>4, <1>5, <1>6, <1>7, <1>8, <1>9, <1>10, <1>11, <1>12, <1>13,
     <1>14 DEF Next, Step

\* A single writer leaves a whole file.
LEMMA FileStep == IInv /\ TypeOK' /\ [Next]_vars => FileInv'
<1> SUFFICES ASSUME IInv, TypeOK', [Next]_vars PROVE FileInv'
  OBVIOUS
<1> USE NoneIsNew, UnreadableIsNew, InternalIsKind, BootIsNew
<1>1. ASSUME NEW u \in Updates, NEW s \in Settings, Request(u, s) PROVE FileInv'
    BY <1>1 DEF Request, Go, Ended, MaySwitch, process, disk, service, IInv, PcInv,
     FileInv, TypeOK, Ended
<1>2. ASSUME NEW u \in Updates, TakeKey(u) PROVE FileInv'
  BY <1>2 DEF TakeKey, Go, process, disk, service, IInv, PcInv, FileInv, TypeOK, Ended
<1>3. ASSUME NEW u \in Updates, Replace(u) PROVE FileInv'
  BY <1>3 DEF Replace, Go, process, disk, service, IInv, PcInv, FileInv, TypeOK, Ended
<1>4. ASSUME NEW u \in Updates, Open(u) PROVE FileInv'
  <2> SUFFICES ASSUME ~overlap' PROVE FileInv'
    BY DEF FileInv
  <2>1. ~overlap /\ \A v \in Updates : fd[v] = None
    BY <1>4 DEF Open
  <2>2. \A v \in Updates : fd'[v] # None => v = u
    BY <1>4, <2>1 DEF Open, IInv, TypeOK
  <2>3. fd'[u] = "tmp" /\ tmp' = Empty /\ pc'[u] = "opened" /\ file' \in Settings
    BY <1>4, <2>1 DEF Open, Go, IInv, FileInv, TypeOK
  <2> QED
    BY <2>2, <2>3 DEF FileInv
<1>5. ASSUME NEW u \in Updates, Write(u) PROVE FileInv'
    BY <1>5 DEF Write, Go, process, disk, service, Written, IInv, PcInv, FileInv, TypeOK,
     Ended
<1>6. ASSUME NEW u \in Updates, Rename(u) PROVE FileInv'
  BY <1>6 DEF Rename, Go, process, disk, service, IInv, PcInv, FileInv, TypeOK, Ended
<1>7. ASSUME NEW u \in Updates, SaveFails(u) PROVE FileInv'
  BY <1>7 DEF SaveFails, Go, process, disk, service, IInv, PcInv, FileInv, TypeOK, Ended
<1>8. ASSUME NEW u \in Updates, Build(u) PROVE FileInv'
    BY <1>8 DEF Build, Go, process, disk, service, NewRunner, IInv, PcInv, FileInv,
     TypeOK, Ended
<1>9. ASSUME NEW u \in Updates, BuildFails(u) PROVE FileInv'
  BY <1>9 DEF BuildFails, Go, process, disk, service, IInv, PcInv, FileInv, TypeOK, Ended
<1>10. ASSUME NEW u \in Updates, Swap(u) PROVE FileInv'
  BY <1>10 DEF Swap, Go, process, disk, service, IInv, PcInv, FileInv, TypeOK, Ended
<1>11. ASSUME NEW u \in Updates, CloseOld(u) PROVE FileInv'
  BY <1>11 DEF CloseOld, Go, process, disk, service, IInv, PcInv, FileInv, TypeOK, Ended
<1>12. ASSUME Kill PROVE FileInv'
  BY <1>12 DEF Kill, IInv, PcInv, FileInv, TypeOK, Ended
<1>13. ASSUME Start PROVE FileInv'
  BY <1>13 DEF Start, NewRunner, service, disk, IInv, PcInv, FileInv, TypeOK, Ended
<1>14. ASSUME UNCHANGED vars PROVE FileInv'
  BY <1>14 DEF vars, IInv, PcInv, FileInv, TypeOK, Ended
<1> QED
    BY <1>1, <1>2, <1>3, <1>4, <1>5, <1>6, <1>7, <1>8, <1>9, <1>10, <1>11, <1>12, <1>13,
     <1>14 DEF Next, Step

\* Nobody else moves while a lone update is on its way.
LEMMA LoneStep == IInv /\ TypeOK' /\ [Next]_vars => LoneInv'
<1> SUFFICES ASSUME IInv, TypeOK', [Next]_vars PROVE LoneInv'
  OBVIOUS
<1> USE NoneIsNew, UnreadableIsNew, InternalIsKind, BootIsNew
<1>1. ASSUME NEW u \in Updates, NEW s \in Settings, Request(u, s) PROVE LoneInv'
    BY <1>1 DEF Request, Go, Ended, MaySwitch, process, disk, service, IInv, PcInv,
     BackInv, BackendsAccounted, LoneInv, TypeOK, Ended
<1>2. ASSUME NEW u \in Updates, TakeKey(u) PROVE LoneInv'
    BY <1>2 DEF TakeKey, Go, process, disk, service, IInv, PcInv, BackInv,
     BackendsAccounted, LoneInv, TypeOK, Ended
<1>3. ASSUME NEW u \in Updates, Replace(u) PROVE LoneInv'
    BY <1>3 DEF Replace, Go, process, disk, service, IInv, PcInv, BackInv,
     BackendsAccounted, LoneInv, TypeOK, Ended
<1>4. ASSUME NEW u \in Updates, Open(u) PROVE LoneInv'
    BY <1>4 DEF Open, Go, process, disk, service, IInv, PcInv, BackInv, BackendsAccounted,
     LoneInv, TypeOK, Ended
<1>5. ASSUME NEW u \in Updates, Write(u) PROVE LoneInv'
    BY <1>5 DEF Write, Go, process, disk, service, Written, IInv, PcInv, BackInv,
     BackendsAccounted, LoneInv, TypeOK, Ended
<1>6. ASSUME NEW u \in Updates, Rename(u) PROVE LoneInv'
    BY <1>6 DEF Rename, Go, process, disk, service, IInv, PcInv, BackInv,
     BackendsAccounted, LoneInv, TypeOK, Ended
<1>7. ASSUME NEW u \in Updates, SaveFails(u) PROVE LoneInv'
    BY <1>7 DEF SaveFails, Go, process, disk, service, IInv, PcInv, BackInv,
     BackendsAccounted, LoneInv, TypeOK, Ended
<1>8. ASSUME NEW u \in Updates, Build(u) PROVE LoneInv'
  <2>1. CASE new[u].enabled
    <3>1. NewRunner(new[u]) /\ held' = [held EXCEPT ![u] = Unbuilt]
      BY <1>8, <2>1 DEF Build
    <3>2. Unbuilt \in Backends /\ life[Unbuilt] = "unbuilt"
      BY <3>1, NewIsUnbuilt
    <3> QED
            BY <1>8, <2>1, <3>1, <3>2 DEF Build, NewRunner, Go, process, disk, service,
         IInv, PcInv, BackInv, BackendsAccounted, LoneInv, TypeOK, Ended
  <2>2. CASE ~new[u].enabled
        BY <1>8, <2>2 DEF Build, Go, process, disk, service, IInv, PcInv, BackInv,
       BackendsAccounted, LoneInv, TypeOK, Ended
  <2> QED
    BY <2>1, <2>2
<1>9. ASSUME NEW u \in Updates, BuildFails(u) PROVE LoneInv'
    BY <1>9 DEF BuildFails, Go, process, disk, service, IInv, PcInv, BackInv,
     BackendsAccounted, LoneInv, TypeOK, Ended
<1>10. ASSUME NEW u \in Updates, Swap(u) PROVE LoneInv'
    BY <1>10 DEF Swap, Go, process, disk, service, IInv, PcInv, BackInv,
     BackendsAccounted, LoneInv, TypeOK, Ended
<1>11. ASSUME NEW u \in Updates, CloseOld(u) PROVE LoneInv'
    BY <1>11 DEF CloseOld, Go, process, disk, service, IInv, PcInv, BackInv,
     BackendsAccounted, LoneInv, TypeOK, Ended
<1>12. ASSUME Kill PROVE LoneInv'
  BY <1>12 DEF Kill, IInv, PcInv, BackInv, BackendsAccounted, LoneInv, TypeOK, Ended
<1>13. ASSUME Start PROVE LoneInv'
    BY <1>13 DEF Start, NewRunner, service, disk, IInv, PcInv, BackInv, BackendsAccounted,
     LoneInv, TypeOK, Ended
<1>14. ASSUME UNCHANGED vars PROVE LoneInv'
  BY <1>14 DEF vars, IInv, PcInv, BackInv, BackendsAccounted, LoneInv, TypeOK, Ended
<1> QED
    BY <1>1, <1>2, <1>3, <1>4, <1>5, <1>6, <1>7, <1>8, <1>9, <1>10, <1>11, <1>12, <1>13,
     <1>14 DEF Next, Step

\* Only Replace changes the settings of a running process; a start finds no
\* update on its way.
LEMMA KindStep == IInv /\ [Next]_vars => KindInv'
<1> SUFFICES ASSUME IInv, [Next]_vars PROVE KindInv'
  OBVIOUS
<1> USE AdminsUpdate DEF Stored
<1>1. ASSUME NEW u \in Updates, NEW s \in Settings, Request(u, s) PROVE KindInv'
  BY <1>1 DEF Request, Go, MaySwitch, IInv, TypeOK, KindInv
<1>2. ASSUME NEW u \in Updates, TakeKey(u) PROVE KindInv'
  <2>1. /\ mem' = mem /\ pc[u] = "gated" /\ new[u] \in Settings
        /\ pc' = [pc EXCEPT ![u] = "refused"] \/ pc' = [pc EXCEPT ![u] = "checked"]
        /\ \E key : new' = [new EXCEPT ![u].key = key]
    BY <1>2, NoneIsNew DEF TakeKey, Go, IInv, PcInv, TypeOK
  <2>2. /\ \A v \in Updates \ {u} : pc'[v] = pc[v] /\ new'[v] = new[v]
        /\ new'[u].kind = new[u].kind /\ pc'[u] \notin Stored
    BY <2>1 DEF IInv, TypeOK, Settings
  <2> QED
    BY <2>1, <2>2 DEF IInv, KindInv
<1>3. ASSUME NEW u \in Updates, Replace(u) PROVE KindInv'
  <2>1. /\ pc[u] = "checked" /\ pc' = [pc EXCEPT ![u] = "stored"]
        /\ mem' = new[u] /\ new' = new
    BY <1>3 DEF Replace, Go
  <2>2. CASE u \in Admins
    BY <2>1, <2>2 DEF IInv, TypeOK, KindInv
  <2>3. CASE u \notin Admins
    BY <2>1, <2>3 DEF IInv, TypeOK, KindInv
  <2> QED
    BY <2>2, <2>3
<1>4. ASSUME NEW u \in Updates,
             \/ Open(u) \/ Write(u) \/ Rename(u) \/ SaveFails(u)
             \/ Build(u) \/ BuildFails(u) \/ Swap(u) \/ CloseOld(u)
      PROVE  KindInv'
  BY <1>4 DEF Open, Write, Rename, SaveFails, Build, BuildFails, Swap, CloseOld, Go,
     IInv, TypeOK, KindInv
<1>5. ASSUME Kill PROVE KindInv'
  BY <1>5 DEF Kill, Ended, KindInv
<1>6. ASSUME Start PROVE KindInv'
  BY <1>6 DEF Start, IInv, PcInv, Ended, KindInv
<1>7. ASSUME UNCHANGED vars PROVE KindInv'
  BY <1>7 DEF vars, IInv, KindInv
<1> QED
  BY <1>1, <1>2, <1>3, <1>4, <1>5, <1>6, <1>7 DEF Next, Step

-----------------------------------------------------------------------------
LEMMA InitInv == Init => IInv
<1> SUFFICES ASSUME Init PROVE IInv
  OBVIOUS
<1> USE NoneIsNew, UnreadableIsNew, InternalIsKind, BootIsNew, SomeBackend
<1>1. First \in Settings /\ aiRunner \in Backends
  BY DEF Init, First, Settings, Sources
<1>2. TypeOK
  <2>1. up \in BOOLEAN /\ crashes \in 0 .. MaxCrashes
    BY CrashesBounded DEF Init
  <2> QED
    BY <1>1, <2>1 DEF Init, TypeOK, Ended
<1>3. PcInv /\ BackInv /\ FileInv /\ LoneInv /\ KindInv
  BY <1>1 DEF Init, KindInv, PcInv, BackInv, BackendsAccounted, FileInv, LoneInv, Ended
<1> QED
  BY <1>2, <1>3 DEF IInv

LEMMA StepInv == IInv /\ [Next]_vars => IInv'
<1> SUFFICES ASSUME IInv, [Next]_vars PROVE IInv'
  OBVIOUS
<1>1. TypeOK'
  BY TypeStep
<1> QED
  BY <1>1, PcStep, BackStep, FileStep, LoneStep, KindStep DEF IInv

\* The parts of IInv hold together in every behaviour.
THEOREM Invariance == Spec => []IInv
BY InitInv, StepInv, PTL DEF Spec

\* Settings, files, updates and backends are well typed; what is read from
\* the file at a start always parses.
THEOREM TypeCorrect == Spec => []TypeOK
<1>1. IInv => TypeOK
  BY DEF IInv
<1> QED
  BY Invariance, <1>1, PTL

\* No backend is lost between building, swapping and closing (main.go),
\* however many updates overlap.
THEOREM NoBackendLost == Spec => []BackendsAccounted
<1>1. IInv => BackendsAccounted
  BY DEF IInv, BackInv
<1> QED
  BY Invariance, <1>1, PTL

\* persist leaves a file that parses at every moment, if no two updates write
\* at the same time.
THEOREM FileParses == Spec => []FileWhole
<1>1. IInv => FileWhole
  BY UnreadableIsNew DEF IInv, FileInv, FileWhole
<1> QED
  BY Invariance, <1>1, PTL

\* After an update that ran alone memory, file and backend agree.
THEOREM LoneUpdateWins == Spec => LoneUpdateTakesEffect
<1>1. IInv /\ [Next]_vars =>
        [\A u \in alone : pc[u] = "swapped" /\ pc'[u] = "done" =>
           /\ mem = new[u] /\ file = new[u]
           /\ IF new[u].enabled THEN aiRunner # None /\ built[aiRunner] = new[u]
              ELSE aiRunner = None]_vars
  BY DEF IInv, LoneInv, Ended
<1> QED
  BY Invariance, <1>1, PTL DEF Spec, LoneUpdateTakesEffect

\* An operator's update switches the kind of backend only where it overlaps
\* another and an admin has changed the settings.
THEOREM GateHolds == Spec => OperatorKeepsKind
<1>1. IInv /\ [Next]_vars =>
        [\A u \in Updates \ Admins :
           pc[u] = "checked" /\ pc'[u] = "stored" /\ mem'.kind # mem.kind =>
             u \notin alone /\ \E v \in Admins : pc[v] \in Stored]_vars
  <2> SUFFICES ASSUME IInv, [Next]_vars, NEW u \in Updates \ Admins,
                      pc[u] = "checked", pc'[u] = "stored", mem'.kind # mem.kind
               PROVE  u \notin alone /\ \E v \in Admins : pc[v] \in Stored
    OBVIOUS
  <2>1. mem' = new[u] \/ mem' = mem
    <3>1. ASSUME NEW v \in Updates, Replace(v) PROVE mem' = new[u]
      BY <3>1 DEF Replace, Go, IInv, TypeOK
    <3>2. CASE UNCHANGED mem
      BY <3>2
    <3>3. CASE Start
      BY <3>3 DEF Start
    <3> QED
      BY <3>1, <3>2, <3>3 DEF Next, Step, vars, Request, TakeKey, Open, Write, Rename,
         SaveFails, Build, BuildFails, Swap, CloseOld, Kill
  <2>2. new[u].kind # mem.kind
    BY <2>1
  <2>3. u \notin alone
    BY <2>2 DEF IInv, LoneInv, Ended
  <2>4. \E v \in Admins : pc[v] \in Stored
    BY <2>2 DEF IInv, KindInv
  <2> QED
    BY <2>3, <2>4
<1> QED
  BY Invariance, <1>1, PTL DEF Spec, OperatorKeepsKind
-----------------------------------------------------------------------------
(***************************************************************************)
(* The implementation of ServiceSlot.  A backend's stage is read off its   *)
(* life, the slot, and the place of the update that holds it; BackInv      *)
(* makes that update unique.                                               *)
(***************************************************************************)

stage == [b \in Backends |-> Stage(b)]

StageTable ==
  \A b \in Backends :
    /\ Stage(b) = "fresh" <=> life[b] = "unbuilt"
    /\ Stage(b) = "closed" <=> life[b] = "closed"
    /\ Stage(b) = "serving" <=> b = aiRunner
    /\ Stage(b) = "retired" <=> \E u \in Updates : held[u] = b /\ pc[u] = "swapped"
    /\ Stage(b) = "spare" <=> \E u \in Updates : held[u] = b /\ pc[u] = "built"
    /\ Stage(b) \in {"fresh", "closed", "serving", "retired", "spare"}

Staged == IInv /\ StageTable

LEMMA StageOf == IInv => StageTable
<1> SUFFICES ASSUME IInv, NEW b \in Backends
             PROVE  /\ Stage(b) = "fresh" <=> life[b] = "unbuilt"
                    /\ Stage(b) = "closed" <=> life[b] = "closed"
                    /\ Stage(b) = "serving" <=> b = aiRunner
                    /\ Stage(b) = "retired"
                         <=> \E u \in Updates : held[u] = b /\ pc[u] = "swapped"
                    /\ Stage(b) = "spare"
                         <=> \E u \in Updates : held[u] = b /\ pc[u] = "built"
                    /\ Stage(b) \in {"fresh", "closed", "serving", "retired", "spare"}
  BY DEF StageTable
<1> USE NoneIsNew
<1> life[b] \in {"unbuilt", "open", "closed"}
  BY DEF IInv, TypeOK
<1>1. b \in InHands("swapped") <=> \E u \in Updates : held[u] = b /\ pc[u] = "swapped"
  BY DEF InHands
<1>2. b # None
  OBVIOUS
<1>3. ASSUME NEW u \in Updates, held[u] = b
      PROVE  /\ pc[u] \in {"built", "swapped"} /\ life[b] = "open" /\ b # aiRunner
             /\ \A v \in Updates : held[v] = b => v = u
  BY <1>2, <1>3 DEF IInv, PcInv, BackInv, BackendsAccounted
<1>4. b = aiRunner => life[b] = "open"
  BY <1>2 DEF IInv, BackInv, BackendsAccounted
<1>5. life[b] = "open" => b = aiRunner \/ \E u \in Updates : held[u] = b
  BY DEF IInv, BackInv, BackendsAccounted
<1> QED
  BY <1>1, <1>3, <1>4, <1>5 DEF Stage

\* A step that leaves the slot, the backends and who has swapped alone changes
\* no stage.
LEMMA StageKept ==
  ASSUME UNCHANGED <<held, service>>,
         \A v \in Updates : pc'[v] = "swapped" <=> pc[v] = "swapped"
  PROVE  UNCHANGED stage
<1>1. InHands("swapped")' = InHands("swapped")
  BY DEF InHands
<1> QED
  BY <1>1 DEF stage, Stage, service

LEMMA BuildRefines ==
  ASSUME Staged, Staged', NEW u \in Updates, Build(u)
  PROVE  [Slot!Next]_stage
<1> USE NoneIsNew
<1>1. CASE ~new[u].enabled
  <2>1. \A v \in Updates : pc'[v] = "swapped" <=> pc[v] = "swapped"
    BY <1>1 DEF Build, Go, Staged, IInv, TypeOK
  <2> QED
    BY <1>1, <2>1, StageKept DEF Build, service
<1>2. CASE new[u].enabled
  <2>0. NewRunner(new[u]) /\ held' = [held EXCEPT ![u] = Unbuilt] /\ aiRunner' = aiRunner
    BY <1>2 DEF Build
  <2>1. PICK n \in Backends : n = Unbuilt
    BY <2>0, NewIsUnbuilt
  <2>2. life[n] = "unbuilt" /\ held' = [held EXCEPT ![u] = n]
    BY <2>0, <2>1, NewIsUnbuilt
  <2>3. pc' = [pc EXCEPT ![u] = "built"] /\ pc[u] = "saved" /\ held[u] = None
    BY DEF Build, Go, Staged, IInv, PcInv
  <2>4. life' = [life EXCEPT ![n] = "open"]
    BY <2>0, <2>1 DEF NewRunner
  <2>5. held'[u] = n /\ pc'[u] = "built"
    BY <2>2, <2>3 DEF Staged, IInv, TypeOK
  <2>6. Stage(n) = "fresh" /\ Stage(n)' = "spare"
    BY <2>2, <2>5 DEF Staged, StageTable
  <2>7. ASSUME NEW b \in Backends, b # n PROVE Stage(b)' = Stage(b)
    <3>1. b \in InHands("swapped")' <=> b \in InHands("swapped")
      BY <2>2, <2>3, <2>7 DEF InHands, Staged, IInv, TypeOK
    <3>2. life'[b] = life[b]
      BY <2>2, <2>4, <2>7 DEF Staged, IInv, TypeOK
    <3> QED
      BY <2>0, <3>1, <3>2 DEF Stage
  <2>8. \A b \in Backends : Stage(b)' = IF b = n THEN "spare" ELSE Stage(b)
    BY <2>6, <2>7
  <2>9. Slot!Make(n)
    BY <2>2, <2>6, <2>8 DEF Slot!Make, stage
  <2> QED
    BY <2>2, <2>9 DEF Slot!Next
<1> QED
  BY <1>1, <1>2

LEMMA SwapRefines ==
  ASSUME Staged, Staged', NEW u \in Updates, Swap(u)
  PROVE  [Slot!Next]_stage
<1> USE NoneIsNew
<1> DEFINE put == {held[u]} \ {None}
<1>1. put \in SUBSET Backends
  BY DEF Staged, IInv, TypeOK
<1>2. /\ pc[u] = "built" /\ pc' = [pc EXCEPT ![u] = "swapped"]
      /\ aiRunner' = held[u] /\ held' = [held EXCEPT ![u] = aiRunner] /\ life' = life
  BY DEF Swap, Go
<1>3. \A b \in put : Stage(b) = "spare"
  BY <1>1, <1>2 DEF Staged, StageTable
<1>4. held'[u] = aiRunner /\ pc'[u] = "swapped"
  BY <1>2 DEF Staged, IInv, TypeOK
<1>5. ASSUME NEW b \in Backends
      PROVE  Stage(b)' = IF b \in put THEN "serving"
                         ELSE IF Stage(b) = "serving" THEN "retired" ELSE Stage(b)
  <2>1. CASE b \in put
    BY <1>2, <2>1 DEF Staged, StageTable
  <2>2. CASE b \notin put /\ b = aiRunner
    BY <1>4, <2>2 DEF Staged, StageTable
  <2>3. CASE b \notin put /\ b # aiRunner
    <3>1. b # aiRunner' /\ held[u] # b /\ held'[u] # b
      BY <1>2, <1>4, <2>3
    <3>2. b \in InHands("swapped")' <=> b \in InHands("swapped")
      BY <1>2, <3>1 DEF InHands, Staged, IInv, TypeOK
    <3>3. Stage(b)' = Stage(b)
      BY <1>2, <2>3, <3>1, <3>2 DEF Stage
    <3> QED
      BY <2>3, <3>3 DEF Staged, StageTable
  <2> QED
    BY <2>1, <2>2, <2>3
<1>6. Slot!Swap(put)
  BY <1>1, <1>3, <1>5 DEF Slot!Swap, Slot!Serving, stage
<1> QED
  BY <1>1, <1>6 DEF Slot!Next

LEMMA CloseRefines ==
  ASSUME Staged, Staged', NEW u \in Updates, CloseOld(u)
  PROVE  [Slot!Next]_stage
<1> USE NoneIsNew
<1>1. /\ pc[u] = "swapped" /\ pc' = [pc EXCEPT ![u] = "done"]
      /\ life' = [b \in Backends |-> IF b = held[u] THEN "closed" ELSE life[b]]
      /\ held' = [held EXCEPT ![u] = None] /\ aiRunner' = aiRunner
  BY DEF CloseOld, Go
<1>2. ASSUME NEW b \in Backends, b # held[u] PROVE Stage(b)' = Stage(b)
  <2>1. b \in InHands("swapped")' <=> b \in InHands("swapped")
    BY <1>1, <1>2 DEF InHands, Staged, IInv, TypeOK
  <2>2. life'[b] = life[b]
    BY <1>1, <1>2
  <2> QED
    BY <1>1, <2>1, <2>2 DEF Stage
<1>3. CASE held[u] = None
  BY <1>2, <1>3 DEF stage
<1>4. CASE held[u] # None
  <2>1. held[u] \in Backends
    BY <1>4 DEF Staged, IInv, TypeOK
  <2>2. life'[held[u]] = "closed"
    BY <1>1, <2>1
  <2>3. Stage(held[u]) = "retired"
    BY <1>1, <2>1 DEF Staged, StageTable
  <2>4. \A b \in Backends : Stage(b)' = IF b = held[u] THEN "closed" ELSE Stage(b)
    BY <1>2, <2>2 DEF Staged, StageTable
  <2>5. Slot!Close(held[u])
    BY <2>1, <2>3, <2>4 DEF Slot!Close, stage
  <2> QED
    BY <2>1, <2>5 DEF Slot!Next
<1> QED
  BY <1>3, <1>4

LEMMA KillRefines ==
  ASSUME Staged, Staged', Kill
  PROVE  [Slot!Next]_stage
<1>1. ASSUME NEW b \in Backends
      PROVE  Stage(b)' = IF Stage(b) = "fresh" THEN "fresh" ELSE "closed"
  <2>1. life[b] \in {"unbuilt", "open", "closed"}
    BY DEF Staged, IInv, TypeOK
  <2>2. life'[b] = IF life[b] = "unbuilt" THEN "unbuilt" ELSE "closed"
    BY <2>1 DEF Kill
  <2> QED
    BY <2>2 DEF Staged, StageTable
<1>2. Slot!Down
  BY <1>1 DEF Slot!Down, stage
<1> QED
  BY <1>2 DEF Slot!Next

LEMMA StartRefines ==
  ASSUME Staged, Staged', Start
  PROVE  [Slot!Next]_stage
<1> USE NoneIsNew
<1>1. CASE UNCHANGED service
  BY <1>1, StageKept DEF Start
<1>2. CASE NewRunner(file) /\ aiRunner' = Unbuilt
  <2>0. PICK n \in Backends : n = Unbuilt
    BY <1>2, NewIsUnbuilt
  <2>1. life[n] = "unbuilt"
    BY <1>2, <2>0, NewIsUnbuilt
  <2>2. aiRunner' = n /\ life' = [life EXCEPT ![n] = "open"]
    BY <1>2, <2>0 DEF NewRunner
  <2>3. \A v \in Updates : held[v] = None
    BY DEF Start, Staged, IInv, PcInv, Ended
  <2>4. aiRunner = None
    BY DEF Start, Staged, IInv, PcInv
  <2>5. \A b \in Backends : Stage(b) \in {"fresh", "closed"}
    BY <2>3, <2>4 DEF Staged, StageTable
  <2>6. Stage(n) = "fresh" /\ Stage(n)' = "serving"
    BY <2>1, <2>2 DEF Staged, StageTable
  <2>7. ASSUME NEW b \in Backends, b # n PROVE Stage(b)' = Stage(b)
    <3>1. life'[b] = life[b] /\ life[b] \in {"unbuilt", "closed"}
      BY <2>1, <2>2, <2>5, <2>7 DEF Staged, StageTable, IInv, TypeOK
    <3> QED
      BY <3>1 DEF Stage
  <2>8. \A b \in Backends : Stage(b)' = IF b = n THEN "serving" ELSE Stage(b)
    BY <2>6, <2>7
  <2>9. Slot!Up(n)
    BY <2>1, <2>5, <2>6, <2>8 DEF Slot!Up, stage
  <2> QED
    BY <2>1, <2>9 DEF Slot!Next
<1> QED
  BY <1>1, <1>2 DEF Start

LEMMA StepRefines == Staged /\ Staged' /\ [Next]_vars => [Slot!Next]_stage
<1> SUFFICES ASSUME Staged, Staged', [Next]_vars PROVE [Slot!Next]_stage
  OBVIOUS
<1>1. ASSUME NEW u \in Updates, NEW s \in Settings, Request(u, s) PROVE UNCHANGED stage
  BY <1>1, StageKept DEF Request, Go, service, Staged, IInv, TypeOK
<1>2. ASSUME NEW u \in Updates,
             \/ TakeKey(u) \/ Replace(u) \/ Open(u) \/ Write(u) \/ Rename(u) \/ SaveFails(u)
             \/ BuildFails(u)
      PROVE  UNCHANGED stage
  <2>1. UNCHANGED <<held, service>>
    BY <1>2 DEF TakeKey, Replace, Open, Write, Rename, SaveFails, BuildFails
  <2>2. \A v \in Updates : pc'[v] = "swapped" <=> pc[v] = "swapped"
    BY <1>2 DEF TakeKey, Replace, Open, Write, Rename, SaveFails, BuildFails, Go,
       Staged, IInv, TypeOK
  <2> QED
    BY <2>1, <2>2, StageKept
<1>3. ASSUME UNCHANGED vars PROVE UNCHANGED stage
  BY <1>3, StageKept DEF vars, service
<1> QED
  BY <1>1, <1>2, <1>3, BuildRefines, SwapRefines, CloseRefines, KillRefines, StartRefines
     DEF Next, Step

\* main.go, SetAIRebuildRunner: overlapping, failing and killed updates keep
\* one service slot: a backend is swapped in once, and what was swapped out
\* is closed and never serves again.
THEOREM Refinement == Spec => ImplementsServiceSlot
<1>1. Init => Slot!Init
  <2> SUFFICES ASSUME Init PROVE Slot!Init
    OBVIOUS
  <2>1. aiRunner \in Backends
    BY SomeBackend DEF Init
  <2>2. \A b \in Backends : Stage(b) = IF b = aiRunner THEN "serving" ELSE "fresh"
    BY DEF Init, Stage
  <2> QED
    BY <2>1, <2>2 DEF Slot!Init, stage
<1>2. (IInv /\ StageTable) /\ (IInv /\ StageTable)' /\ [Next]_vars => [Slot!Next]_stage
  BY StepRefines DEF Staged
<1> QED
  BY Invariance, StageOf, <1>1, <1>2, PTL DEF Spec, Slot!Spec, ImplementsServiceSlot, stage
=============================================================================
