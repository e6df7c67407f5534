----------------------------- MODULE AiReload -----------------------------
(***************************************************************************)
(* Changing the AI settings while the server runs: the handler             *)
(* AIUpdateConfig (ai_config.go), SettingsStore (settings.go), and the     *)
(* building, swapping and closing of backends (main.go).                   *)
(*                                                                         *)
(* Nothing orders two updates: each is a goroutine (pc) that checks the    *)
(* request against the settings, replaces them in memory, writes them      *)
(* through one temporary file that all updates share, builds a backend,    *)
(* puts it in place of the old one and closes that.  The process may be    *)
(* killed at any time and then starts from the file.                       *)
(***************************************************************************)
EXTENDS Naturals, FiniteSets

CONSTANTS
  Updates,     \* requests to change the settings
  Admins,      \* those made by an admin; the others are an operator's
  Backends,    \* backends that may be built
  Kinds,       \* internal and external
  Internal,
  MaxCrashes,  \* bound on kills
  Boot,        \* where the first settings come from
  Empty,       \* a file that was truncated and not yet written
  Torn,        \* a file with the end of a longer text; neither parses
  None

Sources == Updates \cup {Boot}
Settings == [from : Sources, enabled : BOOLEAN, kind : Kinds, key : Sources \cup {None}]

ASSUME AdminsUpdate == Admins \subseteq Updates
ASSUME InternalIsKind == Internal \in Kinds
ASSUME BootIsNew == Boot \notin Updates
ASSUME SomeBackend == Backends # {}
ASSUME NoneIsNew == None \notin Sources \cup Backends \cup Settings \cup {"tmp", "file", "unlinked"}
ASSUME UnreadableIsNew == {Empty, Torn} \cap (Settings \cup {None}) = {} /\ Empty # Torn
ASSUME CrashesBounded == MaxCrashes \in Nat

VARIABLES
  up,        \* the process runs
  crashes,
  mem,       \* SettingsStore.cur
  file,      \* what is in ai-settings.json
  tmp,       \* what is in ai-settings.json.tmp
  fd,        \* the name of the file an update has open, if it still has one
  pc,        \* where an update is
  new,       \* the settings an update brings
  held,      \* the backend an update has built, or has taken out of service
  aiRunner,  \* the backend in service
  life,      \* the state of a backend
  built,     \* the settings a backend was built from
  alone,     \* history: updates that overlap no other
  overlap    \* history: two updates have written at the same time

vars == <<up, crashes, mem, file, tmp, fd, pc, new, held, aiRunner, life, built, alone, overlap>>
disk == <<file, tmp, fd, overlap>>
service == <<aiRunner, life, built>>
process == <<up, crashes>>

First == [from |-> Boot, enabled |-> TRUE, kind |-> Internal, key |-> Boot]

Ended == {"idle", "refused", "failed", "killed", "done"}

Init ==
  /\ up = TRUE /\ crashes = 0
  /\ mem = First /\ file = First /\ tmp = None
  /\ fd = [u \in Updates |-> None]
  /\ pc = [u \in Updates |-> "idle"]
  /\ new = [u \in Updates |-> None]
  /\ held = [u \in Updates |-> None]
  /\ aiRunner = CHOOSE b \in Backends : TRUE
  /\ life = [b \in Backends |-> IF b = aiRunner THEN "open" ELSE "unbuilt"]
  /\ built = [b \in Backends |-> IF b = aiRunner THEN First ELSE None]
  /\ alone = Updates
  /\ overlap = FALSE

-----------------------------------------------------------------------------
Go(u, from, to) == up /\ pc[u] = from /\ pc' = [pc EXCEPT ![u] = to]

(* Mutant: whoever may write may switch the backend. *)
MaySwitchAlways(u, kind) == TRUE

(* The governance gate: only an admin switches the backend. *)
MaySwitch(u, kind) == kind = mem.kind \/ u \in Admins

(* AIUpdateConfig up to Save. *)
Request(u, s) ==
  /\ s.from = u /\ s.key \in {u, None}
  /\ \/ MaySwitch(u, s.kind) /\ Go(u, "idle", "gated")
     \/ ~MaySwitch(u, s.kind) /\ Go(u, "idle", "refused")
  /\ new' = [new EXCEPT ![u] = s]
  /\ LET others == {v \in Updates \ {u} : pc[v] \notin Ended} IN
       alone' = IF others = {} THEN alone ELSE alone \ (others \cup {u})
  /\ UNCHANGED <<process, mem, disk, held, service>>

(* Save: an internal backend keeps the key that is stored, and needs one;   *)
(* other fields may be refused, too.                                       *)
TakeKey(u) ==
  LET needs == new[u].enabled /\ new[u].kind = Internal
      key == IF needs /\ new[u].key = None THEN mem.key ELSE new[u].key IN
  /\ pc[u] = "gated"
  /\ new' = [new EXCEPT ![u].key = key]
  /\ \/ Go(u, "gated", "refused")
     \/ Go(u, "gated", "checked") /\ (needs => key # None)
  /\ UNCHANGED <<process, mem, disk, held, service, alone>>

(* Mutant: disabling leaves the settings in memory. *)
ReplaceEnabled(u) ==
  /\ Go(u, "checked", "stored")
  /\ mem' = IF new[u].enabled THEN new[u] ELSE mem
  /\ UNCHANGED <<process, disk, new, held, service, alone>>

Replace(u) ==
  /\ Go(u, "checked", "stored")
  /\ mem' = new[u]
  /\ UNCHANGED <<process, disk, new, held, service, alone>>

(* Mutant: the file itself is rewritten. *)
OpenInPlace(u) ==
  /\ Go(u, "stored", "opened")
  /\ file' = Empty
  /\ fd' = [fd EXCEPT ![u] = "file"]
  /\ overlap' = (overlap \/ \E v \in Updates : fd[v] # None)
  /\ UNCHANGED <<process, mem, tmp, new, held, service, alone>>

(* persist: WriteFile opens and truncates the file that all updates share. *)
Open(u) ==
  /\ Go(u, "stored", "opened")
  /\ tmp' = Empty
  /\ fd' = [fd EXCEPT ![u] = "tmp"]
  /\ overlap' = (overlap \/ \E v \in Updates : fd[v] # None)
  /\ UNCHANGED <<process, mem, file, new, held, service, alone>>

(* What a file holds after it was written: where another update wrote in    *)
(* the meantime, the longer text leaves its end.                           *)
Written(text, content) == IF content = Empty THEN {text} ELSE {text, Torn}

(* The bytes go to the file that was opened, under whatever name it has by  *)
(* now.                                                                    *)
Write(u) ==
  /\ Go(u, "opened", "written")
  /\ CASE fd[u] = "tmp" -> tmp' \in Written(new[u], tmp) /\ UNCHANGED file
       [] fd[u] = "file" -> file' \in Written(new[u], file) /\ UNCHANGED tmp
       [] OTHER -> UNCHANGED <<tmp, file>>
  /\ UNCHANGED <<process, mem, fd, overlap, new, held, service, alone>>

(* The name may have been taken away by another update. *)
Rename(u) ==
  /\ \/ /\ tmp # None /\ Go(u, "written", "saved")
        /\ file' = tmp /\ tmp' = None
        /\ fd' = [v \in Updates |-> IF v = u THEN None
                                    ELSE IF fd[v] = "tmp" THEN "file"
                                    ELSE IF fd[v] = "file" THEN "unlinked" ELSE fd[v]]
     \/ /\ tmp = None /\ Go(u, "written", "failed")
        /\ fd' = [fd EXCEPT ![u] = None]
        /\ UNCHANGED <<file, tmp>>
  /\ UNCHANGED <<process, mem, overlap, new, held, service, alone>>

(* The disk is full, or not writable. *)
SaveFails(u) ==
  /\ Go(u, "stored", "failed") \/ Go(u, "opened", "failed")
  /\ fd' = [fd EXCEPT ![u] = None]
  /\ UNCHANGED <<process, mem, file, tmp, overlap, new, held, service, alone>>

-----------------------------------------------------------------------------
(* Mutant: backends are kept for reuse. *)
Reusable == CHOOSE b \in Backends : life[b] # "open"

(* Which backend stands for the next one that is built does not matter. *)
Unbuilt == CHOOSE b \in Backends : life[b] = "unbuilt"

NewRunner(s) ==
  /\ \E b \in Backends : life[b] = "unbuilt"
  /\ life' = [life EXCEPT ![Unbuilt] = "open"]
  /\ built' = [built EXCEPT ![Unbuilt] = s]

(* buildRunner: none when the assistant is disabled. *)
Build(u) ==
  /\ Go(u, "saved", "built")
  /\ IF new[u].enabled
     THEN /\ NewRunner(new[u])
          /\ held' = [held EXCEPT ![u] = Unbuilt]
     ELSE UNCHANGED <<life, built, held>>
  /\ UNCHANGED <<process, mem, disk, new, aiRunner, alone>>

BuildFails(u) ==
  /\ Go(u, "saved", "failed") /\ new[u].enabled
  /\ UNCHANGED <<process, mem, disk, new, held, service, alone>>

(* Mutant: the old backend is looked up before the new one is in place. *)
SwapAtDisable(u) ==
  /\ Go(u, "built", "swapped")
  /\ aiRunner' = held[u]
  /\ held' = [held EXCEPT ![u] = IF @ = None THEN None ELSE aiRunner]
  /\ UNCHANGED <<process, mem, disk, new, life, built, alone>>

(* Under aiRunnerMu. *)
Swap(u) ==
  /\ Go(u, "built", "swapped")
  /\ aiRunner' = held[u]
  /\ held' = [held EXCEPT ![u] = aiRunner]
  /\ UNCHANGED <<process, mem, disk, new, life, built, alone>>

CloseOld(u) ==
  /\ Go(u, "swapped", "done")
  /\ life' = [b \in Backends |-> IF b = held[u] THEN "closed" ELSE life[b]]
  /\ held' = [held EXCEPT ![u] = None]
  /\ UNCHANGED <<process, mem, disk, new, aiRunner, built, alone>>

Step(u) ==
  \/ TakeKey(u) \/ Replace(u) \/ Open(u) \/ Write(u) \/ Rename(u) \/ SaveFails(u)
  \/ Build(u) \/ BuildFails(u) \/ Swap(u) \/ CloseOld(u)

-----------------------------------------------------------------------------
(* Killed: the updates and the backends end, the files stay. *)
Kill ==
  /\ up /\ crashes < MaxCrashes
  /\ up' = FALSE /\ crashes' = crashes + 1
  /\ pc' = [u \in Updates |-> IF pc[u] \in Ended THEN pc[u] ELSE "killed"]
  /\ fd' = [u \in Updates |-> None]
  /\ held' = [u \in Updates |-> None]
  /\ aiRunner' = None
  /\ life' = [b \in Backends |-> IF life[b] = "open" THEN "closed" ELSE life[b]]
  /\ UNCHANGED <<mem, file, tmp, overlap, new, built, alone>>

(* Mutant: a file that does not parse is taken as it is. *)
StartUnparsed ==
  /\ ~up /\ up' = TRUE /\ mem' = file
  /\ UNCHANGED <<service, crashes, disk, pc, new, held, alone>>

(* main: a file that does not parse ends the process; a backend that cannot *)
(* be built does not.                                                      *)
Start ==
  /\ ~up /\ file \notin {Empty, Torn}
  /\ up' = TRUE /\ mem' = file
  /\ \/ /\ file.enabled
        /\ NewRunner(file)
        /\ aiRunner' = Unbuilt
     \/ UNCHANGED service
  /\ UNCHANGED <<crashes, disk, pc, new, held, alone>>

Next ==
  \/ \E u \in Updates, s \in Settings : Request(u, s)
  \/ \E u \in Updates : Step(u)
  \/ Kill \/ Start

(* A handler runs to its end. *)
Spec == Init /\ [][Next]_vars /\ \A u \in Updates : WF_vars(Step(u))

-----------------------------------------------------------------------------
TypeOK ==
  /\ up \in BOOLEAN /\ crashes \in 0 .. MaxCrashes
  /\ mem \in Settings
  /\ file \in Settings \cup {Empty, Torn} /\ tmp \in Settings \cup {Empty, Torn, None}
  /\ fd \in [Updates -> {None, "tmp", "file", "unlinked"}]
  /\ pc \in [Updates -> Ended \cup {"gated", "checked", "stored", "opened", "written",
                                    "saved", "built", "swapped"}]
  /\ new \in [Updates -> Settings \cup {None}]
  /\ held \in [Updates -> Backends \cup {None}]
  /\ aiRunner \in Backends \cup {None}
  /\ life \in [Backends -> {"unbuilt", "open", "closed"}]
  /\ built \in [Backends -> Settings \cup {None}]
  /\ alone \subseteq Updates
  /\ overlap \in BOOLEAN

(* main.go, SetAIRebuildRunner: a backend that is open is in service or in  *)
(* the hands of one update, which will put it there or close it, and not   *)
(* both; and what is in service is open.  Updates may overlap and be       *)
(* killed anywhere.                                                        *)
BackendsAccounted ==
  /\ \A b \in Backends : life[b] = "open" => aiRunner = b \/ \E u \in Updates : held[u] = b
  /\ \A u \in Updates : held[u] # None =>
       held[u] # aiRunner /\ \A v \in Updates \ {u} : held[v] # held[u]
  /\ aiRunner # None => life[aiRunner] = "open"

(* settings.go, persist: the file on disk always parses, so that a killed   *)
(* server starts again, unless two updates have written at the same time   *)
(* through the same temporary file.                                        *)
FileWhole == file \in {Empty, Torn} => overlap

(* ai_config.go, AIUpdateConfig: an update that overlaps no other leaves    *)
(* memory, file and backend in agreement, whatever overlapping, failing or *)
(* killed updates left before it.                                          *)
LoneUpdateTakesEffect ==
  [][\A u \in alone : pc[u] = "swapped" /\ pc'[u] = "done" =>
       /\ mem = new[u] /\ file = new[u]
       /\ IF new[u].enabled THEN aiRunner # None /\ built[aiRunner] = new[u] ELSE aiRunner = None]_vars

(* ai_config.go, governance gate: an operator's update may switch the kind  *)
(* of backend only where it overlaps another and an admin has changed the  *)
(* settings: it may undo what an admin did, and never decide by itself.    *)
Stored == {"stored", "opened", "written", "saved", "built", "swapped", "done", "failed"}
OperatorKeepsKind ==
  [][\A u \in Updates \ Admins :
       pc[u] = "checked" /\ pc'[u] = "stored" /\ mem'.kind # mem.kind =>
         u \notin alone /\ \E v \in Admins : pc[v] \in Stored]_vars

(* main.go, SetAIRebuildRunner: the swap under aiRunnerMu, and the Close    *)
(* that follows it outside of the lock, implement one service slot, while   *)
(* updates overlap, fail and are killed.                                   *)
InHands(where) == {held[u] : u \in {v \in Updates : pc[v] = where}}
Stage(b) ==
  CASE life[b] = "unbuilt" -> "fresh"
    [] life[b] = "closed" -> "closed"
    [] life[b] = "open" /\ b = aiRunner -> "serving"
    [] OTHER -> IF b \in InHands("swapped") THEN "retired" ELSE "spare"
Slot == INSTANCE ServiceSlot WITH stage <- [b \in Backends |-> Stage(b)]
ImplementsServiceSlot == Slot!Spec

(* main.go: a backend that is out of service is closed in the end. *)
ReplacedIsClosed ==
  \A b \in Backends : life[b] = "open" /\ aiRunner # b ~> life[b] = "closed" \/ aiRunner = b

=============================================================================
