----------------------------- MODULE ServiceSlot -----------------------------
(***************************************************************************)
(* What changing the AI settings promises about backends: at most one is   *)
(* in service, its successor takes its place in one step, and a backend    *)
(* that was taken out is closed and never serves again.  AiReload          *)
(* implements this specification.                                          *)
(***************************************************************************)
CONSTANT Backends

VARIABLE stage  \* fresh, spare (not yet in service), serving, retired or closed

Init == \E b \in Backends : stage = [x \in Backends |-> IF x = b THEN "serving" ELSE "fresh"]

Serving == {b \in Backends : stage[b] = "serving"}

Make(b) == stage[b] = "fresh" /\ stage' = [stage EXCEPT ![b] = "spare"]

\* Whatever serves is taken out, and the spare ones of new, if any, are put in.
Swap(new) ==
  /\ \A b \in new : stage[b] = "spare"
  /\ \A a, b \in new : a = b
  /\ stage' = [b \in Backends |-> IF b \in new THEN "serving"
                                  ELSE IF b \in Serving THEN "retired" ELSE stage[b]]

Close(b) == stage[b] = "retired" /\ stage' = [stage EXCEPT ![b] = "closed"]

\* The server ends, and starts again with no backend or a fresh one.
Down ==
  stage' = [b \in Backends |-> IF stage[b] = "fresh" THEN "fresh" ELSE "closed"]

Up(b) ==
  /\ stage[b] = "fresh" /\ \A x \in Backends : stage[x] \in {"fresh", "closed"}
  /\ stage' = [stage EXCEPT ![b] = "serving"]

Next ==
  \/ \E b \in Backends : Make(b) \/ Close(b) \/ Up(b)
  \/ \E new \in SUBSET Backends : Swap(new)
  \/ Down

Spec == Init /\ [][Next]_stage
=============================================================================
