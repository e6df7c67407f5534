-------------------------- MODULE MCDangerConfirm --------------------------
(***************************************************************************)
(* Instances of DangerConfirm for TLC: one run tool with two argument      *)
(* values and the mode switch, so that slots are overwritten by another    *)
(* call of the same tool and by a call of another tool.                    *)
(***************************************************************************)
EXTENDS DangerConfirm, TLC

MCSymmetry == Permutations(Turns) \cup Permutations(Requests)
=============================================================================
