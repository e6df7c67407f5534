-------------------------- MODULE MCAcpPermission --------------------------
(***************************************************************************)
(* Instances of AcpPermission for TLC.  The first agent asks to read; the  *)
(* second asks with the same id or one of its own and offers only to       *)
(* allow, so that a level may find nothing to pick.                        *)
(***************************************************************************)
EXTENDS AcpPermission

CONSTANTS a1, a2, i1, i2

MCMessages ==
  { [agent |-> a1, id |-> i1, options |-> Options, reads |-> TRUE],
    [agent |-> a2, id |-> i1, options |-> Allow, reads |-> FALSE],
    [agent |-> a2, id |-> i2, options |-> Allow, reads |-> FALSE] }
=============================================================================
