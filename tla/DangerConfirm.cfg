SPECIFICATION Spec
CONSTANTS
  Turns = {t1}
  Requests = {q1, q2}
  ExecTools = {"run_task"}
  Args = {"a", "b"}
  MaxTokens = 2
SYMMETRY MCSymmetry
INVARIANT TypeOK
INVARIANT OncePerApproval
INVARIANT SeenBeforeRun
PROPERTY ImplementsConfirmOnce
\* The behaviour ends when the bound on tokens is used up.
CHECK_DEADLOCK FALSE
