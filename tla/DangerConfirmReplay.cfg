SPECIFICATION Spec
CONSTANTS
  Turns = {t1}
  Requests = {q1}
  ExecTools = {"run_task"}
  Args = {"a"}
  MaxTokens = 2
SYMMETRY MCSymmetry
PROPERTY ReplayNeedsConfirm
\* The behaviour ends when the bound on tokens is used up.
CHECK_DEADLOCK FALSE
