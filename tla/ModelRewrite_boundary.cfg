SPECIFICATION RewriteSpec
CONSTANTS
  Field = 2
  SafeTail = 3
CHECK_DEADLOCK FALSE
INVARIANT ModelHidden
