\* violation: a nested entry emptied by stripping survives as {}
CONSTANTS
    None = None
    ToolId = ToolId
SPECIFICATION Spec
INVARIANT NoPlaceholderRemains
\* one call: it stops once the value is stripped
CHECK_DEADLOCK FALSE
