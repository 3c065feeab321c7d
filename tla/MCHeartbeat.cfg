SPECIFICATION Spec
CONSTANTS
  Second = 2
  Period = 4
  MaxTime = 24
INVARIANTS
  ResponsiveStays
  SilentFound
