SPECIFICATION Spec
CONSTANTS
  Logs <- MCLogs
CHECK_DEADLOCK FALSE
INVARIANTS
  TypeOK
  OnlyRoutineUnexplained
  IndicatorsAreNeverSafe
  SureWarningsAreHigh
