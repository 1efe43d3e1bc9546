CONSTANTS
  Hours = 3
  Minutes = 2
  Seconds = 2
  MaxYear = 2130
  SearchHorizonDays = 3653
  SystemZone <- Utc
  Epoch = 719468
  Schedules = {"second", "once"}
  Occurs <- MCOccurs
  Definitions <- MCDefinitions
  Moves <- MCMoves
  MaxTime = 4
SPECIFICATION MCSpec
CHECK_DEADLOCK FALSE
INVARIANTS
    ScheduleMeansItsExpression
    OccurrencesAreKept
