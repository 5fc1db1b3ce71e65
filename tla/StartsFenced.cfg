SPECIFICATION LifecycleSpec
CONSTANTS
  Callers = {c1}
  OpIds = {1, 2}
  Commands <- ThreeCommands
  NoJournalEntry = NoJournalEntry
  NoIntent = NoIntent
  Unreadable = Unreadable
  MaxEntries = 2
  MaxIntentRecords = 5
  MaxLines = 5
  MaxFaults = 0
  MaxCrashes = 1
CHECK_DEADLOCK FALSE
INVARIANT StartsFenced
