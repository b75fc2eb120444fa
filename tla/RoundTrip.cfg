CONSTANTS
  Keys <- MCKeys
  NoKey = NoKey
  Contents = {"v", "w"}
  Nothing = Nothing
  Records <- MCRecords
  MaxChanges = 2
SPECIFICATION PartsSpec
INVARIANTS RoundTrips
CHECK_DEADLOCK FALSE
