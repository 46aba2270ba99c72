CONSTANTS
  Milli = 2
  EntryCapacity = 3
  Rates <- MCRates
  CallAmounts = {1, 2}
  MaxElapsed = 7
  MaxNet = 4
SPECIFICATION EntrySpec
INVARIANTS EntryTypeOK RetryIsEnough RetryIsNotLate RefillNeverLoses
CHECK_DEADLOCK FALSE
