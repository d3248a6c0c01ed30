SPECIFICATION Spec
CONSTANTS
  UuidOf <- MCUuidOf
  Uuids <- MCUuids
  Stamps <- MCStamps
  Instants <- MCInstants
  Slugs <- MCSlugs
  Labels <- MCLabels
  Args <- MCArgs
  Admitted <- MCAdmitted
  MaxRuns = 2
INVARIANT NamesFitColumns
INVARIANT ExchangeInv
PROPERTY IsRemoteCall
PROPERTY ValidCallsUnderstood
PROPERTY LoadTestCountsStatus
