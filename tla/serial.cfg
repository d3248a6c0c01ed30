SPECIFICATION ReadSpec
CONSTANTS
  ann = ann
  bob = bob
  cid = cid
  dan = dan
  eve = eve
  core = core
  infra = infra
  p1 = p1
  p2 = p2
  Absent = Absent
  Unwritten = Unwritten
  Users = {ann, bob, cid, dan}
  Teams = {core, infra}
  PRs = {p1, p2}
  Instants = {1, 2}
  Workers = {w1}
  Requests <- SerialRequests
  InitialDBs <- FromNothing
  MaxRequests = 4
  MaxFaults = 1
  Reads <- SomeReads
INVARIANT AtMostTwo
INVARIANT LoneHeld
INVARIANT OnCourse
INVARIANT ReaderHeld
PROPERTY SerialIsAtomic
PROPERTY MergedReviewersFrozen
PROPERTY NewReviewersActive
PROPERTY DeactivatedStepDown
PROPERTY HandoverKeepsNumber
PROPERTY ReadsUpToDate
PROPERTY StatsAddUp
