SPECIFICATION WindowSpec
CONSTANTS
  ann = ann
  bob = bob
  cid = cid
  dan = dan
  eve = eve
  core = core
  infra = infra
  p1 = p1
  p2 = p2
  Absent = Absent
  Unwritten = Unwritten
  Users = {ann, bob, cid, dan, eve}
  Teams = {core, infra}
  PRs = {p1, p2}
  Instants = {1, 2}
  Workers = {w1, w2}
  Requests <- RaceRequests
  InitialDBs <- Medium
  MaxRequests = 3
  MaxFaults = 1
SYMMETRY Interchangeable
INVARIANT TypeOK
INVARIANT NoSelfReview
INVARIANT RowsAnchored
INVARIANT Inductive
INVARIANT ReferencesHeld
INVARIANT AnswersHeld
INVARIANT WindowHeld
PROPERTY HistoryStands
PROPERTY CreatedOnce
PROPERTY ReassignSwaps
PROPERTY NewPRWithinAnswer
PROPERTY AnswerLacksOnlyIdle
PROPERTY ActsWithinWindow
PROPERTY NotFoundUnlessMoved
