SPECIFICATION FairWindowSpec
CONSTANTS
  ann = ann
  bob = bob
  cid = cid
  dan = dan
  eve = eve
  core = core
  infra = infra
  p1 = p1
  p2 = p2
  Absent = Absent
  Unwritten = Unwritten
  Users = {ann, bob, cid, dan}
  Teams = {core, infra}
  PRs = {p1, p2}
  Instants = {1, 2}
  Workers = {w1, w2}
  Requests <- MoveAndOff
  InitialDBs <- Medium
  MaxRequests = 2
  MaxFaults = 0
PROPERTY NotFoundTrue
