---------------------------- MODULE OutcomeProofs ----------------------------
(***************************************************************************)
(* What a granted answer of AssignmentService says is true of the commit   *)
(* it reports, for any number of workers, users, teams, pull requests,     *)
(* requests and faults.                                                    *)
(*                                                                         *)
(* An outcome is decided on a snapshot and committed many steps later.  It *)
(* stands because of the rows the request has written meanwhile: a written *)
(* row is locked, so that what is committed under it cannot change         *)
(* (LocksExclusive, CommittedUnderLock), and a commit of another takes the *)
(* rows it has deleted out of the request's todo (CommitSkips).            *)
(*                                                                         *)
(* Part 1  what a step leaves alone   Part 4  the reassigned reviewer      *)
(* Part 2  nothing is held in vain    Part 5  the theorems                 *)
(* Part 3  creations and picks                                             *)
(***************************************************************************)
EXTENDS AssignmentProofs, FiniteSetTheorems

(***************************************************************************)
(* Part 1.  What a step leaves alone.                                      *)
(***************************************************************************)
\* A step of w changes neither the answer nor the writes of another request.
LEMMA OthersAnswer ==
  ASSUME NEW w \in Workers, Inductive, Step(w), NEW v \in Workers, v # w
  PROVE  res'[v] = res[v] /\ tx'[v] = tx[v]
<1> USE DEF Inductive, TypeOK
<1>1. tx'[v] = tx[v]
  <2>1. CASE WritesNone \/ Merges
    BY <2>1 DEF WritesNone, Merges
  <2>2. CASE WritesOne(w) \/ Drops(w) \/ Publishes(w)
    BY <2>2 DEF RowsTyped, WritesOne, Drops, Publishes
  <2> QED
    BY <2>1, <2>2, Shapes
<1>2. res'[v] = res[v]
  <2>1. CASE \E code : Fail(w, code)
    BY <2>1 DEF Fail, Prepare, LocalsTyped
  <2>2. CASE \/ SetActive(w) \/ LockUser(w) \/ FindCandidates(w) \/ Remove(w)
             \/ RemoveRow(w) \/ Removed(w) \/ Add(w) \/ AddRow(w) \/ Added(w)
             \/ InsertTeam(w) \/ UpsertUser(w) \/ Deactivate(w) \/ DeactivateRow(w)
    BY <2>1, <2>2 DEF SetActive, LockUser, FindCandidates, Remove, RemoveRow, Removed, Add,
                      AddRow, Added, InsertTeam, UpsertUser, Deactivate, DeactivateRow,
                      Choose, WriteRow, Proceed, Prepare, LocalsTyped
  <2>3. CASE \/ Deactivated(w) \/ TeamExists(w) \/ RemoveTeam(w) \/ Pick(w)
             \/ AuthorExists(w) \/ InsertPR(w) \/ Merge(w) \/ MergeExists(w)
             \/ GetMerged(w) \/ Reassign(w) \/ LockOld(w) \/ LockNew(w)
             \/ GetReassigned(w) \/ DeadlockAbort(w)
    BY <2>1, <2>3 DEF Deactivated, TeamExists, RemoveTeam, Pick, AuthorExists, InsertPR,
                      Merge, MergeExists, GetMerged, Reassign, LockOld, LockNew,
                      GetReassigned, DeadlockAbort, Proceed, Prepare, LocalsTyped
  <2>4. CASE Commit(w) \/ Begin(w) \/ Cancel(w) \/ CommitLost(w)
    BY <2>1, <2>4 DEF Commit, Begin, Cancel, CommitLost, Prepare, LocalsTyped
  <2> QED
    BY <2>2, <2>3, <2>4 DEF Step, Serve, Quiet
<1> QED
  BY <1>1, <1>2

\* A row of reviewers that w has not written is not changed by w's step.
LEMMA ReviewersStand ==
  ASSUME NEW w \in Workers, Inductive, Step(w), NEW k \in RevKeys, tx[w][k] = Unwritten
  PROVE  db'[k] = db[k]
<1> USE DEF Inductive, TypeOK
<1>1. k \in Keys
  BY DEF Keys
<1>2. CASE Merges
  <2>1. PICK q \in PRs, now \in Instants :
          /\ IsOpen(db, q) /\ tx' = tx
          /\ db' = [db EXCEPT ![PRKey(q)].status = "MERGED",
                              ![PRKey(q)].merged_at = now]
    BY <1>2 DEF Merges
  <2>2. k # PRKey(q)
    BY KeysApart DEF RevKeys
  <2> QED
    BY <1>1, <2>1, <2>2, OneMerged
<1>3. CASE Publishes(w)
  BY <1>1, <1>3, Seeing DEF Publishes
<1> QED
  BY <1>2, <1>3, Shapes DEF WritesNone, WritesOne, Drops

\* What is committed under a row that one transaction has locked is not
\* changed by another.
LEMMA CommittedUnderLock ==
  ASSUME NEW w \in Workers, Inductive, Step(w), NEW v \in Workers, v # w,
         NEW k \in RevKeys, tx[v][k] # Unwritten
  PROVE  db'[k] = db[k]
<1>1. tx[w][k] = Unwritten
  BY DEF Inductive, LocksExclusive, Keys
<1> QED
  BY <1>1, ReviewersStand

\* A statement that waits for a row of reviewers skips it when another
\* transaction commits it away: a row it still waits for is what it was.
LEMMA CommitSkips ==
  ASSUME NEW w \in Workers, Inductive, Step(w), NEW v \in Workers, v # w,
         pc[v] = "lockOld", NEW k \in RevKeys, k \in todo'[v]
  PROVE  db'[k] = db[k]
<1> USE DEF Inductive, TypeOK
<1>1. CASE Publish(w)
  BY <1>1, ReviewersStand DEF Publish
<1>2. CASE ~Publish(w) /\ ~Merge(w)
  BY <1>2 DEF Step, Serve, DeadlockAbort, Commit, Begin, Cancel, CommitLost
<1>3. CASE Merge(w)
  <2>1. PICK p : p = req[w].pr
    OBVIOUS
  <2>2. p \in PRs
    BY <1>3, <2>1, Serving DEF Merge
  <2>3. \/ db' = db
        \/ \E now \in Instants :
             /\ IsOpen(db, p)
             /\ db' = [db EXCEPT ![PRKey(p)].status = "MERGED",
                                 ![PRKey(p)].merged_at = now]
    BY <1>3, <2>1 DEF Merge
  <2>4. k \in Keys /\ k # PRKey(p)
    BY <2>2, KeysApart DEF RevKeys, Keys
  <2> QED
    BY <2>2, <2>3, <2>4, OneMerged
<1> QED
  BY <1>1, <1>2, <1>3

\* A transaction keeps the rows it has written until it ends.
LEMMA WrittenStays ==
  ASSUME NEW w \in Workers, Inductive, Step(w), pc'[w] # "done",
         NEW k \in Keys, tx[w][k] # Unwritten
  PROVE  tx'[w][k] # Unwritten
<1> USE DEF Inductive, TypeOK
<1>1. CASE WritesNone \/ Merges
  BY <1>1 DEF WritesNone, Merges
<1>2. CASE WritesOne(w)
  <2>1. PICK i \in Keys : \E row : Fits(w, i, row) /\ tx' = [tx EXCEPT ![w][i] = row]
    BY <1>2 DEF WritesOne
  <2>2. PICK row : Fits(w, i, row) /\ tx' = [tx EXCEPT ![w][i] = row]
    BY <2>1
  <2>3. row # Unwritten
    BY <2>2, UnwrittenIsNoRow DEF Fits
  <2>4. tx'[w][k] = IF k = i THEN row ELSE tx[w][k]
    BY <2>2, OneWritten
  <2> QED
    BY <2>3, <2>4
<1> QED
  BY <1>1, <1>2, Shapes DEF Drops, Publishes

(***************************************************************************)
(* Part 2.  Nothing is held before the first write and after the end.      *)
(***************************************************************************)
\* A request that has not come to its first write, or has ended by whatever
\* path, holds no row.
LEMMA HoldsNothingStep ==
  ASSUME NEW w \in Workers, Inductive, HoldsNothing(w), Step(w)
  PROVE  HoldsNothing(w)'
<1> USE DEF Inductive, TypeOK
<1>1. CASE \E code : Fail(w, code)
  BY <1>1 DEF Fail, HoldsNothing, RowsTyped
<1>2. CASE Publish(w)
  BY <1>2 DEF Publish, HoldsNothing, RowsTyped
<1>3. CASE \/ Begin(w) \/ SetActive(w) \/ Pick(w) \/ AuthorExists(w) \/ Merge(w)
           \/ MergeExists(w) \/ GetMerged(w) \/ Reassign(w)
  <2>1. CASE \E code : Fail(w, code)
    BY <1>1, <2>1
  <2>2. CASE ~ \E code : Fail(w, code)
    <3>1. tx' = tx /\ pc[w] \in Unwriting
      BY <1>3, <2>2 DEF Begin, SetActive, Pick, AuthorExists, Merge, MergeExists, GetMerged,
                        Reassign, Proceed, Unwriting
    <3> QED
      BY <3>1 DEF HoldsNothing
  <2> QED
    BY <2>1, <2>2
<1>4. CASE \/ LockUser(w) \/ FindCandidates(w) \/ Remove(w) \/ Removed(w) \/ Add(w)
           \/ Added(w) \/ InsertTeam(w) \/ UpsertUser(w) \/ Deactivate(w)
  <2>1. CASE \E code : Fail(w, code)
    BY <1>1, <2>1
  <2>2. CASE ~ \E code : Fail(w, code)
    <3>1. pc'[w] \notin Unwriting
      BY <1>4, <2>2 DEF LockUser, FindCandidates, Remove, Removed, Add, Added, InsertTeam,
                        UpsertUser, Deactivate, NextMember, Choose, Proceed, Goto,
                        LocalsTyped, Unwriting
    <3> QED
      BY <3>1 DEF HoldsNothing
  <2> QED
    BY <2>1, <2>2
<1>5. CASE \/ Deactivated(w) \/ TeamExists(w) \/ RemoveTeam(w) \/ InsertPR(w)
           \/ LockOld(w) \/ LockNew(w) \/ GetReassigned(w)
  <2>1. CASE \E code : Fail(w, code)
    BY <1>1, <2>1
  <2>2. CASE ~ \E code : Fail(w, code)
    <3>1. pc'[w] \notin Unwriting
      BY <1>5, <2>2 DEF Deactivated, TeamExists, RemoveTeam, InsertPR, LockOld, LockNew,
                        GetReassigned, Proceed, Goto, LocalsTyped, Unwriting
    <3> QED
      BY <3>1 DEF HoldsNothing
  <2> QED
    BY <2>1, <2>2
<1>6. CASE RemoveRow(w) \/ AddRow(w) \/ DeactivateRow(w)
  <2>1. pc'[w] \notin Unwriting
    BY <1>6 DEF RemoveRow, AddRow, DeactivateRow, WriteRow, Unwriting
  <2> QED
    BY <2>1 DEF HoldsNothing
<1> QED
  BY <1>1, <1>2, <1>3, <1>4, <1>5, <1>6
  DEF Step, Serve, Quiet, DeadlockAbort, Commit, Cancel, CommitLost
(***************************************************************************)
(* Part 3.  Creations are locked, picks are kept, until the commit.        *)
(***************************************************************************)
\* A step of a request that neither takes nor ends it runs the next statement
\* of the same request.
LEMMA InProgress ==
  ASSUME NEW w \in Workers, Inductive, Step(w), pc'[w] # "done", ~Begin(w)
  PROVE  /\ (Quiet(w) /\ db' = db) \/ Merge(w)
         /\ \A code : ~Fail(w, code)
         /\ req'[w] = req[w] /\ pc[w] # "done"
<1> USE DEF Inductive, TypeOK
<1>1. \A code : ~Fail(w, code)
  BY DEF Fail, Goto, LocalsTyped
<1>2. (Quiet(w) /\ db' = db) \/ Merge(w)
  BY <1>1 DEF Step, Serve, DeadlockAbort, Commit, Cancel, CommitLost, Publish, Goto,
              LocalsTyped
<1>3. req'[w] = req[w]
  BY DEF Step, Serve, Cancel, CommitLost
<1>4. pc[w] # "done"
  BY <1>2 DEF Quiet, Merge, SetActive, LockUser, FindCandidates, Remove, RemoveRow, Removed,
     Add, AddRow, Added, InsertTeam, UpsertUser, Deactivate, DeactivateRow, Deactivated,
     TeamExists, RemoveTeam, Pick, AuthorExists, InsertPR, MergeExists, GetMerged, Reassign,
     LockOld, LockNew, GetReassigned
<1> QED
  BY <1>1, <1>2, <1>3, <1>4

\* The steps after the insert of a new team or pull request, and before the end.
Created == {"upsertUser", "add", "adding", "commit"}

\* CreateTeam and CreatePR come to those steps by the insert only, and keep
\* their assignments and their answer in them.
LEMMA ToCreated ==
  ASSUME NEW w \in Workers, Inductive, Step(w), ~Begin(w), pc'[w] \in Created,
         req[w].op \in {"CreateTeam", "CreatePR"}
  PROVE  \/ InsertTeam(w)
         \/ InsertPR(w)
         \/ /\ UpsertUser(w) \/ Add(w) \/ AddRow(w) \/ Added(w)
            /\ pc[w] \in Created /\ items' = items /\ res' = res
<1> USE DEF Inductive, TypeOK
<1>1. /\ (Quiet(w) /\ db' = db) \/ Merge(w)
      /\ \A code : ~Fail(w, code)
      /\ pc[w] # "done"
  BY InProgress DEF Created
<1>2. CASE UpsertUser(w) \/ Add(w) \/ AddRow(w) \/ Added(w)
  BY <1>2 DEF UpsertUser, Add, AddRow, Added, Choose, Proceed, WriteRow, Created
<1>3. CASE LockUser(w) \/ GetReassigned(w)
  <2>1. pc[w] \in {"lockUser", "getReassigned"}
    BY <1>3 DEF LockUser, GetReassigned
  <2> QED
    BY <1>1, <2>1, Serving
<1>4. CASE Removed(w) \/ RemoveRow(w) \/ DeactivateRow(w)
  BY <1>4 DEF Removed, RemoveRow, DeactivateRow, WriteRow, NextMember, Goto, LocalsTyped,
              Created
<1>5. CASE \/ SetActive(w) \/ FindCandidates(w) \/ Remove(w) \/ Deactivate(w)
           \/ Deactivated(w) \/ TeamExists(w) \/ RemoveTeam(w)
  BY <1>1, <1>5 DEF SetActive, FindCandidates, Remove, Deactivate, Deactivated, TeamExists,
                    RemoveTeam, NextMember, Choose, Proceed, Goto, LocalsTyped, Created
<1>6. CASE \/ Pick(w) \/ AuthorExists(w) \/ Merge(w) \/ MergeExists(w) \/ GetMerged(w)
           \/ Reassign(w) \/ LockOld(w) \/ LockNew(w)
  BY <1>1, <1>6 DEF Pick, AuthorExists, Merge, MergeExists, GetMerged, Reassign, LockOld,
                    LockNew, Proceed, Goto, LocalsTyped, Created
<1> QED
  BY <1>1, <1>2, <1>3, <1>4, <1>5, <1>6 DEF Quiet

\* What the insert of a team or of a pull request writes.
LEMMA Inserted ==
  ASSUME NEW w \in Workers, Inductive, pc'[w] # "done"
  PROVE  /\ InsertTeam(w) =>
              /\ req[w].op = "CreateTeam" /\ req[w].team \in Teams
              /\ tx'[w][TeamKey(req[w].team)] # Unwritten
         /\ InsertPR(w) =>
              /\ req[w].op = "CreatePR" /\ req[w].pr \in PRs
              /\ tx'[w][PRKey(req[w].pr)] # Unwritten
              /\ \A u \in Users :
                    tx'[w][RevKey(req[w].pr, u)] = tx[w][RevKey(req[w].pr, u)]
<1> USE DEF Inductive, TypeOK
<1> DEFINE r == req[w]
           pr == [author |-> r.author, status |-> "OPEN", merged_at |-> Absent]
<1>0. \A code : ~Fail(w, code)
  BY DEF Fail, Goto, LocalsTyped
<1>1. ASSUME InsertTeam(w)
      PROVE  /\ r.op = "CreateTeam" /\ r.team \in Teams
             /\ tx'[w][TeamKey(r.team)] # Unwritten
  <2>1. pc[w] = "insertTeam" /\ tx' = [tx EXCEPT ![w][TeamKey(r.team)] = Present]
    BY <1>0, <1>1 DEF InsertTeam, Put
  <2>2. r.op = "CreateTeam" /\ r.team \in Teams
    BY <2>1, Serving
  <2>3. TeamKey(r.team) \in Keys
    BY <2>2, KeysApart
  <2>4. tx'[w][TeamKey(r.team)] = Present
    BY <2>1, <2>3, OneWritten
  <2> QED
    BY <2>2, <2>4, UnwrittenIsNoRow
<1>2. ASSUME InsertPR(w)
      PROVE  /\ r.op = "CreatePR" /\ r.pr \in PRs
             /\ tx'[w][PRKey(r.pr)] # Unwritten
             /\ \A u \in Users : tx'[w][RevKey(r.pr, u)] = tx[w][RevKey(r.pr, u)]
  <2>1. pc[w] = "insertPR" /\ tx' = [tx EXCEPT ![w][PRKey(r.pr)] = pr]
    BY <1>0, <1>2 DEF InsertPR, Put
  <2>2. r.op = "CreatePR" /\ r.pr \in PRs /\ r.author \in Users
    BY <2>1, Serving
  <2>3. /\ PRKey(r.pr) \in Keys
        /\ \A u \in Users : RevKey(r.pr, u) \in Keys /\ RevKey(r.pr, u) # PRKey(r.pr)
    BY <2>2, KeysApart
  <2>4. pr # Unwritten
    <3>1. pr \in PRRow
      BY <2>2 DEF PRRow
    <3> QED
      BY <3>1, UnwrittenIsNoRow
  <2>5. \A j \in Keys : tx'[w][j] = IF j = PRKey(r.pr) THEN pr ELSE tx[w][j]
    <3> HIDE DEF pr
    <3> QED
      BY <2>1, <2>3, OneWritten
  <2> QED
    BY <2>2, <2>3, <2>4, <2>5
<1> QED
  BY <1>1, <1>2

\* The row of a new team or pull request stays written until the end.
LEMMA CreationHeldStep ==
  ASSUME NEW w \in Workers, Inductive, CreationHeld(w), Step(w)
  PROVE  CreationHeld(w)'
<1> USE DEF Inductive, TypeOK
<1> DEFINE r == req[w]
<1>1. CASE Begin(w)
  <2>1. PICK q \in Requests : pc' = [pc EXCEPT ![w] = FirstStep(q)]
    BY <1>1 DEF Begin, Goto
  <2>2. pc'[w] \notin Created
    BY <2>1, RequestForms DEF FirstStep, LocalsTyped, Created
  <2> QED
    BY <2>2 DEF CreationHeld, Created
<1>2. SUFFICES ASSUME ~Begin(w), pc'[w] \in Created, r.op \in {"CreateTeam", "CreatePR"}
               PROVE  CreationHeld(w)'
  <2>1. CASE pc'[w] \notin Created
    BY <2>1 DEF CreationHeld, Created
  <2>2. CASE ~Begin(w) /\ pc'[w] \in Created /\ r.op \notin {"CreateTeam", "CreatePR"}
    <3>1. req'[w] = r
      BY <2>2, InProgress DEF Created
    <3> QED
      BY <2>2, <3>1 DEF CreationHeld
  <2> QED
    BY <1>1, <1>2, <2>1, <2>2
<1>3. pc'[w] # "done" /\ pc[w] # "done" /\ req'[w] = r
  BY <1>2, InProgress DEF Created
<1>4. CASE InsertTeam(w) \/ InsertPR(w)
  BY <1>3, <1>4, Inserted DEF CreationHeld
<1>5. CASE pc[w] \in Created
  <2>1. r \in Requests
    BY <1>3, Serving
  <2>2. \/ r.op = "CreateTeam" /\ TeamKey(r.team) \in Keys
        \/ r.op = "CreatePR" /\ PRKey(r.pr) \in Keys
    BY <1>2, <2>1, RequestForms, KeysApart
  <2>3. r.op = "CreatePR" => pc[w] # "upsertUser"
    BY <1>3, StepForms DEF Settled, OnItsWay
  <2> QED
    BY <1>3, <1>5, <2>2, <2>3, WrittenStays DEF CreationHeld, Created
<1> QED
  BY <1>2, <1>4, <1>5, ToCreated

\* CreatePR keeps the reviewers it has picked, writes no others, and answers
\* with them.
LEMMA PickKeptStep ==
  ASSUME NEW w \in Workers, Inductive, HoldsNothing(w), PickKept(w), Step(w)
  PROVE  PickKept(w)'
<1> USE DEF Inductive, TypeOK
<1> DEFINE r == req[w]
           Row(u) == RevKey(r.pr, u)
<1>1. CASE Begin(w)
  <2>1. PICK q \in Requests : /\ req' = [req EXCEPT ![w] = q]
                              /\ pc' = [pc EXCEPT ![w] = FirstStep(q)]
    BY <1>1 DEF Begin, Goto
  <2>2. req'[w] = q /\ pc'[w] = FirstStep(q)
    BY <2>1 DEF LocalsTyped
  <2>3. tx'[w] = NoWrites
    BY <1>1 DEF Begin, HoldsNothing, Unwriting
  <2>4. q.op = "CreatePR" => FirstStep(q) = "pick" /\ q.pr \in PRs
    BY RequestForms DEF FirstStep
  <2> QED
    BY <2>2, <2>3, <2>4, KeysApart DEF PickKept, NoWrites
<1>2. CASE pc'[w] = "done"
  BY <1>2 DEF PickKept
<1>3. SUFFICES ASSUME ~Begin(w), pc'[w] # "done" PROVE PickKept(w)'
  BY <1>1, <1>2
<1>4. /\ (Quiet(w) /\ db' = db) \/ Merge(w)
      /\ \A code : ~Fail(w, code)
      /\ req'[w] = r /\ pc[w] # "done"
  BY <1>3, InProgress
<1>5. SUFFICES ASSUME r.op = "CreatePR" PROVE PickKept(w)'
  BY <1>4, <1>5 DEF PickKept
<1>6. r.pr \in PRs /\ \A u \in Users : Row(u) \in Keys
  BY <1>4, <1>5, Serving, RequestForms, KeysApart
<1>7. /\ pc[w] \in {"pick", "authorExists", "insertPR", "add", "adding", "commit"}
      /\ pc'[w] \in {"pick", "authorExists", "insertPR", "add", "adding", "commit"}
  <2>1. OnItsWay(w) /\ OnItsWay(w)'
    BY OwnSettled DEF Settled
  <2> QED
    BY <1>3, <1>4, <1>5, <2>1, StepForms DEF OnItsWay
<1>8. CASE Pick(w)
  <2>1. PICK R \in GetTwoActiveTeamMembersByAuthorID(See(w), r.author) :
          /\ items' = [items EXCEPT ![w] = {<<r.pr, u>> : u \in R}]
          /\ Goto(w, IF R = {} THEN "authorExists" ELSE "insertPR")
    BY <1>8 DEF Pick
  <2>2. /\ pc'[w] \in {"authorExists", "insertPR"} /\ tx' = tx /\ pc[w] = "pick"
        /\ items'[w] = {<<r.pr, u>> : u \in R}
    BY <1>8, <2>1 DEF Pick, Goto, LocalsTyped
  <2>3. R \subseteq Users /\ Cardinality(R) <= 2
    BY DEF GetTwoActiveTeamMembersByAuthorID, ActiveTeammates, ActiveMembers, TeamMembers
  <2>4. Picked(w)' = R
    BY <1>4, <2>2, <2>3 DEF Picked
  <2>5. \A u \in Users : tx'[w][Row(u)] = Unwritten
    BY <1>6, <2>2 DEF HoldsNothing, Unwriting, NoWrites
  <2> QED
    BY <1>4, <2>2, <2>3, <2>4, <2>5 DEF PickKept
<1>9. CASE AuthorExists(w)
  <2>1. pc'[w] = "insertPR" /\ items' = items /\ tx' = tx /\ pc[w] = "authorExists"
    BY <1>4, <1>9 DEF AuthorExists, Proceed, Goto, LocalsTyped
  <2>2. Picked(w)' = Picked(w)
    BY <1>4, <2>1 DEF Picked
  <2> QED
    BY <1>4, <2>1, <2>2 DEF PickKept
<1>10. CASE InsertPR(w)
  <2> DEFINE body == [status |-> "OPEN", merged_at |-> Absent, reviewers |-> Picked(w)]
  <2>1. /\ pc[w] = "insertPR" /\ pc'[w] = "add" /\ items' = items
        /\ res' = [res EXCEPT ![w] = Answer("OK", body)]
    BY <1>4, <1>10 DEF InsertPR, Prepare, Goto, LocalsTyped, Picked
  <2>2. res'[w].pr.reviewers = Picked(w)
    BY <2>1 DEF LocalsTyped, Answer
  <2>3. Picked(w)' = Picked(w)
    BY <1>4, <2>1 DEF Picked
  <2>4. \A u \in Users : tx'[w][Row(u)] = tx[w][Row(u)]
    BY <1>3, <1>10, Inserted
  <2> QED
    BY <1>4, <2>1, <2>2, <2>3, <2>4 DEF PickKept
<1>11. CASE Add(w) \/ Added(w)
  <2>1. /\ pc[w] \in {"add", "adding"} /\ pc'[w] \in {"add", "adding", "commit"}
        /\ items' = items /\ tx' = tx /\ res' = res
    BY <1>11 DEF Add, Added, Choose, Proceed, Goto, LocalsTyped
  <2>2. Picked(w)' = Picked(w)
    BY <1>4, <2>1 DEF Picked
  <2> QED
    BY <1>4, <2>1, <2>2 DEF PickKept
<1>12. CASE AddRow(w)
  <2>1. PICK k \in todo[w] :
          \/ tx' = tx
          \/ tx' = [tx EXCEPT ![w][k] = Present]
    BY <1>12 DEF AddRow, WriteRow
  <2>2. pc[w] = "adding" /\ pc' = pc /\ items' = items /\ res' = res
    BY <1>12 DEF AddRow, WriteRow
  <2>3. Picked(w)' = Picked(w)
    BY <1>4, <2>2 DEF Picked
  <2>4. PICK a \in items[w] : k = RevKey(a[1], a[2])
    BY <2>2 DEF Settled, TodoInTable
  <2>5. a \in PRs \X Users /\ k \in Keys
    BY <2>4, KeysApart DEF LocalsTyped
  <2>6. \A u \in Users : Row(u) = k => u \in Picked(w)
    <3>1. \A u \in Users : Row(u) = k => a[1] = r.pr /\ a[2] = u
      BY <1>6, <2>4, <2>5, KeysApart
    <3>2. a = <<a[1], a[2]>>
      BY <2>5
    <3> QED
      BY <2>4, <3>1, <3>2 DEF Picked
  <2>7. \A u \in Users : Row(u) # k => tx'[w][Row(u)] = tx[w][Row(u)]
    BY <1>6, <2>1, <2>5, OneWritten
  <2> QED
    BY <1>4, <2>2, <2>3, <2>6, <2>7 DEF PickKept
<1>13. CASE \/ SetActive(w) \/ LockUser(w) \/ FindCandidates(w) \/ Remove(w)
            \/ RemoveRow(w) \/ Removed(w) \/ InsertTeam(w) \/ UpsertUser(w)
            \/ Deactivate(w) \/ DeactivateRow(w) \/ Deactivated(w) \/ TeamExists(w)
            \/ RemoveTeam(w) \/ MergeExists(w) \/ GetMerged(w) \/ Reassign(w)
            \/ LockOld(w) \/ LockNew(w) \/ GetReassigned(w) \/ Merge(w)
  BY <1>7, <1>13
  DEF SetActive, LockUser, FindCandidates, Remove, RemoveRow, Removed, InsertTeam,
      UpsertUser, Deactivate, DeactivateRow, Deactivated, TeamExists, RemoveTeam,
      MergeExists, GetMerged, Reassign, LockOld, LockNew, GetReassigned, Merge
<1> QED
  BY <1>4, <1>8, <1>9, <1>10, <1>11, <1>12, <1>13 DEF Quiet
(***************************************************************************)
(* Part 4.  The old reviewer of a reassignment is there, the new is not.   *)
(***************************************************************************)
\* Reassign finds the old reviewer committed, and locks the two rows before it
\* relies on them.
LEMMA SwapHeldStep ==
  ASSUME NEW w \in Workers, Inductive, HoldsNothing(w), SwapHeld(w), Step(w)
  PROVE  SwapHeld(w)'
<1> USE DEF Inductive, TypeOK
<1> DEFINE r == req[w]
           Row(u) == RevKey(r.pr, u)
<1>1. CASE Begin(w)
  <2>1. PICK q \in Requests : pc' = [pc EXCEPT ![w] = FirstStep(q)]
    BY <1>1 DEF Begin, Goto
  <2>2. pc'[w] \notin {"lockOld", "lockNew", "getReassigned", "commit"}
    BY <2>1, RequestForms DEF FirstStep, LocalsTyped
  <2> QED
    BY <2>2 DEF SwapHeld
<1>2. CASE pc'[w] = "done"
  BY <1>2 DEF SwapHeld
<1>3. SUFFICES ASSUME ~Begin(w), pc'[w] # "done" PROVE SwapHeld(w)'
  BY <1>1, <1>2
<1>4. /\ (Quiet(w) /\ db' = db) \/ Merge(w)
      /\ \A code : ~Fail(w, code)
      /\ req'[w] = r /\ pc[w] # "done"
  BY <1>3, InProgress
<1>5. SUFFICES ASSUME r.op = "Reassign" PROVE SwapHeld(w)'
  BY <1>4, <1>5 DEF SwapHeld
<1>6. /\ r.pr \in PRs /\ r.old \in Users
      /\ \A u \in Users : Row(u) \in Keys /\ Row(u) \in RevKeys
      /\ \A u \in Users, v \in Users : Row(u) = Row(v) => u = v
  BY <1>4, <1>5, Serving, RequestForms, KeysApart
<1>7. pc[w] \in {"reassign", "lockOld", "lockNew", "getReassigned", "commit"}
  BY <1>4, <1>5, StepForms DEF Settled, OnItsWay
<1>8. CASE Reassign(w)
  <2>1. /\ pc[w] = "reassign" /\ pc'[w] = "lockOld" /\ db' = db
        /\ todo'[w] = {Row(r.old)} /\ r.old \in Reviewers(See(w), r.pr)
        /\ \E new \in ReassignCandidates(See(w), r.pr, r.old) : items'[w] = {<<r.pr, new>>}
    BY <1>4, <1>8 DEF Reassign, Merge, Goto, LocalsTyped
  <2>2. PICK new \in ReassignCandidates(See(w), r.pr, r.old) : items'[w] = {<<r.pr, new>>}
    BY <2>1
  <2>3. new \in Users \ {r.old}
    BY DEF ReassignCandidates, Candidates, ActiveMembers, TeamMembers
  <2>4. Has(db', Row(r.old))
    <3>1. tx[w][Row(r.old)] = Unwritten
      BY <1>6, <2>1 DEF HoldsNothing, Unwriting, NoWrites
    <3>2. See(w)[Row(r.old)] = db[Row(r.old)]
      BY <1>6, <3>1, Seeing
    <3> QED
      BY <2>1, <3>2 DEF Reviewers, Has
  <2> QED
    BY <1>4, <2>1, <2>2, <2>3, <2>4 DEF SwapHeld, Has
<1>9. CASE LockOld(w)
  <2>1. /\ pc[w] = "lockOld" /\ pc'[w] = "lockNew" /\ db' = db /\ items' = items
        /\ \E k \in todo[w] : tx' = [tx EXCEPT ![w][k] = Absent]
    BY <1>4, <1>9 DEF LockOld, Merge, Put, Goto, LocalsTyped
  <2>2. PICK k \in todo[w] : tx' = [tx EXCEPT ![w][k] = Absent]
    BY <2>1
  <2>3. k = Row(r.old) /\ Has(db, k)
    BY <1>5, <2>1 DEF SwapHeld
  <2>4. \A u \in Users : tx[w][Row(u)] = Unwritten
    BY <1>6, <2>1 DEF HoldsNothing, Unwriting, NoWrites
  <2>5. \A j \in Keys : tx'[w][j] = IF j = k THEN Absent ELSE tx[w][j]
    <3>1. k \in Keys
      BY <1>6, <2>3
    <3> QED
      BY <2>2, <3>1, OneWritten
  <2>6. /\ tx'[w][Row(r.old)] = Absent
        /\ \A u \in Users \ {r.old} : tx'[w][Row(u)] = Unwritten
    BY <1>6, <2>3, <2>4, <2>5
  <2>7. \E new \in Users \ {r.old} : items[w] = {<<r.pr, new>>}
    BY <1>5, <2>1 DEF SwapHeld
  <2> QED
    BY <1>4, <2>1, <2>3, <2>6, <2>7 DEF SwapHeld, Has
<1>10. CASE LockNew(w)
  <2>1. /\ pc[w] = "lockNew" /\ pc'[w] = "getReassigned" /\ db' = db
        /\ \E a \in items[w] : /\ ~Has(See(w), RevKey(a[1], a[2]))
                               /\ tx' = [tx EXCEPT ![w][RevKey(a[1], a[2])] = Present]
    BY <1>4, <1>10 DEF LockNew, Merge, Put, Goto, LocalsTyped
  <2>2. PICK new \in Users \ {r.old} : items[w] = {<<r.pr, new>>}
    BY <1>5, <2>1 DEF SwapHeld
  <2>3. /\ ~Has(See(w), Row(new))
        /\ tx' = [tx EXCEPT ![w][Row(new)] = Present]
    <3>1. PICK a \in items[w] : /\ ~Has(See(w), RevKey(a[1], a[2]))
                                /\ tx' = [tx EXCEPT ![w][RevKey(a[1], a[2])] = Present]
      BY <2>1
    <3>2. a = <<r.pr, new>>
      BY <2>2
    <3>3. a[1] = r.pr /\ a[2] = new
      BY <3>2
    <3>4. RevKey(a[1], a[2]) = Row(new)
      BY <3>3
    <3> QED
      BY <3>1, <3>4
  <2>4. /\ Has(db, Row(r.old)) /\ tx[w][Row(r.old)] = Absent
        /\ \A u \in Users \ {r.old} : tx[w][Row(u)] = Unwritten
    BY <1>5, <2>1 DEF SwapHeld
  <2>5. ~Has(db, Row(new))
    BY <1>6, <2>2, <2>3, <2>4, Seeing DEF Has
  <2>6. \A j \in Keys : tx'[w][j] = IF j = Row(new) THEN Present ELSE tx[w][j]
    BY <1>6, <2>2, <2>3, OneWritten
  <2>7. /\ tx'[w][Row(r.old)] = Absent /\ tx'[w][Row(new)] = Present
        /\ \A u \in Users \ {r.old, new} : tx'[w][Row(u)] = Unwritten
    BY <1>6, <2>2, <2>4, <2>6
  <2> QED
    BY <1>4, <2>1, <2>2, <2>4, <2>5, <2>7 DEF SwapHeld, Has
<1>11. CASE GetReassigned(w)
  <2>1. /\ pc[w] = "getReassigned" /\ pc'[w] = "commit" /\ db' = db /\ tx' = tx
    BY <1>4, <1>11 DEF GetReassigned, Merge, Goto, LocalsTyped
  <2>2. PICK new \in Users \ {r.old} :
          /\ Has(db, Row(r.old)) /\ tx[w][Row(r.old)] = Absent
          /\ ~Has(db, Row(new)) /\ tx[w][Row(new)] = Present
          /\ \A u \in Users \ {r.old, new} : tx[w][Row(u)] = Unwritten
    BY <1>5, <2>1 DEF SwapHeld
  <2> QED
    BY <1>4, <2>1, <2>2 DEF SwapHeld
<1>12. ASSUME Quiet(w)
       PROVE  Reassign(w) \/ LockOld(w) \/ LockNew(w) \/ GetReassigned(w)
  BY <1>7, <1>12
  DEF Quiet, SetActive, LockUser, FindCandidates, Remove, RemoveRow, Removed, Add, AddRow,
      Added, InsertTeam, UpsertUser, Deactivate, DeactivateRow, Deactivated, TeamExists,
      RemoveTeam, Pick, AuthorExists, InsertPR, MergeExists, GetMerged
<1>13. ~Merge(w)
  BY <1>7 DEF Merge
<1> QED
  BY <1>4, <1>8, <1>9, <1>10, <1>11, <1>12, <1>13

\* What a request has locked or still waits for is not changed by others.
LEMMA OthersHeld ==
  ASSUME NEW w \in Workers, Inductive, AnswersHeld, Step(w), NEW v \in Workers, v # w
  PROVE  HoldsNothing(v)' /\ CreationHeld(v)' /\ PickKept(v)' /\ SwapHeld(v)'
<1> USE DEF Inductive, TypeOK
<1>1. /\ pc'[v] = pc[v] /\ req'[v] = req[v] /\ items'[v] = items[v]
      /\ todo'[v] \subseteq todo[v] /\ res'[v] = res[v] /\ tx'[v] = tx[v]
  BY OthersKept, OthersAnswer
<1>2. HoldsNothing(v)' /\ CreationHeld(v)'
  BY <1>1 DEF AnswersHeld, HoldsNothing, CreationHeld
<1>3. PickKept(v)'
  <2>1. Picked(v)' = Picked(v)
    BY <1>1 DEF Picked
  <2> QED
    BY <1>1, <2>1 DEF AnswersHeld, PickKept
<1>4. SwapHeld(v)'
  <2> DEFINE r == req[v]
             Row(u) == RevKey(r.pr, u)
  <2>1. SUFFICES ASSUME r.op = "Reassign", pc[v] # "done" PROVE SwapHeld(v)'
    BY <1>1 DEF SwapHeld
  <2>2. /\ r.pr \in PRs /\ r.old \in Users
        /\ \A u \in Users : Row(u) \in RevKeys
    BY <2>1, Serving, RequestForms, KeysApart
  <2>3. \A u \in Users : tx[v][Row(u)] # Unwritten => db'[Row(u)] = db[Row(u)]
    BY <2>2, CommittedUnderLock
  <2>4. ASSUME pc[v] = "lockOld"
        PROVE  todo'[v] \subseteq {Row(r.old)} /\ \A k \in todo'[v] : Has(db', k)
    <3>1. todo[v] \subseteq {Row(r.old)} /\ \A k \in todo[v] : Has(db, k)
      BY <2>1, <2>4 DEF AnswersHeld, SwapHeld
    <3>2. \A k \in todo'[v] : k \in RevKeys /\ db'[k] = db[k]
      BY <1>1, <2>2, <2>4, <3>1, CommitSkips
    <3> QED
      BY <1>1, <3>1, <3>2 DEF Has
  <2>5. ASSUME pc[v] \in {"lockOld", "lockNew"}
        PROVE  \E new \in Users \ {r.old} : items[v] = {<<r.pr, new>>}
    BY <2>1, <2>5 DEF AnswersHeld, SwapHeld
  <2>6. ASSUME pc[v] = "lockNew"
        PROVE  /\ Has(db', Row(r.old)) /\ tx[v][Row(r.old)] = Absent
               /\ \A u \in Users \ {r.old} : tx[v][Row(u)] = Unwritten
    BY <2>1, <2>2, <2>3, <2>6, UnwrittenIsNoRow DEF AnswersHeld, SwapHeld, Has
  <2>7. ASSUME pc[v] \in {"getReassigned", "commit"}
        PROVE  \E new \in Users \ {r.old} :
                 /\ Has(db', Row(r.old)) /\ tx[v][Row(r.old)] = Absent
                 /\ ~Has(db', Row(new)) /\ tx[v][Row(new)] = Present
                 /\ \A u \in Users \ {r.old, new} : tx[v][Row(u)] = Unwritten
    <3>1. PICK new \in Users \ {r.old} :
            /\ Has(db, Row(r.old)) /\ tx[v][Row(r.old)] = Absent
            /\ ~Has(db, Row(new)) /\ tx[v][Row(new)] = Present
            /\ \A u \in Users \ {r.old, new} : tx[v][Row(u)] = Unwritten
      BY <2>1, <2>7 DEF AnswersHeld, SwapHeld
    <3>2. db'[Row(r.old)] = db[Row(r.old)] /\ db'[Row(new)] = db[Row(new)]
      BY <2>2, <2>3, <3>1, UnwrittenIsNoRow
    <3> QED
      BY <3>1, <3>2 DEF Has
  <2> QED
    BY <1>1, <2>4, <2>5, <2>6, <2>7 DEF SwapHeld, Has
<1> QED
  BY <1>2, <1>3, <1>4

(***************************************************************************)
(* Part 5.  The theorems.                                                  *)
(***************************************************************************)
\* The service starts with no request in progress.
LEMMA StartsHeld == Init => AnswersHeld
  BY DEF Init, AnswersHeld, HoldsNothing, CreationHeld, PickKept, SwapHeld, NoRequest

\* Every step of every handler keeps what the answers rest on.
LEMMA AnswersKept == Inductive /\ AnswersHeld /\ [Next]_vars => AnswersHeld'
<1> SUFFICES ASSUME Inductive, AnswersHeld, [Next]_vars PROVE AnswersHeld'
  OBVIOUS
<1>1. ASSUME NEW w \in Workers, Step(w), NEW v \in Workers
      PROVE  HoldsNothing(v)' /\ CreationHeld(v)' /\ PickKept(v)' /\ SwapHeld(v)'
  <2>1. CASE v = w
    BY <1>1, <2>1, HoldsNothingStep, CreationHeldStep, PickKeptStep, SwapHeldStep
    DEF AnswersHeld
  <2>2. CASE v # w
    BY <1>1, <2>2, OthersHeld
  <2> QED
    BY <2>1, <2>2
<1>2. CASE UNCHANGED vars
  BY <1>2 DEF vars, AnswersHeld, HoldsNothing, CreationHeld, PickKept, Picked, SwapHeld
<1> QED
  BY <1>1, <1>2 DEF Next, Step, Terminating, AnswersHeld

\* A request to create or reassign that is answered with success has just
\* committed what its transaction saw, with the answer prepared before.
LEMMA GrantedCommits ==
  ASSUME Inductive, [Next]_vars, NEW w \in Workers, NEW op, Granted(w, op),
         op # "Merge"
  PROVE  pc[w] = "commit" /\ db' = See(w) /\ res'[w] = res[w] /\ req[w].op = op
<1> USE DEF Inductive, TypeOK
<1>1. pc[w] # "done" /\ pc'[w] = "done" /\ res'[w].code = "OK" /\ req[w].op = op
  BY DEF Granted, Ends
<1>2. Step(w)
  <2>1. PICK v \in Workers : Step(v)
    BY <1>1 DEF Next, Step, Terminating, vars
  <2> QED
    BY <1>1, <2>1, OthersKept
<1>3. ~(\E code : Fail(w, code) /\ code # "OK")
  BY <1>1 DEF Fail, Prepare, Answer, LocalsTyped
<1>4. ~GetMerged(w)
  BY <1>1, Serving DEF GetMerged
<1>5. ~CommitLost(w)
  BY <1>1 DEF CommitLost, Prepare, Answer, LocalsTyped
<1>6. ~DeadlockAbort(w) /\ ~Cancel(w) /\ ~Begin(w)
  BY <1>1, <1>3 DEF DeadlockAbort, Cancel, Begin
<1>7. ~Merge(w)
  BY <1>1 DEF Merge, Proceed, Goto, LocalsTyped
<1>8. ~Quiet(w)
  <2>1. ~(\/ SetActive(w) \/ LockUser(w) \/ FindCandidates(w) \/ Remove(w)
          \/ RemoveRow(w) \/ Removed(w) \/ Add(w) \/ AddRow(w) \/ Added(w)
          \/ InsertTeam(w) \/ UpsertUser(w))
    BY <1>1, <1>3 DEF SetActive, LockUser, FindCandidates, Remove, RemoveRow, Removed, Add,
                      AddRow, Added, InsertTeam, UpsertUser, NextMember, Choose, WriteRow,
                      Proceed, Goto, LocalsTyped
  <2>2. ~(\/ Deactivate(w) \/ DeactivateRow(w) \/ Deactivated(w) \/ TeamExists(w)
          \/ RemoveTeam(w) \/ Pick(w) \/ AuthorExists(w) \/ InsertPR(w)
          \/ MergeExists(w) \/ Reassign(w) \/ LockOld(w) \/ LockNew(w)
          \/ GetReassigned(w))
    BY <1>1, <1>3 DEF Deactivate, DeactivateRow, Deactivated, TeamExists, RemoveTeam, Pick,
                      AuthorExists, InsertPR, MergeExists, Reassign, LockOld, LockNew,
                      GetReassigned, Choose, WriteRow, Proceed, Goto, LocalsTyped
  <2> QED
    BY <1>4, <2>1, <2>2 DEF Quiet
<1>9. Commit(w)
  BY <1>2, <1>5, <1>6, <1>7, <1>8 DEF Step, Serve
<1> QED
  BY <1>1, <1>9 DEF Commit, Publish

\* Whatever requests come and however their statements interleave, abort and
\* fail, what the answers rest on is locked or not yet relied on.
THEOREM AnswersInvariance == Spec => []AnswersHeld
  BY StartsHeld, AnswersKept, Invariance, PTL DEF Spec

\* Of several requests to create the same team or pull request at most one is
\* granted: a granted one has locked a row that was not committed.
THEOREM CreationsUnique == Spec => CreatedOnce
<1> DEFINE Once == \A w \in Workers :
             /\ Granted(w, "CreateTeam") => ~Has(db, TeamKey(req[w].team))
             /\ Granted(w, "CreatePR") => ~Has(db, PRKey(req[w].pr))
<1>1. ASSUME Inductive, AnswersHeld, [Next]_vars PROVE Once
  <2>1. SUFFICES ASSUME NEW w \in Workers PROVE
          /\ Granted(w, "CreateTeam") => ~Has(db, TeamKey(req[w].team))
          /\ Granted(w, "CreatePR") => ~Has(db, PRKey(req[w].pr))
    OBVIOUS
  <2>2. ASSUME Granted(w, "CreateTeam") PROVE ~Has(db, TeamKey(req[w].team))
    <3>1. pc[w] = "commit" /\ req[w].op = "CreateTeam"
      BY <1>1, <2>2, GrantedCommits
    <3>2. req[w].team \in Teams
      BY <1>1, <3>1, Serving, RequestForms DEF Inductive
    <3>3. tx[w][TeamKey(req[w].team)] # Unwritten
      BY <1>1, <3>1 DEF AnswersHeld, CreationHeld
    <3> QED
      BY <1>1, <3>2, <3>3, KeysApart DEF Inductive, WritesLast, Has
  <2>3. ASSUME Granted(w, "CreatePR") PROVE ~Has(db, PRKey(req[w].pr))
    <3>1. pc[w] = "commit" /\ req[w].op = "CreatePR"
      BY <1>1, <2>3, GrantedCommits
    <3>2. req[w].pr \in PRs
      BY <1>1, <3>1, Serving, RequestForms DEF Inductive
    <3>3. tx[w][PRKey(req[w].pr)] # Unwritten
      BY <1>1, <3>1 DEF AnswersHeld, CreationHeld
    <3> QED
      BY <1>1, <3>2, <3>3, KeysApart DEF Inductive, WritesLast, Has
  <2> QED
    BY <2>2, <2>3
<1> QED
  BY <1>1, Invariance, AnswersInvariance, PTL DEF Spec, CreatedOnce

\* A granted reassignment replaces exactly the old reviewer by exactly one new
\* one, whoever contends for the two rows.
THEOREM ReassignmentSwaps == Spec => ReassignSwaps
<1> DEFINE before(w) == Reviewers(db, req[w].pr)
           after(w)  == Reviewers(db', req[w].pr)
           Swaps == \A w \in Workers : Granted(w, "Reassign") =>
             /\ req[w].old \in before(w) \ after(w)
             /\ \E new \in Users \ before(w) :
                  after(w) = (before(w) \ {req[w].old}) \cup {new}
<1>1. ASSUME Inductive, AnswersHeld, [Next]_vars PROVE Swaps
  <2>1. SUFFICES ASSUME NEW w \in Workers, Granted(w, "Reassign")
                 PROVE  /\ req[w].old \in before(w) \ after(w)
                        /\ \E new \in Users \ before(w) :
                             after(w) = (before(w) \ {req[w].old}) \cup {new}
    OBVIOUS
  <2> DEFINE r == req[w]
             Row(u) == RevKey(r.pr, u)
  <2>2. pc[w] = "commit" /\ r.op = "Reassign" /\ db' = See(w)
    BY <1>1, <2>1, GrantedCommits
  <2>3. r.pr \in PRs /\ r.old \in Users
    BY <1>1, <2>2, Serving, RequestForms DEF Inductive
  <2>4. PICK new \in Users \ {r.old} :
          /\ Has(db, Row(r.old)) /\ tx[w][Row(r.old)] = Absent
          /\ ~Has(db, Row(new)) /\ tx[w][Row(new)] = Present
          /\ \A u \in Users \ {r.old, new} : tx[w][Row(u)] = Unwritten
    BY <1>1, <2>2 DEF AnswersHeld, SwapHeld
  <2>5. \A u \in Users : db'[Row(u)] = IF tx[w][Row(u)] = Unwritten THEN db[Row(u)]
                                                              ELSE tx[w][Row(u)]
    BY <2>2, <2>3, KeysApart, Seeing
  <2>6. /\ ~Has(db', Row(r.old)) /\ Has(db', Row(new))
        /\ \A u \in Users \ {r.old, new} : Has(db', Row(u)) <=> Has(db, Row(u))
    BY <2>3, <2>4, <2>5, UnwrittenIsNoRow, AbsentIsNoRow DEF Has
  <2>7. r.old \in before(w) \ after(w)
    BY <2>3, <2>4, <2>6 DEF Reviewers
  <2>8. new \in Users \ before(w)
    BY <2>4 DEF Reviewers
  <2>9. after(w) = (before(w) \ {r.old}) \cup {new}
    BY <2>3, <2>4, <2>6 DEF Reviewers
  <2> QED
    BY <2>7, <2>8, <2>9
<1> QED
  BY <1>1, Invariance, AnswersInvariance, PTL DEF Spec, ReassignSwaps

\* A pull request starts with at most two reviewers, all of them among those its
\* creator is told of.
THEOREM NewPRsWithinAnswer == Spec => NewPRWithinAnswer
<1> DEFINE Within == \A w \in Workers : Granted(w, "CreatePR") =>
             /\ Cardinality(Reviewers(db', req[w].pr)) <= 2
             /\ Reviewers(db', req[w].pr) \subseteq res'[w].pr.reviewers
<1>1. ASSUME Inductive, AnswersHeld, [Next]_vars PROVE Within
  <2>1. SUFFICES ASSUME NEW w \in Workers, Granted(w, "CreatePR")
                 PROVE  /\ Cardinality(Reviewers(db', req[w].pr)) <= 2
                        /\ Reviewers(db', req[w].pr) \subseteq res'[w].pr.reviewers
    OBVIOUS
  <2> DEFINE p == req[w].pr
  <2>2. pc[w] = "commit" /\ req[w].op = "CreatePR" /\ db' = See(w) /\ res'[w] = res[w]
    BY <1>1, <2>1, GrantedCommits
  <2>3. p \in PRs
    BY <1>1, <2>2, Serving, RequestForms DEF Inductive
  <2>4. ~Has(db, PRKey(p))
    BY <1>1, <2>2, <2>3, KeysApart DEF AnswersHeld, CreationHeld, Inductive, WritesLast, Has
  \* Nobody reviews what was not there.
  <2>5. \A u \in Users : ~Has(db, RevKey(p, u))
    BY <1>1, <2>3, <2>4 DEF Inductive, NoSelfReview, AuthorsApart
  <2>6. \A u \in Users : Has(db', RevKey(p, u)) => tx[w][RevKey(p, u)] # Unwritten
    BY <2>2, <2>3, <2>5, KeysApart, Seeing DEF Has
  <2>7. Reviewers(db', p) \subseteq Picked(w)
    BY <1>1, <2>2, <2>6 DEF AnswersHeld, PickKept, Reviewers
  <2>8. Cardinality(Picked(w)) <= 2 /\ res[w].pr.reviewers = Picked(w)
    BY <1>1, <2>2 DEF AnswersHeld, PickKept
  <2>9. IsFiniteSet(Picked(w))
    BY UsersFinite, FS_Subset DEF Picked
  <2>10. Cardinality(Reviewers(db', p)) <= 2
    <3>1. /\ IsFiniteSet(Reviewers(db', p))
          /\ Cardinality(Reviewers(db', p)) <= Cardinality(Picked(w))
      BY <2>7, <2>9, FS_Subset
    <3>2. Cardinality(Reviewers(db', p)) \in Nat /\ Cardinality(Picked(w)) \in Nat
      BY <2>9, <3>1, FS_CardinalityType
    <3> QED
      BY <2>8, <3>1, <3>2
  <2> QED
    BY <2>2, <2>7, <2>8, <2>10
<1> QED
  BY <1>1, Invariance, AnswersInvariance, PTL DEF Spec, NewPRWithinAnswer
==============================================================================
