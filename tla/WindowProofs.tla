----------------------------- MODULE WindowProofs -----------------------------
(***************************************************************************)
(* How old the data may be that a request of RequestWindow acts on: proved *)
(* for any number of workers, users, teams, pull requests, requests and    *)
(* faults.                                                                 *)
(*                                                                         *)
(* The invariant is WindowHeld.  What a transaction sees it has seen in    *)
(* its own time (SeenInWindow); what it chooses, it chooses from what it   *)
(* sees, and keeps until it writes it (WritesInWindow).  Nothing is ever   *)
(* deleted from the tables NOT_FOUND is about, so what is missing at a     *)
(* later step was missing when the request was taken (MissesInWindow).     *)
(*                                                                         *)
(* Part 1  the history variables      Part 3  the window is kept           *)
(* Part 2  rows a step does not write Part 4  the theorems                 *)
(***************************************************************************)
EXTENDS RequestWindow, OutcomeProofs

\* The history variables follow a step.
Tracks ==
  /\ open' = [w \in Workers |-> Track(open, w, {p \in PRs : IsOpen(See(w), p)'})]
  /\ active' = [w \in Workers |-> Track(active, w, {u \in Users : IsActive(See(w), u)'})]
  /\ idle' = [w \in Workers |-> Track(idle, w, {u \in Users : ~IsActive(See(w), u)'})]
  /\ missing' = [w \in Workers |->
       IF pc[w] = "done" THEN Track(missing, w, {k \in LastingKeys : ~Has(db, k)})
       ELSE Track(missing, w, {})]

(***************************************************************************)
(* Part 1.  The history variables.                                         *)
(***************************************************************************)
\* While a request runs, its window takes in what it sees, and only grows; what
\* was missing is noted when the request is taken.
LEMMA Tracked ==
  ASSUME Tracks, NEW w \in Workers, pc'[w] # "done"
  PROVE  /\ \A p \in PRs : IsOpen(See(w)', p) => p \in open'[w]
         /\ \A u \in Users : u \in IF IsActive(See(w)', u) THEN active'[w] ELSE idle'[w]
         /\ pc[w] # "done" => /\ open[w] \subseteq open'[w]
                              /\ active[w] \subseteq active'[w]
                              /\ idle[w] \subseteq idle'[w]
                              /\ missing'[w] = missing[w]
         /\ pc[w] = "done" => \A k \in LastingKeys : ~Has(db, k) => k \in missing'[w]
<1>1. /\ open'[w] = Track(open, w, {p \in PRs : IsOpen(See(w)', p)})
      /\ active'[w] = Track(active, w, {u \in Users : IsActive(See(w)', u)})
      /\ idle'[w] = Track(idle, w, {u \in Users : ~IsActive(See(w)', u)})
      /\ missing'[w] = IF pc[w] = "done" THEN Track(missing, w, {k \in LastingKeys : ~Has(db, k)})
                                         ELSE Track(missing, w, {})
  BY DEF Tracks
<1> QED
  BY <1>1 DEF Track

\* What a request sees lies in its window after every step, its own or not.
LEMMA SeenStep ==
  ASSUME NEW w \in Workers, Inductive, WindowHeld, Step(w), Tracks, NEW v \in Workers
  PROVE  SeenInWindow(v)'
<1> SUFFICES ASSUME pc'[v] # "done"
             PROVE  /\ \A p \in PRs : IsOpen(See(v)', p) => p \in open'[v]
                    /\ \A u \in Users :
                         u \in IF IsActive(See(v)', u) THEN active'[v] ELSE idle'[v]
                    /\ \A k \in LastingKeys : ~Has(db', k) => k \in missing'[v]
  BY DEF SeenInWindow
<1>1. ASSUME NEW k \in LastingKeys, ~Has(db', k) PROVE k \in missing'[v]
  <2>1. ~Has(db, k)
    BY <1>1, CommittedStays
  <2>2. pc[v] # "done" => k \in missing[v]
    BY <2>1 DEF WindowHeld, SeenInWindow
  <2> QED
    BY <2>1, <2>2, Tracked
<1> QED
  BY <1>1, Tracked

(***************************************************************************)
(* Part 2.  Rows and variables a step does not write.                      *)
(***************************************************************************)
\* The statements that write the table of reviewers.
WritesReviewers == {"removing", "adding", "lockOld", "lockNew"}

\* Every other statement leaves the reviewers its transaction has written alone.
LEMMA ReviewersLeft ==
  ASSUME NEW w \in Workers, Inductive, Step(w), ~Begin(w), pc'[w] # "done",
         pc[w] \notin WritesReviewers, NEW k \in RevKeys
  PROVE  tx'[w][k] = tx[w][k]
<1> USE DEF Inductive, TypeOK
<1> DEFINE r == req[w]
<1>1. /\ (Quiet(w) /\ db' = db) \/ Merge(w)
      /\ \A code : ~Fail(w, code)
      /\ pc[w] # "done" /\ Settled(w)
  BY InProgress
<1>2. k \in Keys
  BY DEF Keys
\* One row of another table is written.
<1>3. ASSUME NEW j \in Keys, j # k, NEW row, tx' = [tx EXCEPT ![w][j] = row]
      PROVE  tx'[w][k] = tx[w][k]
  BY <1>2, <1>3, OneWritten
<1>4. /\ \A u \in Users : UserKey(u) \in Keys /\ UserKey(u) # k
      /\ \A t \in Teams : TeamKey(t) \in Keys /\ TeamKey(t) # k
      /\ \A p \in PRs : PRKey(p) \in Keys /\ PRKey(p) # k
  BY KeysApart DEF RevKeys
<1>5. CASE LockUser(w)
  <2>1. r.user \in Users
    BY <1>1, <1>5, Serving DEF LockUser
  <2>2. \E row : tx' = [tx EXCEPT ![w][UserKey(r.user)] = row]
    BY <1>1, <1>5 DEF LockUser, Put
  <2> QED
    BY <1>3, <1>4, <2>1, <2>2
<1>6. CASE InsertTeam(w)
  <2>1. r.team \in Teams
    BY <1>1, <1>6, Serving DEF InsertTeam
  <2>2. tx' = [tx EXCEPT ![w][TeamKey(r.team)] = Present]
    BY <1>1, <1>6 DEF InsertTeam, Put
  <2> QED
    BY <1>3, <1>4, <2>1, <2>2
<1>7. CASE UpsertUser(w)
  <2> DEFINE m == r.members[idx[w]]
  <2>1. m \in Member
    BY <1>1, <1>7, Serving DEF UpsertUser, Settled, AtMember
  <2>2. m.user \in Users
    BY <2>1 DEF Member
  <2>3. \E row : tx' = [tx EXCEPT ![w][UserKey(m.user)] = row]
    BY <1>7 DEF UpsertUser, Put
  <2> QED
    BY <1>3, <1>4, <2>2, <2>3
<1>8. CASE DeactivateRow(w)
  <2>1. PICK j \in todo[w] : \/ tx' = tx
                             \/ \E row : tx' = [tx EXCEPT ![w][j] = row]
    BY <1>8 DEF DeactivateRow, WriteRow
  <2>2. j \in UserKeys
    BY <1>1, <1>8, <2>1 DEF DeactivateRow, Settled, TodoInTable
  <2>3. j \in Keys /\ j # k
    BY <1>4, <2>2 DEF UserKeys
  <2> QED
    BY <1>3, <2>1, <2>3
<1>9. CASE InsertPR(w)
  <2>1. r.pr \in PRs
    BY <1>1, <1>9, Serving DEF InsertPR
  <2>2. \E row : tx' = [tx EXCEPT ![w][PRKey(r.pr)] = row]
    BY <1>1, <1>9 DEF InsertPR, Put
  <2> QED
    BY <1>3, <1>4, <2>1, <2>2
<1>10. CASE \/ SetActive(w) \/ FindCandidates(w) \/ Remove(w) \/ Removed(w) \/ Add(w)
            \/ Added(w) \/ Deactivate(w) \/ Deactivated(w) \/ TeamExists(w)
            \/ RemoveTeam(w) \/ Pick(w) \/ AuthorExists(w) \/ MergeExists(w)
            \/ GetMerged(w) \/ Reassign(w) \/ GetReassigned(w) \/ Merge(w)
  <2>1. tx' = tx
    BY <1>1, <1>10 DEF SetActive, FindCandidates, Remove, Removed, Add, Added, Deactivate,
       Deactivated, TeamExists, RemoveTeam, Pick, AuthorExists, MergeExists, GetMerged,
       Reassign, GetReassigned, Merge, Choose, Proceed
  <2> QED
    BY <2>1
<1>11. ~(RemoveRow(w) \/ AddRow(w) \/ LockOld(w) \/ LockNew(w))
  BY DEF RemoveRow, AddRow, LockOld, LockNew, WritesReviewers
<1> QED
  BY <1>1, <1>5, <1>6, <1>7, <1>8, <1>9, <1>10, <1>11 DEF Quiet

\* A commit of w takes nothing away from what others are adding.
LEMMA OthersAdding ==
  ASSUME NEW w \in Workers, Inductive, Step(w), NEW v \in Workers, v # w,
         pc[v] = "adding"
  PROVE  todo'[v] = todo[v]
<1> USE DEF Inductive, TypeOK
<1>1. CASE \E code : Fail(w, code)
  BY <1>1 DEF Fail, LocalsTyped
<1>2. CASE SetActive(w) \/ LockUser(w) \/ FindCandidates(w) \/ Remove(w) \/ Begin(w)
  BY <1>1, <1>2 DEF SetActive, LockUser, FindCandidates, Remove, Choose, Begin, LocalsTyped
<1>3. CASE RemoveRow(w) \/ AddRow(w) \/ DeactivateRow(w)
  BY <1>3 DEF RemoveRow, AddRow, DeactivateRow, WriteRow, LocalsTyped
<1>4. CASE \/ Removed(w) \/ Add(w) \/ Added(w) \/ InsertTeam(w) \/ UpsertUser(w)
           \/ Deactivate(w) \/ Deactivated(w) \/ TeamExists(w)
  BY <1>1, <1>4 DEF Removed, Add, Added, InsertTeam, UpsertUser, Deactivate, Deactivated,
     TeamExists, Choose, Proceed, LocalsTyped
<1>5. CASE \/ RemoveTeam(w) \/ Pick(w) \/ AuthorExists(w) \/ InsertPR(w) \/ Merge(w)
           \/ MergeExists(w) \/ GetMerged(w) \/ Reassign(w) \/ LockOld(w) \/ LockNew(w)
           \/ GetReassigned(w)
  BY <1>1, <1>5 DEF RemoveTeam, Pick, AuthorExists, InsertPR, Merge, MergeExists, GetMerged,
     Reassign, LockOld, LockNew, GetReassigned, Proceed, LocalsTyped
<1>6. CASE DeadlockAbort(w) \/ Commit(w) \/ Cancel(w) \/ CommitLost(w)
  BY <1>1, <1>6 DEF DeadlockAbort, Commit, Cancel, CommitLost, Publish
<1> QED
  BY <1>1, <1>2, <1>3, <1>4, <1>5, <1>6 DEF Step, Serve, Quiet

\* A step of w leaves the snapshots other requests keep alone.
LEMMA OthersSnapshot ==
  ASSUME NEW w \in Workers, Inductive, Step(w), NEW v \in Workers, v # w
  PROVE  seen'[v] = seen[v]
<1> USE DEF Inductive, TypeOK
<1>1. CASE \E code : Fail(w, code)
  BY <1>1 DEF Fail
<1>2. CASE SetActive(w) \/ Begin(w)
  BY <1>1, <1>2 DEF SetActive, Begin, LocalsTyped
<1>3. CASE \/ LockUser(w) \/ FindCandidates(w) \/ Remove(w) \/ RemoveRow(w) \/ Removed(w)
           \/ Add(w) \/ AddRow(w) \/ Added(w) \/ InsertTeam(w) \/ UpsertUser(w)
           \/ Deactivate(w) \/ DeactivateRow(w) \/ Deactivated(w) \/ TeamExists(w)
  BY <1>1, <1>3 DEF LockUser, FindCandidates, Remove, RemoveRow, Removed, Add, AddRow, Added,
     InsertTeam, UpsertUser, Deactivate, DeactivateRow, Deactivated, TeamExists, Choose,
     WriteRow, Proceed
<1>4. CASE \/ RemoveTeam(w) \/ Pick(w) \/ AuthorExists(w) \/ InsertPR(w) \/ Merge(w)
           \/ MergeExists(w) \/ GetMerged(w) \/ Reassign(w) \/ LockOld(w) \/ LockNew(w)
           \/ GetReassigned(w)
  BY <1>1, <1>4 DEF RemoveTeam, Pick, AuthorExists, InsertPR, Merge, MergeExists, GetMerged,
     Reassign, LockOld, LockNew, GetReassigned, Proceed
<1>5. CASE DeadlockAbort(w) \/ Commit(w) \/ Cancel(w) \/ CommitLost(w)
  BY <1>1, <1>5 DEF DeadlockAbort, Commit, Cancel, CommitLost, Publish
<1> QED
  BY <1>1, <1>2, <1>3, <1>4, <1>5 DEF Step, Serve, Quiet

(***************************************************************************)
(* Part 3.  The window is kept.                                            *)
(***************************************************************************)
\* What a request has chosen stays in its window whatever others do.
LEMMA OthersWindow ==
  ASSUME NEW w \in Workers, Inductive, WindowHeld, Step(w), Tracks,
         NEW v \in Workers, v # w
  PROVE  WritesInWindow(v)' /\ MissesInWindow(v)' /\ LeavesOutIdle(v)'
<1>1. /\ pc'[v] = pc[v] /\ req'[v] = req[v] /\ items'[v] = items[v] /\ todo'[v] \subseteq todo[v]
      /\ res'[v] = res[v] /\ tx'[v] = tx[v] /\ seen'[v] = seen[v]
  BY OthersKept, OthersAnswer, OthersSnapshot
<1>2. SUFFICES ASSUME pc[v] # "done"
               PROVE  WritesInWindow(v)' /\ MissesInWindow(v)' /\ LeavesOutIdle(v)'
  BY <1>1 DEF WritesInWindow, MissesInWindow, LeavesOutIdle
<1>3. /\ open[v] \subseteq open'[v] /\ active[v] \subseteq active'[v]
      /\ idle[v] \subseteq idle'[v] /\ missing'[v] = missing[v]
  BY <1>1, <1>2, Tracked
<1>4. WritesInWindow(v) /\ MissesInWindow(v) /\ LeavesOutIdle(v)
  BY DEF WindowHeld
<1>5. WritesInWindow(v)'
  BY <1>1, <1>2, <1>3, <1>4 DEF WritesInWindow
<1>6. MissesInWindow(v)'
  BY <1>1, <1>2, <1>3, <1>4 DEF MissesInWindow
<1>7. LeavesOutIdle(v)'
  <2>1. Picked(v)' = Picked(v) /\ (pc[v] = "adding" => todo'[v] = todo[v])
    BY <1>1, OthersAdding DEF Picked
  <2> QED
    BY <1>1, <1>3, <1>4, <2>1 DEF LeavesOutIdle
<1> QED
  BY <1>5, <1>6, <1>7

\* A request chooses the reviewers it removes and adds from what it sees.
LEMMA OwnWrites ==
  ASSUME NEW w \in Workers, Inductive, HoldsNothing(w), WindowHeld, Step(w), Tracks
  PROVE  WritesInWindow(w)'
<1> USE DEF Inductive, TypeOK
<1> DEFINE r == req[w]
           Rows == \A p \in PRs, u \in Users :
             /\ tx'[w][RevKey(p, u)] # Unwritten => p \in open'[w]
             /\ tx'[w][RevKey(p, u)] = Present => u \in active'[w]
           Chosen == \A p \in PRs, u \in Users : RevKey(p, u) \in todo'[w] =>
             /\ pc'[w] \in {"removing", "lockOld"} => p \in open'[w]
             /\ pc'[w] = "adding" => u \in active'[w]
           Kept == \A a \in items'[w] :
             /\ pc'[w] \notin {"authorExists", "insertPR"} => a[1] \in open'[w]
             /\ pc'[w] \in {"lockOld", "lockNew"} => a[2] \in active'[w]
<1>1. CASE Begin(w)
  <2>1. PICK q \in Requests : pc' = [pc EXCEPT ![w] = FirstStep(q)]
    BY <1>1 DEF Begin, Goto
  <2>2. pc'[w] \notin {"removing", "adding", "lockOld", "lockNew"}
    BY <2>1, RequestForms DEF FirstStep, LocalsTyped
  <2>3. items'[w] = {}
    BY <1>1 DEF Begin, LocalsTyped
  <2>4. \A p \in PRs, u \in Users : tx'[w][RevKey(p, u)] = Unwritten
    BY <1>1, KeysApart DEF Begin, HoldsNothing, Unwriting, NoWrites
  <2> QED
    BY <2>2, <2>3, <2>4, UnwrittenIsNoRow DEF WritesInWindow
<1>2. CASE pc'[w] = "done"
  BY <1>2 DEF WritesInWindow
<1>3. SUFFICES ASSUME ~Begin(w), pc'[w] # "done" PROVE WritesInWindow(w)'
  BY <1>1, <1>2
<1>4. /\ (Quiet(w) /\ db' = db) \/ Merge(w)
      /\ \A code : ~Fail(w, code)
      /\ req'[w] = r /\ pc[w] # "done" /\ Settled(w)
  BY <1>3, InProgress
<1>5. /\ open[w] \subseteq open'[w] /\ active[w] \subseteq active'[w]
      /\ \A p \in PRs : IsOpen(See(w)', p) => p \in open'[w]
  BY <1>3, <1>4, Tracked
<1>6. /\ \A p \in PRs : IsOpen(See(w), p) => p \in open'[w]
      /\ \A u \in Users : IsActive(See(w), u) => u \in active'[w]
  BY <1>4, <1>5 DEF WindowHeld, SeenInWindow
<1>7. SUFFICES Rows /\ Chosen /\ Kept
  BY DEF WritesInWindow
\* What was written, chosen or kept before the step lies in the window.
<1>8. \A p \in PRs, u \in Users :
        /\ tx[w][RevKey(p, u)] # Unwritten => p \in open'[w]
        /\ tx[w][RevKey(p, u)] = Present => u \in active'[w]
        /\ pc[w] \in {"removing", "lockOld"} /\ RevKey(p, u) \in todo[w] => p \in open'[w]
        /\ pc[w] = "adding" /\ RevKey(p, u) \in todo[w] => u \in active'[w]
  BY <1>4, <1>5 DEF WindowHeld, WritesInWindow
<1>9. \A a \in items[w] :
        /\ a \in PRs \X Users
        /\ pc[w] \notin {"authorExists", "insertPR"} => a[1] \in open'[w]
        /\ pc[w] \in {"lockOld", "lockNew"} => a[2] \in active'[w]
  BY <1>4, <1>5 DEF WindowHeld, WritesInWindow, LocalsTyped
<1>10. ASSUME pc[w] \notin WritesReviewers PROVE Rows
  <2>1. \A p \in PRs, u \in Users : tx'[w][RevKey(p, u)] = tx[w][RevKey(p, u)]
    BY <1>3, <1>10, ReviewersLeft, KeysApart
  <2> QED
    BY <1>8, <2>1
<1>11. ASSUME tx' = tx PROVE Rows
  BY <1>8, <1>11
<1>12. ASSUME pc'[w] \notin {"removing", "lockOld", "adding"} PROVE Chosen
  BY <1>12
<1>13. ASSUME items' = items, pc'[w] \notin {"lockOld", "lockNew"},
              pc[w] \in {"authorExists", "insertPR"} =>
                pc'[w] \in {"authorExists", "insertPR"}
       PROVE  Kept
  BY <1>9, <1>13
<1>14. CASE \/ SetActive(w) \/ LockUser(w) \/ Removed(w) \/ Added(w) \/ InsertTeam(w)
            \/ UpsertUser(w) \/ Deactivate(w) \/ DeactivateRow(w)
  <2>1. /\ pc'[w] \notin {"removing", "adding", "lockOld", "lockNew"} /\ items' = items
        /\ pc[w] \notin {"authorExists", "insertPR"}
        /\ pc[w] \notin WritesReviewers \/ tx' = tx
    BY <1>4, <1>14 DEF SetActive, LockUser, Removed, Added, InsertTeam, UpsertUser,
       Deactivate, DeactivateRow, NextMember, Choose, WriteRow, Proceed, Goto, LocalsTyped,
       WritesReviewers
  <2> QED
    BY <1>10, <1>11, <1>12, <1>13, <2>1
<1>15. CASE \/ Deactivated(w) \/ TeamExists(w) \/ MergeExists(w) \/ GetMerged(w)
            \/ GetReassigned(w) \/ Merge(w) \/ AuthorExists(w)
  <2>1. /\ pc'[w] \notin {"removing", "adding", "lockOld", "lockNew"} /\ items' = items
        /\ pc[w] \in {"authorExists", "insertPR"} => pc'[w] = "insertPR"
        /\ tx' = tx
    BY <1>4, <1>15 DEF Deactivated, TeamExists, MergeExists, GetMerged, GetReassigned, Merge,
       AuthorExists, Proceed, Goto, LocalsTyped
  <2> QED
    BY <1>11, <1>12, <1>13, <2>1
<1>16. CASE FindCandidates(w)
  <2>1. PICK found \in GetReassignmentCandidatesForReviewer(See(w), Subject(w)) :
          items' = [items EXCEPT ![w] = @ \cup found]
    BY <1>16 DEF FindCandidates
  <2>2. /\ pc[w] = "candidates" /\ tx' = tx
        /\ pc'[w] \in {"remove", "candidates", "insertTeam"}
    BY <1>16 DEF FindCandidates, NextMember, Goto, LocalsTyped
  <2>3. \A a \in found : a[1] \in open'[w]
    <3> DEFINE u  == Subject(w)
               ps == {p \in OpenReviews(See(w), u) : HandoverCandidates(See(w), p, u) # {}}
    <3>1. PICK f \in [ps -> Users] : found = {<<p, f[p]>> : p \in ps}
      BY DEF GetReassignmentCandidatesForReviewer
    <3>2. \A p \in ps : p \in open'[w]
      BY <1>6 DEF OpenReviews
    <3> QED
      BY <3>1, <3>2
  <2>4. \A a \in items'[w] : a[1] \in open'[w]
    BY <1>9, <2>1, <2>2, <2>3 DEF LocalsTyped
  <2> QED
    BY <1>11, <1>12, <2>2, <2>4
<1>17. CASE Remove(w)
  <2>1. /\ pc[w] = "remove" /\ pc'[w] = "removing" /\ tx' = tx /\ items' = items
        /\ todo'[w] = RemoveReviewerFromOpenPRs(See(w), Subject(w))
    BY <1>17 DEF Remove, Choose, Goto, LocalsTyped
  <2>2. ASSUME NEW p \in PRs, NEW u \in Users, RevKey(p, u) \in todo'[w]
        PROVE  p \in open'[w]
    <3>1. PICK q \in OpenReviews(See(w), Subject(w)) : RevKey(p, u) = RevKey(q, Subject(w))
      BY <2>1, <2>2 DEF RemoveReviewerFromOpenPRs
    <3>2. q \in PRs /\ IsOpen(See(w), q) /\ q = p
      BY <3>1 DEF OpenReviews, RevKey
    <3> QED
      BY <1>6, <3>2
  <2>3. Chosen
    BY <2>1, <2>2
  <2> QED
    BY <1>11, <1>13, <2>1, <2>3
<1>18. CASE RemoveTeam(w)
  <2>1. /\ pc[w] = "removeTeam" /\ pc'[w] = "removing" /\ tx' = tx /\ items' = items
        /\ todo'[w] = RemoveTeamReviewersFromOpenPRs(See(w), r.team)
    BY <1>18 DEF RemoveTeam, Goto, LocalsTyped
  <2>2. ASSUME NEW p \in PRs, NEW u \in Users, RevKey(p, u) \in todo'[w]
        PROVE  p \in open'[w]
    <3>1. PICK m \in TeamMembers(See(w), r.team) :
            RevKey(p, u) \in RemoveReviewerFromOpenPRs(See(w), m)
      BY <2>1, <2>2 DEF RemoveTeamReviewersFromOpenPRs
    <3>2. PICK q \in OpenReviews(See(w), m) : RevKey(p, u) = RevKey(q, m)
      BY <3>1 DEF RemoveReviewerFromOpenPRs
    <3>3. q \in PRs /\ IsOpen(See(w), q) /\ q = p
      BY <3>2 DEF OpenReviews, RevKey
    <3> QED
      BY <1>6, <3>3
  <2>3. Chosen
    BY <2>1, <2>2
  <2> QED
    BY <1>11, <1>13, <2>1, <2>3
<1>19. CASE RemoveRow(w)
  <2>1. PICK k \in todo[w] : tx' = [tx EXCEPT ![w][k] = Absent]
    BY <1>19, UnwrittenIsNoRow DEF RemoveRow, WriteRow
  <2>2. /\ pc[w] = "removing" /\ pc' = pc /\ items' = items /\ todo'[w] \subseteq todo[w]
    BY <1>19 DEF RemoveRow, WriteRow, LocalsTyped
  <2>3. k \in Keys
    BY <2>1 DEF LocalsTyped
  <2>4. \A j \in Keys : tx'[w][j] = IF j = k THEN Absent ELSE tx[w][j]
    BY <2>1, <2>3, OneWritten
  <2>5. Rows
    BY <1>8, <2>1, <2>2, <2>4, KeysApart, AbsentIsNoRow
  <2>6. Chosen
    BY <1>8, <2>2
  <2> QED
    BY <1>13, <2>2, <2>5, <2>6
<1>20. CASE Add(w)
  <2>1. /\ pc[w] = "add" /\ pc'[w] \in {"adding", "commit"} /\ tx' = tx /\ items' = items
        /\ pc'[w] = "adding" => todo'[w] = AddReviewers(See(w), items[w])
    BY <1>20 DEF Add, Choose, Proceed, Goto, LocalsTyped
  <2>2. ASSUME NEW p \in PRs, NEW u \in Users, RevKey(p, u) \in AddReviewers(See(w), items[w])
        PROVE  u \in active'[w]
    <3>1. PICK a \in items[w] : /\ RevKey(p, u) = RevKey(a[1], a[2])
                                /\ IsActive(See(w), a[2])
      BY <2>2 DEF AddReviewers, IsActive
    <3>2. a[1] \in PRs /\ a[2] \in Users
      BY <1>9, <3>1
    <3>3. a[2] = u
      BY <3>1, <3>2, KeysApart
    <3> QED
      BY <1>6, <3>1, <3>3
  <2>3. Chosen
    BY <2>1, <2>2
  <2> QED
    BY <1>11, <1>13, <2>1, <2>3
<1>21. CASE AddRow(w)
  <2>1. PICK k \in todo[w] :
          \/ tx' = tx
          \/ tx' = [tx EXCEPT ![w][k] = Present]
    BY <1>21 DEF AddRow, WriteRow
  <2>2. /\ pc[w] = "adding" /\ pc' = pc /\ items' = items /\ todo'[w] \subseteq todo[w]
    BY <1>21 DEF AddRow, WriteRow, LocalsTyped
  <2>3. PICK a \in items[w] : k = RevKey(a[1], a[2])
    BY <1>4, <2>1, <2>2 DEF Settled, TodoInTable
  <2>4. a[1] \in PRs /\ a[2] \in Users /\ a[1] \in open'[w]
    BY <1>9, <2>2, <2>3
  <2>5. a[2] \in active'[w]
    BY <1>8, <2>1, <2>2, <2>3, <2>4
  <2>6. ASSUME tx' = [tx EXCEPT ![w][k] = Present] PROVE Rows
    <3>1. k \in Keys
      BY <2>3, <2>4, KeysApart
    <3>2. \A j \in Keys : tx'[w][j] = IF j = k THEN Present ELSE tx[w][j]
      BY <2>6, <3>1, OneWritten
    <3>3. ASSUME NEW p \in PRs, NEW u \in Users
          PROVE  /\ tx'[w][RevKey(p, u)] # Unwritten => p \in open'[w]
                 /\ tx'[w][RevKey(p, u)] = Present => u \in active'[w]
      <4>1. CASE RevKey(p, u) = k
        <5>1. p = a[1] /\ u = a[2]
          BY <2>3, <2>4, <4>1, KeysApart
        <5> QED
          BY <2>4, <2>5, <5>1
      <4>2. CASE RevKey(p, u) # k
        BY <1>8, <3>2, <4>2, KeysApart
      <4> QED
        BY <4>1, <4>2
    <3> QED
      BY <3>3
  <2>7. Rows
    BY <1>11, <2>1, <2>6
  <2>8. Chosen
    BY <1>8, <2>2
  <2> QED
    BY <1>13, <2>2, <2>7, <2>8
<1>22. CASE Pick(w)
  <2>1. /\ pc[w] = "pick" /\ pc'[w] \in {"authorExists", "insertPR"} /\ tx' = tx
    BY <1>22 DEF Pick, Goto, LocalsTyped
  <2> QED
    BY <1>11, <1>12, <2>1
<1>23. CASE InsertPR(w)
  <2> DEFINE pr == [author |-> r.author, status |-> "OPEN", merged_at |-> Absent]
             k  == PRKey(r.pr)
  <2>1. /\ pc[w] = "insertPR" /\ pc'[w] = "add" /\ items' = items
        /\ tx' = [tx EXCEPT ![w][k] = pr]
    BY <1>4, <1>23 DEF InsertPR, Put, Goto, LocalsTyped
  <2>2. r.pr \in PRs /\ r.author \in Users /\ k \in Keys
    BY <1>4, <2>1, Serving, KeysApart
  <2>3. pr \in PRRow /\ pr.status = "OPEN"
    BY <2>2 DEF PRRow
  <2> HIDE DEF pr, k
  <2>4. tx'[w][k] = pr
    BY <2>1, <2>2, OneWritten
  <2>5. See(w)'[k] = pr /\ pr # Absent
    BY <2>2, <2>3, <2>4, SeeingNext, UnwrittenIsNoRow, AbsentIsNoRow
  <2>6. IsOpen(See(w)', r.pr)
    BY <2>3, <2>5 DEF IsOpen, Has, k
  <2>7. \A a \in items[w] : a[1] = r.pr
    BY <1>4, <2>1 DEF Settled, ItemsApart
  <2>8. Kept
    BY <1>5, <2>1, <2>2, <2>6, <2>7
  <2> QED
    BY <1>10, <1>12, <2>1, <2>8 DEF WritesReviewers
<1>24. CASE Reassign(w)
  <2>1. /\ pc[w] = "reassign" /\ pc'[w] = "lockOld" /\ tx' = tx /\ IsOpen(See(w), r.pr)
        /\ todo'[w] = {RevKey(r.pr, r.old)}
        /\ \E new \in ReassignCandidates(See(w), r.pr, r.old) : items'[w] = {<<r.pr, new>>}
    BY <1>4, <1>24 DEF Reassign, Goto, LocalsTyped
  <2>2. PICK new \in ReassignCandidates(See(w), r.pr, r.old) : items'[w] = {<<r.pr, new>>}
    BY <2>1
  <2>3. new \in Users /\ IsActive(See(w), new)
    BY DEF ReassignCandidates, Candidates, ActiveMembers, TeamMembers, IsActive
  <2>4. r.pr \in PRs /\ r.old \in Users
    BY <1>4, <2>1, Serving, RequestForms
  <2>5. r.pr \in open'[w] /\ new \in active'[w]
    BY <1>6, <2>1, <2>3, <2>4
  <2>6. Kept
    BY <2>1, <2>2, <2>5
  <2>7. Chosen
    BY <2>1, <2>4, <2>5, KeysApart
  <2> QED
    BY <1>11, <2>1, <2>6, <2>7
<1>25. CASE LockOld(w)
  <2>1. /\ pc[w] = "lockOld" /\ pc'[w] = "lockNew" /\ items' = items
        /\ \E k \in todo[w] : tx' = [tx EXCEPT ![w][k] = Absent]
    BY <1>4, <1>25 DEF LockOld, Put, Goto, LocalsTyped
  <2>2. PICK k \in todo[w] : tx' = [tx EXCEPT ![w][k] = Absent]
    BY <2>1
  <2>3. k \in Keys
    BY <2>2 DEF LocalsTyped
  <2>4. \A j \in Keys : tx'[w][j] = IF j = k THEN Absent ELSE tx[w][j]
    BY <2>2, <2>3, OneWritten
  <2>5. Rows
    BY <1>8, <2>1, <2>2, <2>4, KeysApart, AbsentIsNoRow
  <2>6. Kept
    BY <1>9, <2>1
  <2> QED
    BY <1>12, <2>1, <2>5, <2>6
<1>26. CASE LockNew(w)
  <2>1. /\ pc[w] = "lockNew" /\ pc'[w] = "getReassigned" /\ items' = items
        /\ \E a \in items[w] : tx' = [tx EXCEPT ![w][RevKey(a[1], a[2])] = Present]
    BY <1>4, <1>26 DEF LockNew, Put, Goto, LocalsTyped
  <2>2. PICK a \in items[w] : tx' = [tx EXCEPT ![w][RevKey(a[1], a[2])] = Present]
    BY <2>1
  <2>3. a[1] \in PRs /\ a[2] \in Users /\ a[1] \in open'[w] /\ a[2] \in active'[w]
    BY <1>9, <2>1, <2>2
  <2>4. RevKey(a[1], a[2]) \in Keys
    BY <2>3, KeysApart
  <2>5. \A j \in Keys : tx'[w][j] = IF j = RevKey(a[1], a[2]) THEN Present ELSE tx[w][j]
    BY <2>2, <2>4, OneWritten
  <2>6. ASSUME NEW p \in PRs, NEW u \in Users
        PROVE  /\ tx'[w][RevKey(p, u)] # Unwritten => p \in open'[w]
               /\ tx'[w][RevKey(p, u)] = Present => u \in active'[w]
    <3>1. CASE RevKey(p, u) = RevKey(a[1], a[2])
      <4>1. p = a[1] /\ u = a[2]
        BY <2>3, <3>1, KeysApart
      <4> QED
        BY <2>3, <4>1
    <3>2. CASE RevKey(p, u) # RevKey(a[1], a[2])
      BY <1>8, <2>5, <3>2, KeysApart
    <3> QED
      BY <3>1, <3>2
  <2>7. Rows
    BY <2>6
  <2> QED
    BY <1>12, <1>13, <2>1, <2>7
<1> QED
  BY <1>4, <1>14, <1>15, <1>16, <1>17, <1>18, <1>19, <1>20, <1>21, <1>22, <1>23, <1>24,
     <1>25, <1>26 DEF Quiet

\* A request is not told NOT_FOUND before it ends, and SetActive's statement
\* lacks only teams that were missing when its request was taken.
LEMMA OwnMisses ==
  ASSUME NEW w \in Workers, Inductive, WindowHeld, Step(w), Tracks
  PROVE  MissesInWindow(w)'
<1> USE DEF Inductive, TypeOK
<1>1. CASE Begin(w)
  <2>1. PICK q \in Requests : pc' = [pc EXCEPT ![w] = FirstStep(q)]
    BY <1>1 DEF Begin, Goto
  <2>2. pc'[w] # "lockUser"
    BY <2>1, RequestForms DEF FirstStep, LocalsTyped
  <2>3. res'[w].code # "NOT_FOUND"
    BY <1>1 DEF Begin, Prepare, NoAnswer, Answer, LocalsTyped
  <2> QED
    BY <2>2, <2>3 DEF MissesInWindow
<1>2. CASE pc'[w] = "done"
  BY <1>2 DEF MissesInWindow
<1>3. SUFFICES ASSUME ~Begin(w), pc'[w] # "done" PROVE MissesInWindow(w)'
  BY <1>1, <1>2
<1>4. /\ (Quiet(w) /\ db' = db) \/ Merge(w)
      /\ \A code : ~Fail(w, code)
      /\ req'[w] = req[w] /\ pc[w] # "done" /\ Settled(w)
  BY <1>3, InProgress
<1>5. res[w].code # "NOT_FOUND" /\ missing'[w] = missing[w]
  BY <1>3, <1>4, Tracked DEF WindowHeld, MissesInWindow
<1>6. res'[w] = res[w] \/ res'[w].code = "OK"
  <2>1. CASE LockUser(w) \/ InsertTeam(w) \/ RemoveTeam(w) \/ InsertPR(w)
    BY <1>4, <2>1 DEF LockUser, InsertTeam, RemoveTeam, InsertPR, Prepare, Answer, LocalsTyped
  <2>2. CASE GetReassigned(w) \/ GetMerged(w)
    BY <2>2 DEF GetReassigned, GetMerged, Prepare, Answer, LocalsTyped
  <2>3. CASE \/ SetActive(w) \/ FindCandidates(w) \/ Remove(w) \/ RemoveRow(w) \/ Removed(w)
             \/ Add(w) \/ AddRow(w) \/ Added(w) \/ UpsertUser(w) \/ Deactivate(w)
             \/ DeactivateRow(w) \/ Deactivated(w) \/ TeamExists(w)
    BY <1>4, <2>3 DEF SetActive, FindCandidates, Remove, RemoveRow, Removed, Add, AddRow,
       Added, UpsertUser, Deactivate, DeactivateRow, Deactivated, TeamExists, Choose,
       WriteRow, Proceed
  <2>4. CASE \/ Pick(w) \/ AuthorExists(w) \/ Merge(w) \/ MergeExists(w) \/ Reassign(w)
             \/ LockOld(w) \/ LockNew(w)
    BY <1>4, <2>4 DEF Pick, AuthorExists, Merge, MergeExists, Reassign, LockOld, LockNew,
       Proceed
  <2> QED
    BY <1>4, <2>1, <2>2, <2>3, <2>4 DEF Quiet
<1>7. ASSUME pc'[w] = "lockUser", NEW t \in Teams \ seen'[w]
      PROVE  TeamKey(t) \in missing[w]
  <2>1. SetActive(w)
    <3>1. OnItsWay(w) /\ OnItsWay(w)'
      BY OwnSettled DEF Settled
    <3>2. /\ req[w].op = "SetActive" /\ req[w] \in Requests
      BY <1>3, <1>4, <1>7, OwnSettled, Serving, RequestForms, StepForms DEF OnItsWay, Settled
    <3>3. pc[w] \in {"setActive", "lockUser", "candidates", "remove", "removing", "add",
                     "adding", "commit"}
      BY <1>4, <3>1, <3>2, StepForms DEF OnItsWay
    <3>4. ~(\/ LockUser(w) \/ FindCandidates(w) \/ Remove(w) \/ RemoveRow(w) \/ Removed(w)
            \/ Add(w) \/ AddRow(w) \/ Added(w))
      BY <1>4, <1>7 DEF LockUser, FindCandidates, NextMember, Remove, RemoveRow, Removed, Add,
         AddRow, Added, Choose, WriteRow, Proceed, Goto, LocalsTyped
    <3> QED
      BY <1>4, <3>3, <3>4 DEF Quiet, InsertTeam, UpsertUser, Deactivate, DeactivateRow,
         Deactivated, TeamExists, RemoveTeam, Pick, AuthorExists, InsertPR, MergeExists,
         GetMerged, Reassign, LockOld, LockNew, GetReassigned, Merge
  <2>2. seen'[w] = {x \in Teams : Has(See(w), TeamKey(x))}
    BY <1>4, <2>1 DEF SetActive, LocalsTyped
  <2>3. ~Has(See(w), TeamKey(t)) /\ TeamKey(t) \in LastingKeys /\ TeamKey(t) \in Keys
    BY <1>7, <2>2, KeysApart DEF LastingKeys
  <2>4. ~Has(db, TeamKey(t))
    BY <2>3, Seeing DEF Has, WritesLast
  <2> QED
    BY <1>4, <2>3, <2>4 DEF WindowHeld, SeenInWindow
<1> QED
  BY <1>5, <1>6, <1>7 DEF MissesInWindow

\* CreatePR drops only reviewers its INSERT does not see active.
LEMMA OwnPicks ==
  ASSUME NEW w \in Workers, Inductive, CreationHeld(w), WindowHeld, Step(w), Tracks
  PROVE  LeavesOutIdle(w)'
<1> USE DEF Inductive, TypeOK
<1> DEFINE r == req[w]
           Row(u) == RevKey(r.pr, u)
<1>1. CASE Begin(w)
  <2>1. PICK q \in Requests : pc' = [pc EXCEPT ![w] = FirstStep(q)]
    BY <1>1 DEF Begin, Goto
  <2>2. pc'[w] \notin {"adding", "commit"}
    BY <2>1, RequestForms DEF FirstStep, LocalsTyped
  <2> QED
    BY <2>2 DEF LeavesOutIdle
<1>2. CASE pc'[w] = "done"
  BY <1>2 DEF LeavesOutIdle
<1>3. SUFFICES ASSUME ~Begin(w), pc'[w] \in {"adding", "commit"} PROVE LeavesOutIdle(w)'
  BY <1>1, <1>2 DEF LeavesOutIdle
<1>4. /\ (Quiet(w) /\ db' = db) \/ Merge(w)
      /\ \A code : ~Fail(w, code)
      /\ req'[w] = r /\ pc[w] # "done" /\ Settled(w)
  BY <1>3, InProgress
<1>5. SUFFICES ASSUME r.op = "CreatePR"
               PROVE  \A u \in Picked(w)' : \/ tx'[w][Row(u)] = Present
                                            \/ pc'[w] = "adding" /\ Row(u) \in todo'[w]
                                            \/ u \in idle'[w]
  BY <1>4 DEF LeavesOutIdle
<1>6. r.pr \in PRs /\ \A u \in Users : Row(u) \in Keys
  BY <1>4, <1>5, Serving, RequestForms, KeysApart
<1>7. pc[w] \in {"pick", "authorExists", "insertPR", "add", "adding", "commit"}
  <2>1. OnItsWay(w)
    BY <1>4 DEF Settled
  <2> QED
    BY <1>4, <1>5, <2>1, StepForms DEF OnItsWay
<1>8. idle[w] \subseteq idle'[w]
  BY <1>3, <1>4, Tracked
<1>9. CASE Add(w)
  <2>1. /\ items' = items /\ pc[w] = "add"
        /\ \/ items[w] = {}
           \/ pc'[w] = "adding" /\ todo'[w] = AddReviewers(See(w), items[w])
    BY <1>9 DEF Add, Choose, Proceed, Goto, LocalsTyped
  <2>2. ASSUME NEW u \in Users, <<r.pr, u>> \in items[w], IsActive(See(w), u)
        PROVE  Row(u) \in AddReviewers(See(w), items[w])
    BY <2>2 DEF AddReviewers, IsActive
  <2>3. ASSUME NEW u \in Users, ~IsActive(See(w), u) PROVE u \in idle'[w]
    BY <1>4, <1>8, <2>3 DEF WindowHeld, SeenInWindow
  <2> QED
    BY <1>4, <2>1, <2>2, <2>3 DEF Picked
<1>10. CASE AddRow(w)
  <2>1. PICK k \in todo[w] :
          /\ todo' = [todo EXCEPT ![w] = @ \ {k}]
          /\ tx' = IF Has(See(w), k) THEN tx ELSE [tx EXCEPT ![w][k] = Present]
    BY <1>10, UnwrittenIsNoRow DEF AddRow, WriteRow
  <2>2. pc[w] = "adding" /\ pc' = pc /\ items' = items /\ todo'[w] = todo[w] \ {k}
    BY <1>10, <2>1 DEF AddRow, WriteRow, LocalsTyped
  <2>3. k \in Keys
    BY <2>1 DEF LocalsTyped
  \* Nobody reviews the new pull request but by this request.
  <2>4. ~Has(db, PRKey(r.pr))
    BY <1>5, <1>6, <2>2, KeysApart DEF CreationHeld, WritesLast, Has
  <2>5. \A u \in Users : ~Has(db, Row(u))
    BY <1>6, <2>4 DEF NoSelfReview, AuthorsApart
  <2>6. \A u \in Users : tx[w][Row(u)] \in {Present, Absent, Unwritten}
    BY <1>6 DEF RowsTyped, WellTyped
  <2>7. ASSUME NEW u \in Users, Row(u) = k PROVE tx'[w][k] = Present
    <3>1. CASE Has(See(w), k)
      BY <1>6, <2>1, <2>5, <2>6, <2>7, <3>1, Seeing DEF Has
    <3>2. CASE ~Has(See(w), k)
      BY <2>1, <2>3, <3>2, OneWritten
    <3> QED
      BY <3>1, <3>2
  <2>8. ASSUME NEW u \in Users, Row(u) # k PROVE tx'[w][Row(u)] = tx[w][Row(u)]
    BY <1>6, <2>1, <2>3, <2>8, OneWritten
  <2>9. Picked(w)' = Picked(w) /\ Picked(w) \subseteq Users
    BY <1>4, <2>2 DEF Picked
  <2> QED
    BY <1>5, <1>8, <2>2, <2>7, <2>8, <2>9 DEF WindowHeld, LeavesOutIdle
<1>11. CASE Added(w)
  <2>1. /\ pc[w] = "adding" /\ todo[w] = {} /\ items' = items /\ tx' = tx
    BY <1>11 DEF Added, Proceed
  <2>2. Picked(w)' = Picked(w)
    BY <1>4, <2>1 DEF Picked
  <2> QED
    BY <1>5, <1>8, <2>1, <2>2 DEF WindowHeld, LeavesOutIdle
<1>12. ~(Pick(w) \/ AuthorExists(w) \/ InsertPR(w))
  BY <1>3, <1>4 DEF Pick, AuthorExists, InsertPR, Proceed, Goto, LocalsTyped
<1> QED
  BY <1>4, <1>7, <1>9, <1>10, <1>11, <1>12
  DEF Quiet, SetActive, LockUser, FindCandidates, Remove, RemoveRow, Removed, InsertTeam,
      UpsertUser, Deactivate, DeactivateRow, Deactivated, TeamExists, RemoveTeam, Merge,
      MergeExists, GetMerged, Reassign, LockOld, LockNew, GetReassigned

(***************************************************************************)
(* Part 4.  The theorems.                                                  *)
(***************************************************************************)
\* The history variables do not restrict the service.
LEMMA WindowAddsNothing ==
  /\ WindowInit => Init
  /\ [WindowNext]_windowVars => [Next]_vars
  BY DEF WindowInit, WindowNext, windowVars, vars

\* With the window of every request, every step of every handler keeps what it
\* relies on inside.
LEMMA WindowKept ==
  Inductive /\ AnswersHeld /\ WindowHeld /\ [WindowNext]_windowVars => WindowHeld'
<1> SUFFICES ASSUME Inductive, AnswersHeld, WindowHeld, [WindowNext]_windowVars
             PROVE  WindowHeld'
  OBVIOUS
<1>1. ASSUME NEW w \in Workers, Step(w), Tracks, NEW v \in Workers
      PROVE  SeenInWindow(v)' /\ WritesInWindow(v)' /\ MissesInWindow(v)' /\ LeavesOutIdle(v)'
  <2>1. SeenInWindow(v)'
    BY <1>1, SeenStep
  <2>2. CASE v = w
    BY <1>1, <2>1, <2>2, OwnWrites, OwnMisses, OwnPicks DEF AnswersHeld
  <2>3. CASE v # w
    BY <1>1, <2>1, <2>3, OthersWindow
  <2> QED
    BY <2>2, <2>3
<1>2. CASE UNCHANGED windowVars
  BY <1>2 DEF windowVars, vars, WindowHeld, SeenInWindow, WritesInWindow, MissesInWindow,
              LeavesOutIdle, Picked, IsOpen, IsActive, Has, See
<1>3. CASE Terminating
  BY <1>3 DEF Terminating, vars, WindowHeld, SeenInWindow, WritesInWindow, MissesInWindow,
              LeavesOutIdle
<1> QED
  BY <1>1, <1>2, <1>3 DEF WindowNext, Tracks, Next, Step, WindowHeld

\* A request that ends leaves the committed rows alone, or commits what its
\* transaction sees.
LEMMA EndsCommitting ==
  ASSUME Inductive, [Next]_vars, NEW w \in Workers, Ends(w)
  PROVE  /\ Step(w) /\ pc[w] # "done" /\ pc'[w] = "done"
         /\ db' = db \/ db' = See(w)
<1> USE DEF Inductive, TypeOK
<1>1. pc[w] # "done" /\ pc'[w] = "done"
  BY DEF Ends
<1>2. Step(w)
  <2>1. PICK v \in Workers : Step(v)
    BY <1>1 DEF Next, Step, Terminating, vars
  <2> QED
    BY <1>1, <2>1, OthersKept
<1>3. ~Merge(w)
  BY <1>1 DEF Merge, Proceed, Goto, LocalsTyped
<1>4. db' = db \/ db' = See(w)
  BY <1>2, <1>3 DEF Step, Serve, DeadlockAbort, Commit, Begin, Cancel, CommitLost, Publish
<1> QED
  BY <1>1, <1>2, <1>4

\* Whatever requests come and however their statements interleave, what a
\* request relies on and what it writes it has seen since it was taken.
THEOREM WindowInvariance == WindowSpec => []WindowHeld
<1>1. WindowSpec => [](Inductive /\ AnswersHeld)
  BY WindowAddsNothing, Invariance, AnswersInvariance, PTL DEF WindowSpec, Spec
<1>2. WindowInit => WindowHeld
  BY DEF WindowInit, Init, WindowHeld, SeenInWindow, WritesInWindow, MissesInWindow,
         LeavesOutIdle
<1> QED
  BY <1>1, <1>2, WindowKept, PTL DEF WindowSpec

\* A request changes the reviewers of a pull request only if it has seen that
\* pull request open, and adds a reviewer only if it has seen the user active.
THEOREM RequestsActWithinWindow == WindowSpec => ActsWithinWindow
<1> DEFINE Acts == \A w \in Workers : Ends(w) =>
             \A p \in PRs, u \in Users :
               Has(db, RevKey(p, u)) # Has(db', RevKey(p, u)) =>
                 /\ p \in open[w]
                 /\ Has(db', RevKey(p, u)) => u \in active[w]
<1>1. ASSUME Inductive, WindowHeld, [WindowNext]_windowVars PROVE Acts
  <2>1. SUFFICES ASSUME NEW w \in Workers, Ends(w), NEW p \in PRs, NEW u \in Users,
                        Has(db, RevKey(p, u)) # Has(db', RevKey(p, u))
                 PROVE  p \in open[w] /\ (Has(db', RevKey(p, u)) => u \in active[w])
    OBVIOUS
  <2> DEFINE k == RevKey(p, u)
  <2>2. pc[w] # "done" /\ (db' = db \/ db' = See(w))
    BY <1>1, <2>1, WindowAddsNothing, EndsCommitting
  <2>3. k \in Keys
    BY KeysApart
  <2>4. tx[w][k] # Unwritten /\ db'[k] = tx[w][k]
    BY <2>1, <2>2, <2>3, Seeing DEF Has
  <2>5. tx[w][k] \in {Present, Absent, Unwritten}
    BY <1>1 DEF Inductive, TypeOK, RowsTyped, WellTyped
  <2>6. Has(db', k) => tx[w][k] = Present
    BY <2>4, <2>5 DEF Has
  <2> QED
    BY <1>1, <2>2, <2>4, <2>6 DEF WindowHeld, WritesInWindow
<1>2. WindowSpec => []Inductive
  BY WindowAddsNothing, Invariance, PTL DEF WindowSpec, Spec
<1> QED
  BY <1>1, <1>2, WindowInvariance, PTL DEF WindowSpec, ActsWithinWindow

\* A reviewer the answer to a creation lists and the pull request lacks has been
\* inactive at some moment of the request.
THEOREM AnswersLackOnlyIdle == WindowSpec => AnswerLacksOnlyIdle
<1> DEFINE Lacks == \A w \in Workers : Granted(w, "CreatePR") =>
             res'[w].pr.reviewers \ Reviewers(db', req[w].pr) \subseteq idle[w]
<1>1. ASSUME Inductive, AnswersHeld, WindowHeld, [WindowNext]_windowVars PROVE Lacks
  <2>1. SUFFICES ASSUME NEW w \in Workers, Granted(w, "CreatePR"),
                        NEW u \in res'[w].pr.reviewers \ Reviewers(db', req[w].pr)
                 PROVE  u \in idle[w]
    OBVIOUS
  <2> DEFINE k == RevKey(req[w].pr, u)
  <2>2. pc[w] = "commit" /\ req[w].op = "CreatePR" /\ db' = See(w) /\ res'[w] = res[w]
    BY <1>1, <2>1, WindowAddsNothing, GrantedCommits
  <2>3. req[w].pr \in PRs
    BY <1>1, <2>2, Serving, RequestForms DEF Inductive
  <2>4. u \in Picked(w) /\ u \in Users
    BY <1>1, <2>1, <2>2 DEF AnswersHeld, PickKept, Picked
  <2>5. ~Has(db', k) /\ k \in Keys
    BY <2>1, <2>3, <2>4, KeysApart DEF Reviewers
  <2>6. tx[w][k] # Present
    BY <2>2, <2>5, Seeing, UnwrittenIsNoRow, AbsentIsNoRow DEF Has
  <2> QED
    BY <1>1, <2>2, <2>4, <2>6 DEF WindowHeld, LeavesOutIdle
<1>2. WindowSpec => [](Inductive /\ AnswersHeld)
  BY WindowAddsNothing, Invariance, AnswersInvariance, PTL DEF WindowSpec, Spec
<1> QED
  BY <1>1, <1>2, WindowInvariance, PTL DEF WindowSpec, AnswerLacksOnlyIdle

\* NOT_FOUND means that what the request names was not there when it was taken,
\* unless it is SetActive of a user who is there and has meanwhile been moved
\* into a new team: then NOT_FOUND is wrong (NotFoundTrue is violated).
THEOREM NotFoundMissingOrMoved == WindowSpec => NotFoundUnlessMoved
<1> DEFINE Missed(w) == Named(req[w]) \in missing[w] \/ MovedMeanwhile(w)
           Misses == \A w \in Workers : Ends(w) /\ res'[w].code = "NOT_FOUND" => Missed(w)
<1>1. ASSUME Inductive, AnswersHeld, WindowHeld, [WindowNext]_windowVars PROVE Misses
  <2> USE <1>1 DEF Inductive, TypeOK
  <2>1. SUFFICES ASSUME NEW w \in Workers, Ends(w), res'[w].code = "NOT_FOUND"
                 PROVE  Missed(w)
    OBVIOUS
  <2> DEFINE r == req[w]
  <2>2. Step(w) /\ pc[w] # "done" /\ pc'[w] = "done" /\ Settled(w) /\ WritesLast
    BY <2>1, WindowAddsNothing, EndsCommitting
  <2>3. res[w].code # "NOT_FOUND" /\ MissesInWindow(w)
    BY <2>2 DEF WindowHeld, MissesInWindow
  \* What the transaction does not see was missing when the request was taken.
  <2>4. ASSUME NEW k \in LastingKeys, ~Has(See(w), k) \/ ~Has(db, k)
        PROVE  k \in missing[w]
    <3>1. k \in Keys /\ tx[w][k] # Absent
      BY <2>2 DEF LastingKeys, Keys, WritesLast
    <3>2. ~Has(db, k)
      BY <2>4, <3>1, Seeing DEF Has
    <3> QED
      BY <2>2, <3>2 DEF WindowHeld, SeenInWindow
  <2>5. CASE SetActive(w)
    <3>1. ~Has(See(w), UserKey(r.user)) /\ r.op = "SetActive" /\ r.user \in Users
      BY <2>2, <2>5, Serving DEF SetActive, Goto, LocalsTyped
    <3> QED
      BY <2>4, <3>1, KeysApart DEF LastingKeys, Named
  <2>6. CASE LockUser(w)
    <3>1. /\ pc[w] = "lockUser" /\ See(w)[UserKey(r.user)].team \notin seen[w]
      BY <2>2, <2>6 DEF LockUser, Goto, LocalsTyped
    <3>2. r.op = "SetActive" /\ r.user \in Users
      BY <2>2, <3>1, Serving
    <3>3. See(w)[UserKey(r.user)] = db[UserKey(r.user)]
      <4>1. tx[w][UserKey(r.user)] = Unwritten
        BY <3>1, <3>2, KeysApart DEF AnswersHeld, HoldsNothing, Unwriting, NoWrites
      <4> QED
        BY <3>2, <4>1, KeysApart, Seeing
    <3>4. Has(db, UserKey(r.user)) /\ db[UserKey(r.user)].team \in Teams
      <4>1. db[UserKey(r.user)] \in UserRow \cup {Absent}
        BY <3>2 DEF RowsTyped, WellTyped
      <4>2. db[UserKey(r.user)] # Absent
        BY <2>2, <3>1, <3>3 DEF Settled, FoundStays, Has
      <4> QED
        BY <4>1, <4>2 DEF UserRow, Has
    <3> QED
      BY <2>3, <2>2, <3>1, <3>2, <3>3, <3>4 DEF MissesInWindow, MovedMeanwhile
  <2>7. CASE TeamExists(w)
    <3>1. ~Has(See(w), TeamKey(r.team)) /\ r.op = "DeactivateTeam" /\ r.team \in Teams
      BY <2>2, <2>7, Serving DEF TeamExists, Proceed, Goto, LocalsTyped
    <3> QED
      BY <2>4, <3>1, KeysApart DEF LastingKeys, Named
  <2>8. CASE AuthorExists(w)
    <3>1. ~Has(See(w), UserKey(r.author)) /\ r.op = "CreatePR" /\ r.author \in Users
      BY <2>2, <2>8, Serving DEF AuthorExists, Proceed, Goto, LocalsTyped
    <3> QED
      BY <2>4, <3>1, KeysApart DEF LastingKeys, Named
  <2>9. CASE MergeExists(w)
    <3>1. ~Has(db, PRKey(r.pr)) /\ r.op = "Merge" /\ r.pr \in PRs
      BY <2>2, <2>9, Serving DEF MergeExists, Proceed, Goto, LocalsTyped
    <3> QED
      BY <2>4, <3>1, KeysApart DEF LastingKeys, Named
  <2>10. CASE Reassign(w)
    <3>1. ~Has(See(w), PRKey(r.pr))
      BY <2>1, <2>2, <2>10 DEF Reassign, Fail, Prepare, Answer, Goto, LocalsTyped
    <3>2. r.op = "Reassign" /\ r.pr \in PRs
      BY <2>2, <2>10, Serving, RequestForms DEF Reassign
    <3> QED
      BY <2>4, <3>1, <3>2, KeysApart DEF LastingKeys, Named
  <2>11. ~(\E code : Fail(w, code) /\ code # "NOT_FOUND")
    BY <2>1 DEF Fail, Prepare, Answer, LocalsTyped
  <2>12. ~(DeadlockAbort(w) \/ Cancel(w) \/ Begin(w))
    BY <2>2, <2>11 DEF DeadlockAbort, Cancel, Begin
  <2>13. ~(Commit(w) \/ CommitLost(w) \/ Merge(w) \/ GetMerged(w))
    BY <2>1, <2>2, <2>3 DEF Commit, CommitLost, Merge, GetMerged, Proceed, Prepare, Answer,
                            Goto, LocalsTyped
  <2>14. ~(\/ FindCandidates(w) \/ Remove(w) \/ RemoveRow(w) \/ Removed(w) \/ Add(w)
           \/ AddRow(w) \/ Added(w) \/ InsertTeam(w) \/ UpsertUser(w))
    BY <2>2, <2>11 DEF FindCandidates, Remove, RemoveRow, Removed, Add, AddRow, Added,
       InsertTeam, UpsertUser, NextMember, Choose, WriteRow, Proceed, Goto, LocalsTyped
  <2>15. ~(\/ Deactivate(w) \/ DeactivateRow(w) \/ Deactivated(w) \/ RemoveTeam(w)
           \/ Pick(w) \/ InsertPR(w) \/ LockOld(w) \/ LockNew(w) \/ GetReassigned(w))
    BY <2>2, <2>11 DEF Deactivate, DeactivateRow, Deactivated, RemoveTeam, Pick, InsertPR,
       LockOld, LockNew, GetReassigned, Choose, WriteRow, Proceed, Goto, LocalsTyped
  <2> QED
    BY <2>2, <2>5, <2>6, <2>7, <2>8, <2>9, <2>10, <2>12, <2>13, <2>14, <2>15
    DEF Step, Serve, Quiet
<1>2. WindowSpec => [](Inductive /\ AnswersHeld)
  BY WindowAddsNothing, Invariance, AnswersInvariance, PTL DEF WindowSpec, Spec
<1> QED
  BY <1>1, <1>2, WindowInvariance, PTL DEF WindowSpec, NotFoundUnlessMoved
===============================================================================
