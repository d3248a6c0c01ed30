------------------------------ MODULE LoneProofs ------------------------------
(***************************************************************************)
(* What AssignmentService promises to a client who is alone, for any       *)
(* number of users, teams, pull requests, requests and faults: Lone(w),    *)
(* one worker and a database that keeps the limit of two reviewers, is a   *)
(* hypothesis of every theorem.  None of them holds with two workers: the  *)
(* runs three_reviewers, merged_changes and inactive_assigned show how.    *)
(*                                                                         *)
(* With one worker the committed rows change at the commit and at Merge    *)
(* only, so that a row a statement has found is there for the next.  What  *)
(* is left is to follow, through the statements of one request, the rows   *)
(* it is about to delete and to add (LoneHeld).                            *)
(*                                                                         *)
(* Part 1  what a statement changes   Part 4  open ones, active users      *)
(* Part 2  handovers                  Part 5  those who are deactivated    *)
(* Part 3  room for two               Part 6  the theorems                 *)
(***************************************************************************)
EXTENDS LoneClient, OutcomeProofs

(***************************************************************************)
(* Part 1.  What a statement changes.                                      *)
(***************************************************************************)
WritesTable(w) ==
  \E k \in Keys : \E row :
    /\ tx' = [tx EXCEPT ![w][k] = row]
    /\ \/ k \in RevKeys /\ pc[w] \in {"removing", "adding", "lockOld", "lockNew"}
       \/ k \in UserKeys /\ pc[w] \in {"lockUser", "upsertUser", "deactivating"}
       \/ k \in PRKeys /\ pc[w] = "insertPR"
       \/ k \in TeamKeys /\ pc[w] = "insertTeam"

\* Each statement writes one table: users, teams, pull requests or reviewers.
LEMMA TableWritten ==
  ASSUME NEW w \in Workers, Inductive, Quiet(w), \A code : ~Fail(w, code)
  PROVE  tx' = tx \/ WritesTable(w)
<1> USE DEF Inductive, TypeOK, WritesTable
<1>1. CASE \/ SetActive(w) \/ FindCandidates(w) \/ Remove(w) \/ Removed(w) \/ Add(w)
           \/ Added(w) \/ Deactivate(w) \/ Deactivated(w) \/ TeamExists(w) \/ RemoveTeam(w)
           \/ Pick(w) \/ AuthorExists(w) \/ MergeExists(w) \/ GetMerged(w) \/ Reassign(w)
           \/ GetReassigned(w)
  BY <1>1 DEF SetActive, FindCandidates, Remove, Removed, Add, Added, Deactivate,
              Deactivated, TeamExists, RemoveTeam, Pick, AuthorExists, MergeExists,
              GetMerged, Reassign, GetReassigned, Choose, Proceed
<1>2. CASE LockUser(w)
  <2>1. pc[w] = "lockUser" /\ UserKey(req[w].user) \in Keys
        /\ UserKey(req[w].user) \in UserKeys
    BY <1>2, Serving, KeysApart DEF LockUser
  <2> QED
    BY <1>2, <2>1 DEF LockUser, Put
<1>3. CASE UpsertUser(w)
  <2>1. /\ pc[w] = "upsertUser" /\ req[w].members \in Seq(Member)
        /\ idx[w] \in 1 .. Len(req[w].members)
    BY <1>3, Serving DEF UpsertUser, Settled, AtMember
  <2>2. req[w].members[idx[w]] \in Member
    BY <2>1
  <2>3. /\ UserKey(req[w].members[idx[w]].user) \in Keys
        /\ UserKey(req[w].members[idx[w]].user) \in UserKeys
    BY <2>2, KeysApart DEF Member
  <2> QED
    BY <1>3, <2>1, <2>3 DEF UpsertUser, Put
<1>4. CASE InsertTeam(w)
  <2>1. pc[w] = "insertTeam" /\ TeamKey(req[w].team) \in Keys
        /\ TeamKey(req[w].team) \in TeamKeys
    BY <1>4, Serving, KeysApart DEF InsertTeam
  <2> QED
    BY <1>4, <2>1 DEF InsertTeam, Put
<1>5. CASE InsertPR(w)
  <2>1. pc[w] = "insertPR" /\ PRKey(req[w].pr) \in Keys /\ PRKey(req[w].pr) \in PRKeys
    BY <1>5, Serving, KeysApart DEF InsertPR
  <2> QED
    BY <1>5, <2>1 DEF InsertPR, Put
<1>6. CASE RemoveRow(w)
  <2>1. PICK k \in todo[w] : WriteRow(w, k, Absent)
    BY <1>6 DEF RemoveRow
  <2>2. pc[w] = "removing" /\ k \in RevKeys /\ k \in Keys
    BY <1>6, <2>1 DEF RemoveRow, Settled, TodoInTable, Keys
  <2> QED
    BY <2>1, <2>2 DEF WriteRow
<1>7. CASE AddRow(w)
  <2>1. PICK k \in todo[w] :
          WriteRow(w, k, IF Has(See(w), k) THEN Unwritten ELSE Present)
    BY <1>7 DEF AddRow
  <2>2. pc[w] = "adding" /\ k \in Keys /\ k \in RevKeys
    <3>1. pc[w] = "adding" /\ k \in {RevKey(a[1], a[2]) : a \in items[w]}
      BY <1>7, <2>1 DEF AddRow, Settled, TodoInTable
    <3> QED
      BY <3>1, KeysApart DEF LocalsTyped
  <2> QED
    BY <2>1, <2>2 DEF WriteRow
<1>8. CASE DeactivateRow(w)
  <2>1. PICK k \in todo[w] : \E row : WriteRow(w, k, row)
    BY <1>8 DEF DeactivateRow
  <2>2. pc[w] = "deactivating" /\ k \in UserKeys /\ k \in Keys
    BY <1>8, <2>1 DEF DeactivateRow, Settled, TodoInTable, Keys
  <2> QED
    BY <2>1, <2>2 DEF WriteRow
<1>9. CASE LockOld(w)
  <2>1. PICK k \in todo[w] : Put(w, k, Absent)
    BY <1>9 DEF LockOld
  <2>2. pc[w] = "lockOld" /\ k \in RevKeys /\ k \in Keys
    BY <1>9, <2>1 DEF LockOld, Settled, TodoInTable, Keys
  <2> QED
    BY <2>1, <2>2 DEF Put
<1>10. CASE LockNew(w)
  <2>1. PICK a \in items[w] : Put(w, RevKey(a[1], a[2]), Present)
    BY <1>10 DEF LockNew
  <2>2. pc[w] = "lockNew" /\ RevKey(a[1], a[2]) \in RevKeys /\ RevKey(a[1], a[2]) \in Keys
    BY <1>10, <2>1, KeysApart DEF LockNew, LocalsTyped
  <2> QED
    BY <2>1, <2>2 DEF Put
<1> QED
  BY <1>1, <1>2, <1>3, <1>4, <1>5, <1>6, <1>7, <1>8, <1>9, <1>10 DEF Quiet

\* The rows of the other tables stay as the transaction sees them.
LEMMA TablesKept ==
  ASSUME NEW w \in Workers, Inductive, Quiet(w), db' = db, \A code : ~Fail(w, code)
  PROVE  /\ pc[w] \notin {"removing", "adding", "lockOld", "lockNew"} =>
              \A p \in PRs, u \in Users :
                /\ tx'[w][RevKey(p, u)] = tx[w][RevKey(p, u)]
                /\ See(w)'[RevKey(p, u)] = See(w)[RevKey(p, u)]
         /\ pc[w] \notin {"lockUser", "upsertUser", "deactivating"} =>
              \A u \in Users : See(w)'[UserKey(u)] = See(w)[UserKey(u)]
         /\ pc[w] # "insertPR" =>
              \A p \in PRs : See(w)'[PRKey(p)] = See(w)[PRKey(p)]
<1> USE DEF Inductive, TypeOK
<1>1. \A k \in Keys : tx'[w][k] = tx[w][k] => See(w)'[k] = See(w)[k]
  BY Seeing, SeeingNext
<1>2. CASE tx' = tx
  BY <1>1, <1>2, KeysApart
<1>3. CASE WritesTable(w)
  <2>1. PICK k \in Keys : \E row :
              /\ tx' = [tx EXCEPT ![w][k] = row]
              /\ \/ k \in RevKeys /\ pc[w] \in {"removing", "adding", "lockOld", "lockNew"}
                 \/ k \in UserKeys /\ pc[w] \in {"lockUser", "upsertUser", "deactivating"}
                 \/ k \in PRKeys /\ pc[w] = "insertPR"
                 \/ k \in TeamKeys /\ pc[w] = "insertTeam"
    BY <1>3 DEF WritesTable
  <2>2. \A j \in Keys : j # k => tx'[w][j] = tx[w][j]
    BY <2>1, OneWritten
  <2>3. k \in RevKeys => /\ \A u \in Users : UserKey(u) # k
                         /\ \A p \in PRs : PRKey(p) # k
    BY KeysApart DEF RevKeys
  <2>4. k \in UserKeys => /\ \A p \in PRs, u \in Users : RevKey(p, u) # k
                          /\ \A p \in PRs : PRKey(p) # k
    BY KeysApart DEF UserKeys
  <2>5. k \in PRKeys => /\ \A p \in PRs, u \in Users : RevKey(p, u) # k
                        /\ \A u \in Users : UserKey(u) # k
    BY KeysApart DEF PRKeys
  <2>6. k \in TeamKeys => /\ \A p \in PRs, u \in Users : RevKey(p, u) # k
                          /\ \A u \in Users : UserKey(u) # k
                          /\ \A p \in PRs : PRKey(p) # k
    BY KeysApart DEF TeamKeys
  <2> QED
    BY <1>1, <2>1, <2>2, <2>3, <2>4, <2>5, <2>6, KeysApart
<1> QED
  BY <1>2, <1>3, TableWritten

\* A removal deletes, an addition adds, the row of one reviewer.
LEMMA RowStep ==
  ASSUME NEW w \in Workers, Inductive, Quiet(w), db' = db, \A code : ~Fail(w, code),
         pc[w] \in {"removing", "adding", "lockOld", "lockNew"}
  PROVE  \/ /\ tx' = tx /\ todo[w] = {} /\ todo' = todo /\ items' = items
            /\ \/ Removed(w)
               \/ pc[w] = "adding" /\ pc'[w] = "commit"
         \/ \E p \in PRs, u \in Users :
              LET k == RevKey(p, u) IN
              /\ \A q \in PRs, v \in Users : RevKey(q, v) # k =>
                   /\ tx'[w][RevKey(q, v)] = tx[w][RevKey(q, v)]
                   /\ See(w)'[RevKey(q, v)] = See(w)[RevKey(q, v)]
              /\ items' = items /\ UNCHANGED idx
              /\ \/ /\ pc[w] = "removing" /\ pc'[w] = "removing"
                    /\ k \in todo[w] /\ todo'[w] = todo[w] \ {k}
                    /\ tx'[w][k] = Absent
                 \/ /\ pc[w] = "adding" /\ pc'[w] = "adding"
                    /\ k \in todo[w] /\ todo'[w] = todo[w] \ {k}
                    /\ <<p, u>> \in items[w]
                    /\ tx'[w][k] = IF Has(See(w), k) THEN tx[w][k] ELSE Present
                 \/ /\ pc[w] = "lockOld" /\ pc'[w] = "lockNew"
                    /\ k \in todo[w]
                    /\ tx'[w][k] = Absent
                 \/ /\ pc[w] = "lockNew" /\ pc'[w] = "getReassigned"
                    /\ <<p, u>> \in items[w]
                    /\ tx'[w][k] = Present
<1> USE DEF Inductive, TypeOK
<1> DEFINE Keeps(k) == \A q \in PRs, v \in Users : RevKey(q, v) # k =>
                         /\ tx'[w][RevKey(q, v)] = tx[w][RevKey(q, v)]
                         /\ See(w)'[RevKey(q, v)] = See(w)[RevKey(q, v)]
<1>1. \A j \in Keys : tx'[w][j] = tx[w][j] => See(w)'[j] = See(w)[j]
  BY Seeing, SeeingNext
<1>2. ASSUME NEW k \in Keys, NEW row, tx' = [tx EXCEPT ![w][k] = row]
      PROVE  Keeps(k) /\ tx'[w][k] = row
  <2>1. /\ \A j \in Keys : j # k => tx'[w][j] = tx[w][j]
        /\ tx'[w][k] = row
    BY <1>2, OneWritten
  <2> QED
    BY <1>1, <2>1, KeysApart
<1>3. CASE RemoveRow(w)
  <2>1. PICK k \in todo[w] : WriteRow(w, k, Absent)
    BY <1>3 DEF RemoveRow
  <2>2. pc[w] = "removing" /\ k \in RevKeys /\ k \in Keys
    BY <1>3, <2>1 DEF RemoveRow, Settled, TodoInTable, Keys
  <2>3. PICK p \in PRs, u \in Users : k = RevKey(p, u)
    BY <2>2 DEF RevKeys
  <2>4. /\ tx' = [tx EXCEPT ![w][k] = Absent]
        /\ pc'[w] = "removing" /\ todo'[w] = todo[w] \ {k} /\ items' = items /\ idx' = idx
    BY <2>1, <2>2, UnwrittenIsNoRow DEF WriteRow, LocalsTyped
  <2>5. Keeps(k) /\ tx'[w][k] = Absent
    BY <1>2, <2>2, <2>4
  <2> QED
    BY <2>1, <2>2, <2>3, <2>4, <2>5
<1>4. CASE AddRow(w)
  <2>1. PICK k \in todo[w] :
          WriteRow(w, k, IF Has(See(w), k) THEN Unwritten ELSE Present)
    BY <1>4 DEF AddRow
  <2>2. pc[w] = "adding" /\ k \in {RevKey(a[1], a[2]) : a \in items[w]}
    BY <1>4, <2>1 DEF AddRow, Settled, TodoInTable
  <2>3. PICK a \in items[w] : k = RevKey(a[1], a[2])
    BY <2>2
  <2>4. a[1] \in PRs /\ a[2] \in Users /\ <<a[1], a[2]>> \in items[w] /\ k \in Keys
    BY <2>3, KeysApart DEF LocalsTyped
  <2>5. /\ pc'[w] = "adding" /\ todo'[w] = todo[w] \ {k} /\ items' = items /\ idx' = idx
        /\ tx' = IF Has(See(w), k) THEN tx ELSE [tx EXCEPT ![w][k] = Present]
    BY <2>1, <2>2, UnwrittenIsNoRow DEF WriteRow, LocalsTyped
  <2>6. Keeps(k) /\ tx'[w][k] = IF Has(See(w), k) THEN tx[w][k] ELSE Present
    <3>1. CASE Has(See(w), k)
      BY <1>1, <2>5, <3>1, KeysApart
    <3>2. CASE ~Has(See(w), k)
      BY <1>2, <2>4, <2>5, <3>2
    <3> QED
      BY <3>1, <3>2
  <2> QED
    BY <2>1, <2>2, <2>3, <2>4, <2>5, <2>6
<1>5. CASE LockOld(w)
  <2>1. PICK k \in todo[w] : Put(w, k, Absent)
    BY <1>5 DEF LockOld
  <2>2. /\ pc[w] = "lockOld" /\ k \in RevKeys /\ k \in Keys
        /\ pc'[w] = "lockNew" /\ items' = items /\ idx' = idx
    BY <1>5, <2>1 DEF LockOld, Settled, TodoInTable, Keys, Goto, LocalsTyped
  <2>3. PICK p \in PRs, u \in Users : k = RevKey(p, u)
    BY <2>2 DEF RevKeys
  <2>4. Keeps(k) /\ tx'[w][k] = Absent
    BY <1>2, <2>1, <2>2 DEF Put
  <2> QED
    BY <2>1, <2>2, <2>3, <2>4
<1>6. CASE LockNew(w)
  <2>1. PICK a \in items[w] : Put(w, RevKey(a[1], a[2]), Present)
    BY <1>6 DEF LockNew
  <2>2. /\ pc[w] = "lockNew" /\ pc'[w] = "getReassigned" /\ items' = items /\ idx' = idx
    BY <1>6, <2>1 DEF LockNew, Goto, LocalsTyped
  <2>3. /\ a[1] \in PRs /\ a[2] \in Users /\ <<a[1], a[2]>> \in items[w]
        /\ RevKey(a[1], a[2]) \in Keys
    BY <2>1, KeysApart DEF LocalsTyped
  <2>4. Keeps(RevKey(a[1], a[2])) /\ tx'[w][RevKey(a[1], a[2])] = Present
    BY <1>2, <2>1, <2>3 DEF Put
  <2> QED
    BY <2>2, <2>3, <2>4
<1>7. CASE Removed(w) \/ Added(w)
  BY <1>7 DEF Removed, Added, Proceed, Goto, LocalsTyped
<1>8. ~(\/ SetActive(w) \/ LockUser(w) \/ FindCandidates(w) \/ Remove(w) \/ Add(w)
        \/ InsertTeam(w) \/ UpsertUser(w) \/ Deactivate(w) \/ DeactivateRow(w)
        \/ Deactivated(w) \/ TeamExists(w) \/ RemoveTeam(w) \/ Pick(w) \/ AuthorExists(w)
        \/ InsertPR(w) \/ MergeExists(w) \/ GetMerged(w) \/ Reassign(w)
        \/ GetReassigned(w))
  BY DEF SetActive, LockUser, FindCandidates, Remove, Add, InsertTeam, UpsertUser,
         Deactivate, DeactivateRow, Deactivated, TeamExists, RemoveTeam, Pick, AuthorExists,
         InsertPR, MergeExists, GetMerged, Reassign, GetReassigned
<1> QED
  BY <1>3, <1>4, <1>5, <1>6, <1>7, <1>8 DEF Quiet

(***************************************************************************)
(* Part 2.  Handovers.                                                     *)
(***************************************************************************)
\* A handover query finds, for a pull request the user reviews, one active
\* user who does not review it.
LEMMA HandoverFound ==
  ASSUME NEW s, NEW u, NEW found \in GetReassignmentCandidatesForReviewer(s, u)
  PROVE  /\ found \subseteq PRs \X Users
         /\ \A a \in found : /\ a[1] \in OpenReviews(s, u) /\ IsOpen(s, a[1])
                             /\ ~Has(s, RevKey(a[1], a[2])) /\ a[2] # u
         /\ \A a \in found, b \in found : a[1] = b[1] => a = b
<1> DEFINE ps == {p \in OpenReviews(s, u) : HandoverCandidates(s, p, u) # {}}
<1>1. PICK f \in [ps -> Users] : /\ \A p \in ps : f[p] \in HandoverCandidates(s, p, u)
                                 /\ found = {<<p, f[p]>> : p \in ps}
  BY DEF GetReassignmentCandidatesForReviewer
<1>2. \A p \in ps : p \in PRs /\ IsOpen(s, p) /\ p \in OpenReviews(s, u)
  BY DEF OpenReviews
<1>3. \A p \in ps : f[p] \in Users /\ f[p] # u /\ ~Has(s, RevKey(p, f[p]))
  BY <1>1 DEF HandoverCandidates, Candidates, Reviewers
<1> QED
  BY <1>1, <1>2, <1>3

\* A reassignment finds an active user who does not review the pull request.
LEMMA ReassignFound ==
  ASSUME NEW s, NEW p, NEW old, NEW new \in ReassignCandidates(s, p, old)
  PROVE  new \in Users /\ IsActive(s, new) /\ ~Has(s, RevKey(p, new)) /\ new # old
  BY DEF ReassignCandidates, Candidates, ActiveMembers, TeamMembers, Reviewers, IsActive

(***************************************************************************)
(* Part 3.  Room for two.                                                  *)
(***************************************************************************)
LEMMA FewEnough ==
  ASSUME NEW S, NEW T, S \subseteq T, T \subseteq Users, Cardinality(T) <= 2
  PROVE  Cardinality(S) <= 2
<1>1. IsFiniteSet(T)
  BY UsersFinite, FS_Subset
<1>2. IsFiniteSet(S) /\ Cardinality(S) <= Cardinality(T)
  BY <1>1, FS_Subset
<1>3. Cardinality(S) \in Nat /\ Cardinality(T) \in Nat
  BY <1>1, <1>2, FS_CardinalityType
<1> QED
  BY <1>2, <1>3

\* One who leaves makes room for one who comes.
LEMMA OneForOne ==
  ASSUME NEW T \in SUBSET Users, Cardinality(T) <= 2, NEW out \in T, NEW in \in Users
  PROVE  Cardinality((T \ {out}) \cup {in}) <= 2
<1>1. IsFiniteSet(T)
  BY UsersFinite, FS_Subset
<1>2. IsFiniteSet(T \ {out}) /\ Cardinality(T \ {out}) = Cardinality(T) - 1
  BY <1>1, FS_RemoveElement
<1>3. Cardinality(T) \in Nat /\ Cardinality(T \ {out}) \in Nat
  BY <1>1, <1>2, FS_CardinalityType
<1>4. Cardinality((T \ {out}) \cup {in}) =
        IF in \in T \ {out} THEN Cardinality(T \ {out}) ELSE Cardinality(T \ {out}) + 1
  BY <1>2, FS_AddElement
<1>5. Cardinality((T \ {out}) \cup {in}) \in Nat
  BY <1>2, FS_AddElement, FS_CardinalityType
<1> QED
  BY <1>2, <1>3, <1>4, <1>5

\* The two handover queries put one candidate in the place of the reviewer who
\* is about to leave.
LEMMA RoomToHandOver ==
  ASSUME NEW w \in Workers, Inductive, RoomHeld(w), ItemsNew(w), FindCandidates(w),
         db' = db, req' = req, \A code : ~Fail(w, code)
  PROVE  RoomHeld(w)'
<1> USE DEF Inductive, TypeOK
<1> DEFINE s == See(w)
           u == Subject(w)
<1>1. PICK found \in GetReassignmentCandidatesForReviewer(s, u) :
        /\ items' = [items EXCEPT ![w] = @ \cup found]
        /\ \/ Goto(w, "remove") /\ idx' = idx
           \/ found = {} /\ NextMember(w)
  BY DEF FindCandidates
<1>2. pc[w] = "candidates" /\ tx' = tx /\ items'[w] = items[w] \cup found
  BY <1>1 DEF FindCandidates, LocalsTyped
<1>3. \A k \in Keys : See(w)'[k] = s[k]
  BY <1>2, Seeing, SeeingNext
<1>4. \A p \in PRs : Staying(w, p) = Reviewers(s, p)
  BY <1>2 DEF Staying, Leaving
<1>5. \A p \in PRs : Reviewers(See(w)', p) = Reviewers(s, p)
  BY <1>3, KeysApart DEF Reviewers, Has
<1>6. ASSUME NEW p \in PRs
      PROVE  Cardinality(Staying(w, p)' \cup Coming(w, p)') <= 2
  <2> DEFINE T == Reviewers(s, p) \cup Coming(w, p)
  <2>1. T \in SUBSET Users /\ Cardinality(T) <= 2
    BY <1>2, <1>4 DEF RoomHeld, Reviewers, Coming
  <2>2. Coming(w, p) = {v \in Users : <<p, v>> \in items[w]}
    BY <1>2 DEF Coming, NotAdding
  <2>3. Coming(w, p)' \subseteq Coming(w, p) \cup {v \in Users : <<p, v>> \in found}
    BY <1>2, <2>2 DEF Coming
  <2>4. Staying(w, p)' \subseteq Reviewers(s, p)
    BY <1>5 DEF Staying
  <2>5. CASE \A v \in Users : <<p, v>> \notin found
    <3>1. Staying(w, p)' \cup Coming(w, p)' \subseteq T
      BY <2>3, <2>4, <2>5
    <3> QED
      BY <2>1, <3>1, FewEnough
  <2>6. CASE \E v \in Users : <<p, v>> \in found
    <3>1. PICK v \in Users : <<p, v>> \in found
      BY <2>6
    <3>2. p \in OpenReviews(s, u) /\ \A x \in Users : <<p, x>> \in found => x = v
      BY <3>1, HandoverFound
    <3>3. pc'[w] = "remove" /\ idx' = idx
      BY <1>1, <3>1 DEF Goto, LocalsTyped
    <3>4. u \in Users /\ Has(s, RevKey(p, u)) /\ u \in Reviewers(s, p) /\ IsOpen(s, p)
      BY <3>2 DEF OpenReviews, Reviewers
    <3>5. Subject(w)' = u
      BY <3>3 DEF Subject
    <3>6. p \in OpenReviews(See(w)', u)
      <4>1. IsOpen(See(w)', p)
        BY <1>3, <3>4, KeysApart DEF IsOpen, Has
      <4> QED
        BY <1>5, <3>4, <4>1 DEF OpenReviews
    <3>7. Leaving(w)' = RemoveReviewerFromOpenPRs(See(w)', u)
      BY <3>3, <3>5 DEF Leaving
    <3>8. u \notin Staying(w, p)'
      BY <3>6, <3>7 DEF Staying, RemoveReviewerFromOpenPRs
    <3>9. u \notin Coming(w, p) /\ u # v
      <4>1. <<p, u>> \notin items[w]
        BY <1>2, <3>4 DEF ItemsNew
      <4>2. u # v
        BY <3>1, HandoverFound
      <4> QED
        BY <2>2, <4>1, <4>2
    <3>10. Staying(w, p)' \cup Coming(w, p)' \subseteq (T \ {u}) \cup {v}
      BY <2>3, <2>4, <3>2, <3>8, <3>9
    <3>11. Cardinality((T \ {u}) \cup {v}) <= 2
      BY <2>1, <3>4, OneForOne
    <3> QED
      BY <2>1, <3>10, <3>11, FewEnough
  <2> QED
    BY <2>5, <2>6
<1> QED
  BY <1>6 DEF RoomHeld

\* Reassign puts one candidate in the place of the old reviewer.
LEMMA RoomToReassign ==
  ASSUME NEW w \in Workers, Inductive, RoomHeld(w), Reassign(w), db' = db,
         \A code : ~Fail(w, code)
  PROVE  RoomHeld(w)'
<1> USE DEF Inductive, TypeOK
<1> DEFINE s == See(w)
           q == req[w].pr
           old == req[w].old
<1>1. pc[w] = "reassign" /\ q \in PRs /\ old \in Users
  BY Serving DEF Reassign
<1>2. /\ IsOpen(s, q) /\ old \in Reviewers(s, q)
      /\ \E new \in ReassignCandidates(s, q, old) :
           items' = [items EXCEPT ![w] = {<<q, new>>}]
      /\ todo' = [todo EXCEPT ![w] = {RevKey(q, old)}]
      /\ Goto(w, "lockOld") /\ tx' = tx
  BY DEF Reassign
<1>3. PICK new \in ReassignCandidates(s, q, old) : items' = [items EXCEPT ![w] = {<<q, new>>}]
  BY <1>2
<1>4. /\ pc'[w] = "lockOld" /\ todo'[w] = {RevKey(q, old)} /\ items'[w] = {<<q, new>>}
      /\ new \in Users
  BY <1>2, <1>3, ReassignFound DEF Goto, LocalsTyped
<1>5. \A p \in PRs : /\ Staying(w, p) = Reviewers(s, p)
                     /\ Reviewers(See(w)', p) = Reviewers(s, p)
  <2>1. \A k \in Keys : See(w)'[k] = s[k]
    BY <1>2, Seeing, SeeingNext
  <2> QED
    BY <1>1, <2>1, KeysApart DEF Staying, Leaving, Reviewers, Has
<1>6. ASSUME NEW p \in PRs
      PROVE  Cardinality(Staying(w, p)' \cup Coming(w, p)') <= 2
  <2> DEFINE T == Reviewers(s, p)
  <2>1. T \in SUBSET Users /\ Cardinality(T) <= 2
    <3>1. Cardinality(T \cup Coming(w, p)) <= 2 /\ T \cup Coming(w, p) \subseteq Users
      BY <1>1, <1>5 DEF RoomHeld, Reviewers, Coming
    <3> QED
      BY <3>1, FewEnough
  <2>2. CASE p = q
    <3>1. old \notin Staying(w, p)' /\ Staying(w, p)' \subseteq T
      BY <1>4, <1>5, <2>2 DEF Staying, Leaving
    <3>2. Coming(w, p)' \subseteq {new}
      BY <1>4 DEF Coming
    <3>3. Staying(w, p)' \cup Coming(w, p)' \subseteq (T \ {old}) \cup {new}
      BY <3>1, <3>2
    <3>4. Cardinality((T \ {old}) \cup {new}) <= 2
      BY <1>2, <1>4, <2>1, <2>2, OneForOne
    <3> QED
      BY <1>4, <2>1, <3>3, <3>4, FewEnough
  <2>3. CASE p # q
    <3>1. Coming(w, p)' = {}
      BY <1>4, <2>3 DEF Coming
    <3>2. Staying(w, p)' \subseteq T
      BY <1>5 DEF Staying
    <3> QED
      BY <2>1, <3>1, <3>2, FewEnough
  <2> QED
    BY <2>2, <2>3
<1> QED
  BY <1>6 DEF RoomHeld

\* A new pull request starts with the reviewers picked.
LEMMA RoomToCreate ==
  ASSUME NEW w \in Workers, Inductive, RoomHeld(w), PickKept(w), InsertPR(w), db' = db,
         \A code : ~Fail(w, code), pc'[w] # "done"
  PROVE  RoomHeld(w)'
<1> USE DEF Inductive, TypeOK
<1> DEFINE q == req[w].pr
<1>1. /\ pc[w] = "insertPR" /\ pc'[w] = "add" /\ items' = items /\ ~Has(See(w), PRKey(q))
      /\ Quiet(w)
  BY DEF InsertPR, Goto, LocalsTyped, Quiet
<1>2. req[w].op = "CreatePR" /\ q \in PRs
  BY <1>1, Serving
<1>3. \A p \in PRs : Reviewers(See(w)', p) = Reviewers(See(w), p)
  BY <1>1, TablesKept DEF Reviewers, Has
<1>4. \A p \in PRs : Staying(w, p)' \subseteq Staying(w, p)
  BY <1>1, <1>3 DEF Staying, Leaving
<1>5. ASSUME NEW p \in PRs
      PROVE  Cardinality(Staying(w, p)' \cup Coming(w, p)') <= 2
  <2>1. CASE p = q
    <3>1. Staying(w, p)' = {}
      BY <1>1, <1>3, <2>1 DEF Staying, ViewsApart, AuthorsApart, Reviewers
    <3>2. Coming(w, p)' \subseteq Picked(w)
      BY <1>1, <2>1 DEF Coming, Picked
    <3>3. Picked(w) \subseteq Users /\ Cardinality(Picked(w)) <= 2
      BY <1>1, <1>2 DEF PickKept, Picked
    <3> QED
      BY <3>1, <3>2, <3>3, FewEnough
  <2>2. CASE p # q
    <3>1. \A a \in items[w] : a[1] = q
      BY <1>1 DEF Settled, ItemsApart
    <3>2. Coming(w, p)' = {}
      BY <1>1, <2>2, <3>1 DEF Coming
    <3>3. Cardinality(Staying(w, p) \cup Coming(w, p)) <= 2
      BY <1>1 DEF RoomHeld
    <3>4. Staying(w, p) \cup Coming(w, p) \subseteq Users
      BY DEF Staying, Reviewers, Coming
    <3> QED
      BY <1>4, <3>2, <3>3, <3>4, FewEnough
  <2> QED
    BY <2>1, <2>2
<1> QED
  BY <1>5 DEF RoomHeld

\* Other statements only follow what is decided.
LEMMA RoomFollows ==
  ASSUME NEW w \in Workers, Inductive, SwapHeld(w), Step(w), ~Begin(w), pc'[w] # "done",
         ~FindCandidates(w), ~Reassign(w), ~InsertPR(w), NEW p \in PRs
  PROVE  Staying(w, p)' \cup Coming(w, p)' \subseteq Staying(w, p) \cup Coming(w, p)
<1> USE DEF Inductive, TypeOK
<1>1. /\ (Quiet(w) /\ db' = db) \/ Merge(w)
      /\ \A code : ~Fail(w, code)
      /\ req'[w] = req[w] /\ pc[w] # "done"
  BY InProgress
<1>2. CASE Merge(w)
  <2>1. /\ pc[w] = "merge" /\ pc'[w] \in {"getMerged", "mergeExists"}
        /\ tx' = tx /\ items' = items
    BY <1>2 DEF Merge, Proceed, Goto, LocalsTyped
  <2>2. Reviewers(See(w)', p) = Reviewers(See(w), p)
    <3>1. req[w].pr \in PRs
      BY <1>1, <2>1, Serving
    <3>2. \A u \in Users : db'[RevKey(p, u)] = db[RevKey(p, u)]
      <4>1. CASE db' = db
        BY <4>1
      <4>2. CASE db' # db
        <5>1. PICK now \in Instants :
                /\ IsOpen(db, req[w].pr)
                /\ db' = [db EXCEPT ![PRKey(req[w].pr)].status = "MERGED",
                                   ![PRKey(req[w].pr)].merged_at = now]
          BY <1>2, <4>2 DEF Merge
        <5>2. \A k \in Keys : k # PRKey(req[w].pr) => db'[k] = db[k]
          BY <3>1, <5>1, OneMerged
        <5> QED
          BY <3>1, <5>2, KeysApart
      <4> QED
        BY <4>1, <4>2
    <3> QED
      BY <2>1, <3>2, KeysApart, Seeing, SeeingNext DEF Reviewers, Has
  <2>3. Coming(w, p)' = {}
    BY <2>1 DEF Coming, NotAdding
  <2> QED
    BY <2>1, <2>2, <2>3 DEF Staying, Leaving
<1>3. CASE /\ Quiet(w) /\ db' = db
           /\ pc[w] \in {"removing", "adding", "lockOld", "lockNew"}
  <2>1. CASE /\ todo[w] = {} /\ todo' = todo /\ items' = items /\ tx' = tx
             /\ Removed(w) \/ (pc[w] = "adding" /\ pc'[w] = "commit")
    <3>1. pc'[w] \notin {"remove", "removing", "lockOld"} /\ pc[w] \notin NotAdding
      BY <1>3, <2>1 DEF Removed, NextMember, Goto, LocalsTyped, NotAdding
    <3>2. Reviewers(See(w)', p) = Reviewers(See(w), p)
      BY <1>3, <2>1, KeysApart, Seeing, SeeingNext DEF Reviewers, Has
    <3>3. Staying(w, p)' \subseteq Staying(w, p)
      BY <1>3, <2>1, <3>1, <3>2 DEF Staying, Leaving
    <3> QED
      BY <2>1, <3>1, <3>3 DEF Coming
  <2>2. CASE ~(todo[w] = {} /\ todo' = todo /\ items' = items /\ tx' = tx
               /\ (Removed(w) \/ (pc[w] = "adding" /\ pc'[w] = "commit")))
    <3>1. PICK q \in PRs, u \in Users :
            LET k == RevKey(q, u) IN
              /\ \A i \in PRs, v \in Users : RevKey(i, v) # k =>
                   /\ tx'[w][RevKey(i, v)] = tx[w][RevKey(i, v)]
                   /\ See(w)'[RevKey(i, v)] = See(w)[RevKey(i, v)]
              /\ items' = items
              /\ \/ /\ pc[w] = "removing" /\ pc'[w] = "removing"
                    /\ k \in todo[w] /\ todo'[w] = todo[w] \ {k}
                    /\ tx'[w][k] = Absent
                 \/ /\ pc[w] = "adding" /\ pc'[w] = "adding"
                    /\ <<q, u>> \in items[w]
                 \/ /\ pc[w] = "lockOld" /\ pc'[w] = "lockNew"
                    /\ k \in todo[w] /\ tx'[w][k] = Absent
                 \/ /\ pc[w] = "lockNew" /\ pc'[w] = "getReassigned"
                    /\ <<q, u>> \in items[w]
      BY <1>1, <1>3, <2>2, RowStep
    <3>2. \A v \in Users : v \in Staying(w, p)' =>
            v \in Staying(w, p) \/ v \in Coming(w, p)
      <4> SUFFICES ASSUME NEW v \in Users, v \in Staying(w, p)'
                   PROVE  v \in Staying(w, p) \/ v \in Coming(w, p)
        OBVIOUS
      <4>1. Has(See(w)', RevKey(p, v)) /\ RevKey(p, v) \notin Leaving(w)'
        BY DEF Staying, Reviewers
      <4>2. CASE RevKey(p, v) = RevKey(q, u)
        <5>1. p = q /\ v = u
          BY <4>2, KeysApart
        <5>2. tx'[w][RevKey(q, u)] # Absent
          BY <4>1, <5>1, KeysApart, SeeingNext, UnwrittenIsNoRow DEF Has
        <5> QED
          BY <3>1, <5>1, <5>2 DEF Coming, NotAdding
      <4>3. CASE RevKey(p, v) # RevKey(q, u)
        <5>1. Has(See(w), RevKey(p, v))
          BY <3>1, <4>1, <4>3 DEF Has
        <5>2. RevKey(p, v) \notin Leaving(w) \/ pc[w] = "lockOld"
          BY <3>1, <4>1, <4>3 DEF Leaving
        <5>3. pc[w] = "lockOld" => RevKey(p, v) \notin Leaving(w)
          <6>1. ASSUME pc[w] = "lockOld" PROVE todo[w] \subseteq {RevKey(q, u)}
            <7>1. req[w].op = "Reassign"
              BY <6>1, Serving
            <7>2. \E k : todo[w] \subseteq {k}
              BY <6>1, <7>1 DEF SwapHeld
            <7>3. RevKey(q, u) \in todo[w]
              BY <3>1, <6>1
            <7> QED
              BY <7>2, <7>3
          <6> QED
            BY <4>3, <6>1 DEF Leaving
        <5> QED
          BY <5>1, <5>2, <5>3 DEF Staying, Reviewers
      <4> QED
        BY <4>2, <4>3
    <3>3. Coming(w, p)' \subseteq Coming(w, p)
      BY <3>1 DEF Coming, NotAdding
    <3> QED
      BY <3>2, <3>3 DEF Staying, Reviewers
  <2> QED
    BY <2>1, <2>2
<1>4. CASE /\ Quiet(w) /\ db' = db
           /\ pc[w] \notin {"removing", "adding", "lockOld", "lockNew"}
  <2>1. Reviewers(See(w)', p) = Reviewers(See(w), p)
    BY <1>1, <1>4, TablesKept DEF Reviewers, Has
  <2>2. CASE Remove(w)
    <3>1. /\ pc[w] = "remove" /\ pc'[w] = "removing" /\ items' = items
          /\ todo'[w] = RemoveReviewerFromOpenPRs(See(w), Subject(w))
      BY <2>2 DEF Remove, Choose, Goto, LocalsTyped
    <3>2. Leaving(w)' = Leaving(w) /\ Coming(w, p)' = Coming(w, p)
      BY <3>1 DEF Leaving, Coming, NotAdding
    <3> QED
      BY <2>1, <3>2 DEF Staying
  <2>3. CASE ~Remove(w)
    <3>1. pc[w] # "remove"
      BY <1>4, <2>3
      DEF Quiet, SetActive, LockUser, FindCandidates, RemoveRow, Removed, Add, AddRow, Added,
          InsertTeam, UpsertUser, Deactivate, DeactivateRow, Deactivated, TeamExists,
          RemoveTeam, Pick, AuthorExists, InsertPR, MergeExists, GetMerged, Reassign,
          LockOld, LockNew, GetReassigned
    <3>2. Leaving(w) = {}
      BY <1>4, <3>1 DEF Leaving
    <3>3. Coming(w, p)' \subseteq Coming(w, p)
      <4>1. CASE \/ SetActive(w) \/ LockUser(w) \/ Add(w) \/ Added(w) \/ InsertTeam(w)
                 \/ UpsertUser(w) \/ Deactivate(w) \/ DeactivateRow(w) \/ Deactivated(w)
                 \/ TeamExists(w) \/ RemoveTeam(w) \/ GetReassigned(w)
        <5>1. pc[w] \notin NotAdding /\ items' = items
          BY <1>1, <4>1 DEF SetActive, LockUser, Add, Added, InsertTeam, UpsertUser,
             Deactivate, DeactivateRow, Deactivated, TeamExists, RemoveTeam, GetReassigned,
             Choose, Proceed, WriteRow, NotAdding
        <5> QED
          BY <5>1 DEF Coming
      <4>2. CASE Pick(w) \/ AuthorExists(w) \/ MergeExists(w)
        <5>1. pc'[w] \in NotAdding
          BY <1>1, <4>2 DEF Pick, AuthorExists, MergeExists, Proceed, Goto, LocalsTyped,
                            NotAdding
        <5> QED
          BY <5>1 DEF Coming
      <4>3. CASE GetMerged(w)
        BY <4>3 DEF GetMerged, Goto, LocalsTyped
      <4>4. ~(RemoveRow(w) \/ Removed(w) \/ AddRow(w) \/ LockOld(w) \/ LockNew(w))
        BY <1>4 DEF RemoveRow, Removed, AddRow, LockOld, LockNew
      <4> QED
        BY <1>4, <2>3, <4>1, <4>2, <4>3, <4>4 DEF Quiet
    <3> QED
      BY <2>1, <3>2, <3>3 DEF Staying
  <2> QED
    BY <2>2, <2>3
<1> QED
  BY <1>1, <1>2, <1>3, <1>4

\* A request plans no third reviewer for any pull request.
LEMMA RoomStep ==
  ASSUME NEW w \in Workers, Inductive, AnswersHeld, AtMostTwo, RoomHeld(w), ItemsNew(w),
         Step(w)
  PROVE  RoomHeld(w)'
<1> USE DEF Inductive, TypeOK
<1>1. CASE pc'[w] = "done"
  BY <1>1 DEF RoomHeld
<1>2. CASE Begin(w)
  <2>1. tx' = tx /\ db' = db /\ items'[w] = {} /\ tx[w] = NoWrites
    BY <1>2 DEF Begin, LocalsTyped, AnswersHeld, HoldsNothing, Unwriting
  <2>2. \A p \in PRs : Coming(w, p)' = {} /\ Staying(w, p)' \subseteq Reviewers(db, p)
    <3>1. \A k \in Keys : See(w)'[k] = db[k]
      BY <2>1, SeeingNext DEF NoWrites
    <3> QED
      BY <2>1, <3>1, KeysApart DEF Coming, Staying, Reviewers, Has
  <2>3. \A p \in PRs : Reviewers(db, p) \subseteq Users /\ Cardinality(Reviewers(db, p)) <= 2
    BY DEF AtMostTwo, WithinLimit, Reviewers
  <2>4. ASSUME NEW p \in PRs
        PROVE  Cardinality(Staying(w, p)' \cup Coming(w, p)') <= 2
    <3>1. Staying(w, p)' \cup Coming(w, p)' \subseteq Reviewers(db, p)
      BY <2>2
    <3> QED
      BY <2>3, <3>1, FewEnough
  <2> QED
    BY <2>4 DEF RoomHeld
<1>3. SUFFICES ASSUME ~Begin(w), pc'[w] # "done" PROVE RoomHeld(w)'
  BY <1>1, <1>2
<1>4. /\ (Quiet(w) /\ db' = db) \/ Merge(w)
      /\ \A code : ~Fail(w, code)
      /\ pc[w] # "done"
  BY <1>3, InProgress
<1>5. PickKept(w) /\ SwapHeld(w)
  BY DEF AnswersHeld
<1>6. FindCandidates(w) \/ Reassign(w) \/ InsertPR(w) => db' = db /\ req' = req
  BY <1>4 DEF FindCandidates, Reassign, InsertPR, Merge, Step, Serve, Begin, Cancel,
              CommitLost
<1>7. CASE FindCandidates(w) \/ Reassign(w) \/ InsertPR(w)
  BY <1>3, <1>4, <1>5, <1>6, <1>7, RoomToHandOver, RoomToReassign, RoomToCreate
<1>8. CASE ~(FindCandidates(w) \/ Reassign(w) \/ InsertPR(w))
  <2>1. ASSUME NEW p \in PRs
        PROVE  Cardinality(Staying(w, p)' \cup Coming(w, p)') <= 2
    <3>1. Staying(w, p)' \cup Coming(w, p)' \subseteq Staying(w, p) \cup Coming(w, p)
      BY <1>3, <1>5, <1>8, RoomFollows
    <3>2. /\ Cardinality(Staying(w, p) \cup Coming(w, p)) <= 2
          /\ Staying(w, p) \cup Coming(w, p) \subseteq Users
      BY <1>4 DEF RoomHeld, Staying, Reviewers, Coming
    <3> QED
      BY <3>1, <3>2, FewEnough
  <2> QED
    BY <2>1 DEF RoomHeld
<1> QED
  BY <1>7, <1>8

\* Until the assignments are written, none of them is there.
LEMMA ItemsNewStep ==
  ASSUME NEW w \in Workers, Inductive, ItemsNew(w), Step(w)
  PROVE  ItemsNew(w)'
<1> USE DEF Inductive, TypeOK
<1>1. CASE Begin(w)
  <2>1. items'[w] = {}
    BY <1>1 DEF Begin, LocalsTyped
  <2> QED
    BY <2>1 DEF ItemsNew
<1>2. CASE pc'[w] = "done"
  BY <1>2 DEF ItemsNew, BeforeQuery
<1>3. SUFFICES ASSUME ~Begin(w), pc'[w] # "done" PROVE ItemsNew(w)'
  BY <1>1, <1>2
<1>4. /\ (Quiet(w) /\ db' = db) \/ Merge(w)
      /\ \A code : ~Fail(w, code)
      /\ pc[w] # "done"
  BY <1>3, InProgress
<1>5. pc'[w] \in BeforeQuery => pc[w] \in BeforeQuery /\ items' = items
  BY <1>4 DEF BeforeQuery, Quiet, Merge, SetActive, LockUser, FindCandidates, Remove,
     RemoveRow, Removed, Add, AddRow, Added, InsertTeam, UpsertUser, Deactivate,
     DeactivateRow, Deactivated, TeamExists, RemoveTeam, Pick, AuthorExists, InsertPR,
     MergeExists, GetMerged, Reassign, LockOld, LockNew, GetReassigned, NextMember, Choose,
     Proceed, WriteRow, Goto, LocalsTyped
<1>6. SUFFICES ASSUME pc'[w] \in {"candidates", "remove", "removing"}
                PROVE  \A a \in items'[w] : ~Has(See(w)', RevKey(a[1], a[2]))
  BY <1>5 DEF ItemsNew
<1>7. ~Merge(w)
  BY <1>6 DEF Merge, Proceed, Goto, LocalsTyped
<1>8. CASE FindCandidates(w)
  <2>1. PICK found \in GetReassignmentCandidatesForReviewer(See(w), Subject(w)) :
          items' = [items EXCEPT ![w] = @ \cup found]
    BY <1>8 DEF FindCandidates
  <2>2. items'[w] = items[w] \cup found /\ tx' = tx /\ pc[w] = "candidates"
    BY <1>8, <2>1 DEF FindCandidates, LocalsTyped
  <2>3. \A a \in items'[w] : /\ ~Has(See(w), RevKey(a[1], a[2]))
                             /\ RevKey(a[1], a[2]) \in Keys
    BY <2>2, HandoverFound, KeysApart DEF ItemsNew, LocalsTyped
  <2>4. \A k \in Keys : See(w)'[k] = See(w)[k]
    BY <1>4, <1>7, <2>2, Seeing, SeeingNext
  <2> QED
    BY <2>3, <2>4 DEF Has
<1>9. CASE Remove(w) \/ Removed(w) \/ RemoveRow(w)
  <2>1. /\ pc[w] \in {"remove", "removing"} /\ items' = items
        /\ tx' = tx \/ \E k \in todo[w] : tx' = [tx EXCEPT ![w][k] = Absent]
    BY <1>9, UnwrittenIsNoRow DEF Remove, Removed, RemoveRow, Choose, WriteRow
  <2>2. \A k \in Keys : tx'[w][k] \in {tx[w][k], Absent}
    <3>1. ASSUME NEW j \in todo[w], tx' = [tx EXCEPT ![w][j] = Absent], NEW k \in Keys
          PROVE  tx'[w][k] \in {tx[w][k], Absent}
      <4>1. j \in Keys
        BY <3>1 DEF LocalsTyped
      <4> QED
        BY <3>1, <4>1, OneWritten
    <3> QED
      BY <2>1, <3>1
  <2>3. \A k \in Keys : ~Has(See(w), k) => ~Has(See(w)', k)
    BY <1>4, <1>7, <2>2, Seeing, SeeingNext, UnwrittenIsNoRow DEF Has
  <2>4. \A a \in items[w] : /\ RevKey(a[1], a[2]) \in Keys
                            /\ ~Has(See(w), RevKey(a[1], a[2]))
    BY <2>1, KeysApart DEF ItemsNew, LocalsTyped
  <2> QED
    BY <2>1, <2>3, <2>4
\* SetActive and DeactivateTeam come here with nothing in memory.
<1>10. CASE LockUser(w) \/ RemoveTeam(w)
  <2>1. pc[w] \in BeforeQuery /\ items' = items
    BY <1>4, <1>10 DEF LockUser, RemoveTeam, BeforeQuery
  <2> QED
    BY <2>1 DEF ItemsNew
<1>11. CASE \/ SetActive(w) \/ Add(w) \/ AddRow(w) \/ Added(w) \/ InsertTeam(w)
           \/ UpsertUser(w) \/ Deactivate(w) \/ DeactivateRow(w) \/ Deactivated(w)
           \/ TeamExists(w)
  BY <1>4, <1>11, <1>6 DEF SetActive, Add, AddRow, Added, InsertTeam, UpsertUser, Deactivate,
     DeactivateRow, Deactivated, TeamExists, Choose, Proceed, WriteRow, Goto, LocalsTyped
<1>12. CASE \/ Pick(w) \/ AuthorExists(w) \/ InsertPR(w) \/ MergeExists(w) \/ GetMerged(w)
            \/ Reassign(w) \/ LockOld(w) \/ LockNew(w) \/ GetReassigned(w)
  BY <1>4, <1>12, <1>6 DEF Pick, AuthorExists, InsertPR, MergeExists, GetMerged, Reassign,
     LockOld, LockNew, GetReassigned, Proceed, Goto, LocalsTyped
<1> QED
  BY <1>4, <1>7, <1>8, <1>9, <1>10, <1>11, <1>12 DEF Quiet

(***************************************************************************)
(* Part 4.  Open pull requests, active users.                              *)
(***************************************************************************)
\* Merge runs outside a transaction: it has written nothing.
LEMMA MergesAlone ==
  ASSUME NEW w \in Workers, Inductive, HoldsNothing(w), Merge(w)
  PROVE  /\ tx'[w] = NoWrites /\ items' = items
         /\ pc'[w] \in {"getMerged", "mergeExists"}
  BY DEF Inductive, TypeOK, Merge, Proceed, Goto, LocalsTyped, HoldsNothing, Unwriting

\* A request that is taken starts from nothing.
LEMMA BeginsWithNothing ==
  ASSUME NEW w \in Workers, Inductive, HoldsNothing(w), Begin(w)
  PROVE  /\ tx'[w] = NoWrites /\ items'[w] = {}
         /\ \E r \in Requests : req'[w] = r /\ pc'[w] = FirstStep(r)
         /\ pc'[w] \notin {"remove", "removing", "add", "adding", "commit", "lockOld", "lockNew",
                           "getReassigned"}
<1> USE DEF Inductive, TypeOK
<1>1. PICK r \in Requests : req' = [req EXCEPT ![w] = r] /\ Goto(w, FirstStep(r))
  BY DEF Begin
<1>2. req'[w] = r /\ pc'[w] = FirstStep(r)
  BY <1>1 DEF Goto, LocalsTyped
<1>3. FirstStep(r) \notin {"remove", "removing", "add", "adding", "commit", "lockOld",
                           "lockNew", "getReassigned"}
  BY RequestForms DEF FirstStep
<1> QED
  BY <1>2, <1>3 DEF Begin, LocalsTyped, HoldsNothing, Unwriting

\* An open pull request stays open in the eyes of a transaction.
LEMMA OpenLasts ==
  ASSUME NEW w \in Workers, Inductive, Quiet(w), db' = db, \A code : ~Fail(w, code),
         NEW p \in PRs, IsOpen(See(w), p)
  PROVE  IsOpen(See(w)', p)
<1> USE DEF Inductive, TypeOK
<1>1. CASE pc[w] # "insertPR"
  BY <1>1, TablesKept DEF IsOpen, Has
<1>2. CASE pc[w] = "insertPR"
  <2>1. InsertPR(w)
    BY <1>2
    DEF Quiet, SetActive, LockUser, FindCandidates, Remove, RemoveRow, Removed, Add, AddRow,
        Added, InsertTeam, UpsertUser, Deactivate, DeactivateRow, Deactivated, TeamExists,
        RemoveTeam, Pick, AuthorExists, MergeExists, GetMerged, Reassign, LockOld, LockNew,
        GetReassigned
  <2>2. req[w].pr \in PRs /\ PRKey(req[w].pr) \in Keys /\ PRKey(p) \in Keys
    BY <1>2, Serving, KeysApart
  <2>3. ~Has(See(w), PRKey(req[w].pr)) /\ \E row : Put(w, PRKey(req[w].pr), row)
    BY <2>1 DEF InsertPR
  <2>4. PRKey(p) # PRKey(req[w].pr)
    BY <2>3 DEF IsOpen
  <2>5. tx'[w][PRKey(p)] = tx[w][PRKey(p)]
    BY <2>2, <2>3, <2>4, OneWritten DEF Put
  <2> QED
    BY <2>2, <2>5, Seeing, SeeingNext DEF IsOpen, Has
<1> QED
  BY <1>1, <1>2

\* The insert of a pull request leaves an open one.
LEMMA InsertedOpen ==
  ASSUME NEW w \in Workers, Inductive, InsertPR(w), \A code : ~Fail(w, code)
  PROVE  req[w].pr \in PRs /\ IsOpen(See(w)', req[w].pr)
<1> USE DEF Inductive, TypeOK
<1> DEFINE pr == [author |-> req[w].author, status |-> "OPEN", merged_at |-> Absent]
<1>1. /\ req[w].pr \in PRs /\ req[w].author \in Users /\ PRKey(req[w].pr) \in Keys
      /\ tx' = [tx EXCEPT ![w][PRKey(req[w].pr)] = pr]
  BY Serving, KeysApart DEF InsertPR, Put
<1>2. tx'[w][PRKey(req[w].pr)] = pr
  BY <1>1, OneWritten
<1>3. pr \in PRRow
  BY <1>1 DEF PRRow
<1>4. pr # Unwritten /\ pr # Absent
  BY <1>3, UnwrittenIsNoRow, AbsentIsNoRow
<1> QED
  BY <1>1, <1>2, <1>4, SeeingNext DEF IsOpen, Has

\* Rows of reviewers are written for open pull requests only.
LEMMA OnlyOpenStep ==
  ASSUME NEW w \in Workers, Inductive, HoldsNothing(w), OnlyOpen(w), Step(w)
  PROVE  OnlyOpen(w)'
<1> USE DEF Inductive, TypeOK
<1>1. CASE pc'[w] = "done"
  BY <1>1 DEF OnlyOpen
<1>2. CASE Begin(w)
  BY <1>2, BeginsWithNothing, KeysApart DEF OnlyOpen, NoWrites
<1>3. CASE Merge(w)
  BY <1>3, MergesAlone, KeysApart DEF OnlyOpen, NoWrites, NotAdding
<1>4. SUFFICES ASSUME ~Begin(w), ~Merge(w), pc'[w] # "done" PROVE OnlyOpen(w)'
  BY <1>1, <1>2, <1>3
<1>5. Quiet(w) /\ db' = db /\ (\A code : ~Fail(w, code)) /\ pc[w] # "done"
  BY <1>4, InProgress
<1>6. \A p \in PRs : IsOpen(See(w), p) => IsOpen(See(w)', p)
  BY <1>5, OpenLasts
<1>7. ASSUME NEW p \in PRs, NEW u \in Users, tx'[w][RevKey(p, u)] # Unwritten
      PROVE  IsOpen(See(w), p)
  <2>1. CASE tx'[w][RevKey(p, u)] = tx[w][RevKey(p, u)]
    BY <1>5, <1>7, <2>1 DEF OnlyOpen
  <2>2. CASE tx'[w][RevKey(p, u)] # tx[w][RevKey(p, u)]
    <3>1. pc[w] \in {"removing", "adding", "lockOld", "lockNew"}
      BY <1>5, <2>2, TablesKept
    <3>2. PICK q \in PRs, v \in Users :
            LET k == RevKey(q, v) IN
              /\ \A i \in PRs, x \in Users : RevKey(i, x) # k =>
                   tx'[w][RevKey(i, x)] = tx[w][RevKey(i, x)]
              /\ \/ pc[w] \in {"removing", "lockOld"} /\ k \in todo[w]
                 \/ pc[w] \in {"adding", "lockNew"} /\ <<q, v>> \in items[w]
      BY <1>5, <2>2, <3>1, RowStep
    <3>3. p = q /\ u = v
      BY <2>2, <3>2, KeysApart
    <3>4. CASE pc[w] \in {"removing", "lockOld"} /\ RevKey(p, u) \in todo[w]
      BY <1>5, <3>4 DEF OnlyOpen
    <3>5. CASE pc[w] \in {"adding", "lockNew"} /\ <<p, u>> \in items[w]
      BY <1>5, <3>5 DEF OnlyOpen, NotAdding
    <3> QED
      BY <3>2, <3>3, <3>4, <3>5
  <2> QED
    BY <2>1, <2>2
<1>8. ASSUME pc'[w] \in {"removing", "lockOld"}, NEW p \in PRs, NEW u \in Users,
             RevKey(p, u) \in todo'[w]
      PROVE  IsOpen(See(w), p)
  <2>1. CASE Remove(w)
    <3>1. RevKey(p, u) \in RemoveReviewerFromOpenPRs(See(w), Subject(w))
      BY <1>8, <2>1 DEF Remove, Choose, LocalsTyped
    <3>2. PICK q \in OpenReviews(See(w), Subject(w)) : RevKey(p, u) = RevKey(q, Subject(w))
      BY <3>1 DEF RemoveReviewerFromOpenPRs
    <3> QED
      BY <3>2, KeysApart DEF OpenReviews, Reviewers
  <2>2. CASE RemoveTeam(w)
    <3>1. RevKey(p, u) \in RemoveTeamReviewersFromOpenPRs(See(w), req[w].team)
      BY <1>8, <2>2 DEF RemoveTeam, LocalsTyped
    <3>2. PICK v \in Users, q \in PRs :
            q \in OpenReviews(See(w), v) /\ RevKey(p, u) = RevKey(q, v)
      BY <3>1 DEF RemoveTeamReviewersFromOpenPRs, RemoveReviewerFromOpenPRs, TeamMembers,
                  OpenReviews
    <3> QED
      BY <3>2, KeysApart DEF OpenReviews, Reviewers
  <2>3. CASE Reassign(w)
    <3>1. /\ todo' = [todo EXCEPT ![w] = {RevKey(req[w].pr, req[w].old)}]
          /\ IsOpen(See(w), req[w].pr)
      BY <1>5, <2>3 DEF Reassign
    <3>2. RevKey(p, u) = RevKey(req[w].pr, req[w].old)
      BY <1>8, <3>1 DEF LocalsTyped
    <3>3. req[w].pr \in PRs /\ req[w].old \in Users
      BY <2>3, Serving DEF Reassign
    <3> QED
      BY <3>1, <3>2, <3>3, KeysApart
  <2>4. CASE RemoveRow(w)
    <3>1. pc[w] = "removing" /\ todo'[w] \subseteq todo[w]
      BY <2>4 DEF RemoveRow, WriteRow, LocalsTyped
    <3> QED
      BY <1>5, <1>8, <3>1 DEF OnlyOpen
  <2>5. ~(\/ SetActive(w) \/ LockUser(w) \/ FindCandidates(w) \/ Removed(w) \/ Add(w)
          \/ AddRow(w) \/ Added(w) \/ InsertTeam(w) \/ UpsertUser(w) \/ Deactivate(w)
          \/ DeactivateRow(w) \/ Deactivated(w) \/ TeamExists(w))
    BY <1>5, <1>8 DEF SetActive, LockUser, FindCandidates, Removed, Add, AddRow, Added,
       InsertTeam, UpsertUser, Deactivate, DeactivateRow, Deactivated, TeamExists,
       NextMember, Choose, Proceed, WriteRow, Goto, LocalsTyped
  <2>6. ~(\/ Pick(w) \/ AuthorExists(w) \/ InsertPR(w) \/ MergeExists(w) \/ GetMerged(w)
          \/ LockOld(w) \/ LockNew(w) \/ GetReassigned(w))
    BY <1>5, <1>8 DEF Pick, AuthorExists, InsertPR, MergeExists, GetMerged, LockOld, LockNew,
       GetReassigned, Proceed, Goto, LocalsTyped
  <2> QED
    BY <1>5, <2>1, <2>2, <2>3, <2>4, <2>5, <2>6 DEF Quiet
<1>9. ASSUME pc'[w] \notin NotAdding, NEW a \in items'[w]
      PROVE  a[1] \in PRs /\ IsOpen(See(w)', a[1])
  <2>1. CASE FindCandidates(w)
    <3>1. PICK found \in GetReassignmentCandidatesForReviewer(See(w), Subject(w)) :
            items' = [items EXCEPT ![w] = @ \cup found]
      BY <2>1 DEF FindCandidates
    <3>2. items'[w] = items[w] \cup found /\ pc[w] \notin NotAdding
      BY <2>1, <3>1 DEF FindCandidates, LocalsTyped, NotAdding
    <3>3. a[1] \in PRs /\ IsOpen(See(w), a[1])
      BY <1>5, <1>9, <3>2, HandoverFound DEF OnlyOpen, LocalsTyped
    <3> QED
      BY <1>6, <3>3
  <2>2. CASE Reassign(w)
    <3>1. /\ \E new : items' = [items EXCEPT ![w] = {<<req[w].pr, new>>}]
          /\ IsOpen(See(w), req[w].pr) /\ req[w].pr \in PRs
      BY <1>5, <2>2, Serving DEF Reassign
    <3>2. a[1] = req[w].pr
      BY <1>9, <3>1 DEF LocalsTyped
    <3> QED
      BY <1>6, <3>1, <3>2
  <2>3. CASE InsertPR(w)
    <3>1. items' = items /\ \A b \in items[w] : b[1] = req[w].pr
      BY <1>5, <2>3 DEF InsertPR, Settled, ItemsApart
    <3> QED
      BY <1>5, <1>9, <2>3, <3>1, InsertedOpen
  <2>4. CASE ~FindCandidates(w) /\ ~Reassign(w) /\ ~InsertPR(w)
    <3>1. items' = items /\ pc[w] \notin NotAdding
      <4>1. CASE \/ SetActive(w) \/ LockUser(w) \/ Remove(w) \/ RemoveRow(w) \/ Removed(w)
                 \/ Add(w) \/ AddRow(w) \/ Added(w) \/ InsertTeam(w) \/ UpsertUser(w)
                 \/ Deactivate(w) \/ DeactivateRow(w) \/ Deactivated(w) \/ TeamExists(w)
                 \/ RemoveTeam(w) \/ LockOld(w) \/ LockNew(w) \/ GetReassigned(w)
        BY <1>5, <4>1 DEF SetActive, LockUser, Remove, RemoveRow, Removed, Add, AddRow,
           Added, InsertTeam, UpsertUser, Deactivate, DeactivateRow, Deactivated,
           TeamExists, RemoveTeam, LockOld, LockNew, GetReassigned, Choose, Proceed,
           WriteRow, NotAdding
      <4>2. ~(Pick(w) \/ AuthorExists(w) \/ MergeExists(w) \/ GetMerged(w))
        BY <1>4, <1>5, <1>9 DEF Pick, AuthorExists, MergeExists, GetMerged, Proceed, Goto,
                                LocalsTyped, NotAdding
      <4> QED
        BY <1>5, <2>4, <4>1, <4>2 DEF Quiet
    <3>2. a[1] \in PRs /\ IsOpen(See(w), a[1])
      BY <1>5, <1>9, <3>1 DEF OnlyOpen, LocalsTyped
    <3> QED
      BY <1>6, <3>2
  <2> QED
    BY <2>1, <2>2, <2>3, <2>4
<1> QED
  BY <1>6, <1>7, <1>8, <1>9 DEF OnlyOpen

\* Reviewers are added after the last change of a user, if active then.
LEMMA AddsActiveStep ==
  ASSUME NEW w \in Workers, Inductive, HoldsNothing(w), AddsActive(w), Step(w)
  PROVE  AddsActive(w)'
<1> USE DEF Inductive, TypeOK
<1> DEFINE Last == {"adding", "commit", "getReassigned"}
<1>1. CASE pc'[w] = "done"
  BY <1>1 DEF AddsActive
<1>2. Unwritten # Present
  BY UnwrittenIsNoRow
<1>3. CASE Begin(w)
  BY <1>2, <1>3, BeginsWithNothing, KeysApart DEF AddsActive, NoWrites
<1>4. CASE Merge(w)
  BY <1>2, <1>4, MergesAlone, KeysApart DEF AddsActive, NoWrites
<1>5. SUFFICES ASSUME ~Begin(w), ~Merge(w), pc'[w] # "done" PROVE AddsActive(w)'
  BY <1>1, <1>3, <1>4
<1>6. Quiet(w) /\ db' = db /\ (\A code : ~Fail(w, code)) /\ pc[w] # "done"
  BY <1>5, InProgress
<1>7. ASSUME pc[w] \notin {"lockUser", "upsertUser", "deactivating"}, NEW u \in Users,
             IsActive(See(w), u)
      PROVE  IsActive(See(w)', u)
  BY <1>6, <1>7, TablesKept DEF IsActive, Has
<1>8. pc[w] \in Last => pc'[w] \in Last
  BY <1>5, <1>6
  DEF Quiet, SetActive, LockUser, FindCandidates, Remove, RemoveRow, Removed, Add, AddRow,
      Added, InsertTeam, UpsertUser, Deactivate, DeactivateRow, Deactivated, TeamExists,
      RemoveTeam, Pick, AuthorExists, InsertPR, MergeExists, GetMerged, Reassign, LockOld,
      LockNew, GetReassigned, Proceed, WriteRow, Goto, LocalsTyped
<1>9. ASSUME NEW p \in PRs, NEW u \in Users, tx'[w][RevKey(p, u)] = Present
      PROVE  IsActive(See(w)', u) /\ pc'[w] \in Last
  <2>1. CASE tx[w][RevKey(p, u)] = Present
    <3>1. IsActive(See(w), u) /\ pc[w] \in Last
      BY <1>6, <2>1 DEF AddsActive
    <3> QED
      BY <1>7, <1>8, <3>1
  <2>2. CASE tx[w][RevKey(p, u)] # Present
    <3>1. pc[w] \in {"removing", "adding", "lockOld", "lockNew"}
      BY <1>6, <1>9, <2>2, TablesKept
    <3>2. PICK q \in PRs, v \in Users :
            LET k == RevKey(q, v) IN
              /\ \A i \in PRs, x \in Users : RevKey(i, x) # k =>
                   tx'[w][RevKey(i, x)] = tx[w][RevKey(i, x)]
              /\ \/ tx'[w][k] = Absent
                 \/ pc[w] = "adding" /\ pc'[w] = "adding" /\ k \in todo[w]
                 \/ pc[w] = "lockNew" /\ pc'[w] = "getReassigned" /\ <<q, v>> \in items[w]
      BY <1>6, <1>9, <2>2, <3>1, RowStep
    <3>3. p = q /\ u = v
      BY <1>9, <2>2, <3>2, KeysApart
    <3>4. CASE tx'[w][RevKey(p, u)] = Absent
      BY <1>9, <3>4, AbsentIsNoRow
    <3>5. CASE pc[w] = "adding" /\ pc'[w] = "adding" /\ RevKey(p, u) \in todo[w]
      <4>1. RevKey(p, u) \in AddReviewers(See(w), items[w])
        BY <1>6, <3>5 DEF AddsActive
      <4>2. PICK a \in items[w] : RevKey(p, u) = RevKey(a[1], a[2])
                                  /\ IsActive(See(w), a[2])
        BY <4>1 DEF AddReviewers, IsActive
      <4>3. a[2] = u
        BY <4>2, KeysApart DEF LocalsTyped
      <4> QED
        BY <1>7, <3>5, <4>2, <4>3
    <3>6. CASE pc[w] = "lockNew" /\ pc'[w] = "getReassigned" /\ <<p, u>> \in items[w]
      <4>1. IsActive(See(w), u)
        BY <1>6, <3>6 DEF AddsActive
      <4> QED
        BY <1>7, <3>6, <4>1
    <3> QED
      BY <3>2, <3>3, <3>4, <3>5, <3>6
  <2> QED
    BY <2>1, <2>2
<1>10. ASSUME pc'[w] = "adding"
       PROVE  todo'[w] \subseteq AddReviewers(See(w)', items'[w])
  <2>1. CASE Add(w) \/ AddRow(w)
    <3>1. /\ pc[w] \in {"add", "adding"} /\ items' = items
          /\ todo'[w] \subseteq AddReviewers(See(w), items[w])
      <4>1. CASE Add(w)
        BY <1>10, <4>1 DEF Add, Choose, Proceed, Goto, LocalsTyped
      <4>2. CASE AddRow(w)
        <5>1. pc[w] = "adding" /\ items' = items /\ todo'[w] \subseteq todo[w]
          BY <4>2 DEF AddRow, WriteRow, LocalsTyped
        <5> QED
          BY <5>1 DEF AddsActive
      <4> QED
        BY <2>1, <4>1, <4>2
    <3>2. \A u \in Users : See(w)'[UserKey(u)] = See(w)[UserKey(u)]
      BY <1>6, <3>1, TablesKept
    <3>3. AddReviewers(See(w)', items[w]) = AddReviewers(See(w), items[w])
      <4>1. \A a \in items[w] : See(w)'[UserKey(a[2])] = See(w)[UserKey(a[2])]
        BY <3>2 DEF LocalsTyped
      <4> QED
        BY <4>1 DEF AddReviewers, Has
    <3> QED
      BY <3>1, <3>3
  <2>2. ~(\/ SetActive(w) \/ LockUser(w) \/ FindCandidates(w) \/ Remove(w) \/ RemoveRow(w)
          \/ Removed(w) \/ Added(w) \/ InsertTeam(w) \/ UpsertUser(w) \/ Deactivate(w)
          \/ DeactivateRow(w) \/ Deactivated(w) \/ TeamExists(w) \/ RemoveTeam(w))
    BY <1>6, <1>10 DEF SetActive, LockUser, FindCandidates, Remove, RemoveRow, Removed,
       Added, InsertTeam, UpsertUser, Deactivate, DeactivateRow, Deactivated, TeamExists,
       RemoveTeam, NextMember, Choose, Proceed, WriteRow, Goto, LocalsTyped
  <2>3. ~(\/ Pick(w) \/ AuthorExists(w) \/ InsertPR(w) \/ MergeExists(w) \/ GetMerged(w)
          \/ Reassign(w) \/ LockOld(w) \/ LockNew(w) \/ GetReassigned(w))
    BY <1>6, <1>10 DEF Pick, AuthorExists, InsertPR, MergeExists, GetMerged, Reassign,
       LockOld, LockNew, GetReassigned, Proceed, Goto, LocalsTyped
  <2> QED
    BY <1>6, <2>1, <2>2, <2>3 DEF Quiet
<1>11. ASSUME pc'[w] \in {"lockOld", "lockNew"}, NEW a \in items'[w]
       PROVE  IsActive(See(w)', a[2])
  <2>1. CASE Reassign(w)
    <3>1. PICK new \in ReassignCandidates(See(w), req[w].pr, req[w].old) :
            items' = [items EXCEPT ![w] = {<<req[w].pr, new>>}]
      BY <1>6, <2>1 DEF Reassign
    <3>2. a[2] = new /\ pc[w] = "reassign"
      BY <1>11, <2>1, <3>1 DEF Reassign, LocalsTyped
    <3>3. new \in Users /\ IsActive(See(w), new)
      BY ReassignFound
    <3> QED
      BY <1>7, <3>2, <3>3
  <2>2. CASE LockOld(w)
    <3>1. pc[w] = "lockOld" /\ items' = items
      BY <1>6, <2>2 DEF LockOld
    <3>2. IsActive(See(w), a[2]) /\ a[2] \in Users
      BY <1>6, <1>11, <3>1 DEF AddsActive, LocalsTyped
    <3> QED
      BY <1>7, <3>1, <3>2
  <2>3. ~(\/ SetActive(w) \/ LockUser(w) \/ FindCandidates(w) \/ Remove(w) \/ RemoveRow(w)
          \/ Removed(w) \/ Add(w) \/ AddRow(w) \/ Added(w) \/ InsertTeam(w)
          \/ UpsertUser(w) \/ Deactivate(w) \/ DeactivateRow(w) \/ Deactivated(w)
          \/ TeamExists(w) \/ RemoveTeam(w))
    BY <1>6, <1>11 DEF SetActive, LockUser, FindCandidates, Remove, RemoveRow, Removed,
       Add, AddRow, Added, InsertTeam, UpsertUser, Deactivate, DeactivateRow, Deactivated,
       TeamExists, RemoveTeam, NextMember, Choose, Proceed, WriteRow, Goto, LocalsTyped
  <2>4. ~(\/ Pick(w) \/ AuthorExists(w) \/ InsertPR(w) \/ MergeExists(w) \/ GetMerged(w)
          \/ LockNew(w) \/ GetReassigned(w))
    BY <1>6, <1>11 DEF Pick, AuthorExists, InsertPR, MergeExists, GetMerged, LockNew,
       GetReassigned, Proceed, Goto, LocalsTyped
  <2> QED
    BY <1>6, <2>1, <2>2, <2>3, <2>4 DEF Quiet
<1> QED
  BY <1>9, <1>10, <1>11 DEF AddsActive

(***************************************************************************)
(* Part 5.  Those who are deactivated.                                     *)
(***************************************************************************)
\* The reviews of the users a request deactivates are deleted, and no others
\* are given to them.
LEMMA QuittersLeaveStep ==
  ASSUME NEW w \in Workers, Inductive, HoldsNothing(w), QuittersLeave(w), Step(w)
  PROVE  QuittersLeave(w)'
<1> USE DEF Inductive, TypeOK
<1>1. CASE pc'[w] = "done"
  BY <1>1 DEF QuittersLeave
<1>2. CASE Begin(w)
  BY <1>2, BeginsWithNothing DEF QuittersLeave
<1>3. CASE Merge(w)
  <2>1. req'[w] = req[w] /\ req[w].op = "Merge" /\ pc'[w] \in {"getMerged", "mergeExists"}
    BY <1>3, MergesAlone, Serving DEF Merge, Step, Serve, Begin, Cancel, CommitLost, Publish
  <2> QED
    BY <2>1 DEF QuittersLeave, Quitting
<1>4. SUFFICES ASSUME ~Begin(w), ~Merge(w), pc'[w] # "done" PROVE QuittersLeave(w)'
  BY <1>1, <1>2, <1>3
<1>5. /\ Quiet(w) /\ db' = db /\ (\A code : ~Fail(w, code)) /\ pc[w] # "done"
      /\ req'[w] = req[w]
  BY <1>4, InProgress
<1>6. SUFFICES ASSUME NEW u \in Quitting(w)'
               PROVE  /\ pc'[w] = "removing" =>
                           RemoveReviewerFromOpenPRs(See(w)', u) \subseteq todo'[w]
                      /\ pc'[w] \in {"add", "adding", "commit"} =>
                           OpenReviews(See(w)', u) = {}
                      /\ req'[w].op = "SetActive" => \A a \in items'[w] : a[2] # u
  BY DEF QuittersLeave
<1>7. /\ \/ req[w].op = "SetActive" /\ ~req[w].active /\ u = req[w].user
         \/ req[w].op = "DeactivateTeam" /\ u \in TeamMembers(See(w)', req[w].team)
      /\ u \in Users
  <2>1. req[w] \in Requests
    BY <1>5 DEF Settled, OnItsWay
  <2> QED
    BY <1>5, <1>6, <2>1, RequestForms DEF Quitting, TeamMembers
<1>8. pc[w] \notin {"lockUser", "upsertUser", "deactivating"} => u \in Quitting(w)
  <2>1. CASE req[w].op = "SetActive"
    BY <1>7, <2>1 DEF Quitting
  <2>2. CASE req[w].op = "DeactivateTeam"
    BY <1>5, <1>7, <2>2, TablesKept DEF Quitting, TeamMembers, Has
  <2> QED
    BY <1>7, <2>1, <2>2
<1>9. ASSUME pc[w] \notin {"removing", "adding", "lockOld", "lockNew", "insertPR"}
      PROVE  OpenReviews(See(w)', u) = OpenReviews(See(w), u)
  <2>1. \A p \in PRs : /\ See(w)'[PRKey(p)] = See(w)[PRKey(p)]
                       /\ See(w)'[RevKey(p, u)] = See(w)[RevKey(p, u)]
    BY <1>5, <1>7, <1>9, TablesKept
  <2> QED
    BY <1>7, <2>1 DEF OpenReviews, IsOpen, Reviewers, Has
<1>10. ASSUME pc'[w] = "removing"
       PROVE  RemoveReviewerFromOpenPRs(See(w)', u) \subseteq todo'[w]
  <2>1. CASE Remove(w)
    <3>1. pc[w] = "remove" /\ todo'[w] = RemoveReviewerFromOpenPRs(See(w), Subject(w))
      BY <2>1 DEF Remove, Choose, LocalsTyped
    <3>2. u = Subject(w)
      BY <1>5, <1>7, <3>1, Serving DEF Subject
    <3> QED
      BY <1>9, <3>1, <3>2 DEF RemoveReviewerFromOpenPRs
  <2>2. CASE RemoveTeam(w)
    <3>1. /\ pc[w] = "removeTeam" /\ req[w].op = "DeactivateTeam"
          /\ todo'[w] = RemoveTeamReviewersFromOpenPRs(See(w), req[w].team)
      BY <2>2, Serving DEF RemoveTeam, LocalsTyped
    <3>2. u \in TeamMembers(See(w), req[w].team)
      BY <1>8, <3>1 DEF Quitting
    <3> QED
      BY <1>9, <3>1, <3>2 DEF RemoveReviewerFromOpenPRs, RemoveTeamReviewersFromOpenPRs
  <2>3. CASE RemoveRow(w)
    <3>1. pc[w] = "removing" /\ \E k \in todo[w] : WriteRow(w, k, Absent)
      BY <2>3 DEF RemoveRow
    <3>2. ~Removed(w)
      BY <3>1, <1>10 DEF Removed, NextMember, Goto, LocalsTyped
    <3>3. PICK q \in PRs, v \in Users :
            LET k == RevKey(q, v) IN
              /\ \A i \in PRs, x \in Users : RevKey(i, x) # k =>
                   See(w)'[RevKey(i, x)] = See(w)[RevKey(i, x)]
              /\ k \in todo[w] /\ todo'[w] = todo[w] \ {k}
              /\ tx'[w][k] = Absent
      BY <1>5, <3>1, <3>2, RowStep
    <3>4. RemoveReviewerFromOpenPRs(See(w), u) \subseteq todo[w]
      BY <1>8, <3>1 DEF QuittersLeave
    <3>5. ASSUME NEW p \in OpenReviews(See(w)', u)
          PROVE  RevKey(p, u) \in todo'[w]
      <4>1. p \in PRs /\ IsOpen(See(w)', p) /\ Has(See(w)', RevKey(p, u))
        BY <3>5 DEF OpenReviews, Reviewers
      <4>2. RevKey(p, u) # RevKey(q, v)
        BY <1>7, <3>3, <4>1, KeysApart, SeeingNext, UnwrittenIsNoRow DEF Has
      <4>3. Has(See(w), RevKey(p, u)) /\ IsOpen(See(w), p)
        BY <1>5, <1>7, <3>1, <3>3, <4>1, <4>2, TablesKept DEF IsOpen, Has
      <4>4. RevKey(p, u) \in RemoveReviewerFromOpenPRs(See(w), u)
        BY <1>7, <4>1, <4>3 DEF RemoveReviewerFromOpenPRs, OpenReviews, Reviewers
      <4> QED
        BY <3>3, <3>4, <4>2, <4>4
    <3> QED
      BY <3>5 DEF RemoveReviewerFromOpenPRs
  <2>4. ~(\/ SetActive(w) \/ LockUser(w) \/ FindCandidates(w) \/ Removed(w) \/ Add(w)
          \/ AddRow(w) \/ Added(w) \/ InsertTeam(w) \/ UpsertUser(w) \/ Deactivate(w)
          \/ DeactivateRow(w) \/ Deactivated(w) \/ TeamExists(w))
    BY <1>5, <1>10 DEF SetActive, LockUser, FindCandidates, Removed, Add, AddRow, Added,
       InsertTeam, UpsertUser, Deactivate, DeactivateRow, Deactivated, TeamExists,
       NextMember, Choose, Proceed, WriteRow, Goto, LocalsTyped
  <2>5. ~(\/ Pick(w) \/ AuthorExists(w) \/ InsertPR(w) \/ MergeExists(w) \/ GetMerged(w)
          \/ Reassign(w) \/ LockOld(w) \/ LockNew(w) \/ GetReassigned(w))
    BY <1>5, <1>10 DEF Pick, AuthorExists, InsertPR, MergeExists, GetMerged, Reassign,
       LockOld, LockNew, GetReassigned, Proceed, Goto, LocalsTyped
  <2> QED
    BY <1>5, <2>1, <2>2, <2>3, <2>4, <2>5 DEF Quiet
<1>11. ASSUME pc'[w] \in {"add", "adding", "commit"}
       PROVE  OpenReviews(See(w)', u) = {}
  <2>1. CASE Removed(w)
    <3>1. pc[w] = "removing" /\ todo[w] = {} /\ tx' = tx
      BY <2>1 DEF Removed
    <3>2. RemoveReviewerFromOpenPRs(See(w), u) = {}
      BY <1>8, <3>1 DEF QuittersLeave
    <3>3. OpenReviews(See(w), u) = {}
      BY <3>2 DEF RemoveReviewerFromOpenPRs
    <3>4. \A k \in Keys : See(w)'[k] = See(w)[k]
      BY <1>5, <3>1, Seeing, SeeingNext
    <3> QED
      BY <1>7, <3>3, <3>4, KeysApart DEF OpenReviews, IsOpen, Reviewers, Has
  <2>2. CASE Add(w)
    <3>1. pc[w] = "add"
      BY <2>2 DEF Add
    <3> QED
      BY <1>8, <1>9, <3>1 DEF QuittersLeave
  <2>3. CASE AddRow(w) \/ Added(w)
    <3>1. pc[w] = "adding" /\ req[w].op = "SetActive"
      BY <1>5, <1>7, <2>3, Serving DEF AddRow, Added
    <3>2. OpenReviews(See(w), u) = {} /\ \A a \in items[w] : a[2] # u
      BY <1>8, <3>1 DEF QuittersLeave
    <3>3. \A p \in PRs : See(w)'[RevKey(p, u)] = See(w)[RevKey(p, u)]
      <4>1. CASE tx' = tx
        BY <1>5, <1>7, <4>1, KeysApart, Seeing, SeeingNext
      <4>2. CASE tx' # tx
        <5>1. PICK q \in PRs, v \in Users :
                LET k == RevKey(q, v) IN
                  /\ \A i \in PRs, x \in Users : RevKey(i, x) # k =>
                       See(w)'[RevKey(i, x)] = See(w)[RevKey(i, x)]
                  /\ <<q, v>> \in items[w]
          BY <1>5, <3>1, <4>2, RowStep
        <5>2. v # u
          BY <3>2, <5>1
        <5> QED
          BY <1>7, <5>1, <5>2, KeysApart
      <4> QED
        BY <4>1, <4>2
    <3>4. \A p \in PRs : See(w)'[PRKey(p)] = See(w)[PRKey(p)]
      BY <1>5, <3>1, TablesKept
    <3> QED
      BY <1>7, <3>2, <3>3, <3>4 DEF OpenReviews, IsOpen, Reviewers, Has
  \* Deactivation goes on to the handover, activation ends here.
  <2>4. ~LockUser(w)
    <3>1. ASSUME LockUser(w) PROVE FALSE
      <4>1. pc[w] = "lockUser" /\ pc'[w] = IF req[w].active THEN "commit" ELSE "candidates"
        BY <1>5, <3>1 DEF LockUser, Goto, LocalsTyped
      <4>2. req[w].op = "SetActive"
        BY <1>5, <4>1, Serving
      <4> QED
        BY <1>7, <1>11, <4>1, <4>2
    <3> QED
      BY <3>1
  <2>5. ~(InsertTeam(w) \/ UpsertUser(w) \/ InsertPR(w) \/ GetReassigned(w))
    <3>1. ASSUME InsertTeam(w) \/ UpsertUser(w) \/ InsertPR(w) \/ GetReassigned(w)
          PROVE  FALSE
      <4>1. pc[w] \in {"insertTeam", "upsertUser", "insertPR", "getReassigned"}
        BY <3>1 DEF InsertTeam, UpsertUser, InsertPR, GetReassigned
      <4> QED
        BY <1>5, <1>7, <4>1, Serving
    <3> QED
      BY <3>1
  <2>6. ~(\/ SetActive(w) \/ FindCandidates(w) \/ Remove(w) \/ RemoveRow(w)
          \/ Deactivate(w) \/ DeactivateRow(w) \/ Deactivated(w) \/ TeamExists(w)
          \/ RemoveTeam(w))
    BY <1>5, <1>11 DEF SetActive, FindCandidates, Remove, RemoveRow, Deactivate,
       DeactivateRow, Deactivated, TeamExists, RemoveTeam, NextMember, Choose, Proceed,
       WriteRow, Goto, LocalsTyped
  <2>7. ~(\/ Pick(w) \/ AuthorExists(w) \/ MergeExists(w) \/ GetMerged(w) \/ Reassign(w)
          \/ LockOld(w) \/ LockNew(w))
    BY <1>5, <1>11 DEF Pick, AuthorExists, MergeExists, GetMerged, Reassign, LockOld,
       LockNew, Proceed, Goto, LocalsTyped
  <2> QED
    BY <1>5, <2>1, <2>2, <2>3, <2>4, <2>5, <2>6, <2>7 DEF Quiet
<1>12. ASSUME req[w].op = "SetActive", NEW a \in items'[w]
       PROVE  a[2] # u
  <2>1. u \in Quitting(w) /\ \A b \in items[w] : b[2] # u
    BY <1>5, <1>7, <1>12 DEF Quitting, QuittersLeave
  <2>2. CASE FindCandidates(w)
    <3>1. PICK found \in GetReassignmentCandidatesForReviewer(See(w), Subject(w)) :
            items' = [items EXCEPT ![w] = @ \cup found]
      BY <2>2 DEF FindCandidates
    <3>2. items'[w] = items[w] \cup found /\ Subject(w) = u
      BY <1>7, <1>12, <3>1 DEF LocalsTyped, Subject
    <3> QED
      BY <1>12, <2>1, <3>2, HandoverFound
  <2>3. CASE ~FindCandidates(w)
    <3>1. ~Pick(w) /\ ~Reassign(w)
      <4>1. Pick(w) => pc[w] = "pick"
        BY DEF Pick
      <4>2. Reassign(w) => pc[w] = "reassign"
        BY DEF Reassign
      <4> QED
        BY <1>5, <1>12, <4>1, <4>2, Serving
    <3>2. items' = items
      BY <1>5, <2>3, <3>1
      DEF Quiet, SetActive, LockUser, Remove, RemoveRow, Removed, Add, AddRow, Added,
          InsertTeam, UpsertUser, Deactivate, DeactivateRow, Deactivated, TeamExists,
          RemoveTeam, AuthorExists, InsertPR, MergeExists, GetMerged, LockOld, LockNew,
          GetReassigned, Choose, Proceed, WriteRow
    <3> QED
      BY <1>12, <2>1, <3>2
  <2> QED
    BY <2>2, <2>3
<1> QED
  BY <1>5, <1>10, <1>11, <1>12

(***************************************************************************)
(* Part 6.  The theorems.                                                  *)
(***************************************************************************)
\* A commit, and nothing else, changes the committed reviewers.
LEMMA ReviewersChange ==
  ASSUME NEW w \in Workers, Inductive, Step(w)
  PROVE  \/ pc[w] = "commit" /\ db' = See(w)
         \/ \A p \in PRs, u \in Users : db'[RevKey(p, u)] = db[RevKey(p, u)]
<1> USE DEF Inductive, TypeOK
<1>1. CASE Merge(w)
  <2>1. CASE db' = db
    BY <2>1
  <2>2. CASE db' # db
    <3>1. PICK now \in Instants :
            /\ IsOpen(db, req[w].pr)
            /\ db' = [db EXCEPT ![PRKey(req[w].pr)].status = "MERGED",
                               ![PRKey(req[w].pr)].merged_at = now]
      BY <1>1, <2>2 DEF Merge
    <3>2. req[w].pr \in PRs
      BY <1>1, Serving DEF Merge
    <3>3. \A k \in Keys : k # PRKey(req[w].pr) => db'[k] = db[k]
      BY <3>1, <3>2, OneMerged
    <3> QED
      BY <3>2, <3>3, KeysApart
  <2> QED
    BY <2>1, <2>2
<1>2. CASE Publish(w)
  BY <1>2 DEF Publish
<1>3. CASE ~Merge(w) /\ ~Publish(w)
  BY <1>3 DEF Step, Serve, Begin, Cancel, CommitLost, Commit, DeadlockAbort
<1> QED
  BY <1>1, <1>2, <1>3

\* The service starts within the limit and with no request in progress.
LEMMA LoneStarts ==
  ASSUME NEW w, Lone(w)
  PROVE  Init => LoneHeld
  BY DEF Lone, Init, LoneHeld, AtMostTwo, RoomHeld, ItemsNew, BeforeQuery, OnlyOpen,
         AddsActive, QuittersLeave

\* Every step of the only request keeps what it relies on.
LEMMA LoneKept ==
  ASSUME NEW w, Lone(w)
  PROVE  Inductive /\ AnswersHeld /\ LoneHeld /\ [Next]_vars => LoneHeld'
<1> SUFFICES ASSUME Inductive, AnswersHeld, LoneHeld, [Next]_vars PROVE LoneHeld'
  OBVIOUS
<1>1. w \in Workers /\ \A v \in Workers : v = w
  BY DEF Lone
<1>2. CASE Step(w)
  <2>1. HoldsNothing(w) /\ RoomHeld(w) /\ ItemsNew(w) /\ OnlyOpen(w) /\ AddsActive(w)
        /\ QuittersLeave(w) /\ AtMostTwo
    BY <1>1 DEF LoneHeld, AnswersHeld
  <2>2. /\ RoomHeld(w)' /\ ItemsNew(w)' /\ OnlyOpen(w)' /\ AddsActive(w)'
        /\ QuittersLeave(w)'
    BY <1>1, <1>2, <2>1, RoomStep, ItemsNewStep, OnlyOpenStep, AddsActiveStep,
       QuittersLeaveStep
  <2>3. ASSUME NEW p \in PRs PROVE Cardinality(Reviewers(db', p)) <= 2
    <3>1. CASE pc[w] = "commit" /\ db' = See(w)
      <4>1. Staying(w, p) = Reviewers(db', p)
        BY <3>1 DEF Staying, Leaving
      <4>2. /\ Cardinality(Staying(w, p) \cup Coming(w, p)) <= 2
            /\ Staying(w, p) \cup Coming(w, p) \subseteq Users
        BY <2>1, <3>1 DEF RoomHeld, Staying, Reviewers, Coming
      <4> QED
        BY <4>1, <4>2, FewEnough
    <3>2. CASE \A q \in PRs, u \in Users : db'[RevKey(q, u)] = db[RevKey(q, u)]
      <4>1. Reviewers(db', p) = Reviewers(db, p)
        BY <3>2 DEF Reviewers, Has
      <4> QED
        BY <2>1, <4>1 DEF AtMostTwo, WithinLimit
    <3> QED
      BY <1>1, <1>2, <3>1, <3>2, ReviewersChange
  <2> QED
    BY <1>1, <2>2, <2>3 DEF LoneHeld, AtMostTwo, WithinLimit
<1>3. CASE UNCHANGED vars
  <2>1. See(w)' = See(w)
    BY <1>3 DEF vars, See
  <2>2. pc' = pc /\ items' = items /\ todo' = todo /\ tx' = tx /\ req' = req /\ idx' = idx
    BY <1>3 DEF vars
  <2>3. Leaving(w)' = Leaving(w)
    BY <2>1, <2>2 DEF Leaving, Subject
  <2>4. \A p \in PRs : Staying(w, p)' = Staying(w, p) /\ Coming(w, p)' = Coming(w, p)
    BY <2>1, <2>2, <2>3 DEF Staying, Coming
  <2>5. RoomHeld(w)'
    BY <1>1, <2>2, <2>4 DEF LoneHeld, RoomHeld
  <2>6. ItemsNew(w)' /\ OnlyOpen(w)' /\ AddsActive(w)'
    BY <1>1, <2>1, <2>2 DEF LoneHeld, ItemsNew, OnlyOpen, AddsActive
  <2>7. QuittersLeave(w)'
    BY <1>1, <2>1, <2>2 DEF LoneHeld, QuittersLeave, Quitting
  <2>8. AtMostTwo'
    BY <1>3 DEF vars, LoneHeld, AtMostTwo
  <2> QED
    BY <1>1, <2>5, <2>6, <2>7, <2>8 DEF LoneHeld
<1> QED
  BY <1>1, <1>2, <1>3 DEF Next, Step, Terminating

\* Between the statements of a request that is alone, what it relies on holds.
THEOREM LoneInvariance ==
  ASSUME NEW w, Lone(w)
  PROVE  Spec => []LoneHeld
  BY LoneStarts, LoneKept, Invariance, AnswersInvariance, PTL DEF Spec

\* With one request at a time no pull request ever has more than two reviewers:
\* creation picks two, and every handover and reassignment replaces one by one.
THEOREM LimitKept ==
  ASSUME NEW w, Lone(w)
  PROVE  Spec => []AtMostTwo
<1>1. LoneHeld => AtMostTwo
  BY DEF LoneHeld
<1> QED
  BY <1>1, LoneInvariance, PTL

\* With one request at a time the reviewers of a merged pull request never
\* change: handovers and reassignments look at the status, and the status they
\* have seen is the one they commit on.
THEOREM MergedStayFrozen ==
  ASSUME NEW w, Lone(w)
  PROVE  Spec => MergedReviewersFrozen
<1> DEFINE Frozen == \A p \in PRs : Has(db, PRKey(p)) /\ ~IsOpen(db, p)
                                      => Reviewers(db', p) = Reviewers(db, p)
<1>1. ASSUME Inductive, LoneHeld, [Next]_vars PROVE [Frozen]_db
  <2>1. w \in Workers /\ \A v \in Workers : v = w
    BY DEF Lone
  <2>2. CASE Step(w)
    <3>1. SUFFICES ASSUME NEW p \in PRs, Has(db, PRKey(p)), ~IsOpen(db, p), NEW u \in Users
                   PROVE  db'[RevKey(p, u)] = db[RevKey(p, u)]
      BY DEF Reviewers, Has
    <3>2. CASE pc[w] = "commit" /\ db' = See(w)
      <4>1. tx[w][PRKey(p)] = Unwritten
        BY <1>1, <2>1, <3>1, KeysApart DEF Inductive, WritesLast, Has
      <4>2. ~IsOpen(See(w), p)
        BY <2>1, <3>1, <4>1, KeysApart, Seeing DEF IsOpen, Has
      <4>3. tx[w][RevKey(p, u)] = Unwritten
        BY <1>1, <2>1, <3>1, <3>2, <4>2 DEF LoneHeld, OnlyOpen
      <4> QED
        BY <2>1, <3>1, <3>2, <4>3, KeysApart, Seeing
    <3> QED
      BY <1>1, <2>1, <2>2, <3>1, <3>2, ReviewersChange
  <2>3. CASE UNCHANGED vars
    BY <2>3 DEF vars
  <2> QED
    BY <1>1, <2>1, <2>2, <2>3 DEF Next, Step, Terminating
<1> QED
  BY <1>1, Invariance, LoneInvariance, PTL DEF Spec, MergedReviewersFrozen

\* With one request at a time whoever becomes a reviewer is active once the
\* change is committed: no deactivation comes between choice and commit.
THEOREM NewcomersActive ==
  ASSUME NEW w, Lone(w)
  PROVE  Spec => NewReviewersActive
<1> DEFINE Active == \A p \in PRs : \A u \in Reviewers(db', p) \ Reviewers(db, p) :
                       db'[UserKey(u)].active
<1>1. ASSUME Inductive, LoneHeld, [Next]_vars PROVE [Active]_db
  <2>1. w \in Workers /\ \A v \in Workers : v = w
    BY DEF Lone
  <2>2. CASE Step(w)
    <3>1. SUFFICES ASSUME NEW p \in PRs, NEW u \in Users, Has(db', RevKey(p, u)),
                          ~Has(db, RevKey(p, u))
                   PROVE  db'[UserKey(u)].active
      BY DEF Reviewers
    <3>2. pc[w] = "commit" /\ db' = See(w)
      BY <1>1, <2>1, <2>2, <3>1, ReviewersChange DEF Has
    <3>3. tx[w][RevKey(p, u)] \notin {Absent, Unwritten}
      BY <2>1, <3>1, <3>2, KeysApart, Seeing DEF Has
    <3>4. tx[w][RevKey(p, u)] = Present
      BY <1>1, <2>1, <3>1, <3>3 DEF Inductive, TypeOK, RowsTyped, WellTyped
    <3> QED
      BY <1>1, <2>1, <3>1, <3>2, <3>4 DEF LoneHeld, AddsActive, IsActive
  <2>3. CASE UNCHANGED vars
    BY <2>3 DEF vars
  <2> QED
    BY <1>1, <2>1, <2>2, <2>3 DEF Next, Step, Terminating
<1> QED
  BY <1>1, Invariance, LoneInvariance, PTL DEF Spec, NewReviewersActive

\* With one request at a time a granted deactivation, of a user or of a team,
\* leaves the deactivated without open reviews.
THEOREM DeactivationCompletes ==
  ASSUME NEW v, Lone(v)
  PROVE  Spec => DeactivatedStepDown
<1> DEFINE Stepped == \A w \in Workers :
       /\ Granted(w, "SetActive") /\ ~req[w].active => OpenReviews(db', req[w].user) = {}
       /\ Granted(w, "DeactivateTeam") =>
            \A u \in TeamMembers(db', req[w].team) : OpenReviews(db', u) = {}
<1>1. ASSUME Inductive, LoneHeld, [Next]_vars PROVE Stepped
  <2>1. ASSUME NEW w \in Workers, Granted(w, "SetActive"), ~req[w].active
        PROVE  OpenReviews(db', req[w].user) = {}
    <3>1. pc[w] = "commit" /\ db' = See(w) /\ req[w].op = "SetActive"
      BY <1>1, <2>1, GrantedCommits
    <3>2. req[w].user \in Quitting(w)
      BY <2>1, <3>1 DEF Quitting
    <3> QED
      BY <1>1, <3>1, <3>2 DEF LoneHeld, QuittersLeave
  <2>2. ASSUME NEW w \in Workers, Granted(w, "DeactivateTeam")
        PROVE  \A u \in TeamMembers(db', req[w].team) : OpenReviews(db', u) = {}
    <3>1. pc[w] = "commit" /\ db' = See(w) /\ req[w].op = "DeactivateTeam"
      BY <1>1, <2>2, GrantedCommits
    <3>2. Quitting(w) = TeamMembers(db', req[w].team)
      BY <3>1 DEF Quitting
    <3> QED
      BY <1>1, <3>1, <3>2 DEF LoneHeld, QuittersLeave
  <2> QED
    BY <2>1, <2>2
<1>2. Spec => []LoneHeld
  BY LoneInvariance
<1> QED
  BY <1>1, <1>2, Invariance, PTL DEF Spec, DeactivatedStepDown
==============================================================================
