--------------------------- MODULE AssignmentProofs ---------------------------
(***************************************************************************)
(* What holds of AssignmentService for any number of workers, users,       *)
(* teams, pull requests, requests and faults.                              *)
(*                                                                         *)
(* The invariant that carries the proof is Inductive.  Its core is that    *)
(* every transaction, at every moment, sees a database in which no author  *)
(* reviews their own pull request (ViewsApart).  A commit makes the view   *)
(* of one transaction the background of all others; the two fit together   *)
(* because no transaction can have written the pull request row another    *)
(* has committed (WritesLast), and because the author a request compared a *)
(* candidate with cannot change before the candidate is written            *)
(* (SeenStays, ItemsApart).                                                *)
(*                                                                         *)
(* References stay in order too.  A row is found by one statement and      *)
(* referred to by a later one, with no lock in between; the reference      *)
(* holds all the same, because the rows referred to are of tables no       *)
(* transaction deletes from (LastingKeys): what one view has, it keeps     *)
(* (SeenStays), and what one transaction publishes, every other sees.      *)
(*                                                                         *)
(* Part 1  queries             Part 7   requests in progress               *)
(* Part 2  typed variables     Part 8   the theorems on authors            *)
(* Part 3  shapes of a step    Part 9   references, key by key             *)
(* Part 4  rows and locks      Part 10  views, commits and references      *)
(* Part 5  what a request      Part 11  what a request refers to           *)
(*         has found stays     Part 12  the theorems on references         *)
(* Part 6  authors and reviewers stay apart                                *)
(***************************************************************************)
EXTENDS AssignmentService, WellFoundedInduction, TLAPS

\* Counting starts somewhere: every set of numbers has a least one.
LEMMA NatMinimum ==
  ASSUME NEW T \in SUBSET Nat, T # {}
  PROVE  \E m \in T : \A k \in T : ~(k < m)
<1>1. \A x, y \in Nat : <<x, y>> \in OpToRel(<, Nat) <=> x < y
  BY Zenon DEF OpToRel
<1>2. \E m \in T : \A k \in T : ~(<<k, m>> \in OpToRel(<, Nat))
  BY WFMin, NatLessThanWellFounded, Zenon
<1> QED
  BY <1>1, <1>2

\* The primary keys of the four tables of deployments/init.sql differ from each
\* other, and a key determines its row's identity.
LEMMA KeysApart ==
  /\ \A t \in Teams : TeamKey(t) \in Keys /\ TeamKey(t) \in TeamKeys
  /\ \A u \in Users : UserKey(u) \in Keys /\ UserKey(u) \in UserKeys
  /\ \A p \in PRs : PRKey(p) \in Keys /\ PRKey(p) \in PRKeys
  /\ \A p \in PRs, u \in Users : RevKey(p, u) \in Keys /\ RevKey(p, u) \in RevKeys
  /\ \A t1 \in Teams, t2 \in Teams : TeamKey(t1) = TeamKey(t2) => t1 = t2
  /\ \A u1 \in Users, u2 \in Users : UserKey(u1) = UserKey(u2) => u1 = u2
  /\ \A q1 \in PRs, q2 \in PRs : PRKey(q1) = PRKey(q2) => q1 = q2
  /\ \A q1 \in PRs, q2 \in PRs, u1 \in Users, u2 \in Users :
        RevKey(q1, u1) = RevKey(q2, u2) => q1 = q2 /\ u1 = u2
  /\ \A t \in Teams, u \in Users : TeamKey(t) # UserKey(u)
  /\ \A t \in Teams, p \in PRs : TeamKey(t) # PRKey(p)
  /\ \A u \in Users, p \in PRs : UserKey(u) # PRKey(p)
  /\ \A t \in Teams, p \in PRs, u \in Users : TeamKey(t) # RevKey(p, u)
  /\ \A v \in Users, p \in PRs, u \in Users : UserKey(v) # RevKey(p, u)
  /\ \A q \in PRs, p \in PRs, u \in Users : PRKey(q) # RevKey(p, u)
<1>1. /\ \A t \in Teams : TeamKey(t) \in Keys /\ TeamKey(t) \in TeamKeys
      /\ \A u \in Users : UserKey(u) \in Keys /\ UserKey(u) \in UserKeys
      /\ \A p \in PRs : PRKey(p) \in Keys /\ PRKey(p) \in PRKeys
      /\ \A p \in PRs, u \in Users : RevKey(p, u) \in Keys /\ RevKey(p, u) \in RevKeys
  BY DEF Keys, TeamKeys, UserKeys, PRKeys, RevKeys
<1>2. /\ \A t1 \in Teams, t2 \in Teams : TeamKey(t1) = TeamKey(t2) => t1 = t2
      /\ \A u1 \in Users, u2 \in Users : UserKey(u1) = UserKey(u2) => u1 = u2
      /\ \A q1 \in PRs, q2 \in PRs : PRKey(q1) = PRKey(q2) => q1 = q2
      /\ \A q1 \in PRs, q2 \in PRs, u1 \in Users, u2 \in Users :
           RevKey(q1, u1) = RevKey(q2, u2) => q1 = q2 /\ u1 = u2
  BY DEF TeamKey, UserKey, PRKey, RevKey
<1>3. /\ \A t \in Teams, u \in Users : TeamKey(t) # UserKey(u)
      /\ \A t \in Teams, p \in PRs : TeamKey(t) # PRKey(p)
      /\ \A u \in Users, p \in PRs : UserKey(u) # PRKey(p)
  BY DEF TeamKey, UserKey, PRKey, RevKey
<1>4. /\ \A t \in Teams, p \in PRs, u \in Users : TeamKey(t) # RevKey(p, u)
      /\ \A v \in Users, p \in PRs, u \in Users : UserKey(v) # RevKey(p, u)
      /\ \A q \in PRs, p \in PRs, u \in Users : PRKey(q) # RevKey(p, u)
  BY DEF TeamKey, UserKey, PRKey, RevKey
<1> QED BY <1>1, <1>2, <1>3, <1>4

(***************************************************************************)
(* Part 1.  Queries return what their declarations say.                    *)
(***************************************************************************)
\* The requests a worker may take have one of the six forms, and the code's
\* first step for each belongs to its operation.
LEMMA RequestForms ==
  ASSUME NEW r \in Requests
  PROVE  /\ \/ r.op = "CreateTeam" /\ r.team \in Teams /\ r.members \in Seq(Member)
            \/ r.op = "DeactivateTeam" /\ r.team \in Teams
            \/ r.op = "SetActive" /\ r.user \in Users /\ r.active \in BOOLEAN
            \/ r.op = "CreatePR" /\ r.pr \in PRs /\ r.author \in Users
            \/ r.op = "Merge" /\ r.pr \in PRs
            \/ r.op = "Reassign" /\ r.pr \in PRs /\ r.old \in Users
         /\ FirstStep(r) \in StepsOf(r.op)
         /\ FirstStep(r) \in Steps \ {"done"}
<1>1. r \in RequestTypes
  BY RequestsTyped
<1>2. CASE r \in CreateTeamReq
  BY <1>2 DEF CreateTeamReq, FirstStep, StepsOf, Steps
<1>3. CASE r \in DeactivateTeamReq
  BY <1>3 DEF DeactivateTeamReq, FirstStep, StepsOf, Steps
<1>4. CASE r \in SetActiveReq
  BY <1>4 DEF SetActiveReq, FirstStep, StepsOf, Steps
<1>5. CASE r \in CreatePRReq
  BY <1>5 DEF CreatePRReq, FirstStep, StepsOf, Steps
<1>6. CASE r \in MergeReq
  BY <1>6 DEF MergeReq, FirstStep, StepsOf, Steps
<1>7. CASE r \in ReassignReq
  BY <1>7 DEF ReassignReq, FirstStep, StepsOf, Steps
<1> QED
  BY <1>1, <1>2, <1>3, <1>4, <1>5, <1>6, <1>7 DEF RequestTypes

\* A handover query returns pull requests with users who may review them.
LEMMA HandoverTyped ==
  ASSUME NEW s, NEW u, NEW found \in GetReassignmentCandidatesForReviewer(s, u)
  PROVE  /\ found \subseteq PRs \X Users
         /\ \A a \in found : Has(s, PRKey(a[1])) /\ s[PRKey(a[1])].author # a[2]
<1> DEFINE ps == {p \in OpenReviews(s, u) : HandoverCandidates(s, p, u) # {}}
<1>1. PICK f \in [ps -> Users] : /\ \A p \in ps : f[p] \in HandoverCandidates(s, p, u)
                                 /\ found = {<<p, f[p]>> : p \in ps}
  BY DEF GetReassignmentCandidatesForReviewer
<1>2. \A p \in ps : p \in PRs /\ Has(s, PRKey(p))
  BY DEF OpenReviews, IsOpen
<1>3. \A p \in ps : f[p] \in Users /\ f[p] # s[PRKey(p)].author
  BY <1>1 DEF HandoverCandidates, Candidates
<1> QED
  BY <1>1, <1>2, <1>3

(***************************************************************************)
(* Part 2.  A step of a worker keeps the variables other than rows typed.  *)
(***************************************************************************)
\* Next without the stuttering step at the end of a behaviour.
Step(w) == Serve(w) \/ Begin(w) \/ Cancel(w) \/ CommitLost(w)

\* The statements each endpoint's handler goes through, by name.
LEMMA StepForms ==
  /\ StepsOf("SetActive") = {"setActive", "lockUser", "candidates", "remove",
                             "removing", "add", "adding", "commit"}
  /\ StepsOf("CreateTeam") = {"candidates", "remove", "removing", "insertTeam",
                              "upsertUser", "add", "adding", "commit"}
  /\ StepsOf("DeactivateTeam") = {"deactivate", "deactivating", "teamExists",
                                  "removeTeam", "removing", "commit"}
  /\ StepsOf("CreatePR") = {"pick", "authorExists", "insertPR", "add", "adding", "commit"}
  /\ StepsOf("Merge") = {"merge", "mergeExists", "getMerged"}
  /\ StepsOf("Reassign") = {"reassign", "lockOld", "lockNew", "getReassigned", "commit"}
  BY DEF StepsOf

\* What a worker's step says of the request it serves.
LEMMA Serving ==
  ASSUME NEW w \in Workers, TypeOK, Settled(w), pc[w] # "done"
  PROVE  LET r == req[w] IN
         /\ r \in Requests
         /\ pc[w] \in {"setActive", "lockUser"} =>
              r.op = "SetActive" /\ r.user \in Users /\ r.active \in BOOLEAN
         /\ pc[w] \in {"insertTeam", "upsertUser"} =>
              r.op = "CreateTeam" /\ r.team \in Teams /\ r.members \in Seq(Member)
         /\ pc[w] \in {"deactivate", "deactivating", "teamExists", "removeTeam"} =>
              r.op = "DeactivateTeam" /\ r.team \in Teams
         /\ pc[w] \in {"pick", "authorExists", "insertPR"} =>
              r.op = "CreatePR" /\ r.pr \in PRs /\ r.author \in Users
         /\ pc[w] \in {"merge", "mergeExists", "getMerged"} =>
              r.op = "Merge" /\ r.pr \in PRs
         /\ pc[w] \in {"reassign", "lockOld", "lockNew", "getReassigned"} =>
              r.op = "Reassign" /\ r.pr \in PRs /\ r.old \in Users
         /\ pc[w] \in {"candidates", "remove"} => r.op \in {"SetActive", "CreateTeam"}
         /\ pc[w] = "removing" => r.op \in {"SetActive", "CreateTeam", "DeactivateTeam"}
         /\ pc[w] \in {"add", "adding"} => r.op \in {"SetActive", "CreateTeam", "CreatePR"}
<1>1. req[w] \in Requests /\ pc[w] \in StepsOf(req[w].op)
  BY DEF Settled, OnItsWay
<1> QED
  BY <1>1, StepForms, RequestForms

\* Answers with or without a pull request object have the type of openapi.yaml.
LEMMA AnswersTyped ==
  /\ \A code \in Codes : Answer(code, Absent) \in Answers
  /\ \A code \in Codes, b \in Body : Answer(code, b) \in Answers
  BY DEF Answer, Answers

\* The error path of transactor.Run leaves the local variables typed.
LEMMA FailTyped ==
  ASSUME LocalsTyped, NEW w \in Workers, NEW code \in Codes, Fail(w, code),
         UNCHANGED <<req, left, faults>>
  PROVE  LocalsTyped'
<1>1. Answer(code, Absent) \in Answers
  BY AnswersTyped
<1> QED
  BY <1>1 DEF LocalsTyped, Fail, Goto, Prepare, Steps

\* So does every step of every handler.
LEMMA LocalsStep ==
  ASSUME NEW w \in Workers, Inductive, Step(w)
  PROVE  LocalsTyped'
<1> USE DEF Inductive, TypeOK
<1> DEFINE Rest == UNCHANGED <<req, left, faults>>
<1>0. SUFFICES ASSUME Rest \/ Begin(w) \/ Cancel(w) \/ CommitLost(w) PROVE LocalsTyped'
  BY DEF Step, Serve
<1>1. CASE SetActive(w) /\ Rest
  <2>1. CASE Fail(w, "NOT_FOUND")
    BY <1>1, <2>1, FailTyped DEF Codes
  <2> QED
    BY <1>1, <2>1 DEF SetActive, LocalsTyped, Goto, Steps
<1>2. CASE LockUser(w) /\ Rest
  <2>1. CASE Fail(w, "NOT_FOUND")
    BY <1>2, <2>1, FailTyped DEF Codes
  <2>2. Answer("OK", Absent) \in Answers
    BY AnswersTyped DEF Codes
  <2> QED
    BY <1>2, <2>1, <2>2 DEF LockUser, LocalsTyped, Goto, Prepare, Steps
<1>3. CASE FindCandidates(w) /\ Rest
  <2>1. PICK found \in GetReassignmentCandidatesForReviewer(See(w), Subject(w)) :
          /\ items' = [items EXCEPT ![w] = @ \cup found]
          /\ \/ pc' = [pc EXCEPT ![w] = "remove"] /\ UNCHANGED idx
             \/ NextMember(w)
    BY <1>3 DEF FindCandidates, Goto
  <2>2. items[w] \cup found \in SUBSET (PRs \X Users)
    BY HandoverTyped DEF LocalsTyped
  <2>3. CASE NextMember(w)
    <3>1. /\ idx' \in [Workers -> Nat \ {0}]
          /\ pc' \in [Workers -> Steps]
      BY <2>3 DEF NextMember, LocalsTyped, Goto, Steps
    <3> QED
      BY <1>3, <2>1, <2>2, <3>1 DEF FindCandidates, LocalsTyped
  <2> QED
    BY <1>3, <2>1, <2>2, <2>3 DEF FindCandidates, LocalsTyped, Steps
<1>4. CASE Remove(w) /\ Rest
  <2>1. RemoveReviewerFromOpenPRs(See(w), Subject(w)) \subseteq Keys
    BY DEF RemoveReviewerFromOpenPRs, OpenReviews, Reviewers, Keys, RevKeys
  <2> QED
    BY <1>4, <2>1 DEF Remove, Choose, LocalsTyped, Goto, Steps
<1>5. CASE (RemoveRow(w) \/ AddRow(w) \/ DeactivateRow(w)) /\ Rest
  BY <1>5 DEF RemoveRow, AddRow, DeactivateRow, WriteRow, LocalsTyped
<1>6. CASE Removed(w) /\ Rest
  <2>1. CASE NextMember(w)
    <3>1. /\ idx' \in [Workers -> Nat \ {0}]
          /\ pc' \in [Workers -> Steps]
      BY <2>1 DEF NextMember, LocalsTyped, Goto, Steps
    <3> QED
      BY <1>6, <3>1 DEF Removed, LocalsTyped
  <2> QED
    BY <1>6, <2>1 DEF Removed, LocalsTyped, Goto, Steps
<1>7. CASE Add(w) /\ Rest
  <2>1. AddReviewers(See(w), items[w]) \subseteq Keys
    BY DEF AddReviewers, LocalsTyped, Keys, RevKeys
  <2> QED
    BY <1>7, <2>1 DEF Add, Proceed, Choose, LocalsTyped, Goto, Steps
<1>8. CASE (Added(w) \/ Deactivated(w)) /\ Rest
  BY <1>8 DEF Added, Deactivated, Proceed, LocalsTyped, Goto, Steps
<1>9. CASE InsertTeam(w) /\ Rest
  <2>1. CASE Fail(w, "TEAM_EXISTS")
    BY <1>9, <2>1, FailTyped DEF Codes
  <2>2. Answer("OK", Absent) \in Answers
    BY AnswersTyped DEF Codes
  <2> QED
    BY <1>9, <2>1, <2>2 DEF InsertTeam, LocalsTyped, Goto, Prepare, Steps
<1>10. CASE UpsertUser(w) /\ Rest
  BY <1>10 DEF UpsertUser, LocalsTyped, Goto, Steps
<1>11. CASE Deactivate(w) /\ Rest
  <2>1. {UserKey(u) : u \in ActiveMembers(See(w), req[w].team)} \subseteq Keys
    BY KeysApart DEF ActiveMembers, TeamMembers
  <2> QED
    BY <1>11, <2>1 DEF Deactivate, Choose, LocalsTyped, Goto, Steps
<1>12. CASE (TeamExists(w) \/ AuthorExists(w) \/ MergeExists(w)) /\ Rest
  <2>1. CASE Fail(w, "NOT_FOUND")
    BY <1>12, <2>1, FailTyped DEF Codes
  <2> QED
    BY <1>12, <2>1 DEF TeamExists, AuthorExists, MergeExists, Proceed, LocalsTyped, Goto, Steps
<1>13. CASE RemoveTeam(w) /\ Rest
  <2>1. RemoveTeamReviewersFromOpenPRs(See(w), req[w].team) \subseteq Keys
    BY KeysApart DEF RemoveTeamReviewersFromOpenPRs, RemoveReviewerFromOpenPRs,
                     OpenReviews, TeamMembers
  <2>2. Answer("OK", Absent) \in Answers
    BY AnswersTyped DEF Codes
  <2> QED
    BY <1>13, <2>1, <2>2 DEF RemoveTeam, LocalsTyped, Goto, Prepare, Steps
<1>14. CASE Pick(w) /\ Rest
  <2>1. PICK R \in GetTwoActiveTeamMembersByAuthorID(See(w), req[w].author) :
          /\ items' = [items EXCEPT ![w] = {<<req[w].pr, u>> : u \in R}]
          /\ Goto(w, IF R = {} THEN "authorExists" ELSE "insertPR")
    BY <1>14 DEF Pick
  <2>2. R \subseteq Users
    BY DEF GetTwoActiveTeamMembersByAuthorID, ActiveTeammates, ActiveMembers, TeamMembers
  <2>3. req[w].pr \in PRs
    BY <1>14, Serving DEF Pick
  <2> QED
    BY <1>14, <2>1, <2>2, <2>3 DEF Pick, LocalsTyped, Goto, Steps
<1>15. CASE InsertPR(w) /\ Rest
  <2>1. CASE Fail(w, "PR_EXISTS")
    BY <1>15, <2>1, FailTyped DEF Codes
  <2> DEFINE body == [status |-> "OPEN", merged_at |-> Absent,
                      reviewers |-> {u \in Users : <<req[w].pr, u>> \in items[w]}]
  <2>2. body \in Body
    BY DEF Body
  <2>3. Answer("OK", body) \in Answers
    BY <2>2, AnswersTyped DEF Codes
  <2> QED
    BY <1>15, <2>1, <2>3 DEF InsertPR, LocalsTyped, Goto, Prepare, Steps
<1>16. CASE Merge(w) /\ Rest
  BY <1>16 DEF Merge, Proceed, LocalsTyped, Goto, Steps
<1>17. CASE GetMerged(w) /\ Rest
  <2>1. db[PRKey(req[w].pr)] \in PRRow
    BY <1>17, Serving DEF GetMerged, Settled, FoundStays, Has, RowsTyped, WellTyped
  <2>2. GetByID(db, req[w].pr) \in Body
    BY <2>1 DEF GetByID, PRRow, Body, Reviewers
  <2>3. Answer("OK", GetByID(db, req[w].pr)) \in Answers
    BY <2>2, AnswersTyped DEF Codes
  <2> QED
    BY <1>17, <2>3 DEF GetMerged, LocalsTyped, Goto, Prepare, Steps
<1>18. CASE Reassign(w) /\ Rest
  <2>1. CASE \E code \in Codes : Fail(w, code)
    BY <1>18, <2>1, FailTyped
  <2>2. CASE ~ \E code \in Codes : Fail(w, code)
    <3>1. req[w].pr \in PRs /\ req[w].old \in Users
      BY <1>18, Serving DEF Reassign
    <3>2. PICK new \in ReassignCandidates(See(w), req[w].pr, req[w].old) :
            items' = [items EXCEPT ![w] = {<<req[w].pr, new>>}]
      BY <1>18, <2>2 DEF Reassign, Codes
    <3>3. new \in Users
      BY <3>2 DEF ReassignCandidates, Candidates, ActiveMembers, TeamMembers
    <3>4. RevKey(req[w].pr, req[w].old) \in Keys
      BY <3>1, KeysApart
    <3> QED
      BY <1>18, <2>2, <3>1, <3>2, <3>3, <3>4 DEF Reassign, Codes, LocalsTyped, Goto, Steps
  <2> QED
    BY <2>1, <2>2
<1>19. CASE (LockOld(w) \/ LockNew(w)) /\ Rest
  <2>1. CASE Fail(w, "INTERNAL_ERROR")
    BY <1>19, <2>1, FailTyped DEF Codes
  <2> QED
    BY <1>19, <2>1 DEF LockOld, LockNew, LocalsTyped, Goto, Steps
<1>20. CASE GetReassigned(w) /\ Rest
  <2>1. See(w)[PRKey(req[w].pr)] \in PRRow
    BY <1>20, Serving, KeysApart DEF GetReassigned, Settled, FoundStays, Has, RowsTyped, WellTyped, See
  <2>2. GetByID(See(w), req[w].pr) \in Body
    BY <2>1 DEF GetByID, PRRow, Body, Reviewers
  <2>3. Answer("OK", GetByID(See(w), req[w].pr)) \in Answers
    BY <2>2, AnswersTyped DEF Codes
  <2> QED
    BY <1>20, <2>3 DEF GetReassigned, LocalsTyped, Goto, Prepare, Steps
<1>21. CASE Publish(w) /\ UNCHANGED <<req, left>>
            /\ faults' \in 0 .. MaxFaults /\ res' \in [Workers -> Answers]
  BY <1>21 DEF Publish, LocalsTyped, Goto, Steps
<1>22. CASE DeadlockAbort(w) /\ Rest
  BY <1>22, FailTyped DEF DeadlockAbort, Codes
<1>23. CASE Begin(w)
  <2>1. PICK r \in Requests : /\ req' = [req EXCEPT ![w] = r]
                              /\ pc' = [pc EXCEPT ![w] = FirstStep(r)]
    BY <1>23 DEF Begin, Goto
  <2>2. NoAnswer \in Answers
    BY AnswersTyped DEF NoAnswer, Codes
  <2>3. FirstStep(r) \in Steps
    BY RequestForms
  <2> QED
    BY <1>23, <2>1, <2>2, <2>3, BoundsAreNat DEF Begin, LocalsTyped, Prepare
<1>24. CASE Cancel(w)
  <2>1. faults' \in 0 .. MaxFaults
    BY <1>24, BoundsAreNat DEF Cancel, LocalsTyped
  <2>2. Answer("INTERNAL_ERROR", Absent) \in Answers
    BY AnswersTyped DEF Codes
  <2> QED
    BY <1>24, <2>1, <2>2 DEF Cancel, Fail, LocalsTyped, Goto, Prepare, Steps
<1>25. CASE CommitLost(w)
  <2>1. faults' \in 0 .. MaxFaults
    BY <1>25, BoundsAreNat DEF CommitLost, LocalsTyped
  <2>2. Answer("INTERNAL_ERROR", Absent) \in Answers
    BY AnswersTyped DEF Codes
  <2>3. res' \in [Workers -> Answers]
    BY <1>25, <2>2 DEF CommitLost, Prepare, LocalsTyped
  <2> QED
    BY <1>25, <1>21, <2>1, <2>3 DEF CommitLost
<1>26. CASE Commit(w) /\ Rest
  BY <1>26, <1>21 DEF Commit, LocalsTyped
<1> QED
  BY <1>1, <1>2, <1>3, <1>4, <1>5, <1>6, <1>7, <1>8, <1>9, <1>10, <1>11, <1>12, <1>13,
     <1>14, <1>15, <1>16, <1>17, <1>18, <1>19, <1>20, <1>22, <1>23, <1>24, <1>25, <1>26
  DEF Step, Serve, Quiet

(***************************************************************************)
(* Part 3.  What a step does to the rows is one of five things.            *)
(***************************************************************************)
\* The rows a transaction may write: a new team, a user, a new pull request,
\* the removal of a reviewer, a reviewer other than the author.
Fits(w, k, row) ==
  \/ k \in TeamKeys /\ row = Present /\ ~Has(See(w), k)
  \/ k \in UserKeys /\ row \in UserRow
  \/ k \in PRKeys /\ row \in PRRow /\ ~Has(See(w), k)
  \/ k \in RevKeys /\ row = Absent
  \/ \E p \in PRs, u \in Users :
       /\ k = RevKey(p, u) /\ row = Present
       /\ Has(See(w), PRKey(p)) /\ See(w)[PRKey(p)].author # u

WritesNone   == tx' = tx /\ db' = db
WritesOne(w) == \E k \in Keys : \E row :
                  /\ Free(w, k) /\ Fits(w, k, row)
                  /\ tx' = [tx EXCEPT ![w][k] = row] /\ db' = db
Drops(w)     == tx' = [tx EXCEPT ![w] = NoWrites] /\ db' = db /\ pc'[w] = "done"
Merges       == \E p \in PRs, now \in Instants :
                  /\ IsOpen(db, p) /\ tx' = tx
                  /\ db' = [db EXCEPT ![PRKey(p)].status = "MERGED",
                                      ![PRKey(p)].merged_at = now]
Publishes(w) == /\ tx' = [tx EXCEPT ![w] = NoWrites] /\ db' = See(w)
                /\ pc'[w] = "done"

\* Seen through w's transaction, a row is what the transaction wrote, or else
\* the committed one.
LEMMA Seeing ==
  ASSUME NEW w \in Workers, NEW k \in Keys
  PROVE  See(w)[k] = IF tx[w][k] = Unwritten THEN db[k] ELSE tx[w][k]
  BY DEF See

\* The error path of transactor.Run drops every write of the transaction.
LEMMA FailDrops ==
  ASSUME NEW w \in Workers, NEW code, LocalsTyped, Fail(w, code), UNCHANGED db
  PROVE  Drops(w)
  BY DEF Fail, Drops, Goto, LocalsTyped

\* What a transaction sees is a database of typed rows.
LEMMA SeenTyped ==
  ASSUME RowsTyped, NEW w \in Workers
  PROVE  WellTyped(See(w), {Absent})
<1>1. \A u \in Users : See(w)[UserKey(u)] \in UserRow \cup {Absent}
  BY KeysApart, Seeing DEF RowsTyped, WellTyped
<1>2. \A p \in PRs : See(w)[PRKey(p)] \in PRRow \cup {Absent}
  BY KeysApart, Seeing DEF RowsTyped, WellTyped
<1>3. ASSUME NEW t \in Teams PROVE See(w)[TeamKey(t)] \in {Present, Absent}
  <2>1. /\ db[TeamKey(t)] \in {Present, Absent}
        /\ tx[w][TeamKey(t)] \in {Present, Absent, Unwritten}
    BY DEF RowsTyped, WellTyped
  <2> QED
    BY <2>1, KeysApart, Seeing
<1>4. ASSUME NEW p \in PRs, NEW u \in Users PROVE See(w)[RevKey(p, u)] \in {Present, Absent}
  <2>1. /\ db[RevKey(p, u)] \in {Present, Absent}
        /\ tx[w][RevKey(p, u)] \in {Present, Absent, Unwritten}
    BY DEF RowsTyped, WellTyped
  <2> QED
    BY <2>1, KeysApart, Seeing
<1>5. See(w) = [k \in Keys |-> See(w)[k]]
  BY DEF See
<1> QED
  BY <1>1, <1>2, <1>3, <1>4, <1>5 DEF WellTyped

\* Every step of every handler writes nothing, one fitting row, rolls back,
\* merges one open pull request, or commits.
LEMMA Shapes ==
  ASSUME NEW w \in Workers, Inductive, Step(w)
  PROVE  WritesNone \/ WritesOne(w) \/ Drops(w) \/ Merges \/ Publishes(w)
<1> USE DEF Inductive, TypeOK
<1>1. CASE (SetActive(w) \/ TeamExists(w) \/ AuthorExists(w) \/ MergeExists(w)) /\ UNCHANGED db
  <2>1. tx' = tx \/ Fail(w, "NOT_FOUND")
    BY <1>1 DEF SetActive, TeamExists, AuthorExists, MergeExists, Proceed
  <2> QED
    BY <1>1, <2>1, FailDrops DEF WritesNone
<1>2. CASE (FindCandidates(w) \/ Remove(w) \/ Removed(w) \/ Add(w) \/ Added(w)) /\ UNCHANGED db
  BY <1>2 DEF FindCandidates, Remove, Removed, Add, Added, Choose, Proceed, WritesNone
<1>3. CASE (Deactivate(w) \/ Deactivated(w) \/ RemoveTeam(w) \/ Pick(w)
              \/ GetMerged(w) \/ GetReassigned(w)) /\ UNCHANGED db
  BY <1>3 DEF Deactivate, Deactivated, RemoveTeam, Pick, GetMerged, GetReassigned,
              Choose, Proceed, WritesNone
<1>4. CASE LockUser(w) /\ UNCHANGED db
  <2> DEFINE k == UserKey(req[w].user)
             row == [See(w)[k] EXCEPT !.active = req[w].active]
  <2>1. CASE Fail(w, "NOT_FOUND")
    BY <1>4, <2>1, FailDrops
  <2>2. CASE Free(w, k) /\ tx' = [tx EXCEPT ![w][k] = row]
    <3>1. req[w].user \in Users /\ req[w].active \in BOOLEAN
      BY <1>4, Serving DEF LockUser
    <3>2. See(w)[k] \in UserRow
      BY <1>4, <3>1, SeenTyped DEF LockUser, Settled, FoundStays, Has, WellTyped
    <3>3. row \in UserRow
      BY <3>1, <3>2 DEF UserRow
    <3>4. k \in Keys /\ k \in UserKeys
      BY <3>1, KeysApart
    <3> HIDE DEF k, row
    <3> QED
      BY <1>4, <2>2, <3>3, <3>4 DEF WritesOne, Fits
  <2> QED
    BY <1>4, <2>1, <2>2 DEF LockUser, Put
<1>5. CASE RemoveRow(w) /\ UNCHANGED db
  <2>1. PICK k \in todo[w] : WriteRow(w, k, Absent)
    BY <1>5 DEF RemoveRow
  <2>2. k \in RevKeys /\ k \in Keys
    BY <1>5, <2>1 DEF RemoveRow, Settled, TodoInTable, Keys
  <2>3. Free(w, k) /\ tx' = [tx EXCEPT ![w][k] = Absent]
    BY <2>1, UnwrittenIsNoRow DEF WriteRow
  <2> QED
    BY <1>5, <2>2, <2>3 DEF WritesOne, Fits
<1>6. CASE AddRow(w) /\ UNCHANGED db
  <2>1. PICK k \in todo[w] :
          WriteRow(w, k, IF Has(See(w), k) THEN Unwritten ELSE Present)
    BY <1>6 DEF AddRow
  <2>2. CASE tx' = tx
    BY <1>6, <2>2 DEF WritesNone
  <2>3. CASE tx' = [tx EXCEPT ![w][k] = Present]
    <3>1. PICK a \in items[w] : k = RevKey(a[1], a[2])
      BY <1>6, <2>1 DEF AddRow, Settled, TodoInTable
    <3>2. a \in PRs \X Users
      BY <3>1 DEF LocalsTyped
    <3>3. Has(See(w), PRKey(a[1])) /\ See(w)[PRKey(a[1])].author # a[2]
      BY <1>6, <3>1 DEF AddRow, Settled, ItemsApart
    <3>4. k \in Keys /\ Free(w, k)
      BY <2>1, <3>1, <3>2, KeysApart DEF WriteRow
    <3>5. Fits(w, k, Present)
      BY <3>1, <3>2, <3>3 DEF Fits
    <3> QED
      BY <1>6, <2>3, <3>4, <3>5 DEF WritesOne
  <2> QED
    BY <2>1, <2>2, <2>3, UnwrittenIsNoRow DEF WriteRow
<1>7. CASE InsertTeam(w) /\ UNCHANGED db
  <2> DEFINE k == TeamKey(req[w].team)
  <2>1. CASE Fail(w, "TEAM_EXISTS")
    BY <1>7, <2>1, FailDrops
  <2>2. CASE Free(w, k) /\ ~Has(See(w), k) /\ Put(w, k, Present)
    <3>1. k \in Keys /\ k \in TeamKeys
      BY <1>7, Serving, KeysApart DEF InsertTeam
    <3> QED
      BY <1>7, <2>2, <3>1 DEF WritesOne, Fits, Put
  <2> QED
    BY <1>7, <2>1, <2>2 DEF InsertTeam
<1>8. CASE UpsertUser(w) /\ UNCHANGED db
  <2> DEFINE m == req[w].members[idx[w]]
  <2>1. req[w].team \in Teams /\ m \in Member
    BY <1>8, Serving DEF UpsertUser, Settled, AtMember
  <2>2. UserKey(m.user) \in Keys /\ UserKey(m.user) \in UserKeys
    BY <2>1, KeysApart DEF Member
  <2>3. [team |-> req[w].team, active |-> m.active] \in UserRow
    BY <2>1 DEF Member, UserRow
  <2> QED
    BY <1>8, <2>2, <2>3 DEF UpsertUser, Put, WritesOne, Fits
<1>9. CASE DeactivateRow(w) /\ UNCHANGED db
  <2> DEFINE row(k) == [See(w)[k] EXCEPT !.active = FALSE]
  <2>1. PICK k \in todo[w] :
          /\ Free(w, k)
          /\ \/ tx' = tx
             \/ /\ See(w)[k] = [team |-> req[w].team, active |-> TRUE]
                /\ tx' = [tx EXCEPT ![w][k] = row(k)]
    BY <1>9 DEF DeactivateRow, WriteRow
  <2>2. k \in UserKeys /\ k \in Keys
    BY <1>9, <2>1 DEF DeactivateRow, Settled, TodoInTable, Keys
  <2>3. req[w].team \in Teams
    BY <1>9, Serving DEF DeactivateRow
  <2>4. See(w)[k] = [team |-> req[w].team, active |-> TRUE] => row(k) \in UserRow
    <3>1. [team |-> req[w].team, active |-> TRUE] \in UserRow
      BY <2>3 DEF UserRow
    <3>2. \A user \in UserRow : [user EXCEPT !.active = FALSE] \in UserRow
      BY DEF UserRow
    <3> QED
      BY <3>1, <3>2
  <2> QED
    BY <1>9, <2>1, <2>2, <2>4 DEF WritesNone, WritesOne, Fits
<1>10. CASE InsertPR(w) /\ UNCHANGED db
  <2> DEFINE k == PRKey(req[w].pr)
             pr == [author |-> req[w].author, status |-> "OPEN", merged_at |-> Absent]
  <2>1. CASE Fail(w, "PR_EXISTS")
    BY <1>10, <2>1, FailDrops
  <2>2. CASE Free(w, k) /\ ~Has(See(w), k) /\ Put(w, k, pr)
    <3>1. /\ k \in Keys /\ k \in PRKeys
          /\ pr \in PRRow
      BY <1>10, Serving, KeysApart DEF InsertPR, PRRow
    <3> HIDE DEF pr
    <3> QED
      BY <1>10, <2>2, <3>1 DEF WritesOne, Fits, Put
  <2> QED
    BY <1>10, <2>1, <2>2 DEF InsertPR
<1>11. CASE Reassign(w) /\ UNCHANGED db
  <2>1. tx' = tx \/ \E code \in Codes : Fail(w, code)
    BY <1>11 DEF Reassign, Codes
  <2> QED
    BY <1>11, <2>1, FailDrops DEF WritesNone
<1>12. CASE LockOld(w) /\ UNCHANGED db
  <2>1. CASE Fail(w, "INTERNAL_ERROR")
    BY <1>12, <2>1, FailDrops
  <2>2. CASE \E k \in todo[w] : Free(w, k) /\ Put(w, k, Absent)
    <3>1. PICK k \in todo[w] : Free(w, k) /\ Put(w, k, Absent)
      BY <2>2
    <3>2. k \in RevKeys /\ k \in Keys
      BY <1>12, <3>1 DEF LockOld, Settled, TodoInTable, Keys
    <3> QED
      BY <1>12, <3>1, <3>2 DEF WritesOne, Fits, Put
  <2> QED
    BY <1>12, <2>1, <2>2 DEF LockOld
<1>13. CASE LockNew(w) /\ UNCHANGED db
  <2>1. PICK a \in items[w] :
          \/ Fail(w, "INTERNAL_ERROR")
          \/ Free(w, RevKey(a[1], a[2])) /\ Put(w, RevKey(a[1], a[2]), Present)
    BY <1>13 DEF LockNew
  <2>2. a \in PRs \X Users
    BY <2>1 DEF LocalsTyped
  <2>3. Has(See(w), PRKey(a[1])) /\ See(w)[PRKey(a[1])].author # a[2]
    BY <1>13, <2>1 DEF LockNew, Settled, ItemsApart
  <2>4. RevKey(a[1], a[2]) \in Keys /\ Fits(w, RevKey(a[1], a[2]), Present)
    BY <2>2, <2>3, KeysApart DEF Fits
  <2> QED
    BY <1>13, <2>1, <2>4, FailDrops DEF WritesOne, Put
<1>14. CASE Merge(w)
  <2>1. req[w].pr \in PRs
    BY <1>14, Serving DEF Merge
  <2> QED
    BY <1>14, <2>1 DEF Merge, Merges, WritesNone, Proceed
<1>15. CASE Publish(w)
  BY <1>15 DEF Publish, Publishes, Goto, LocalsTyped
<1>16. CASE DeadlockAbort(w)
  BY <1>16, FailDrops DEF DeadlockAbort
<1>17. CASE Begin(w)
  BY <1>17 DEF Begin, WritesNone
<1>18. CASE Cancel(w)
  BY <1>18, FailDrops DEF Cancel
<1> QED
  BY <1>1, <1>2, <1>3, <1>4, <1>5, <1>6, <1>7, <1>8, <1>9, <1>10, <1>11, <1>12, <1>13,
     <1>14, <1>15, <1>16, <1>17, <1>18 DEF Step, Serve, Quiet, Commit, CommitLost

(***************************************************************************)
(* Part 4.  Rows stay typed, locked by one transaction, and in place.      *)
(***************************************************************************)
\* The rows a table may hold under a key.
Typed(k, row) ==
  \/ k \in TeamKeys \cup RevKeys /\ row = Present
  \/ k \in UserKeys /\ row \in UserRow
  \/ k \in PRKeys /\ row \in PRRow

\* WellTyped, key by key.
LEMMA KeyWise ==
  ASSUME NEW s, NEW extra
  PROVE  WellTyped(s, extra) <=>
           /\ s = [k \in Keys |-> s[k]]
           /\ \A k \in Keys : s[k] \in extra \/ Typed(k, s[k])
<1>1. ASSUME WellTyped(s, extra), NEW k \in Keys
      PROVE  s[k] \in extra \/ Typed(k, s[k])
  <2>1. CASE k \in TeamKeys
    BY <1>1, <2>1 DEF WellTyped, Typed, TeamKeys
  <2>2. CASE k \in UserKeys
    BY <1>1, <2>2 DEF WellTyped, Typed, UserKeys
  <2>3. CASE k \in PRKeys
    BY <1>1, <2>3 DEF WellTyped, Typed, PRKeys
  <2>4. CASE k \in RevKeys
    BY <1>1, <2>4 DEF WellTyped, Typed, RevKeys
  <2> QED
    BY <2>1, <2>2, <2>3, <2>4 DEF Keys
<1>2. ASSUME s = [k \in Keys |-> s[k]],
             \A k \in Keys : s[k] \in extra \/ Typed(k, s[k])
      PROVE  WellTyped(s, extra)
  <2>1. ASSUME NEW t \in Teams PROVE s[TeamKey(t)] \in {Present} \cup extra
    <3>1. /\ TeamKey(t) \in Keys
          /\ TeamKey(t) \notin UserKeys /\ TeamKey(t) \notin PRKeys
      BY KeysApart DEF UserKeys, PRKeys
    <3> QED
      BY <1>2, <3>1 DEF Typed
  <2>2. ASSUME NEW u \in Users PROVE s[UserKey(u)] \in UserRow \cup extra
    <3>1. /\ UserKey(u) \in Keys
          /\ UserKey(u) \notin TeamKeys \cup RevKeys /\ UserKey(u) \notin PRKeys
      BY KeysApart DEF TeamKeys, RevKeys, PRKeys
    <3> QED
      BY <1>2, <3>1 DEF Typed
  <2>3. ASSUME NEW p \in PRs PROVE s[PRKey(p)] \in PRRow \cup extra
    <3>1. /\ PRKey(p) \in Keys
          /\ PRKey(p) \notin TeamKeys \cup RevKeys /\ PRKey(p) \notin UserKeys
      BY KeysApart DEF TeamKeys, RevKeys, UserKeys
    <3> QED
      BY <1>2, <3>1 DEF Typed
  <2>4. ASSUME NEW p \in PRs, NEW u \in Users PROVE s[RevKey(p, u)] \in {Present} \cup extra
    <3>1. /\ RevKey(p, u) \in Keys
          /\ RevKey(p, u) \notin UserKeys /\ RevKey(p, u) \notin PRKeys
      BY KeysApart DEF UserKeys, PRKeys
    <3> QED
      BY <1>2, <3>1 DEF Typed
  <2> QED
    BY <1>2, <2>1, <2>2, <2>3, <2>4 DEF WellTyped
<1>3. WellTyped(s, extra) => s = [k \in Keys |-> s[k]]
  BY DEF WellTyped
<1> QED
  BY <1>1, <1>2, <1>3

\* The four shapes a step gives tx, transaction by transaction, key by key.
LEMMA OneWritten ==
  ASSUME RowsTyped, NEW w \in Workers, NEW k \in Keys, NEW row,
         tx' = [tx EXCEPT ![w][k] = row]
  PROVE  /\ tx' = [v \in Workers |-> tx'[v]]
         /\ \A v \in Workers : tx'[v] = [j \in Keys |-> tx'[v][j]]
         /\ \A v \in Workers : v # w => tx'[v] = tx[v]
         /\ \A j \in Keys : tx'[w][j] = IF j = k THEN row ELSE tx[w][j]
<1>1. /\ tx = [v \in Workers |-> tx[v]]
      /\ \A v \in Workers : tx[v] = [j \in Keys |-> tx[v][j]]
  BY DEF RowsTyped, WellTyped
<1>2. tx'[w] = [tx[w] EXCEPT ![k] = row]
  BY <1>1
<1>3. /\ tx' = [v \in Workers |-> tx'[v]]
      /\ \A v \in Workers : v # w => tx'[v] = tx[v]
  BY <1>1
<1>4. tx'[w] = [j \in Keys |-> tx'[w][j]]
  BY <1>1, <1>2
<1> QED
  BY <1>1, <1>2, <1>3, <1>4

\* The end of a transaction, by commit or rollback, releases its rows.
LEMMA AllDropped ==
  ASSUME RowsTyped, NEW w \in Workers, tx' = [tx EXCEPT ![w] = NoWrites]
  PROVE  /\ tx' = [v \in Workers |-> tx'[v]]
         /\ \A v \in Workers : tx'[v] = [j \in Keys |-> tx'[v][j]]
         /\ \A v \in Workers : v # w => tx'[v] = tx[v]
         /\ \A j \in Keys : tx'[w][j] = Unwritten
  BY DEF RowsTyped, WellTyped, NoWrites

\* The UPDATE of a merge sets two columns of one row of pull_requests.
LEMMA OneMerged ==
  ASSUME RowsTyped, NEW p \in PRs, NEW now \in Instants, IsOpen(db, p),
         db' = [db EXCEPT ![PRKey(p)].status = "MERGED", ![PRKey(p)].merged_at = now]
  PROVE  /\ db' = [k \in Keys |-> db'[k]]
         /\ \A k \in Keys : k # PRKey(p) => db'[k] = db[k]
         /\ db[PRKey(p)] \in PRRow /\ db'[PRKey(p)] \in PRRow
         /\ db'[PRKey(p)].author = db[PRKey(p)].author
<1>1. db = [k \in Keys |-> db[k]] /\ db[PRKey(p)] \in PRRow
  BY DEF RowsTyped, WellTyped, IsOpen, Has
<1>2. PRKey(p) \in Keys
  BY KeysApart
<1>3. db'[PRKey(p)] = [db[PRKey(p)] EXCEPT !.status = "MERGED", !.merged_at = now]
  BY <1>1, <1>2
<1>4. /\ db' = [k \in Keys |-> db'[k]]
      /\ \A k \in Keys : k # PRKey(p) => db'[k] = db[k]
  BY <1>1, <1>2
<1>5. /\ db'[PRKey(p)] \in PRRow
      /\ db'[PRKey(p)].author = db[PRKey(p)].author
  <2>1. \A row \in PRRow : LET new == [row EXCEPT !.status = "MERGED", !.merged_at = now]
                           IN  new \in PRRow /\ new.author = row.author
    <3>1. \A row \in PRRow : LET r == [row EXCEPT !.status = "MERGED"]
                            IN  r \in PRRow /\ r.author = row.author
      BY DEF PRRow
    <3>2. \A row \in PRRow : LET r == [row EXCEPT !.merged_at = now]
                            IN  r \in PRRow /\ r.author = row.author
      BY DEF PRRow
    <3>3. \A row : [row EXCEPT !.status = "MERGED", !.merged_at = now]
                     = [[row EXCEPT !.status = "MERGED"] EXCEPT !.merged_at = now]
      OBVIOUS
    <3> QED
      BY <3>1, <3>2, <3>3
  <2> QED
    BY <1>1, <1>3, <2>1
<1> QED
  BY <1>1, <1>4, <1>5

\* Every step keeps the rows of all transactions and of the database typed.
LEMMA RowsStep ==
  ASSUME NEW w \in Workers, Inductive, Step(w)
  PROVE  RowsTyped'
<1> USE DEF Inductive, TypeOK
<1>1. CASE WritesNone
  BY <1>1 DEF WritesNone, RowsTyped, WellTyped
<1>2. CASE WritesOne(w)
  <2>1. PICK k \in Keys : \E row : /\ Fits(w, k, row)
                                   /\ tx' = [tx EXCEPT ![w][k] = row] /\ db' = db
    BY <1>2 DEF WritesOne
  <2>2. PICK row : /\ Fits(w, k, row)
                   /\ tx' = [tx EXCEPT ![w][k] = row] /\ db' = db
    BY <2>1
  <2>3. row = Absent \/ Typed(k, row)
    BY <2>2, KeysApart DEF Fits, Typed
  <2>4. WellTyped(tx'[w], {Absent, Unwritten})
    <3>1. \A j \in Keys : tx[w][j] \in {Absent, Unwritten} \/ Typed(j, tx[w][j])
      BY KeyWise DEF RowsTyped
    <3>2. \A j \in Keys : tx'[w][j] \in {Absent, Unwritten} \/ Typed(j, tx'[w][j])
      BY <2>2, <2>3, <3>1, OneWritten
    <3>3. tx'[w] = [j \in Keys |-> tx'[w][j]]
      BY <2>2, OneWritten
    <3> QED
      BY <3>2, <3>3, KeyWise
  <2>5. tx' = [v \in Workers |-> tx'[v]] /\ \A v \in Workers : v # w => tx'[v] = tx[v]
    BY <2>2, OneWritten
  <2>6. WellTyped(db', {Absent})
    BY <2>2 DEF RowsTyped
  <2> QED
    BY <2>4, <2>5, <2>6 DEF RowsTyped
<1>3. WellTyped(NoWrites, {Absent, Unwritten})
  BY KeysApart DEF WellTyped, NoWrites
<1>4. CASE Drops(w)
  BY <1>3, <1>4 DEF Drops, RowsTyped
<1>5. CASE Merges
  <2>1. PICK p \in PRs, now \in Instants :
          /\ IsOpen(db, p) /\ tx' = tx
          /\ db' = [db EXCEPT ![PRKey(p)].status = "MERGED",
                              ![PRKey(p)].merged_at = now]
    BY <1>5 DEF Merges
  <2>2. /\ db' = [k \in Keys |-> db'[k]]
        /\ \A k \in Keys : k # PRKey(p) => db'[k] = db[k]
        /\ db'[PRKey(p)] \in PRRow
    BY <2>1, OneMerged
  <2>3. \A k \in Keys : db[k] \in {Absent} \/ Typed(k, db[k])
    BY KeyWise DEF RowsTyped
  <2>4. \A k \in Keys : db'[k] \in {Absent} \/ Typed(k, db'[k])
    BY <2>2, <2>3, KeysApart DEF Typed
  <2>5. WellTyped(db', {Absent})
    BY <2>2, <2>4, KeyWise
  <2> QED
    BY <2>1, <2>5 DEF RowsTyped
<1>6. CASE Publishes(w)
  BY <1>3, <1>6, SeenTyped DEF Publishes, RowsTyped
<1> QED
  BY <1>1, <1>2, <1>4, <1>5, <1>6, Shapes

\* A row is written only when no other transaction has written it.
LEMMA LocksStep ==
  ASSUME NEW w \in Workers, Inductive, Step(w)
  PROVE  LocksExclusive'
<1> USE DEF Inductive, TypeOK
<1>1. CASE WritesNone \/ Merges
  <2>1. tx' = tx
    BY <1>1 DEF WritesNone, Merges
  <2> QED
    BY <2>1 DEF LocksExclusive
<1>2. CASE WritesOne(w)
  <2>1. PICK k \in Keys : \E row : /\ Free(w, k)
                                   /\ tx' = [tx EXCEPT ![w][k] = row]
    BY <1>2 DEF WritesOne
  <2>2. /\ \A v \in Workers : v # w => tx'[v] = tx[v] /\ tx'[v][k] = Unwritten
        /\ \A j \in Keys : j # k => tx'[w][j] = tx[w][j]
    BY <2>1, OneWritten DEF Free
  <2>3. SUFFICES ASSUME NEW u \in Workers, NEW v \in Workers, NEW j \in Keys, u # v,
                        tx'[u][j] # Unwritten, tx'[v][j] # Unwritten
                 PROVE  FALSE
    BY DEF LocksExclusive
  <2>4. CASE j = k
    BY <2>2, <2>3, <2>4
  <2>5. CASE j # k
    <3>1. tx'[u][j] = tx[u][j] /\ tx'[v][j] = tx[v][j]
      BY <2>2, <2>5
    <3> QED
      BY <2>3, <3>1 DEF LocksExclusive
  <2> QED
    BY <2>4, <2>5
<1>3. CASE Drops(w) \/ Publishes(w)
  <2>1. /\ \A v \in Workers : v # w => tx'[v] = tx[v]
        /\ \A j \in Keys : tx'[w][j] = Unwritten
    BY <1>3, AllDropped DEF Drops, Publishes
  <2> QED
    BY <2>1 DEF LocksExclusive
<1> QED
  BY <1>1, <1>2, <1>3, Shapes

\* No step deletes a team, a user or a pull request, or rewrites a team or a
\* pull request that another transaction may have committed meanwhile.
LEMMA WritesLastStep ==
  ASSUME NEW w \in Workers, Inductive, Step(w)
  PROVE  WritesLast'
<1> USE DEF Inductive, TypeOK
<1>1. CASE WritesNone
  BY <1>1 DEF WritesNone, WritesLast
<1>2. CASE WritesOne(w)
  <2>1. PICK k \in Keys : \E row : /\ Fits(w, k, row) /\ db' = db
                                   /\ tx' = [tx EXCEPT ![w][k] = row]
    BY <1>2 DEF WritesOne
  <2>2. PICK row : /\ Fits(w, k, row) /\ db' = db
                   /\ tx' = [tx EXCEPT ![w][k] = row]
    BY <2>1
  <2>3. /\ \A v \in Workers : v # w => tx'[v] = tx[v]
        /\ \A j \in Keys : tx'[w][j] = IF j = k THEN row ELSE tx[w][j]
    BY <2>2, OneWritten
  <2>4. k \in LastingKeys => row # Absent
    <3>1. k \in RevKeys => k \notin LastingKeys
      BY KeysApart DEF RevKeys, LastingKeys, TeamKeys, UserKeys, PRKeys
    <3>2. Present # Absent
      BY AbsentIsNoRow
    <3> QED
      BY <2>2, <3>1, <3>2, KeysApart, AbsentIsNoRow DEF Fits
  <2>5. k \in TeamKeys \cup PRKeys => db[k] = Absent
    <3>1. k \in TeamKeys \cup PRKeys => ~Has(See(w), k)
      BY <2>2, KeysApart DEF Fits, TeamKeys, PRKeys, UserKeys, RevKeys
    <3> QED
      BY <3>1, Seeing DEF Has, WritesLast, LastingKeys
  <2>6. LastingKeys \subseteq Keys
    BY DEF LastingKeys, Keys
  <2> QED
    BY <2>2, <2>3, <2>4, <2>5, <2>6 DEF WritesLast, LastingKeys
<1>3. CASE Drops(w)
  <2>1. /\ \A v \in Workers : v # w => tx'[v] = tx[v]
        /\ \A j \in Keys : tx'[w][j] = Unwritten
    BY <1>3, AllDropped DEF Drops
  <2>2. LastingKeys \subseteq Keys
    BY DEF LastingKeys, Keys
  <2> QED
    BY <1>3, <2>1, <2>2, UnwrittenIsNoRow DEF WritesLast, LastingKeys, Drops
<1>4. CASE Merges
  <2>1. PICK p \in PRs, now \in Instants :
          /\ IsOpen(db, p) /\ tx' = tx
          /\ db' = [db EXCEPT ![PRKey(p)].status = "MERGED",
                              ![PRKey(p)].merged_at = now]
    BY <1>4 DEF Merges
  <2>2. /\ \A k \in Keys : k # PRKey(p) => db'[k] = db[k]
        /\ db[PRKey(p)] # Absent
    BY <2>1, OneMerged DEF IsOpen, Has
  <2>3. LastingKeys \subseteq Keys
    BY DEF LastingKeys, Keys
  <2> QED
    BY <2>1, <2>2, <2>3 DEF WritesLast, LastingKeys
<1>5. CASE Publishes(w)
  <2>1. /\ \A v \in Workers : v # w => tx'[v] = tx[v]
        /\ \A j \in Keys : tx'[w][j] = Unwritten
    BY <1>5, AllDropped DEF Publishes
  <2>2. \A j \in Keys : tx[w][j] = Unwritten => db'[j] = db[j]
    BY <1>5, Seeing DEF Publishes
  <2>3. LastingKeys \subseteq Keys
    BY DEF LastingKeys, Keys
  <2> QED
    BY <2>1, <2>2, <2>3, UnwrittenIsNoRow DEF WritesLast, LastingKeys, LocksExclusive
<1> QED
  BY <1>1, <1>2, <1>3, <1>4, <1>5, Shapes

(***************************************************************************)
(* Part 5.  What a request has found stays, whoever takes the step.        *)
(***************************************************************************)
\* Seeing, after a step.
LEMMA SeeingNext ==
  ASSUME NEW v \in Workers, NEW k \in Keys
  PROVE  See(v)'[k] = IF tx'[v][k] = Unwritten THEN db'[k] ELSE tx'[v][k]
  BY DEF See

\* The three committed tables that only grow: no row is lost, a pull request
\* keeps its author, and its whole row once it is merged.
LEMMA CommittedStays ==
  ASSUME NEW w \in Workers, Inductive, Step(w)
  PROVE  /\ \A k \in LastingKeys : Has(db, k) => Has(db', k)
         /\ \A p \in PRs : Has(db, PRKey(p)) =>
              /\ db'[PRKey(p)].author = db[PRKey(p)].author
              /\ ~IsOpen(db, p) => db'[PRKey(p)] = db[PRKey(p)]
<1> USE DEF Inductive, TypeOK
<1>0. LastingKeys \subseteq Keys /\ \A p \in PRs : PRKey(p) \in LastingKeys
  BY KeysApart DEF LastingKeys, Keys
<1>1. CASE db' = db
  BY <1>1
<1>2. CASE Merges
  <2>1. PICK p \in PRs, now \in Instants :
          /\ IsOpen(db, p) /\ tx' = tx
          /\ db' = [db EXCEPT ![PRKey(p)].status = "MERGED",
                              ![PRKey(p)].merged_at = now]
    BY <1>2 DEF Merges
  <2>2. /\ \A k \in Keys : k # PRKey(p) => db'[k] = db[k]
        /\ db'[PRKey(p)] # Absent
        /\ db'[PRKey(p)].author = db[PRKey(p)].author
    BY <2>1, OneMerged, AbsentIsNoRow
  <2>3. \A q \in PRs : q # p => PRKey(q) # PRKey(p)
    BY KeysApart
  <2> QED
    BY <1>0, <2>1, <2>2, <2>3 DEF Has
<1>3. CASE Publishes(w)
  <2>1. \A k \in Keys : db'[k] = IF tx[w][k] = Unwritten THEN db[k] ELSE tx[w][k]
    BY <1>3, Seeing DEF Publishes
  <2>2. \A k \in LastingKeys : tx[w][k] # Absent
    BY DEF WritesLast
  <2>3. \A p \in PRs : Has(db, PRKey(p)) => tx[w][PRKey(p)] = Unwritten
    BY KeysApart DEF WritesLast, Has
  <2> QED
    BY <1>0, <2>1, <2>2, <2>3 DEF Has
<1> QED
  BY <1>1, <1>2, <1>3, Shapes DEF WritesNone, WritesOne, Drops

\* The same of what a transaction sees, until it is rolled back.
LEMMA SeenStays ==
  ASSUME NEW w \in Workers, Inductive, Step(w), NEW v \in Workers, v # w \/ ~Drops(w)
  PROVE  /\ \A k \in LastingKeys : Has(See(v), k) => Has(See(v)', k)
         /\ \A p \in PRs : Has(See(v), PRKey(p)) =>
              See(v)'[PRKey(p)].author = See(v)[PRKey(p)].author
<1> USE DEF Inductive, TypeOK
<1>0. LastingKeys \subseteq Keys /\ \A p \in PRs : PRKey(p) \in LastingKeys
  BY KeysApart DEF LastingKeys, Keys
<1>1. CASE tx'[v] = tx[v]
  <2>1. \A k \in LastingKeys : Has(See(v), k) => Has(See(v)', k)
    BY <1>0, <1>1, Seeing, SeeingNext, CommittedStays DEF Has
  <2>2. \A p \in PRs : Has(See(v), PRKey(p)) =>
          See(v)'[PRKey(p)].author = See(v)[PRKey(p)].author
    BY <1>0, <1>1, Seeing, SeeingNext, CommittedStays DEF Has
  <2> QED
    BY <2>1, <2>2
<1>2. CASE v = w /\ WritesOne(w)
  <2>1. PICK k \in Keys : \E row : /\ Fits(w, k, row) /\ db' = db
                                   /\ tx' = [tx EXCEPT ![w][k] = row]
    BY <1>2 DEF WritesOne
  <2>2. PICK row : /\ Fits(w, k, row) /\ db' = db
                   /\ tx' = [tx EXCEPT ![w][k] = row]
    BY <2>1
  <2>3. \A j \in Keys : tx'[w][j] = IF j = k THEN row ELSE tx[w][j]
    BY <2>2, OneWritten
  <2>4. \A j \in Keys : j # k => See(w)'[j] = See(w)[j]
    BY <2>2, <2>3, Seeing, SeeingNext
  <2>5. \A p \in PRs : k = PRKey(p) => ~Has(See(w), k)
    BY <2>2, KeysApart DEF Fits, TeamKeys, PRKeys, UserKeys, RevKeys
  <2>6. k \in LastingKeys => Has(See(w)', k)
    <3>1. k \in LastingKeys => row # Absent /\ row # Unwritten
      BY <2>2, KeysApart, AbsentIsNoRow, UnwrittenIsNoRow
      DEF Fits, LastingKeys, TeamKeys, PRKeys, UserKeys, RevKeys
    <3> QED
      BY <2>3, <3>1, SeeingNext DEF Has
  <2>7. \A j \in LastingKeys : Has(See(w), j) => Has(See(w)', j)
    BY <1>0, <2>4, <2>6 DEF Has
  <2>8. \A p \in PRs : Has(See(w), PRKey(p)) =>
          See(w)'[PRKey(p)].author = See(w)[PRKey(p)].author
    BY <1>0, <2>4, <2>5
  <2> QED
    BY <1>2, <2>7, <2>8
<1>3. CASE v = w /\ Publishes(w)
  <2>1. \A k \in Keys : See(w)'[k] = See(w)[k]
    BY <1>3, AllDropped, SeeingNext DEF Publishes
  <2> QED
    BY <1>0, <1>3, <2>1 DEF Has
<1>4. tx'[v] = tx[v] \/ (v = w /\ (WritesOne(w) \/ Publishes(w)))
  <2>1. CASE WritesNone \/ Merges
    BY <2>1 DEF WritesNone, Merges
  <2>2. CASE v # w /\ (WritesOne(w) \/ Drops(w) \/ Publishes(w))
    BY <2>2 DEF RowsTyped, WritesOne, Drops, Publishes
  <2> QED
    BY <2>1, <2>2, Shapes
<1> QED
  BY <1>1, <1>2, <1>3, <1>4

(***************************************************************************)
(* Part 6.  Nobody comes to review a pull request of their own.            *)
(***************************************************************************)
\* A commit publishes a view in which authors and reviewers are apart; a merge
\* changes neither.
LEMMA ApartStep ==
  ASSUME NEW w \in Workers, Inductive, Step(w)
  PROVE  NoSelfReview'
<1> USE DEF Inductive, TypeOK
<1>1. CASE db' = db
  BY <1>1 DEF NoSelfReview, AuthorsApart, Has
<1>2. CASE Merges
  <2>1. PICK q \in PRs, now \in Instants :
          /\ IsOpen(db, q) /\ tx' = tx
          /\ db' = [db EXCEPT ![PRKey(q)].status = "MERGED",
                              ![PRKey(q)].merged_at = now]
    BY <1>2 DEF Merges
  <2>2. \A k \in Keys : k # PRKey(q) => db'[k] = db[k]
    BY <2>1, OneMerged
  <2>3. \A p \in PRs, u \in Users : db'[RevKey(p, u)] = db[RevKey(p, u)]
    BY <2>2, KeysApart
  <2>4. \A p \in PRs : PRKey(p) \in LastingKeys
    BY KeysApart DEF LastingKeys
  <2> QED
    BY <2>3, <2>4, CommittedStays DEF NoSelfReview, AuthorsApart, Has
<1>3. CASE Publishes(w)
  BY <1>3 DEF Publishes, NoSelfReview, ViewsApart
<1> QED
  BY <1>1, <1>2, <1>3, Shapes DEF WritesNone, WritesOne, Drops

\* What each transaction sees stays apart, whoever writes, commits or fails.
LEMMA ViewsStep ==
  ASSUME NEW w \in Workers, Inductive, Step(w)
  PROVE  ViewsApart'
<1> USE DEF Inductive, TypeOK
<1>0. SUFFICES ASSUME NEW x \in Workers, NEW p \in PRs, NEW u \in Users,
                      Has(See(x)', RevKey(p, u))
               PROVE  Has(See(x)', PRKey(p)) /\ See(x)'[PRKey(p)].author # u
  BY DEF ViewsApart, AuthorsApart
<1>k. /\ PRKey(p) \in Keys /\ PRKey(p) \in LastingKeys /\ PRKey(p) \in PRKeys
      /\ RevKey(p, u) \in Keys
  BY KeysApart DEF LastingKeys
\* What x has seen of the pull request, it still sees.
<1>s. ASSUME x # w \/ ~Drops(w),
             Has(See(x), PRKey(p)), See(x)[PRKey(p)].author # u
      PROVE  Has(See(x)', PRKey(p)) /\ See(x)'[PRKey(p)].author # u
  BY <1>k, <1>s, SeenStays
<1>r. ASSUME x # w \/ ~Drops(w), Has(See(x), RevKey(p, u))
      PROVE  Has(See(x)', PRKey(p)) /\ See(x)'[PRKey(p)].author # u
  BY <1>r, <1>s DEF ViewsApart, AuthorsApart
<1>1. CASE WritesNone
  <2>1. See(x)'[RevKey(p, u)] = See(x)[RevKey(p, u)]
    BY <1>1, <1>k, Seeing, SeeingNext DEF WritesNone
  <2>2. CASE Drops(w)
    <3>1. See(x)'[PRKey(p)] = See(x)[PRKey(p)]
      BY <1>1, <1>k, Seeing, SeeingNext DEF WritesNone
    <3> QED
      BY <1>0, <2>1, <3>1 DEF Has, ViewsApart, AuthorsApart
  <2> QED
    BY <1>0, <1>r, <2>1, <2>2 DEF Has
<1>2. CASE WritesOne(w) /\ ~Drops(w)
  <2>1. PICK k \in Keys : \E row : /\ Fits(w, k, row) /\ db' = db
                                   /\ tx' = [tx EXCEPT ![w][k] = row]
    BY <1>2 DEF WritesOne
  <2>2. PICK row : /\ Fits(w, k, row) /\ db' = db
                   /\ tx' = [tx EXCEPT ![w][k] = row]
    BY <2>1
  <2>3. /\ \A v \in Workers : v # w => tx'[v] = tx[v]
        /\ \A j \in Keys : tx'[w][j] = IF j = k THEN row ELSE tx[w][j]
    <3>1. tx' = [tx EXCEPT ![w][k] = row]
      BY <2>2
    <3>2. \A v \in Workers : v # w => tx'[v] = tx[v]
      BY <3>1, OneWritten
    <3>3. \A j \in Keys : tx'[w][j] = IF j = k THEN row ELSE tx[w][j]
      BY <3>1, OneWritten
    <3> QED
      BY <3>2, <3>3
  <2>4. CASE x = w /\ k = RevKey(p, u)
    <3>1. See(w)'[k] = IF row = Unwritten THEN db[k] ELSE row
      BY <2>2, <2>3, SeeingNext
    <3>2. row # Absent
      BY <1>0, <2>4, <3>1, UnwrittenIsNoRow DEF Has
    <3>3. Has(See(w), PRKey(p)) /\ See(w)[PRKey(p)].author # u
      BY <2>2, <2>4, <3>2, KeysApart DEF Fits, TeamKeys, UserKeys, PRKeys
    <3> QED
      BY <1>2, <1>s, <2>4, <3>3
  <2>5. CASE ~(x = w /\ k = RevKey(p, u))
    <3>1. See(x)'[RevKey(p, u)] = See(x)[RevKey(p, u)]
      BY <1>k, <2>2, <2>3, <2>5, Seeing, SeeingNext
    <3> QED
      BY <1>0, <1>2, <1>r, <3>1 DEF Has
  <2> QED
    BY <2>4, <2>5
<1>3. CASE Drops(w)
  <2>1. /\ \A v \in Workers : v # w => tx'[v] = tx[v]
        /\ \A j \in Keys : tx'[w][j] = Unwritten
        /\ db' = db
    BY <1>3, AllDropped DEF Drops
  <2>2. CASE x = w
    <3>1. /\ See(x)'[RevKey(p, u)] = db[RevKey(p, u)]
          /\ See(x)'[PRKey(p)] = db[PRKey(p)]
      BY <1>k, <2>1, <2>2, SeeingNext
    <3> QED
      BY <1>0, <3>1 DEF Has, NoSelfReview, AuthorsApart
  <2>3. CASE x # w
    <3>1. See(x)'[RevKey(p, u)] = See(x)[RevKey(p, u)]
      BY <1>k, <2>1, <2>3, Seeing, SeeingNext
    <3> QED
      BY <1>0, <1>r, <2>3, <3>1 DEF Has
  <2> QED
    BY <2>2, <2>3
<1>4. CASE Merges /\ ~Drops(w)
  <2>1. PICK q \in PRs, now \in Instants :
          /\ IsOpen(db, q) /\ tx' = tx
          /\ db' = [db EXCEPT ![PRKey(q)].status = "MERGED",
                              ![PRKey(q)].merged_at = now]
    BY <1>4 DEF Merges
  <2>m. \A k \in Keys : k # PRKey(q) => db'[k] = db[k]
    BY <2>1, OneMerged
  <2>2. db'[RevKey(p, u)] = db[RevKey(p, u)]
    BY <1>k, <2>m, KeysApart
  <2>3. See(x)'[RevKey(p, u)] = See(x)[RevKey(p, u)]
    BY <1>k, <2>1, <2>2, Seeing, SeeingNext
  <2> QED
    BY <1>0, <1>4, <1>r, <2>3 DEF Has
<1>5. CASE Publishes(w) /\ ~Drops(w)
  <2>1. /\ \A v \in Workers : v # w => tx'[v] = tx[v]
        /\ \A j \in Keys : tx'[w][j] = Unwritten
        /\ db' = See(w)
    BY <1>5, AllDropped DEF Publishes
  <2>2. CASE x # w /\ tx[x][RevKey(p, u)] # Unwritten
    <3>1. See(x)'[RevKey(p, u)] = See(x)[RevKey(p, u)]
      BY <1>k, <2>1, <2>2, Seeing, SeeingNext
    <3> QED
      BY <1>0, <1>r, <2>2, <3>1 DEF Has
  <2>3. CASE x = w \/ tx[x][RevKey(p, u)] = Unwritten
    <3>1. See(x)'[RevKey(p, u)] = db'[RevKey(p, u)]
      BY <1>k, <2>1, <2>3, SeeingNext
    <3>2. Has(db', PRKey(p)) /\ db'[PRKey(p)].author # u
      BY <1>0, <3>1, ApartStep DEF Has, NoSelfReview, AuthorsApart
    \* x cannot have written the row of a pull request another committed.
    <3>3. tx'[x][PRKey(p)] = Unwritten
      BY <1>k, <3>2, WritesLastStep DEF WritesLast, Has
    <3>4. See(x)'[PRKey(p)] = db'[PRKey(p)]
      BY <1>k, <3>3, SeeingNext
    <3> QED
      BY <3>2, <3>4 DEF Has
  <2> QED
    BY <2>2, <2>3
<1> QED
  BY <1>1, <1>2, <1>3, <1>4, <1>5, Shapes

(***************************************************************************)
(* Part 7.  Every request in progress can rely on what it has found.       *)
(***************************************************************************)
\* A step of w leaves the local variables of another request alone; a commit
\* may take rows out of its todo.
LEMMA OthersKept ==
  ASSUME NEW w \in Workers, Inductive, Step(w), NEW v \in Workers, v # w
  PROVE  /\ pc'[v] = pc[v] /\ req'[v] = req[v] /\ items'[v] = items[v]
         /\ idx'[v] = idx[v] /\ todo'[v] \subseteq todo[v]
<1> USE DEF Inductive, TypeOK
<1> DEFINE Kept == /\ pc'[v] = pc[v] /\ items'[v] = items[v]
                   /\ idx'[v] = idx[v] /\ todo'[v] \subseteq todo[v]
<1>0. req'[v] = req[v]
  BY DEF Step, Serve, Begin, Cancel, CommitLost, LocalsTyped
<1>s. SUFFICES Kept
  BY <1>0
<1>1. CASE \E code : Fail(w, code)
  BY <1>1 DEF Fail, Goto, LocalsTyped
<1>2. CASE SetActive(w) \/ LockUser(w) \/ FindCandidates(w) \/ Remove(w)
  BY <1>1, <1>2 DEF SetActive, LockUser, FindCandidates, NextMember, Remove, Choose, Goto,
                    LocalsTyped
<1>3. CASE RemoveRow(w) \/ AddRow(w) \/ DeactivateRow(w)
  BY <1>3 DEF RemoveRow, AddRow, DeactivateRow, WriteRow, LocalsTyped
<1>4. CASE Removed(w) \/ Add(w) \/ Added(w) \/ InsertTeam(w) \/ UpsertUser(w)
  BY <1>1, <1>4 DEF Removed, NextMember, Add, Added, InsertTeam, UpsertUser, Choose, Proceed,
                    Goto, LocalsTyped
<1>5. CASE Deactivate(w) \/ Deactivated(w) \/ TeamExists(w) \/ RemoveTeam(w)
  BY <1>1, <1>5 DEF Deactivate, Deactivated, TeamExists, RemoveTeam, Choose, Proceed, Goto,
                    LocalsTyped
<1>6. CASE Pick(w) \/ AuthorExists(w) \/ InsertPR(w)
  BY <1>1, <1>6 DEF Pick, AuthorExists, InsertPR, Proceed, Goto, LocalsTyped
<1>7. CASE Merge(w) \/ MergeExists(w) \/ GetMerged(w)
  BY <1>1, <1>7 DEF Merge, MergeExists, GetMerged, Proceed, Goto, LocalsTyped
<1>8. CASE Reassign(w) \/ LockOld(w) \/ LockNew(w) \/ GetReassigned(w)
  BY <1>1, <1>8 DEF Reassign, LockOld, LockNew, GetReassigned, Goto, LocalsTyped
<1>9. CASE Publish(w)
  BY <1>9 DEF Publish, Goto, LocalsTyped
<1>10. CASE Begin(w)
  BY <1>10 DEF Begin, Goto, LocalsTyped
<1> QED
  BY <1>1, <1>2, <1>3, <1>4, <1>5, <1>6, <1>7, <1>8, <1>9, <1>10
  DEF Step, Serve, Quiet, DeadlockAbort, Commit, Cancel, CommitLost

\* A request whose local variables stand still, its own or not, stays settled
\* until it is rolled back.
LEMMA StillSettled ==
  ASSUME NEW w \in Workers, Inductive, Step(w), NEW v \in Workers, v # w \/ ~Drops(w),
         pc'[v] = pc[v], req'[v] = req[v], items'[v] = items[v],
         idx'[v] = idx[v], todo'[v] \subseteq todo[v]
  PROVE  Settled(v)'
<1> USE DEF Inductive, TypeOK
<1>1. /\ pc'[v] = pc[v] /\ req'[v] = req[v] /\ items'[v] = items[v]
      /\ idx'[v] = idx[v] /\ todo'[v] \subseteq todo[v]
  OBVIOUS
<1>2. OnItsWay(v)' /\ AtMember(v)' /\ TodoInTable(v)'
  BY <1>1 DEF Settled, OnItsWay, AtMember, TodoInTable
<1>3. /\ \A u \in Users : UserKey(u) \in LastingKeys
      /\ \A p \in PRs : PRKey(p) \in LastingKeys
  BY KeysApart DEF LastingKeys
<1>4. FoundStays(v)'
  <2>1. pc[v] = "lockUser" => req[v].user \in Users
    BY Serving
  <2>2. pc[v] \in {"getMerged", "lockOld", "lockNew", "getReassigned"} => req[v].pr \in PRs
    BY Serving
  <2>3. pc[v] = "lockUser" => Has(See(v)', UserKey(req[v].user))
    BY <1>3, <2>1, SeenStays DEF Settled, FoundStays
  <2>4. pc[v] = "getMerged" => Has(db', PRKey(req[v].pr))
    BY <1>3, <2>2, CommittedStays DEF Settled, FoundStays
  <2>5. pc[v] \in {"lockOld", "lockNew", "getReassigned"} => Has(See(v)', PRKey(req[v].pr))
    BY <1>3, <2>2, SeenStays DEF Settled, FoundStays
  <2> QED
    BY <1>1, <2>3, <2>4, <2>5 DEF FoundStays, Has
<1>5. ItemsApart(v)'
  <2>1. SUFFICES ASSUME pc[v] \notin {"done", "pick", "authorExists", "insertPR"},
                        NEW a \in items[v]
                 PROVE  Has(See(v)', PRKey(a[1])) /\ See(v)'[PRKey(a[1])].author # a[2]
    BY <1>1 DEF ItemsApart, Settled, Has
  <2>2. Has(See(v), PRKey(a[1])) /\ See(v)[PRKey(a[1])].author # a[2]
    BY <2>1 DEF ItemsApart, Settled
  <2>3. a[1] \in PRs
    BY DEF LocalsTyped
  <2> QED
    BY <1>3, <2>2, <2>3, SeenStays
<1> QED
  BY <1>2, <1>4, <1>5 DEF Settled

\* The request w serves is settled again after its own step.
LEMMA OwnSettled ==
  ASSUME NEW w \in Workers, Inductive, Step(w)
  PROVE  Settled(w)'
<1> USE DEF Inductive, TypeOK
<1> DEFINE Choosing == {"pick", "authorExists", "insertPR"}
           Here == /\ OnItsWay(w)' /\ FoundStays(w)' /\ AtMember(w)' /\ TodoInTable(w)'
<1>1. CASE Begin(w)
  <2>1. PICK r \in Requests : /\ req' = [req EXCEPT ![w] = r]
                              /\ pc' = [pc EXCEPT ![w] = FirstStep(r)]
    BY <1>1 DEF Begin, Goto
  <2>2. /\ req'[w] = r /\ pc'[w] = FirstStep(r) /\ items'[w] = {} /\ idx'[w] = 1
    BY <1>1, <2>1 DEF Begin, LocalsTyped
  <2>3. FirstStep(r) \in StepsOf(r.op)
    BY RequestForms
  <2>4. FirstStep(r) \in {"setActive", "deactivate", "pick", "merge", "reassign",
                          "insertTeam", "candidates"}
    BY RequestForms DEF FirstStep
  <2>5. FirstStep(r) = "candidates" =>
          r.op = "CreateTeam" /\ r.members \in Seq(Member) /\ r.members # <<>>
    BY RequestForms DEF FirstStep
  <2>6. FirstStep(r) = "candidates" => 1 \in 1 .. Len(r.members)
    BY <2>5
  <2>7. OnItsWay(w)' /\ FoundStays(w)' /\ TodoInTable(w)' /\ ItemsApart(w)'
    BY <2>2, <2>3, <2>4 DEF OnItsWay, FoundStays, TodoInTable, ItemsApart
  <2>8. AtMember(w)'
    BY <2>2, <2>4, <2>6 DEF AtMember
  <2> QED
    BY <2>7, <2>8 DEF Settled
<1>2. CASE pc'[w] = "done"
  BY <1>2 DEF Settled, OnItsWay, FoundStays, AtMember, TodoInTable, ItemsApart
<1>3. SUFFICES ASSUME pc'[w] # "done", ~Begin(w)
               PROVE  Settled(w)'
  BY <1>1, <1>2
<1>4. ~Drops(w) /\ \A code : ~Fail(w, code)
  BY <1>3 DEF Drops, Fail, Goto, LocalsTyped
<1>5. (Quiet(w) /\ UNCHANGED db) \/ Merge(w)
  BY <1>3, <1>4 DEF Step, Serve, DeadlockAbort, Commit, Cancel, CommitLost, Publish, Goto,
                    LocalsTyped
<1>6. req'[w] = req[w]
  BY <1>3 DEF Step, Serve, Begin, Cancel, CommitLost
<1>7. pc[w] # "done" /\ OnItsWay(w)
  BY <1>5 DEF Settled, Quiet, Merge, SetActive, LockUser, FindCandidates, Remove, RemoveRow,
     Removed, Add, AddRow, Added, InsertTeam, UpsertUser, Deactivate, DeactivateRow,
     Deactivated, TeamExists, RemoveTeam, Pick, AuthorExists, InsertPR, MergeExists,
     GetMerged, Reassign, LockOld, LockNew, GetReassigned
<1> DEFINE r == req[w]
\* Outside CreatePR the assignments kept in memory stay right.
<1>8. ASSUME pc[w] \notin Choosing, pc'[w] \notin Choosing, items'[w] \subseteq items[w]
      PROVE  ItemsApart(w)'
  <2>1. SUFFICES ASSUME NEW a \in items'[w]
                 PROVE  Has(See(w)', PRKey(a[1])) /\ See(w)'[PRKey(a[1])].author # a[2]
    BY <1>8 DEF ItemsApart, Has
  <2>2. Has(See(w), PRKey(a[1])) /\ See(w)[PRKey(a[1])].author # a[2]
    BY <1>7, <1>8 DEF ItemsApart, Settled
  <2>3. a[1] \in PRs
    BY <1>8 DEF LocalsTyped
  <2> QED
    BY <1>4, <2>2, <2>3, SeenStays, KeysApart DEF LastingKeys
<1>9. ASSUME NEW p \in PRs, Has(See(w), PRKey(p)) PROVE Has(See(w)', PRKey(p))
  BY <1>4, <1>9, SeenStays, KeysApart DEF LastingKeys
<1>10. CASE SetActive(w)
  <2>1. /\ pc[w] = "setActive" /\ pc'[w] = "lockUser" /\ items' = items
        /\ Has(See(w), UserKey(r.user)) /\ tx' = tx
    BY <1>4, <1>10 DEF SetActive, Goto, LocalsTyped
  <2>2. r.op = "SetActive" /\ r.user \in Users
    BY <1>7, <2>1, Serving
  <2>3. Has(See(w)', UserKey(r.user))
    BY <1>4, <2>1, <2>2, SeenStays, KeysApart DEF LastingKeys
  <2>4. Here
    BY <1>6, <1>7, <2>1, <2>2, <2>3, StepForms
    DEF OnItsWay, FoundStays, AtMember, TodoInTable, Has
  <2> QED
    BY <1>8, <2>1, <2>4 DEF Settled
<1>11. CASE LockUser(w)
  <2>1. /\ pc[w] = "lockUser" /\ pc'[w] \in {"commit", "candidates"} /\ items' = items
    BY <1>4, <1>11 DEF LockUser, Goto, LocalsTyped
  <2>2. r.op = "SetActive"
    BY <1>7, <2>1, Serving
  <2>3. Here
    BY <1>6, <2>1, <2>2, <1>7, StepForms DEF OnItsWay, FoundStays, AtMember, TodoInTable
  <2> QED
    BY <1>8, <2>1, <2>3 DEF Settled
<1>12. CASE RemoveRow(w) \/ AddRow(w) \/ DeactivateRow(w)
  <2>1. /\ pc' = pc /\ items' = items /\ idx' = idx /\ todo'[w] \subseteq todo[w]
    BY <1>12 DEF RemoveRow, AddRow, DeactivateRow, WriteRow, LocalsTyped
  <2> QED
    BY <1>4, <1>6, <2>1, StillSettled
<1>13. CASE Remove(w)
  <2>1. /\ pc[w] = "remove" /\ pc'[w] = "removing" /\ items' = items /\ idx' = idx
        /\ todo'[w] = RemoveReviewerFromOpenPRs(See(w), Subject(w))
    BY <1>13 DEF Remove, Choose, Goto, LocalsTyped
  <2>2. r.op \in {"SetActive", "CreateTeam"}
    BY <1>7, <2>1, Serving
  <2>3. RemoveReviewerFromOpenPRs(See(w), Subject(w)) \subseteq RevKeys
    BY DEF RemoveReviewerFromOpenPRs, OpenReviews, Reviewers, RevKeys
  <2>4. Here
    BY <1>6, <2>1, <2>2, <2>3, <1>7, StepForms
    DEF Settled, OnItsWay, FoundStays, AtMember, TodoInTable
  <2> QED
    BY <1>8, <2>1, <2>4 DEF Settled
<1>14. CASE RemoveTeam(w)
  <2>1. /\ pc[w] = "removeTeam" /\ pc'[w] = "removing" /\ items' = items
        /\ todo'[w] = RemoveTeamReviewersFromOpenPRs(See(w), r.team)
    BY <1>14 DEF RemoveTeam, Goto, LocalsTyped
  <2>2. r.op = "DeactivateTeam"
    BY <1>7, <2>1, Serving
  <2>3. RemoveTeamReviewersFromOpenPRs(See(w), r.team) \subseteq RevKeys
    BY KeysApart DEF RemoveTeamReviewersFromOpenPRs, RemoveReviewerFromOpenPRs,
                     OpenReviews, TeamMembers
  <2>4. Here
    BY <1>6, <2>1, <2>2, <2>3, <1>7, StepForms
    DEF OnItsWay, FoundStays, AtMember, TodoInTable
  <2> QED
    BY <1>8, <2>1, <2>4 DEF Settled
\* The loops over the members of a new team.
<1>15. ASSUME r.op = "CreateTeam", idx[w] \in 1 .. Len(r.members), NextMember(w),
              pc[w] \in {"candidates", "removing"}
       PROVE  Here /\ pc'[w] \in {"candidates", "insertTeam"}
  <2>1. CASE idx[w] >= Len(r.members)
    <3>1. pc'[w] = "insertTeam" /\ idx'[w] = 1
      BY <1>15, <2>1 DEF NextMember, Goto, LocalsTyped
    <3> QED
      BY <1>6, <1>7, <1>15, <3>1, StepForms DEF OnItsWay, FoundStays, AtMember, TodoInTable
  <2>2. CASE ~(idx[w] >= Len(r.members))
    <3>1. pc'[w] = "candidates" /\ idx'[w] = idx[w] + 1
      BY <1>15, <2>2 DEF NextMember, Goto, LocalsTyped
    <3>2. r.members \in Seq(Member)
      BY <1>7, <1>15, RequestForms DEF OnItsWay
    <3>3. idx'[w] \in 1 .. Len(r.members)
      BY <1>15, <2>2, <3>1, <3>2
    <3> QED
      BY <1>6, <1>7, <1>15, <3>1, <3>3, StepForms
      DEF OnItsWay, FoundStays, AtMember, TodoInTable
  <2> QED
    BY <2>1, <2>2
<1>16. CASE FindCandidates(w)
  <2>1. PICK found \in GetReassignmentCandidatesForReviewer(See(w), Subject(w)) :
          /\ items' = [items EXCEPT ![w] = @ \cup found]
          /\ \/ pc' = [pc EXCEPT ![w] = "remove"] /\ UNCHANGED idx
             \/ r.op = "CreateTeam" /\ NextMember(w)
    BY <1>16 DEF FindCandidates, Goto
  <2>2. pc[w] = "candidates" /\ r.op \in {"SetActive", "CreateTeam"} /\ tx' = tx /\ db' = db
    BY <1>3, <1>5, <1>7, <1>16, Serving DEF FindCandidates, Merge
  <2>3. r.op = "CreateTeam" => idx[w] \in 1 .. Len(r.members)
    BY <2>2 DEF Settled, AtMember
  <2>4. Here /\ pc'[w] \notin Choosing
    <3>1. CASE pc' = [pc EXCEPT ![w] = "remove"] /\ UNCHANGED idx
      <4>1. pc'[w] = "remove" /\ idx'[w] = idx[w]
        BY <3>1 DEF LocalsTyped
      <4> QED
        BY <1>6, <1>7, <2>2, <2>3, <4>1, StepForms
        DEF OnItsWay, FoundStays, AtMember, TodoInTable
    <3>2. CASE r.op = "CreateTeam" /\ NextMember(w)
      BY <1>15, <2>2, <2>3, <3>2
    <3> QED
      BY <2>1, <3>1, <3>2
  <2>5. ItemsApart(w)'
    <3>1. items'[w] = items[w] \cup found
      BY <2>1 DEF LocalsTyped
    <3>2. See(w)' = See(w)
      BY <2>2 DEF See
    <3>3. \A a \in items[w] : Has(See(w), PRKey(a[1])) /\ See(w)[PRKey(a[1])].author # a[2]
      BY <2>2 DEF Settled, ItemsApart
    <3>4. \A a \in found : Has(See(w), PRKey(a[1])) /\ See(w)[PRKey(a[1])].author # a[2]
      BY HandoverTyped
    <3> QED
      BY <2>4, <3>1, <3>2, <3>3, <3>4 DEF ItemsApart, Has
  <2> QED
    BY <2>4, <2>5 DEF Settled
<1>17. CASE Removed(w)
  <2>1. /\ pc[w] = "removing" /\ items' = items
        /\ \/ r.op = "SetActive" /\ Goto(w, "add")
           \/ r.op = "CreateTeam" /\ NextMember(w)
           \/ r.op = "DeactivateTeam" /\ Goto(w, "commit")
    BY <1>17 DEF Removed
  <2>2. Here /\ pc'[w] \notin Choosing
    <3>1. CASE r.op = "SetActive" /\ Goto(w, "add")
      <4>1. pc'[w] = "add"
        BY <3>1 DEF Goto, LocalsTyped
      <4> QED
        BY <1>6, <1>7, <3>1, <4>1, StepForms DEF OnItsWay, FoundStays, AtMember, TodoInTable
    <3>2. CASE r.op = "CreateTeam" /\ NextMember(w)
      BY <1>15, <2>1, <3>2 DEF Settled, AtMember
    <3>3. CASE r.op = "DeactivateTeam" /\ Goto(w, "commit")
      <4>1. pc'[w] = "commit"
        BY <3>3 DEF Goto, LocalsTyped
      <4> QED
        BY <1>6, <1>7, <3>3, <4>1, StepForms DEF OnItsWay, FoundStays, AtMember, TodoInTable
    <3> QED
      BY <2>1, <3>1, <3>2, <3>3
  <2> QED
    BY <1>8, <2>1, <2>2 DEF Settled
<1>18. CASE Add(w)
  <2>1. /\ pc[w] = "add" /\ items' = items
        /\ \/ pc'[w] = "commit"
           \/ pc'[w] = "adding" /\ todo'[w] = AddReviewers(See(w), items[w])
    BY <1>18 DEF Add, Proceed, Choose, Goto, LocalsTyped
  <2>2. r.op \in {"SetActive", "CreateTeam", "CreatePR"}
    BY <1>7, <2>1, Serving
  <2>3. AddReviewers(See(w), items[w]) \subseteq {RevKey(a[1], a[2]) : a \in items[w]}
    BY DEF AddReviewers
  <2>4. Here
    BY <1>6, <1>7, <2>1, <2>2, <2>3, StepForms
    DEF OnItsWay, FoundStays, AtMember, TodoInTable
  <2> QED
    BY <1>8, <2>1, <2>4 DEF Settled
<1>19. CASE Added(w)
  <2>1. pc[w] = "adding" /\ pc'[w] = "commit" /\ items' = items
    BY <1>19 DEF Added, Proceed, Goto, LocalsTyped
  <2>2. r.op \in {"SetActive", "CreateTeam", "CreatePR"}
    BY <1>7, <2>1, Serving
  <2>3. Here
    BY <1>6, <1>7, <2>1, <2>2, StepForms DEF OnItsWay, FoundStays, AtMember, TodoInTable
  <2> QED
    BY <1>8, <2>1, <2>3 DEF Settled
<1>20. CASE InsertTeam(w)
  <2>1. /\ pc[w] = "insertTeam" /\ items' = items /\ idx' = idx
        /\ pc'[w] = IF r.members = <<>> THEN "add" ELSE "upsertUser"
    BY <1>4, <1>20 DEF InsertTeam, Goto, LocalsTyped
  <2>2. r.op = "CreateTeam" /\ r.members \in Seq(Member)
    BY <1>7, <2>1, Serving
  <2>3. idx[w] = 1
    BY <2>1 DEF Settled, AtMember
  <2>4. r.members # <<>> => 1 \in 1 .. Len(r.members)
    BY <2>2
  <2>5. Here
    BY <1>6, <1>7, <2>1, <2>2, <2>3, <2>4, StepForms
    DEF OnItsWay, FoundStays, AtMember, TodoInTable
  <2> QED
    BY <1>8, <2>1, <2>5 DEF Settled
<1>21. CASE UpsertUser(w)
  <2> DEFINE last == idx[w] = Len(r.members)
  <2>1. /\ pc[w] = "upsertUser" /\ items' = items
        /\ pc'[w] = IF last THEN "add" ELSE "upsertUser"
        /\ idx'[w] = IF last THEN idx[w] ELSE idx[w] + 1
    BY <1>21 DEF UpsertUser, Goto, LocalsTyped
  <2>2. r.op = "CreateTeam" /\ r.members \in Seq(Member)
    BY <1>7, <2>1, Serving
  <2>3. idx[w] \in 1 .. Len(r.members)
    BY <2>1, <2>2 DEF Settled, AtMember
  <2>4. ~last => idx'[w] \in 1 .. Len(r.members)
    BY <2>1, <2>2, <2>3
  <2>5. Here
    BY <1>6, <1>7, <2>1, <2>2, <2>4, StepForms
    DEF OnItsWay, FoundStays, AtMember, TodoInTable
  <2> QED
    BY <1>8, <2>1, <2>5 DEF Settled
<1>22. CASE Deactivate(w)
  <2>1. /\ pc[w] = "deactivate" /\ pc'[w] = "deactivating" /\ items' = items
        /\ todo'[w] = {UserKey(u) : u \in ActiveMembers(See(w), r.team)}
    BY <1>22 DEF Deactivate, Choose, Goto, LocalsTyped
  <2>2. r.op = "DeactivateTeam"
    BY <1>7, <2>1, Serving
  <2>3. todo'[w] \subseteq UserKeys
    BY <2>1 DEF ActiveMembers, TeamMembers, UserKeys
  <2>4. Here
    BY <1>6, <1>7, <2>1, <2>2, <2>3, StepForms
    DEF OnItsWay, FoundStays, AtMember, TodoInTable
  <2> QED
    BY <1>8, <2>1, <2>4 DEF Settled
<1>23. CASE Deactivated(w) \/ TeamExists(w)
  <2>1. /\ pc[w] \in {"deactivating", "teamExists"} /\ items' = items
        /\ pc'[w] \in {"teamExists", "removeTeam"}
    BY <1>4, <1>23 DEF Deactivated, TeamExists, Proceed, Goto, LocalsTyped
  <2>2. r.op = "DeactivateTeam"
    BY <1>7, <2>1, Serving
  <2>3. Here
    BY <1>6, <1>7, <2>1, <2>2, StepForms DEF OnItsWay, FoundStays, AtMember, TodoInTable
  <2> QED
    BY <1>8, <2>1, <2>3 DEF Settled
<1>24. CASE Pick(w)
  <2>1. PICK R \in GetTwoActiveTeamMembersByAuthorID(See(w), r.author) :
          /\ items' = [items EXCEPT ![w] = {<<r.pr, u>> : u \in R}]
          /\ Goto(w, IF R = {} THEN "authorExists" ELSE "insertPR")
    BY <1>24 DEF Pick
  <2>2. /\ pc[w] = "pick" /\ pc'[w] \in {"authorExists", "insertPR"}
        /\ items'[w] = {<<r.pr, u>> : u \in R}
    BY <1>24, <2>1 DEF Pick, Goto, LocalsTyped
  <2>3. r.op = "CreatePR"
    BY <1>7, <2>2, Serving
  <2>4. r.author \notin R
    BY DEF GetTwoActiveTeamMembersByAuthorID, ActiveTeammates
  <2>5. ItemsApart(w)'
    BY <1>6, <2>2, <2>4 DEF ItemsApart
  <2>6. Here
    BY <1>6, <1>7, <2>2, <2>3, StepForms DEF OnItsWay, FoundStays, AtMember, TodoInTable
  <2> QED
    BY <2>5, <2>6 DEF Settled
<1>25. CASE AuthorExists(w)
  <2>1. /\ pc[w] = "authorExists" /\ pc'[w] = "insertPR" /\ items' = items
    BY <1>4, <1>25 DEF AuthorExists, Proceed, Goto, LocalsTyped
  <2>2. r.op = "CreatePR"
    BY <1>7, <2>1, Serving
  <2>3. ItemsApart(w)'
    BY <1>6, <2>1 DEF ItemsApart, Settled
  <2>4. Here
    BY <1>6, <1>7, <2>1, <2>2, StepForms DEF OnItsWay, FoundStays, AtMember, TodoInTable
  <2> QED
    BY <2>3, <2>4 DEF Settled
<1>26. CASE InsertPR(w)
  <2> DEFINE k == PRKey(r.pr)
             pr == [author |-> r.author, status |-> "OPEN", merged_at |-> Absent]
  <2>1. pc[w] = "insertPR" /\ pc'[w] = "add" /\ items' = items /\ Put(w, k, pr)
    BY <1>4, <1>26 DEF InsertPR, Goto, LocalsTyped
  <2>2. r.op = "CreatePR" /\ r.pr \in PRs /\ r.author \in Users
    BY <1>7, <2>1, Serving
  <2>3. k \in Keys /\ pr \in PRRow
    BY <2>2, KeysApart DEF PRRow
  <2>4. tx'[w][k] = pr
    <3> HIDE DEF pr
    <3>1. tx' = [tx EXCEPT ![w][k] = pr]
      BY <2>1 DEF Put
    <3> QED
      BY <2>3, <3>1, OneWritten
  <2>5. See(w)'[k] = pr
    BY <2>3, <2>4, SeeingNext, UnwrittenIsNoRow
  <2>6. Has(See(w)', k) /\ See(w)'[k].author = r.author
    BY <2>3, <2>5, AbsentIsNoRow DEF Has
  <2>7. \A a \in items[w] : a[1] = r.pr /\ a[2] # r.author
    BY <2>1 DEF ItemsApart, Settled
  <2>8. ItemsApart(w)'
    BY <2>1, <2>6, <2>7 DEF ItemsApart, Has
  <2>9. Here
    BY <1>6, <1>7, <2>1, <2>2, StepForms DEF OnItsWay, FoundStays, AtMember, TodoInTable
  <2> QED
    BY <2>8, <2>9 DEF Settled
<1>27. CASE Merge(w)
  <2>1. /\ pc[w] = "merge" /\ items' = items
        /\ \/ pc'[w] = "getMerged" /\ Has(db, PRKey(r.pr))
           \/ pc'[w] = "mergeExists"
    BY <1>27 DEF Merge, IsOpen, Proceed, Goto, LocalsTyped
  <2>2. r.op = "Merge" /\ r.pr \in PRs
    BY <1>7, <2>1, Serving
  <2>3. Has(db, PRKey(r.pr)) => Has(db', PRKey(r.pr))
    BY <2>2, CommittedStays, KeysApart DEF LastingKeys
  <2>4. Here
    BY <1>6, <1>7, <2>1, <2>2, <2>3, StepForms
    DEF OnItsWay, FoundStays, AtMember, TodoInTable, Has
  <2> QED
    BY <1>8, <2>1, <2>4 DEF Settled
<1>28. CASE MergeExists(w)
  <2>1. /\ pc[w] = "mergeExists" /\ pc'[w] = "getMerged" /\ items' = items
        /\ Has(db, PRKey(r.pr))
    BY <1>4, <1>28 DEF MergeExists, Proceed, Goto, LocalsTyped
  <2>2. r.op = "Merge" /\ r.pr \in PRs
    BY <1>7, <2>1, Serving
  <2>3. Has(db, PRKey(r.pr)) => Has(db', PRKey(r.pr))
    BY <2>2, CommittedStays, KeysApart DEF LastingKeys
  <2>4. Here
    BY <1>6, <1>7, <2>1, <2>2, <2>3, StepForms
    DEF OnItsWay, FoundStays, AtMember, TodoInTable, Has
  <2> QED
    BY <1>8, <2>1, <2>4 DEF Settled
<1>29. CASE GetMerged(w)
  BY <1>3, <1>29 DEF GetMerged, Goto, LocalsTyped
<1>30. CASE Reassign(w)
  <2>1. /\ pc[w] = "reassign" /\ pc'[w] = "lockOld" /\ tx' = tx
        /\ IsOpen(See(w), r.pr) /\ todo'[w] = {RevKey(r.pr, r.old)}
        /\ \E new \in ReassignCandidates(See(w), r.pr, r.old) : items'[w] = {<<r.pr, new>>}
    BY <1>4, <1>30 DEF Reassign, Goto, LocalsTyped
  <2>2. r.op = "Reassign" /\ r.pr \in PRs /\ r.old \in Users
    BY <1>7, <2>1, Serving
  <2>3. PICK new \in ReassignCandidates(See(w), r.pr, r.old) : items'[w] = {<<r.pr, new>>}
    BY <2>1
  <2>4. See(w)[PRKey(r.pr)].author # new
    BY DEF ReassignCandidates, Candidates
  <2>5. Has(See(w), PRKey(r.pr)) /\ Has(See(w)', PRKey(r.pr))
    BY <1>9, <2>1, <2>2 DEF IsOpen
  <2>6. See(w)'[PRKey(r.pr)].author # new
    BY <1>4, <2>2, <2>4, <2>5, SeenStays
  <2>7. RevKey(r.pr, r.old) \in RevKeys
    BY <2>2, KeysApart
  <2>8. ItemsApart(w)'
    BY <2>1, <2>3, <2>5, <2>6 DEF ItemsApart, Has
  <2>9. Here
    BY <1>6, <1>7, <2>1, <2>2, <2>5, <2>7, StepForms
    DEF OnItsWay, FoundStays, AtMember, TodoInTable, Has
  <2> QED
    BY <2>8, <2>9 DEF Settled
<1>31. CASE LockOld(w) \/ LockNew(w) \/ GetReassigned(w)
  <2>1. /\ pc[w] \in {"lockOld", "lockNew", "getReassigned"}
        /\ pc'[w] \in {"lockNew", "getReassigned", "commit"} /\ items' = items
    BY <1>4, <1>31 DEF LockOld, LockNew, GetReassigned, Goto, LocalsTyped
  <2>2. r.op = "Reassign" /\ r.pr \in PRs
    BY <1>7, <2>1, Serving
  <2>3. Has(See(w)', PRKey(r.pr))
    BY <1>9, <2>1, <2>2 DEF Settled, FoundStays
  <2>4. Here
    BY <1>6, <1>7, <2>1, <2>2, <2>3, StepForms
    DEF OnItsWay, FoundStays, AtMember, TodoInTable, Has
  <2> QED
    BY <1>8, <2>1, <2>4 DEF Settled
<1> QED
  BY <1>5, <1>10, <1>11, <1>12, <1>13, <1>14, <1>16, <1>17, <1>18, <1>19, <1>20, <1>21,
     <1>22, <1>23, <1>24, <1>25, <1>26, <1>27, <1>28, <1>29, <1>30, <1>31
  DEF Quiet

(***************************************************************************)
(* Part 8.  The theorems on authors and reviewers.                         *)
(***************************************************************************)
\* The databases the service starts on satisfy the inductive invariant.
LEMMA Starts == Init => Inductive
<1> SUFFICES ASSUME Init PROVE Inductive
  OBVIOUS
<1>1. \A w \in Workers : tx[w] = NoWrites
  BY DEF Init
<1>2. \A w \in Workers : See(w) = [k \in Keys |-> db[k]]
  BY <1>1 DEF See, NoWrites
<1>3. WellTyped(db, {Absent}) /\ AuthorsApart(db)
  BY StartsWell DEF Init
<1>4. RowsTyped
  <2>1. WellTyped(NoWrites, {Absent, Unwritten})
    BY KeysApart DEF WellTyped, NoWrites
  <2> QED
    BY <1>1, <1>3, <2>1 DEF Init, RowsTyped
<1>5. LocalsTyped
  <2>1. NoAnswer \in Answers
    BY AnswersTyped DEF NoAnswer, Codes
  <2> QED
    BY <2>1, BoundsAreNat DEF Init, LocalsTyped, Steps
<1>6. LocksExclusive /\ WritesLast
  <2>1. LastingKeys \subseteq Keys
    BY DEF LastingKeys, Keys
  <2>2. \A w \in Workers, k \in Keys : tx[w][k] = Unwritten
    BY <1>1 DEF NoWrites
  <2>3. Unwritten # Absent
    BY UnwrittenIsNoRow
  <2> QED
    BY <2>1, <2>2, <2>3 DEF LocksExclusive, WritesLast, LastingKeys
<1>7. NoSelfReview /\ ViewsApart
  <2>1. db = [k \in Keys |-> db[k]]
    BY <1>3 DEF WellTyped
  <2> QED
    BY <1>2, <1>3, <2>1 DEF NoSelfReview, ViewsApart
<1>8. \A w \in Workers : Settled(w)
  BY DEF Init, Settled, OnItsWay, FoundStays, AtMember, TodoInTable, ItemsApart
<1> QED
  BY <1>4, <1>5, <1>6, <1>7, <1>8 DEF Inductive, TypeOK

\* Every step of every handler preserves it.
LEMMA Preserved == Inductive /\ [Next]_vars => Inductive'
<1> SUFFICES ASSUME Inductive, [Next]_vars PROVE Inductive'
  OBVIOUS
<1>1. ASSUME NEW w \in Workers, Step(w) PROVE Inductive'
  <2>1. TypeOK'
    BY <1>1, RowsStep, LocalsStep DEF TypeOK
  <2>2. LocksExclusive' /\ WritesLast' /\ NoSelfReview' /\ ViewsApart'
    BY <1>1, LocksStep, WritesLastStep, ApartStep, ViewsStep
  <2>3. ASSUME NEW v \in Workers PROVE Settled(v)'
    <3>1. CASE v = w
      BY <1>1, <3>1, OwnSettled
    <3>2. CASE v # w
      BY <1>1, <3>2, OthersKept, StillSettled
    <3> QED
      BY <3>1, <3>2
  <2> QED
    BY <2>1, <2>2, <2>3 DEF Inductive
<1>2. CASE UNCHANGED vars
  <2>1. \A w \in Workers : See(w)' = See(w)
    BY <1>2 DEF vars, See
  <2>2. TypeOK'
    BY <1>2 DEF vars, Inductive, TypeOK, RowsTyped, LocalsTyped
  <2>3. LocksExclusive' /\ WritesLast' /\ NoSelfReview'
    BY <1>2 DEF vars, Inductive, LocksExclusive, WritesLast, NoSelfReview
  <2>4. ViewsApart'
    BY <2>1 DEF Inductive, ViewsApart
  <2>5. ASSUME NEW w \in Workers PROVE Settled(w)'
    <3>1. OnItsWay(w)' /\ AtMember(w)' /\ TodoInTable(w)'
      BY <1>2 DEF vars, Inductive, Settled, OnItsWay, AtMember, TodoInTable
    <3>2. FoundStays(w)' /\ ItemsApart(w)'
      BY <1>2, <2>1 DEF vars, Inductive, Settled, FoundStays, ItemsApart
    <3> QED
      BY <3>1, <3>2 DEF Settled
  <2> QED
    BY <2>2, <2>3, <2>4, <2>5 DEF Inductive
<1> QED
  BY <1>1, <1>2 DEF Next, Step, Terminating

\* Whatever requests come and however their statements interleave, abort and
\* fail, the inductive invariant holds.
THEOREM Invariance == Spec => []Inductive
  BY Starts, Preserved, PTL DEF Spec

\* Every variable holds what its declaration says at every step of every
\* handler, for any number of goroutines, users, teams and pull requests.
THEOREM TypeCorrect == Spec => []TypeOK
<1>1. Inductive => TypeOK
  BY DEF Inductive
<1> QED
  BY <1>1, Invariance, PTL

\* No committed state ever has an author among the reviewers of their own
\* pull request, although all four ways to add a reviewer choose from one
\* snapshot and write under a later one.
THEOREM AuthorsStayApart == Spec => []NoSelfReview
<1>1. Inductive => NoSelfReview
  BY DEF Inductive
<1> QED
  BY <1>1, Invariance, PTL

\* Teams, users and pull requests are never lost, a pull request keeps its
\* author, and the row of a merged one never changes: Merge is idempotent.
THEOREM HistoryIsKept == Spec => HistoryStands
<1> DEFINE Stands ==
      /\ \A k \in TeamKeys \cup UserKeys \cup PRKeys : Has(db, k) => Has(db', k)
      /\ \A p \in PRs : Has(db, PRKey(p)) =>
           /\ db'[PRKey(p)].author = db[PRKey(p)].author
           /\ ~IsOpen(db, p) => db'[PRKey(p)] = db[PRKey(p)]
<1>1. ASSUME Inductive, [Next]_vars PROVE [Stands]_db
  <2>1. CASE \E w \in Workers : Step(w)
    BY <1>1, <2>1, CommittedStays DEF LastingKeys
  <2>2. CASE UNCHANGED vars
    BY <2>2 DEF vars
  <2> QED
    BY <1>1, <2>1, <2>2 DEF Next, Step, Terminating
<1> QED
  BY <1>1, Invariance, PTL DEF Spec, HistoryStands

(***************************************************************************)
(* Part 9.  The foreign keys of deployments/init.sql, key by key.          *)
(***************************************************************************)
\* The row under k has a foreign key whose value is the key j.
Refers(k, row, j) ==
  \/ \E u \in Users : k = UserKey(u) /\ j = TeamKey(row.team)
  \/ \E p \in PRs : k = PRKey(p) /\ j = UserKey(row.author)
  \/ \E p \in PRs, u \in Users : k = RevKey(p, u) /\ j \in {PRKey(p), UserKey(u)}

\* No row of s refers to a row that is not there.
Sound(s) == \A k \in Keys : Has(s, k) => \A j : Refers(k, s[k], j) => Has(s, j)

\* Anchored, key by key.
LEMMA SoundIsAnchored ==
  ASSUME NEW s
  PROVE  Anchored(s) <=> Sound(s)
<1>1. ASSUME Anchored(s) PROVE Sound(s)
  <2>1. SUFFICES ASSUME NEW k \in Keys, Has(s, k), NEW j, Refers(k, s[k], j)
                 PROVE  Has(s, j)
    BY DEF Sound
  <2>2. CASE \E u \in Users : k = UserKey(u) /\ j = TeamKey(s[k].team)
    BY <1>1, <2>1, <2>2 DEF Anchored
  <2>3. CASE \E p \in PRs : k = PRKey(p) /\ j = UserKey(s[k].author)
    BY <1>1, <2>1, <2>3 DEF Anchored
  <2>4. CASE \E p \in PRs, u \in Users : k = RevKey(p, u) /\ j \in {PRKey(p), UserKey(u)}
    BY <1>1, <2>1, <2>4 DEF Anchored
  <2> QED
    BY <2>1, <2>2, <2>3, <2>4 DEF Refers
<1>2. ASSUME Sound(s) PROVE Anchored(s)
  <2>1. \A u \in Users : Has(s, UserKey(u)) => Has(s, TeamKey(s[UserKey(u)].team))
    BY <1>2, KeysApart DEF Sound, Refers
  <2>2. \A p \in PRs : Has(s, PRKey(p)) => Has(s, UserKey(s[PRKey(p)].author))
    BY <1>2, KeysApart DEF Sound, Refers
  <2>3. \A p \in PRs, u \in Users :
          Has(s, RevKey(p, u)) => Has(s, PRKey(p)) /\ Has(s, UserKey(u))
    BY <1>2, KeysApart DEF Sound, Refers
  <2> QED
    BY <2>1, <2>2, <2>3 DEF Anchored
<1> QED
  BY <1>1, <1>2

\* Only keys of tables nothing is deleted from are referred to.
LEMMA ReferredLasts ==
  ASSUME NEW k \in Keys, NEW row, Typed(k, row), NEW j, Refers(k, row, j)
  PROVE  j \in LastingKeys /\ j \in Keys
<1>1. CASE \E u \in Users : k = UserKey(u) /\ j = TeamKey(row.team)
  <2>1. row \in UserRow
    BY <1>1, KeysApart DEF Typed, TeamKeys, RevKeys, PRKeys
  <2> QED
    BY <1>1, <2>1, KeysApart DEF UserRow, LastingKeys
<1>2. CASE \E p \in PRs : k = PRKey(p) /\ j = UserKey(row.author)
  <2>1. row \in PRRow
    BY <1>2, KeysApart DEF Typed, TeamKeys, RevKeys, UserKeys
  <2> QED
    BY <1>2, <2>1, KeysApart DEF PRRow, LastingKeys
<1>3. CASE \E p \in PRs, u \in Users : k = RevKey(p, u) /\ j \in {PRKey(p), UserKey(u)}
  BY <1>3, KeysApart DEF LastingKeys
<1> QED
  BY <1>1, <1>2, <1>3 DEF Refers

\* The rows a transaction sees have their columns' types.
LEMMA SeenRowTyped ==
  ASSUME RowsTyped, NEW w \in Workers, NEW k \in Keys, Has(See(w), k)
  PROVE  Typed(k, See(w)[k])
<1>1. WellTyped(See(w), {Absent})
  BY SeenTyped
<1> QED
  BY <1>1, KeyWise DEF Has
\* The candidates of a handover are users of the database it is looked up in.
LEMMA HandoverKnown ==
  ASSUME NEW s, NEW u, NEW found \in GetReassignmentCandidatesForReviewer(s, u)
  PROVE  \A a \in found : Has(s, UserKey(a[2]))
<1> DEFINE ps == {p \in OpenReviews(s, u) : HandoverCandidates(s, p, u) # {}}
<1>1. PICK f \in [ps -> Users] : /\ \A p \in ps : f[p] \in HandoverCandidates(s, p, u)
                                 /\ found = {<<p, f[p]>> : p \in ps}
  BY DEF GetReassignmentCandidatesForReviewer
<1>2. \A p \in ps : Has(s, UserKey(f[p]))
  BY <1>1 DEF HandoverCandidates, Candidates, ActiveMembers, TeamMembers
<1> QED
  BY <1>1, <1>2

(***************************************************************************)
(* Part 10.  What is written, seen and committed refers to rows that are.  *)
(***************************************************************************)
\* The one row a statement writes is the one of which tx changes.
LEMMA OneChanged ==
  ASSUME RowsTyped, NEW w \in Workers, NEW i \in Keys, NEW row,
         tx' = [tx EXCEPT ![w][i] = row],
         NEW k \in Keys, tx'[w][k] # tx[w][k]
  PROVE  k = i /\ tx'[w][k] = row
<1>1. \A j \in Keys : tx'[w][j] = IF j = i THEN row ELSE tx[w][j]
  BY OneWritten
<1> QED
  BY <1>1

\* A statement that writes a row has the rows it refers to in its view: a user's
\* team, a pull request's author, a reviewer's user and pull request.
LEMMA NewReferences ==
  ASSUME NEW w \in Workers, Inductive, ReferencesHeld, Step(w),
         NEW k \in Keys, tx'[w][k] # tx[w][k], tx'[w][k] \notin {Unwritten, Absent},
         NEW j, Refers(k, tx'[w][k], j)
  PROVE  Has(See(w), j)
<1> USE DEF Inductive, TypeOK
<1> DEFINE r == req[w]
<1>0. \A row :
        /\ \A u \in Users : Refers(UserKey(u), row, j) => j = TeamKey(row.team)
        /\ \A p \in PRs : Refers(PRKey(p), row, j) => j = UserKey(row.author)
        /\ \A p \in PRs, u \in Users :
             Refers(RevKey(p, u), row, j) => j \in {PRKey(p), UserKey(u)}
        /\ \A t \in Teams : ~Refers(TeamKey(t), row, j)
  BY KeysApart DEF Refers
\* The row of a user who stays in the team.
<1>u. ASSUME NEW u \in Users, Has(See(w), UserKey(u)), k = UserKey(u),
             tx'[w][k].team = See(w)[UserKey(u)].team
      PROVE  Has(See(w), j)
  <2>1. j = TeamKey(See(w)[UserKey(u)].team)
    BY <1>0, <1>u
  <2> QED
    BY <1>u, <2>1 DEF ReferencesHeld, ViewsAnchored, Anchored
\* The row of an assignment kept in memory.
<1>a. ASSUME NEW a \in items[w], pc[w] \in {"adding", "lockNew"}, k = RevKey(a[1], a[2])
      PROVE  Has(See(w), j)
  <2>1. a[1] \in PRs /\ a[2] \in Users
    BY DEF LocalsTyped
  <2>2. j \in {PRKey(a[1]), UserKey(a[2])}
    BY <1>0, <1>a, <2>1
  <2>3. Has(See(w), PRKey(a[1]))
    BY <1>a DEF Settled, ItemsApart
  <2>4. Has(See(w), UserKey(a[2]))
    BY <1>a DEF ReferencesHeld, ReferentsFound
  <2> QED
    BY <2>2, <2>3, <2>4
<1>1. CASE LockUser(w)
  <2> DEFINE i == UserKey(r.user)
             row == [See(w)[i] EXCEPT !.active = r.active]
  <2>1. pc[w] = "lockUser" /\ (tx' = [tx EXCEPT ![w][i] = row] \/ Fail(w, "NOT_FOUND"))
    BY <1>1 DEF LockUser, Put
  <2>2. r.user \in Users /\ i \in Keys /\ Has(See(w), i)
    BY <2>1, Serving, KeysApart DEF Settled, FoundStays
  <2>3. ~Fail(w, "NOT_FOUND")
    BY AllDropped DEF Fail
  <2>4. k = i /\ tx'[w][k] = row
    <3> HIDE DEF row, i
    <3> QED
      BY <2>1, <2>2, <2>3, OneChanged
  <2>5. See(w)[i] \in UserRow
    BY <2>2, SeenTyped DEF WellTyped, Has
  <2>6. row.team = See(w)[i].team
    BY <2>5 DEF UserRow
  <2> QED
    BY <1>u, <2>2, <2>4, <2>6
<1>2. CASE RemoveRow(w) \/ LockOld(w)
  <2>1. ~Fail(w, "INTERNAL_ERROR")
    BY AllDropped DEF Fail
  <2>2. PICK i \in todo[w] : tx' = [tx EXCEPT ![w][i] = Absent]
    BY <1>2, <2>1, UnwrittenIsNoRow DEF RemoveRow, WriteRow, LockOld, Put
  <2>3. i \in Keys
    BY DEF LocalsTyped
  <2> QED
    BY <2>2, <2>3, OneChanged
<1>3. CASE AddRow(w)
  <2>1. PICK i \in todo[w] : tx' = tx \/ tx' = [tx EXCEPT ![w][i] = Present]
    BY <1>3 DEF AddRow, WriteRow
  <2>2. i \in Keys /\ pc[w] = "adding"
    BY <1>3 DEF AddRow, LocalsTyped
  <2>3. k = i
    BY <2>1, <2>2, OneChanged
  <2>4. PICK a \in items[w] : i = RevKey(a[1], a[2])
    BY <2>2 DEF Settled, TodoInTable
  <2> QED
    BY <1>a, <2>2, <2>3, <2>4
<1>4. CASE InsertTeam(w)
  <2>1. ~Fail(w, "TEAM_EXISTS")
    BY AllDropped DEF Fail
  <2>2. pc[w] = "insertTeam" /\ tx' = [tx EXCEPT ![w][TeamKey(r.team)] = Present]
    BY <1>4, <2>1 DEF InsertTeam, Put
  <2>3. r.team \in Teams
    BY <2>2, Serving
  <2>4. k = TeamKey(r.team)
    BY <2>2, <2>3, KeysApart, OneChanged
  <2> QED
    BY <1>0, <2>3, <2>4
<1>5. CASE UpsertUser(w)
  <2> DEFINE m == r.members[idx[w]]
             row == [team |-> r.team, active |-> m.active]
  <2>1. pc[w] = "upsertUser" /\ tx' = [tx EXCEPT ![w][UserKey(m.user)] = row]
    BY <1>5 DEF UpsertUser, Put
  <2>2. m \in Member
    BY <2>1, Serving DEF Settled, AtMember
  <2>3. m.user \in Users /\ UserKey(m.user) \in Keys
    BY <2>2, KeysApart DEF Member
  <2>4. k = UserKey(m.user) /\ tx'[w][k] = row
    <3> HIDE DEF row, m
    <3> QED
      BY <2>1, <2>3, OneChanged
  <2>5. j = TeamKey(r.team)
    BY <1>0, <2>3, <2>4
  <2> QED
    BY <2>1, <2>5 DEF ReferencesHeld, ReferentsFound
<1>6. CASE DeactivateRow(w)
  <2> DEFINE row(i) == [See(w)[i] EXCEPT !.active = FALSE]
  <2>1. PICK i \in todo[w] :
          \/ tx' = tx
          \/ /\ See(w)[i] = [team |-> r.team, active |-> TRUE]
             /\ tx' = [tx EXCEPT ![w][i] = row(i)]
    BY <1>6 DEF DeactivateRow, WriteRow
  <2>2. i \in Keys /\ i \in UserKeys
    BY <1>6 DEF DeactivateRow, Settled, TodoInTable, LocalsTyped
  <2>3. PICK u \in Users : i = UserKey(u)
    BY <2>2 DEF UserKeys
  <2>4. k = i /\ tx'[w][k] = row(i) /\ See(w)[i] = [team |-> r.team, active |-> TRUE]
    <3> HIDE DEF row
    <3> QED
      BY <2>1, <2>2, OneChanged
  <2>5. r.team \in Teams
    BY <1>6, Serving DEF DeactivateRow
  <2>6. See(w)[i] \in UserRow
    BY <2>4, <2>5 DEF UserRow
  <2>7. row(i).team = See(w)[i].team /\ See(w)[i] # Absent
    BY <2>6, AbsentIsNoRow DEF UserRow
  <2> QED
    BY <1>u, <2>3, <2>4, <2>7 DEF Has
<1>7. CASE InsertPR(w)
  <2> DEFINE pr == [author |-> r.author, status |-> "OPEN", merged_at |-> Absent]
  <2>1. ~Fail(w, "PR_EXISTS")
    BY AllDropped DEF Fail
  <2>2. pc[w] = "insertPR" /\ tx' = [tx EXCEPT ![w][PRKey(r.pr)] = pr]
    BY <1>7, <2>1 DEF InsertPR, Put
  <2>3. r.pr \in PRs
    BY <2>2, Serving
  <2>4. k = PRKey(r.pr) /\ tx'[w][k] = pr
    <3> HIDE DEF pr
    <3> QED
      BY <2>2, <2>3, KeysApart, OneChanged
  <2>5. j = UserKey(r.author)
    BY <1>0, <2>3, <2>4
  <2> QED
    BY <2>2, <2>5 DEF ReferencesHeld, ReferentsFound
<1>8. CASE LockNew(w)
  <2>1. ~Fail(w, "INTERNAL_ERROR")
    BY AllDropped DEF Fail
  <2>2. pc[w] = "lockNew"
    BY <1>8 DEF LockNew
  <2>3. PICK a \in items[w] : tx' = [tx EXCEPT ![w][RevKey(a[1], a[2])] = Present]
    BY <1>8, <2>1 DEF LockNew, Put
  <2>4. RevKey(a[1], a[2]) \in Keys
    BY KeysApart DEF LocalsTyped
  <2>5. k = RevKey(a[1], a[2])
    BY <2>3, <2>4, OneChanged
  <2> QED
    BY <1>a, <2>2, <2>5
<1>9. CASE tx' = tx \/ tx' = [tx EXCEPT ![w] = NoWrites]
  BY <1>9, AllDropped
<1>10. CASE \/ SetActive(w) \/ FindCandidates(w) \/ Remove(w) \/ Removed(w) \/ Add(w)
            \/ Added(w) \/ Deactivate(w) \/ Deactivated(w) \/ TeamExists(w)
            \/ RemoveTeam(w) \/ Pick(w) \/ AuthorExists(w) \/ MergeExists(w)
            \/ GetMerged(w) \/ Reassign(w) \/ GetReassigned(w) \/ Merge(w)
            \/ DeadlockAbort(w) \/ Commit(w) \/ Begin(w) \/ Cancel(w) \/ CommitLost(w)
  BY <1>9, <1>10
  DEF SetActive, FindCandidates, Remove, Removed, Add, Added, Deactivate, Deactivated,
      TeamExists, RemoveTeam, Pick, AuthorExists, MergeExists, GetMerged, Reassign,
      GetReassigned, Merge, DeadlockAbort, Commit, Publish, Begin, Cancel, CommitLost,
      Choose, Proceed, Fail
<1> QED
  BY <1>1, <1>2, <1>3, <1>4, <1>5, <1>6, <1>7, <1>8, <1>10 DEF Step, Serve, Quiet
\* A commit publishes a view in which references are in order; a merge changes
\* no reference.
LEMMA AnchorsStep ==
  ASSUME NEW w \in Workers, Inductive, ReferencesHeld, Step(w)
  PROVE  RowsAnchored'
<1> USE DEF Inductive, TypeOK
<1>1. CASE db' = db
  BY <1>1 DEF ReferencesHeld, RowsAnchored, Anchored, Has
<1>2. CASE Merges
  <2>1. PICK q \in PRs, now \in Instants :
          /\ IsOpen(db, q) /\ tx' = tx
          /\ db' = [db EXCEPT ![PRKey(q)].status = "MERGED",
                              ![PRKey(q)].merged_at = now]
    BY <1>2 DEF Merges
  <2>2. /\ \A k \in Keys : k # PRKey(q) => db'[k] = db[k]
        /\ db'[PRKey(q)].author = db[PRKey(q)].author
        /\ db[PRKey(q)] \in PRRow
    BY <2>1, OneMerged
  <2>3. \A u \in Users : db'[UserKey(u)] = db[UserKey(u)]
    BY <2>2, KeysApart
  <2>4. \A t \in Teams : db'[TeamKey(t)] = db[TeamKey(t)]
    BY <2>2, KeysApart
  <2>5. \A p \in PRs : /\ Has(db', PRKey(p)) <=> Has(db, PRKey(p))
                       /\ db'[PRKey(p)].author = db[PRKey(p)].author
    <3>1. \A p \in PRs : p # q => db'[PRKey(p)] = db[PRKey(p)]
      BY <2>2, KeysApart
    <3>2. Has(db', PRKey(q)) <=> Has(db, PRKey(q))
      BY <2>1, CommittedStays, KeysApart DEF LastingKeys, IsOpen
    <3> QED
      BY <2>2, <3>1, <3>2 DEF Has
  <2>6. \A p \in PRs, u \in Users : db'[RevKey(p, u)] = db[RevKey(p, u)]
    BY <2>2, KeysApart
  <2>7. \A u \in Users : Has(db, UserKey(u)) => db[UserKey(u)].team \in Teams
    BY DEF RowsTyped, WellTyped, UserRow, Has
  <2>8. \A p \in PRs : Has(db, PRKey(p)) => db[PRKey(p)].author \in Users
    BY DEF RowsTyped, WellTyped, PRRow, Has
  <2> QED
    BY <2>3, <2>4, <2>5, <2>6, <2>7, <2>8 DEF ReferencesHeld, RowsAnchored, Anchored, Has
<1>3. CASE Publishes(w)
  BY <1>3 DEF Publishes, ReferencesHeld, RowsAnchored, ViewsAnchored
<1> QED
  BY <1>1, <1>2, <1>3, Shapes DEF WritesNone, WritesOne, Drops

\* What each transaction sees stays anchored, whoever writes, commits or fails.
LEMMA ViewsAnchoredStep ==
  ASSUME NEW w \in Workers, Inductive, ReferencesHeld, Step(w)
  PROVE  ViewsAnchored'
<1> USE DEF Inductive, TypeOK
<1>0. SUFFICES ASSUME NEW x \in Workers PROVE Sound(See(x)')
  BY SoundIsAnchored DEF ViewsAnchored
<1>1. SUFFICES ASSUME NEW k \in Keys, Has(See(x)', k), NEW j, Refers(k, See(x)'[k], j)
               PROVE  Has(See(x)', j)
  BY DEF Sound
<1>2. /\ \A i \in Keys : See(x)[i] = IF tx[x][i] = Unwritten THEN db[i] ELSE tx[x][i]
      /\ \A i \in Keys : See(x)'[i] = IF tx'[x][i] = Unwritten THEN db'[i] ELSE tx'[x][i]
  BY Seeing, SeeingNext
<1>3. RowsTyped' /\ RowsAnchored' /\ WritesLast'
  BY RowsStep, AnchorsStep, WritesLastStep
<1>4. j \in LastingKeys /\ j \in Keys
  <2>1. \A i \in Keys : (db'[i] = Absent \/ Typed(i, db'[i]))
                     /\ (tx'[x][i] \in {Absent, Unwritten} \/ Typed(i, tx'[x][i]))
    BY <1>3, KeyWise DEF RowsTyped
  <2>2. Typed(k, See(x)'[k])
    BY <1>1, <1>2, <2>1 DEF Has
  <2> QED
    BY <1>1, <2>2, ReferredLasts
\* A row x has seen before the step.
<1>s. ASSUME x # w \/ ~Drops(w), Has(See(x), k), Refers(k, See(x)[k], j)
      PROVE  Has(See(x)', j)
  <2>1. Has(See(x), j)
    BY <1>s, SoundIsAnchored DEF ReferencesHeld, ViewsAnchored, Sound
  <2> QED
    BY <1>4, <1>s, <2>1, SeenStays
\* A row that is committed now.
<1>c. ASSUME See(x)'[k] = db'[k]
      PROVE  Has(See(x)', j)
  <2>1. Has(db', j)
    BY <1>1, <1>3, <1>c, SoundIsAnchored DEF RowsAnchored, Sound, Has
  <2>2. tx'[x][j] # Absent
    BY <1>3, <1>4 DEF WritesLast
  <2> QED
    BY <1>2, <1>4, <2>1, <2>2 DEF Has
<1>5. CASE x = w /\ Drops(w)
  BY <1>2, <1>5, <1>c, AllDropped DEF Drops
<1>6. CASE x # w \/ ~Drops(w)
  <2>1. CASE tx'[x][k] = Unwritten
    BY <1>2, <1>c, <2>1
  <2>2. CASE tx'[x][k] # Unwritten /\ tx'[x][k] = tx[x][k]
    BY <1>1, <1>2, <1>6, <1>s, <2>2 DEF Has
  <2>3. CASE tx'[x][k] # Unwritten /\ tx'[x][k] # tx[x][k]
    <3>1. x = w
      <4>1. CASE WritesNone \/ Merges
        BY <2>3, <4>1 DEF WritesNone, Merges
      <4>2. CASE WritesOne(w) \/ Drops(w) \/ Publishes(w)
        BY <2>3, <4>2 DEF RowsTyped, WritesOne, Drops, Publishes
      <4> QED
        BY <4>1, <4>2, Shapes
    <3>2. See(x)'[k] = tx'[w][k] /\ tx'[w][k] # Absent
      BY <1>1, <1>2, <2>3, <3>1 DEF Has
    <3>3. Has(See(w), j)
      BY <1>1, <2>3, <3>1, <3>2, NewReferences
    <3> QED
      BY <1>4, <1>6, <3>1, <3>3, SeenStays
  <2> QED
    BY <2>1, <2>2, <2>3
<1> QED
  BY <1>5, <1>6

(***************************************************************************)
(* Part 11.  What a request in progress is going to refer to is there.     *)
(***************************************************************************)
\* What a request relies on stays as long as its local variables stand still.
LEMMA StillFound ==
  ASSUME NEW w \in Workers, Inductive, ReferencesHeld, Step(w),
         NEW v \in Workers, v # w \/ ~Drops(w),
         pc'[v] = pc[v], req'[v] = req[v], items'[v] = items[v]
  PROVE  ReferentsFound(v)'
<1> USE DEF Inductive, TypeOK
<1>1. /\ \A u \in Users : Has(See(v), UserKey(u)) => Has(See(v)', UserKey(u))
      /\ \A t \in Teams : Has(See(v), TeamKey(t)) => Has(See(v)', TeamKey(t))
  BY SeenStays, KeysApart DEF LastingKeys
<1>2. pc[v] = "insertPR" => Has(See(v)', UserKey(req[v].author))
  BY <1>1, Serving DEF ReferencesHeld, ReferentsFound
<1>3. pc[v] = "upsertUser" => Has(See(v)', TeamKey(req[v].team))
  BY <1>1, Serving DEF ReferencesHeld, ReferentsFound
<1>4. pc[v] # "done" => \A a \in items[v] : Has(See(v)', UserKey(a[2]))
  BY <1>1 DEF ReferencesHeld, ReferentsFound, LocalsTyped
<1> QED
  BY <1>2, <1>3, <1>4 DEF ReferentsFound, Has

\* The rows the request w serves is going to refer to are there after its own
\* step: candidates are users of the view they are picked from, a picked
\* reviewer has the author for a team mate.
LEMMA OwnFound ==
  ASSUME NEW w \in Workers, Inductive, ReferencesHeld, Step(w)
  PROVE  ReferentsFound(w)'
<1> USE DEF Inductive, TypeOK
<1> DEFINE r == req[w]
<1>1. CASE pc'[w] = "done"
  BY <1>1 DEF ReferentsFound
<1>2. CASE Begin(w)
  <2>1. PICK q \in Requests : pc' = [pc EXCEPT ![w] = FirstStep(q)]
    BY <1>2 DEF Begin, Goto
  <2>2. FirstStep(q) \in {"setActive", "deactivate", "pick", "merge", "reassign",
                          "insertTeam", "candidates"}
    BY RequestForms DEF FirstStep
  <2>3. pc'[w] \notin {"insertPR", "upsertUser"} /\ items'[w] = {}
    BY <1>2, <2>1, <2>2 DEF Begin, LocalsTyped
  <2> QED
    BY <2>3 DEF ReferentsFound
<1>3. SUFFICES ASSUME pc'[w] # "done", ~Begin(w)
               PROVE  ReferentsFound(w)'
  BY <1>1, <1>2
<1>4. ~Drops(w) /\ \A code : ~Fail(w, code)
  BY <1>3 DEF Drops, Fail, Goto, LocalsTyped
<1>5. (Quiet(w) /\ UNCHANGED db) \/ Merge(w)
  BY <1>3, <1>4 DEF Step, Serve, DeadlockAbort, Commit, Cancel, CommitLost, Publish, Goto,
                    LocalsTyped
<1>6. req'[w] = req[w]
  BY <1>3 DEF Step, Serve, Begin, Cancel, CommitLost
<1>7. /\ \A u \in Users : Has(See(w), UserKey(u)) => Has(See(w)', UserKey(u))
      /\ \A t \in Teams : Has(See(w), TeamKey(t)) => Has(See(w)', TeamKey(t))
  BY <1>4, SeenStays, KeysApart DEF LastingKeys
\* Assignments kept in memory stay right.
<1>8. ASSUME pc[w] # "done", items'[w] \subseteq items[w],
             pc'[w] \notin {"insertPR", "upsertUser"}
      PROVE  ReferentsFound(w)'
  <2>1. \A a \in items[w] : Has(See(w)', UserKey(a[2]))
    BY <1>7, <1>8 DEF ReferencesHeld, ReferentsFound, LocalsTyped
  <2> QED
    BY <1>8, <2>1 DEF ReferentsFound, Has
<1>9. CASE SetActive(w) \/ LockUser(w) \/ Remove(w) \/ Add(w) \/ Added(w)
  <2>1. pc[w] # "done" /\ items' = items /\ pc'[w] \notin {"insertPR", "upsertUser"}
    BY <1>4, <1>9 DEF SetActive, LockUser, Remove, Add, Added, Choose, Proceed, Goto,
                      LocalsTyped
  <2> QED
    BY <1>8, <2>1
<1>10. CASE \/ Deactivate(w) \/ Deactivated(w) \/ TeamExists(w) \/ RemoveTeam(w)
            \/ MergeExists(w) \/ GetMerged(w) \/ Merge(w)
            \/ LockOld(w) \/ LockNew(w) \/ GetReassigned(w)
  <2>1. pc[w] # "done" /\ items' = items /\ pc'[w] \notin {"insertPR", "upsertUser"}
    BY <1>4, <1>10 DEF Deactivate, Deactivated, TeamExists, RemoveTeam, MergeExists,
                       GetMerged, Merge, LockOld, LockNew, GetReassigned, Choose, Proceed,
                       Goto, LocalsTyped
  <2> QED
    BY <1>8, <2>1
<1>11. CASE RemoveRow(w) \/ AddRow(w) \/ DeactivateRow(w)
  <2>1. pc' = pc /\ items' = items
    BY <1>11 DEF RemoveRow, AddRow, DeactivateRow, WriteRow
  <2> QED
    BY <1>4, <1>6, <2>1, StillFound
<1>12. CASE Removed(w)
  <2>1. pc[w] # "done" /\ items' = items /\ pc'[w] \notin {"insertPR", "upsertUser"}
    BY <1>12 DEF Removed, NextMember, Goto, LocalsTyped
  <2> QED
    BY <1>8, <2>1
<1>13. CASE FindCandidates(w)
  <2>1. PICK found \in GetReassignmentCandidatesForReviewer(See(w), Subject(w)) :
          items' = [items EXCEPT ![w] = @ \cup found]
    BY <1>13 DEF FindCandidates
  <2>2. /\ items'[w] = items[w] \cup found /\ pc[w] = "candidates"
        /\ pc'[w] \notin {"insertPR", "upsertUser"}
    BY <1>13, <2>1 DEF FindCandidates, NextMember, Goto, LocalsTyped
  <2>3. \A a \in items[w] : Has(See(w), UserKey(a[2]))
    BY <2>2 DEF ReferencesHeld, ReferentsFound
  <2>4. \A a \in found : Has(See(w), UserKey(a[2]))
    BY HandoverKnown
  <2>5. \A a \in items'[w] : Has(See(w)', UserKey(a[2]))
    <3>1. \A a \in found : a[2] \in Users
      BY HandoverTyped
    <3>2. \A a \in items[w] : a[2] \in Users
      BY DEF LocalsTyped
    <3> QED
      BY <1>7, <2>2, <2>3, <2>4, <3>1, <3>2
  <2> QED
    BY <2>2, <2>5 DEF ReferentsFound, Has
<1>14. CASE InsertTeam(w)
  <2>1. /\ pc[w] = "insertTeam" /\ items' = items /\ pc'[w] # "insertPR"
        /\ tx' = [tx EXCEPT ![w][TeamKey(r.team)] = Present]
    BY <1>4, <1>14 DEF InsertTeam, Put, Goto, LocalsTyped
  <2>2. r.team \in Teams
    BY <2>1, Serving
  <2>3. tx'[w][TeamKey(r.team)] = Present
    <3>1. TeamKey(r.team) \in Keys
      BY <2>2, KeysApart
    <3>2. tx' = [tx EXCEPT ![w][TeamKey(r.team)] = Present]
      BY <2>1
    <3> QED
      BY <3>1, <3>2, OneWritten
  <2>4. Has(See(w)', TeamKey(r.team))
    BY <2>2, <2>3, KeysApart, SeeingNext, AbsentIsNoRow, UnwrittenIsNoRow DEF Has
  <2>5. \A a \in items[w] : Has(See(w)', UserKey(a[2]))
    BY <1>7, <2>1 DEF ReferencesHeld, ReferentsFound, LocalsTyped
  <2> QED
    BY <1>6, <2>1, <2>4, <2>5 DEF ReferentsFound, Has
<1>15. CASE UpsertUser(w)
  <2>1. pc[w] = "upsertUser" /\ items' = items /\ pc'[w] # "insertPR"
    BY <1>15 DEF UpsertUser, Goto, LocalsTyped
  <2>2. r.team \in Teams
    BY <2>1, Serving
  <2>3. Has(See(w)', TeamKey(r.team))
    BY <1>7, <2>1, <2>2 DEF ReferencesHeld, ReferentsFound
  <2>4. \A a \in items[w] : Has(See(w)', UserKey(a[2]))
    BY <1>7, <2>1 DEF ReferencesHeld, ReferentsFound, LocalsTyped
  <2> QED
    BY <1>6, <2>1, <2>3, <2>4 DEF ReferentsFound, Has
<1>16. CASE Pick(w)
  <2>1. PICK R \in GetTwoActiveTeamMembersByAuthorID(See(w), r.author) :
          /\ items' = [items EXCEPT ![w] = {<<r.pr, u>> : u \in R}]
          /\ Goto(w, IF R = {} THEN "authorExists" ELSE "insertPR")
    BY <1>16 DEF Pick
  <2>2. /\ pc[w] = "pick" /\ pc'[w] = IF R = {} THEN "authorExists" ELSE "insertPR"
        /\ items'[w] = {<<r.pr, u>> : u \in R}
    BY <1>16, <2>1 DEF Pick, Goto, LocalsTyped
  <2>3. R \subseteq ActiveTeammates(See(w), r.author)
    BY DEF GetTwoActiveTeamMembersByAuthorID
  <2>4. R # {} => Has(See(w), UserKey(r.author))
    BY <2>3 DEF ActiveTeammates
  <2>5. \A u \in R : u \in Users /\ Has(See(w), UserKey(u))
    BY <2>3 DEF ActiveTeammates, ActiveMembers, TeamMembers
  <2>6. r.author \in Users
    BY <2>2, Serving
  <2>7. \A a \in items'[w] : Has(See(w)', UserKey(a[2]))
    BY <1>7, <2>2, <2>5
  <2>8. pc'[w] = "insertPR" => Has(See(w)', UserKey(r.author))
    BY <1>7, <2>2, <2>4, <2>6
  <2> QED
    BY <1>6, <2>2, <2>7, <2>8 DEF ReferentsFound, Has
<1>17. CASE AuthorExists(w)
  <2>1. /\ pc[w] = "authorExists" /\ pc'[w] = "insertPR" /\ items' = items
        /\ Has(See(w), UserKey(r.author))
    BY <1>4, <1>17 DEF AuthorExists, Proceed, Goto, LocalsTyped
  <2>2. Has(See(w)', UserKey(r.author))
    BY <1>7, <2>1, Serving
  <2>3. \A a \in items[w] : Has(See(w)', UserKey(a[2]))
    BY <1>7, <2>1 DEF ReferencesHeld, ReferentsFound, LocalsTyped
  <2> QED
    BY <1>6, <2>1, <2>2, <2>3 DEF ReferentsFound, Has
<1>18. CASE InsertPR(w)
  <2>1. pc[w] # "done" /\ items' = items /\ pc'[w] \notin {"insertPR", "upsertUser"}
    BY <1>4, <1>18 DEF InsertPR, Goto, LocalsTyped
  <2> QED
    BY <1>8, <2>1
<1>19. CASE Reassign(w)
  <2>1. /\ pc[w] = "reassign" /\ pc'[w] = "lockOld"
        /\ \E new \in ReassignCandidates(See(w), r.pr, r.old) : items'[w] = {<<r.pr, new>>}
    BY <1>4, <1>19 DEF Reassign, Goto, LocalsTyped
  <2>2. PICK new \in ReassignCandidates(See(w), r.pr, r.old) : items'[w] = {<<r.pr, new>>}
    BY <2>1
  <2>3. new \in Users /\ Has(See(w), UserKey(new))
    BY DEF ReassignCandidates, Candidates, ActiveMembers, TeamMembers
  <2>4. \A a \in items'[w] : Has(See(w)', UserKey(a[2]))
    BY <1>7, <2>2, <2>3
  <2> QED
    BY <2>1, <2>4 DEF ReferentsFound, Has
<1> QED
  BY <1>5, <1>9, <1>10, <1>11, <1>12, <1>13, <1>14, <1>15, <1>16, <1>17, <1>18, <1>19
  DEF Quiet

(***************************************************************************)
(* Part 12.  The theorems on references.                                   *)
(***************************************************************************)
\* The databases the service starts on have their references in order.
LEMMA StartsAnchored == Init => ReferencesHeld
<1> SUFFICES ASSUME Init PROVE ReferencesHeld
  OBVIOUS
<1>1. \A w \in Workers : See(w) = [k \in Keys |-> db[k]]
  BY DEF Init, See, NoWrites
<1>2. WellTyped(db, {Absent}) /\ Anchored(db)
  BY StartsWell DEF Init
<1>3. \A w \in Workers : See(w) = db
  BY <1>1, <1>2 DEF WellTyped
<1>4. \A w \in Workers : ReferentsFound(w)
  BY DEF Init, ReferentsFound
<1> QED
  BY <1>2, <1>3, <1>4 DEF ReferencesHeld, RowsAnchored, ViewsAnchored

\* Every step of every handler keeps them so.
LEMMA ReferencesKept == Inductive /\ ReferencesHeld /\ [Next]_vars => ReferencesHeld'
<1> SUFFICES ASSUME Inductive, ReferencesHeld, [Next]_vars PROVE ReferencesHeld'
  OBVIOUS
<1>1. ASSUME NEW w \in Workers, Step(w) PROVE ReferencesHeld'
  <2>1. RowsAnchored' /\ ViewsAnchored'
    BY <1>1, AnchorsStep, ViewsAnchoredStep
  <2>2. ASSUME NEW v \in Workers PROVE ReferentsFound(v)'
    <3>1. CASE v = w
      BY <1>1, <3>1, OwnFound
    <3>2. CASE v # w
      BY <1>1, <3>2, OthersKept, StillFound
    <3> QED
      BY <3>1, <3>2
  <2> QED
    BY <2>1, <2>2 DEF ReferencesHeld
<1>2. CASE UNCHANGED vars
  <2>1. \A w \in Workers : See(w)' = See(w)
    BY <1>2 DEF vars, See
  <2>2. RowsAnchored' /\ ViewsAnchored'
    BY <1>2, <2>1 DEF vars, ReferencesHeld, RowsAnchored, ViewsAnchored
  <2>3. \A w \in Workers : ReferentsFound(w)'
    BY <1>2, <2>1 DEF vars, ReferencesHeld, ReferentsFound, Has
  <2> QED
    BY <2>2, <2>3 DEF ReferencesHeld
<1> QED
  BY <1>1, <1>2 DEF Next, Step, Terminating

\* Whatever requests come and however their statements interleave, abort and
\* fail, every view has the rows its rows refer to, and every request in
\* progress those it is going to refer to.
THEOREM ReferencesInvariance == Spec => []ReferencesHeld
  BY StartsAnchored, ReferencesKept, Invariance, PTL DEF Spec

\* Every committed user, pull request and reviewer refers to rows that exist:
\* the foreign keys of deployments/init.sql hold though no statement ever waits
\* for another to check them.
THEOREM ReferencesStayAnchored == Spec => []RowsAnchored
<1>1. ReferencesHeld => RowsAnchored
  BY DEF ReferencesHeld
<1> QED
  BY <1>1, ReferencesInvariance, PTL
==============================================================================
