-------------------------- MODULE AssignmentService --------------------------
(***************************************************************************)
(* The six writing endpoints of the service (internal/services and         *)
(* internal/repos), SQL statement by SQL statement, as concurrent request  *)
(* goroutines on one PostgreSQL database at READ COMMITTED, the level      *)
(* pool.Begin asks for.                                                    *)
(*                                                                         *)
(* A statement reads the rows committed when it starts, overlaid with the  *)
(* transaction's own writes (See).  It writes row by row: a row another    *)
(* transaction has written is locked until that transaction ends, and the  *)
(* statement then goes on with the newest version of the row.              *)
(*                                                                         *)
(* Foreign key checks take KEY SHARE locks, which do not conflict with the *)
(* updates of non-key columns the service makes, and it never deletes a    *)
(* referenced row: they never wait and never fail.                         *)
(***************************************************************************)
EXTENDS AssignmentApi

CONSTANTS
  Workers,      (* goroutines of net/http, one request at a time each      *)
  Requests,     (* the requests clients may send                           *)
  InitialDBs,   (* the databases the service may be started on             *)
  MaxRequests,  (* bound: requests in one behaviour                        *)
  MaxFaults,    (* bound: cancelled contexts and lost connections          *)
  Unwritten     (* "this transaction has not written that row"             *)

ASSUME RequestsTyped == Requests \subseteq RequestTypes

ASSUME UnwrittenIsNoRow == /\ Unwritten \notin {Absent, Present}
                           /\ Unwritten \notin UserRow
                           /\ Unwritten \notin PRRow

ASSUME BoundsAreNat == MaxRequests \in Nat /\ MaxFaults \in Nat

\* The service is started on what it, or init.sql, has left behind.
ASSUME StartsWell ==
  \A s \in InitialDBs : WellTyped(s, {Absent}) /\ Anchored(s) /\ AuthorsApart(s)

VARIABLES
  db,      (* committed rows                                               *)
  tx,      (* tx[w][k]: row w's transaction has written under k and locks  *)
  pc,      (* pc[w]: the next statement, or row lock, of w's request       *)
  req,     (* req[w]: the request being served                             *)
  todo,    (* todo[w]: rows the running statement has still to write       *)
  items,   (* items[w]: assignments held in Go memory between statements   *)
  idx,     (* idx[w]: position in the members of a new team                *)
  seen,    (* seen[w]: teams in the snapshot of SetActive's statement      *)
  res,     (* res[w]: the answer prepared, and given once pc[w] = "done"   *)
  left,    (* requests still to come                                       *)
  faults   (* faults still to come                                         *)

vars == <<db, tx, pc, req, todo, items, idx, seen, res, left, faults>>

Steps == {"done", "setActive", "lockUser", "candidates", "remove", "removing",
          "insertTeam", "upsertUser", "add", "adding", "commit",
          "deactivate", "deactivating", "teamExists", "removeTeam",
          "pick", "authorExists", "insertPR",
          "merge", "mergeExists", "getMerged",
          "reassign", "lockOld", "lockNew", "getReassigned"}

NoWrites == [k \in Keys |-> Unwritten]

(***************************************************************************)
(* What w's transaction sees, and the locks it runs into.                  *)
(***************************************************************************)
See(w) == [k \in Keys |-> IF tx[w][k] = Unwritten THEN db[k] ELSE tx[w][k]]

Free(w, k) == \A v \in Workers \ {w} : tx[v][k] = Unwritten

Goto(w, step)   == pc' = [pc EXCEPT ![w] = step]
Put(w, k, row)  == tx' = [tx EXCEPT ![w][k] = row]
Prepare(w, ans) == res' = [res EXCEPT ![w] = ans]

\* Mutant: Rollback is not deferred.
FailOpen(w, code) ==
  /\ todo' = [todo EXCEPT ![w] = {}]
  /\ Goto(w, "done")
  /\ Prepare(w, Answer(code, Absent))
  /\ UNCHANGED <<tx, items, idx, seen>>

\* The function given to transactor.Run returns an error: the deferred
\* Rollback drops the writes, and the service answers with the error's code.
Fail(w, code) ==
  /\ tx' = [tx EXCEPT ![w] = NoWrites]
  /\ todo' = [todo EXCEPT ![w] = {}]
  /\ Goto(w, "done")
  /\ Prepare(w, Answer(code, Absent))
  /\ UNCHANGED <<items, idx, seen>>

\* A statement that only reads, or a step of Go code, between w and step.
Proceed(w, step) == Goto(w, step) /\ UNCHANGED <<tx, todo, items, idx, seen, res>>

(***************************************************************************)
(* A statement that has chosen rows writes them one by one (Rows).         *)
(***************************************************************************)
Choose(w, rows, step) ==
  /\ todo' = [todo EXCEPT ![w] = rows]
  /\ Goto(w, step)
  /\ UNCHANGED <<tx, items, idx, seen, res>>

\* A row of todo is locked and rewritten, or skipped when row = Unwritten.
WriteRow(w, k, row) ==
  /\ Free(w, k)
  /\ tx' = IF row = Unwritten THEN tx ELSE [tx EXCEPT ![w][k] = row]
  /\ todo' = [todo EXCEPT ![w] = @ \ {k}]
  /\ UNCHANGED <<pc, items, idx, seen, res>>

(***************************************************************************)
(* POST /users/setIsActive                                                 *)
(***************************************************************************)
\* The UPDATE takes its snapshot; its JOIN with teams uses the same one.
SetActive(w) ==
  /\ pc[w] = "setActive"
  /\ \/ /\ Has(See(w), UserKey(req[w].user))
        /\ seen' = [seen EXCEPT ![w] = {t \in Teams : Has(See(w), TeamKey(t))}]
        /\ Goto(w, "lockUser")
        /\ UNCHANGED <<tx, todo, items, idx, res>>
     \/ /\ ~Has(See(w), UserKey(req[w].user))
        /\ Fail(w, "NOT_FOUND")

\* It updates the newest version of the row.  If that version has moved to a
\* team the snapshot does not hold, the JOIN is empty: pgx.ErrNoRows.
LockUser(w) ==
  LET k    == UserKey(req[w].user)
      user == See(w)[k]
  IN  /\ pc[w] = "lockUser"
      /\ Free(w, k)
      /\ \/ /\ user.team \in seen[w]
            /\ Put(w, k, [user EXCEPT !.active = req[w].active])
            /\ Goto(w, IF req[w].active THEN "commit" ELSE "candidates")
            /\ Prepare(w, Answer("OK", Absent))
            /\ UNCHANGED <<todo, items, idx, seen>>
         \/ /\ user.team \notin seen[w]
            /\ Fail(w, "NOT_FOUND")

(***************************************************************************)
(* The handover of a reviewer's open reviews, of SetActive(false) and, for *)
(* every member of the new team in turn, of CreateTeam.                    *)
(***************************************************************************)
Subject(w) ==
  IF req[w].op = "CreateTeam" THEN req[w].members[idx[w]].user ELSE req[w].user

\* Mutant: the loop over the members goes one too far.
NextMemberPast(w) ==
  LET last == idx[w] > Len(req[w].members)
  IN  /\ idx' = [idx EXCEPT ![w] = IF last THEN 1 ELSE @ + 1]
      /\ Goto(w, IF last THEN "insertTeam" ELSE "candidates")

\* The loop over the members goes on, or is left for teamRepo.Create.
NextMember(w) ==
  LET last == idx[w] >= Len(req[w].members)
  IN  /\ idx' = [idx EXCEPT ![w] = IF last THEN 1 ELSE @ + 1]
      /\ Goto(w, IF last THEN "insertTeam" ELSE "candidates")

\* Mutant: the candidates of the last member replace those of the others.
FindLastCandidates(w) ==
  /\ pc[w] = "candidates"
  /\ \E found \in GetReassignmentCandidatesForReviewer(See(w), Subject(w)) :
       /\ items' = [items EXCEPT ![w] = found]
       /\ \/ /\ req[w].op = "SetActive" \/ found # {}
             /\ Goto(w, "remove")
             /\ UNCHANGED idx
          \/ /\ req[w].op = "CreateTeam" /\ found = {}
             /\ NextMember(w)
  /\ UNCHANGED <<tx, todo, seen, res>>

FindCandidates(w) ==
  /\ pc[w] = "candidates"
  /\ \E found \in GetReassignmentCandidatesForReviewer(See(w), Subject(w)) :
       /\ items' = [items EXCEPT ![w] = @ \cup found]
       /\ \/ /\ req[w].op = "SetActive" \/ found # {}
             /\ Goto(w, "remove")
             /\ UNCHANGED idx
          \/ /\ req[w].op = "CreateTeam" /\ found = {}
             /\ NextMember(w)
  /\ UNCHANGED <<tx, todo, seen, res>>

\* Mutant: the user steps down only where somebody takes over.
RemoveReplaced(w) ==
  /\ pc[w] = "remove"
  /\ Choose(w, {RevKey(a[1], Subject(w)) : a \in items[w]}, "removing")

Remove(w) ==
  /\ pc[w] = "remove"
  /\ Choose(w, RemoveReviewerFromOpenPRs(See(w), Subject(w)), "removing")

RemoveRow(w) ==
  /\ pc[w] = "removing"
  /\ \E k \in todo[w] : WriteRow(w, k, Absent)

\* Mutant: SetActive forgets to call AddReviewers.
RemovedForGood(w) ==
  /\ pc[w] = "removing" /\ todo[w] = {}
  /\ \/ /\ req[w].op \in {"SetActive", "DeactivateTeam"}
        /\ Goto(w, "commit") /\ UNCHANGED idx
     \/ /\ req[w].op = "CreateTeam"
        /\ NextMember(w)
  /\ UNCHANGED <<tx, todo, items, seen, res>>

Removed(w) ==
  /\ pc[w] = "removing" /\ todo[w] = {}
  /\ \/ /\ req[w].op = "SetActive"
        /\ Goto(w, "add") /\ UNCHANGED idx
     \/ /\ req[w].op = "CreateTeam"
        /\ NextMember(w)
     \/ /\ req[w].op = "DeactivateTeam"
        /\ Goto(w, "commit") /\ UNCHANGED idx
  /\ UNCHANGED <<tx, todo, items, seen, res>>

\* AddReviewers returns at once when there is nothing to add; otherwise it
\* keeps the users its own snapshot shows active.
Add(w) ==
  /\ pc[w] = "add"
  /\ \/ items[w] = {} /\ Proceed(w, "commit")
     \/ items[w] # {} /\ Choose(w, AddReviewers(See(w), items[w]), "adding")

\* Mutant: PRIMARY KEY (pull_request_id) alone.
AddRowPerPR(w) ==
  /\ pc[w] = "adding"
  /\ \E k \in todo[w] :
       WriteRow(w, k, IF Reviewers(See(w), k[2]) # {} THEN Unwritten ELSE Present)

\* ON CONFLICT DO NOTHING
AddRow(w) ==
  /\ pc[w] = "adding"
  /\ \E k \in todo[w] : WriteRow(w, k, IF Has(See(w), k) THEN Unwritten ELSE Present)

Added(w) ==
  /\ pc[w] = "adding" /\ todo[w] = {}
  /\ Proceed(w, "commit")

(***************************************************************************)
(* POST /team/add                                                          *)
(***************************************************************************)
InsertTeam(w) ==
  LET k == TeamKey(req[w].team)
  IN  /\ pc[w] = "insertTeam"
      /\ Free(w, k)
      /\ \/ /\ Has(See(w), k)
            /\ Fail(w, "TEAM_EXISTS")
         \/ /\ ~Has(See(w), k)
            /\ Put(w, k, Present)
            /\ Goto(w, IF req[w].members = <<>> THEN "add" ELSE "upsertUser")
            /\ Prepare(w, Answer("OK", Absent))
            /\ UNCHANGED <<todo, items, idx, seen>>

\* INSERT ... ON CONFLICT (id) DO UPDATE, one statement of the batch a member.
UpsertUser(w) ==
  LET member == req[w].members[idx[w]]
      k      == UserKey(member.user)
      last   == idx[w] = Len(req[w].members)
  IN  /\ pc[w] = "upsertUser"
      /\ Free(w, k)
      /\ Put(w, k, [team |-> req[w].team, active |-> member.active])
      /\ idx' = [idx EXCEPT ![w] = IF last THEN @ ELSE @ + 1]
      /\ Goto(w, IF last THEN "add" ELSE "upsertUser")
      /\ UNCHANGED <<todo, items, seen, res>>

(***************************************************************************)
(* POST /team/deactivate                                                   *)
(***************************************************************************)
Deactivate(w) ==
  /\ pc[w] = "deactivate"
  /\ Choose(w, {UserKey(u) : u \in ActiveMembers(See(w), req[w].team)}, "deactivating")

\* The WHERE clause is evaluated again on the newest version of the row.
DeactivateRow(w) ==
  /\ pc[w] = "deactivating"
  /\ \E k \in todo[w] :
       LET user == See(w)[k]
       IN  WriteRow(w, k, IF user = [team |-> req[w].team, active |-> TRUE]
                            THEN [user EXCEPT !.active = FALSE]
                            ELSE Unwritten)

Deactivated(w) ==
  /\ pc[w] = "deactivating" /\ todo[w] = {}
  /\ Proceed(w, IF tx[w] = NoWrites THEN "teamExists" ELSE "removeTeam")

\* Mutant: a team of which nobody was active is taken for missing.
TeamActive(w) ==
  pc[w] = "teamExists" /\ Fail(w, "NOT_FOUND")

TeamExists(w) ==
  /\ pc[w] = "teamExists"
  /\ \/ Has(See(w), TeamKey(req[w].team)) /\ Proceed(w, "removeTeam")
     \/ ~Has(See(w), TeamKey(req[w].team)) /\ Fail(w, "NOT_FOUND")

RemoveTeam(w) ==
  /\ pc[w] = "removeTeam"
  /\ todo' = [todo EXCEPT ![w] = RemoveTeamReviewersFromOpenPRs(See(w), req[w].team)]
  /\ Goto(w, "removing")
  /\ Prepare(w, Answer("OK", Absent))
  /\ UNCHANGED <<tx, items, idx, seen>>

(***************************************************************************)
(* POST /pullRequest/create                                                *)
(***************************************************************************)
\* Mutant: PRID and CandidateID, both UUIDs, are swapped in the assignments.
PickSwapped(w) ==
  /\ pc[w] = "pick"
  /\ \E R \in GetTwoActiveTeamMembersByAuthorID(See(w), req[w].author) :
       /\ items' = [items EXCEPT ![w] = {<<u, req[w].pr>> : u \in R}]
       /\ Goto(w, IF R = {} THEN "authorExists" ELSE "insertPR")
  /\ UNCHANGED <<tx, todo, idx, seen, res>>

Pick(w) ==
  /\ pc[w] = "pick"
  /\ \E R \in GetTwoActiveTeamMembersByAuthorID(See(w), req[w].author) :
       /\ items' = [items EXCEPT ![w] = {<<req[w].pr, u>> : u \in R}]
       /\ Goto(w, IF R = {} THEN "authorExists" ELSE "insertPR")
  /\ UNCHANGED <<tx, todo, idx, seen, res>>

\* Mutant: no pick is taken for an existing author without team mates.
AuthorAssumed(w) ==
  pc[w] = "authorExists" /\ Proceed(w, "insertPR")

AuthorExists(w) ==
  /\ pc[w] = "authorExists"
  /\ \/ Has(See(w), UserKey(req[w].author)) /\ Proceed(w, "insertPR")
     \/ ~Has(See(w), UserKey(req[w].author)) /\ Fail(w, "NOT_FOUND")

\* Mutant: the insert does not wait for an insert of the same id in progress.
InsertPRUnlocked(w) ==
  LET k  == PRKey(req[w].pr)
      pr == [author |-> req[w].author, status |-> "OPEN", merged_at |-> Absent]
  IN  /\ pc[w] = "insertPR"
      /\ ~Has(See(w), k)
      /\ Put(w, k, pr)
      /\ Goto(w, "add")
      /\ Prepare(w, Answer("OK", Absent))
      /\ UNCHANGED <<todo, items, idx, seen>>

\* The answer lists the reviewers picked, whatever AddReviewers keeps.
InsertPR(w) ==
  LET k  == PRKey(req[w].pr)
      pr == [author |-> req[w].author, status |-> "OPEN", merged_at |-> Absent]
      body == [status |-> "OPEN", merged_at |-> Absent,
               reviewers |-> {u \in Users : <<req[w].pr, u>> \in items[w]}]
  IN  /\ pc[w] = "insertPR"
      /\ Free(w, k)
      /\ \/ /\ Has(See(w), k)
            /\ Fail(w, "PR_EXISTS")
         \/ /\ ~Has(See(w), k)
            /\ Put(w, k, pr)
            /\ Goto(w, "add")
            /\ Prepare(w, Answer("OK", body))
            /\ UNCHANGED <<todo, items, idx, seen>>

(***************************************************************************)
(* POST /pullRequest/merge runs outside transactor.Run: GetQueryEngine     *)
(* gives the pool, and each statement commits by itself.                   *)
(***************************************************************************)
\* Mutant: AND status = 'OPEN' is forgotten.
MergeAgain(w) ==
  LET k == PRKey(req[w].pr)
  IN  /\ pc[w] = "merge"
      /\ \/ /\ Has(db, k)
            /\ \E now \in Instants :
                 db' = [db EXCEPT ![k].status = "MERGED", ![k].merged_at = now]
            /\ Proceed(w, "getMerged")
         \/ /\ ~Has(db, k)
            /\ Proceed(w, "mergeExists")
            /\ UNCHANGED db

Merge(w) ==
  LET k == PRKey(req[w].pr)
  IN  /\ pc[w] = "merge"
      /\ \/ /\ IsOpen(db, req[w].pr)
            /\ \E now \in Instants :
                 db' = [db EXCEPT ![k].status = "MERGED", ![k].merged_at = now]
            /\ Proceed(w, "getMerged")
         \/ /\ ~IsOpen(db, req[w].pr)
            /\ Proceed(w, "mergeExists")
            /\ UNCHANGED db

MergeExists(w) ==
  /\ pc[w] = "mergeExists"
  /\ \/ Has(db, PRKey(req[w].pr)) /\ Proceed(w, "getMerged")
     \/ ~Has(db, PRKey(req[w].pr)) /\ Fail(w, "NOT_FOUND")

GetMerged(w) ==
  /\ pc[w] = "getMerged"
  /\ Prepare(w, Answer("OK", GetByID(db, req[w].pr)))
  /\ Goto(w, "done")
  /\ UNCHANGED <<tx, todo, items, idx, seen>>

(***************************************************************************)
(* POST /pullRequest/reassign                                              *)
(***************************************************************************)
\* The snapshot of the one statement decides the outcome; only when it finds
\* an open pull request, the old reviewer and a candidate does it UPDATE.
Reassign(w) ==
  LET s == See(w)
      p == req[w].pr
      old == req[w].old
  IN  /\ pc[w] = "reassign"
      /\ \/ ~Has(s, PRKey(p)) /\ Fail(w, "NOT_FOUND")
         \/ /\ Has(s, PRKey(p)) /\ ~IsOpen(s, p)
            /\ Fail(w, "PR_MERGED")
         \/ /\ IsOpen(s, p) /\ old \notin Reviewers(s, p)
            /\ Fail(w, "NOT_ASSIGNED")
         \/ /\ IsOpen(s, p) /\ old \in Reviewers(s, p)
            /\ ReassignCandidates(s, p, old) = {}
            /\ Fail(w, "NO_CANDIDATE")
         \/ /\ IsOpen(s, p) /\ old \in Reviewers(s, p)
            /\ \E new \in ReassignCandidates(s, p, old) :
                 items' = [items EXCEPT ![w] = {<<p, new>>}]
            /\ todo' = [todo EXCEPT ![w] = {RevKey(p, old)}]
            /\ Goto(w, "lockOld")
            /\ UNCHANGED <<tx, idx, seen, res>>

\* Mutant: a row is inserted for the new reviewer, the old one stays.
KeepOld(w) ==
  /\ pc[w] = "lockOld"
  /\ \E k \in todo[w] :
       /\ Free(w, k)
       /\ todo' = [todo EXCEPT ![w] = {}]
  /\ Goto(w, "lockNew")
  /\ UNCHANGED <<tx, items, idx, seen, res>>

\* The old row is gone by the time it can be locked: new_reviewer_id is NULL,
\* "failed to replace reviewer due to unknown reason".
LockOld(w) ==
  /\ pc[w] = "lockOld"
  /\ \/ /\ todo[w] = {}
        /\ Fail(w, "INTERNAL_ERROR")
     \/ /\ \E k \in todo[w] :
             /\ Free(w, k)
             /\ Put(w, k, Absent)
             /\ todo' = [todo EXCEPT ![w] = {}]
        /\ Goto(w, "lockNew")
        /\ UNCHANGED <<items, idx, seen, res>>

\* Mutant: a new reviewer who is there already is taken for replaced.
LockNewAnyway(w) ==
  /\ pc[w] = "lockNew"
  /\ \E a \in items[w] :
       LET k == RevKey(a[1], a[2])
       IN  Free(w, k) /\ Put(w, k, Present)
  /\ Goto(w, "getReassigned")
  /\ UNCHANGED <<todo, items, idx, seen, res>>

\* The new key enters the primary key index, or violates it.
LockNew(w) ==
  /\ pc[w] = "lockNew"
  /\ \E a \in items[w] :
       LET k == RevKey(a[1], a[2])
       IN  /\ Free(w, k)
           /\ \/ /\ Has(See(w), k)
                 /\ Fail(w, "INTERNAL_ERROR")
              \/ /\ ~Has(See(w), k)
                 /\ Put(w, k, Present)
                 /\ Goto(w, "getReassigned")
                 /\ UNCHANGED <<todo, items, idx, seen, res>>

GetReassigned(w) ==
  /\ pc[w] = "getReassigned"
  /\ Prepare(w, Answer("OK", GetByID(See(w), req[w].pr)))
  /\ Goto(w, "commit")
  /\ UNCHANGED <<tx, todo, items, idx, seen>>

(***************************************************************************)
(* The end of a transaction.  A DELETE or UPDATE of another worker that    *)
(* waits for a row of reviewers finds its version gone and skips it.       *)
(***************************************************************************)
Publish(w) ==
  /\ pc[w] = "commit"
  /\ db' = See(w)
  /\ tx' = [tx EXCEPT ![w] = NoWrites]
  /\ todo' = [v \in Workers |->
                IF pc[v] \in {"removing", "lockOld"}
                  THEN {k \in todo[v] : tx[w][k] = Unwritten}
                  ELSE todo[v]]
  /\ Goto(w, "done")
  /\ UNCHANGED <<items, idx, seen>>

Commit(w) == Publish(w) /\ UNCHANGED res

(***************************************************************************)
(* A worker takes a request.                                               *)
(***************************************************************************)
FirstStep(r) ==
  CASE r.op = "SetActive"      -> "setActive"
    [] r.op = "DeactivateTeam" -> "deactivate"
    [] r.op = "CreatePR"       -> "pick"
    [] r.op = "Merge"          -> "merge"
    [] r.op = "Reassign"       -> "reassign"
    [] r.op = "CreateTeam"     -> IF r.members = <<>> THEN "insertTeam"
                                                      ELSE "candidates"

Begin(w) ==
  /\ pc[w] = "done" /\ left > 0
  /\ \E r \in Requests :
       /\ req' = [req EXCEPT ![w] = r]
       /\ Goto(w, FirstStep(r))
  /\ items' = [items EXCEPT ![w] = {}]
  /\ idx' = [idx EXCEPT ![w] = 1]
  /\ seen' = [seen EXCEPT ![w] = {}]
  /\ Prepare(w, NoAnswer)
  /\ left' = left - 1
  /\ UNCHANGED <<db, tx, todo, faults>>

(***************************************************************************)
(* Failures.  PostgreSQL breaks a cycle of lock waits by failing one of    *)
(* the waiting statements; a cancelled request context or a lost           *)
(* connection ends a request at any step, and a COMMIT whose answer is     *)
(* lost has committed all the same.                                        *)
(***************************************************************************)
Wants(w) ==
  CASE pc[w] = "lockUser"   -> {UserKey(req[w].user)}
    [] pc[w] = "insertTeam" -> {TeamKey(req[w].team)}
    [] pc[w] = "upsertUser" -> {UserKey(req[w].members[idx[w]].user)}
    [] pc[w] = "insertPR"   -> {PRKey(req[w].pr)}
    [] pc[w] = "lockNew"    -> {RevKey(a[1], a[2]) : a \in items[w]}
    [] OTHER                -> todo[w]

WaitsFor(w) == {v \in Workers \ {w} : \E k \in Wants(w) : tx[v][k] # Unwritten}

\* w waits, directly or not, for itself: it is in every set of workers that
\* holds those it waits for and those they wait for.
Deadlocked(w) ==
  \A S \in SUBSET Workers :
    (WaitsFor(w) \subseteq S /\ \A v \in S : WaitsFor(v) \subseteq S) => w \in S

DeadlockAbort(w) ==
  /\ Deadlocked(w)
  /\ Fail(w, "INTERNAL_ERROR")
  /\ UNCHANGED db

Cancel(w) ==
  /\ pc[w] # "done" /\ faults > 0
  /\ faults' = faults - 1
  /\ Fail(w, "INTERNAL_ERROR")
  /\ UNCHANGED <<db, req, left>>

CommitLost(w) ==
  /\ faults > 0
  /\ faults' = faults - 1
  /\ Publish(w)
  /\ Prepare(w, Answer("INTERNAL_ERROR", Absent))
  /\ UNCHANGED <<req, left>>

(***************************************************************************)
(* The specification.                                                      *)
(***************************************************************************)
Init ==
  /\ db \in InitialDBs
  /\ tx = [w \in Workers |-> NoWrites]
  /\ pc = [w \in Workers |-> "done"]
  /\ req = [w \in Workers |-> NoRequest]
  /\ todo = [w \in Workers |-> {}]
  /\ items = [w \in Workers |-> {}]
  /\ idx = [w \in Workers |-> 1]
  /\ seen = [w \in Workers |-> {}]
  /\ res = [w \in Workers |-> NoAnswer]
  /\ left = MaxRequests
  /\ faults = MaxFaults

\* The steps that leave the committed rows alone.
Quiet(w) ==
  \/ SetActive(w) \/ LockUser(w)
  \/ FindCandidates(w) \/ Remove(w) \/ RemoveRow(w) \/ Removed(w)
  \/ Add(w) \/ AddRow(w) \/ Added(w)
  \/ InsertTeam(w) \/ UpsertUser(w)
  \/ Deactivate(w) \/ DeactivateRow(w) \/ Deactivated(w) \/ TeamExists(w)
  \/ RemoveTeam(w)
  \/ Pick(w) \/ AuthorExists(w) \/ InsertPR(w)
  \/ MergeExists(w) \/ GetMerged(w)
  \/ Reassign(w) \/ LockOld(w) \/ LockNew(w) \/ GetReassigned(w)

Serve(w) ==
  /\ \/ Quiet(w) /\ UNCHANGED db
     \/ DeadlockAbort(w)
     \/ Merge(w)
     \/ Commit(w)
  /\ UNCHANGED <<req, left, faults>>

\* All the requests a behaviour may have are answered.
Terminating ==
  /\ left = 0 /\ \A w \in Workers : pc[w] = "done"
  /\ UNCHANGED vars

Next ==
  \/ \E w \in Workers : Serve(w) \/ Begin(w) \/ Cancel(w) \/ CommitLost(w)
  \/ Terminating

Fairness == \A w \in Workers : WF_vars(Serve(w))

Spec     == Init /\ [][Next]_vars
FairSpec == Spec /\ Fairness

(***************************************************************************)
(* Properties.                                                             *)
(***************************************************************************)
\* The rows of db and tx are rows of the right table ...
RowsTyped ==
  /\ WellTyped(db, {Absent})
  /\ tx = [w \in Workers |-> tx[w]]
  /\ \A w \in Workers : WellTyped(tx[w], {Absent, Unwritten})

\* ... and the requests, steps and answers are those of the code and its API.
LocalsTyped ==
  /\ pc \in [Workers -> Steps]
  /\ req \in [Workers -> Requests \cup {NoRequest}]
  /\ todo \in [Workers -> SUBSET Keys]
  /\ items \in [Workers -> SUBSET (PRs \X Users)]
  /\ idx \in [Workers -> Nat \ {0}]
  /\ seen \in [Workers -> SUBSET Teams]
  /\ res \in [Workers -> Answers]
  /\ left \in 0 .. MaxRequests
  /\ faults \in 0 .. MaxFaults

\* Every variable holds what its declaration says, at every step of every
\* handler (internal/services, internal/repos).
TypeOK == RowsTyped /\ LocalsTyped

\* However requests interleave, no author ever reviews a pull request of
\* their own: every path that adds a reviewer (creation, the two handovers,
\* reassignment) chooses at one time and writes at another.
NoSelfReview == AuthorsApart(db)

\* The steps the code for an operation goes through.
StepsOf(op) ==
  CASE op = "SetActive"      -> {"setActive", "lockUser", "candidates", "remove",
                                 "removing", "add", "adding", "commit"}
    [] op = "CreateTeam"     -> {"candidates", "remove", "removing", "insertTeam",
                                 "upsertUser", "add", "adding", "commit"}
    [] op = "DeactivateTeam" -> {"deactivate", "deactivating", "teamExists",
                                 "removeTeam", "removing", "commit"}
    [] op = "CreatePR"       -> {"pick", "authorExists", "insertPR", "add", "adding",
                                 "commit"}
    [] op = "Merge"          -> {"merge", "mergeExists", "getMerged"}
    [] op = "Reassign"       -> {"reassign", "lockOld", "lockNew", "getReassigned",
                                 "commit"}

OnItsWay(w) ==
  pc[w] # "done" => req[w] \in Requests /\ pc[w] \in StepsOf(req[w].op)

LastingKeys == TeamKeys \cup UserKeys \cup PRKeys

\* A row that two transactions have written is written by one of them.
LocksExclusive == \A v, w \in Workers, k \in Keys :
  tx[v][k] # Unwritten /\ tx[w][k] # Unwritten => v = w

\* No transaction deletes a team, a user or a pull request, or writes a team
\* or a pull request that is there already.
WritesLast == \A w \in Workers :
  /\ \A k \in LastingKeys : tx[w][k] # Absent
  /\ \A k \in TeamKeys \cup PRKeys : tx[w][k] # Unwritten => db[k] = Absent

\* The rows a step relies on because an earlier statement found them.
FoundStays(w) ==
  /\ pc[w] = "lockUser" => Has(See(w), UserKey(req[w].user))
  /\ pc[w] = "getMerged" => Has(db, PRKey(req[w].pr))
  /\ pc[w] \in {"lockOld", "lockNew", "getReassigned"} => Has(See(w), PRKey(req[w].pr))

\* The loops over the members of a new team stay within them.
AtMember(w) ==
  /\ /\ pc[w] \in {"candidates", "remove", "removing", "upsertUser"}
     /\ req[w].op = "CreateTeam"
     => idx[w] \in 1 .. Len(req[w].members)
  /\ pc[w] = "insertTeam" => idx[w] = 1

\* The table a statement writes.
TodoInTable(w) ==
  /\ pc[w] \in {"removing", "lockOld"} => todo[w] \subseteq RevKeys
  /\ pc[w] = "deactivating" => todo[w] \subseteq UserKeys
  /\ pc[w] = "adding" => todo[w] \subseteq {RevKey(a[1], a[2]) : a \in items[w]}

\* Assignments kept in memory never give a pull request to its author.
ItemsApart(w) == pc[w] # "done" => \A a \in items[w] :
  IF pc[w] \in {"pick", "authorExists", "insertPR"}
    THEN a[1] = req[w].pr /\ a[2] # req[w].author
    ELSE Has(See(w), PRKey(a[1])) /\ See(w)[PRKey(a[1])].author # a[2]

ViewsApart == \A w \in Workers : AuthorsApart(See(w))

\* What a request in progress relies on.
Settled(w) ==
  OnItsWay(w) /\ FoundStays(w) /\ AtMember(w) /\ TodoInTable(w) /\ ItemsApart(w)

\* No handler relies on what another can take away between two statements:
\* together with the locks, the inductive invariant.
Inductive == /\ TypeOK /\ LocksExclusive /\ WritesLast /\ NoSelfReview /\ ViewsApart
             /\ \A w \in Workers : Settled(w)

\* Every committed reviewer, author and member refers to rows that exist,
\* though picked from one snapshot and written under a later one.
RowsAnchored == Anchored(db)

ViewsAnchored == \A w \in Workers : Anchored(See(w))

\* The rows a request in progress is going to refer to.
ReferentsFound(w) ==
  /\ pc[w] = "insertPR" => Has(See(w), UserKey(req[w].author))
  /\ pc[w] = "upsertUser" => Has(See(w), TeamKey(req[w].team))
  /\ pc[w] # "done" => \A a \in items[w] : Has(See(w), UserKey(a[2]))

\* What keeps references in order between the statement that finds a row and
\* the one that refers to it, which no foreign key lock spans: with Inductive,
\* an inductive invariant.
ReferencesHeld == /\ RowsAnchored /\ ViewsAnchored
                  /\ \A w \in Workers : ReferentsFound(w)

\* The steps before the first write of a request.
Unwriting == {"done", "setActive", "lockUser", "deactivate", "pick", "authorExists",
              "insertPR", "merge", "mergeExists", "getMerged", "reassign", "lockOld"}

HoldsNothing(w) == pc[w] \in Unwriting => tx[w] = NoWrites

\* A new team or pull request is locked until its creation is committed.
CreationHeld(w) ==
  /\ req[w].op = "CreateTeam" /\ pc[w] \in {"upsertUser", "add", "adding", "commit"}
       => tx[w][TeamKey(req[w].team)] # Unwritten
  /\ req[w].op = "CreatePR" /\ pc[w] \in {"add", "adding", "commit"}
       => tx[w][PRKey(req[w].pr)] # Unwritten

Picked(w) == {u \in Users : <<req[w].pr, u>> \in items[w]}

\* CreatePR writes, and answers, at most the two reviewers it has picked.
PickKept(w) == req[w].op = "CreatePR" /\ pc[w] # "done" =>
  /\ pc[w] # "pick" => Cardinality(Picked(w)) <= 2
  /\ pc[w] \in {"add", "adding", "commit"} => res[w].pr.reviewers = Picked(w)
  /\ \A u \in Users : tx[w][RevKey(req[w].pr, u)] # Unwritten => u \in Picked(w)

\* Reassign: the old reviewer is committed until the row is locked, and then
\* as long as it is; the new one is not.
SwapHeld(w) == req[w].op = "Reassign" =>
  LET Row(u) == RevKey(req[w].pr, u)
      old    == req[w].old
  IN  /\ pc[w] = "lockOld" =>
           todo[w] \subseteq {Row(old)} /\ \A k \in todo[w] : Has(db, k)
      /\ pc[w] \in {"lockOld", "lockNew"} =>
           \E new \in Users \ {old} : items[w] = {<<req[w].pr, new>>}
      /\ pc[w] = "lockNew" =>
           /\ Has(db, Row(old)) /\ tx[w][Row(old)] = Absent
           /\ \A u \in Users \ {old} : tx[w][Row(u)] = Unwritten
      /\ pc[w] \in {"getReassigned", "commit"} =>
           \E new \in Users \ {old} :
             /\ Has(db, Row(old)) /\ tx[w][Row(old)] = Absent
             /\ ~Has(db, Row(new)) /\ tx[w][Row(new)] = Present
             /\ \A u \in Users \ {old, new} : tx[w][Row(u)] = Unwritten

\* What makes a granted answer true when its transaction commits: with
\* Inductive, an inductive invariant.
AnswersHeld == \A w \in Workers :
  HoldsNothing(w) /\ CreationHeld(w) /\ PickKept(w) /\ SwapHeld(w)

\* Teams, users and pull requests are never lost, a pull request keeps its
\* author, and once merged its row, merged_at included, never changes again:
\* a second or a concurrent Merge is idempotent.
HistoryStands ==
  [][/\ \A k \in TeamKeys \cup UserKeys \cup PRKeys : Has(db, k) => Has(db', k)
     /\ \A p \in PRs : Has(db, PRKey(p)) =>
          /\ db'[PRKey(p)].author = db[PRKey(p)].author
          /\ ~IsOpen(db, p) => db'[PRKey(p)] = db[PRKey(p)]]_db

\* The request w serves is answered in this step / answered with success.
Ends(w)        == pc[w] # "done" /\ pc'[w] = "done"
Granted(w, op) == Ends(w) /\ res'[w].code = "OK" /\ req[w].op = op

\* Of several requests to create the same team or pull request at most one
\* is granted, even when all of them find it missing first.
CreatedOnce ==
  [][\A w \in Workers :
       /\ Granted(w, "CreateTeam") => ~Has(db, TeamKey(req[w].team))
       /\ Granted(w, "CreatePR") => ~Has(db, PRKey(req[w].pr))]_vars

\* A granted reassignment replaces exactly the old reviewer by exactly one
\* new one, although the row may be contended by handovers and by other
\* reassignments between the query's snapshot and its row locks.
ReassignSwaps ==
  [][\A w \in Workers : Granted(w, "Reassign") =>
       LET before == Reviewers(db, req[w].pr)
           after  == Reviewers(db', req[w].pr)
       IN  /\ req[w].old \in before \ after
           /\ \E new \in Users \ before : after = (before \ {req[w].old}) \cup {new}]_vars

\* A pull request starts with at most two reviewers, all of them among those
\* its creator is told of (the converse is AnswerLacksOnlyIdle of RequestWindow).
NewPRWithinAnswer ==
  [][\A w \in Workers : Granted(w, "CreatePR") =>
       /\ Cardinality(Reviewers(db', req[w].pr)) <= 2
       /\ Reviewers(db', req[w].pr) \subseteq res'[w].pr.reviewers]_vars

\* Every request taken is answered: row locks are let go, lock cycles are
\* broken, loops over members end.
EveryRequestAnswered == \A w \in Workers : pc[w] # "done" ~> pc[w] = "done"

(***************************************************************************)
(* Promises the code keeps only to a client who is alone.                  *)
(***************************************************************************)
\* No pull request ever has more than two reviewers.
AtMostTwo == WithinLimit(db)

\* The reviewers of a merged pull request never change.
MergedReviewersFrozen ==
  [][\A p \in PRs : Has(db, PRKey(p)) /\ ~IsOpen(db, p)
                      => Reviewers(db', p) = Reviewers(db, p)]_db

\* Whoever becomes a reviewer is active once the change is committed.
NewReviewersActive ==
  [][\A p \in PRs : \A u \in Reviewers(db', p) \ Reviewers(db, p) :
       db'[UserKey(u)].active]_db

\* Whoever is deactivated, alone or with a team, reviews no open pull request
\* when the answer comes.
DeactivatedStepDown ==
  [][\A w \in Workers :
       /\ Granted(w, "SetActive") /\ ~req[w].active => OpenReviews(db', req[w].user) = {}
       /\ Granted(w, "DeactivateTeam") =>
            \A u \in TeamMembers(db', req[w].team) : OpenReviews(db', u) = {}]_vars

\* A pull request loses a reviewer to SetActive(false) only if nobody in the
\* reviewer's team can take over; otherwise their number stays.
HandoverKeepsNumber ==
  [][\A w \in Workers : Granted(w, "SetActive") /\ ~req[w].active =>
       \A p \in OpenReviews(db, req[w].user) :
         LET lost == IF HandoverCandidates(db, p, req[w].user) = {} THEN 1 ELSE 0
         IN  Cardinality(Reviewers(db', p)) + lost = Cardinality(Reviewers(db, p))]_vars

\* A granted Merge answers with a merged pull request.
MergeAnswersMerged ==
  \A w \in Workers :
    pc[w] = "done" /\ req[w].op = "Merge" /\ res[w].code = "OK" => res[w].pr.status = "MERGED"

\* Members who are moved to a new team leave the open pull requests of the old
\* one: those they reviewed, and those they took over in the same request.
MoversStepDown ==
  [][\A w \in Workers : Granted(w, "CreateTeam") =>
       \A i \in DOMAIN req[w].members : OpenReviews(db', req[w].members[i].user) = {}]_vars
==============================================================================
