---------------------------- MODULE RequestWindow ----------------------------
(***************************************************************************)
(* AssignmentService with history variables: what each request has had a   *)
(* chance to read since it was taken.    Concurrency may make a request    *)
(* act on data that is out of date, but never on data older than itself.   *)
(***************************************************************************)
EXTENDS AssignmentService

VARIABLES
  open,     (* open[w]: pull requests w has seen open during its request   *)
  active,   (* active[w]: users w has seen active during its request       *)
  idle,     (* idle[w]: users w has not seen active at some moment of it   *)
  missing   (* missing[w]: teams, users and pull requests there were not
               when w's request was taken                                  *)

IsActive(s, u) == Has(s, UserKey(u)) /\ s[UserKey(u)].active

windowVars == <<vars, open, active, idle, missing>>

\* old[w] grows by what w sees after the step, and starts anew with a request.
Track(old, w, sees) ==
  IF pc'[w] = "done" THEN {} ELSE (IF pc[w] = "done" THEN {} ELSE old[w]) \cup sees

WindowInit ==
  /\ Init
  /\ open = [w \in Workers |-> {}]
  /\ active = [w \in Workers |-> {}]
  /\ idle = [w \in Workers |-> {}]
  /\ missing = [w \in Workers |-> {}]

WindowNext ==
  /\ Next
  /\ open' = [w \in Workers |-> Track(open, w, {p \in PRs : IsOpen(See(w), p)'})]
  /\ active' = [w \in Workers |-> Track(active, w, {u \in Users : IsActive(See(w), u)'})]
  /\ idle' = [w \in Workers |-> Track(idle, w, {u \in Users : ~IsActive(See(w), u)'})]
  /\ missing' = [w \in Workers |->
       IF pc[w] = "done" THEN Track(missing, w, {k \in LastingKeys : ~Has(db, k)})
       ELSE Track(missing, w, {})]

WindowSpec == WindowInit /\ [][WindowNext]_windowVars

\* What w sees now it has seen during its request, and what there is not now
\* was missing when it was taken.
SeenInWindow(w) == pc[w] # "done" =>
  /\ \A p \in PRs : IsOpen(See(w), p) => p \in open[w]
  /\ \A u \in Users : u \in IF IsActive(See(w), u) THEN active[w] ELSE idle[w]
  /\ \A k \in LastingKeys : ~Has(db, k) => k \in missing[w]

\* The reviewers w has written, is writing, or keeps in memory to write.
WritesInWindow(w) == pc[w] # "done" =>
  /\ \A p \in PRs, u \in Users :
       /\ tx[w][RevKey(p, u)] # Unwritten => p \in open[w]
       /\ tx[w][RevKey(p, u)] = Present => u \in active[w]
       /\ pc[w] \in {"removing", "lockOld"} /\ RevKey(p, u) \in todo[w] => p \in open[w]
       /\ pc[w] = "adding" /\ RevKey(p, u) \in todo[w] => u \in active[w]
  /\ \A a \in items[w] :
       /\ pc[w] \notin {"authorExists", "insertPR"} => a[1] \in open[w]
       /\ pc[w] \in {"lockOld", "lockNew"} => a[2] \in active[w]

\* No answer is NOT_FOUND before its time, and the snapshot of SetActive's
\* statement lacks no team that was there when the request was taken.
MissesInWindow(w) == pc[w] # "done" =>
  /\ res[w].code # "NOT_FOUND"
  /\ pc[w] = "lockUser" => \A t \in Teams \ seen[w] : TeamKey(t) \in missing[w]

\* The reviewers CreatePR has picked are written, are going to be, or have been
\* inactive since the request was taken.
LeavesOutIdle(w) == req[w].op = "CreatePR" /\ pc[w] \in {"adding", "commit"} =>
  \A u \in Picked(w) : LET k == RevKey(req[w].pr, u) IN
    \/ tx[w][k] = Present
    \/ pc[w] = "adding" /\ k \in todo[w]
    \/ u \in idle[w]

\* Whatever a request relies on, and whatever it is going to write, it has
\* seen since it was taken: with Inductive and AnswersHeld, an inductive
\* invariant.
WindowHeld == \A w \in Workers :
  SeenInWindow(w) /\ WritesInWindow(w) /\ MissesInWindow(w) /\ LeavesOutIdle(w)

\* A request changes the reviewers of a pull request only if that pull request
\* was open at some moment of the request, and adds a reviewer only if the
\* user was active at some moment of it: a merge or a deactivation that is
\* answered before a request is sent is respected by that request, whatever
\* else runs (repos/pr, the status and is_active conditions of its queries).
ActsWithinWindow ==
  [][\A w \in Workers : Ends(w) =>
       \A p \in PRs, u \in Users :
         Has(db, RevKey(p, u)) # Has(db', RevKey(p, u)) =>
           /\ p \in open[w]
           /\ Has(db', RevKey(p, u)) => u \in active[w]]_windowVars

\* The answer to a creation may list a reviewer the pull request does not have
\* (AddReviewers filters by is_active once more, and CreatePR does not read its
\* rows again), but only one who was inactive at some moment of the request:
\* nobody else is dropped without the answer knowing.
AnswerLacksOnlyIdle ==
  [][\A w \in Workers : Granted(w, "CreatePR") =>
       res'[w].pr.reviewers \ Reviewers(db', req[w].pr) \subseteq idle[w]]_windowVars

\* What a request cannot do without.
Named(r) ==
  CASE r.op \in {"CreateTeam", "DeactivateTeam"} -> TeamKey(r.team)
    [] r.op = "SetActive"                         -> UserKey(r.user)
    [] r.op = "CreatePR"                          -> UserKey(r.author)
    [] r.op \in {"Merge", "Reassign"}             -> PRKey(r.pr)

\* The user is there, and has meanwhile been moved into a team that another
\* request has created, which the JOIN of repos/user SetActive does not find in
\* its older snapshot.
MovedMeanwhile(w) ==
  /\ req[w].op = "SetActive"
  /\ Has(db, UserKey(req[w].user))
  /\ TeamKey(db[UserKey(req[w].user)].team) \in missing[w]

\* Of the checks spread over the statements of a handler only one takes for
\* missing what others are changing: unless SetActive is asked for a user
\* MovedMeanwhile, NOT_FOUND means that what the request names was not there
\* when the request was taken.
NotFoundUnlessMoved ==
  [][\A w \in Workers : Ends(w) /\ res'[w].code = "NOT_FOUND" =>
       Named(req[w]) \in missing[w] \/ MovedMeanwhile(w)]_windowVars

\* NOT_FOUND is true at some moment of the request ("Пользователь не найден" in
\* openapi.yaml, and so for teams, authors and pull requests): what it names,
\* and is never deleted, was missing when the request was taken.  SetActive
\* breaks it for a user who is there all along.
NotFoundTrue ==
  [][\A w \in Workers : Ends(w) /\ res'[w].code = "NOT_FOUND" =>
       Named(req[w]) \in missing[w]]_windowVars
==============================================================================
