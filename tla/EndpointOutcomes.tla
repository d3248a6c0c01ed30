--------------------------- MODULE EndpointOutcomes ---------------------------
(***************************************************************************)
(* What each writing endpoint of the service (internal/services) makes of  *)
(* a database nobody else changes: the set of its possible outcomes, each  *)
(* the database it leaves and its answer.                                  *)
(***************************************************************************)
EXTENDS AssignmentApi

Outcome(s, ans_)  == [db |-> s, ans |-> ans_]
Done(s)           == Outcome(s, Answer("OK", Absent))
Refused(s, code)  == {Outcome(s, Answer(code, Absent))}

Without(s, keys) == [k \in Keys |-> IF k \in keys THEN Absent ELSE s[k]]
With(s, found)   == [k \in Keys |-> IF k \in AddReviewers(s, found) THEN Present ELSE s[k]]

\* u reviews nothing that is open.
SteppedDown(s, u) == Without(s, RemoveReviewerFromOpenPRs(s, u))

(***************************************************************************)
(* SetActive(false): the user steps down from every open pull request, a   *)
(* candidate takes over where there is one.                                *)
(***************************************************************************)
Switched(s, u, on) == [s EXCEPT ![UserKey(u)].active = on]

SetActiveOutcomes(s, u, on) ==
  LET set == Switched(s, u, on)
  IN  CASE ~Has(s, UserKey(u)) -> Refused(s, "NOT_FOUND")
        [] Has(s, UserKey(u)) /\ on -> {Done(set)}
        [] Has(s, UserKey(u)) /\ ~on ->
             {Done(With(SteppedDown(set, u), found)) :
                found \in GetReassignmentCandidatesForReviewer(set, u)}

(***************************************************************************)
(* CreateTeam: the members hand over in turn, each seeing the removals of  *)
(* those before, and keep their reviews when nobody can take any of them;  *)
(* the candidates are added at the end, if they are still active then.     *)
(***************************************************************************)
HandOver(xs, u) ==
  UNION {{[db    |-> IF found = {} THEN x.db ELSE SteppedDown(x.db, u),
           found |-> x.found \cup found] :
             found \in GetReassignmentCandidatesForReviewer(x.db, u)} : x \in xs}

\* What can have come of it after the first n members.
HandedOver(s, members) ==
  LET after[n \in 0 .. Len(members)] ==
        IF n = 0 THEN {[db |-> s, found |-> {}]}
                 ELSE HandOver(after[n - 1], members[n].user)
  IN  after

\* A user among the first n members gets the row of their last mention there.
Mentions(members, n, u) == {i \in 1 .. n : members[i].user = u}

LastMention(members, n, u) ==
  CHOOSE i \in Mentions(members, n, u) : \A j \in Mentions(members, n, u) : j <= i

Enlist(s, t, members, n) ==
  [k \in Keys |->
     CASE k = TeamKey(t) -> Present
       [] k \in UserKeys /\ Mentions(members, n, k[2]) # {} ->
            [team |-> t, active |-> members[LastMention(members, n, k[2])].active]
       [] OTHER -> s[k]]

CreateTeamOutcomes(s, t, members) ==
  LET n == Len(members)
  IN  IF Has(s, TeamKey(t)) THEN Refused(s, "TEAM_EXISTS")
      ELSE {Done(With(Enlist(x.db, t, members, n), x.found)) : x \in HandedOver(s, members)[n]}

(***************************************************************************)
(* DeactivateTeam: nobody in the team is active, or a reviewer, any more.  *)
(***************************************************************************)
SwitchedOff(s, t) ==
  [k \in Keys |-> IF k \in {UserKey(u) : u \in TeamMembers(s, t)}
                    THEN [s[k] EXCEPT !.active = FALSE] ELSE s[k]]

DeactivateTeamOutcomes(s, t) ==
  IF ~Has(s, TeamKey(t)) THEN Refused(s, "NOT_FOUND")
  ELSE {Done(Without(SwitchedOff(s, t), RemoveTeamReviewersFromOpenPRs(s, t)))}

(***************************************************************************)
(* Pull requests.                                                          *)
(***************************************************************************)
Opened(s, p, author) ==
  [s EXCEPT ![PRKey(p)] = [author |-> author, status |-> "OPEN", merged_at |-> Absent]]

CreatePROutcomes(s, p, author) ==
  LET new(R) == With(Opened(s, p, author), {<<p, u>> : u \in R})
  IN  CASE ~Has(s, UserKey(author)) -> Refused(s, "NOT_FOUND")
        [] Has(s, UserKey(author)) /\ Has(s, PRKey(p)) -> Refused(s, "PR_EXISTS")
        [] Has(s, UserKey(author)) /\ ~Has(s, PRKey(p)) ->
             {Outcome(new(R), Answer("OK", GetByID(new(R), p))) :
                R \in GetTwoActiveTeamMembersByAuthorID(s, author)}

MergeOutcomes(s, p) ==
  LET merged(now) == [s EXCEPT ![PRKey(p)].status = "MERGED",
                               ![PRKey(p)].merged_at = now]
      answered(d) == Outcome(d, Answer("OK", GetByID(d, p)))
  IN  CASE ~Has(s, PRKey(p)) -> Refused(s, "NOT_FOUND")
        [] IsOpen(s, p) -> {answered(merged(now)) : now \in Instants}
        [] Has(s, PRKey(p)) /\ ~IsOpen(s, p) -> {answered(s)}

Swapped(s, p, old, new) == [s EXCEPT ![RevKey(p, old)] = Absent, ![RevKey(p, new)] = Present]

ReassignOutcomes(s, p, old) ==
  CASE ~Has(s, PRKey(p)) -> Refused(s, "NOT_FOUND")
    [] Has(s, PRKey(p)) /\ ~IsOpen(s, p) -> Refused(s, "PR_MERGED")
    [] IsOpen(s, p) /\ old \notin Reviewers(s, p) -> Refused(s, "NOT_ASSIGNED")
    [] IsOpen(s, p) /\ old \in Reviewers(s, p) ->
         IF ReassignCandidates(s, p, old) = {} THEN Refused(s, "NO_CANDIDATE")
         ELSE {Outcome(d, Answer("OK", GetByID(d, p))) :
                 d \in {Swapped(s, p, old, new) : new \in ReassignCandidates(s, p, old)}}

Outcomes(s, r) ==
  CASE r.op = "SetActive"      -> SetActiveOutcomes(s, r.user, r.active)
    [] r.op = "CreateTeam"     -> CreateTeamOutcomes(s, r.team, r.members)
    [] r.op = "DeactivateTeam" -> DeactivateTeamOutcomes(s, r.team)
    [] r.op = "CreatePR"       -> CreatePROutcomes(s, r.pr, r.author)
    [] r.op = "Merge"          -> MergeOutcomes(s, r.pr)
    [] r.op = "Reassign"       -> ReassignOutcomes(s, r.pr, r.old)
==============================================================================
