------------------------------- MODULE ApiServer -------------------------------
(***************************************************************************)
(* The server of one request: the router, the ten generated handlers       *)
(* (oas_router_gen.go, oas_handlers_gen.go) and what the services can      *)
(* answer.  Which of its answers a service gives is AssignmentService's    *)
(* matter and left open here; what the answers hold is not, and comes from *)
(* the names the database has stored.                                      *)
(***************************************************************************)
EXTENDS ApiTransport

CONSTANTS Uuids, Instants

\* A UUID is read as itself, and two seconds have two texts.
ASSUME IdsAndTimes ==
  /\ Range(UuidOf) = Uuids
  /\ \A u \in Uuids : u \in DOMAIN UuidOf /\ UuidOf[u] = u
  /\ \A t \in Instants : t \div Halves \in DOMAIN Stamps
  /\ \A s1, s2 \in DOMAIN Stamps : Stamps[s1] = Stamps[s2] => s1 = s2

NoArg   == [none |-> TRUE]
NoNames == [teams |-> {}, users |-> {}, prs |-> {}]

(***************************************************************************)
(* Services: the answers each can give to a request when the database      *)
(* holds the names ns.  An insertion wider than its column fails.          *)
(***************************************************************************)
ColumnWidth == [team |-> 50, user |-> 50, pr |-> 255]

Failure(type, code) == Answer(type, [error |-> [code |-> code, message |-> "..."]])
GoError == [go |-> "error"]

\* Bound: the lists in an answer hold at most one element.
AtMostOne(S) == {<<>>} \cup {<<x>> : x \in S}

ShortPRs(ns) ==
  [pull_request_id : Uuids, pull_request_name : ns.prs, author_id : Uuids,
   status : {"OPEN", "MERGED"}]
OpenPRs(id, name, author) ==
  [pull_request_id : {id}, pull_request_name : {name}, author_id : {author},
   status : {"OPEN"}, assigned_reviewers : AtMostOne(Uuids), createdAt : Instants]
MergedPRs(id, name, author) ==
  {[f \in DOMAIN p \cup {"mergedAt"} |->
      CASE f = "status" -> "MERGED" [] f = "mergedAt" -> t [] OTHER -> p[f]] :
     p \in OpenPRs(id, name, author), t \in Instants}
StoredPRs(ns, id) ==
  UNION {OpenPRs(id, n, u) \cup MergedPRs(id, n, u) : n \in ns.prs, u \in Uuids}

CheckHealthAnswers == {Answer(CheckHealthOK, "OK")}

CreatePullRequestAnswers(req) ==
  {Failure(CreatePullRequestNotFound, "NOT_FOUND"),
   Failure(CreatePullRequestConflict, "PR_EXISTS"),
   Failure(CreatePullRequestInternalServerError, "INTERNAL_ERROR")}
  \cup {Answer(CreatePullRequestCreated, [pr |-> p]) :
          p \in IF Len(req.pull_request_name) > ColumnWidth.pr THEN {}
                ELSE OpenPRs(req.pull_request_id, req.pull_request_name, req.author_id)}

\* The created team is the request, echoed.
CreateTeamAnswers(req) ==
  {Failure(CreateTeamConflict, "TEAM_EXISTS"),
   Failure(CreateTeamInternalServerError, "INTERNAL_ERROR")}
  \cup {Answer(CreateTeamCreated, [team |-> t]) :
          t \in {t \in {req} : /\ Len(t.team_name) <= ColumnWidth.team
                               /\ \A m \in Range(t.members) : Len(m.username) <= ColumnWidth.user}}

DeactivateTeamMembersAnswers ==
  {Failure(DeactivateTeamMembersNotFound, "NOT_FOUND"),
   Failure(DeactivateTeamMembersInternalServerError, "INTERNAL_ERROR")}
  \cup {Answer(DeactivateTeamMembersOK, v) : v \in [deactivated_count : {0, 1}, removed_count : {0, 2}]}

\* The statistics are the only service that returns a Go error.
GetAssignmentStatsAnswers(ns) ==
  {GoError} \cup
  {Answer(GetAssignmentStatsOK, v) : v \in
     [user_stats : AtMostOne([user_id : Uuids, username : ns.users, assignment_count : {0, 1}]),
      pr_stats : AtMostOne([pull_request_id : Uuids, pull_request_name : ns.prs, reviewer_count : {2}])]}

GetTeamAnswers(ns, params) ==
  {Failure(GetTeamNotFound, "NOT_FOUND"), Failure(GetTeamInternalServerError, "INTERNAL_ERROR")}
  \cup {Answer(Team, v) : v \in
          [team_name : ns.teams \cap {params.team_name},
           members : AtMostOne([user_id : Uuids, username : ns.users, is_active : BOOLEAN])]}

GetUserReviewsAnswers(ns, params) ==
  {Failure(GetUserReviewsNotFound, "NOT_FOUND"),
   Failure(GetUserReviewsInternalServerError, "INTERNAL_ERROR")}
  \cup {Answer(GetUserReviewsOK, v) : v \in
          [user_id : {params.user_id}, pull_requests : AtMostOne(ShortPRs(ns))]}

MergePullRequestAnswers(ns, req) ==
  {Failure(MergePullRequestNotFound, "NOT_FOUND"),
   Failure(MergePullRequestInternalServerError, "INTERNAL_ERROR")}
  \cup {Answer(MergePullRequestOK, [pr |-> p]) : p \in StoredPRs(ns, req.pull_request_id)}

ReassignReviewerAnswers(ns, req) ==
  {Failure(ReassignReviewerNotFound, "NOT_FOUND"),
   Failure(ReassignReviewerInternalServerError, "INTERNAL_ERROR")}
  \cup {Failure(ReassignReviewerConflict, c) : c \in {"PR_MERGED", "NOT_ASSIGNED", "NO_CANDIDATE"}}
  \cup {Answer(ReassignReviewerOK, v) : v \in
          [pr : StoredPRs(ns, req.pull_request_id), replaced_by : Uuids]}

SetUserActiveAnswers(ns, req) ==
  {Failure(SetUserActiveNotFound, "NOT_FOUND"),
   Failure(SetUserActiveInternalServerError, "INTERNAL_ERROR")}
  \cup {Answer(SetUserActiveOK, [user |-> v]) : v \in
          [user_id : {req.user_id}, username : ns.users, team_name : ns.teams,
           is_active : {req.is_active}]}

\* The names in the database after a creation has been committed ...
WithTeam(ns, team) ==
  [ns EXCEPT !.teams = @ \cup {team.team_name},
             !.users = @ \cup {m.username : m \in Range(team.members)}]
WithPR(ns, pr) == [ns EXCEPT !.prs = @ \cup {pr.pull_request_name}]

\* ... and those there may be after a service has answered a to arg: a creation
\* answers 500 also when it has been committed and the answer to COMMIT is lost.
Stored(ns, arg, a) ==
  CASE a.go = "CreateTeamCreated"                    -> {WithTeam(ns, arg)}
    [] a.go = "CreateTeamInternalServerError"        -> {ns, WithTeam(ns, arg)}
    [] a.go = "CreatePullRequestCreated"             -> {WithPR(ns, arg)}
    [] a.go = "CreatePullRequestInternalServerError" -> {ns, WithPR(ns, arg)}
    [] OTHER                                         -> {ns}

(***************************************************************************)
(* Handlers: the request is read, or refused before the service runs; then *)
(* the answer is written.  An outcome is the run of the service, if any,   *)
(* and the response.                                                       *)
(***************************************************************************)
Handle(op, read, Answers(_), Write(_)) ==
  IF read.status = 200
    THEN {[ran  |-> <<[op |-> op, arg |-> read.value, answer |-> a]>>,
           resp |-> IF a.go = GoError.go THEN ErrorHandler(500) ELSE Write(a)] :
            a \in Answers(read.value)}
    ELSE {[ran |-> <<>>, resp |-> ErrorHandler(read.status)]}

handleCheckHealthRequest(m, ns) ==
  Handle("CheckHealth", Good(NoArg), LAMBDA x : CheckHealthAnswers, encodeCheckHealthResponse)
handleCreatePullRequestRequest(m, ns) ==
  Handle("CreatePullRequest", decodeCreatePullRequestRequest(m),
         CreatePullRequestAnswers, encodeCreatePullRequestResponse)
handleCreateTeamRequest(m, ns) ==
  Handle("CreateTeam", decodeCreateTeamRequest(m), CreateTeamAnswers, encodeCreateTeamResponse)
handleDeactivateTeamMembersRequest(m, ns) ==
  Handle("DeactivateTeamMembers", decodeDeactivateTeamMembersRequest(m),
         LAMBDA x : DeactivateTeamMembersAnswers, encodeDeactivateTeamMembersResponse)
handleGetAssignmentStatsRequest(m, ns) ==
  Handle("GetAssignmentStats", Good(NoArg),
         LAMBDA x : GetAssignmentStatsAnswers(ns), encodeGetAssignmentStatsResponse)
handleGetTeamRequest(m, ns) ==
  Handle("GetTeam", decodeGetTeamParams(m),
         LAMBDA x : GetTeamAnswers(ns, x), encodeGetTeamResponse)
handleGetUserReviewsRequest(m, ns) ==
  Handle("GetUserReviews", decodeGetUserReviewsParams(m),
         LAMBDA x : GetUserReviewsAnswers(ns, x), encodeGetUserReviewsResponse)
handleMergePullRequestRequest(m, ns) ==
  Handle("MergePullRequest", decodeMergePullRequestRequest(m),
         LAMBDA x : MergePullRequestAnswers(ns, x), encodeMergePullRequestResponse)
handleReassignReviewerRequest(m, ns) ==
  Handle("ReassignReviewer", decodeReassignReviewerRequest(m),
         LAMBDA x : ReassignReviewerAnswers(ns, x), encodeReassignReviewerResponse)
handleSetUserActiveRequest(m, ns) ==
  Handle("SetUserActive", decodeSetUserActiveRequest(m),
         LAMBDA x : SetUserActiveAnswers(ns, x), encodeSetUserActiveResponse)

(***************************************************************************)
(* The router.  ogen's notFound is a text, its notAllowed has no body and  *)
(* takes OPTIONS for a preflight request.                                  *)
(***************************************************************************)
NotFoundText  == Str("404 page not found")
notFound      == {[ran |-> <<>>, resp |-> Response(404, Plain, <<NotFoundText>>)]}
notAllowed(m) == {[ran |-> <<>>, resp |-> Response(IF m.method = "OPTIONS" THEN 204 ELSE 405, Empty, <<>>)]}

Allow(method, m, outcomes) == IF m.method = method THEN outcomes ELSE notAllowed(m)

ServeHTTP(m, ns) ==
  CASE m.path = "/health"               -> Allow("GET", m, handleCheckHealthRequest(m, ns))
    [] m.path = "/pullRequest/create"   -> Allow("POST", m, handleCreatePullRequestRequest(m, ns))
    [] m.path = "/pullRequest/merge"    -> Allow("POST", m, handleMergePullRequestRequest(m, ns))
    [] m.path = "/pullRequest/reassign" -> Allow("POST", m, handleReassignReviewerRequest(m, ns))
    [] m.path = "/stats/assignments"    -> Allow("GET", m, handleGetAssignmentStatsRequest(m, ns))
    [] m.path = "/team/add"             -> Allow("POST", m, handleCreateTeamRequest(m, ns))
    [] m.path = "/team/deactivate"      -> Allow("POST", m, handleDeactivateTeamMembersRequest(m, ns))
    [] m.path = "/team/get"             -> Allow("GET", m, handleGetTeamRequest(m, ns))
    [] m.path = "/users/getReview"      -> Allow("GET", m, handleGetUserReviewsRequest(m, ns))
    [] m.path = "/users/setIsActive"    -> Allow("POST", m, handleSetUserActiveRequest(m, ns))
    [] OTHER -> notFound
==============================================================================
