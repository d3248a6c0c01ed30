------------------------------- MODULE ApiTypes -------------------------------
(***************************************************************************)
(* The types of internal/api: what their JSON holds (oas_json_gen.go), in  *)
(* the terms of JsonCodec, and what their Validate methods demand          *)
(* (oas_validators_gen.go).  A type none of whose fields is restricted has *)
(* no Validate, and no operator here.                                      *)
(***************************************************************************)
EXTENDS JsonCodec, Functions

CONSTANTS
  Slugs,    (* texts that match ^[a-z0-9][a-z0-9_-]*[a-z0-9]$               *)
  Labels    (* texts that match ^[a-zA-Z0-9][a-zA-Z0-9_ -]*[a-zA-Z0-9]$     *)

\* Every slug is a label too: the second pattern has every character of the
\* first at every place.
ASSUME SlugsAreLabels == Slugs \subseteq Labels

(***************************************************************************)
(* Names and codes are texts in JSON, and restricted by Validate only.     *)
(***************************************************************************)
TeamName               == Text
Username               == Text
PullRequestName        == Text
PullRequestStatus      == Text
PullRequestShortStatus == Text
ErrorResponseErrorCode == Text

ValidTeamName(n)        == Len(n) \in 3..50 /\ n \in Slugs

\* Mutant: a user may have a name as long as that of a pull request.
ValidUsernameUpTo255(n) == Len(n) \in 3..255 /\ n \in Labels

ValidUsername(n)        == Len(n) \in 3..50 /\ n \in Labels
ValidPullRequestName(n) == Len(n) \in 3..255 /\ n \in Labels

ValidPullRequestStatus(s)      == s \in {"OPEN", "MERGED"}
ValidPullRequestShortStatus(s) == s \in {"OPEN", "MERGED"}
ValidErrorResponseErrorCode(c) ==
  c \in {"TEAM_EXISTS", "PR_EXISTS", "PR_MERGED", "NOT_ASSIGNED", "NO_CANDIDATE",
         "NOT_FOUND", "INVALID_INPUT", "INTERNAL_ERROR"}

(***************************************************************************)
(* Teams and users.                                                        *)
(***************************************************************************)
TeamMember ==
  Object("TeamMember",
    <<Needed("user_id", Uuid), Needed("username", Username), Needed("is_active", Flag)>>)
Team ==
  Object("Team", <<Needed("team_name", TeamName), Needed("members", ListOf(TeamMember))>>)
User ==
  Object("User",
    <<Needed("user_id", Uuid), Needed("username", Username), Needed("team_name", TeamName),
      Needed("is_active", Flag)>>)

ValidTeamMember(m) == ValidUsername(m.username)
ValidTeam(t) ==
  /\ ValidTeamName(t.team_name)
  /\ \A m \in Range(t.members) : ValidTeamMember(m)
ValidUser(u) == ValidUsername(u.username) /\ ValidTeamName(u.team_name)

OptTeam(name) == Opt(name, Team)
OptUser(name) == Opt(name, User)

(***************************************************************************)
(* Pull requests.                                                          *)
(***************************************************************************)
OptNilDateTime(name) == Opt(name, NilDateTime)

PullRequest ==
  Object("PullRequest",
    <<Needed("pull_request_id", Uuid), Needed("pull_request_name", PullRequestName),
      Needed("author_id", Uuid), Needed("status", PullRequestStatus),
      Needed("assigned_reviewers", ListOf(Uuid)),
      OptNilDateTime("createdAt"), OptNilDateTime("mergedAt")>>)
PullRequestShort ==
  Object("PullRequestShort",
    <<Needed("pull_request_id", Uuid), Needed("pull_request_name", PullRequestName),
      Needed("author_id", Uuid), Needed("status", PullRequestShortStatus)>>)

ValidPullRequest(p) ==
  ValidPullRequestName(p.pull_request_name) /\ ValidPullRequestStatus(p.status)
ValidPullRequestShort(p) ==
  ValidPullRequestName(p.pull_request_name) /\ ValidPullRequestShortStatus(p.status)

OptPullRequest(name) == Opt(name, PullRequest)

(***************************************************************************)
(* Request bodies.                                                         *)
(***************************************************************************)
CreatePullRequestReq ==
  Object("CreatePullRequestReq",
    <<Needed("pull_request_id", Uuid), Needed("pull_request_name", PullRequestName),
      Needed("author_id", Uuid)>>)
DeactivateTeamMembersReq ==
  Object("DeactivateTeamMembersReq", <<Needed("team_name", TeamName)>>)
MergePullRequestReq ==
  Object("MergePullRequestReq", <<Needed("pull_request_id", Uuid)>>)
ReassignReviewerReq ==
  Object("ReassignReviewerReq",
    <<Needed("pull_request_id", Uuid), Needed("old_user_id", Uuid)>>)
SetUserActiveReq ==
  Object("SetUserActiveReq", <<Needed("user_id", Uuid), Needed("is_active", Flag)>>)

ValidCreatePullRequestReq(r)     == ValidPullRequestName(r.pull_request_name)
ValidDeactivateTeamMembersReq(r) == ValidTeamName(r.team_name)

(***************************************************************************)
(* Answers of success.                                                     *)
(***************************************************************************)
CreatePullRequestCreated == Object("CreatePullRequestCreated", <<OptPullRequest("pr")>>)
CreateTeamCreated        == Object("CreateTeamCreated", <<OptTeam("team")>>)
DeactivateTeamMembersOK ==
  Object("DeactivateTeamMembersOK",
    <<Needed("deactivated_count", GoInt), Needed("removed_count", GoInt)>>)
GetAssignmentStatsOKUserStatsItem ==
  Object("GetAssignmentStatsOKUserStatsItem",
    <<Needed("user_id", Uuid), Needed("username", Text), Needed("assignment_count", GoInt)>>)
GetAssignmentStatsOKPrStatsItem ==
  Object("GetAssignmentStatsOKPrStatsItem",
    <<Needed("pull_request_id", Uuid), Needed("pull_request_name", Text),
      Needed("reviewer_count", GoInt)>>)
GetAssignmentStatsOK ==
  Object("GetAssignmentStatsOK",
    <<Needed("user_stats", ListOf(GetAssignmentStatsOKUserStatsItem)),
      Needed("pr_stats", ListOf(GetAssignmentStatsOKPrStatsItem))>>)
GetUserReviewsOK ==
  Object("GetUserReviewsOK",
    <<Needed("user_id", Uuid), Needed("pull_requests", ListOf(PullRequestShort))>>)
MergePullRequestOK == Object("MergePullRequestOK", <<OptPullRequest("pr")>>)
ReassignReviewerOK ==
  Object("ReassignReviewerOK", <<Needed("pr", PullRequest), Needed("replaced_by", Uuid)>>)
SetUserActiveOK == Object("SetUserActiveOK", <<OptUser("user")>>)

WhenSet(v, name, Valid(_)) == name \in DOMAIN v => Valid(v[name])

ValidCreatePullRequestCreated(v) == WhenSet(v, "pr", ValidPullRequest)
ValidCreateTeamCreated(v)        == WhenSet(v, "team", ValidTeam)
ValidGetUserReviewsOK(v)   == \A p \in Range(v.pull_requests) : ValidPullRequestShort(p)
ValidMergePullRequestOK(v) == WhenSet(v, "pr", ValidPullRequest)
ValidReassignReviewerOK(v) == ValidPullRequest(v.pr)
ValidSetUserActiveOK(v)    == WhenSet(v, "user", ValidUser)
Unrestricted(v)            == TRUE

(***************************************************************************)
(* Answers of failure: one Go type per operation and status, all of them   *)
(* ErrorResponse under another name.                                       *)
(***************************************************************************)
ErrorResponseError ==
  Object("ErrorResponseError",
    <<Needed("code", ErrorResponseErrorCode), Needed("message", Text)>>)
ErrorResponse == Object("ErrorResponse", <<Needed("error", ErrorResponseError)>>)

ValidErrorResponseError(e) == ValidErrorResponseErrorCode(e.code)
ValidErrorResponse(v)      == ValidErrorResponseError(v.error)

CreatePullRequestBadRequest          == Alias("CreatePullRequestBadRequest", ErrorResponse)
CreatePullRequestConflict            == Alias("CreatePullRequestConflict", ErrorResponse)
CreatePullRequestInternalServerError == Alias("CreatePullRequestInternalServerError", ErrorResponse)
CreatePullRequestNotFound            == Alias("CreatePullRequestNotFound", ErrorResponse)

CreateTeamBadRequest          == Alias("CreateTeamBadRequest", ErrorResponse)
CreateTeamConflict            == Alias("CreateTeamConflict", ErrorResponse)
CreateTeamInternalServerError == Alias("CreateTeamInternalServerError", ErrorResponse)

DeactivateTeamMembersBadRequest          == Alias("DeactivateTeamMembersBadRequest", ErrorResponse)
DeactivateTeamMembersInternalServerError == Alias("DeactivateTeamMembersInternalServerError", ErrorResponse)
DeactivateTeamMembersNotFound            == Alias("DeactivateTeamMembersNotFound", ErrorResponse)

GetTeamBadRequest          == Alias("GetTeamBadRequest", ErrorResponse)
GetTeamInternalServerError == Alias("GetTeamInternalServerError", ErrorResponse)
GetTeamNotFound            == Alias("GetTeamNotFound", ErrorResponse)

GetUserReviewsBadRequest          == Alias("GetUserReviewsBadRequest", ErrorResponse)
GetUserReviewsInternalServerError == Alias("GetUserReviewsInternalServerError", ErrorResponse)
GetUserReviewsNotFound            == Alias("GetUserReviewsNotFound", ErrorResponse)

MergePullRequestBadRequest          == Alias("MergePullRequestBadRequest", ErrorResponse)
MergePullRequestInternalServerError == Alias("MergePullRequestInternalServerError", ErrorResponse)
MergePullRequestNotFound            == Alias("MergePullRequestNotFound", ErrorResponse)

ReassignReviewerBadRequest          == Alias("ReassignReviewerBadRequest", ErrorResponse)
ReassignReviewerConflict            == Alias("ReassignReviewerConflict", ErrorResponse)
ReassignReviewerInternalServerError == Alias("ReassignReviewerInternalServerError", ErrorResponse)
ReassignReviewerNotFound            == Alias("ReassignReviewerNotFound", ErrorResponse)

SetUserActiveBadRequest          == Alias("SetUserActiveBadRequest", ErrorResponse)
SetUserActiveInternalServerError == Alias("SetUserActiveInternalServerError", ErrorResponse)
SetUserActiveNotFound            == Alias("SetUserActiveNotFound", ErrorResponse)
===============================================================================
