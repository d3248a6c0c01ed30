----------------------------- MODULE ApiTransport -----------------------------
(***************************************************************************)
(* Requests and responses on the wire: what the generated client sends for *)
(* a call and makes of a response (oas_client_gen.go, oas_request_encoders *)
(* and oas_response_decoders), and what the server makes of a request and  *)
(* sends for an answer (oas_request_decoders, oas_parameters_gen.go and    *)
(* oas_response_encoders).                                                 *)
(*                                                                         *)
(* A body is the sequence of the JSON values in it: <<>> is an empty body, *)
(* and two values are one value and trailing data.                         *)
(***************************************************************************)
EXTENDS ApiTypes

Json  == "application/json"
Plain == "text/plain"
Empty == ""              (* no header, no text *)

Get(path, query) ==
  [method |-> "GET", path |-> path, query |-> query, ctype |-> Empty, body |-> <<>>]
Post(path, body) ==
  [method |-> "POST", path |-> path, query |-> <<>>, ctype |-> Json, body |-> body]

Response(status, ctype, body) == [status |-> status, ctype |-> ctype, body |-> body]

\* What a service answers: a value of one of the types the operation has.
Answer(type, value) == [go |-> type.go, value |-> value]

\* GetTeam answers with a Team itself, CheckHealth with bytes.
CheckHealthOK == [kind |-> "bytes", go |-> "CheckHealthOK"]

(***************************************************************************)
(* The client's requests.  The client does not validate what it sends.     *)
(***************************************************************************)
encodeCreatePullRequestRequest(req)     == <<Encode(CreatePullRequestReq, req)>>
encodeCreateTeamRequest(req)            == <<Encode(Team, req)>>
encodeDeactivateTeamMembersRequest(req) == <<Encode(DeactivateTeamMembersReq, req)>>
encodeMergePullRequestRequest(req)      == <<Encode(MergePullRequestReq, req)>>
encodeReassignReviewerRequest(req)      == <<Encode(ReassignReviewerReq, req)>>
encodeSetUserActiveRequest(req)         == <<Encode(SetUserActiveReq, req)>>

sendCheckHealth        == Get("/health", <<>>)
sendGetAssignmentStats == Get("/stats/assignments", <<>>)
sendGetTeam(params)        == Get("/team/get", [team_name |-> params.team_name])
sendGetUserReviews(params) == Get("/users/getReview", [user_id |-> params.user_id])
sendCreatePullRequest(req) == Post("/pullRequest/create", encodeCreatePullRequestRequest(req))
sendCreateTeam(req)        == Post("/team/add", encodeCreateTeamRequest(req))
sendDeactivateTeamMembers(req) ==
  Post("/team/deactivate", encodeDeactivateTeamMembersRequest(req))
sendMergePullRequest(req)  == Post("/pullRequest/merge", encodeMergePullRequestRequest(req))
sendReassignReviewer(req)  == Post("/pullRequest/reassign", encodeReassignReviewerRequest(req))
sendSetUserActive(req)     == Post("/users/setIsActive", encodeSetUserActiveRequest(req))

Send(op, arg) ==
  CASE op = "CheckHealth"           -> sendCheckHealth
    [] op = "CreatePullRequest"     -> sendCreatePullRequest(arg)
    [] op = "CreateTeam"            -> sendCreateTeam(arg)
    [] op = "DeactivateTeamMembers" -> sendDeactivateTeamMembers(arg)
    [] op = "GetAssignmentStats"    -> sendGetAssignmentStats
    [] op = "GetTeam"               -> sendGetTeam(arg)
    [] op = "GetUserReviews"        -> sendGetUserReviews(arg)
    [] op = "MergePullRequest"      -> sendMergePullRequest(arg)
    [] op = "ReassignReviewer"      -> sendReassignReviewer(arg)
    [] op = "SetUserActive"         -> sendSetUserActive(arg)

(***************************************************************************)
(* The server reads a request: the value, or the status of the refusal.    *)
(***************************************************************************)
Good(value) == [status |-> 200, value |-> value]
Bad(status) == [status |-> status]

\* A body must be announced as JSON, be one value of the type, and be valid.
DecodeBody(m, type, Check(_)) ==
  LET read == IF Len(m.body) = 1 THEN {v \in Decode(type, m.body[1]) : Check(v)} ELSE {}
  IN  CASE m.ctype = Json /\ read # {} -> Good(The(read))
        [] m.ctype \notin {Json, Empty}   -> Bad(415)
        [] m.ctype = Empty \/ (m.ctype = Json /\ read = {}) -> Bad(400)

decodeCreatePullRequestRequest(m) ==
  DecodeBody(m, CreatePullRequestReq, ValidCreatePullRequestReq)
\* Mutant: of the members' names, only the length is checked.
decodeCreateTeamByLength(m) ==
  DecodeBody(m, Team, LAMBDA t : /\ ValidTeamName(t.team_name)
                                 /\ \A u \in Range(t.members) : Len(u.username) \in 3..50)

decodeCreateTeamRequest(m) == DecodeBody(m, Team, ValidTeam)
decodeDeactivateTeamMembersRequest(m) ==
  DecodeBody(m, DeactivateTeamMembersReq, ValidDeactivateTeamMembersReq)
decodeMergePullRequestRequest(m) == DecodeBody(m, MergePullRequestReq, Unrestricted)
decodeReassignReviewerRequest(m) == DecodeBody(m, ReassignReviewerReq, Unrestricted)
decodeSetUserActiveRequest(m)    == DecodeBody(m, SetUserActiveReq, Unrestricted)

decodeGetTeamParams(m) ==
  IF "team_name" \in DOMAIN m.query /\ ValidTeamName(m.query["team_name"])
    THEN Good([team_name |-> m.query["team_name"]]) ELSE Bad(400)
decodeGetUserReviewsParams(m) ==
  IF "user_id" \in DOMAIN m.query /\ m.query["user_id"] \in DOMAIN UuidOf
    THEN Good([user_id |-> UuidOf[m.query["user_id"]]]) ELSE Bad(400)

(***************************************************************************)
(* The server writes an answer: the status its type stands for, and its    *)
(* JSON.  ErrorHandler is ogen's default, which the server keeps: its body *)
(* is not an ErrorResponse.                                                *)
(***************************************************************************)
ErrorHandler(status) ==
  Response(status, Json, <<Obj(<<<<"error_message", Str("...")>>>>)>>)

\* types: the pairs of a status and the type that stands for it.
Written(answer, types) ==
  LET found == {t \in types : t[2].go = answer.go}
      sent  == The(found)
  IN  IF found = {} THEN ErrorHandler(500)
      ELSE Response(sent[1], Json, <<Encode(sent[2], answer.value)>>)

encodeCheckHealthResponse(a) ==
  IF a.go = CheckHealthOK.go THEN Response(200, Plain, <<Str(a.value)>>)
  ELSE Written(a, {<<500, ErrorResponse>>})
encodeCreatePullRequestResponse(a) ==
  Written(a, {<<201, CreatePullRequestCreated>>, <<400, CreatePullRequestBadRequest>>,
              <<404, CreatePullRequestNotFound>>, <<409, CreatePullRequestConflict>>,
              <<500, CreatePullRequestInternalServerError>>})
encodeCreateTeamResponse(a) ==
  Written(a, {<<201, CreateTeamCreated>>, <<400, CreateTeamBadRequest>>,
              <<409, CreateTeamConflict>>, <<500, CreateTeamInternalServerError>>})
encodeDeactivateTeamMembersResponse(a) ==
  Written(a, {<<200, DeactivateTeamMembersOK>>,
              <<400, DeactivateTeamMembersBadRequest>>,
              <<404, DeactivateTeamMembersNotFound>>,
              <<500, DeactivateTeamMembersInternalServerError>>})
encodeGetAssignmentStatsResponse(a) ==
  Written(a, {<<200, GetAssignmentStatsOK>>, <<500, ErrorResponse>>})
encodeGetTeamResponse(a) ==
  Written(a, {<<200, Team>>, <<400, GetTeamBadRequest>>, <<404, GetTeamNotFound>>,
              <<500, GetTeamInternalServerError>>})
encodeGetUserReviewsResponse(a) ==
  Written(a, {<<200, GetUserReviewsOK>>, <<400, GetUserReviewsBadRequest>>,
              <<404, GetUserReviewsNotFound>>,
              <<500, GetUserReviewsInternalServerError>>})
encodeMergePullRequestResponse(a) ==
  Written(a, {<<200, MergePullRequestOK>>, <<400, MergePullRequestBadRequest>>,
              <<404, MergePullRequestNotFound>>,
              <<500, MergePullRequestInternalServerError>>})
\* Mutant: the two refusals share a status.
encodeReassignBothConflict(a) ==
  Written(IF a.go = "ReassignReviewerNotFound" THEN [a EXCEPT !.go = "ReassignReviewerConflict"] ELSE a,
          {<<200, ReassignReviewerOK>>, <<409, ReassignReviewerConflict>>,
           <<500, ReassignReviewerInternalServerError>>})

encodeReassignReviewerResponse(a) ==
  Written(a, {<<200, ReassignReviewerOK>>, <<400, ReassignReviewerBadRequest>>,
              <<404, ReassignReviewerNotFound>>, <<409, ReassignReviewerConflict>>,
              <<500, ReassignReviewerInternalServerError>>})
encodeSetUserActiveResponse(a) ==
  Written(a, {<<200, SetUserActiveOK>>, <<400, SetUserActiveBadRequest>>,
              <<404, SetUserActiveNotFound>>,
              <<500, SetUserActiveInternalServerError>>})

(***************************************************************************)
(* The client reads a response: {the answer}, or {} when it returns an     *)
(* error.  Every status has its type; a status without one is an error.    *)
(***************************************************************************)
Read(r, status, type, Check(_)) ==
  IF r.status = status /\ r.ctype = Json /\ Len(r.body) = 1
    THEN {Answer(type, v) : v \in {v \in Decode(type, r.body[1]) : Check(v)}}
    ELSE {}
ReadError(r, status, type) == Read(r, status, type, ValidErrorResponse)

decodeCheckHealthResponse(r) ==
  (IF r.status = 200 /\ r.ctype = Plain THEN {Answer(CheckHealthOK, r.body[1][2])} ELSE {})
    \cup ReadError(r, 500, ErrorResponse)
decodeCreatePullRequestResponse(r) ==
  Read(r, 201, CreatePullRequestCreated, ValidCreatePullRequestCreated)
    \cup ReadError(r, 400, CreatePullRequestBadRequest)
    \cup ReadError(r, 404, CreatePullRequestNotFound)
    \cup ReadError(r, 409, CreatePullRequestConflict)
    \cup ReadError(r, 500, CreatePullRequestInternalServerError)
decodeCreateTeamResponse(r) ==
  Read(r, 201, CreateTeamCreated, ValidCreateTeamCreated)
    \cup ReadError(r, 400, CreateTeamBadRequest)
    \cup ReadError(r, 409, CreateTeamConflict)
    \cup ReadError(r, 500, CreateTeamInternalServerError)
decodeDeactivateTeamMembersResponse(r) ==
  Read(r, 200, DeactivateTeamMembersOK, Unrestricted)
    \cup ReadError(r, 400, DeactivateTeamMembersBadRequest)
    \cup ReadError(r, 404, DeactivateTeamMembersNotFound)
    \cup ReadError(r, 500, DeactivateTeamMembersInternalServerError)
decodeGetAssignmentStatsResponse(r) ==
  Read(r, 200, GetAssignmentStatsOK, Unrestricted) \cup ReadError(r, 500, ErrorResponse)
decodeGetTeamResponse(r) ==
  Read(r, 200, Team, ValidTeam)
    \cup ReadError(r, 400, GetTeamBadRequest)
    \cup ReadError(r, 404, GetTeamNotFound)
    \cup ReadError(r, 500, GetTeamInternalServerError)
decodeGetUserReviewsResponse(r) ==
  Read(r, 200, GetUserReviewsOK, ValidGetUserReviewsOK)
    \cup ReadError(r, 400, GetUserReviewsBadRequest)
    \cup ReadError(r, 404, GetUserReviewsNotFound)
    \cup ReadError(r, 500, GetUserReviewsInternalServerError)
decodeMergePullRequestResponse(r) ==
  Read(r, 200, MergePullRequestOK, ValidMergePullRequestOK)
    \cup ReadError(r, 400, MergePullRequestBadRequest)
    \cup ReadError(r, 404, MergePullRequestNotFound)
    \cup ReadError(r, 500, MergePullRequestInternalServerError)
decodeReassignReviewerResponse(r) ==
  Read(r, 200, ReassignReviewerOK, ValidReassignReviewerOK)
    \cup ReadError(r, 400, ReassignReviewerBadRequest)
    \cup ReadError(r, 404, ReassignReviewerNotFound)
    \cup ReadError(r, 409, ReassignReviewerConflict)
    \cup ReadError(r, 500, ReassignReviewerInternalServerError)
decodeSetUserActiveResponse(r) ==
  Read(r, 200, SetUserActiveOK, ValidSetUserActiveOK)
    \cup ReadError(r, 400, SetUserActiveBadRequest)
    \cup ReadError(r, 404, SetUserActiveNotFound)
    \cup ReadError(r, 500, SetUserActiveInternalServerError)

Understand(op, r) ==
  CASE op = "CheckHealth"           -> decodeCheckHealthResponse(r)
    [] op = "CreatePullRequest"     -> decodeCreatePullRequestResponse(r)
    [] op = "CreateTeam"            -> decodeCreateTeamResponse(r)
    [] op = "DeactivateTeamMembers" -> decodeDeactivateTeamMembersResponse(r)
    [] op = "GetAssignmentStats"    -> decodeGetAssignmentStatsResponse(r)
    [] op = "GetTeam"               -> decodeGetTeamResponse(r)
    [] op = "GetUserReviews"        -> decodeGetUserReviewsResponse(r)
    [] op = "MergePullRequest"      -> decodeMergePullRequestResponse(r)
    [] op = "ReassignReviewer"      -> decodeReassignReviewerResponse(r)
    [] op = "SetUserActive"         -> decodeSetUserActiveResponse(r)
==============================================================================
