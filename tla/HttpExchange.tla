----------------------------- MODULE HttpExchange -----------------------------
(***************************************************************************)
(* Calls of the API one after another, each by the generated client or by  *)
(* somebody with other means to send a request, which may be spoilt.  The  *)
(* network may lose the request or the response, and Go's HTTP transport   *)
(* sends a GET again when a kept connection fails it.  How the services    *)
(* interleave is AssignmentService's matter; here it is what one message   *)
(* can do to another call through what it left in the database.            *)
(***************************************************************************)
EXTENDS ApiServer

CONSTANTS
  Args,      (* Args[op]: what the callers of op ask                       *)
  Admitted,  (* Admitted[op]: those of them that openapi.yaml admits       *)
  MaxRuns    (* how often one call can be run                              *)

Operations ==
  {"CheckHealth", "CreatePullRequest", "CreateTeam", "DeactivateTeamMembers",
   "GetAssignmentStats", "GetTeam", "GetUserReviews", "MergePullRequest",
   "ReassignReviewer", "SetUserActive"}

ASSUME ArgsGiven ==
  /\ DOMAIN Args = Operations /\ DOMAIN Admitted = Operations
  /\ \A op \in Operations : Admitted[op] \subseteq Args[op]

\* The client's methods are typed: its callers give the parameters or the
\* request type of the operation.
ASSUME ArgsTyped ==
  /\ Args["CheckHealth"] \cup Args["GetAssignmentStats"] \subseteq {NoArg}
  /\ Args["CreatePullRequest"] \subseteq
       [pull_request_id : Uuids, pull_request_name : STRING, author_id : Uuids]
  /\ Args["CreateTeam"] \subseteq
       [team_name : STRING,
        members : Seq([user_id : Uuids, username : STRING, is_active : BOOLEAN])]
  /\ Args["DeactivateTeamMembers"] \cup Args["GetTeam"] \subseteq [team_name : STRING]
  /\ Args["GetUserReviews"] \subseteq [user_id : Uuids]
  /\ Args["MergePullRequest"] \subseteq [pull_request_id : Uuids]
  /\ Args["ReassignReviewer"] \subseteq [pull_request_id : Uuids, old_user_id : Uuids]
  /\ Args["SetUserActive"] \subseteq [user_id : Uuids, is_active : BOOLEAN]

\* TeamName, Username and PullRequestName in the schemas of openapi.yaml.
ASSUME AdmittedByOpenApi ==
  /\ \A r \in Admitted["CreateTeam"] \cup Admitted["DeactivateTeamMembers"] \cup Admitted["GetTeam"] :
       Len(r.team_name) \in 3..50 /\ r.team_name \in Slugs
  /\ \A r \in Admitted["CreateTeam"] : \A m \in Range(r.members) :
       Len(m.username) \in 3..50 /\ m.username \in Labels
  /\ \A r \in Admitted["CreatePullRequest"] :
       Len(r.pull_request_name) \in 3..255 /\ r.pull_request_name \in Labels

VARIABLES
  names,     (* the names the database has stored                          *)
  stage,     (* "idle", "sent": the request is on its way, "served"        *)
  asked,     (* who calls, and what                                        *)
  msg,       (* the request                                                *)
  ran,       (* the runs of services this call has made                    *)
  resp,      (* the response                                               *)
  result     (* what the caller has got                                    *)

vars == <<names, stage, asked, msg, ran, resp, result>>

Reading    == {"CheckHealth", "GetAssignmentStats", "GetTeam", "GetUserReviews"}
Nobody     == [by |-> "nobody"]
NoRequest  == Get(Empty, <<>>)
NoResponse == Response(0, Empty, <<>>)

Pending == [kind |-> "pending"]
Lost    == [kind |-> "lost"]            (* the connection broke            *)
Failed  == [kind |-> "failed"]          (* the client cannot read resp     *)
Got(answer)  == [kind |-> "answer", answer |-> answer]
Seen(r)      == [kind |-> "response", resp |-> r]

ByClient(op, arg) == [by |-> "client", op |-> op, arg |-> arg]
ByOther(m)        == [by |-> "other", reads |-> m.method = "GET"]

(***************************************************************************)
(* Requests that differ from the client's in one respect.                  *)
(***************************************************************************)
Respelt(fields, i) ==
  {[fields EXCEPT ![i] = <<@[1], Str(s)>>] : s \in {s \in DOMAIN UuidOf : Str(UuidOf[s]) = fields[i][2]}}

SpoiltObjects(fields) ==
  UNION {{RemoveAt(fields, i),
          [fields EXCEPT ![i] = <<@[1], Null>>],
          [fields EXCEPT ![i] = <<@[1], Num(7)>>],
          [fields EXCEPT ![i] = <<@[1], Str("x")>>],
          Append(fields, <<fields[i][1], Arr(<<Null>>)>>),
          <<<<fields[i][1], Obj(<<>>)>>>> \o fields} \cup Respelt(fields, i) : i \in DOMAIN fields}
  \cup {Append(fields, <<"unknown", Null>>)}

SpoiltBodies(body) ==
  {<<>>, <<Junk>>, <<Arr(<<>>)>>, body \o body}
  \cup {<<Obj(fields)>> : fields \in SpoiltObjects(body[1][2])}

Spoilt(m) ==
  {m, [m EXCEPT !.method = "DELETE"], [m EXCEPT !.method = "OPTIONS"],
   [m EXCEPT !.path = @ \o "/x"], [m EXCEPT !.query = <<>>]}
  \cup {[m EXCEPT !.query = q] : q \in {[p \in DOMAIN m.query |-> "x"]}}
  \cup (IF m.body = <<>> THEN {}
        ELSE {[m EXCEPT !.ctype = c] : c \in {Empty, Plain}}
             \cup {[m EXCEPT !.body = b] : b \in SpoiltBodies(m.body)})

(***************************************************************************)
(* Actions.                                                                *)
(***************************************************************************)
Init ==
  /\ names = NoNames /\ stage = "idle" /\ result = Pending
  /\ asked = Nobody /\ msg = NoRequest /\ ran = <<>> /\ resp = NoResponse

Start(who, m) ==
  /\ stage = "idle" /\ stage' = "sent"
  /\ asked' = who /\ msg' = m /\ result' = Pending
  /\ UNCHANGED <<names, ran, resp>>

Call  == \E op \in Operations : \E arg \in Args[op] : Start(ByClient(op, arg), Send(op, arg))
Probe == \E op \in Operations : \E arg \in Args[op] :
           \E m \in Spoilt(Send(op, arg)) : Start(ByOther(m), m)

Serve ==
  /\ stage = "sent" /\ stage' = "served"
  /\ \E out \in ServeHTTP(msg, names) :
       /\ ran' = ran \o out.ran
       /\ resp' = out.resp
       /\ names' \in IF out.ran = <<>> THEN {names}
                     ELSE Stored(names, out.ran[1].arg, out.ran[1].answer)
  /\ UNCHANGED <<asked, msg, result>>

Resend ==
  /\ stage = "served" /\ stage' = "sent"
  /\ msg.method = "GET" /\ Len(ran) < MaxRuns
  /\ UNCHANGED <<names, asked, msg, ran, resp, result>>

End(got) ==
  /\ stage' = "idle" /\ result' = got
  /\ asked' = Nobody /\ msg' = NoRequest /\ ran' = <<>> /\ resp' = NoResponse
  /\ UNCHANGED names

Lose == stage \in {"sent", "served"} /\ End(Lost)

Receive ==
  /\ stage = "served"
  /\ End(IF asked.by = "other" THEN Seen(resp)
         ELSE LET read == Understand(asked.op, resp)
              IN  IF read = {} THEN Failed ELSE Got(The(read)))

Next == Call \/ Probe \/ Serve \/ Resend \/ Lose \/ Receive

Spec == Init /\ [][Next]_vars

(***************************************************************************)
(* The codes the load test reports for the calls it makes                  *)
(* (executeOperation in cmd/loadtest), 0 for a client error.               *)
(***************************************************************************)
\* Mutant: whatever is not named is taken for a success.
CodeOrOK(answer, codes) == IF answer.go \in DOMAIN codes THEN codes[answer.go] ELSE 200

Code(answer, codes) == IF answer.go \in DOMAIN codes THEN codes[answer.go] ELSE 500

executeOperation(op, a) ==
  CASE op = "CheckHealth" -> Code(a, [CheckHealthOK |-> 200])
    [] op = "GetAssignmentStats" -> Code(a, [GetAssignmentStatsOK |-> 200])
    [] op = "GetTeam" ->
         Code(a, [Team |-> 200, GetTeamBadRequest |-> 400, GetTeamNotFound |-> 404])
    [] op = "GetUserReviews" ->
         Code(a, [GetUserReviewsOK |-> 200, GetUserReviewsBadRequest |-> 400,
                  GetUserReviewsNotFound |-> 404])
    [] op = "CreateTeam" ->
         Code(a, [CreateTeamCreated |-> 201, CreateTeamBadRequest |-> 400,
                  CreateTeamConflict |-> 409])
    [] op = "CreatePullRequest" ->
         Code(a, [CreatePullRequestCreated |-> 201, CreatePullRequestBadRequest |-> 400,
                  CreatePullRequestNotFound |-> 404, CreatePullRequestConflict |-> 409])

LoadTested == {"CheckHealth", "GetAssignmentStats", "GetTeam", "GetUserReviews",
               "CreateTeam", "CreatePullRequest"}

(***************************************************************************)
(* Properties.                                                             *)
(***************************************************************************)
\* What an answer is when it has crossed the network: the instants of a pull
\* request, microseconds in the database, are whole seconds.
InTransit(a) ==
  IF a.go \notin {"CreatePullRequestCreated", "MergePullRequestOK", "ReassignReviewerOK"} THEN a
  ELSE [a EXCEPT !.value.pr =
         [f \in DOMAIN @ |-> IF f \in {"createdAt", "mergedAt"}
                              THEN Halves * (@[f] \div Halves) ELSE @[f]]]

Refusal(r) == r.status \in {204, 400, 405, 415} \/ (r.status = 404 /\ r.ctype = Plain)

Remote == INSTANCE RemoteCall WITH
  stage <- IF stage = "idle" THEN "free" ELSE "pending",
  asked <- CASE asked.by = "client" -> [by |-> "client", reads |-> asked.op \in Reading,
                                        op |-> asked.op, arg |-> asked.arg]
             [] asked.by = "other"  -> [by |-> "other", reads |-> asked.reads]
             [] asked.by = "nobody" -> asked,
  ran   <- [i \in DOMAIN ran |-> [ran[i] EXCEPT !.answer = InTransit(@)]],
  told  <- CASE result.kind = "answer" -> [kind |-> "answer", answer |-> result.answer]
             [] result.kind = "response" /\ Refusal(result.resp) -> [kind |-> "refused"]
             [] OTHER -> [kind |-> "nothing"],
  Calls <- [by : {"other"}, reads : BOOLEAN] \cup
           UNION {{[by |-> "client", reads |-> op \in Reading, op |-> op, arg |-> arg] :
                     arg \in Args[op]} : op \in Operations}

\* One call runs its service at most once unless it only reads, on exactly the
\* request the client was given, and the client returns what that run answered
\* or an error; a caller told 400, 404 by the router, 405 or 415 has changed
\* nothing, whatever it sent (the generated client and server together).
IsRemoteCall == Remote!Spec

\* A call that openapi.yaml admits is run, and the client returns what the
\* service answered, at the latest call as at the first: nobody can bring a name
\* into the database that makes a later answer fail the client's own validation
\* (the server does not validate its answers, the client does).  The one
\* exception is the error that the statistics return as a Go error.
ValidCallsUnderstood ==
  [][Receive /\ asked.by = "client" /\ asked.arg \in Admitted[asked.op] =>
       /\ ran # <<>>
       /\ Last(ran).answer.go # GoError.go =>
            result' = Got(InTransit(Last(ran).answer))]_vars

\* No request reaches a service with a name that its column cannot hold, so
\* that PostgreSQL would fail the insertion and the caller be told 500 for a
\* mistake of his own (maxLength of openapi.yaml, as the validators have it,
\* against the VARCHAR widths of the migration).
NamesFitColumns ==
  \A i \in DOMAIN ran :
    CASE ran[i].op = "CreateTeam" ->
           /\ Len(ran[i].arg.team_name) <= ColumnWidth.team
           /\ \A m \in Range(ran[i].arg.members) : Len(m.username) <= ColumnWidth.user
      [] ran[i].op = "CreatePullRequest" -> Len(ran[i].arg.pull_request_name) <= ColumnWidth.pr
      [] OTHER -> TRUE

(***************************************************************************)
(* ExchangeInv: the message under way, the runs of the services and the    *)
(* names they have left behind belong together, at every moment.  The      *)
(* request in flight is the one the caller made.  Whatever has been run,   *)
(* was run on it, and a request that was read once is read again when it   *)
(* is repeated.  The response is the one of the latest run, and the client *)
(* is going to make of it what that run answered, whatever names others    *)
(* have stored since; or it is a refusal, then nothing has been run, and   *)
(* the schemas of openapi.yaml do not admit the request.                   *)
(***************************************************************************)
NamesValid ==
  /\ names = [teams |-> names.teams, users |-> names.users, prs |-> names.prs]
  /\ \A n \in names.teams : ValidTeamName(n)
  /\ \A n \in names.users : ValidUsername(n)
  /\ \A n \in names.prs   : ValidPullRequestName(n)

Idle == asked = Nobody /\ msg = NoRequest /\ ran = <<>> /\ resp = NoResponse

RequestMade ==
  \/ \E op \in Operations : \E arg \in Args[op] : asked = ByClient(op, arg) /\ msg = Send(op, arg)
  \/ asked = ByOther(msg)

RunsOfRequest ==
  /\ ran \in Seq(Range(ran))
  /\ \A run \in Range(ran) :
       /\ run = [op |-> run.op, arg |-> run.arg, answer |-> run.answer]
       /\ asked.by = "client" => run.op = asked.op /\ run.arg = asked.arg
  /\ ran # <<>> => \E out \in ServeHTTP(msg, NoNames) : out.ran # <<>>

ResponseOfRun ==
  /\ Refusal(resp) => ran = <<>>
  /\ asked.by = "client" /\ ran = <<>> =>
       Understand(asked.op, resp) = {} /\ asked.arg \notin Admitted[asked.op]
  /\ asked.by = "client" /\ ran # <<>> =>
       LET answer == Last(ran).answer
       IN  Understand(asked.op, resp) = IF answer = GoError THEN {} ELSE {InTransit(answer)}

ExchangeInv ==
  /\ NamesValid
  /\ stage \in {"idle", "sent", "served"}
  /\ stage = "idle" => Idle
  /\ stage # "idle" => RequestMade /\ RunsOfRequest
  /\ stage = "sent" /\ ran # <<>> => msg.method = "GET"
  /\ stage = "served" => ResponseOfRun

\* The load test counts an answer under the status it was sent with: its
\* success rate is the server's (executeOperation, through the response
\* encoders and decoders).
LoadTestCountsStatus ==
  [][Receive /\ result'.kind = "answer" /\ asked.op \in LoadTested =>
       executeOperation(asked.op, result'.answer) = resp.status]_vars

\* A client told 400 gets the BadRequest answer that openapi.yaml documents for
\* the operation.  It does not: ogen's default error handler, which server.New
\* keeps, sends another body, and the client fails to decode it.
BadRequestsUnderstood ==
  [][Receive /\ asked.by = "client" /\ resp.status = 400 => result'.kind = "answer"]_vars
==============================================================================
