----------------------------- MODULE ReadService -----------------------------
(***************************************************************************)
(* The three reading endpoints (GET /team/get, /users/getReview and        *)
(* /stats/assignments) beside the writing ones of AssignmentService.  They *)
(* take no transaction: every statement reads the rows committed when it   *)
(* starts, and writing requests commit between two of them.                *)
(***************************************************************************)
EXTENDS AssignmentService, FiniteSetsExt

CONSTANT Reads    (* the requests the reading client may send              *)

GetTeamReq        == [op : {"GetTeam"}, team : Teams]
GetUserReviewsReq == [op : {"GetUserReviews"}, user : Users]
GetStatsReq       == [op : {"GetAssignmentStats"}]

ASSUME ReadsTyped == Reads \subseteq GetTeamReq \cup GetUserReviewsReq \cup GetStatsReq

VARIABLES
  rpc,      (* the reader's next statement                                 *)
  rreq,     (* its request                                                 *)
  users,    (* the result of the first statement of the statistics         *)
  rans,     (* the answer                                                  *)
  touched   (* has a commit changed reviewers since that statement?        *)

readVars == <<rpc, rreq, users, rans, touched>>

(***************************************************************************)
(* The queries, on one snapshot.                                           *)
(***************************************************************************)
Get(s, t) == {<<u, s[UserKey(u)].active>> : u \in TeamMembers(s, t)}

GetReviews(s, u) ==
  {<<p, s[PRKey(p)].author, s[PRKey(p)].status>> : p \in {p \in PRs : Has(s, RevKey(p, u))}}

\* Mutant: only open pull requests are counted.
OpenUserAssignmentStats(s) ==
  [u \in {u \in Users : Has(s, UserKey(u))} |-> Cardinality(OpenReviews(s, u))]

GetUserAssignmentStats(s) ==
  [u \in {u \in Users : Has(s, UserKey(u))} |-> Cardinality({p \in PRs : Has(s, RevKey(p, u))})]

GetPRAssignmentStats(s) ==
  [p \in {p \in PRs : Has(s, PRKey(p))} |-> Cardinality(Reviewers(s, p))]

(***************************************************************************)
(* The answers.                                                            *)
(***************************************************************************)
Found(value) == [code |-> "OK", value |-> value]
NotFound     == [code |-> "NOT_FOUND", value |-> {}]
NoReply      == [code |-> "NONE", value |-> {}]

Respond(answer) ==
  /\ rpc' = "answered" /\ rans' = answer
  /\ users' = <<>> /\ touched' = FALSE
  /\ UNCHANGED vars

ReadInit ==
  /\ Init
  /\ rpc = "idle" /\ rreq = NoRequest /\ users = <<>>
  /\ rans = NoReply /\ touched = FALSE

\* The first statement of a request.
Take(op) == rpc = "idle" /\ rreq' \in {r \in Reads : r.op = op}

\* Mutant: JOIN in the place of LEFT JOIN.
GetTeamWithMembers ==
  /\ Take("GetTeam")
  /\ Respond(IF Get(db, rreq'.team) # {} THEN Found(Get(db, rreq'.team)) ELSE NotFound)

\* The only statement; a team without members is a row of its own.
GetTeam ==
  /\ Take("GetTeam")
  /\ Respond(IF Has(db, TeamKey(rreq'.team)) THEN Found(Get(db, rreq'.team)) ELSE NotFound)

CheckUser ==
  /\ Take("GetUserReviews")
  /\ \/ /\ ~Has(db, UserKey(rreq'.user))
        /\ Respond(NotFound)
     \/ /\ Has(db, UserKey(rreq'.user))
        /\ rpc' = "reviews"
        /\ UNCHANGED <<users, rans, touched, vars>>

ListReviews ==
  /\ rpc = "reviews"
  /\ Respond(Found(GetReviews(db, rreq.user))) /\ UNCHANGED rreq

UserStats ==
  /\ Take("GetAssignmentStats")
  /\ users' = GetUserAssignmentStats(db)
  /\ rpc' = "prStats"
  /\ UNCHANGED <<rans, touched, vars>>

PRStats ==
  /\ rpc = "prStats"
  /\ Respond(Found([user_stats |-> users, pr_stats |-> GetPRAssignmentStats(db)]))
  /\ UNCHANGED rreq

\* The second statement fails: 500, and nothing is left of the first.  (When
\* the first one fails, the reader is as it was: a stuttering step.)
ReadFails ==
  /\ rpc \in {"reviews", "prStats"} /\ rpc' = "idle"
  /\ rreq' = NoRequest /\ users' = <<>> /\ touched' = FALSE
  /\ UNCHANGED <<rans, vars>>

Deliver ==
  /\ rpc = "answered" /\ rpc' = "idle"
  /\ rreq' = NoRequest /\ rans' = NoReply
  /\ UNCHANGED <<users, touched, vars>>

Write ==
  /\ Next
  /\ touched' = (touched \/ (rpc = "prStats" /\ \E k \in RevKeys : db'[k] # db[k]))
  /\ UNCHANGED <<rpc, rreq, users, rans>>

ReadNext ==
  Write \/ GetTeam \/ CheckUser \/ ListReviews \/ UserStats \/ PRStats
    \/ ReadFails \/ Deliver

ReadSpec == ReadInit /\ [][ReadNext]_<<vars, readVars>>

(***************************************************************************)
(* Properties.                                                             *)
(***************************************************************************)
Replies == rpc # "answered" /\ rpc' = "answered"

\* GetTeam and GetUserReviews answer what is committed when their last
\* statement runs, NOT_FOUND included: nothing a writing request commits
\* between the check of the user and the list of reviews makes the two differ,
\* since the check comes first and users are never deleted.
ReadsUpToDate ==
  [][Replies /\ rreq'.op # "GetAssignmentStats" =>
       rans' = CASE rreq'.op = "GetTeam" /\ Has(db, TeamKey(rreq'.team)) ->
                      Found(Get(db, rreq'.team))
                 [] rreq'.op = "GetUserReviews" /\ Has(db, UserKey(rreq'.user)) ->
                      Found(GetReviews(db, rreq'.user))
                 [] OTHER -> NotFound]_<<vars, readVars>>

Total(f) == MapThenSumSet(LAMBDA x : f[x], DOMAIN f)

Assigned(s) == {a \in PRs \X Users : Has(s, RevKey(a[1], a[2]))}

\* What the second statement of a reading request relies on: the user the first
\* has found is still there, and the assignments it has counted are those that
\* are committed, unless a request has changed reviewers since.  With Inductive
\* and ReferencesHeld, an inductive invariant.
ReaderHeld ==
  /\ rpc = "reviews" => /\ rreq \in Reads /\ rreq.op = "GetUserReviews"
                        /\ Has(db, UserKey(rreq.user))
  /\ rpc = "prStats" => /\ rreq.op = "GetAssignmentStats"
                        /\ touched \/ Total(users) = Cardinality(Assigned(db))

\* The assignments of all users and the reviewers of all pull requests add up
\* to the same number, merged pull requests and inactive users included, unless
\* a request has changed reviewers between the two statements of
\* GetAssignmentStats.
StatsAddUp ==
  [][Replies /\ rreq'.op = "GetAssignmentStats" =>
       \/ Total(rans'.value.user_stats) = Total(rans'.value.pr_stats)
       \/ touched]_<<vars, readVars>>
==============================================================================
