----------------------------- MODULE ReviewStore -----------------------------
(***************************************************************************)
(* The PostgreSQL schema of deployments/init.sql and the queries of        *)
(* internal/repos, as operators on one snapshot of the database.           *)
(*                                                                         *)
(* A snapshot s is a function from primary keys to rows.  A key with no    *)
(* row is mapped to Absent.  Only the columns that decide who reviews what *)
(* are kept: names, usernames and created_at are left out, and teams.id is *)
(* identified with teams.name, which is UNIQUE and never updated.          *)
(***************************************************************************)
EXTENDS Naturals, FiniteSets, Sequences

CONSTANTS
  Users,     (* users.id                                                   *)
  Teams,     (* teams.name                                                 *)
  PRs,       (* pull_requests.id                                           *)
  Instants,  (* the values NOW() may give to pull_requests.merged_at       *)
  Absent     (* stands for "no row", and for NULL in merged_at             *)

TeamKey(t)   == <<"teams", t>>
UserKey(u)   == <<"users", u>>
PRKey(p)     == <<"pull_requests", p>>
RevKey(p, u) == <<"reviewers", p, u>>

TeamKeys == {TeamKey(t) : t \in Teams}
UserKeys == {UserKey(u) : u \in Users}
PRKeys   == {PRKey(p) : p \in PRs}
RevKeys  == {RevKey(p, u) : p \in PRs, u \in Users}
Keys     == TeamKeys \cup UserKeys \cup PRKeys \cup RevKeys

\* Rows of teams and reviewers hold nothing but their key.
Present == "row"
UserRow == [team : Teams, active : BOOLEAN]
PRRow   == [author : Users, status : {"OPEN", "MERGED"},
            merged_at : Instants \cup {Absent}]

ASSUME AbsentIsNoRow == /\ Absent # Present
                        /\ Absent \notin UserRow
                        /\ Absent \notin PRRow

\* users.id and pull_requests.id are UUIDs.
ASSUME UsersFinite == IsFiniteSet(Users)
ASSUME PRsFinite == IsFiniteSet(PRs)

(***************************************************************************)
(* The columns have their types; the values of extra may stand in any row. *)
(***************************************************************************)
WellTyped(s, extra) ==
  /\ s = [k \in Keys |-> s[k]]
  /\ \A t \in Teams : s[TeamKey(t)] \in {Present} \cup extra
  /\ \A u \in Users : s[UserKey(u)] \in UserRow \cup extra
  /\ \A p \in PRs : s[PRKey(p)] \in PRRow \cup extra
  /\ \A p \in PRs, u \in Users : s[RevKey(p, u)] \in {Present} \cup extra

Has(s, k) == s[k] # Absent

(***************************************************************************)
(* Who is where.                                                           *)
(***************************************************************************)
\* Mutant: u2.is_active = true is forgotten.
MembersWhateverActive(s, t) ==
  {u \in Users : Has(s, UserKey(u)) /\ s[UserKey(u)].team = t}

\* Mutant: pr.status = 'OPEN' is forgotten.
ReviewsWhateverStatus(s, u) == {p \in PRs : Has(s, RevKey(p, u))}

TeamMembers(s, t)   == {u \in Users : Has(s, UserKey(u)) /\ s[UserKey(u)].team = t}
ActiveMembers(s, t) == {u \in TeamMembers(s, t) : s[UserKey(u)].active}
Reviewers(s, p)     == {u \in Users : Has(s, RevKey(p, u))}
IsOpen(s, p)        == Has(s, PRKey(p)) /\ s[PRKey(p)].status = "OPEN"
OpenReviews(s, u)   == {p \in PRs : IsOpen(s, p) /\ u \in Reviewers(s, p)}

(***************************************************************************)
(* GetTwoActiveTeamMembersByAuthorID: ORDER BY RANDOM() LIMIT 2 returns    *)
(* any two of the author's active team mates, and fewer only if there are  *)
(* no more.  The value is the set of results the query may return; it does *)
(* not depend on whether the author is active.                             *)
(***************************************************************************)
ActiveTeammates(s, author) ==
  IF Has(s, UserKey(author))
  THEN ActiveMembers(s, s[UserKey(author)].team) \ {author}
  ELSE {}

\* Mutant: LIMIT 3.
GetThreeActiveTeamMembers(s, author) ==
  LET mates == ActiveTeammates(s, author)
  IN  {R \in SUBSET mates : /\ Cardinality(R) <= 3
                            /\ Cardinality(R) < 3 => R = mates}

GetTwoActiveTeamMembersByAuthorID(s, author) ==
  LET mates == ActiveTeammates(s, author)
  IN  {R \in SUBSET mates : /\ Cardinality(R) <= 2
                            /\ Cardinality(R) < 2 => R = mates}

(***************************************************************************)
(* The candidates among the active members of a team: not the author, not  *)
(* the reviewer who leaves, not yet a reviewer of the pull request.        *)
(* ReassignReviewer looks in the AUTHOR's team, the handover queries in    *)
(* the team of the reviewer.                                               *)
(***************************************************************************)
\* Mutant: u2.id != pr.author_id is forgotten.
CandidatesWithAuthor(s, p, old, team) ==
  ActiveMembers(s, team) \ ({old} \cup Reviewers(s, p))

Candidates(s, p, old, team) ==
  ActiveMembers(s, team) \ ({s[PRKey(p)].author, old} \cup Reviewers(s, p))

ReassignCandidates(s, p, old) ==
  Candidates(s, p, old, s[UserKey(s[PRKey(p)].author)].team)

HandoverCandidates(s, p, u) ==
  Candidates(s, p, u, s[UserKey(u)].team)

(***************************************************************************)
(* GetReassignmentCandidatesForReviewer: one random candidate for every    *)
(* open pull request u reviews that has one (JOIN LATERAL ... LIMIT 1      *)
(* drops the others).  The value is the set of possible results, each a    *)
(* set of pairs <<pull request, candidate>>.                               *)
(***************************************************************************)
GetReassignmentCandidatesForReviewer(s, u) ==
  LET ps == {p \in OpenReviews(s, u) : HandoverCandidates(s, p, u) # {}}
  IN  {{<<p, f[p]>> : p \in ps} :
         f \in {g \in [ps -> Users] : \A p \in ps : g[p] \in HandoverCandidates(s, p, u)}}

(***************************************************************************)
(* The rows the writing statements pick from their snapshot.               *)
(***************************************************************************)
RemoveReviewerFromOpenPRs(s, u) == {RevKey(p, u) : p \in OpenReviews(s, u)}

\* Mutant: pr.status = 'OPEN' is forgotten.
RemoveTeamReviewersFromAllPRs(s, t) ==
  {k \in {RevKey(p, u) : p \in PRs, u \in TeamMembers(s, t)} : Has(s, k)}

RemoveTeamReviewersFromOpenPRs(s, t) ==
  UNION {RemoveReviewerFromOpenPRs(s, u) : u \in TeamMembers(s, t)}

AddReviewers(s, items) ==
  {RevKey(a[1], a[2]) : a \in {b \in items : /\ Has(s, UserKey(b[2]))
                                             /\ s[UserKey(b[2])].active}}

(***************************************************************************)
(* repos/pr GetByID                                                        *)
(***************************************************************************)
GetByID(s, p) == [status    |-> s[PRKey(p)].status,
                  merged_at |-> s[PRKey(p)].merged_at,
                  reviewers |-> Reviewers(s, p)]

(***************************************************************************)
(* What the foreign keys of the schema say of a snapshot.                  *)
(***************************************************************************)
Anchored(s) ==
  /\ \A u \in Users : Has(s, UserKey(u)) => Has(s, TeamKey(s[UserKey(u)].team))
  /\ \A p \in PRs : Has(s, PRKey(p)) => Has(s, UserKey(s[PRKey(p)].author))
  /\ \A p \in PRs, u \in Users :
        Has(s, RevKey(p, u)) => Has(s, PRKey(p)) /\ Has(s, UserKey(u))

\* Nobody reviews a pull request of their own.
AuthorsApart(s) ==
  \A p \in PRs, u \in Users :
    Has(s, RevKey(p, u)) => Has(s, PRKey(p)) /\ s[PRKey(p)].author # u

WithinLimit(s) == \A p \in PRs : Cardinality(Reviewers(s, p)) <= 2
==============================================================================
