------------------------------ MODULE Scenarios ------------------------------
(***************************************************************************)
(* Databases and requests for TLC.  The users, teams and pull requests are *)
(* model values; every database is one the requests lead to from an empty  *)
(* one (the assumptions of MCService).                                     *)
(***************************************************************************)
EXTENDS AssignmentApi

CONSTANTS ann, bob, cid, dan, eve,   (* users                              *)
          core, infra,               (* teams                              *)
          p1, p2                     (* pull requests                      *)

\* The database with these rows and no others.
Database(teams, users, prs, revs) ==
  [k \in Keys |->
     CASE k[1] = "teams" -> IF k[2] \in teams THEN Present ELSE Absent
       [] k[1] = "users" -> IF k[2] \in DOMAIN users THEN users[k[2]] ELSE Absent
       [] k[1] = "pull_requests" -> IF k[2] \in DOMAIN prs THEN prs[k[2]] ELSE Absent
       [] k[1] = "reviewers" -> IF <<k[2], k[3]>> \in revs THEN Present ELSE Absent]

M(u, on)       == [user |-> u, active |-> on]
SetTo(u, on)   == [op |-> "SetActive", user |-> u, active |-> on]
NewTeam(t, ms) == [op |-> "CreateTeam", team |-> t, members |-> ms]
AllOff(t)      == [op |-> "DeactivateTeam", team |-> t]
NewPR(p, u)    == [op |-> "CreatePR", pr |-> p, author |-> u]
MergeOf(p)     == [op |-> "Merge", pr |-> p]
Swap(p, u)     == [op |-> "Reassign", pr |-> p, old |-> u]

Empty == Database({}, <<>>, <<>>, {})

\* One team of everybody in who; ann's p1 is open and reviewed by bob and cid.
TeamOf(who) ==
  Database({core}, [u \in who |-> [team |-> core, active |-> TRUE]],
           [p \in {p1} |-> [author |-> ann, status |-> "OPEN", merged_at |-> Absent]],
           {<<p1, bob>>, <<p1, cid>>})

TeamOf3 == TeamOf({ann, bob, cid})
TeamOf4 == TeamOf({ann, bob, cid, dan})
TeamOf5 == TeamOf({ann, bob, cid, dan, eve})
==============================================================================
