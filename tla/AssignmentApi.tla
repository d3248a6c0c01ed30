---------------------------- MODULE AssignmentApi ----------------------------
(***************************************************************************)
(* The requests of the six writing endpoints and the answers to them, as   *)
(* openapi.yaml and the types generated from it in internal/api have them, *)
(* without the fields ReviewStore leaves out.                              *)
(***************************************************************************)
EXTENDS ReviewStore

Member == [user : Users, active : BOOLEAN]

CreateTeamReq     == [op : {"CreateTeam"}, team : Teams, members : Seq(Member)]
DeactivateTeamReq == [op : {"DeactivateTeam"}, team : Teams]
SetActiveReq      == [op : {"SetActive"}, user : Users, active : BOOLEAN]
CreatePRReq       == [op : {"CreatePR"}, pr : PRs, author : Users]
MergeReq          == [op : {"Merge"}, pr : PRs]
ReassignReq       == [op : {"Reassign"}, pr : PRs, old : Users]

RequestTypes == CreateTeamReq \cup DeactivateTeamReq \cup SetActiveReq
                  \cup CreatePRReq \cup MergeReq \cup ReassignReq

NoRequest == [op |-> "None"]

\* "OK" stands for 200 and 201, "NONE" for an answer not given yet.
Codes == {"NONE", "OK", "NOT_FOUND", "TEAM_EXISTS", "PR_EXISTS", "PR_MERGED",
          "NOT_ASSIGNED", "NO_CANDIDATE", "INTERNAL_ERROR"}

\* The pull request object of an answer.
Body == [status : {"OPEN", "MERGED"}, merged_at : Instants \cup {Absent},
         reviewers : SUBSET Users]

Answer(code, body) == [code |-> code, pr |-> body]
NoAnswer           == Answer("NONE", Absent)

Answers == [code : Codes, pr : Body \cup {Absent}]
==============================================================================
