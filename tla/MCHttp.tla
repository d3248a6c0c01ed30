-------------------------------- MODULE MCHttp --------------------------------
(***************************************************************************)
(* An instance of HttpExchange: two users and a name of every kind that    *)
(* the limits tell apart: the shortest and the longest that are valid, one *)
(* character more or less, and one with a character that does not belong.  *)
(***************************************************************************)
EXTENDS HttpExchange

MCUuidOf == [u1 |-> "u1", U1 |-> "u1", u2 |-> "u2"]
MCUuids  == {"u1", "u2"}
MCStamps == <<"2025-11-17T10:00:00Z", "2025-11-17T10:00:01Z">>

\* 1.5 seconds into the first minute.
MCInstants == {3}

Ten   == "aaaaaaaaaa"
Fifty == Ten \o Ten \o Ten \o Ten \o Ten
Long  == Fifty \o Fifty \o Fifty \o Fifty \o Fifty \o "aaaaa"

MCSlugs  == {"ops", "aa", Fifty, Fifty \o "a", Long, Long \o "a", "x"}
MCLabels == MCSlugs \cup {"Ann", "A pr"}

UserNames == {"Ann", Fifty}   (* with one team name and one of a pull request,
                                 the longest, enough for answers to differ *)

BadTeamNames == {"aa", Fifty \o "a", "Ann"}
BadUserNames == {"aa", Fifty \o "a", "Ann "}
BadPRNames   == {"aa", Long \o "a"}

TeamsOf(names_, users_) ==
  [team_name : names_, members : AtMostOne([user_id : {"u1"}, username : users_, is_active : {TRUE}])]

MCAdmitted ==
  [CheckHealth           |-> {NoArg},
   GetAssignmentStats    |-> {NoArg},
   CreatePullRequest     |-> [pull_request_id : {"u1"}, pull_request_name : {Long}, author_id : {"u2"}],
   CreateTeam            |-> TeamsOf({Fifty}, UserNames),
   DeactivateTeamMembers |-> [team_name : {"ops", Fifty}],
   GetTeam               |-> [team_name : {"ops", Fifty}],
   GetUserReviews        |-> [user_id : {"u2"}],
   MergePullRequest      |-> [pull_request_id : {"u1"}],
   ReassignReviewer      |-> [pull_request_id : {"u1"}, old_user_id : {"u2"}],
   SetUserActive         |-> [user_id : {"u1"}, is_active : BOOLEAN]]

MCArgs ==
  [MCAdmitted EXCEPT
     !.CreatePullRequest = @ \cup
        [pull_request_id : {"u1"}, pull_request_name : BadPRNames, author_id : {"u2"}],
     !.CreateTeam = @ \cup TeamsOf(BadTeamNames, {}) \cup TeamsOf({Fifty}, BadUserNames),
     !.DeactivateTeamMembers = @ \cup [team_name : {"aa"}],
     !.GetTeam = @ \cup [team_name : BadTeamNames]]
==============================================================================
