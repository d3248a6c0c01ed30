------------------------------- MODULE MCReads -------------------------------
(***************************************************************************)
(* One worker that writes, as in MCService, and one client that reads.     *)
(***************************************************************************)
EXTENDS MCService, ReadService, SerialClient

SomeReads ==
  {[op |-> "GetTeam", team |-> infra], [op |-> "GetUserReviews", user |-> dan],
   [op |-> "GetAssignmentStats"]}
==============================================================================
