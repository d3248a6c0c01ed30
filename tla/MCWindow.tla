------------------------------ MODULE MCWindow -------------------------------
(***************************************************************************)
(* The instance of RequestWindow for TLC: a team of four, bob and cid      *)
(* reviewing ann's open p1, and requests that contend for it.  Nothing in  *)
(* the specification or its properties tells one worker from another.      *)
(***************************************************************************)
EXTENDS RequestWindow, Scenarios, TLC

Medium == {TeamOf4}

Interchangeable == Permutations(Workers)

RaceRequests ==
  {SetTo(bob, FALSE), SetTo(cid, FALSE), AllOff(core),
   NewTeam(infra, <<M(bob, TRUE), M(cid, TRUE)>>),
   NewTeam(infra, <<M(cid, TRUE), M(bob, FALSE)>>),
   NewPR(p2, ann), NewPR(p2, eve), MergeOf(p1), Swap(p1, bob)}

\* The pair of requests that makes an existing user not found.
MoveAndOff == {NewTeam(infra, <<M(bob, TRUE)>>), SetTo(bob, FALSE)}

FairWindowSpec == WindowSpec /\ Fairness
==============================================================================
