------------------------------ MODULE MCService ------------------------------
(***************************************************************************)
(* Instances of AssignmentService for TLC.                                 *)
(***************************************************************************)
EXTENDS AssignmentService, EndpointOutcomes, Scenarios

\* The teams the runs start on are what two requests make of an empty database.
After(s, r) == {o.db : o \in Outcomes(s, r)}
Joining(us) == NewTeam(core, [i \in DOMAIN us |-> M(us[i], TRUE)])
ASSUME TeamsReachable ==
  \A us \in {<<ann, bob, cid>>, <<ann, bob, cid, dan>>, <<ann, bob, cid, dan, eve>>} :
    {us[i] : i \in DOMAIN us} \subseteq Users =>
      \E s \in After(Empty, Joining(us)) :
        TeamOf({us[i] : i \in DOMAIN us}) \in After(s, NewPR(p1, ann))

Small      == {TeamOf3}
Medium     == {TeamOf4}
Large      == {TeamOf5}
SmallAndLarge == {TeamOf3, TeamOf5}
FromNothing == {Empty, TeamOf4}

SerialRequests ==
  {SetTo(bob, FALSE), SetTo(dan, FALSE), SetTo(dan, TRUE), AllOff(core), AllOff(infra),
   NewTeam(core, <<M(ann, TRUE), M(bob, TRUE), M(cid, FALSE), M(dan, TRUE)>>),
   NewTeam(infra, <<M(bob, TRUE), M(dan, FALSE)>>), NewTeam(infra, <<>>),
   NewPR(p2, ann), NewPR(p2, bob), MergeOf(p1), MergeOf(p2),
   Swap(p1, bob), Swap(p1, dan), Swap(p2, cid)}

AnswerRequests ==
  {SetTo(bob, FALSE), AllOff(core), NewTeam(infra, <<M(bob, TRUE), M(cid, FALSE)>>),
   NewTeam(infra, <<M(cid, TRUE), M(bob, TRUE)>>),
   NewPR(p2, ann), MergeOf(p1), MergeOf(p2), Swap(p1, bob)}

\* The pairs of requests that break the promises made to a lone client.
OffAndMerge   == {SetTo(bob, FALSE), MergeOf(p1)}
OffAndSwap    == {SetTo(bob, FALSE), Swap(p1, bob)}
OffAndCreate  == {SetTo(bob, FALSE), NewPR(p2, ann)}
MergeAndCreate == {MergeOf(p2), NewPR(p2, ann)}
Moves         == {NewTeam(infra, <<M(bob, TRUE)>>),
                  NewTeam(infra, <<M(bob, TRUE), M(dan, TRUE)>>)}

(***************************************************************************)
(* Promises the documentation makes to everybody, and the code keeps to a  *)
(* client who is alone (the run serial).  Two requests at a time break     *)
(* them.                                                                   *)
(***************************************************************************)
\* A merge protects the reviewers from changes (README.md:13), also from those
\* of a handover that has started before it.
MergeProtects ==
  [][\A p \in PRs, u \in Users : Has(db, PRKey(p)) /\ ~IsOpen(db, p) =>
       Has(db', RevKey(p, u)) = Has(db, RevKey(p, u))]_vars

\* A pull request has up to two reviewers (openapi.yaml:117), whichever requests
\* replace them at a time.
TwoReviewersAtMost == \A p \in PRs : Cardinality(Reviewers(db, p)) \in 0 .. 2

\* Inactive users are not assigned (README.md:18), also if they were active
\* when the request picked them.
InactiveNotAssigned ==
  [][\A w \in Workers : Granted(w, "CreatePR") =>
       Reviewers(db', req[w].pr) \subseteq {u \in Users : db'[UserKey(u)].active}]_vars
==============================================================================
