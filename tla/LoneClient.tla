------------------------------ MODULE LoneClient ------------------------------
(***************************************************************************)
(* What keeps the promises made to a client who is alone: with a single    *)
(* worker of AssignmentService, nothing commits between the statements of  *)
(* a request, and what a statement has found is still so when a later one  *)
(* writes.                                                                 *)
(***************************************************************************)
EXTENDS AssignmentService

\* One request at a time, on a database that keeps the limit.
Lone(w) == Workers = {w} /\ \A s \in InitialDBs : WithinLimit(s)

(***************************************************************************)
(* The limit of two reviewers.                                             *)
(***************************************************************************)
\* The rows of reviewers the request has decided to delete, and not deleted.
Leaving(w) ==
  CASE pc[w] = "remove" -> RemoveReviewerFromOpenPRs(See(w), Subject(w))
    [] pc[w] \in {"removing", "lockOld"} -> todo[w]
    [] OTHER -> {}

Staying(w, p) == {u \in Reviewers(See(w), p) : RevKey(p, u) \notin Leaving(w)}

\* The steps without assignments to add: of Merge, and of a creation as long as
\* its pull request is not there.
NotAdding == {"pick", "authorExists", "insertPR", "merge", "mergeExists", "getMerged"}

Coming(w, p) == {u \in Users : pc[w] \notin NotAdding /\ <<p, u>> \in items[w]}

\* What a request is going to make of a pull request keeps the limit ...
RoomHeld(w) == pc[w] # "done" =>
  \A p \in PRs : Cardinality(Staying(w, p) \cup Coming(w, p)) <= 2

\* The steps before the first query for somebody to take over.
BeforeQuery == {"setActive", "lockUser", "deactivate", "deactivating", "teamExists",
                "removeTeam"}

\* ... because whoever takes over does not review it yet.
ItemsNew(w) ==
  /\ pc[w] \in BeforeQuery => items[w] = {}
  /\ pc[w] \in {"candidates", "remove", "removing"} =>
       \A a \in items[w] : ~Has(See(w), RevKey(a[1], a[2]))

(***************************************************************************)
(* Merged pull requests.                                                   *)
(***************************************************************************)
\* Every row of reviewers written, or to be written, is of an open one.
OnlyOpen(w) == pc[w] # "done" =>
  /\ \A p \in PRs, u \in Users : tx[w][RevKey(p, u)] # Unwritten => IsOpen(See(w), p)
  /\ pc[w] \in {"removing", "lockOld"} =>
       \A p \in PRs, u \in Users : RevKey(p, u) \in todo[w] => IsOpen(See(w), p)
  /\ pc[w] \notin NotAdding => \A a \in items[w] : IsOpen(See(w), a[1])

(***************************************************************************)
(* Inactive users.                                                         *)
(***************************************************************************)
IsActive(s, u) == Has(s, UserKey(u)) /\ s[UserKey(u)].active

\* A reviewer is added after the last change of a user, if active then.
AddsActive(w) == pc[w] # "done" =>
  /\ \A p \in PRs, u \in Users : tx[w][RevKey(p, u)] = Present =>
       IsActive(See(w), u) /\ pc[w] \in {"adding", "commit", "getReassigned"}
  /\ pc[w] = "adding" => todo[w] \subseteq AddReviewers(See(w), items[w])
  /\ pc[w] \in {"lockOld", "lockNew"} => \A a \in items[w] : IsActive(See(w), a[2])

\* The users a request deactivates.
Quitting(w) ==
  CASE req[w].op = "SetActive" /\ ~req[w].active -> {req[w].user}
    [] req[w].op = "DeactivateTeam" -> TeamMembers(See(w), req[w].team)
    [] OTHER -> {}

\* They lose all their open reviews, and take none over.
QuittersLeave(w) == \A u \in Quitting(w) :
  /\ pc[w] = "removing" => RemoveReviewerFromOpenPRs(See(w), u) \subseteq todo[w]
  /\ pc[w] \in {"add", "adding", "commit"} => OpenReviews(See(w), u) = {}
  /\ req[w].op = "SetActive" /\ pc[w] # "done" => \A a \in items[w] : a[2] # u

\* What a lone request relies on between its statements: with Inductive,
\* ReferencesHeld and AnswersHeld, an inductive invariant.
LoneHeld == AtMostTwo /\ \A w \in Workers :
  RoomHeld(w) /\ ItemsNew(w) /\ OnlyOpen(w) /\ AddsActive(w) /\ QuittersLeave(w)
==============================================================================
