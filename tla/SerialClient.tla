----------------------------- MODULE SerialClient -----------------------------
(***************************************************************************)
(* AssignmentService with a single worker implements AtomicService: the    *)
(* refinement mapping, and how far each statement has brought the rows the *)
(* request sees on their way from the committed ones to its outcome.       *)
(***************************************************************************)
EXTENDS LoneClient, EndpointOutcomes

(***************************************************************************)
(* The refinement.                                                         *)
(***************************************************************************)
worker == CHOOSE w \in Workers : TRUE

\* Merge has had its effect, and only its answer is to come, at getMerged.
stage == CASE pc[worker] = "done"      -> "free"
           [] pc[worker] = "getMerged" -> "applied"
           [] OTHER                    -> "pending"

ans == CASE pc[worker] = "done"      -> res[worker]
         [] pc[worker] = "getMerged" -> Answer("OK", GetByID(db, req[worker].pr))
         [] OTHER                    -> NoAnswer

Atomic == INSTANCE AtomicService WITH req <- req[worker]

\* With one worker, every request takes effect and is answered as
\* AtomicService says: the statement-by-statement code has exactly the
\* outcomes of the endpoint read as one step.
SerialIsAtomic == Atomic!Spec

(***************************************************************************)
(* What w sees while a statement rewrites rows: those of s where it has    *)
(* still to write, those of t elsewhere.                                   *)
(***************************************************************************)
Between(w, s, t) == See(w) = [k \in Keys |-> IF k \in todo[w] THEN s[k] ELSE t[k]]

Removing(w, s, rows) == todo[w] \subseteq rows /\ Between(w, s, Without(s, rows))

\* From AddReviewers on.
Adding(w, s) ==
  \/ pc[w] = "add" /\ See(w) = s
  \/ pc[w] = "adding" /\ todo[w] \subseteq AddReviewers(s, items[w])
                      /\ Between(w, s, With(s, items[w]))
  \/ pc[w] = "commit" /\ See(w) = With(s, items[w])

(***************************************************************************)
(* Where the requests are.                                                 *)
(***************************************************************************)
Granting(w) == res[w] = Answer("OK", Absent)

SettingActive(w) ==
  LET u   == req[w].user
      set == Switched(db, u, req[w].active)
  IN  \/ pc[w] = "setActive" /\ items[w] = {}
      \/ /\ pc[w] = "lockUser" /\ items[w] = {}
         /\ Has(db, UserKey(u)) /\ db[UserKey(u)].team \in seen[w]
      \/ /\ Has(db, UserKey(u)) /\ req[w].active /\ Granting(w)
         /\ pc[w] = "commit" /\ See(w) = set
      \/ /\ Has(db, UserKey(u)) /\ ~req[w].active /\ Granting(w)
         /\ \/ pc[w] = "candidates" /\ See(w) = set /\ items[w] = {}
            \/ /\ items[w] \in GetReassignmentCandidatesForReviewer(set, u)
               /\ \/ pc[w] = "remove" /\ See(w) = set
                  \/ pc[w] = "removing" /\ Removing(w, set, RemoveReviewerFromOpenPRs(set, u))
                  \/ Adding(w, SteppedDown(set, u))

CreatingTeam(w) ==
  LET t       == req[w].team
      members == req[w].members
      After(n) == HandedOver(db, members)[n]
  IN  \/ /\ pc[w] = "candidates"
         /\ [db |-> See(w), found |-> items[w]] \in After(idx[w] - 1)
      \/ /\ pc[w] \in {"remove", "removing"}
         /\ \E x \in After(idx[w] - 1) :
              \E found \in GetReassignmentCandidatesForReviewer(x.db, Subject(w)) :
                /\ found # {} /\ items[w] = x.found \cup found
                /\ \/ pc[w] = "remove" /\ See(w) = x.db
                   \/ /\ pc[w] = "removing"
                      /\ Removing(w, x.db, RemoveReviewerFromOpenPRs(x.db, Subject(w)))
      \/ /\ pc[w] = "insertTeam"
         /\ [db |-> See(w), found |-> items[w]] \in After(Len(members))
      \/ /\ ~Has(db, TeamKey(t)) /\ Granting(w)
         /\ \E x \in After(Len(members)) :
              /\ items[w] = x.found
              /\ \/ pc[w] = "upsertUser" /\ See(w) = Enlist(x.db, t, members, idx[w] - 1)
                 \/ Adding(w, Enlist(x.db, t, members, Len(members)))

DeactivatingTeam(w) ==
  LET t    == req[w].team
      off  == SwitchedOff(db, t)
      rows == RemoveTeamReviewersFromOpenPRs(db, t)
  IN  \/ pc[w] = "deactivate"
      \/ /\ pc[w] = "deactivating"
         /\ todo[w] \subseteq {UserKey(u) : u \in ActiveMembers(db, t)}
         /\ Between(w, db, off)
         /\ tx[w] # NoWrites => ActiveMembers(db, t) # {}
      \/ pc[w] = "teamExists" /\ off = db /\ See(w) = db
      \/ /\ Has(db, TeamKey(t))
         /\ \/ pc[w] = "removeTeam" /\ See(w) = off
            \/ pc[w] = "removing" /\ Granting(w) /\ Removing(w, off, rows)
            \/ pc[w] = "commit" /\ Granting(w) /\ See(w) = Without(off, rows)

CreatingPR(w) ==
  LET p      == req[w].pr
      author == req[w].author
      body(R) == [status |-> "OPEN", merged_at |-> Absent, reviewers |-> R]
  IN  \/ pc[w] = "pick"
      \/ \E R \in GetTwoActiveTeamMembersByAuthorID(db, author) :
           /\ items[w] = {<<p, u>> : u \in R}
           /\ \/ pc[w] = "authorExists" /\ R = {}
              \/ pc[w] = "insertPR" /\ Has(db, UserKey(author))
              \/ /\ Has(db, UserKey(author)) /\ ~Has(db, PRKey(p))
                 /\ res[w] = Answer("OK", body(R))
                 /\ Adding(w, Opened(db, p, author))

Reassigning(w) ==
  LET p   == req[w].pr
      old == req[w].old
  IN  \/ pc[w] = "reassign"
      \/ /\ IsOpen(db, p) /\ old \in Reviewers(db, p)
         /\ \E new \in ReassignCandidates(db, p, old) :
              \/ pc[w] = "lockOld" /\ items[w] = {<<p, new>>} /\ todo[w] = {RevKey(p, old)}
              \/ /\ pc[w] = "lockNew" /\ items[w] = {<<p, new>>}
                 /\ See(w) = [db EXCEPT ![RevKey(p, old)] = Absent]
              \/ pc[w] = "getReassigned" /\ See(w) = Swapped(db, p, old, new)
              \/ /\ pc[w] = "commit" /\ See(w) = Swapped(db, p, old, new)
                 /\ res[w] = Answer("OK", GetByID(See(w), p))

\* The request of a lone client is on its way to one of its outcomes: with
\* Inductive, ReferencesHeld and AnswersHeld, an inductive invariant.
OnCourse == \A w \in Workers : pc[w] # "done" =>
  \/ req[w].op = "SetActive" /\ SettingActive(w)
  \/ req[w].op = "CreateTeam" /\ CreatingTeam(w)
  \/ req[w].op = "DeactivateTeam" /\ DeactivatingTeam(w)
  \/ req[w].op = "CreatePR" /\ CreatingPR(w)
  \/ req[w].op = "Merge" /\ (pc[w] = "mergeExists" => ~IsOpen(db, req[w].pr))
  \/ req[w].op = "Reassign" /\ Reassigning(w)
==============================================================================
