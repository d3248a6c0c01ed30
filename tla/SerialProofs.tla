----------------------------- MODULE SerialProofs -----------------------------
(***************************************************************************)
(* AssignmentService with a single worker implements AtomicService, for    *)
(* any number of users, teams, pull requests, requests and faults.  What   *)
(* the request sees is followed statement by statement (OnCourse) to the   *)
(* commit, which makes one of the endpoint's outcomes of it; every other   *)
(* step is a stutter, a refusal or a fault.                                *)
(*                                                                         *)
(* Part 1  what a lone request sees   Part 4  the other requests           *)
(* Part 2  handovers in turn          Part 5  the request is on course     *)
(* Part 3  SetActive and CreateTeam   Part 6  the refinement               *)
(* Part 7  the number of reviewers                                         *)
(***************************************************************************)
EXTENDS SerialClient, LoneProofs

(***************************************************************************)
(* Part 1.  What a lone request sees.                                      *)
(***************************************************************************)
\* Nobody is there to wait for.
LEMMA NeverDeadlocked ==
  ASSUME NEW w, Workers = {w}
  PROVE  ~DeadlockAbort(w)
<1>1. WaitsFor(w) = {}
  BY DEF WaitsFor
<1> QED
  BY <1>1 DEF DeadlockAbort, Deadlocked

LEMMA ViewKept ==
  ASSUME NEW w \in Workers, tx' = tx, db' = db
  PROVE  See(w)' = See(w)
  BY DEF See

\* Before its first write a transaction sees the committed rows.
LEMMA ViewCommitted ==
  ASSUME NEW w \in Workers, Inductive, tx[w] = NoWrites
  PROVE  See(w) = db
<1>1. db = [k \in Keys |-> db[k]]
  BY DEF Inductive, TypeOK, RowsTyped, WellTyped
<1>2. See(w) = [k \in Keys |-> db[k]]
  BY DEF See, NoWrites
<1> QED
  BY <1>1, <1>2

\* One row written changes one row of what the transaction sees.
LEMMA ViewWritten ==
  ASSUME NEW w \in Workers, Inductive, NEW k \in Keys, NEW row, row # Unwritten,
         tx' = [tx EXCEPT ![w][k] = row], db' = db
  PROVE  See(w)' = [See(w) EXCEPT ![k] = row]
<1>1. \A j \in Keys : tx'[w][j] = IF j = k THEN row ELSE tx[w][j]
  BY OneWritten DEF Inductive, TypeOK
<1>2. \A j \in Keys : See(w)'[j] = IF j = k THEN row ELSE See(w)[j]
  BY <1>1, Seeing, SeeingNext
<1>3. See(w)' = [j \in Keys |-> See(w)'[j]] /\ See(w) = [j \in Keys |-> See(w)[j]]
  BY DEF See
<1> QED
  BY <1>2, <1>3

\* Which statement comes next.
LEMMA StatementAt ==
  ASSUME NEW w \in Workers, Quiet(w)
  PROVE  /\ pc[w] = "setActive" => SetActive(w)
         /\ pc[w] = "lockUser" => LockUser(w)
         /\ pc[w] = "candidates" => FindCandidates(w)
         /\ pc[w] = "remove" => Remove(w)
         /\ pc[w] = "removing" => RemoveRow(w) \/ Removed(w)
         /\ pc[w] = "add" => Add(w)
         /\ pc[w] = "adding" => AddRow(w) \/ Added(w)
         /\ pc[w] = "insertTeam" => InsertTeam(w)
         /\ pc[w] = "upsertUser" => UpsertUser(w)
         /\ pc[w] = "deactivate" => Deactivate(w)
         /\ pc[w] = "deactivating" => DeactivateRow(w) \/ Deactivated(w)
         /\ pc[w] = "teamExists" => TeamExists(w)
         /\ pc[w] = "removeTeam" => RemoveTeam(w)
         /\ pc[w] = "pick" => Pick(w)
         /\ pc[w] = "authorExists" => AuthorExists(w)
         /\ pc[w] = "insertPR" => InsertPR(w)
         /\ pc[w] = "mergeExists" => MergeExists(w)
         /\ pc[w] = "getMerged" => GetMerged(w)
         /\ pc[w] = "reassign" => Reassign(w)
         /\ pc[w] = "lockOld" => LockOld(w)
         /\ pc[w] = "lockNew" => LockNew(w)
         /\ pc[w] = "getReassigned" => GetReassigned(w)
         /\ pc[w] \notin {"done", "merge", "commit"}
<1>1. /\ SetActive(w) => pc[w] = "setActive"
      /\ LockUser(w) => pc[w] = "lockUser"
      /\ FindCandidates(w) => pc[w] = "candidates"
      /\ Remove(w) => pc[w] = "remove"
      /\ RemoveRow(w) \/ Removed(w) => pc[w] = "removing"
      /\ Add(w) => pc[w] = "add"
      /\ AddRow(w) \/ Added(w) => pc[w] = "adding"
  BY DEF SetActive, LockUser, FindCandidates, Remove, RemoveRow, Removed, Add, AddRow, Added
<1>2. /\ InsertTeam(w) => pc[w] = "insertTeam"
      /\ UpsertUser(w) => pc[w] = "upsertUser"
      /\ Deactivate(w) => pc[w] = "deactivate"
      /\ DeactivateRow(w) \/ Deactivated(w) => pc[w] = "deactivating"
      /\ TeamExists(w) => pc[w] = "teamExists"
      /\ RemoveTeam(w) => pc[w] = "removeTeam"
  BY DEF InsertTeam, UpsertUser, Deactivate, DeactivateRow, Deactivated, TeamExists, RemoveTeam
<1>3. /\ Pick(w) => pc[w] = "pick"
      /\ AuthorExists(w) => pc[w] = "authorExists"
      /\ InsertPR(w) => pc[w] = "insertPR"
      /\ MergeExists(w) => pc[w] = "mergeExists"
      /\ GetMerged(w) => pc[w] = "getMerged"
      /\ Reassign(w) => pc[w] = "reassign"
      /\ LockOld(w) => pc[w] = "lockOld"
      /\ LockNew(w) => pc[w] = "lockNew"
      /\ GetReassigned(w) => pc[w] = "getReassigned"
  BY DEF Pick, AuthorExists, InsertPR, MergeExists, GetMerged, Reassign, LockOld, LockNew,
         GetReassigned
<1> QED
  BY <1>1, <1>2, <1>3 DEF Quiet

\* A statement that writes rows begins with all of them to be written.
LEMMA RowsChosen ==
  ASSUME NEW w \in Workers, NEW s, NEW t, See(w)' = See(w), See(w) = s,
         \A k \in Keys \ todo'[w] : t[k] = s[k]
  PROVE  See(w)' = [k \in Keys |-> IF k \in todo'[w] THEN s[k] ELSE t[k]]
<1>1. See(w) = [k \in Keys |-> See(w)[k]]
  BY DEF See
<1> QED
  BY <1>1

\* A DELETE from reviewers, row by row.
LEMMA RemovingStep ==
  ASSUME NEW w \in Workers, Inductive, NEW s, NEW rows, pc[w] = "removing",
         Removing(w, s, rows), Quiet(w), db' = db
  PROVE  \/ /\ pc'[w] = "removing" /\ items' = items /\ idx' = idx /\ res' = res
            /\ todo'[w] \subseteq rows
            /\ See(w)' = [k \in Keys |-> IF k \in todo'[w] THEN s[k] ELSE Without(s, rows)[k]]
         \/ Removed(w) /\ See(w) = Without(s, rows) /\ See(w)' = See(w)
<1> USE DEF Inductive, TypeOK
<1>1. CASE RemoveRow(w)
  <2>1. PICK k \in todo[w] : WriteRow(w, k, Absent)
    BY <1>1 DEF RemoveRow
  <2>2. k \in RevKeys /\ k \in Keys /\ k \in rows
    BY <2>1 DEF Settled, TodoInTable, Keys, Removing
  <2>3. /\ tx' = [tx EXCEPT ![w][k] = Absent]
        /\ pc' = pc /\ todo'[w] = todo[w] \ {k} /\ items' = items /\ idx' = idx /\ res' = res
    BY <2>1, UnwrittenIsNoRow DEF WriteRow, LocalsTyped
  <2>4. See(w)' = [See(w) EXCEPT ![k] = Absent]
    BY <2>2, <2>3, ViewWritten, UnwrittenIsNoRow
  <2>5. Without(s, rows)[k] = Absent
    BY <2>2 DEF Without
  <2>6. See(w)' = [j \in Keys |-> IF j \in todo'[w] THEN s[j] ELSE Without(s, rows)[j]]
    BY <2>1, <2>2, <2>3, <2>4, <2>5 DEF Removing, Between
  <2> QED
    BY <2>3, <2>6 DEF Removing
<1>2. CASE Removed(w)
  <2>1. todo[w] = {} /\ tx' = tx
    BY <1>2 DEF Removed
  <2>2. See(w) = Without(s, rows)
    BY <2>1 DEF Removing, Between, Without
  <2> QED
    BY <1>2, <2>1, <2>2, ViewKept
<1> QED
  BY <1>1, <1>2, StatementAt

\* The INSERT of AddReviewers, row by row, and its end.
LEMMA AddingStep ==
  ASSUME NEW w \in Workers, Inductive, NEW s, Adding(w, s), Quiet(w), db' = db
  PROVE  /\ items' = items /\ res' = res
         /\ \/ /\ pc'[w] = "adding" /\ todo'[w] \subseteq AddReviewers(s, items[w])
               /\ See(w)' = [k \in Keys |-> IF k \in todo'[w] THEN s[k]
                                                        ELSE With(s, items[w])[k]]
            \/ pc'[w] = "commit" /\ See(w)' = With(s, items[w])
<1> USE DEF Inductive, TypeOK
<1> DEFINE t == With(s, items[w])
<1>1. CASE pc[w] = "add"
  <2>1. Add(w) /\ See(w) = s
    BY <1>1, StatementAt DEF Adding
  <2>2. tx' = tx /\ items' = items /\ res' = res
    BY <2>1 DEF Add, Choose, Proceed
  <2>3. See(w)' = See(w)
    BY <2>2, ViewKept
  <2>4. CASE items[w] = {} /\ Proceed(w, "commit")
    <3>1. AddReviewers(s, items[w]) = {}
      BY <2>4 DEF AddReviewers
    <3>2. s = [k \in Keys |-> s[k]]
      BY <2>1 DEF See
    <3>3. t = s
      BY <3>1, <3>2 DEF With
    <3>4. pc'[w] = "commit"
      BY <2>4 DEF Proceed, Goto, LocalsTyped
    <3> QED
      BY <2>1, <2>2, <2>3, <3>3, <3>4
  <2>5. CASE Choose(w, AddReviewers(See(w), items[w]), "adding")
    <3>1. pc'[w] = "adding" /\ todo'[w] = AddReviewers(s, items[w])
      BY <2>1, <2>5 DEF Choose, Goto, LocalsTyped
    <3>2. \A k \in Keys \ todo'[w] : t[k] = s[k]
      BY <3>1 DEF With
    <3>3. See(w)' = [k \in Keys |-> IF k \in todo'[w] THEN s[k] ELSE t[k]]
      BY <2>1, <2>3, <3>2, RowsChosen
    <3> QED
      BY <2>2, <3>1, <3>3
  <2> QED
    BY <2>1, <2>4, <2>5 DEF Add
<1>2. CASE pc[w] = "adding"
  <2>1. todo[w] \subseteq AddReviewers(s, items[w]) /\ Between(w, s, t)
    BY <1>2 DEF Adding
  <2>2. CASE AddRow(w)
    <3>1. PICK k \in todo[w] :
            WriteRow(w, k, IF Has(See(w), k) THEN Unwritten ELSE Present)
      BY <2>2 DEF AddRow
    <3>2. PICK a \in items[w] : k = RevKey(a[1], a[2])
      BY <1>2, <3>1 DEF Settled, TodoInTable
    <3>3. a[1] \in PRs /\ a[2] \in Users /\ k \in Keys
      BY <3>2, KeysApart DEF LocalsTyped
    <3>4. /\ pc' = pc /\ todo'[w] = todo[w] \ {k} /\ items' = items /\ res' = res
          /\ tx' = IF Has(See(w), k) THEN tx ELSE [tx EXCEPT ![w][k] = Present]
      BY <3>1, UnwrittenIsNoRow DEF WriteRow, LocalsTyped
    <3>5. t[k] = Present
      BY <2>1, <3>1, <3>3 DEF With
    <3>6. See(w)' = [See(w) EXCEPT ![k] = Present]
      <4>1. CASE Has(See(w), k)
        <5>1. See(w)[k] = Present
          BY <3>2, <3>3, <4>1, SeenTyped DEF WellTyped, Has
        <5>2. See(w)' = See(w)
          BY <3>4, <4>1, ViewKept
        <5>3. See(w) = [j \in Keys |-> See(w)[j]]
          BY DEF See
        <5> QED
          BY <5>1, <5>2, <5>3
      <4>2. CASE ~Has(See(w), k)
        <5>1. tx' = [tx EXCEPT ![w][k] = Present] /\ Present # Unwritten
          BY <3>4, <4>2, UnwrittenIsNoRow
        <5> QED
          BY <3>3, <5>1, ViewWritten
      <4> QED
        BY <4>1, <4>2
    <3>7. See(w)' = [j \in Keys |-> IF j \in todo'[w] THEN s[j] ELSE t[j]]
      <4>1. k \in todo[w] \cap Keys /\ See(w)' = [See(w) EXCEPT ![k] = t[k]]
        BY <3>1, <3>3, <3>5, <3>6
      <4> HIDE DEF t
      <4> QED
        BY <2>1, <3>4, <4>1 DEF Between
    <3> QED
      BY <1>2, <2>1, <3>4, <3>7
  <2>3. CASE Added(w)
    <3>1. /\ todo[w] = {} /\ tx' = tx /\ items' = items /\ res' = res
          /\ pc'[w] = "commit"
      BY <2>3 DEF Added, Proceed, Goto, LocalsTyped
    <3>2. See(w)' = See(w)
      BY <3>1, ViewKept
    <3>3. See(w) = t
      BY <2>1, <3>1 DEF Between, With
    <3> QED
      BY <3>1, <3>2, <3>3
  <2> QED
    BY <1>2, <2>2, <2>3, StatementAt
<1>3. pc[w] # "commit"
  BY StatementAt
<1> QED
  BY <1>1, <1>2, <1>3 DEF Adding

(***************************************************************************)
(* Part 2.  Handovers in turn.                                             *)
(***************************************************************************)
\* The handovers of the members follow one another: the recursion defines them.
LEMMA HandoversFollow ==
  ASSUME NEW s, NEW members, Len(members) \in Nat
  PROVE  LET H == HandedOver(s, members) IN
         /\ H[0] = {[db |-> s, found |-> {}]}
         /\ \A n \in 1 .. Len(members) : H[n] = HandOver(H[n - 1], members[n].user)
<1> DEFINE start == {[db |-> s, found |-> {}]}
           Follows(h, m) == h = [n \in 0 .. m |->
              IF n = 0 THEN start ELSE HandOver(h[n - 1], members[n].user)]
           failing == {m \in Nat : ~\E h : Follows(h, m)}
           last == Len(members)
<1>1. \E h : Follows(h, 0)
  <2>1. Follows([n \in 0 .. 0 |-> start], 0)
    OBVIOUS
  <2> QED
    BY <2>1
<1>2. ASSUME NEW m \in Nat, NEW h, Follows(h, m)
      PROVE  \E g : Follows(g, m + 1)
  <2> DEFINE g == [n \in 0 .. m + 1 |->
                    IF n = m + 1 THEN HandOver(h[m], members[n].user) ELSE h[n]]
  <2>1. \A n \in 0 .. m : g[n] = h[n]
    OBVIOUS
  <2>2. g[m + 1] = HandOver(g[m], members[m + 1].user)
    BY <2>1
  <2>3. ASSUME NEW n \in 1 .. m PROVE g[n] = HandOver(g[n - 1], members[n].user)
    <3>1. h[n] = HandOver(h[n - 1], members[n].user)
      <4> HIDE DEF g, start
      <4>1. \A i \in 0 .. m : h[i] = IF i = 0 THEN start ELSE HandOver(h[i - 1], members[i].user)
        BY <1>2
      <4>2. n \in 0 .. m /\ n # 0
        OBVIOUS
      <4> QED
        BY <4>1, <4>2
    <3>2. n \in 0 .. m /\ n - 1 \in 0 .. m
      OBVIOUS
    <3> HIDE DEF g
    <3> QED
      BY <2>1, <3>1, <3>2
  <2>4. g[0] = start
    <3>1. h[0] = start /\ 0 \in 0 .. m
      BY <1>2
    <3> HIDE DEF g, start
    <3> QED
      BY <2>1, <3>1
  <2>5. \A n \in 0 .. m + 1 :
          g[n] = IF n = 0 THEN start ELSE HandOver(g[n - 1], members[n].user)
    <3> HIDE DEF g, start
    <3> SUFFICES ASSUME NEW n \in 0 .. m + 1
                 PROVE  g[n] = IF n = 0 THEN start ELSE HandOver(g[n - 1], members[n].user)
      OBVIOUS
    <3>1. n = 0 \/ n \in 1 .. m \/ n = m + 1
      OBVIOUS
    <3>2. m + 1 # 0 /\ (m + 1) - 1 = m
      OBVIOUS
    <3>3. n \in 1 .. m => n # 0
      OBVIOUS
    <3> QED
      BY <2>2, <2>3, <2>4, <3>1, <3>2, <3>3
  <2>6. g = [n \in 0 .. m + 1 |-> g[n]]
    OBVIOUS
  <2>7. Follows(g, m + 1)
    <3> HIDE DEF g, start
    <3> QED
      BY <2>5, <2>6
  <2> QED
    BY <2>7
<1> HIDE DEF Follows
<1>3. failing = {}
  <2>1. SUFFICES ASSUME failing # {} PROVE FALSE
    OBVIOUS
  <2>2. PICK m \in failing : \A k \in failing : ~(k < m)
    BY <2>1, NatMinimum
  <2>3. m # 0
    BY <1>1, <2>2
  <2>4. m - 1 \in Nat /\ m - 1 < m /\ (m - 1) + 1 = m
    BY <2>2, <2>3
  <2>5. \E h : Follows(h, m - 1)
    BY <2>2, <2>4
  <2>6. \E g : Follows(g, (m - 1) + 1)
    BY <1>2, <2>4, <2>5
  <2> QED
    BY <2>2, <2>4, <2>6
<1>4. \E h : Follows(h, last)
  BY <1>3
<1>5. HandedOver(s, members) = CHOOSE h : Follows(h, last)
  BY DEF HandedOver, Follows
<1>6. Follows(HandedOver(s, members), last)
  BY <1>4, <1>5
<1> HIDE DEF start
<1>7. 0 \in 0 .. last /\ \A n \in 1 .. last : n \in 0 .. last /\ n # 0
  OBVIOUS
<1>8. \A n \in 0 .. last : HandedOver(s, members)[n] =
        IF n = 0 THEN start ELSE HandOver(HandedOver(s, members)[n - 1], members[n].user)
  <2> DEFINE H == HandedOver(s, members)
  <2>1. H = [n \in 0 .. last |->
              IF n = 0 THEN start ELSE HandOver(H[n - 1], members[n].user)]
    BY <1>6 DEF Follows
  <2> HIDE DEF H, last
  <2> QED
    BY <2>1 DEF H
<1> QED
  BY <1>7, <1>8 DEF start

(***************************************************************************)
(* Part 3.  SetActive and CreateTeam.                                      *)
(***************************************************************************)
\* A row of users that is found is in a team that is found.
LEMMA TeamFound ==
  ASSUME Inductive, ReferencesHeld, NEW u \in Users, Has(db, UserKey(u))
  PROVE  db[UserKey(u)] \in UserRow /\ Has(db, TeamKey(db[UserKey(u)].team))
  BY DEF Inductive, TypeOK, RowsTyped, WellTyped, Has, ReferencesHeld, RowsAnchored, Anchored

LEMMA SettingActiveStep ==
  ASSUME NEW w \in Workers, Inductive, ReferencesHeld, HoldsNothing(w),
         req[w].op = "SetActive", SettingActive(w), Quiet(w), db' = db, req'[w] = req[w],
         \A code : ~Fail(w, code)
  PROVE  SettingActive(w)'
<1> USE DEF Inductive, TypeOK
<1> DEFINE u == req[w].user
           k == UserKey(u)
           set == Switched(db, u, req[w].active)
           rows == RemoveReviewerFromOpenPRs(set, u)
<1>1. u \in Users /\ req[w].active \in BOOLEAN /\ k \in Keys
  <2>1. pc[w] # "done"
    BY StatementAt
  <2> QED
    BY <2>1, RequestForms, KeysApart DEF Settled, OnItsWay
<1>2. set' = set /\ k' = k /\ rows' = rows
  OBVIOUS
<1>3. CASE pc[w] = "setActive"
  <2>1. SetActive(w) /\ See(w) = db /\ items[w] = {}
    BY <1>3, StatementAt, ViewCommitted DEF HoldsNothing, Unwriting, SettingActive, Adding
  <2>2. /\ Has(db, k) /\ pc'[w] = "lockUser" /\ items' = items
        /\ seen'[w] = {t \in Teams : Has(db, TeamKey(t))}
    BY <2>1 DEF SetActive, Goto, LocalsTyped
  <2>3. db[k].team \in seen'[w]
    BY <1>1, <2>2, TeamFound DEF UserRow
  <2> QED
    BY <2>1, <2>2, <2>3 DEF SettingActive
<1>4. CASE pc[w] = "lockUser"
  <2>1. LockUser(w) /\ See(w) = db /\ items[w] = {} /\ Has(db, k)
    BY <1>4, StatementAt, ViewCommitted
       DEF HoldsNothing, Unwriting, SettingActive, Adding
  <2>2. /\ tx' = [tx EXCEPT ![w][k] = [db[k] EXCEPT !.active = req[w].active]]
        /\ pc'[w] = IF req[w].active THEN "commit" ELSE "candidates"
        /\ res'[w] = Answer("OK", Absent) /\ items' = items
    BY <2>1 DEF LockUser, Put, Goto, Prepare, LocalsTyped
  <2>3. [db[k] EXCEPT !.active = req[w].active] # Unwritten
    BY <1>1, <2>1, TeamFound, UnwrittenIsNoRow DEF UserRow
  <2>4. See(w)' = [db EXCEPT ![k] = [db[k] EXCEPT !.active = req[w].active]]
    <3> DEFINE row == [db[k] EXCEPT !.active = req[w].active]
    <3>1. row # Unwritten /\ tx' = [tx EXCEPT ![w][k] = row]
      BY <2>2, <2>3
    <3> HIDE DEF row
    <3>2. See(w)' = [See(w) EXCEPT ![k] = row]
      BY <1>1, <3>1, ViewWritten
    <3> QED
      BY <2>1, <3>2 DEF row
  <2>5. See(w)' = set
    BY <2>4 DEF Switched
  <2> QED
    BY <1>1, <1>2, <2>1, <2>2, <2>5 DEF SettingActive, Granting
<1>5. CASE /\ Has(db, k) /\ ~req[w].active /\ Granting(w)
           /\ pc[w] = "candidates" /\ See(w) = set /\ items[w] = {}
  <2>1. FindCandidates(w) /\ Subject(w) = u
    BY <1>5, StatementAt DEF Subject
  <2>2. /\ items'[w] \in GetReassignmentCandidatesForReviewer(set, u)
        /\ pc'[w] = "remove" /\ tx' = tx /\ res' = res
    BY <1>5, <2>1 DEF FindCandidates, Goto, LocalsTyped
  <2>3. See(w)' = set
    BY <1>5, <2>2, ViewKept
  <2> QED
    BY <1>2, <1>5, <2>2, <2>3 DEF SettingActive, Granting
<1>6. ASSUME Has(db, k), ~req[w].active, Granting(w),
             items[w] \in GetReassignmentCandidatesForReviewer(set, u)
      PROVE  SettingActive(w)'
  <2>0. SUFFICES ASSUME \/ pc[w] = "remove" /\ See(w) = set
                        \/ pc[w] = "removing" /\ Removing(w, set, rows)
                        \/ Adding(w, SteppedDown(set, u))
                 PROVE  SettingActive(w)'
    <3>1. CASE pc[w] = "candidates"
      BY <1>5, <1>6, <3>1 DEF SettingActive, Adding
    <3>2. CASE pc[w] # "candidates"
      BY <1>3, <1>4, <1>6, <2>0, <3>2 DEF SettingActive
    <3> QED
      BY <3>1, <3>2
  <2> DEFINE Onward == \/ pc'[w] = "remove" /\ See(w)' = set
                       \/ /\ pc'[w] = "removing" /\ todo'[w] \subseteq rows
                          /\ See(w)' = [j \in Keys |-> IF j \in todo'[w] THEN set[j]
                                                         ELSE Without(set, rows)[j]]
                       \/ pc'[w] = "add" /\ See(w)' = SteppedDown(set, u)
                       \/ /\ pc'[w] = "adding"
                          /\ todo'[w] \subseteq AddReviewers(SteppedDown(set, u), items[w])
                          /\ See(w)' = [j \in Keys |-> IF j \in todo'[w]
                                            THEN SteppedDown(set, u)[j]
                                            ELSE With(SteppedDown(set, u), items[w])[j]]
                       \/ /\ pc'[w] = "commit"
                          /\ See(w)' = With(SteppedDown(set, u), items[w])
  <2>1. CASE pc[w] = "remove" /\ See(w) = set
    <3>1. Remove(w) /\ Subject(w) = u
      BY <2>1, StatementAt DEF Subject
    <3>2. pc'[w] = "removing" /\ todo'[w] = rows /\ tx' = tx /\ items' = items /\ res' = res
      BY <2>1, <3>1 DEF Remove, Choose, Goto, LocalsTyped
    <3>3. See(w)' = See(w)
      BY <3>2, ViewKept
    <3>4. \A j \in Keys \ todo'[w] : Without(set, rows)[j] = set[j]
      BY <3>2 DEF Without
    <3>5. See(w)' = [j \in Keys |-> IF j \in todo'[w] THEN set[j] ELSE Without(set, rows)[j]]
      <4> HIDE DEF set, rows
      <4> QED
        BY <2>1, <3>3, <3>4, RowsChosen
    <3>6. Onward
      BY <3>2, <3>5
    <3> QED
      BY <1>2, <1>6, <3>2, <3>5 DEF SettingActive, Granting, Removing, Between
  <2>2. CASE pc[w] = "removing" /\ Removing(w, set, rows)
    <3>1. CASE Removed(w) /\ See(w) = Without(set, rows) /\ See(w)' = See(w)
      <4>1. pc'[w] = "add" /\ items' = items /\ res' = res
        BY <3>1 DEF Removed, Goto, LocalsTyped
      <4>2. See(w)' = SteppedDown(set, u)
        BY <3>1 DEF SteppedDown
      <4> QED
        BY <1>2, <1>6, <4>1, <4>2 DEF SettingActive, Granting, Adding
    <3>2. CASE /\ pc'[w] = "removing" /\ items' = items /\ res' = res
               /\ todo'[w] \subseteq rows
               /\ See(w)' = [j \in Keys |-> IF j \in todo'[w] THEN set[j]
                                              ELSE Without(set, rows)[j]]
      BY <1>2, <1>6, <3>2 DEF SettingActive, Granting, Removing, Between
    <3> QED
      <4> HIDE DEF set, rows
      <4> QED
        BY <2>2, <3>1, <3>2, RemovingStep
  <2>3. CASE Adding(w, SteppedDown(set, u))
    <3> DEFINE off == SteppedDown(set, u)
    <3>1. /\ items' = items /\ res' = res
          /\ \/ /\ pc'[w] = "adding" /\ todo'[w] \subseteq AddReviewers(off, items[w])
                /\ See(w)' = [j \in Keys |-> IF j \in todo'[w] THEN off[j]
                                                         ELSE With(off, items[w])[j]]
             \/ pc'[w] = "commit" /\ See(w)' = With(off, items[w])
      <4>1. Adding(w, off)
        BY <2>3
      <4> HIDE DEF off
      <4> QED
        BY <4>1, AddingStep
    <3> QED
      BY <1>2, <1>6, <3>1 DEF SettingActive, Granting, Adding, Between
  <2> QED
    BY <2>0, <2>1, <2>2, <2>3
<1>7. pc[w] # "commit"
  BY StatementAt
<1> QED
  BY <1>3, <1>4, <1>5, <1>6, <1>7 DEF SettingActive

\* A member's handover, and what it leaves behind.
LEMMA MemberHandsOver ==
  ASSUME NEW xs, NEW u, NEW x \in xs, NEW found \in GetReassignmentCandidatesForReviewer(x.db, u)
  PROVE  [db    |-> IF found = {} THEN x.db ELSE SteppedDown(x.db, u),
          found |-> x.found \cup found] \in HandOver(xs, u)
<1> DEFINE After(y, f) == [db    |-> IF f = {} THEN y.db ELSE SteppedDown(y.db, u),
                           found |-> y.found \cup f]
           each(y) == {After(y, f) : f \in GetReassignmentCandidatesForReviewer(y.db, u)}
<1>1. HandOver(xs, u) = UNION {each(y) : y \in xs}
  BY DEF HandOver
<1>2. After(x, found) \in each(x)
  OBVIOUS
<1> HIDE DEF each, After
<1>3. After(x, found) \in UNION {each(y) : y \in xs}
  BY <1>2
<1> QED
  BY <1>1, <1>3 DEF After

\* One member more is enlisted by one row more.
LEMMA EnlistStarts ==
  ASSUME NEW s, NEW t \in Teams, NEW members, s = [k \in Keys |-> s[k]]
  PROVE  Enlist(s, t, members, 0) = [s EXCEPT ![TeamKey(t)] = Present]
<1>1. \A u : Mentions(members, 0, u) = {}
  BY DEF Mentions
<1>2. Enlist(s, t, members, 0) = [k \in Keys |-> IF k = TeamKey(t) THEN Present ELSE s[k]]
  BY <1>1 DEF Enlist
<1> QED
  BY <1>2, KeysApart

LEMMA EnlistNext ==
  ASSUME NEW s, NEW t \in Teams, NEW members \in Seq(Member), NEW n \in 1 .. Len(members)
  PROVE  /\ members[n] \in Member
         /\ Enlist(s, t, members, n) =
              [Enlist(s, t, members, n - 1) EXCEPT
                 ![UserKey(members[n].user)] = [team |-> t, active |-> members[n].active]]
<1> DEFINE u == members[n].user
           row == [team |-> t, active |-> members[n].active]
           E(m) == Enlist(s, t, members, m)
<1>1. members[n] \in Member /\ u \in Users /\ n \in Nat /\ n >= 1
  <2>1. members[n] \in Member
    OBVIOUS
  <2> QED
    BY <2>1 DEF Member
<1>2. \A v : v # u => Mentions(members, n, v) = Mentions(members, n - 1, v)
  BY <1>1 DEF Mentions
<1>3. n \in Mentions(members, n, u) /\ \A j \in Mentions(members, n, u) : j \in 1 .. n
  BY <1>1 DEF Mentions
<1>4. LastMention(members, n, u) = n
  <2>1. \A j \in Mentions(members, n, u) : j <= n
    BY <1>3
  <2>2. \A i \in Mentions(members, n, u) :
          (\A j \in Mentions(members, n, u) : j <= i) => i = n
    BY <1>1, <1>3
  <2> QED
    BY <1>3, <2>1, <2>2 DEF LastMention
<1>5. UserKey(u)[2] = u /\ UserKey(u) \in Keys /\ UserKey(u) \in UserKeys /\ UserKey(u) # TeamKey(t)
  BY <1>1, KeysApart DEF UserKey
<1>6. E(n)[UserKey(u)] = row
  BY <1>3, <1>4, <1>5 DEF Enlist
<1>7. \A k \in Keys : k # UserKey(u) => E(n)[k] = E(n - 1)[k]
  <2> SUFFICES ASSUME NEW k \in Keys, k # UserKey(u)
               PROVE  E(n)[k] = E(n - 1)[k]
    OBVIOUS
  <2>1. k \in UserKeys => k[2] # u
    BY DEF UserKeys, UserKey
  <2>2. k \in UserKeys => /\ Mentions(members, n, k[2]) = Mentions(members, n - 1, k[2])
                          /\ LastMention(members, n, k[2]) = LastMention(members, n - 1, k[2])
    BY <1>2, <2>1 DEF LastMention
  <2> QED
    BY <2>2 DEF Enlist
<1>8. E(n) = [k \in Keys |-> E(n)[k]] /\ E(n - 1) = [k \in Keys |-> E(n - 1)[k]]
  BY DEF Enlist
<1>9. E(n) = [E(n - 1) EXCEPT ![UserKey(u)] = row]
  <2> HIDE DEF E, row
  <2> QED
    BY <1>5, <1>6, <1>7, <1>8
<1> QED
  BY <1>1, <1>9

\* The loop over the members of a new team.
LEMMA NextMemberStep ==
  ASSUME NEW w \in Workers, Inductive, NextMember(w), idx[w] \in 1 .. Len(req[w].members),
         Len(req[w].members) \in Nat
  PROVE  \/ pc'[w] = "insertTeam" /\ idx[w] = Len(req[w].members)
         \/ /\ pc'[w] = "candidates" /\ idx'[w] = idx[w] + 1
            /\ idx'[w] - 1 = idx[w]
<1> DEFINE i == idx[w]
           n == Len(req[w].members)
<1>1. /\ pc'[w] = IF i >= n THEN "insertTeam" ELSE "candidates"
      /\ idx'[w] = IF i >= n THEN 1 ELSE i + 1
  BY DEF NextMember, Goto, Inductive, TypeOK, LocalsTyped
<1>2. i \in Nat /\ i <= n
  OBVIOUS
<1> HIDE DEF i, n
<1>3. (i >= n => i = n) /\ (i + 1) - 1 = i
  BY <1>2 DEF n
<1> QED
  BY <1>1, <1>3 DEF i, n

LEMMA CreatingTeamStep ==
  ASSUME NEW w \in Workers, Inductive, req[w].op = "CreateTeam", CreatingTeam(w), Quiet(w),
         db' = db, req'[w] = req[w], \A code : ~Fail(w, code)
  PROVE  CreatingTeam(w)'
<1> USE DEF Inductive, TypeOK
<1> DEFINE t == req[w].team
           members == req[w].members
           H == HandedOver(db, members)
           n == Len(members)
           E(x, m) == Enlist(x.db, t, members, m)
<1>1. t \in Teams /\ members \in Seq(Member) /\ n \in Nat /\ pc[w] # "commit"
  <2>1. pc[w] \notin {"done", "commit"}
    BY StatementAt
  <2> QED
    BY <2>1, RequestForms DEF Settled, OnItsWay
<1>2. /\ pc[w] \in {"candidates", "remove", "removing", "upsertUser"} => idx[w] \in 1 .. n
      /\ pc[w] = "insertTeam" => idx[w] = 1
  BY DEF Settled, AtMember
<1>3. H[0] = {[db |-> db, found |-> {}]} /\ \A m \in 1 .. n : H[m] = HandOver(H[m - 1], members[m].user)
  BY <1>1, HandoversFollow
<1>4. H' = H /\ members' = members /\ n' = n /\ t' = t
  OBVIOUS
<1> HIDE DEF H
<1>5. ASSUME pc[w] \in {"candidates", "remove", "removing"}
      PROVE  Subject(w) = members[idx[w]].user /\ H[idx[w]] = HandOver(H[idx[w] - 1], Subject(w))
  BY <1>2, <1>3, <1>5 DEF Subject
<1>6. ASSUME NextMember(w), pc[w] \in {"candidates", "remove", "removing"},
             [db |-> See(w)', found |-> items'[w]] \in H[idx[w]]
      PROVE  CreatingTeam(w)'
  <2>1. \/ pc'[w] = "insertTeam" /\ idx[w] = n
        \/ pc'[w] = "candidates" /\ idx'[w] - 1 = idx[w]
    BY <1>1, <1>2, <1>6, NextMemberStep
  <2> QED
    BY <1>4, <1>6, <2>1 DEF CreatingTeam, H
<1>7. CASE pc[w] = "candidates" /\ [db |-> See(w), found |-> items[w]] \in H[idx[w] - 1]
  <2> DEFINE x == [db |-> See(w), found |-> items[w]]
  <2>1. FindCandidates(w)
    BY <1>7, StatementAt
  <2>2. PICK found \in GetReassignmentCandidatesForReviewer(See(w), Subject(w)) :
          /\ items' = [items EXCEPT ![w] = @ \cup found]
          /\ \/ found # {} /\ Goto(w, "remove") /\ UNCHANGED idx
             \/ found = {} /\ NextMember(w)
    BY <2>1 DEF FindCandidates
  <2>3. items'[w] = items[w] \cup found /\ See(w)' = See(w)
    BY <2>1, <2>2, ViewKept DEF FindCandidates, LocalsTyped
  <2>4. CASE found # {} /\ Goto(w, "remove") /\ UNCHANGED idx
    <3>1. pc'[w] = "remove" /\ Subject(w)' = Subject(w) /\ idx'[w] = idx[w]
      BY <2>4 DEF Goto, LocalsTyped, Subject
    <3>2. /\ x \in H'[idx'[w] - 1]
          /\ found \in GetReassignmentCandidatesForReviewer(x.db, Subject(w)')
          /\ found # {} /\ items'[w] = x.found \cup found /\ See(w)' = x.db
      BY <1>4, <1>7, <2>2, <2>3, <2>4, <3>1
    <3> HIDE DEF x
    <3> QED
      BY <3>1, <3>2 DEF CreatingTeam, H
  <2>5. CASE found = {} /\ NextMember(w)
    <3>1. x \in H[idx[w] - 1] /\ found \in GetReassignmentCandidatesForReviewer(x.db, Subject(w))
      BY <1>7, <2>2
    <3>2. [db |-> IF found = {} THEN x.db ELSE SteppedDown(x.db, Subject(w)),
           found |-> x.found \cup found] \in H[idx[w]]
      BY <1>5, <1>7, <3>1, MemberHandsOver
    <3>3. [db |-> See(w)', found |-> items'[w]] \in H[idx[w]]
      BY <2>3, <2>5, <3>2
    <3> QED
      BY <1>6, <1>7, <2>5, <3>3
  <2> QED
    BY <2>2, <2>4, <2>5
<1>8. ASSUME pc[w] \in {"remove", "removing"}, NEW x \in H[idx[w] - 1],
             NEW found \in GetReassignmentCandidatesForReviewer(x.db, Subject(w)),
             found # {}, items[w] = x.found \cup found,
             \/ pc[w] = "remove" /\ See(w) = x.db
             \/ /\ pc[w] = "removing"
                /\ Removing(w, x.db, RemoveReviewerFromOpenPRs(x.db, Subject(w)))
      PROVE  CreatingTeam(w)'
  <2> DEFINE rows == RemoveReviewerFromOpenPRs(x.db, Subject(w))
             s == x.db
             Onward == /\ pc'[w] = "removing" /\ items' = items /\ idx' = idx
                       /\ todo'[w] \subseteq rows
                       /\ See(w)' = [k \in Keys |-> IF k \in todo'[w] THEN s[k]
                                                    ELSE Without(s, rows)[k]]
  <2>1. ASSUME Onward PROVE CreatingTeam(w)'
    <3>1. Subject(w)' = Subject(w)
      BY <2>1 DEF Subject
    <3>2. Removing(w, s, rows)'
      BY <2>1, <3>1 DEF Removing, Between
    <3>3. x \in H'[idx'[w] - 1] /\ found \in GetReassignmentCandidatesForReviewer(x.db, Subject(w)')
          /\ items'[w] = x.found \cup found
      BY <1>4, <1>8, <2>1, <3>1
    <3> QED
      BY <1>8, <2>1, <3>2, <3>3 DEF CreatingTeam, H
  <2>2. CASE pc[w] = "remove" /\ See(w) = x.db
    <3>1. Remove(w)
      BY <2>2, StatementAt
    <3>2. pc'[w] = "removing" /\ todo'[w] = rows /\ tx' = tx /\ items' = items /\ idx' = idx
      BY <2>2, <3>1 DEF Remove, Choose, Goto, LocalsTyped
    <3>3. See(w)' = See(w)
      BY <3>2, ViewKept
    <3>4. \A k \in Keys \ todo'[w] : Without(s, rows)[k] = s[k]
      BY <3>2 DEF Without
    <3>5. See(w)' = [k \in Keys |-> IF k \in todo'[w] THEN s[k] ELSE Without(s, rows)[k]]
      <4> HIDE DEF rows
      <4> QED
        BY <2>2, <3>3, <3>4, RowsChosen
    <3> QED
      BY <2>1, <3>2, <3>5
  <2>3. CASE pc[w] = "removing" /\ Removing(w, s, rows)
    <3>1. Onward \/ (Removed(w) /\ See(w) = Without(s, rows) /\ See(w)' = See(w))
      <4> HIDE DEF rows, s
      <4> QED
        BY <2>3, RemovingStep
    <3>2. ASSUME Removed(w), See(w) = Without(s, rows), See(w)' = See(w)
          PROVE  CreatingTeam(w)'
      <4>1. NextMember(w) /\ items' = items
        BY <3>2 DEF Removed
      <4>2. [db |-> IF found = {} THEN x.db ELSE SteppedDown(x.db, Subject(w)),
             found |-> x.found \cup found] \in H[idx[w]]
        BY <1>5, <1>8, MemberHandsOver
      <4>3. See(w)' = SteppedDown(x.db, Subject(w))
        BY <3>2 DEF SteppedDown
      <4>4. [db |-> See(w)', found |-> items'[w]] \in H[idx[w]]
        BY <1>8, <4>1, <4>2, <4>3
      <4> QED
        BY <1>6, <1>8, <4>1, <4>4
    <3> QED
      BY <2>1, <3>1, <3>2
  <2> QED
    BY <1>8, <2>2, <2>3
<1>9. CASE pc[w] = "insertTeam" /\ [db |-> See(w), found |-> items[w]] \in H[n]
  <2> DEFINE x == [db |-> See(w), found |-> items[w]]
             k == TeamKey(t)
  <2>1. k \in Keys /\ k \in LastingKeys
    BY <1>1, KeysApart DEF LastingKeys
  <2>2. InsertTeam(w)
    BY <1>9, StatementAt
  <2>3. /\ ~Has(See(w), k) /\ tx' = [tx EXCEPT ![w][k] = Present]
        /\ pc'[w] = IF members = <<>> THEN "add" ELSE "upsertUser"
        /\ res'[w] = Answer("OK", Absent) /\ items' = items /\ idx' = idx
    BY <2>2 DEF InsertTeam, Put, Goto, Prepare, LocalsTyped
  <2>4. ~Has(db, k)
    BY <2>1, <2>3, Seeing DEF Has, WritesLast
  <2>5. See(w)' = [See(w) EXCEPT ![k] = Present]
    BY <2>1, <2>3, ViewWritten, UnwrittenIsNoRow
  <2>6. See(w)' = E(x, 0)
    <3>1. See(w) = [j \in Keys |-> See(w)[j]]
      BY DEF See
    <3> QED
      BY <1>1, <2>5, <3>1, EnlistStarts
  <2>7. idx'[w] = 1 /\ idx'[w] - 1 = 0 /\ (members = <<>> => n = 0)
    BY <1>2, <1>9, <2>3
  <2>8. x \in H'[n] /\ items'[w] = x.found /\ ~Has(db', k) /\ Granting(w)'
    BY <1>4, <1>9, <2>3, <2>4 DEF Granting
  <2>9. \/ pc'[w] = "upsertUser" /\ See(w)' = E(x, idx'[w] - 1)
        \/ pc'[w] = "add" /\ See(w)' = E(x, n)
    BY <2>3, <2>6, <2>7
  <2> HIDE DEF x
  <2> QED
    BY <1>4, <2>8, <2>9 DEF CreatingTeam, Adding, H
<1>10. ASSUME ~Has(db, TeamKey(t)), Granting(w), NEW x \in H[n], items[w] = x.found,
              \/ pc[w] = "upsertUser" /\ See(w) = E(x, idx[w] - 1)
              \/ Adding(w, E(x, n))
       PROVE  CreatingTeam(w)'
  <2>1. ASSUME items' = items, res' = res,
               (pc'[w] = "upsertUser" /\ See(w)' = E(x, idx'[w] - 1)) \/ Adding(w, E(x, n))'
        PROVE  CreatingTeam(w)'
    <3>1. x \in H'[n] /\ items'[w] = x.found /\ ~Has(db', TeamKey(t)) /\ Granting(w)'
      BY <1>4, <1>10, <2>1 DEF Granting
    <3> QED
      BY <1>4, <2>1, <3>1 DEF CreatingTeam, H
  <2>2. CASE pc[w] = "upsertUser" /\ See(w) = E(x, idx[w] - 1)
    <3> DEFINE i == idx[w]
               k == UserKey(members[i].user)
               row == [team |-> t, active |-> members[i].active]
    <3>1. UpsertUser(w) /\ i \in 1 .. n
      BY <1>2, <2>2, StatementAt
    <3>2. members[i] \in Member /\ E(x, i) = [E(x, i - 1) EXCEPT ![k] = row]
      BY <1>1, <3>1, EnlistNext
    <3>3. k \in Keys /\ row # Unwritten
      <4>1. members[i].user \in Users /\ members[i].active \in BOOLEAN
        BY <3>2 DEF Member
      <4> QED
        BY <1>1, <4>1, KeysApart, UnwrittenIsNoRow DEF UserRow
    <3>4. /\ tx' = [tx EXCEPT ![w][k] = row]
          /\ idx'[w] = IF i = n THEN i ELSE i + 1
          /\ pc'[w] = IF i = n THEN "add" ELSE "upsertUser"
          /\ items' = items /\ res' = res
      BY <3>1 DEF UpsertUser, Put, Goto, LocalsTyped
    <3>5. See(w)' = E(x, i)
      <4> HIDE DEF row, k
      <4>1. See(w)' = [See(w) EXCEPT ![k] = row]
        BY <3>3, <3>4, ViewWritten
      <4> QED
        BY <2>2, <3>2, <4>1
    <3>6. CASE i = n
      BY <2>1, <1>4, <3>4, <3>5, <3>6 DEF Adding
    <3>7. CASE i # n
      <4>1. idx'[w] - 1 = i
        BY <3>1, <3>4, <3>7
      <4> QED
        BY <2>1, <3>4, <3>5, <3>7, <4>1
    <3> QED
      BY <3>6, <3>7
  <2>3. CASE Adding(w, E(x, n))
    <3> DEFINE s == E(x, n)
    <3>1. /\ items' = items /\ res' = res
          /\ \/ /\ pc'[w] = "adding" /\ todo'[w] \subseteq AddReviewers(s, items[w])
                /\ See(w)' = [k \in Keys |-> IF k \in todo'[w] THEN s[k]
                                                         ELSE With(s, items[w])[k]]
             \/ pc'[w] = "commit" /\ See(w)' = With(s, items[w])
      <4>1. Adding(w, s)
        BY <2>3
      <4> HIDE DEF s
      <4> QED
        BY <4>1, AddingStep
    <3>2. s' = s
      BY <1>4
    <3>3. Adding(w, s)'
      <4> HIDE DEF s
      <4> QED
        BY <3>1, <3>2 DEF Adding, Between
    <3> QED
      BY <2>1, <3>1, <3>3
  <2> QED
    BY <1>10, <2>2, <2>3
<1> QED
  <2>1. CASE pc[w] \in {"candidates", "insertTeam"}
    BY <1>7, <1>9, <2>1 DEF CreatingTeam, Adding, H
  <2>2. CASE pc[w] \in {"remove", "removing"}
    BY <1>8, <2>2 DEF CreatingTeam, Adding, H
  <2>3. CASE pc[w] \notin {"candidates", "insertTeam", "remove", "removing"}
    BY <1>10, <2>3 DEF CreatingTeam, H
  <2> QED
    BY <2>1, <2>2, <2>3

(***************************************************************************)
(* Part 4.  The other requests.                                            *)
(***************************************************************************)
\* Switching members off changes nothing but who is active.
LEMMA SwitchedOffRows ==
  ASSUME Inductive, NEW t \in Teams
  PROVE  LET off == SwitchedOff(db, t) IN
         /\ \A k \in Keys : off[k] = db[k] \/ \E u \in ActiveMembers(db, t) :
              /\ k = UserKey(u) /\ db[k] = [team |-> t, active |-> TRUE]
              /\ off[k] = [team |-> t, active |-> FALSE]
         /\ \A u \in ActiveMembers(db, t) :
              /\ db[UserKey(u)] = [team |-> t, active |-> TRUE]
              /\ off[UserKey(u)] = [db[UserKey(u)] EXCEPT !.active = FALSE]
         /\ TeamMembers(off, t) = TeamMembers(db, t)
         /\ RemoveTeamReviewersFromOpenPRs(off, t) = RemoveTeamReviewersFromOpenPRs(db, t)
<1> DEFINE off == SwitchedOff(db, t)
<1>1. \A u \in TeamMembers(db, t) :
         /\ u \in Users /\ UserKey(u) \in Keys /\ db[UserKey(u)] \in UserRow
         /\ db[UserKey(u)].team = t
         /\ off[UserKey(u)] = [db[UserKey(u)] EXCEPT !.active = FALSE]
  BY KeysApart DEF TeamMembers, SwitchedOff, Inductive, TypeOK, RowsTyped, WellTyped, Has
<1>2. \A u \in ActiveMembers(db, t) :
         /\ u \in TeamMembers(db, t)
         /\ db[UserKey(u)] = [team |-> t, active |-> TRUE]
         /\ off[UserKey(u)] = [team |-> t, active |-> FALSE]
  BY <1>1 DEF ActiveMembers, UserRow
<1>3. \A u \in TeamMembers(db, t) : u \notin ActiveMembers(db, t) => off[UserKey(u)] = db[UserKey(u)]
  <2>1. \A row \in UserRow : ~row.active => [row EXCEPT !.active = FALSE] = row
    BY DEF UserRow
  <2> HIDE DEF off
  <2> QED
    BY <1>1, <2>1 DEF ActiveMembers
<1>4. \A k \in Keys : k \notin {UserKey(u) : u \in TeamMembers(db, t)} => off[k] = db[k]
  BY DEF SwitchedOff
<1>5. \A k \in Keys : off[k] = db[k] \/ \E u \in ActiveMembers(db, t) :
         /\ k = UserKey(u) /\ db[k] = [team |-> t, active |-> TRUE]
         /\ off[k] = [team |-> t, active |-> FALSE]
  <2> HIDE DEF off
  <2> QED
    BY <1>2, <1>3, <1>4
<1>6. \A k \in Keys : /\ Has(off, k) <=> Has(db, k)
                      /\ k \notin UserKeys => off[k] = db[k]
  <2>0. [team |-> t, active |-> TRUE] \in UserRow /\ [team |-> t, active |-> FALSE] \in UserRow
    BY DEF UserRow
  <2>1. [team |-> t, active |-> TRUE] # Absent /\ [team |-> t, active |-> FALSE] # Absent
    BY <2>0, AbsentIsNoRow
  <2>2. \A u \in ActiveMembers(db, t) : UserKey(u) \in UserKeys
    BY KeysApart DEF ActiveMembers, TeamMembers
  <2> HIDE DEF off
  <2> QED
    BY <1>5, <2>1, <2>2 DEF Has
<1>7. \A u \in Users : Has(db, UserKey(u)) => off[UserKey(u)].team = db[UserKey(u)].team
  <2> HIDE DEF off
  <2>1. \A u \in Users : UserKey(u) \in Keys
    BY KeysApart
  <2>2. [team |-> t, active |-> FALSE].team = t /\ [team |-> t, active |-> TRUE].team = t
    OBVIOUS
  <2> QED
    BY <1>5, <2>1, <2>2
<1>8. \A u \in Users : UserKey(u) \in Keys
  BY KeysApart
<1>9. TeamMembers(off, t) = TeamMembers(db, t)
  <2> HIDE DEF off
  <2> QED
    BY <1>6, <1>7, <1>8 DEF TeamMembers
<1>10. \A p \in PRs, u \in Users : off[PRKey(p)] = db[PRKey(p)] /\ off[RevKey(p, u)] = db[RevKey(p, u)]
  <2>1. \A p \in PRs, u \in Users : PRKey(p) \in Keys \ UserKeys /\ RevKey(p, u) \in Keys \ UserKeys
    BY KeysApart DEF UserKeys
  <2> HIDE DEF off
  <2> QED
    BY <1>6, <2>1
<1>11. \A u \in Users : OpenReviews(off, u) = OpenReviews(db, u)
  <2> HIDE DEF off
  <2> QED
    BY <1>10 DEF OpenReviews, Reviewers, IsOpen, Has
<1>12. RemoveTeamReviewersFromOpenPRs(off, t) = RemoveTeamReviewersFromOpenPRs(db, t)
  <2>1. \A u \in TeamMembers(db, t) :
          RemoveReviewerFromOpenPRs(off, u) = RemoveReviewerFromOpenPRs(db, u)
    BY <1>11 DEF RemoveReviewerFromOpenPRs, TeamMembers
  <2>2. {RemoveReviewerFromOpenPRs(off, u) : u \in TeamMembers(db, t)}
          = {RemoveReviewerFromOpenPRs(db, u) : u \in TeamMembers(db, t)}
    BY <2>1
  <2> QED
    BY <1>9, <2>2 DEF RemoveTeamReviewersFromOpenPRs
<1> QED
  BY <1>1, <1>2, <1>5, <1>9, <1>12

LEMMA DeactivatingTeamStep ==
  ASSUME NEW w \in Workers, Inductive, ReferencesHeld, HoldsNothing(w),
         req[w].op = "DeactivateTeam", DeactivatingTeam(w), Quiet(w),
         db' = db, req'[w] = req[w], \A code : ~Fail(w, code)
  PROVE  DeactivatingTeam(w)'
<1> USE DEF Inductive, TypeOK
<1> DEFINE t == req[w].team
           off == SwitchedOff(db, t)
           rows == RemoveTeamReviewersFromOpenPRs(db, t)
           quitting == {UserKey(u) : u \in ActiveMembers(db, t)}
<1>1. t \in Teams /\ pc[w] # "commit"
  <2>1. pc[w] \notin {"done", "commit"}
    BY StatementAt
  <2> QED
    BY <2>1, RequestForms DEF Settled, OnItsWay
<1>2. off' = off /\ rows' = rows /\ quitting' = quitting /\ t' = t
  OBVIOUS
<1>3. \A k \in Keys : off[k] = db[k] \/ k \in quitting
  BY <1>1, SwitchedOffRows
<1>4. db = [k \in Keys |-> db[k]] /\ off = [k \in Keys |-> off[k]]
  BY DEF RowsTyped, WellTyped, SwitchedOff
<1>5. CASE pc[w] = "deactivate"
  <2>1. Deactivate(w) /\ See(w) = db /\ tx[w] = NoWrites
    BY <1>5, StatementAt, ViewCommitted DEF HoldsNothing, Unwriting
  <2>2. pc'[w] = "deactivating" /\ todo'[w] = quitting /\ tx' = tx
    BY <2>1 DEF Deactivate, Choose, Goto, LocalsTyped
  <2>3. See(w)' = See(w)
    BY <2>2, ViewKept
  <2>4. See(w)' = [k \in Keys |-> IF k \in todo'[w] THEN db[k] ELSE off[k]]
    <3> HIDE DEF off, quitting
    <3> QED
      BY <1>3, <2>1, <2>2, <2>3, RowsChosen
  <2> QED
    BY <1>2, <2>1, <2>2, <2>4 DEF DeactivatingTeam, Between
<1>6. CASE /\ pc[w] = "deactivating" /\ todo[w] \subseteq quitting /\ Between(w, db, off)
           /\ tx[w] # NoWrites => ActiveMembers(db, t) # {}
  <2>1. CASE DeactivateRow(w)
    <3>1. PICK k \in todo[w] :
            WriteRow(w, k, IF See(w)[k] = [team |-> t, active |-> TRUE]
                             THEN [See(w)[k] EXCEPT !.active = FALSE] ELSE Unwritten)
      BY <2>1 DEF DeactivateRow
    <3>2. PICK u \in ActiveMembers(db, t) : k = UserKey(u)
      BY <1>6, <3>1
    <3>3. k \in Keys
      BY <3>2, KeysApart DEF ActiveMembers, TeamMembers
    <3>4. See(w)[k] = db[k]
      BY <1>6, <3>1, <3>3 DEF Between
    <3>5. /\ db[k] = [team |-> t, active |-> TRUE]
          /\ off[k] = [db[k] EXCEPT !.active = FALSE]
      <4> HIDE DEF off
      <4> QED
        BY <1>1, <3>2, SwitchedOffRows DEF off
    <3>6. WriteRow(w, k, off[k])
      <4> HIDE DEF off
      <4> QED
        BY <3>1, <3>4, <3>5
    <3>7. off[k] # Unwritten
      <4>1. [team |-> t, active |-> TRUE] \in UserRow
        BY <1>1 DEF UserRow
      <4>2. \A row \in UserRow : [row EXCEPT !.active = FALSE] \in UserRow
        BY DEF UserRow
      <4> HIDE DEF off
      <4>3. off[k] \in UserRow
        BY <3>5, <4>1, <4>2
      <4> QED
        BY <4>3, UnwrittenIsNoRow
    <3>8. /\ tx' = [tx EXCEPT ![w][k] = off[k]]
          /\ pc' = pc /\ todo'[w] = todo[w] \ {k}
      BY <3>6, <3>7 DEF WriteRow, LocalsTyped
    <3>9. See(w)' = [See(w) EXCEPT ![k] = off[k]]
      <4> HIDE DEF off
      <4> QED
        BY <3>3, <3>7, <3>8, ViewWritten
    <3>10. See(w)' = [j \in Keys |-> IF j \in todo'[w] THEN db[j] ELSE off[j]]
      <4> HIDE DEF off
      <4> QED
        BY <1>6, <3>1, <3>3, <3>8, <3>9 DEF Between
    <3>11. ActiveMembers(db, t) # {}
      BY <3>2
    <3> QED
      BY <1>2, <1>6, <3>8, <3>10, <3>11 DEF DeactivatingTeam, Between
  <2>2. CASE Deactivated(w)
    <3>1. /\ todo[w] = {} /\ tx' = tx
          /\ pc'[w] = IF tx[w] = NoWrites THEN "teamExists" ELSE "removeTeam"
      BY <2>2 DEF Deactivated, Proceed, Goto, LocalsTyped
    <3>2. See(w)' = See(w)
      BY <3>1, ViewKept
    <3>3. See(w) = off
      <4> HIDE DEF off
      <4> QED
        BY <1>4, <1>6, <3>1 DEF Between
    <3>4. CASE tx[w] = NoWrites
      <4>1. See(w) = db
        BY <3>4, ViewCommitted
      <4> QED
        BY <1>2, <3>1, <3>2, <3>3, <3>4, <4>1 DEF DeactivatingTeam
    <3>5. CASE tx[w] # NoWrites
      <4>1. Has(db, TeamKey(t))
        <5>1. PICK u \in Users : Has(db, UserKey(u)) /\ db[UserKey(u)].team = t
          BY <1>6, <3>5 DEF ActiveMembers, TeamMembers
        <5> QED
          BY <5>1, TeamFound
      <4> QED
        BY <1>2, <3>1, <3>2, <3>3, <3>5, <4>1 DEF DeactivatingTeam
    <3> QED
      BY <3>4, <3>5
  <2> QED
    BY <1>6, <2>1, <2>2, StatementAt
<1>7. CASE pc[w] = "teamExists" /\ off = db /\ See(w) = db
  <2>1. TeamExists(w)
    BY <1>7, StatementAt
  <2>2. Has(db, TeamKey(t)) /\ pc'[w] = "removeTeam" /\ tx' = tx
    BY <1>7, <2>1 DEF TeamExists, Proceed, Goto, LocalsTyped
  <2>3. See(w)' = See(w)
    BY <2>2, ViewKept
  <2> QED
    BY <1>2, <1>7, <2>2, <2>3 DEF DeactivatingTeam
<1>8. CASE Has(db, TeamKey(t)) /\ pc[w] = "removeTeam" /\ See(w) = off
  <2>1. RemoveTeam(w) /\ RemoveTeamReviewersFromOpenPRs(off, t) = rows
    BY <1>1, <1>8, StatementAt, SwitchedOffRows
  <2>2. /\ pc'[w] = "removing" /\ todo'[w] = rows /\ tx' = tx
        /\ res'[w] = Answer("OK", Absent)
    BY <1>8, <2>1 DEF RemoveTeam, Goto, Prepare, LocalsTyped
  <2>3. See(w)' = See(w)
    BY <2>2, ViewKept
  <2>4. \A k \in Keys \ todo'[w] : Without(off, rows)[k] = off[k]
    BY <2>2 DEF Without
  <2>5. See(w)' = [k \in Keys |-> IF k \in todo'[w] THEN off[k] ELSE Without(off, rows)[k]]
    <3> HIDE DEF off, rows
    <3> QED
      BY <1>8, <2>3, <2>4, RowsChosen
  <2> QED
    BY <1>2, <1>8, <2>2, <2>5 DEF DeactivatingTeam, Granting, Removing, Between
<1>9. CASE Has(db, TeamKey(t)) /\ pc[w] = "removing" /\ Granting(w) /\ Removing(w, off, rows)
  <2>1. \/ /\ pc'[w] = "removing" /\ res' = res /\ todo'[w] \subseteq rows
           /\ See(w)' = [k \in Keys |-> IF k \in todo'[w] THEN off[k] ELSE Without(off, rows)[k]]
        \/ Removed(w) /\ See(w) = Without(off, rows) /\ See(w)' = See(w)
    <3> HIDE DEF off, rows
    <3> QED
      BY <1>9, RemovingStep
  <2>2. Removed(w) => pc'[w] = "commit" /\ res' = res
    BY DEF Removed, Goto, LocalsTyped
  <2> QED
    BY <1>2, <1>9, <2>1, <2>2 DEF DeactivatingTeam, Granting, Removing, Between
<1> QED
  BY <1>1, <1>5, <1>6, <1>7, <1>8, <1>9 DEF DeactivatingTeam

LEMMA CreatingPRStep ==
  ASSUME NEW w \in Workers, Inductive, HoldsNothing(w),
         req[w].op = "CreatePR", CreatingPR(w), Quiet(w),
         db' = db, req'[w] = req[w], \A code : ~Fail(w, code)
  PROVE  CreatingPR(w)'
<1> USE DEF Inductive, TypeOK
<1> DEFINE p == req[w].pr
           author == req[w].author
           body(R) == [status |-> "OPEN", merged_at |-> Absent, reviewers |-> R]
           Rs == GetTwoActiveTeamMembersByAuthorID(db, author)
           new == Opened(db, p, author)
<1>1. p \in PRs /\ author \in Users /\ pc[w] # "commit"
  <2>1. pc[w] \notin {"done", "commit"}
    BY StatementAt
  <2> QED
    BY <2>1, RequestForms DEF Settled, OnItsWay
<1>2. Rs' = Rs /\ new' = new /\ p' = p /\ author' = author
  OBVIOUS
<1>3. \A R \in Rs : R \subseteq Users /\ (R # {} => Has(db, UserKey(author)))
  BY DEF GetTwoActiveTeamMembersByAuthorID, ActiveTeammates, ActiveMembers, TeamMembers
<1>4. CASE pc[w] = "pick"
  <2>1. Pick(w) /\ See(w) = db
    BY <1>4, StatementAt, ViewCommitted DEF HoldsNothing, Unwriting
  <2>2. PICK R \in Rs : /\ items' = [items EXCEPT ![w] = {<<p, u>> : u \in R}]
                        /\ Goto(w, IF R = {} THEN "authorExists" ELSE "insertPR")
    BY <2>1 DEF Pick
  <2>3. /\ items'[w] = {<<p, u>> : u \in R}
        /\ pc'[w] = IF R = {} THEN "authorExists" ELSE "insertPR"
    BY <2>2 DEF Goto, LocalsTyped
  <2>4. R # {} => Has(db', UserKey(author))
    BY <1>3
  <2> QED
    BY <1>2, <2>3, <2>4 DEF CreatingPR
<1>5. ASSUME NEW R \in Rs, items[w] = {<<p, u>> : u \in R},
             \/ pc[w] = "authorExists" /\ R = {}
             \/ pc[w] = "insertPR" /\ Has(db, UserKey(author))
             \/ /\ Has(db, UserKey(author)) /\ ~Has(db, PRKey(p))
                /\ res[w] = Answer("OK", body(R))
                /\ Adding(w, new)
      PROVE  CreatingPR(w)'
  <2>1. CASE pc[w] = "authorExists" /\ R = {}
    <3>1. AuthorExists(w) /\ See(w) = db
      BY <2>1, StatementAt, ViewCommitted DEF HoldsNothing, Unwriting
    <3>2. Has(db, UserKey(author)) /\ pc'[w] = "insertPR" /\ items' = items
      BY <3>1 DEF AuthorExists, Proceed, Goto, LocalsTyped
    <3> QED
      BY <1>2, <1>5, <3>2 DEF CreatingPR
  <2>2. CASE pc[w] = "insertPR" /\ Has(db, UserKey(author))
    <3> DEFINE k == PRKey(p)
               row == [author |-> author, status |-> "OPEN", merged_at |-> Absent]
               picked == {u \in Users : <<p, u>> \in items[w]}
    <3>1. InsertPR(w) /\ See(w) = db
      BY <2>2, StatementAt, ViewCommitted DEF HoldsNothing, Unwriting
    <3>2. /\ ~Has(db, k) /\ tx' = [tx EXCEPT ![w][k] = row] /\ pc'[w] = "add"
          /\ res'[w] = Answer("OK", body(picked)) /\ items' = items
      BY <3>1 DEF InsertPR, Put, Goto, Prepare, LocalsTyped
    <3>3. picked = R
      BY <1>3, <1>5
    <3>4. k \in Keys /\ row # Unwritten
      <4>1. row \in PRRow
        BY <1>1 DEF PRRow
      <4> HIDE DEF row
      <4> QED
        BY <1>1, <4>1, KeysApart, UnwrittenIsNoRow
    <3>5. See(w)' = [See(w) EXCEPT ![k] = row]
      <4> HIDE DEF row, k
      <4> QED
        BY <3>2, <3>4, ViewWritten
    <3>6. See(w)' = new
      BY <3>1, <3>5 DEF Opened
    <3> HIDE DEF picked
    <3> QED
      BY <1>2, <1>5, <2>2, <3>2, <3>3, <3>6 DEF CreatingPR, Adding
  <2>3. CASE /\ Has(db, UserKey(author)) /\ ~Has(db, PRKey(p))
             /\ res[w] = Answer("OK", body(R)) /\ Adding(w, new)
    <3>1. /\ items' = items /\ res' = res
          /\ \/ /\ pc'[w] = "adding" /\ todo'[w] \subseteq AddReviewers(new, items[w])
                /\ See(w)' = [k \in Keys |-> IF k \in todo'[w] THEN new[k]
                                                         ELSE With(new, items[w])[k]]
             \/ pc'[w] = "commit" /\ See(w)' = With(new, items[w])
      <4> HIDE DEF new
      <4> QED
        BY <2>3, AddingStep
    <3>2. Adding(w, new)'
      <4> HIDE DEF new
      <4> QED
        BY <1>2, <3>1 DEF Adding, Between
    <3> QED
      BY <1>2, <1>5, <2>3, <3>1, <3>2 DEF CreatingPR
  <2> QED
    BY <1>5, <2>1, <2>2, <2>3
<1> QED
  BY <1>4, <1>5 DEF CreatingPR

LEMMA ReassigningStep ==
  ASSUME NEW w \in Workers, Inductive, HoldsNothing(w),
         req[w].op = "Reassign", Reassigning(w), Quiet(w),
         db' = db, req'[w] = req[w], \A code : ~Fail(w, code)
  PROVE  Reassigning(w)'
<1> USE DEF Inductive, TypeOK
<1> DEFINE p == req[w].pr
           old == req[w].old
<1>1. p \in PRs /\ old \in Users /\ pc[w] # "commit"
  <2>1. /\ pc[w] # "done"
        /\ pc[w] = "commit" => FALSE
    BY StatementAt
  <2> QED
    BY <2>1, RequestForms DEF Settled, OnItsWay
<1>2. CASE pc[w] = "reassign"
  <2>1. Reassign(w) /\ See(w) = db
    BY <1>2, StatementAt, ViewCommitted DEF HoldsNothing, Unwriting
  <2>2. /\ IsOpen(db, p) /\ old \in Reviewers(db, p)
        /\ \E new \in ReassignCandidates(db, p, old) :
             items' = [items EXCEPT ![w] = {<<p, new>>}]
        /\ todo' = [todo EXCEPT ![w] = {RevKey(p, old)}]
        /\ Goto(w, "lockOld")
    BY <2>1 DEF Reassign
  <2>3. PICK new \in ReassignCandidates(db, p, old) : items' = [items EXCEPT ![w] = {<<p, new>>}]
    BY <2>2
  <2>4. items'[w] = {<<p, new>>} /\ todo'[w] = {RevKey(p, old)} /\ pc'[w] = "lockOld"
    BY <2>2, <2>3 DEF Goto, LocalsTyped
  <2> QED
    BY <2>2, <2>4 DEF Reassigning
<1>3. ASSUME IsOpen(db, p), old \in Reviewers(db, p), NEW new \in ReassignCandidates(db, p, old),
             \/ pc[w] = "lockOld" /\ items[w] = {<<p, new>>} /\ todo[w] = {RevKey(p, old)}
             \/ /\ pc[w] = "lockNew" /\ items[w] = {<<p, new>>}
                /\ See(w) = [db EXCEPT ![RevKey(p, old)] = Absent]
             \/ pc[w] = "getReassigned" /\ See(w) = Swapped(db, p, old, new)
      PROVE  Reassigning(w)'
  <2>1. new \in Users /\ RevKey(p, old) \in Keys /\ RevKey(p, new) \in Keys
    BY <1>1, <1>3, ReassignFound, KeysApart
  <2>2. CASE pc[w] = "lockOld" /\ items[w] = {<<p, new>>} /\ todo[w] = {RevKey(p, old)}
    <3>1. LockOld(w) /\ See(w) = db
      BY <2>2, StatementAt, ViewCommitted DEF HoldsNothing, Unwriting
    <3>2. /\ tx' = [tx EXCEPT ![w][RevKey(p, old)] = Absent]
          /\ pc'[w] = "lockNew" /\ items' = items
      BY <2>2, <3>1 DEF LockOld, Put, Goto, LocalsTyped
    <3>3. See(w)' = [db EXCEPT ![RevKey(p, old)] = Absent]
      BY <2>1, <3>1, <3>2, ViewWritten, UnwrittenIsNoRow
    <3> QED
      BY <1>3, <2>2, <3>2, <3>3 DEF Reassigning
  <2>3. CASE /\ pc[w] = "lockNew" /\ items[w] = {<<p, new>>}
             /\ See(w) = [db EXCEPT ![RevKey(p, old)] = Absent]
    <3>1. LockNew(w)
      BY <2>3, StatementAt
    <3>2. tx' = [tx EXCEPT ![w][RevKey(p, new)] = Present] /\ pc'[w] = "getReassigned"
      BY <2>3, <3>1 DEF LockNew, Put, Goto, LocalsTyped
    <3>3. See(w)' = [See(w) EXCEPT ![RevKey(p, new)] = Present]
      BY <2>1, <3>2, ViewWritten, UnwrittenIsNoRow
    <3>4. See(w)' = Swapped(db, p, old, new)
      BY <2>3, <3>3 DEF Swapped
    <3> QED
      BY <1>3, <3>2, <3>4 DEF Reassigning
  <2>4. CASE pc[w] = "getReassigned" /\ See(w) = Swapped(db, p, old, new)
    <3>1. GetReassigned(w)
      BY <2>4, StatementAt
    <3>2. tx' = tx /\ pc'[w] = "commit" /\ res'[w] = Answer("OK", GetByID(See(w), p))
      BY <3>1 DEF GetReassigned, Goto, Prepare, LocalsTyped
    <3>3. See(w)' = See(w)
      BY <3>2, ViewKept
    <3> QED
      BY <1>3, <2>4, <3>2, <3>3 DEF Reassigning
  <2> QED
    BY <1>3, <2>2, <2>3, <2>4
<1> QED
  BY <1>1, <1>2, <1>3 DEF Reassigning

\* A MERGE that finds no open pull request leaves it so.
LEMMA MergingStep ==
  ASSUME NEW w \in Workers, Inductive, req'[w] = req[w], req[w].op = "Merge",
         (Quiet(w) /\ db' = db) \/ Merge(w), pc'[w] = "mergeExists"
  PROVE  ~IsOpen(db', req'[w].pr)
<1> USE DEF Inductive, TypeOK
<1>1. CASE Quiet(w)
  <2>1. pc[w] \in {"mergeExists", "getMerged"}
    <3>1. pc[w] \notin {"done", "merge"}
      BY <1>1, StatementAt
    <3> QED
      BY <3>1, StepForms DEF Settled, OnItsWay
  <2>2. MergeExists(w) \/ GetMerged(w)
    BY <1>1, <2>1, StatementAt
  <2>3. pc'[w] # "mergeExists"
    BY <2>2 DEF MergeExists, GetMerged, Proceed, Fail, Goto, LocalsTyped
  <2> QED
    BY <2>3
<1>2. CASE Merge(w)
  BY <1>2 DEF Merge, Proceed, Goto, LocalsTyped
<1> QED
  BY <1>1, <1>2

(***************************************************************************)
(* Part 5.  The request is on course.                                      *)
(***************************************************************************)
LEMMA OnCourseStarts == Init => OnCourse
BY DEF Init, OnCourse

LEMMA BeginsOnCourse ==
  ASSUME NEW w, Workers = {w}, Inductive, HoldsNothing(w), Begin(w)
  PROVE  OnCourse'
<1> USE DEF Inductive, TypeOK
<1>0. w \in Workers
  OBVIOUS
<1>1. PICK r \in Requests : req'[w] = r /\ pc'[w] = FirstStep(r)
  BY <1>0, BeginsWithNothing
<1>2. items'[w] = {} /\ idx'[w] = 1 /\ tx' = tx /\ db' = db
  BY <1>0 DEF Begin, LocalsTyped
<1>3. See(w)' = db'
  <2>1. pc[w] = "done"
    BY DEF Begin
  <2>2. See(w) = db
    BY <1>0, <2>1, ViewCommitted DEF HoldsNothing, Unwriting
  <2> QED
    BY <1>0, <1>2, <2>2, ViewKept
<1>4. CASE r.op = "CreateTeam"
  <2> DEFINE H == HandedOver(db, r.members)
             n == Len(r.members)
  <2>1. r.members \in Seq(Member) /\ n \in Nat /\ (r.members = <<>> => n = 0)
    BY <1>4, RequestForms
  <2>2. [db |-> db, found |-> {}] \in H[0]
    BY <2>1, HandoversFollow
  <2>3. [db |-> See(w)', found |-> items'[w]] \in H'[0] /\ H' = H
    BY <1>2, <1>3, <2>2
  <2>4. idx'[w] - 1 = 0
    BY <1>2
  <2>5. CASE r.members = <<>>
    <3>1. pc'[w] = "insertTeam" /\ n = 0
      BY <1>1, <1>4, <2>1, <2>5 DEF FirstStep
    <3>2. CreatingTeam(w)'
      BY <1>1, <2>3, <3>1 DEF CreatingTeam
    <3> QED
      BY <1>1, <1>4, <3>2 DEF OnCourse
  <2>6. CASE r.members # <<>>
    <3>1. pc'[w] = "candidates"
      BY <1>1, <1>4, <2>6 DEF FirstStep
    <3>2. CreatingTeam(w)'
      BY <1>1, <2>3, <2>4, <3>1 DEF CreatingTeam
    <3> QED
      BY <1>1, <1>4, <3>2 DEF OnCourse
  <2> QED
    BY <2>5, <2>6
<1>5. CASE r.op = "SetActive"
  BY <1>1, <1>2, <1>5 DEF OnCourse, SettingActive, FirstStep
<1>6. CASE r.op = "DeactivateTeam"
  BY <1>1, <1>6 DEF OnCourse, DeactivatingTeam, FirstStep
<1>7. CASE r.op = "CreatePR"
  BY <1>1, <1>7 DEF OnCourse, CreatingPR, FirstStep
<1>8. CASE r.op = "Merge"
  BY <1>1, <1>8 DEF OnCourse, FirstStep
<1>9. CASE r.op = "Reassign"
  BY <1>1, <1>9 DEF OnCourse, Reassigning, FirstStep
<1> QED
  BY <1>4, <1>5, <1>6, <1>7, <1>8, <1>9, RequestForms

LEMMA OnCourseStep ==
  ASSUME NEW w, Workers = {w}, Inductive, ReferencesHeld, HoldsNothing(w), OnCourse, Step(w)
  PROVE  OnCourse'
<1>0. w \in Workers
  OBVIOUS
<1>1. CASE Begin(w)
  BY <1>1, BeginsOnCourse
<1>2. CASE pc'[w] = "done"
  BY <1>2 DEF OnCourse
<1>3. CASE ~Begin(w) /\ pc'[w] # "done"
  <2>1. /\ (Quiet(w) /\ db' = db) \/ Merge(w)
        /\ \A code : ~Fail(w, code)
        /\ req'[w] = req[w] /\ pc[w] # "done"
    BY <1>0, <1>3, InProgress
  <2>2. Merge(w) => req[w].op = "Merge"
    <3>1. Merge(w) => pc[w] = "merge"
      BY DEF Merge
    <3> QED
      BY <1>0, <2>1, <3>1, Serving DEF Inductive
  <2>3. req'[w].op = req[w].op
    BY <2>1
  <2>4. CASE req[w].op = "SetActive" /\ SettingActive(w)
    BY <1>0, <2>1, <2>2, <2>3, <2>4, SettingActiveStep DEF OnCourse
  <2>5. CASE req[w].op = "CreateTeam" /\ CreatingTeam(w)
    BY <1>0, <2>1, <2>2, <2>3, <2>5, CreatingTeamStep DEF OnCourse
  <2>6. CASE req[w].op = "DeactivateTeam" /\ DeactivatingTeam(w)
    BY <1>0, <2>1, <2>2, <2>3, <2>6, DeactivatingTeamStep DEF OnCourse
  <2>7. CASE req[w].op = "CreatePR" /\ CreatingPR(w)
    BY <1>0, <2>1, <2>2, <2>3, <2>7, CreatingPRStep DEF OnCourse
  <2>8. CASE req[w].op = "Merge"
    <3>1. pc'[w] = "mergeExists" => ~IsOpen(db', req'[w].pr)
      BY <1>0, <2>1, <2>8, MergingStep
    <3> QED
      BY <2>3, <2>8, <3>1 DEF OnCourse
  <2>9. CASE req[w].op = "Reassign" /\ Reassigning(w)
    BY <1>0, <2>1, <2>2, <2>3, <2>9, ReassigningStep DEF OnCourse
  <2> QED
    BY <1>0, <2>1, <2>4, <2>5, <2>6, <2>7, <2>8, <2>9 DEF OnCourse
<1> QED
  BY <1>1, <1>2, <1>3

\* OnCourse, of every client alone: whatever the statements of a request have
\* written so far is on its way to one of the outcomes of its endpoint
\* (internal/services), from the database the request was begun on.
THEOREM StaysOnCourse ==
  ASSUME NEW w, Workers = {w}
  PROVE  Spec => []OnCourse
<1>1. Init => OnCourse
  BY OnCourseStarts
<1>2. Inductive /\ ReferencesHeld /\ AnswersHeld /\ OnCourse /\ [Next]_vars => OnCourse'
  <2> SUFFICES ASSUME Inductive, ReferencesHeld, AnswersHeld, OnCourse, [Next]_vars
               PROVE  OnCourse'
    OBVIOUS
  <2>1. HoldsNothing(w)
    BY DEF AnswersHeld
  <2>2. CASE Step(w)
    BY <2>1, <2>2, OnCourseStep
  <2>3. CASE UNCHANGED vars
    <3>1. /\ db' = db /\ tx' = tx /\ pc' = pc /\ req' = req /\ todo' = todo /\ items' = items
          /\ idx' = idx /\ seen' = seen /\ res' = res /\ See(w)' = See(w)
      BY <2>3, ViewKept DEF vars
    <3>2. /\ SettingActive(w)' <=> SettingActive(w)
          /\ CreatingPR(w)' <=> CreatingPR(w)
      BY <3>1 DEF SettingActive, CreatingPR, Adding, Removing, Between, Granting
    <3>3. CreatingTeam(w)' <=> CreatingTeam(w)
      BY <3>1 DEF CreatingTeam, Adding, Removing, Between, Granting, Subject
    <3>4. DeactivatingTeam(w)' <=> DeactivatingTeam(w)
      BY <3>1 DEF DeactivatingTeam, Removing, Between, Granting
    <3>5. Reassigning(w)' <=> Reassigning(w)
      BY <3>1 DEF Reassigning
    <3> QED
      BY <3>1, <3>2, <3>3, <3>4, <3>5 DEF OnCourse
  <2> QED
    BY <2>2, <2>3 DEF Next, Step, Terminating
<1>3. Spec => []Inductive
  BY Invariance
<1>4. Spec => []ReferencesHeld
  BY ReferencesInvariance
<1>5. Spec => []AnswersHeld
  BY AnswersInvariance
<1> QED
  BY <1>1, <1>2, <1>3, <1>4, <1>5, PTL DEF Spec

(***************************************************************************)
(* Part 6.  The refinement.                                                *)
(***************************************************************************)
\* The instance reads the database by the same queries.
LEMMA SameOutcomes ==
  ASSUME NEW s, NEW r
  PROVE  Atomic!Outcomes(s, r) = Outcomes(s, r)
<1> USE DEF TeamKey, Atomic!TeamKey, UserKey, Atomic!UserKey, PRKey, Atomic!PRKey,
            RevKey, Atomic!RevKey, TeamKeys, Atomic!TeamKeys, UserKeys, Atomic!UserKeys,
            PRKeys, Atomic!PRKeys, RevKeys, Atomic!RevKeys, Keys, Atomic!Keys,
            Present, Atomic!Present, Has, Atomic!Has,
            TeamMembers, Atomic!TeamMembers, ActiveMembers, Atomic!ActiveMembers,
            Reviewers, Atomic!Reviewers, IsOpen, Atomic!IsOpen,
            OpenReviews, Atomic!OpenReviews,
            Answer, Atomic!Answer, Outcome, Atomic!Outcome, Done, Atomic!Done,
            Refused, Atomic!Refused
<1>1. ASSUME NEW u, NEW on
      PROVE  Atomic!SetActiveOutcomes(s, u, on) = SetActiveOutcomes(s, u, on)
  BY SMT DEF SetActiveOutcomes, Atomic!SetActiveOutcomes, Switched, Atomic!Switched,
         With, Atomic!With, AddReviewers, Atomic!AddReviewers,
         SteppedDown, Atomic!SteppedDown, Without, Atomic!Without,
         RemoveReviewerFromOpenPRs, Atomic!RemoveReviewerFromOpenPRs,
         GetReassignmentCandidatesForReviewer, Atomic!GetReassignmentCandidatesForReviewer,
         HandoverCandidates, Atomic!HandoverCandidates, Candidates, Atomic!Candidates
<1>2. ASSUME NEW t, NEW members
      PROVE  Atomic!CreateTeamOutcomes(s, t, members) = CreateTeamOutcomes(s, t, members)
  <2>1. Atomic!HandedOver(s, members) = HandedOver(s, members)
    BY SMT DEF HandedOver, Atomic!HandedOver, HandOver, Atomic!HandOver,
           SteppedDown, Atomic!SteppedDown, Without, Atomic!Without,
           RemoveReviewerFromOpenPRs, Atomic!RemoveReviewerFromOpenPRs,
           GetReassignmentCandidatesForReviewer, Atomic!GetReassignmentCandidatesForReviewer,
           HandoverCandidates, Atomic!HandoverCandidates, Candidates, Atomic!Candidates
  <2> QED
    BY SMT, <2>1 DEF CreateTeamOutcomes, Atomic!CreateTeamOutcomes, Enlist, Atomic!Enlist,
           LastMention, Atomic!LastMention, Mentions, Atomic!Mentions,
           With, Atomic!With, AddReviewers, Atomic!AddReviewers
<1>3. ASSUME NEW t
      PROVE  Atomic!DeactivateTeamOutcomes(s, t) = DeactivateTeamOutcomes(s, t)
  BY SMT DEF DeactivateTeamOutcomes, Atomic!DeactivateTeamOutcomes,
         SwitchedOff, Atomic!SwitchedOff, Without, Atomic!Without,
         RemoveReviewerFromOpenPRs, Atomic!RemoveReviewerFromOpenPRs,
         RemoveTeamReviewersFromOpenPRs, Atomic!RemoveTeamReviewersFromOpenPRs
<1>4. ASSUME NEW p, NEW author
      PROVE  Atomic!CreatePROutcomes(s, p, author) = CreatePROutcomes(s, p, author)
  BY SMT DEF CreatePROutcomes, Atomic!CreatePROutcomes, Opened, Atomic!Opened,
         With, Atomic!With, AddReviewers, Atomic!AddReviewers, GetByID, Atomic!GetByID,
         GetTwoActiveTeamMembersByAuthorID, Atomic!GetTwoActiveTeamMembersByAuthorID,
         ActiveTeammates, Atomic!ActiveTeammates
<1>5. ASSUME NEW p
      PROVE  Atomic!MergeOutcomes(s, p) = MergeOutcomes(s, p)
  BY SMT DEF MergeOutcomes, Atomic!MergeOutcomes, GetByID, Atomic!GetByID
<1>6. ASSUME NEW p, NEW old
      PROVE  Atomic!ReassignOutcomes(s, p, old) = ReassignOutcomes(s, p, old)
  BY SMT DEF ReassignOutcomes, Atomic!ReassignOutcomes, Swapped, Atomic!Swapped,
         GetByID, Atomic!GetByID, ReassignCandidates, Atomic!ReassignCandidates,
         Candidates, Atomic!Candidates
<1> QED
  BY <1>1, <1>2, <1>3, <1>4, <1>5, <1>6 DEF Outcomes, Atomic!Outcomes

\* Handovers leave the rows of teams, users and pull requests alone.
LEMMA HandoversRemove ==
  ASSUME NEW s, NEW members, Len(members) \in Nat, NEW k \in Keys \ RevKeys
  PROVE  \A n \in 0 .. Len(members) : \A x \in HandedOver(s, members)[n] : x.db[k] = s[k]
<1> DEFINE H == HandedOver(s, members)
           Kept(n) == \A x \in H[n] : x.db[k] = s[k]
           failing == {n \in 0 .. Len(members) : ~Kept(n)}
<1>1. H[0] = {[db |-> s, found |-> {}]} /\ \A n \in 1 .. Len(members) : H[n] = HandOver(H[n - 1], members[n].user)
  BY HandoversFollow
<1> HIDE DEF H
<1>2. Kept(0)
  BY <1>1
<1>3. ASSUME NEW xs, NEW u, \A x \in xs : x.db[k] = s[k]
      PROVE  \A y \in HandOver(xs, u) : y.db[k] = s[k]
  <2>1. \A x \in xs : SteppedDown(x.db, u)[k] = s[k]
    <3>1. \A x \in xs : k \notin RemoveReviewerFromOpenPRs(x.db, u)
      <4>1. \A p \in PRs : k = RevKey(p, u) => FALSE
        <5> SUFFICES ASSUME NEW p \in PRs, k = RevKey(p, u) PROVE FALSE
          OBVIOUS
        <5>1. k \in TeamKeys \cup UserKeys \cup PRKeys
          BY DEF Keys
        <5> QED
          BY <5>1 DEF TeamKeys, UserKeys, PRKeys, TeamKey, UserKey, PRKey, RevKey
      <4> QED
        BY <4>1 DEF RemoveReviewerFromOpenPRs, OpenReviews
    <3> QED
      BY <1>3, <3>1 DEF SteppedDown, Without
  <2> QED
    BY <1>3, <2>1 DEF HandOver
<1> HIDE DEF Kept
<1>4. failing = {}
  <2>1. SUFFICES ASSUME failing # {} PROVE FALSE
    OBVIOUS
  <2>2. failing \in SUBSET Nat
    OBVIOUS
  <2>3. PICK m \in failing : \A n \in failing : ~(n < m)
    BY <2>1, <2>2, NatMinimum
  <2>4. m \in 1 .. Len(members) /\ m - 1 \in 0 .. Len(members) /\ m - 1 < m /\ ~Kept(m)
    BY <1>2, <2>3
  <2>5. Kept(m - 1)
    BY <2>3, <2>4
  <2>6. H[m] = HandOver(H[m - 1], members[m].user)
    BY <1>1, <2>4
  <2>7. Kept(m)
    BY <1>3, <2>5, <2>6 DEF Kept
  <2> QED
    BY <2>4, <2>7
<1> QED
  BY <1>4 DEF Kept, H

\* What a new pull request's transaction has written is what it answers.
LEMMA OpenedWith ==
  ASSUME Inductive, NEW p \in PRs, NEW author \in Users, ~Has(db, PRKey(p)),
         NEW R \in GetTwoActiveTeamMembersByAuthorID(db, author)
  PROVE  GetByID(With(Opened(db, p, author), {<<p, u>> : u \in R}), p)
           = [status |-> "OPEN", merged_at |-> Absent, reviewers |-> R]
<1> DEFINE s == Opened(db, p, author)
           found == {<<p, u>> : u \in R}
           t == With(s, found)
           row == [author |-> author, status |-> "OPEN", merged_at |-> Absent]
<1>1. PRKey(p) \in Keys /\ db = [k \in Keys |-> db[k]]
  BY KeysApart DEF Inductive, TypeOK, RowsTyped, WellTyped
<1>2. s[PRKey(p)] = row /\ \A k \in Keys : k # PRKey(p) => s[k] = db[k]
  BY <1>1 DEF Opened
<1>3. \A u \in R : u \in Users /\ Has(s, UserKey(u)) /\ s[UserKey(u)].active
  BY <1>2, KeysApart
     DEF GetTwoActiveTeamMembersByAuthorID, ActiveTeammates, ActiveMembers, TeamMembers, Has
<1>4. /\ \A v \in Users : RevKey(p, v) \in AddReviewers(s, found) <=> v \in R
      /\ PRKey(p) \notin AddReviewers(s, found)
  <2>1. \A a \in found : a[1] = p /\ a[2] \in R
    OBVIOUS
  <2>2. \A u \in R : <<p, u>> \in found /\ <<p, u>>[1] = p /\ <<p, u>>[2] = u
    OBVIOUS
  <2>3. \A k : k \in AddReviewers(s, found) <=>
           \E a \in found : /\ Has(s, UserKey(a[2])) /\ s[UserKey(a[2])].active
                           /\ k = RevKey(a[1], a[2])
    BY DEF AddReviewers
  <2> HIDE DEF s, found
  <2>4. \A k : k \in AddReviewers(s, found) <=> \E u \in R : k = RevKey(p, u)
    BY <1>3, <2>1, <2>2, <2>3
  <2> QED
    BY <1>3, <2>4, KeysApart
<1>5. \A u \in Users : ~Has(s, RevKey(p, u))
  BY <1>2, KeysApart DEF Inductive, NoSelfReview, AuthorsApart, Has
<1> HIDE DEF s, found
<1>6. \A u \in Users : Has(t, RevKey(p, u)) <=> u \in R
  BY <1>3, <1>4, <1>5, KeysApart, AbsentIsNoRow DEF With, Has
<1>7. t[PRKey(p)] = row
  BY <1>1, <1>2, <1>3, <1>4, KeysApart DEF With
<1>8. Reviewers(t, p) = R
  BY <1>3, <1>6 DEF Reviewers
<1> HIDE DEF t
<1>9. GetByID(t, p) = [status |-> "OPEN", merged_at |-> Absent, reviewers |-> R]
  BY <1>7, <1>8 DEF GetByID
<1> QED
  BY <1>9 DEF t, s, found

\* A commit makes one of the outcomes of what the transaction sees.
LEMMA CommitOutcome ==
  ASSUME NEW w \in Workers, Inductive, OnCourse, pc[w] = "commit"
  PROVE  [db |-> See(w), ans |-> res[w]] \in Outcomes(db, req[w])
<1> DEFINE r == req[w]
           o == [db |-> See(w), ans |-> res[w]]
<1>0. r \in Requests
  BY DEF Inductive, Settled, OnItsWay
<1>1. CASE r.op = "SetActive" /\ SettingActive(w)
  <2> DEFINE u == r.user
             set == Switched(db, u, r.active)
  <2>1. r.user \in Users /\ r.active \in BOOLEAN
    BY <1>0, <1>1, RequestForms
  <2>2. Has(db, UserKey(u)) /\ res[w] = Answer("OK", Absent)
    BY <1>1 DEF SettingActive, Granting, Adding
  <2>3. CASE r.active
    <3>1. See(w) = set
      BY <1>1, <2>3 DEF SettingActive, Adding
    <3> QED
      BY <1>1, <2>2, <2>3, <3>1 DEF Outcomes, SetActiveOutcomes, Done, Outcome
  <2>4. CASE ~r.active
    <3>1. /\ items[w] \in GetReassignmentCandidatesForReviewer(set, u)
          /\ See(w) = With(SteppedDown(set, u), items[w])
      BY <1>1, <2>4 DEF SettingActive, Adding
    <3>2. o = Done(With(SteppedDown(set, u), items[w]))
      BY <2>2, <3>1 DEF Done, Outcome
    <3>3. o \in {Done(With(SteppedDown(set, u), found)) :
                   found \in GetReassignmentCandidatesForReviewer(set, u)}
      BY <3>1, <3>2
    <3> HIDE DEF o, set
    <3>4. o \in SetActiveOutcomes(db, u, r.active)
      BY <2>2, <2>4, <3>3 DEF SetActiveOutcomes, set
    <3> QED
      BY <1>1, <3>4 DEF Outcomes, o
  <2> QED
    BY <2>1, <2>3, <2>4
<1>2. CASE r.op = "CreateTeam" /\ CreatingTeam(w)
  <2> DEFINE n == Len(r.members)
             xs == HandedOver(db, r.members)[n]
             outcome(x) == Done(With(Enlist(x.db, r.team, r.members, n), x.found))
  <2>1. /\ ~Has(db, TeamKey(r.team)) /\ res[w] = Answer("OK", Absent)
        /\ \E x \in xs : /\ items[w] = x.found
                         /\ See(w) = With(Enlist(x.db, r.team, r.members, n), items[w])
    BY <1>2 DEF CreatingTeam, Granting, Adding
  <2>2. PICK x \in xs : See(w) = With(Enlist(x.db, r.team, r.members, n), x.found)
    BY <2>1
  <2>3. o = outcome(x)
    BY <2>1, <2>2 DEF Done, Outcome
  <2> HIDE DEF o, outcome, xs
  <2>4. o \in {outcome(y) : y \in xs}
    BY <2>3
  <2>5. o \in CreateTeamOutcomes(db, r.team, r.members)
    BY <2>1, <2>4 DEF CreateTeamOutcomes, outcome, xs
  <2> QED
    BY <1>2, <2>5 DEF Outcomes, o
<1>3. CASE r.op = "DeactivateTeam" /\ DeactivatingTeam(w)
  <2>1. /\ Has(db, TeamKey(r.team)) /\ res[w] = Answer("OK", Absent)
        /\ See(w) = Without(SwitchedOff(db, r.team), RemoveTeamReviewersFromOpenPRs(db, r.team))
    BY <1>3 DEF DeactivatingTeam, Granting
  <2> QED
    BY <1>3, <2>1 DEF Outcomes, DeactivateTeamOutcomes, Done, Outcome
<1>4. CASE r.op = "CreatePR" /\ CreatingPR(w)
  <2> DEFINE p == r.pr
             author == r.author
             Rs == GetTwoActiveTeamMembersByAuthorID(db, author)
             new(R) == With(Opened(db, p, author), {<<p, u>> : u \in R})
             outcome(R) == Outcome(new(R), Answer("OK", GetByID(new(R), p)))
  <2>1. p \in PRs /\ author \in Users
    BY <1>0, <1>4, RequestForms
  <2>2. /\ Has(db, UserKey(author)) /\ ~Has(db, PRKey(p))
        /\ \E R \in Rs : /\ res[w] = Answer("OK", [status |-> "OPEN", merged_at |-> Absent,
                                                   reviewers |-> R])
                         /\ See(w) = new(R)
    BY <1>4 DEF CreatingPR, Adding
  <2>3. PICK R \in Rs : /\ res[w] = Answer("OK", [status |-> "OPEN", merged_at |-> Absent,
                                                  reviewers |-> R])
                        /\ See(w) = new(R)
    BY <2>2
  <2>4. res[w] = Answer("OK", GetByID(new(R), p))
    BY <2>1, <2>2, <2>3, OpenedWith
  <2>5. o = outcome(R)
    BY <2>3, <2>4 DEF Outcome
  <2> HIDE DEF o, outcome, Rs
  <2>6. o \in {outcome(Q) : Q \in Rs}
    BY <2>5
  <2>7. o \in CreatePROutcomes(db, p, author)
    BY <2>2, <2>6 DEF CreatePROutcomes, outcome, Rs
  <2> QED
    BY <1>4, <2>7 DEF Outcomes, o
<1>5. CASE r.op = "Merge"
  BY <1>5, StepForms DEF Inductive, Settled, OnItsWay
<1>6. CASE r.op = "Reassign" /\ Reassigning(w)
  <2> DEFINE p == r.pr
             old == r.old
             ds == {Swapped(db, p, old, new) : new \in ReassignCandidates(db, p, old)}
             outcome(d) == Outcome(d, Answer("OK", GetByID(d, p)))
  <2>1. /\ IsOpen(db, p) /\ old \in Reviewers(db, p)
        /\ ReassignCandidates(db, p, old) # {}
        /\ See(w) \in ds /\ res[w] = Answer("OK", GetByID(See(w), p))
    BY <1>6 DEF Reassigning
  <2>2. o = outcome(See(w))
    BY <2>1 DEF Outcome
  <2> HIDE DEF o, outcome, ds
  <2>3. o \in {outcome(d) : d \in ds}
    BY <2>1, <2>2
  <2>4. o \in ReassignOutcomes(db, p, old)
    BY <2>1, <2>3 DEF ReassignOutcomes, outcome, ds, IsOpen
  <2> QED
    BY <1>6, <2>4 DEF Outcomes, o
<1> QED
  BY <1>1, <1>2, <1>3, <1>4, <1>5, <1>6 DEF OnCourse

\* A statement that ends the request without a commit refuses it.
LEMMA RefusalOutcome ==
  ASSUME NEW w \in Workers, Inductive, ReferencesHeld, HoldsNothing(w), OnCourse, Quiet(w),
         pc'[w] = "done", pc[w] # "getMerged"
  PROVE  [db |-> db, ans |-> res'[w]] \in Outcomes(db, req[w])
<1> USE DEF Inductive, TypeOK
<1> DEFINE r == req[w]
           o == [db |-> db, ans |-> res'[w]]
<1>0. r \in Requests /\ pc[w] \in StepsOf(r.op) /\ pc[w] \notin {"done", "commit"}
  <2>1. pc[w] \notin {"done", "commit"}
    BY StatementAt
  <2> QED
    BY <2>1 DEF Settled, OnItsWay
<1>1. \A code : Fail(w, code) => o \in Refused(db, code)
  BY DEF Fail, Prepare, LocalsTyped, Refused, Outcome
<1>2. /\ ~FindCandidates(w) /\ ~Remove(w) /\ ~RemoveRow(w) /\ ~Removed(w)
      /\ ~Add(w) /\ ~AddRow(w) /\ ~Added(w) /\ ~UpsertUser(w)
      /\ ~Deactivate(w) /\ ~DeactivateRow(w) /\ ~Deactivated(w) /\ ~RemoveTeam(w)
      /\ ~Pick(w) /\ ~GetReassigned(w)
  <2>1. \A step : Goto(w, step) => step = "done"
    BY DEF Goto, LocalsTyped
  <2>2. \A step : Proceed(w, step) => step = "done"
    BY <2>1 DEF Proceed
  <2>3. \A step, rows : Choose(w, rows, step) => step = "done"
    BY <2>1 DEF Choose
  <2>4. \A k, row : ~WriteRow(w, k, row)
    BY <1>0 DEF WriteRow
  <2>5. ~NextMember(w)
    BY <2>1 DEF NextMember
  <2>6. ~FindCandidates(w) /\ ~Remove(w) /\ ~RemoveRow(w) /\ ~Removed(w)
    BY <2>1, <2>3, <2>4, <2>5 DEF FindCandidates, Remove, RemoveRow, Removed
  <2>7. ~Add(w) /\ ~AddRow(w) /\ ~Added(w) /\ ~UpsertUser(w)
    BY <2>1, <2>2, <2>3, <2>4 DEF Add, AddRow, Added, UpsertUser
  <2>8. ~Deactivate(w) /\ ~DeactivateRow(w) /\ ~Deactivated(w) /\ ~RemoveTeam(w)
    BY <2>1, <2>2, <2>3, <2>4 DEF Deactivate, DeactivateRow, Deactivated, RemoveTeam
  <2>9. ~Pick(w) /\ ~GetReassigned(w)
    BY <2>1 DEF Pick, GetReassigned
  <2> QED
    BY <2>6, <2>7, <2>8, <2>9
<1>3. pc[w] \in Unwriting \ {"done"} => See(w) = db
  BY ViewCommitted DEF HoldsNothing
<1>4. CASE r.op = "SetActive" /\ SettingActive(w)
  <2>1. pc[w] \in {"setActive", "lockUser"}
    BY <1>0, <1>2, <1>4, StatementAt, StepForms
  <2>2. pc[w] # "lockUser"
    <3> SUFFICES ASSUME pc[w] = "lockUser" PROVE FALSE
      OBVIOUS
    <3>1. LockUser(w) /\ See(w) = db /\ db[UserKey(r.user)].team \in seen[w]
      BY <1>3, <1>4, StatementAt DEF SettingActive, Adding, Unwriting
    <3> QED
      BY <3>1 DEF LockUser, Goto, LocalsTyped
  <2>3. SetActive(w) /\ See(w) = db
    BY <1>3, <2>1, <2>2, StatementAt DEF Unwriting
  <2>4. ~Has(db, UserKey(r.user)) /\ Fail(w, "NOT_FOUND")
    BY <2>3 DEF SetActive, Goto, LocalsTyped
  <2> QED
    BY <1>1, <1>4, <2>4 DEF Outcomes, SetActiveOutcomes
<1>5. CASE r.op = "CreateTeam" /\ CreatingTeam(w)
  <2> DEFINE k == TeamKey(r.team)
             n == Len(r.members)
  <2>1. r.team \in Teams /\ n \in Nat /\ k \in Keys \ RevKeys
    <3>1. r.team \in Teams /\ r.members \in Seq(Member)
      BY <1>0, <1>5, RequestForms
    <3>2. TeamKey(r.team) \in Keys /\ TeamKey(r.team) \notin RevKeys
      BY <3>1, KeysApart DEF RevKeys
    <3> QED
      BY <3>1, <3>2
  <2>2. pc[w] = "insertTeam"
    BY <1>0, <1>2, <1>5, StatementAt, StepForms
  <2>3. InsertTeam(w) /\ [db |-> See(w), found |-> items[w]] \in HandedOver(db, r.members)[n]
    BY <1>5, <2>2, StatementAt DEF CreatingTeam, Adding
  <2>4. See(w)[k] = db[k]
    <3>1. \A x \in HandedOver(db, r.members)[n] : x.db[k] = db[k]
      BY <2>1, HandoversRemove
    <3> QED
      BY <2>3, <3>1
  <2>5. Has(See(w), k) /\ Fail(w, "TEAM_EXISTS")
    BY <2>3 DEF InsertTeam, Goto, LocalsTyped
  <2> QED
    BY <1>1, <1>5, <2>4, <2>5 DEF Outcomes, CreateTeamOutcomes, Has
<1>6. CASE r.op = "DeactivateTeam" /\ DeactivatingTeam(w)
  <2>1. pc[w] = "teamExists"
    BY <1>0, <1>2, <1>6, StatementAt, StepForms
  <2>2. TeamExists(w) /\ See(w) = db
    BY <1>6, <2>1, StatementAt DEF DeactivatingTeam
  <2>3. ~Has(db, TeamKey(r.team)) /\ Fail(w, "NOT_FOUND")
    BY <2>2 DEF TeamExists, Proceed, Goto, LocalsTyped
  <2> QED
    BY <1>1, <1>6, <2>3 DEF Outcomes, DeactivateTeamOutcomes
<1>7. CASE r.op = "CreatePR" /\ CreatingPR(w)
  <2>1. pc[w] \in {"authorExists", "insertPR"}
    BY <1>0, <1>2, <1>7, StatementAt, StepForms
  <2>2. See(w) = db
    BY <1>3, <2>1 DEF Unwriting
  <2>3. CASE pc[w] = "authorExists"
    <3>1. AuthorExists(w)
      BY <2>3, StatementAt
    <3>2. ~Has(db, UserKey(r.author)) /\ Fail(w, "NOT_FOUND")
      BY <2>2, <3>1 DEF AuthorExists, Proceed, Goto, LocalsTyped
    <3> QED
      BY <1>1, <1>7, <3>2 DEF Outcomes, CreatePROutcomes
  <2>4. CASE pc[w] = "insertPR"
    <3>1. InsertPR(w) /\ Has(db, UserKey(r.author))
      BY <1>7, <2>4, StatementAt DEF CreatingPR, Adding
    <3>2. Has(db, PRKey(r.pr)) /\ Fail(w, "PR_EXISTS")
      BY <2>2, <3>1 DEF InsertPR, Goto, LocalsTyped
    <3> QED
      BY <1>1, <1>7, <3>1, <3>2 DEF Outcomes, CreatePROutcomes
  <2> QED
    BY <2>1, <2>3, <2>4
<1>8. CASE r.op = "Merge"
  <2>1. pc[w] = "mergeExists"
    <3>1. pc[w] # "merge"
      BY StatementAt
    <3> QED
      BY <1>0, <1>8, <3>1, StepForms
  <2>2. MergeExists(w)
    BY <2>1, StatementAt
  <2>3. ~Has(db, PRKey(r.pr)) /\ Fail(w, "NOT_FOUND")
    BY <2>2 DEF MergeExists, Proceed, Goto, LocalsTyped
  <2>4. ~IsOpen(db, r.pr)
    BY <2>3 DEF IsOpen
  <2>5. o \in MergeOutcomes(db, r.pr)
    <3> HIDE DEF o
    <3> QED
      BY <1>1, <2>3, <2>4 DEF MergeOutcomes
  <2> QED
    BY <1>8, <2>5 DEF Outcomes
<1>9. CASE r.op = "Reassign" /\ Reassigning(w)
  <2> DEFINE p == r.pr
             old == r.old
  <2>1. pc[w] \in {"reassign", "lockOld", "lockNew"}
    BY <1>0, <1>2, <1>9, StatementAt, StepForms
  <2>2. pc[w] # "lockOld"
    <3> SUFFICES ASSUME pc[w] = "lockOld" PROVE FALSE
      OBVIOUS
    <3>1. LockOld(w) /\ todo[w] # {}
      BY <1>9, StatementAt DEF Reassigning
    <3> QED
      BY <3>1 DEF LockOld, Goto, LocalsTyped
  <2>3. pc[w] # "lockNew"
    <3> SUFFICES ASSUME pc[w] = "lockNew" PROVE FALSE
      OBVIOUS
    <3>1. LockNew(w)
      BY StatementAt
    <3>2. PICK new \in ReassignCandidates(db, p, old) :
            /\ items[w] = {<<p, new>>}
            /\ See(w) = [db EXCEPT ![RevKey(p, old)] = Absent]
      BY <1>9 DEF Reassigning
    <3>3. p \in PRs /\ old \in Users /\ new \in Users /\ new # old /\ ~Has(db, RevKey(p, new))
      BY <1>0, <1>9, <3>2, RequestForms, ReassignFound
    <3>4. ~Has(See(w), RevKey(p, new))
      BY <3>2, <3>3, KeysApart DEF Has
    <3> QED
      BY <3>1, <3>2, <3>4 DEF LockNew, Goto, LocalsTyped
  <2>4. Reassign(w) /\ See(w) = db
    BY <1>3, <2>1, <2>2, <2>3, StatementAt DEF Unwriting
  <2>5. \/ ~Has(db, PRKey(p)) /\ Fail(w, "NOT_FOUND")
        \/ Has(db, PRKey(p)) /\ ~IsOpen(db, p) /\ Fail(w, "PR_MERGED")
        \/ IsOpen(db, p) /\ old \notin Reviewers(db, p) /\ Fail(w, "NOT_ASSIGNED")
        \/ /\ IsOpen(db, p) /\ old \in Reviewers(db, p)
           /\ ReassignCandidates(db, p, old) = {} /\ Fail(w, "NO_CANDIDATE")
    BY <2>4 DEF Reassign, Goto, LocalsTyped
  <2>6. IsOpen(db, p) => Has(db, PRKey(p))
    BY DEF IsOpen
  <2>7. o \in ReassignOutcomes(db, p, old)
    <3> HIDE DEF o
    <3>1. CASE ~Has(db, PRKey(p)) /\ Fail(w, "NOT_FOUND")
      BY <1>1, <2>6, <3>1 DEF ReassignOutcomes
    <3>2. CASE Has(db, PRKey(p)) /\ ~IsOpen(db, p) /\ Fail(w, "PR_MERGED")
      BY <1>1, <3>2 DEF ReassignOutcomes
    <3>3. CASE IsOpen(db, p) /\ old \notin Reviewers(db, p) /\ Fail(w, "NOT_ASSIGNED")
      BY <1>1, <2>6, <3>3 DEF ReassignOutcomes
    <3>4. CASE /\ IsOpen(db, p) /\ old \in Reviewers(db, p)
               /\ ReassignCandidates(db, p, old) = {} /\ Fail(w, "NO_CANDIDATE")
      BY <1>1, <2>6, <3>4 DEF ReassignOutcomes
    <3> QED
      BY <2>5, <3>1, <3>2, <3>3, <3>4
  <2> QED
    BY <1>9, <2>7 DEF Outcomes
<1> QED
  BY <1>0, <1>4, <1>5, <1>6, <1>7, <1>8, <1>9 DEF OnCourse

\* Only MergeExists, besides Merge, leads to the answer of Merge.
LEMMA GetMergedFollows ==
  ASSUME NEW w \in Workers, Inductive, Quiet(w), pc[w] # "getMerged", pc'[w] = "getMerged"
  PROVE  MergeExists(w)
<1> USE DEF Inductive, TypeOK
<1>1. \A step : Goto(w, step) => step = "getMerged"
  BY DEF Goto, LocalsTyped
<1>2. /\ \A step : Proceed(w, step) => step = "getMerged"
      /\ \A step, rows : Choose(w, rows, step) => step = "getMerged"
      /\ \A k, row : ~WriteRow(w, k, row)
      /\ \A code : ~Fail(w, code)
      /\ ~NextMember(w)
  BY <1>1 DEF Proceed, Choose, WriteRow, Fail, NextMember
<1>3. ~SetActive(w) /\ ~LockUser(w) /\ ~FindCandidates(w) /\ ~Remove(w) /\ ~RemoveRow(w)
  BY <1>1, <1>2 DEF SetActive, LockUser, FindCandidates, Remove, RemoveRow
<1>4. ~Removed(w) /\ ~Add(w) /\ ~AddRow(w) /\ ~Added(w) /\ ~InsertTeam(w) /\ ~UpsertUser(w)
  BY <1>1, <1>2 DEF Removed, Add, AddRow, Added, InsertTeam, UpsertUser
<1>5. ~Deactivate(w) /\ ~DeactivateRow(w) /\ ~Deactivated(w) /\ ~TeamExists(w) /\ ~RemoveTeam(w)
  BY <1>1, <1>2 DEF Deactivate, DeactivateRow, Deactivated, TeamExists, RemoveTeam
<1>6. ~Pick(w) /\ ~AuthorExists(w) /\ ~InsertPR(w) /\ ~GetMerged(w)
  BY <1>1, <1>2 DEF Pick, AuthorExists, InsertPR, GetMerged
<1>7. ~Reassign(w) /\ ~LockOld(w) /\ ~LockNew(w) /\ ~GetReassigned(w)
  BY <1>1, <1>2 DEF Reassign, LockOld, LockNew, GetReassigned
<1> QED
  BY <1>3, <1>4, <1>5, <1>6, <1>7 DEF Quiet

\* The mapping, with the one worker named.
LEMMA Mapped ==
  ASSUME NEW w, Workers = {w}
  PROVE  /\ worker = w
         /\ stage = IF pc[w] = "done" THEN "free"
                    ELSE IF pc[w] = "getMerged" THEN "applied" ELSE "pending"
         /\ stage' = IF pc'[w] = "done" THEN "free"
                     ELSE IF pc'[w] = "getMerged" THEN "applied" ELSE "pending"
         /\ ans = IF pc[w] = "done" THEN res[w]
                  ELSE IF pc[w] = "getMerged" THEN Answer("OK", GetByID(db, req[w].pr))
                  ELSE NoAnswer
         /\ ans' = IF pc'[w] = "done" THEN res'[w]
                   ELSE IF pc'[w] = "getMerged" THEN Answer("OK", GetByID(db', req'[w].pr))
                   ELSE NoAnswer
<1>1. worker = w
  BY DEF worker
<1> QED
  BY <1>1 DEF stage, ans

LEMMA AtomicStarts ==
  ASSUME NEW w, Workers = {w}
  PROVE  Init => Atomic!Init
<1> SUFFICES ASSUME Init PROVE Atomic!Init
  OBVIOUS
<1>1. /\ db \in InitialDBs /\ pc[w] = "done" /\ req[w] = NoRequest /\ res[w] = NoAnswer
      /\ faults = MaxFaults
  BY DEF Init
<1>2. worker = w /\ stage = "free" /\ ans = NoAnswer
  BY <1>1, Mapped
<1> QED
  BY <1>1, <1>2 DEF Atomic!Init, Atomic!NoRequest, NoRequest, Atomic!NoAnswer, NoAnswer,
                    Atomic!Answer, Answer

LEMMA AtomicStep ==
  ASSUME NEW w, Workers = {w}, Inductive, ReferencesHeld, AnswersHeld, OnCourse, [Next]_vars
  PROVE  [Atomic!Next]_(Atomic!vars)
<1> USE DEF Inductive, TypeOK
<1>0. w \in Workers /\ HoldsNothing(w) /\ worker = w
  BY Mapped DEF AnswersHeld
<1>1. CASE Begin(w)
  <2>1. /\ pc[w] = "done" /\ req'[w] \in Requests
        /\ pc'[w] \notin {"done", "getMerged"}
    <3>1. PICK r \in Requests : req'[w] = r /\ pc'[w] = FirstStep(r)
      BY <1>0, <1>1, BeginsWithNothing
    <3>2. FirstStep(r) \notin {"done", "getMerged"}
      BY RequestForms DEF FirstStep
    <3> QED
      BY <1>1, <3>1, <3>2 DEF Begin
  <2>2. stage = "free" /\ stage' = "pending" /\ ans' = NoAnswer
    BY <2>1, Mapped
  <2>3. db' = db /\ faults' = faults
    BY <1>1 DEF Begin
  <2>4. Atomic!Submit
    BY <1>0, <2>1, <2>2, <2>3 DEF Atomic!Submit, Atomic!NoAnswer, NoAnswer, Atomic!Answer, Answer
  <2> QED
    BY <2>4 DEF Atomic!Next
<1>2. ASSUME pc[w] # "done", pc'[w] = "done", faults > 0, faults' = faults - 1,
             req'[w] = req[w], res'[w] = Answer("INTERNAL_ERROR", Absent),
             \/ db' = db
             \/ pc[w] = "commit" /\ db' = See(w)
      PROVE  [Atomic!Next]_(Atomic!vars)
  <2>1. stage # "free" /\ stage' = "free" /\ ans' = Atomic!Broken
    BY <1>2, Mapped DEF Atomic!Broken, Atomic!Answer, Answer
  <2>2. \/ db' = db
        \/ stage = "pending" /\ \E o \in Atomic!Outcomes(db, req[worker]) : db' = o.db
    <3>1. CASE pc[w] = "commit" /\ db' = See(w)
      <4>1. [db |-> See(w), ans |-> res[w]] \in Atomic!Outcomes(db, req[w])
        BY <1>0, <3>1, CommitOutcome, SameOutcomes
      <4>2. stage = "pending"
        BY <3>1, Mapped
      <4>3. \E o \in Atomic!Outcomes(db, req[w]) : db' = o.db
        <5>1. db' = [db |-> See(w), ans |-> res[w]].db
          BY <3>1
        <5> QED
          BY <4>1, <5>1
      <4> QED
        BY <1>0, <4>2, <4>3
    <3> QED
      BY <1>2, <3>1
  <2>3. Atomic!Break
    BY <1>0, <1>2, <2>1, <2>2 DEF Atomic!Break
  <2> QED
    BY <2>3 DEF Atomic!Next
<1>3. CASE Cancel(w)
  <2>1. /\ pc[w] # "done" /\ faults > 0 /\ faults' = faults - 1 /\ db' = db /\ req' = req
        /\ pc'[w] = "done" /\ res'[w] = Answer("INTERNAL_ERROR", Absent)
    BY <1>0, <1>3 DEF Cancel, Fail, Goto, Prepare, LocalsTyped
  <2> QED
    BY <1>2, <2>1
<1>4. CASE CommitLost(w)
  <2>1. /\ pc[w] = "commit" /\ faults > 0 /\ faults' = faults - 1 /\ db' = See(w) /\ req' = req
        /\ pc'[w] = "done" /\ res'[w] = Answer("INTERNAL_ERROR", Absent)
    BY <1>0, <1>4 DEF CommitLost, Publish, Goto, Prepare, LocalsTyped
  <2> QED
    BY <1>2, <2>1
<1>5. ASSUME stage = "pending", stage' \in {"applied", "free"}, req'[w] = req[w],
             faults' = faults, [db |-> db', ans |-> ans'] \in Outcomes(db, req[w])
      PROVE  [Atomic!Next]_(Atomic!vars)
  <2>1. [db |-> db', ans |-> ans'] \in Atomic!Outcomes(db, req[w])
    BY <1>5, SameOutcomes
  <2>2. Atomic!Apply
    BY <1>0, <1>5, <2>1 DEF Atomic!Apply
  <2> QED
    BY <2>2 DEF Atomic!Next
<1>6. ASSUME stage' = stage, ans' = ans, db' = db, req'[w] = req[w], faults' = faults
      PROVE  [Atomic!Next]_(Atomic!vars)
  BY <1>0, <1>6 DEF Atomic!vars
<1>7. CASE Serve(w)
  <2>0. req' = req /\ faults' = faults
    BY <1>7 DEF Serve
  <2>1. CASE Commit(w)
    <3>1. pc[w] = "commit" /\ pc'[w] = "done" /\ db' = See(w) /\ res' = res
      BY <1>0, <2>1 DEF Commit, Publish, Goto, LocalsTyped
    <3>2. stage = "pending" /\ stage' = "free" /\ ans' = res[w]
      BY <3>1, Mapped
    <3>3. [db |-> db', ans |-> ans'] \in Outcomes(db, req[w])
      BY <1>0, <3>1, <3>2, CommitOutcome
    <3> QED
      BY <1>5, <2>0, <3>2, <3>3
  <2>2. CASE Merge(w)
    <3> DEFINE p == req[w].pr
               merged(now) == [db EXCEPT ![PRKey(p)].status = "MERGED",
                                         ![PRKey(p)].merged_at = now]
               answered(d) == Outcome(d, Answer("OK", GetByID(d, p)))
    <3>1. pc[w] = "merge" /\ req[w].op = "Merge"
      <4>1. pc[w] = "merge"
        BY <2>2 DEF Merge
      <4> QED
        BY <1>0, <4>1, Serving
    <3>2. CASE IsOpen(db, p)
      <4>1. PICK now \in Instants : db' = merged(now)
        BY <2>2, <3>2 DEF Merge
      <4>2. pc'[w] = "getMerged"
        BY <1>0, <2>2, <3>2 DEF Merge, Proceed, Goto, LocalsTyped
      <4>3. stage = "pending" /\ stage' = "applied" /\ ans' = Answer("OK", GetByID(db', p))
        BY <2>0, <3>1, <4>2, Mapped
      <4>4. [db |-> db', ans |-> ans'] = answered(merged(now))
        BY <4>1, <4>3 DEF Outcome
      <4> HIDE DEF merged, answered
      <4>5. [db |-> db', ans |-> ans'] \in {answered(merged(n)) : n \in Instants}
        BY <4>4
      <4>6. Has(db, PRKey(p))
        BY <3>2 DEF IsOpen
      <4>7. [db |-> db', ans |-> ans'] \in MergeOutcomes(db, p)
        BY <3>2, <4>5, <4>6 DEF MergeOutcomes, merged, answered
      <4>8. [db |-> db', ans |-> ans'] \in Outcomes(db, req[w])
        BY <3>1, <4>7 DEF Outcomes
      <4> QED
        BY <1>5, <2>0, <4>3, <4>8
    <3>3. CASE ~IsOpen(db, p)
      <4>1. db' = db /\ pc'[w] = "mergeExists"
        BY <1>0, <2>2, <3>3 DEF Merge, Proceed, Goto, LocalsTyped
      <4>2. stage' = stage /\ ans' = ans
        BY <3>1, <4>1, Mapped
      <4> QED
        BY <1>6, <2>0, <4>1, <4>2
    <3> QED
      BY <3>2, <3>3
  <2>3. CASE Quiet(w) /\ db' = db
    <3>0. pc[w] # "done"
      BY <1>0, <2>3, StatementAt
    <3>1. CASE pc[w] = "getMerged"
      <4>1. GetMerged(w)
        BY <1>0, <2>3, <3>1, StatementAt
      <4>2. pc'[w] = "done" /\ res'[w] = Answer("OK", GetByID(db, req[w].pr))
        BY <1>0, <4>1 DEF GetMerged, Goto, Prepare, LocalsTyped
      <4>3. stage = "applied" /\ stage' = "free" /\ ans' = ans
        BY <3>1, <4>2, Mapped
      <4>4. Atomic!Reply
        BY <1>0, <2>0, <2>3, <4>3 DEF Atomic!Reply
      <4> QED
        BY <4>4 DEF Atomic!Next
    <3>2. CASE pc[w] # "getMerged" /\ pc'[w] = "done"
      <4>1. stage = "pending" /\ stage' = "free" /\ ans' = res'[w]
        BY <3>0, <3>2, Mapped
      <4>2. [db |-> db', ans |-> ans'] \in Outcomes(db, req[w])
        BY <1>0, <2>3, <3>2, <4>1, RefusalOutcome
      <4> QED
        BY <1>5, <2>0, <4>1, <4>2
    <3>3. CASE pc[w] # "getMerged" /\ pc'[w] = "getMerged"
      <4>1. pc[w] = "mergeExists" /\ req[w].op = "Merge" /\ Has(db, PRKey(req[w].pr))
        <5>1. MergeExists(w)
          BY <1>0, <2>3, <3>3, GetMergedFollows
        <5>2. pc[w] = "mergeExists" /\ Has(db, PRKey(req[w].pr))
          BY <1>0, <3>3, <5>1 DEF MergeExists, Fail, Goto, LocalsTyped
        <5> QED
          BY <1>0, <5>2, Serving
      <4>2. ~IsOpen(db, req[w].pr)
        BY <1>0, <4>1 DEF OnCourse
      <4>3. /\ stage = "pending" /\ stage' = "applied"
            /\ ans' = Answer("OK", GetByID(db, req[w].pr))
        BY <2>0, <2>3, <3>3, <4>1, Mapped
      <4>4. [db |-> db', ans |-> ans'] \in MergeOutcomes(db, req[w].pr)
        BY <2>3, <4>1, <4>2, <4>3 DEF MergeOutcomes, Outcome
      <4>5. [db |-> db', ans |-> ans'] \in Outcomes(db, req[w])
        BY <4>1, <4>4 DEF Outcomes
      <4> QED
        BY <1>5, <2>0, <4>3, <4>5
    <3>4. CASE pc[w] # "getMerged" /\ pc'[w] \notin {"done", "getMerged"}
      <4>1. stage' = stage /\ ans' = ans
        BY <3>0, <3>4, Mapped
      <4> QED
        BY <1>6, <2>0, <2>3, <4>1
    <3> QED
      BY <3>1, <3>2, <3>3, <3>4
  <2> QED
    BY <1>0, <1>7, <2>1, <2>2, <2>3, NeverDeadlocked DEF Serve
<1>8. CASE UNCHANGED vars
  <2>1. pc' = pc /\ res' = res /\ req' = req /\ db' = db /\ faults' = faults
    BY <1>8 DEF vars
  <2>2. stage' = stage /\ ans' = ans
    BY <2>1, Mapped
  <2> QED
    BY <1>6, <2>1, <2>2
<1> QED
  BY <1>1, <1>3, <1>4, <1>7, <1>8 DEF Next, Terminating

\* SerialIsAtomic, of every client alone, on any database the service may be
\* started on: each endpoint of the service (internal/services), though a
\* sequence of statements, has one of the outcomes it has as a single step,
\* or, when a fault breaks it off, that or none.
THEOREM SerialRefinesAtomic ==
  ASSUME NEW w, Workers = {w}
  PROVE  Spec => SerialIsAtomic
<1>1. Init => Atomic!Init
  BY AtomicStarts
<1>2. Inductive /\ ReferencesHeld /\ AnswersHeld /\ OnCourse /\ [Next]_vars
        => [Atomic!Next]_(Atomic!vars)
  BY AtomicStep
<1>3. Spec => []Inductive
  BY Invariance
<1>4. Spec => []ReferencesHeld
  BY ReferencesInvariance
<1>5. Spec => []AnswersHeld
  BY AnswersInvariance
<1>6. Spec => []OnCourse
  BY StaysOnCourse
<1> QED
  BY <1>1, <1>2, <1>3, <1>4, <1>5, <1>6, PTL DEF Spec, SerialIsAtomic, Atomic!Spec

(***************************************************************************)
(* Part 7.  A handover keeps the number of reviewers.                      *)
(***************************************************************************)
\* Switching the leaving reviewer off first changes none of the candidates.
LEMMA SwitchedCandidates ==
  ASSUME Inductive, NEW u \in Users, Has(db, UserKey(u)), NEW p \in PRs
  PROVE  LET set == Switched(db, u, FALSE) IN
         /\ HandoverCandidates(set, p, u) = HandoverCandidates(db, p, u)
         /\ Reviewers(set, p) = Reviewers(db, p)
         /\ p \in OpenReviews(set, u) <=> p \in OpenReviews(db, u)
         /\ \A v \in Users : v # u => set[UserKey(v)] = db[UserKey(v)]
<1> DEFINE k == UserKey(u)
           set == Switched(db, u, FALSE)
           row == [db[k] EXCEPT !.active = FALSE]
           t == db[k].team
<1>1. k \in Keys /\ db = [j \in Keys |-> db[j]] /\ db[k] \in UserRow
  BY KeysApart DEF Inductive, TypeOK, RowsTyped, WellTyped, Has
<1>2. row \in UserRow /\ row.team = t /\ row.active = FALSE /\ row # Absent
  <2>1. row \in UserRow /\ row.team = t /\ row.active = FALSE
    BY <1>1 DEF UserRow
  <2> HIDE DEF row
  <2> QED
    BY <2>1, AbsentIsNoRow
<1>3. set[k] = row /\ \A j \in Keys : j # k => set[j] = db[j]
  BY <1>1 DEF Switched
<1> HIDE DEF set, row
<1>4. \A v \in Users : v # u => set[UserKey(v)] = db[UserKey(v)]
  BY <1>3, KeysApart
<1>5. \A v \in Users : set[RevKey(p, v)] = db[RevKey(p, v)]
  BY <1>3, KeysApart
<1>6. set[PRKey(p)] = db[PRKey(p)]
  BY <1>3, KeysApart
<1>7. Reviewers(set, p) = Reviewers(db, p)
  BY <1>5 DEF Reviewers, Has
<1>8. p \in OpenReviews(set, u) <=> p \in OpenReviews(db, u)
  BY <1>6, <1>7 DEF OpenReviews, IsOpen, Has
<1>9. \A v \in Users : v # u => (v \in ActiveMembers(set, t) <=> v \in ActiveMembers(db, t))
  BY <1>4 DEF ActiveMembers, TeamMembers, Has
<1>10. HandoverCandidates(set, p, u) = HandoverCandidates(db, p, u)
  <2>1. set[k].team = t
    BY <1>2, <1>3
  <2>2. ActiveMembers(set, t) \subseteq Users /\ ActiveMembers(db, t) \subseteq Users
    BY DEF ActiveMembers, TeamMembers
  <2>3. Candidates(set, p, u, t) = Candidates(db, p, u, t)
    BY <1>6, <1>7, <1>9, <2>2 DEF Candidates
  <2> QED
    BY <2>1, <2>3 DEF HandoverCandidates
<1> QED
  BY <1>4, <1>7, <1>8, <1>10 DEF set

\* Who reviews p once u has stepped down and the candidates are added.
LEMMA HandedOverReviewers ==
  ASSUME Inductive, NEW u \in Users, Has(db, UserKey(u)), NEW p \in OpenReviews(db, u),
         NEW found \in GetReassignmentCandidatesForReviewer(Switched(db, u, FALSE), u)
  PROVE  LET after == Reviewers(With(SteppedDown(Switched(db, u, FALSE), u), found), p)
         IN  IF HandoverCandidates(db, p, u) = {}
               THEN after = Reviewers(db, p) \ {u}
               ELSE \E v \in Users \ Reviewers(db, p) :
                      after = (Reviewers(db, p) \ {u}) \cup {v}
<1> DEFINE set == Switched(db, u, FALSE)
           off == SteppedDown(set, u)
           t == With(off, found)
           ps == {q \in OpenReviews(set, u) : HandoverCandidates(set, q, u) # {}}
<1>1. p \in PRs /\ p \in OpenReviews(set, u) /\ Reviewers(set, p) = Reviewers(db, p)
      /\ HandoverCandidates(set, p, u) = HandoverCandidates(db, p, u)
  <2>1. p \in PRs
    BY DEF OpenReviews
  <2> QED
    BY <2>1, SwitchedCandidates
<1>2. \A v \in Users : v # u => set[UserKey(v)] = db[UserKey(v)]
  BY <1>1, SwitchedCandidates
<1>3. PICK f \in [ps -> Users] : /\ \A q \in ps : f[q] \in HandoverCandidates(set, q, u)
                                 /\ found = {<<q, f[q]>> : q \in ps}
  BY DEF GetReassignmentCandidatesForReviewer
<1> HIDE DEF set, ps
<1>4. \A v \in Users : RevKey(p, v) \in Keys /\ UserKey(v) \in Keys
  BY <1>1, KeysApart
<1>5. \A v \in Users : Has(off, RevKey(p, v)) <=> v \in Reviewers(db, p) \ {u}
  <2>1. \A v \in Users : RevKey(p, v) \in RemoveReviewerFromOpenPRs(set, u) <=> v = u
    BY <1>1, KeysApart DEF RemoveReviewerFromOpenPRs, OpenReviews
  <2>2. \A v \in Users : v \in Reviewers(set, p) <=> Has(set, RevKey(p, v))
    BY DEF Reviewers
  <2> QED
    BY <1>1, <1>4, <2>1, <2>2 DEF SteppedDown, Without, Has
<1>6. \A v \in Users : off[UserKey(v)] = set[UserKey(v)]
  <2>1. \A v \in Users : UserKey(v) \notin RemoveReviewerFromOpenPRs(set, u)
    BY KeysApart DEF RemoveReviewerFromOpenPRs, OpenReviews
  <2> QED
    BY <1>4, <2>1 DEF SteppedDown, Without
<1>7. \A v \in Users : RevKey(p, v) \in AddReviewers(off, found) <=>
         <<p, v>> \in found /\ Has(off, UserKey(v)) /\ off[UserKey(v)].active
  <2>1. found \subseteq PRs \X Users
    BY HandoverFound DEF set
  <2> HIDE DEF off
  <2>2. \A k : k \in AddReviewers(off, found) <=>
           \E a \in found : /\ Has(off, UserKey(a[2])) /\ off[UserKey(a[2])].active
                            /\ k = RevKey(a[1], a[2])
    BY DEF AddReviewers
  <2>3. \A a \in found : a = <<a[1], a[2]>> /\ a[1] \in PRs /\ a[2] \in Users
    BY <2>1
  <2>4. \A v \in Users, a \in found : RevKey(p, v) = RevKey(a[1], a[2]) => a[1] = p /\ a[2] = v
    BY <1>1, <2>3, KeysApart
  <2>5. \A v \in Users : <<p, v>>[1] = p /\ <<p, v>>[2] = v
    OBVIOUS
  <2>6. ASSUME NEW v \in Users, RevKey(p, v) \in AddReviewers(off, found)
        PROVE  <<p, v>> \in found /\ Has(off, UserKey(v)) /\ off[UserKey(v)].active
    <3>1. PICK a \in found : /\ Has(off, UserKey(a[2])) /\ off[UserKey(a[2])].active
                             /\ RevKey(p, v) = RevKey(a[1], a[2])
      BY <2>2, <2>6
    <3> QED
      BY <2>3, <2>4, <3>1
  <2>7. ASSUME NEW v \in Users, <<p, v>> \in found, Has(off, UserKey(v)), off[UserKey(v)].active
        PROVE  RevKey(p, v) \in AddReviewers(off, found)
    BY <2>2, <2>5, <2>7
  <2> QED
    BY <2>6, <2>7
<1>8. \A v \in Users : Has(t, RevKey(p, v)) <=>
         \/ Has(off, RevKey(p, v))
         \/ RevKey(p, v) \in AddReviewers(off, found)
  BY <1>4, AbsentIsNoRow DEF With, Has
<1>9. \A v \in Users : v \in Reviewers(t, p) <=> Has(t, RevKey(p, v))
  BY DEF Reviewers
<1>10. Reviewers(t, p) \subseteq Users /\ Reviewers(db, p) \subseteq Users
  BY DEF Reviewers
<1> HIDE DEF t, off
<1>11. CASE HandoverCandidates(db, p, u) = {}
  <2>1. p \notin ps
    BY <1>1, <1>11 DEF ps
  <2>2. \A v : <<p, v>> \notin found
    BY <1>3, <2>1
  <2>3. \A v \in Users : v \in Reviewers(t, p) <=> v \in Reviewers(db, p) \ {u}
    BY <1>5, <1>7, <1>8, <1>9, <2>2
  <2>4. Reviewers(t, p) = Reviewers(db, p) \ {u}
    BY <1>10, <2>3
  <2> QED
    BY <1>11, <2>4 DEF t, off, set
<1>12. CASE HandoverCandidates(db, p, u) # {}
  <2> DEFINE v == f[p]
  <2>1. p \in ps
    BY <1>1, <1>12 DEF ps
  <2>2. v \in HandoverCandidates(set, p, u) /\ <<p, v>> \in found
    BY <1>3, <2>1
  <2>3. \A x : <<p, x>> \in found => x = v
    BY <1>3
  <2>4. /\ v \in Users /\ v \notin Reviewers(db, p) /\ v # u
        /\ Has(set, UserKey(v)) /\ set[UserKey(v)].active
    BY <1>1, <2>2 DEF HandoverCandidates, Candidates, ActiveMembers, TeamMembers
  <2>5. Has(off, UserKey(v)) /\ off[UserKey(v)].active
    BY <1>6, <2>4 DEF Has
  <2> HIDE DEF v
  <2>6. \A x \in Users : x \in Reviewers(t, p) <=> x \in (Reviewers(db, p) \ {u}) \cup {v}
    BY <1>5, <1>7, <1>8, <1>9, <2>2, <2>3, <2>5
  <2>7. Reviewers(t, p) = (Reviewers(db, p) \ {u}) \cup {v}
    BY <1>10, <2>4, <2>6
  <2>8. \E x \in Users \ Reviewers(db, p) : Reviewers(t, p) = (Reviewers(db, p) \ {u}) \cup {x}
    BY <2>4, <2>7
  <2> QED
    BY <1>12, <2>8 DEF t, off, set
<1> QED
  BY <1>11, <1>12

LEMMA CountedOver ==
  ASSUME NEW T \in SUBSET Users, NEW out \in T
  PROVE  /\ Cardinality(T \ {out}) + 1 = Cardinality(T)
         /\ \A in \in Users \ T : Cardinality((T \ {out}) \cup {in}) = Cardinality(T)
<1>1. IsFiniteSet(T) /\ Cardinality(T) \in Nat
  BY UsersFinite, FS_Subset, FS_CardinalityType
<1>2. IsFiniteSet(T \ {out}) /\ Cardinality(T \ {out}) + 1 = Cardinality(T)
  <2>1. IsFiniteSet(T \ {out}) /\ Cardinality(T \ {out}) = Cardinality(T) - 1
    BY <1>1, FS_RemoveElement
  <2> QED
    BY <1>1, <2>1
<1>3. ASSUME NEW in \in Users \ T
      PROVE  Cardinality((T \ {out}) \cup {in}) = Cardinality(T)
  <2>1. Cardinality((T \ {out}) \cup {in}) = Cardinality(T \ {out}) + 1
    BY <1>2, FS_AddElement
  <2> QED
    BY <1>2, <2>1
<1> QED
  BY <1>2, <1>3

\* HandoverKeepsNumber, of every client alone: what SetActive(false)
\* (internal/services/user) takes from a pull request a member of the
\* reviewer's team gets, wherever one can.
THEOREM HandoversKeepNumber ==
  ASSUME NEW v, Workers = {v}
  PROVE  Spec => HandoverKeepsNumber
<1> DEFINE Kept(w) == Granted(w, "SetActive") /\ ~req[w].active =>
              \A p \in OpenReviews(db, req[w].user) :
                LET lost == IF HandoverCandidates(db, p, req[w].user) = {} THEN 1 ELSE 0
                IN  Cardinality(Reviewers(db', p)) + lost = Cardinality(Reviewers(db, p))
<1>1. ASSUME Inductive, OnCourse, [Next]_vars, NEW w \in Workers
      PROVE  Kept(w)
  <2> SUFFICES ASSUME Granted(w, "SetActive"), ~req[w].active,
                      NEW p \in OpenReviews(db, req[w].user)
               PROVE  LET lost == IF HandoverCandidates(db, p, req[w].user) = {} THEN 1 ELSE 0
                      IN  Cardinality(Reviewers(db', p)) + lost = Cardinality(Reviewers(db, p))
    OBVIOUS
  <2> DEFINE u == req[w].user
             R == Reviewers(db, p)
  <2>1. pc[w] = "commit" /\ db' = See(w) /\ req[w].op = "SetActive"
    BY <1>1, GrantedCommits
  <2>2. /\ Has(db, UserKey(u))
        /\ items[w] \in GetReassignmentCandidatesForReviewer(Switched(db, u, FALSE), u)
        /\ See(w) = With(SteppedDown(Switched(db, u, FALSE), u), items[w])
    <3>1. SettingActive(w)
      BY <1>1, <2>1 DEF OnCourse
    <3>2. req[w].active = FALSE
      <4>1. req[w].active \in BOOLEAN
        BY <1>1, <2>1, RequestForms DEF Inductive, Settled, OnItsWay
      <4> QED
        BY <4>1
    <3> QED
      BY <2>1, <3>1, <3>2 DEF SettingActive, Adding
  <2>3. u \in Users
    BY <1>1, <2>1, RequestForms DEF Inductive, Settled, OnItsWay
  <2>4. R \in SUBSET Users /\ u \in R
    BY DEF Reviewers, OpenReviews
  <2>5. IF HandoverCandidates(db, p, u) = {}
          THEN Reviewers(db', p) = R \ {u}
          ELSE \E x \in Users \ R : Reviewers(db', p) = (R \ {u}) \cup {x}
    <3>1. db' = With(SteppedDown(Switched(db, u, FALSE), u), items[w])
      BY <2>1, <2>2
    <3> HIDE DEF u
    <3>2. Inductive /\ p \in OpenReviews(db, u)
      BY <1>1 DEF u
    <3> QED
      BY <2>2, <2>3, <3>1, <3>2, HandedOverReviewers
  <2> HIDE DEF R, u
  <2>6. /\ Cardinality(R) \in Nat
        /\ Cardinality(R \ {u}) + 1 = Cardinality(R)
        /\ \A x \in Users \ R : Cardinality((R \ {u}) \cup {x}) = Cardinality(R)
    <3>1. IsFiniteSet(R)
      BY <2>4, UsersFinite, FS_Subset
    <3> QED
      BY <2>4, <3>1, FS_CardinalityType, CountedOver
  <2>7. CASE HandoverCandidates(db, p, u) = {}
    BY <2>5, <2>6, <2>7 DEF R, u
  <2>8. CASE HandoverCandidates(db, p, u) # {}
    <3>1. Cardinality(Reviewers(db', p)) = Cardinality(R)
      BY <2>5, <2>6, <2>8
    <3> QED
      BY <2>6, <2>8, <3>1 DEF R, u
  <2> QED
    BY <2>7, <2>8
<1>2. Inductive /\ OnCourse /\ [Next]_vars => [\A w \in Workers : Kept(w)]_vars
  <2> HIDE DEF Kept
  <2> QED
    BY <1>1
<1>3. Spec => []Inductive
  BY Invariance
<1>4. Spec => []OnCourse
  BY StaysOnCourse
<1> QED
  BY <1>2, <1>3, <1>4, PTL DEF Spec, HandoverKeepsNumber
==============================================================================
