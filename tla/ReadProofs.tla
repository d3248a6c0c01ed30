------------------------------ MODULE ReadProofs ------------------------------
(***************************************************************************)
(* The reading endpoints answer what is committed, whatever the writing    *)
(* ones do between two of their statements, for any number of readers'     *)
(* requests, writing workers and rows.                                     *)
(*                                                                         *)
(* Part 1  sums of sizes              Part 3  between two statements       *)
(* Part 2  counting assignments       Part 4  the theorems                 *)
(***************************************************************************)
EXTENDS ReadService, AssignmentProofs, FiniteSetTheorems

(***************************************************************************)
(* Part 1.  Sums of sizes.                                                 *)
(***************************************************************************)
\* Total adds up by the fold of FoldSet: what its recursion defines, given a
\* function that satisfies it.
LEMMA TotalIs ==
  ASSUME NEW f, IsFiniteSet(DOMAIN f), \A x \in DOMAIN f : f[x] \in Nat,
         NEW G,
         G = [s \in SUBSET DOMAIN f |->
                IF s = {} THEN 0
                ELSE f[CHOOSE x \in s : TRUE] + G[s \ {CHOOSE x \in s : TRUE}]]
  PROVE  Total(f) = G[DOMAIN f]
<1> DEFINE S == DOMAIN f
           pick(s) == CHOOSE x \in s : TRUE
           Sums(g) == g = [s \in SUBSET S |->
                             IF s = {} THEN 0 ELSE f[pick(s)] + g[s \ {pick(s)}]]
           iter == CHOOSE g : Sums(g)
           wrong == {n \in Nat : \E s \in SUBSET S : Cardinality(s) = n /\ iter[s] # G[s]}
<1>1. Total(f) = iter[S]
  BY DEF Total, MapThenSumSet, MapThenFoldSet
<1>2. Sums(iter)
  BY Zenon
<1>3. ASSUME NEW s \in SUBSET S, s # {}
      PROVE  /\ s \ {pick(s)} \in SUBSET S
             /\ Cardinality(s) \in Nat /\ Cardinality(s \ {pick(s)}) \in Nat
             /\ Cardinality(s \ {pick(s)}) < Cardinality(s)
  <2>1. pick(s) \in s
    BY <1>3
  <2>2. IsFiniteSet(s)
    BY FS_Subset
  <2> HIDE DEF pick
  <2>3. /\ IsFiniteSet(s \ {pick(s)})
        /\ Cardinality(s \ {pick(s)}) = Cardinality(s) - 1
    BY <2>1, <2>2, FS_RemoveElement
  <2> QED
    BY <2>2, <2>3, FS_CardinalityType
<1>4. wrong = {}
  <2>1. SUFFICES ASSUME wrong # {} PROVE FALSE
    OBVIOUS
  <2>2. PICK n \in wrong : \A k \in wrong : ~(k < n)
    BY <2>1, NatMinimum
  <2>3. PICK s \in SUBSET S : Cardinality(s) = n /\ iter[s] # G[s]
    BY <2>2
  <2> HIDE DEF iter, pick
  <2>4. CASE s = {}
    BY <2>3, <2>4, <1>2 DEF pick
  <2>5. CASE s # {}
    <3> DEFINE rest == s \ {pick(s)}
    <3>1. /\ rest \in SUBSET S /\ Cardinality(rest) \in Nat
          /\ Cardinality(rest) < Cardinality(s)
      BY <1>3, <2>5
    <3>2. Cardinality(rest) \notin wrong
      BY <2>2, <2>3, <3>1
    <3>3. iter[rest] = G[rest]
      BY <3>1, <3>2
    <3>4. iter[s] = f[pick(s)] + iter[rest]
      BY <1>2, <2>5
    <3>5. G[s] = f[pick(s)] + G[rest]
      BY <2>5 DEF pick
    <3> QED
      BY <2>3, <3>3, <3>4, <3>5
  <2> QED
    BY <2>4, <2>5
<1>5. Cardinality(S) \in Nat
  BY FS_CardinalityType
<1> QED
  BY <1>1, <1>4, <1>5

\* The sizes of sets that have nothing in common add up to the size of their
\* union.
LEMMA SizesAddUp ==
  ASSUME NEW R, IsFiniteSet(R), NEW S, IsFiniteSet(S), NEW F \in [S -> SUBSET R],
         \A x, y \in S : x # y => F[x] \cap F[y] = {}
  PROVE  Total([x \in S |-> Cardinality(F[x])]) = Cardinality(UNION {F[x] : x \in S})
<1> DEFINE f == [x \in S |-> Cardinality(F[x])]
           all(s) == UNION {F[x] : x \in s}
           G == [s \in SUBSET S |-> Cardinality(all(s))]
           pick(s) == CHOOSE x \in s : TRUE
<1>1. \A x \in S : IsFiniteSet(F[x]) /\ f[x] \in Nat
  BY FS_Subset, FS_CardinalityType
<1>2. ASSUME NEW s \in SUBSET S, s # {}
      PROVE  Cardinality(all(s)) = f[pick(s)] + G[s \ {pick(s)}]
  <2> DEFINE x == pick(s)
             rest == s \ {x}
  <2>1. x \in s
    BY <1>2
  <2> HIDE DEF pick
  <2>2. /\ all(rest) \in SUBSET R /\ all(rest) \cap F[x] = {}
        /\ all(s) = all(rest) \cup F[x]
    <3>1. \A y \in rest : F[y] \in SUBSET R /\ F[y] \cap F[x] = {}
      BY <2>1
    <3>2. all(s) = all(rest) \cup F[x]
      BY <2>1
    <3> QED
      BY <3>1, <3>2
  <2>3. IsFiniteSet(all(rest)) /\ IsFiniteSet(F[x])
    BY <1>1, <2>1, <2>2, FS_Subset
  <2>4. Cardinality(all(rest)) \in Nat /\ Cardinality(F[x]) \in Nat
    BY <2>3, FS_CardinalityType
  <2>5. Cardinality(all(rest) \cap F[x]) = 0
    BY <2>2, FS_EmptySet
  <2>6. Cardinality(all(rest) \cup F[x]) =
          Cardinality(all(rest)) + Cardinality(F[x]) - Cardinality(all(rest) \cap F[x])
    BY <2>3, FS_Union
  <2>7. Cardinality(all(s)) = Cardinality(F[x]) + Cardinality(all(rest))
    <3> HIDE DEF all, rest, x
    <3>1. Cardinality(all(s)) = Cardinality(all(rest) \cup F[x])
      BY <2>2
    <3> QED
      BY <2>4, <2>5, <2>6, <3>1
  <2>8. G[rest] = Cardinality(all(rest)) /\ f[x] = Cardinality(F[x])
    BY <2>1
  <2> QED
    BY <2>7, <2>8
<1>3. Cardinality(all({})) = 0
  <2>1. all({}) = {}
    OBVIOUS
  <2> QED
    BY <2>1, FS_EmptySet
<1>4. G = [s \in SUBSET S |-> IF s = {} THEN 0 ELSE f[pick(s)] + G[s \ {pick(s)}]]
  <2>1. \A s \in SUBSET S :
          Cardinality(all(s)) = IF s = {} THEN 0 ELSE f[pick(s)] + G[s \ {pick(s)}]
    <3> TAKE s \in SUBSET S
    <3>1. CASE s = {}
      BY <1>3, <3>1
    <3>2. CASE s # {}
      BY <1>2, <3>2
    <3> QED
      BY <3>1, <3>2
  <2> HIDE DEF all, pick, f
  <2> QED
    BY <2>1
<1>5. DOMAIN f = S
  OBVIOUS
<1>6. Total(f) = G[DOMAIN f]
  <2> HIDE DEF f, G
  <2> QED
    BY <1>1, <1>4, <1>5, TotalIs
<1> QED
  BY <1>5, <1>6

(***************************************************************************)
(* Part 2.  Counting assignments.                                          *)
(***************************************************************************)
LEMMA OneToOne ==
  ASSUME NEW S, NEW T, NEW f \in [S -> T],
         \A x, y \in S : f[x] = f[y] => x = y,
         \A t \in T : \E x \in S : f[x] = t
  PROVE  ExistsBijection(S, T)
<1>1. f \in Injection(S, T)
  BY DEF Injection, IsInjective
<1>2. f \in Surjection(S, T)
  BY DEF Surjection
<1> QED
  BY <1>1, <1>2 DEF ExistsBijection, Bijection

LEMMA AssignedFinite ==
  ASSUME NEW s
  PROVE  /\ IsFiniteSet(Users) /\ IsFiniteSet(PRs) /\ IsFiniteSet(PRs \X Users)
         /\ IsFiniteSet(Assigned(s))
<1>1. IsFiniteSet(PRs \X Users)
  BY UsersFinite, PRsFinite, FS_Product
<1>2. Assigned(s) \in SUBSET (PRs \X Users)
  BY DEF Assigned
<1> QED
  BY <1>1, <1>2, UsersFinite, PRsFinite, FS_Subset

\* The JOINs of GetUserAssignmentStats and GetPRAssignmentStats lose nobody:
\* each counts all assignments of a snapshot the foreign keys hold in.
LEMMA UsersCounted ==
  ASSUME NEW s, Anchored(s)
  PROVE  Total(GetUserAssignmentStats(s)) = Cardinality(Assigned(s))
<1> DEFINE S == {u \in Users : Has(s, UserKey(u))}
           F == [u \in S |-> {a \in Assigned(s) : a[2] = u}]
           reviewed(u) == {p \in PRs : Has(s, RevKey(p, u))}
<1>1. IsFiniteSet(S)
  BY AssignedFinite, FS_Subset
<1>2. F \in [S -> SUBSET Assigned(s)]
  OBVIOUS
<1>3. \A x, y \in S : x # y => F[x] \cap F[y] = {}
  OBVIOUS
<1>4. UNION {F[u] : u \in S} = Assigned(s)
  <2>1. ASSUME NEW a \in Assigned(s) PROVE a[2] \in S /\ a \in F[a[2]]
    BY <2>1 DEF Assigned, Anchored
  <2> QED
    BY <1>2, <2>1
<1>5. \A u \in S : Cardinality(reviewed(u)) = Cardinality(F[u])
  <2> TAKE u \in S
  <2> DEFINE pair == [p \in reviewed(u) |-> <<p, u>>]
  <2>1. ExistsBijection(reviewed(u), F[u])
    <3>1. pair \in [reviewed(u) -> F[u]]
      BY DEF Assigned
    <3>2. \A p, q \in reviewed(u) : pair[p] = pair[q] => p = q
      OBVIOUS
    <3>3. ASSUME NEW a \in F[u] PROVE \E p \in reviewed(u) : pair[p] = a
      <4>1. a[1] \in reviewed(u) /\ a = <<a[1], u>>
        BY <3>3 DEF Assigned
      <4> QED
        BY <4>1
    <3> HIDE DEF reviewed, pair, F
    <3> QED
      BY <3>1, <3>2, <3>3, OneToOne
  <2>2. IsFiniteSet(reviewed(u))
    BY AssignedFinite, FS_Subset
  <2> HIDE DEF reviewed, pair, F
  <2> QED
    BY <2>1, <2>2, FS_Bijection
<1>6. GetUserAssignmentStats(s) = [u \in S |-> Cardinality(F[u])]
  <2> HIDE DEF F
  <2> QED
    BY <1>5 DEF GetUserAssignmentStats
<1>7. Total([u \in S |-> Cardinality(F[u])]) = Cardinality(UNION {F[u] : u \in S})
  <2> HIDE DEF S, F
  <2> QED
    BY <1>1, <1>2, <1>3, AssignedFinite, SizesAddUp
<1> QED
  BY <1>4, <1>6, <1>7

LEMMA PRsCounted ==
  ASSUME NEW s, Anchored(s)
  PROVE  Total(GetPRAssignmentStats(s)) = Cardinality(Assigned(s))
<1> DEFINE S == {p \in PRs : Has(s, PRKey(p))}
           F == [p \in S |-> {a \in Assigned(s) : a[1] = p}]
<1>1. IsFiniteSet(S)
  BY AssignedFinite, FS_Subset
<1>2. F \in [S -> SUBSET Assigned(s)]
  OBVIOUS
<1>3. \A x, y \in S : x # y => F[x] \cap F[y] = {}
  OBVIOUS
<1>4. UNION {F[p] : p \in S} = Assigned(s)
  <2>1. ASSUME NEW a \in Assigned(s) PROVE a[1] \in S /\ a \in F[a[1]]
    BY <2>1 DEF Assigned, Anchored
  <2> QED
    BY <1>2, <2>1
<1>5. \A p \in S : Cardinality(Reviewers(s, p)) = Cardinality(F[p])
  <2> TAKE p \in S
  <2> DEFINE pair == [u \in Reviewers(s, p) |-> <<p, u>>]
  <2>1. ExistsBijection(Reviewers(s, p), F[p])
    <3>1. pair \in [Reviewers(s, p) -> F[p]]
      BY DEF Assigned, Reviewers
    <3>2. \A u, v \in Reviewers(s, p) : pair[u] = pair[v] => u = v
      OBVIOUS
    <3>3. ASSUME NEW a \in F[p] PROVE \E u \in Reviewers(s, p) : pair[u] = a
      <4>1. a[2] \in Reviewers(s, p) /\ a = <<p, a[2]>>
        BY <3>3 DEF Assigned, Reviewers
      <4> QED
        BY <4>1
    <3> HIDE DEF pair, F
    <3> QED
      BY <3>1, <3>2, <3>3, OneToOne
  <2>2. IsFiniteSet(Reviewers(s, p))
    BY AssignedFinite, FS_Subset DEF Reviewers
  <2> HIDE DEF pair, F
  <2> QED
    BY <2>1, <2>2, FS_Bijection
<1>6. GetPRAssignmentStats(s) = [p \in S |-> Cardinality(F[p])]
  <2> HIDE DEF F
  <2> QED
    BY <1>5 DEF GetPRAssignmentStats
<1>7. Total([p \in S |-> Cardinality(F[p])]) = Cardinality(UNION {F[p] : p \in S})
  <2> HIDE DEF S, F
  <2> QED
    BY <1>1, <1>2, <1>3, AssignedFinite, SizesAddUp
<1> QED
  BY <1>4, <1>6, <1>7

(***************************************************************************)
(* Part 3.  Between the two statements of a reading request.               *)
(***************************************************************************)
\* The reader changes nothing the writing requests work with.
LEMMA ReadersWatch ==
  [ReadNext]_<<vars, readVars>> => [Next]_vars
<1>1. ASSUME ReadNext PROVE [Next]_vars
  <2>1. CASE Write
    BY <2>1 DEF Write
  <2>2. CASE GetTeam \/ CheckUser \/ ListReviews
    BY <2>2 DEF GetTeam, CheckUser, ListReviews, Respond
  <2>3. CASE UserStats \/ PRStats \/ ReadFails \/ Deliver
    BY <2>3 DEF UserStats, PRStats, ReadFails, Deliver, Respond
  <2> QED
    BY <1>1, <2>1, <2>2, <2>3 DEF ReadNext
<1> QED
  BY <1>1

THEOREM ReadersWritersSpec == ReadSpec => Spec
<1>1. ReadInit => Init
  BY DEF ReadInit
<1> QED
  BY <1>1, ReadersWatch, PTL DEF ReadSpec, Spec

\* A user who is there stays, whatever commits.
LEMMA UsersStay ==
  ASSUME NEW u \in Users, Inductive, Next, Has(db, UserKey(u))
  PROVE  Has(db', UserKey(u))
<1>1. UserKey(u) \in LastingKeys
  BY DEF LastingKeys, UserKeys
<1>2. CASE \E w \in Workers : Step(w)
  BY <1>1, <1>2, CommittedStays
<1>3. CASE UNCHANGED vars
  BY <1>3 DEF vars, Has
<1> QED
  BY <1>2, <1>3 DEF Next, Step, Terminating

\* The assignments are the rows of reviewers.
LEMMA SameAssigned ==
  ASSUME \A k \in RevKeys : db'[k] = db[k]
  PROVE  Assigned(db') = Assigned(db)
<1>1. \A a \in PRs \X Users : RevKey(a[1], a[2]) \in RevKeys
  BY DEF RevKeys
<1> QED
  BY <1>1 DEF Assigned, Has

LEMMA ReaderStep ==
  Inductive /\ ReferencesHeld /\ ReaderHeld /\ [ReadNext]_<<vars, readVars>> => ReaderHeld'
<1> SUFFICES ASSUME Inductive, ReferencesHeld, ReaderHeld, [ReadNext]_<<vars, readVars>>
             PROVE  ReaderHeld'
  OBVIOUS
<1>1. CASE Write
  <2>1. ASSUME rpc' = "reviews"
        PROVE  rreq' \in Reads /\ rreq'.op = "GetUserReviews" /\ Has(db', UserKey(rreq'.user))
    <3>1. /\ rreq' = rreq /\ rreq \in Reads /\ rreq.op = "GetUserReviews"
          /\ Has(db, UserKey(rreq.user)) /\ Next
      BY <1>1, <2>1 DEF Write, ReaderHeld
    <3>2. rreq.user \in Users
      BY <3>1, ReadsTyped DEF GetTeamReq, GetUserReviewsReq, GetStatsReq
    <3>3. Has(db', UserKey(rreq.user))
      BY <3>1, <3>2, UsersStay
    <3> QED
      BY <3>1, <3>3
  <2>2. ASSUME rpc' = "prStats"
        PROVE  /\ rreq'.op = "GetAssignmentStats"
               /\ touched' \/ Total(users') = Cardinality(Assigned(db'))
    <3>1. /\ rpc = "prStats" /\ rreq' = rreq /\ users' = users
          /\ touched' = (touched \/ (rpc = "prStats" /\ \E k \in RevKeys : db'[k] # db[k]))
      BY <1>1, <2>2 DEF Write
    <3>2. CASE \E k \in RevKeys : db'[k] # db[k]
      BY <3>1, <3>2 DEF ReaderHeld
    <3>3. CASE \A k \in RevKeys : db'[k] = db[k]
      BY <3>1, <3>3, SameAssigned DEF ReaderHeld
    <3> QED
      BY <3>2, <3>3
  <2> QED
    BY <2>1, <2>2 DEF ReaderHeld
<1>2. CASE GetTeam \/ ListReviews \/ PRStats
  BY <1>2 DEF GetTeam, ListReviews, PRStats, Respond, ReaderHeld
<1>3. CASE ReadFails \/ Deliver
  BY <1>3 DEF ReadFails, Deliver, ReaderHeld
<1>4. CASE CheckUser
  <2>1. db' = db /\ rpc' \in {"answered", "reviews"}
    BY <1>4 DEF CheckUser, Respond, vars
  <2>2. rpc' = "reviews" =>
          rreq' \in Reads /\ rreq'.op = "GetUserReviews" /\ Has(db, UserKey(rreq'.user))
    BY <1>4 DEF CheckUser, Take, Respond
  <2> QED
    BY <2>1, <2>2 DEF ReaderHeld
<1>5. CASE UserStats
  <2>1. /\ rpc' = "prStats" /\ rreq'.op = "GetAssignmentStats" /\ db' = db
        /\ users' = GetUserAssignmentStats(db)
    BY <1>5 DEF UserStats, Take, vars
  <2>2. Total(GetUserAssignmentStats(db)) = Cardinality(Assigned(db))
    BY UsersCounted DEF ReferencesHeld, RowsAnchored
  <2> QED
    BY <2>1, <2>2 DEF ReaderHeld
<1>6. CASE UNCHANGED <<vars, readVars>>
  BY <1>6 DEF vars, readVars, ReaderHeld
<1> QED
  BY <1>1, <1>2, <1>3, <1>4, <1>5, <1>6 DEF ReadNext

(***************************************************************************)
(* Part 4.  The theorems.                                                  *)
(***************************************************************************)
\* Whatever the writing requests commit, the user whose reviews are read is
\* there, and the assignments counted are the committed ones unless a commit
\* has changed them.
THEOREM ReaderInvariance == ReadSpec => []ReaderHeld
<1>1. ReadInit => ReaderHeld
  BY DEF ReadInit, ReaderHeld
<1> QED
  BY <1>1, ReaderStep, ReadersWritersSpec, Invariance, ReferencesInvariance, PTL
     DEF ReadSpec

\* GetTeam and GetUserReviews answer what is committed when their last
\* statement runs, and NOT_FOUND only of what is missing then.
THEOREM ReadsFollowCommits == ReadSpec => ReadsUpToDate
<1> DEFINE UpToDate ==
      Replies /\ rreq'.op # "GetAssignmentStats" =>
       rans' = CASE rreq'.op = "GetTeam" /\ Has(db, TeamKey(rreq'.team)) ->
                      Found(Get(db, rreq'.team))
                 [] rreq'.op = "GetUserReviews" /\ Has(db, UserKey(rreq'.user)) ->
                      Found(GetReviews(db, rreq'.user))
                 [] OTHER -> NotFound
<1>1. ASSUME ReaderHeld, ReadNext PROVE UpToDate
  <2>1. CASE GetTeam
    <3>1. /\ rreq'.op = "GetTeam"
          /\ rans' = IF Has(db, TeamKey(rreq'.team)) THEN Found(Get(db, rreq'.team))
                                                     ELSE NotFound
      BY <2>1 DEF GetTeam, Take, Respond
    <3> QED
      BY <3>1
  <2>2. CASE CheckUser
    <3>1. /\ rreq'.op = "GetUserReviews"
          /\ Replies => ~Has(db, UserKey(rreq'.user)) /\ rans' = NotFound
      BY <2>2 DEF CheckUser, Take, Respond, Replies
    <3> QED
      BY <3>1
  <2>3. CASE ListReviews
    <3>1. /\ rreq'.op = "GetUserReviews" /\ Has(db, UserKey(rreq'.user))
          /\ rans' = Found(GetReviews(db, rreq'.user))
      BY <1>1, <2>3 DEF ListReviews, Respond, ReaderHeld
    <3> QED
      BY <3>1
  <2>4. CASE PRStats
    BY <1>1, <2>4 DEF PRStats, Respond, ReaderHeld
  <2>5. CASE Write \/ UserStats \/ ReadFails \/ Deliver
    BY <2>5 DEF Write, UserStats, ReadFails, Deliver, Replies
  <2> QED
    BY <1>1, <2>1, <2>2, <2>3, <2>4, <2>5 DEF ReadNext
<1>2. ReaderHeld /\ [ReadNext]_<<vars, readVars>> => [UpToDate]_<<vars, readVars>>
  BY <1>1
<1> QED
  BY <1>2, ReaderInvariance, PTL DEF ReadSpec, ReadsUpToDate

\* The two lists of GetAssignmentStats add up to the same number, unless a
\* request has changed reviewers between the two queries, which no transaction
\* holds together.
THEOREM StatsAgree == ReadSpec => StatsAddUp
<1> DEFINE AddUp ==
      Replies /\ rreq'.op = "GetAssignmentStats" =>
        \/ Total(rans'.value.user_stats) = Total(rans'.value.pr_stats)
        \/ touched
<1>1. ASSUME ReferencesHeld, ReaderHeld, ReadNext PROVE AddUp
  <2>1. CASE GetTeam
    BY <2>1 DEF GetTeam, Take
  <2>2. CASE CheckUser
    BY <2>2 DEF CheckUser, Take
  <2>3. CASE ListReviews
    BY <1>1, <2>3 DEF ListReviews, ReaderHeld
  <2>4. CASE PRStats
    <3>1. rans'.value.user_stats = users /\ rans'.value.pr_stats = GetPRAssignmentStats(db)
      BY <2>4 DEF PRStats, Respond, Found
    <3>2. Total(GetPRAssignmentStats(db)) = Cardinality(Assigned(db))
      BY <1>1, PRsCounted DEF ReferencesHeld, RowsAnchored
    <3>3. touched \/ Total(users) = Cardinality(Assigned(db))
      BY <1>1, <2>4 DEF PRStats, ReaderHeld
    <3> QED
      BY <3>1, <3>2, <3>3
  <2>5. CASE Write \/ UserStats \/ ReadFails \/ Deliver
    BY <2>5 DEF Write, UserStats, ReadFails, Deliver, Replies
  <2> QED
    BY <1>1, <2>1, <2>2, <2>3, <2>4, <2>5 DEF ReadNext
<1>2. ReferencesHeld /\ ReaderHeld /\ [ReadNext]_<<vars, readVars>>
        => [AddUp]_<<vars, readVars>>
  BY <1>1
<1> QED
  BY <1>2, ReaderInvariance, ReadersWritersSpec, ReferencesInvariance, PTL
     DEF ReadSpec, StatsAddUp
==============================================================================
