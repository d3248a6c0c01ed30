# Verification of the reviewer assignment service

TLA+ models, TLC runs and TLAPS proofs for the service in this repository: a Go
HTTP server over PostgreSQL that assigns reviewers to pull requests, replaces
them, and keeps teams and the active flag of users.

Contents: [Inventory](#inventory) · [Modules](#modules) ·
[The model of PostgreSQL](#the-model-of-postgresql) ·
[From code to actions](#from-code-to-actions) · [Runs](#runs) ·
[Fairness](#fairness) · [Findings](#findings) · [Proofs](#proofs) ·
[Bounds](#bounds) · [Not modelled](#not-modelled) · [Plan](#plan)

## Inventory

### Components

| component | code | state | operations |
|---|---|---|---|
| storage schema, queries | `deployments/init.sql`, `internal/repos` | tables `teams`, `users`, `pull_requests`, `reviewers` | the SQL statements behind the endpoints |
| pull request service | `services/pr`, `repos/pr` | none of its own; results of one statement kept in Go variables until the next | `Create`, `Merge`, `ReassignReviewer` |
| team service | `services/team`, `repos/team` | the assignments collected over the members of a request | `Create`, `DeactivateTeamMembers`, `Get` |
| user service | `services/user`, `repos/user` | the assignments of one handover | `SetActive`, `GetReviews` |
| statistics service | `services/stats`, `repos/stats` | none | `GetAssignmentsStats`: two reads, no transaction |
| transaction manager | `storage/transactor` | the `pgx.Tx` in the context | `Run`: begin, function, commit or deferred rollback; `GetQueryEngine` |
| connection pool | `storage/postgres` | pgx connections | acquire, release, close |
| HTTP server and process | `server`, `cmd/pr-assignment` | the `http.Server`, the signal channel | start, wait for a signal or an error, shut down |
| generated HTTP layer | `internal/api` | none between requests | route, decode, validate, call, encode |
| load test, end-to-end tests | `cmd/loadtest`, `tests` | counters of answers | call the API through the generated client |
| configuration, logger, middlewares, health | `config`, `logger`, `middlewares`, `handler/health.go` | read once at start | – |

### Interaction

`net/http` gives every request a goroutine.  The generated layer decodes and
validates it and calls a handler, which calls one service method.  A writing
service method (except `Merge`) passes a function to `transactor.Run`; the
repositories find the transaction in the context and send their statements on
its connection.  Services call each other's repositories: `user.SetActive` and
`team.Create` hand reviews over with the queries of `repos/pr`.  Goroutines
share the database and the pool of connections to it.  A request holds one
connection while a statement runs, or, under `transactor.Run`, from `Begin` to
`Commit` or `Rollback`.  `main` starts one goroutine that serves HTTP, waits for
its error or a signal, stops the server, and closes the pool last.  The load test
and the end-to-end tests call the API through the generated client, made from
the same document as the server.

### Where it is hard

* **Read, then write.**  No statement locks what it reads (`FOR UPDATE` occurs
  nowhere) and the isolation level is PostgreSQL's default, READ COMMITTED.
  Whatever a service has chosen in one statement (candidates, reviewers,
  existence, status) may be out of date in the next.
* **Lock waits inside a statement.**  An `UPDATE` or `DELETE` that waits goes
  on with the newest version of a row, evaluating its `WHERE` again on that
  row but not its sub-queries and joins.
* **Lock order.**  `CreateTeam` locks `reviewers` rows before `users` rows,
  `SetActive` the other way round; batches lock in the client's order.
* **No transaction around `Merge`.**  Its three statements commit one by one.
* **Half-done work.**  Errors, cancelled contexts and lost connections between
  two statements; a `COMMIT` that took effect but whose answer was lost.
* **Long sequences.**  Moving users between teams leaves reviewers whose team
  is no longer the author's, and the two replacement queries look in
  different teams.

* **Two statements, one answer.**  Statistics and the list of reviews are read by
  two statements without a transaction, with commits between them.
* **A pool at its limit.**  More requests than connections: a request that held
  one and asked for another could wait for ever; one that kept a connection on
  an error path would block `pool.Close`, and with it the exit.
* **Stopping.**  A signal may come before the server has been assigned, before
  it listens, with requests in progress or waiting for a connection; the
  shutdown timeout races their ends.
* **Two ends of a wire.**  The client validates answers that the server encodes
  without validating; requests and responses get lost, and `net/http` repeats
  idempotent requests.

What makes each component correct: the store keeps references, uniqueness,
and history; the pull request service never assigns an author, an inactive user
or a third reviewer, and leaves merged pull requests alone; the team and user
services take people off reviews when they go; the transaction manager leaves
nothing behind after a failure and answers every request; reads answer what is
committed; every connection goes back to the pool; a graceful stop drops nobody
and a signal ends the process; a call over the wire is a call of the service.
Every hazard is
listed with its line and its properties under `hazards` in `PROJECT.json`.

## Modules

| module | what it is |
|---|---|
| `ReviewStore` | the schema and every query of the writing endpoints, as operators on one snapshot |
| `AssignmentApi` | the requests and answers of the writing endpoints |
| `AssignmentService` | the writing endpoints, statement by statement and row by row, as concurrent workers on one database |
| `EndpointOutcomes` | what each writing endpoint makes of a database nobody else changes: the set of its outcomes |
| `AtomicService` | the writing endpoints as single atomic operations with these outcomes: what the service promises a client who is alone |
| `LoneClient` | what keeps the promises to a client who is alone (`LoneHeld`) |
| `SerialClient` | the refinement mapping from one worker of `AssignmentService` to `AtomicService`, and its invariant (`OnCourse`) |
| `RequestWindow` | `AssignmentService` with history variables: what a request could have read since it was sent |
| `ReadService` | the reading endpoints beside the writing ones, statement by statement |
| `ServerLifecycle` | the process from start to exit: `run()`, the goroutine that serves, the requests, and the connections they share |
| `JsonCodec` | how generated types are encoded to JSON and decoded, as rules over descriptions of types |
| `ApiTypes` | the types of `internal/api` as such descriptions, and their `Validate` methods |
| `ApiTransport` | requests and responses: what the client sends and understands, what the server decodes and encodes |
| `ApiServer` | router and handlers, and the answers each service can give |
| `HttpExchange` | calls over a network that loses messages, by the generated client and by others |
| `RemoteCall` | the abstract specification of one call: at most one run, and its answer or nothing |
| `AssignmentProofs` | types, locks, authors, history and foreign keys, for any number of workers; the lemmas on steps the next five build on |
| `OutcomeProofs`, `WindowProofs` | what granted answers say; how old the data is that a request acts on |
| `LoneProofs`, `SerialProofs` | the promises to a lone client; the refinement of `AtomicService` |
| `ReadProofs` | the reading endpoints |
| `LifecycleProofs` | the theorems about `ServerLifecycle` |
| `HttpProofs` | the theorems about `HttpExchange`, and that it implements `RemoteCall` |
| `Scenarios` | databases and requests for TLC |
| `MCService`, `MCWindow`, `MCReads`, `MCLifecycle`, `MCHttp` | instances for TLC |

Three groups do not extend one another, since they abstract from each other's
state: `ReviewStore` … `ReadService` have rows and no connections,
`ServerLifecycle` has connections and no rows, `JsonCodec` … `HttpExchange` have
messages, and of the database only the names it has stored.

A definition whose comment starts with `Mutant:` is not part of the model: it is
a plausible bug in the code of the definition that follows it, and each property
of a passing run is violated when the mutant takes that definition's place
(`mutants` in `PROJECT.json`).

## The model of PostgreSQL

The database `db` is one function from primary keys to rows, with `Absent` for a
key without a row.  A transaction `tx[w]` holds the rows worker `w` has written.
`See(w)`, the committed rows under the own writes, is what a statement of `w`
reads: at READ COMMITTED each statement takes a new snapshot.

* A row is locked by the transaction that has written it (`Free`), until it
  ends.  The same holds for a key being inserted: a second `INSERT` of the key
  waits.
* A statement that writes several rows chooses them from its snapshot
  (`Choose`) and then locks and writes them one at a time, in any order
  (`WriteRow`), while other transactions run between two rows.  Each row is
  looked at again in its newest version: `DeactivateRow` evaluates `WHERE`
  again, `AddRow` skips an existing key, a removed row is skipped by a `DELETE`
  or `UPDATE` that waited for it (`Publish` takes it out of `todo`).
* A cycle of lock waits is broken by an error for one of its members
  (`DeadlockAbort`; `WaitsFor` is the wait graph of one worker, `Deadlocked` a
  cycle through it).
* Foreign key checks take KEY SHARE locks.  They do not conflict with updates
  of non-key columns, and the service deletes no team, user or pull request, so
  they never wait and never fail.

What a single read sees is one snapshot, so a query that only reads is one
step.  The model was written for this service's statements, not for SQL: it has
no phantom or serialization machinery because READ COMMITTED has none.

## From code to actions

Worker `w` is a goroutine.  `pc[w]` names the statement, or the row lock within a
statement, that comes next.  `req[w]` is the request, `res[w]` the answer,
`items[w]` the assignments kept in Go memory, `idx[w]` the loop index over
members, `todo[w]` the rows a running statement has still to write, `seen[w]` the
teams in the snapshot `SetActive`'s `UPDATE` joins with.

| endpoint | steps |
|---|---|
| `POST /users/setIsActive` | `SetActive` → `LockUser` → (`FindCandidates` → `Remove`, `RemoveRow`\*, `Removed` → `Add`, `AddRow`\*, `Added`) → `Commit` |
| `POST /team/add` | for each member: `FindCandidates` [→ `Remove`, `RemoveRow`\*, `Removed`]; then `InsertTeam` → `UpsertUser`\* → `Add`, `AddRow`\*, `Added` → `Commit` |
| `POST /team/deactivate` | `Deactivate`, `DeactivateRow`\*, `Deactivated` [→ `TeamExists`] → `RemoveTeam`, `RemoveRow`\*, `Removed` → `Commit` |
| `POST /pullRequest/create` | `Pick` [→ `AuthorExists`] → `InsertPR` → `Add`, `AddRow`\*, `Added` → `Commit` |
| `POST /pullRequest/merge` | `Merge` [→ `MergeExists`] → `GetMerged`, each committed by itself |
| `POST /pullRequest/reassign` | `Reassign` → `LockOld` → `LockNew` → `GetReassigned` → `Commit` |

Any step of these may become `Fail` (rollback and an error answer), by its own error path,
by `DeadlockAbort` or by `Cancel` (context ended, connection lost).  `CommitLost`
commits and answers 500.

**Reading endpoints** (`ReadService`).  `GET /team/get` is `GetTeam`; `GET
/users/getReview` is `CheckUser` → `ListReviews`; `GET /stats/assignments` is
`UserStats` → `PRStats`.  Each is one statement on the rows committed at that
moment; `Write`, a step of `AssignmentService`, comes between any two.

**The process** (`ServerLifecycle`).  `main` is the place of `run()`: `Connect` →
`Notify` → `SelectError` or `SelectSignal` → `ShutdownDone` or `ShutdownTimeout` →
`ClosePool` → `Exit`.  The goroutine of `Start` is `Assign` → `Listen`, and `Crash`.
`SelectSignal` reads `httpServer` without synchronisation: before `Assign` it is
nil, after it the reader may still see nil, so the panic is possible in both.  A
signal before `Notify` kills the process, as Go's default is.  A request is
`Accept` → (`Ask` → `Grant`) for `Begin` or for a statement outside a
transaction → `Query` per statement → `Commit`; `Fail` may come at any point
(database error, cancelled context, also while waiting), `Refuse` when the pool
is closed.  `FromPool` is `GetQueryEngine`; `Held` is what the deferred
`Rollback` and `rows.Close` give back.

**The wire** (`ApiTypes` … `HttpExchange`).  A JSON value is tagged with its kind; a
body is the sequence of values in it, so that an empty body, trailing data and
a value that is no JSON are different bodies.  Every type of `internal/api` is a
description that `JsonCodec` encodes, decodes (unknown, missing, repeated, null
and misplaced fields included) and `ApiTypes` validates.  The router, the ten
handlers, every `encodeX`/`decodeX` of requests, parameters and responses have
their own names.  `Call` sends what the client sends; `Probe` sends a message
that differs from it in one respect (method, path, content type, query, or any
of some dozen ways to spoil a body); `Serve` is the whole server; `Lose` loses the
request or the response; `Resend` is what `net/http` does with a `GET` when a kept
connection fails; `Receive` is the client's decoding.

## Runs

| run | instance | shows |
|---|---|---|
| `races` | 2 workers, 3 requests out of 9, 1 fault, 4 users in a team and one unknown | what survives every interleaving: `TypeOK`, `NoSelfReview`, `RowsAnchored` (references), `HistoryStands` (nothing is lost, a merge is final and idempotent), `CreatedOnce`, `ReassignSwaps` (one out, one in), `NewPRWithinAnswer` and `AnswerLacksOnlyIdle` (the answer to a creation lists every reviewer, and besides them only who has been inactive during the request), `ActsWithinWindow` (a request may act on outdated data, never on data older than itself), `NotFoundUnlessMoved` (404 only for what was not there when the request was taken, but for `SetActive` of a user moved meanwhile, finding 5); and the inductive invariants of their proofs: `Inductive`, `ReferencesHeld`, `AnswersHeld`, `WindowHeld` |
| `answered` | 2 workers, 2 requests out of 8, 1 fault, weak fairness | `EveryRequestAnswered`: no request hangs on a lock or a lock cycle |
| `serial` | 1 writing worker, 4 requests out of 15, from nothing and from a team of four, 1 fault; 1 reader, any number of 3 requests between the writer's statements | `SerialIsAtomic`: the statement-by-statement code refines `AtomicService`; and the promises of the documentation that hold for a lone client: `AtMostTwo`, `MergedReviewersFrozen`, `NewReviewersActive`, `DeactivatedStepDown`, `HandoverKeepsNumber`; and of reads `ReadsUpToDate` (what is committed at the last statement, 404 included) and `StatsAddUp` (both statistics count the same assignments, unless reviewers changed between the two statements); and the invariants of their proofs: `LoneHeld`, `OnCourse`, `ReaderHeld` |
| `lifecycle` | 3 requests of up to 2 statements, 2 connections; every end of the process | `ConnsAccounted`, `GracefulStop`, `PoolOutlivesServer`, and their inductive invariant `LifecycleInv`; `RequestsEnd`: nobody waits for a connection for ever; `SignalStops`: a signal ends the process, even when `Stop` panics |
| `http` | every operation, names at and beyond every limit, spoilt requests, lost messages, one repeated `GET` | `IsRemoteCall`: client, wire and server together implement `RemoteCall`; `ValidCallsUnderstood`: an admitted call is run and its answer understood, whatever names others have stored; `NamesFitColumns`: validators and column widths agree; `LoadTestCountsStatus`; and the invariant of their proofs, `ExchangeInv` |
| `bad_requests` | the same | a client that gets a 400 does not understand it |
| `merged_changes`, `three_reviewers`, `inactive_assigned` | 2 workers, 2 requests | three promises of the documentation that `serial` shows for one client fail when two requests overlap: `MergeProtects`, `TwoReviewersAtMost`, `InactiveNotAssigned` |
| `merge_answers_open`, `moved_not_found` | 2 workers, 2 requests | two answers that are not true: a merge that is none, a user not found who is there |
| `mover_stays` | 1 worker, 1 request, a team of three and one of five | a sentence of the documentation the code does not follow |

`SerialIsAtomic` maps the program counter to three stages.  A request is `pending`
until its commit, and `free` after it; between the `UPDATE` of a merge and its
last read it is `applied`.  A request that fails maps to `Break`, a lost commit
to an effect with an error answer.

## Fairness

`FairSpec` adds weak fairness of `Serve(w)` for every worker: a goroutine whose
statement can go on is eventually scheduled, and so is the PostgreSQL backend
behind it.  `Serve` contains `DeadlockAbort`, since PostgreSQL's deadlock
detector runs after `deadlock_timeout` in every waiting backend.  A statement
waiting for a row is not enabled, and nothing is assumed about it.  No fairness
is assumed for `Begin` (clients need not come), `Cancel` and `CommitLost`.
Strong fairness is not needed: a worker waits only for transactions in progress,
and the number of requests is finite.

`ServerLifecycle`'s `FairSpec` assumes weak fairness of each request's own steps
(a goroutine runs, and PostgreSQL answers a statement), of the pool (a free
connection goes to the first that waits), of the serving goroutine and of
`run()`.  Nothing is assumed of `Accept`, `Fail`, `Crash` and `Signal`.
`ShutdownTimeout` is one of `run()`'s steps, which stands for the timer of
`context.WithTimeout`.  Weak fairness is enough because the queue is first come
first served and a request in it stays in it until it is served, fails or is
refused.

## Findings

1. **A merged pull request changes** (`merged_changes`).  `SetActive(false)`
   picks a handover for an open pull request, `Merge` commits, the `DELETE` and
   `INSERT` of the handover go on: `RemoveReviewerFromOpenPRs` checks the status
   only in its snapshot, `AddReviewers` not at all.
2. **Three reviewers** (`three_reviewers`).  A handover and a reassignment
   replace the same reviewer; the `DELETE` finds no row, the `INSERT` adds the
   second replacement.
3. **An inactive reviewer** (`inactive_assigned`).  `AddReviewers` checks
   `is_active` in its snapshot without locking the user.
4. **A merge answers OPEN** (`merge_answers_open`).  `Repo.Merge` is not in a
   transaction; a pull request created between its `UPDATE` and its existence
   check is answered as merged, with status `OPEN`.
5. **An existing user is not found** (`moved_not_found`).  `SetActive` joins `teams`
   in the snapshot of its `UPDATE`, and waits there for a `CreateTeam` that moves the
   user into the team it creates: no row, 404, for a user who is there all along.
   `NotFoundUnlessMoved` admits this case and no other.
6. **A moved member stays** (`mover_stays`).  `Service.Create` of teams removes a
   reviewer only if there is a candidate; the documentation says the reviewer
   is removed when there is none.  On the team of five the same property breaks
   in a second way: candidates are collected member by member before anybody is
   moved, so the second member of a request may take over from the first and is
   then moved, too.  `AtomicService` has both as outcomes, so `SerialIsAtomic` shows
   only that concurrent statements add nothing to them.
7. **A 400 nobody understands** (`bad_requests`).  `server.New` makes the server
   without an error handler of its own, so a request refused by decoding or
   validation gets ogen's default body, `{"error_message": …}`.  The document
   promises an `ErrorResponse`; the generated client cannot decode what comes, and
   its caller gets an error in the place of `…BadRequest`.

Remarks, seen on the way and shown by no run of their own:

* `Repo.Create` of pull requests answers with the reviewers picked, also those
  `AddReviewers` has skipped because they were deactivated since.
  `AnswerLacksOnlyIdle` says that nobody else is missing.
* `Reassign` takes the candidate from the author's team, where openapi.yaml says the
  reviewer's; they differ when the reviewer has been moved
  (`ReassignCandidates`).
* `GetAssignmentStats` is the only service that returns a Go error in the place of
  its documented 500 answer; the default error handler turns it into a body the
  client cannot decode (the exception in `ValidCallsUnderstood`).

## Proofs

Eight modules hold theorems.  TLC has checked every statement first, the
inductive invariants included, as invariants of the runs.

| module | theorem | statement | for |
|---|---|---|---|
| `AssignmentProofs` | `Invariance` | `Spec => []Inductive` | any number of workers |
| | `TypeCorrect` | `Spec => []TypeOK` | |
| | `AuthorsStayApart` | `Spec => []NoSelfReview` | |
| | `HistoryIsKept` | `Spec => HistoryStands` | |
| | `ReferencesInvariance` | `Spec => []ReferencesHeld` | |
| | `ReferencesStayAnchored` | `Spec => []RowsAnchored` | |
| `OutcomeProofs` | `AnswersInvariance` | `Spec => []AnswersHeld` | any number of workers |
| | `CreationsUnique` | `Spec => CreatedOnce` | |
| | `ReassignmentSwaps` | `Spec => ReassignSwaps` | |
| | `NewPRsWithinAnswer` | `Spec => NewPRWithinAnswer` | |
| `WindowProofs` | `WindowInvariance` | `WindowSpec => []WindowHeld` | any number of workers |
| | `RequestsActWithinWindow` | `WindowSpec => ActsWithinWindow` | |
| | `AnswersLackOnlyIdle` | `WindowSpec => AnswerLacksOnlyIdle` | |
| | `NotFoundMissingOrMoved` | `WindowSpec => NotFoundUnlessMoved` | |
| `LoneProofs` | `LoneInvariance` | `Spec => []LoneHeld` | one worker, initial databases within the limit |
| | `LimitKept` | `Spec => []AtMostTwo` | |
| | `MergedStayFrozen` | `Spec => MergedReviewersFrozen` | |
| | `NewcomersActive` | `Spec => NewReviewersActive` | |
| | `DeactivationCompletes` | `Spec => DeactivatedStepDown` | |
| `SerialProofs` | `StaysOnCourse` | `Spec => []OnCourse` | one worker |
| | `SerialRefinesAtomic` | `Spec => SerialIsAtomic` | |
| | `HandoversKeepNumber` | `Spec => HandoverKeepsNumber` | |
| `ReadProofs` | `ReadersWritersSpec` | `ReadSpec => Spec` | any number of workers |
| | `ReaderInvariance` | `ReadSpec => []ReaderHeld` | |
| | `ReadsFollowCommits` | `ReadSpec => ReadsUpToDate` | |
| | `StatsAgree` | `ReadSpec => StatsAddUp` | |
| `LifecycleProofs` | `LifecycleInvariance` | `Spec => []LifecycleInv` | any number of requests, statements, connections |
| | `NoConnLeaks` | `Spec => []ConnsAccounted` | |
| | `GracefulStopAnswersAll` | `Spec => []GracefulStop` | |
| | `PoolClosesLast` | `Spec => []PoolOutlivesServer` | |
| | `LifecycleTypes` | `Spec => []TypeOK` | |
| `HttpProofs` | `ExchangeConsistent` | `Spec => []ExchangeInv` | any ids, names, texts, arguments, repeated reads |
| | `CallsUnderstood` | `Spec => ValidCallsUnderstood` | |
| | `NamesFit` | `Spec => []NamesFitColumns` | |
| | `LoadTestHonest` | `Spec => LoadTestCountsStatus` | |
| | `ImplementsRemoteCall` | `Spec => IsRemoteCall` | |

They hold for any number of users, teams, pull requests, team members, requests
and faults, and of the wire for any such messages.  Assumptions on the constants,
which TLC checks on the instances: `AbsentIsNoRow` and `UnwrittenIsNoRow` (the two special values are no
rows); `UsersFinite` and `PRsFinite` (ids are UUIDs; without them `Cardinality`
says nothing); `RequestsTyped` and `ReadsTyped`; `BoundsAreNat`; `StartsWell` (the
service starts on a database it left behind: typed, with references and authors
in order); of the life cycle `NoneIsNoConn` and `BoundIsNat` (`SomeConns` is needed
by the liveness runs only); of the wire `IdsAndTimes` (the canonical text of
an id is read as that id, and the texts of two seconds differ),
`SlugsAreLabels` (the characters of a team name may be in a user's),
`ArgsGiven` and `ArgsTyped` (the client's methods take Go values of their
parameter types), and `AdmittedByOpenApi` (what the schemas of the document
admit).

### Authors and history (`AssignmentProofs`)

A candidate is compared with the author in one statement and written in another.
Between them the assignment is only in Go memory or in `todo`.  `Inductive` says
what the handler relies on meanwhile:

* `ItemsApart`: an assignment in memory never pairs a pull request with its
  author, as the transaction sees it (or, before the pull request is inserted,
  as the request names it);
* `TodoInTable`, `FoundStays`, `AtMember`, `OnItsWay`: the rows a statement has
  still to write are of its table and come from those assignments, and what an
  earlier statement found is there;
* `ViewsApart`: every transaction sees authors and reviewers apart, since its
  view is what its commit will publish;
* `LocksExclusive`, `WritesLast`: a row is written by one transaction; teams,
  users and pull requests are never deleted, and a pull request row is written
  by an insert only where no row is committed.

The argument has two hinges.  *What has been seen stays* (`CommittedStays`,
`SeenStays`): no step takes a team, user or pull request out of any view, or
changes an author.  So a comparison once made stays valid.  *Views fit together*
(`ViewsStep`): when `w` commits, a reviewer row it publishes appears in the view of
`v`; `v` sees the author `w` saw, because `v` cannot have written the row of a pull
request that is committed now.  `Shapes` reduces the actions to five effects
on rows, so these arguments are made once per effect, and `OwnSettled` has one
step per action.  `HistoryIsKept` is an action property that follows from
`CommittedStays` in every state that satisfies `Inductive`.

### References (`AssignmentProofs`, from Part 9)

That the committed rows are anchored is not inductive: a commit publishes what a
transaction has written, so every view has to be (`ViewsAnchored`), and a row is
written steps after the row it refers to was found, so that one has to be there
still (`ReferentsFound`).  Both hinges serve again: nothing is deleted from the
tables referred to, and a view gains what others publish.  The KEY SHARE locks of
foreign keys, which the model leaves out, are therefore never what keeps a
reference.

### Granted answers (`OutcomeProofs`)

An answer is decided on a snapshot and given with the commit.  `AnswersHeld` says
what keeps it true: before its first write a transaction holds nothing
(`HoldsNothing`), a created row stays locked (`CreationHeld`), `CreatePR` writes
only those it picked (`PickKept`), and a reassignment holds the old reviewer's
row as deleted and the new one's as inserted, over committed rows that say the
opposite (`SwapHeld`).  `CommittedUnderLock` (nothing is committed under a lock) and
`CommitSkips` (a commit takes the rows it has deleted out of the `todo` of those who
wait) carry it past the steps of other workers.

### The window of a request (`WindowProofs`)

Two workers can act on outdated data; `WindowHeld` bounds how outdated.  What a
transaction sees it has seen since it was taken, what it has in memory or in
`todo` came from there (`SeenInWindow`, `WritesInWindow`), and what it has missed was
missing when it was taken (`MissesInWindow`), because teams, users and pull
requests only ever appear.  `LeavesOutIdle` keeps account of the reviewers `CreatePR`
has picked: written, about to be, or seen inactive.  So a check that finds nothing is right about the moment
the request was taken.  `LockUser` is the one step that looks at two moments at once,
a row that is newer than the teams it is joined with, and the one exception in
`NotFoundUnlessMoved` (`MovedMeanwhile`).

### One client at a time (`LoneProofs`, `SerialProofs`)

The hypothesis `Workers = {w}` is what these theorems are about, and it cannot be
dropped: the runs `three_reviewers`, `merged_changes` and `inactive_assigned` are
the counterexamples with two workers.  `LoneProofs` asks in addition that the
initial databases have at most two reviewers per pull request, which `LimitKept`
gives of the database such a service leaves behind.  `LoneHeld` counts, for each
pull request, the reviewers who stay and those to come
(`RoomHeld`); that there is room for the latter rests on who takes over not
reviewing yet (`ItemsNew`), that a merged pull request is left alone on `OnlyOpen`,
and that nobody inactive is added on `AddsActive`: the users are rewritten before,
never after.

The refinement needs to know the whole view of the request at every statement,
not only some of its rows.  `OnCourse` gives it: after each statement the view is a
stage between the committed database and one of the outcomes in
`EndpointOutcomes`; within a statement, the new rows outside `todo` and the old
ones in it (`Between`).  There is one lemma per action.  For `CreateTeam` the
stages are those of the loop over the members: `HandedOver` is a recursive
function, `HandoversFollow` shows that it satisfies its recursion (by `NatMinimum`
there is no least number of members without a solution), and `Enlist` is built up
member by member.  `SerialRefinesAtomic` then has a case per action: `Begin` is
`Submit`, `Commit` and the `UPDATE` of a merge are `Apply`, `GetMerged` is `Reply`,
faults are `Break`, everything else stutters; a refusal is an outcome of the
database it was decided on, which is still the committed one.
`NeverDeadlocked`: a lone request never waits.  `HandoversKeepNumber` counts in the
outcome of `SetActive` that `OnCourse` gives.

### Reading (`ReadProofs`)

The reader writes nothing, so all invariants of the writers hold beside it
(`ReadersWritersSpec`).  `ReaderHeld` says what stays true between its two
statements: the user found is there, and the sum of the first list is the number
of committed assignments unless a commit has changed reviewers.  `SizesAddUp`
turns a sum of sizes into the size of a union (`TotalIs` does it for the fold, by a
least counterexample); both lists split the same set of assignments,
`UsersCounted` by user and `PRsCounted` by pull request, and lose none since
references hold.

### The process (`LifecycleProofs`)

`ConnsAccounted` alone is not kept: `Grant` would
overwrite a connection its request already holds.  `Holders` says that who waits
holds nothing, because a transaction's statements take its own connection, and
that a statement outside a transaction is the only other holder; `QueueWaits` that
who is in the queue waits, and once, so that `RemoveAt` in `End` takes a request
out for good (lemma `RemoveAtProperties`).  `GracefulStop` and `PoolOutlivesServer` need `Stages`:
`Stop` has closed the listener before `ShutdownDone` looks for requests, so none is
accepted after it; the pool is closed only after `run()` has decided how to return;
only a process that is gone drops requests.  There is one lemma per action of a
request, one for the three ways a request ends (`EndKeeps`), one for the steps of
`run()`, and one for the two ways the process goes (`DropKeeps`).

### The wire (`HttpProofs`)

`ExchangeInv` is what holds between any two messages.  The request in flight is
the one the caller made (`RequestMade`); every run of a service was made on it,
and a request that was read once is read again when `net/http` repeats it
(`RunsOfRequest`); the client is going to make of the response what the latest run
answered, or the response is a refusal and nothing has been run
(`ResponseOfRun`); and the database holds valid names only (`NamesValid`).  The
last part is what the others need and no call can see: the server does not
validate what it answers, so a name that got past a decoder would make the answer
to a later call of somebody else unreadable.

The proof rests on two lemmas.  `RequestsArrive`: what the client sends, the
router brings to the handler of the operation, and the handler reads what the
caller asked, or answers 400, and then the document does not admit it.
`AnswersUnderstood`: on a database with valid names, what a service answers is
written so that the client reads it again, instants in whole seconds.  Both come
down to the codec.  `JsonCodec` has no recursion: `EncodeIn` and `DecodeIn` are one
level of a type and call what they are given for the next, and five levels are
as deep as the types of `internal/api` go.  `ListRead` and `ObjectRead` say when a
list and an object are read, whatever the level; a lemma for each of the types
that cross the wire (`TeamThrough`, `PullRequestThrough`, …) then follows from those
of its fields.  `ErrorHandlerNotUnderstood` is the other half: no operation takes
the body of the default error handler for an answer, which `bad_requests` shows
to be a flaw and `ImplementsRemoteCall` needs.

`ImplementsRemoteCall` has a case per action: `Call` and `Probe` are `Ask`, `Serve` is
`Run` when it runs a service and a stutter when it refuses, `Resend` stutters,
`Lose` and `Receive` are `Return`.  That a run repeats only if it reads is the guard
`msg.method = "GET"` of `Resend`, carried by `ExchangeInv` to the second `Serve`, and
the router, which brings a `GET` to a reading operation only.

### Only model-checked

* `EveryRequestAnswered`, `RequestsEnd` and `SignalStops`: liveness under fairness
  needs `ENABLED`, which the provers do not have.

All other properties of the passing runs, every invariant and every action
property and both refinements, are proved.

## Bounds

* Two workers.  Every race found is between two requests.  A third request (the
  third of `races`) comes before or after, and shows what a later request
  meets.
* `MaxRequests` and `MaxFaults` bound the requests and faults of one behaviour;
  they appear in the guards of `Begin`, `Cancel` and `CommitLost`.
* Four or five users in one team: the author, two reviewers and one or two
  candidates, so that a candidate can be exhausted, chosen twice, or be the same
  for two requests.  Two teams: from and to.  Two pull requests: one that is
  there, one that is created.
* Two instants, so that a second merge could move `merged_at`.
* The initial databases are reachable: `TeamsReachable` in `MCService` derives
  them from the empty database with the outcomes of two requests
  (`EndpointOutcomes`).
* `races` uses the symmetry of workers: neither the specification nor the
  properties single one out.  The other runs use none (`answered` is a liveness
  property, `serial` has one worker).
* `lifecycle`: three requests on two connections are the least with one waiting
  behind another; two statements, so that a request asks the pool again, or
  not, after its first.  `MaxStatements` bounds the requests of a behaviour only
  in length; `Requests` in number.
* `http`: two users, one name of each kind the limits tell apart (the longest and
  shortest valid, one character more and less, a wrong character).  The database
  keeps names between calls, so a call meets what every earlier one could have
  stored.  `MaxRuns` is 2: one repetition of a `GET`.  A list in an answer holds at
  most one element (`AtMostOne`): elements are encoded, decoded and validated one
  by one, and lists of two and more cross the wire in the requests.
* Deadlock is checked in all runs but `lifecycle`, where the process really
  exits.  In the others `Terminating` is the only state of `AssignmentService`
  without a request to serve or to take; in `serial` the reader can always take
  a step, so that a stuck writer would show in `answered` and `races` only.

## Not modelled

Timestamps other than `merged_at` and the seconds JSON cuts off them; the text of
UUIDs beyond its several spellings; messages of errors.  Of the generated layer
tracing, metrics, options, `FindPath` and the middleware hooks, of which none is
installed; the static documentation pages.  Configuration, which is read once;
logging, request ids and the Recoverer, which keep no state.  The load test's
rate control and report and the end-to-end tests are clients whose state is not
the service's.  `MinConns` and `MaxConnLifetime` of the pool, which change when a
connection is opened, not who holds it.  Keep-alive connections without a
request: `Shutdown` closes them at once.  The nested `Manager.Run`, which no
service uses.

## Plan

Done: the store, the writing endpoints and their atomic specification; the
reading endpoints beside them; the life cycle of the process with its pool; the
generated client and server with their wire; and proofs of every safety property
of the passing runs, the refinements of `AtomicService` and `RemoteCall` included.

When the code changes: a new endpoint is a handler in `AssignmentService` or
`ReadService`, its outcomes in `EndpointOutcomes`, its answers in `ApiServer`, and a
case in `OwnSettled`, `OnCourseStep` and `AnswersUnderstood`; a new field of a schema
is a line in `ApiTypes` and in the lemma that brings the type across the wire.  The
runs that expect a violation are the findings: one that stops failing says that
the code has been repaired, and its property moves to `races`.
