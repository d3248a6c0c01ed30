--------------------------- MODULE ServerLifecycle ---------------------------
(***************************************************************************)
(* The process from its start to its exit: run() of cmd/pr-assignment, the *)
(* goroutine that serves HTTP, the requests it serves, and the connection  *)
(* pool they share, which run() closes last (internal/server,              *)
(* storage/postgres, storage/transactor).  What the statements do to the   *)
(* database is AssignmentService's matter; here it is who holds a          *)
(* connection, and who waits for one, when the process is told to stop.    *)
(***************************************************************************)
EXTENDS Naturals, Sequences, FiniteSets, SequencesExt

CONSTANTS
  Requests,        (* requests the process may ever accept                 *)
  Conns,           (* MaxConns connections                                 *)
  None,            (* no connection                                        *)
  MaxStatements    (* statements of one request                            *)

ASSUME NoneIsNoConn == None \notin Conns
ASSUME SomeConns    == IsFiniteSet(Conns) /\ Conns # {}
ASSUME BoundIsNat   == MaxStatements \in Nat

VARIABLES
  main,      (* where run() is                                             *)
  code,      (* how run() is going to return: none yet, ok, error, panic;
                or killed, by a signal before anybody listens for it       *)
  srv,       (* the http.Server: unset, set, listening, down               *)
  crashed,   (* the error in serverErrors: "yes" or "no"                   *)
  signal,    (* the signal in the channel stop: "yes" or "no"              *)
  phase,     (* phase[r]: where request r is                               *)
  left,      (* left[r]: statements r has yet to execute                   *)
  work,      (* work[r]: "tx" when r runs in Manager.Run, "plain" if not   *)
  tx,        (* tx[r]: the connection of r's transaction                   *)
  own,       (* own[r]: the connection of r's statement outside one        *)
  idle,      (* connections in the pool                                    *)
  queue,     (* requests waiting for a connection, first come first served *)
  closed     (* has the pool been closed: "yes" or "no"                    *)

mainVars == <<main, code, srv, crashed, signal, closed>>
reqVars  == <<phase, left, work, tx, own, idle, queue>>
vars     == <<mainVars, reqVars>>

InProgress == {"begin", "ready", "waiting", "query", "commit"}
Ended      == {"answered", "failed", "refused"}
Phases     == {"none", "dropped"} \cup InProgress \cup Ended
Busy       == {r \in Requests : phase[r] \in InProgress}
Alive      == main # "exited"

Init ==
  /\ main = "connect" /\ code = "none" /\ srv = "unset"
  /\ crashed = "no" /\ signal = "no" /\ closed = "no"
  /\ phase = [r \in Requests |-> "none"]
  /\ left = [r \in Requests |-> 0]
  /\ work = [r \in Requests |-> "plain"]
  /\ tx = [r \in Requests |-> None] /\ own = [r \in Requests |-> None]
  /\ idle = Conns /\ queue = <<>>

(***************************************************************************)
(* Requests.                                                               *)
(***************************************************************************)
\* The server accepts a request; /health needs no statement, and a request for
\* a writing endpoint runs its statements in a transaction.
Accept(r, w, n) ==
  /\ srv = "listening" /\ Alive
  /\ phase[r] = "none"
  /\ phase' = [phase EXCEPT ![r] = CASE n = 0 -> "answered"
                                     [] n > 0 /\ w = "tx" -> "begin"
                                     [] n > 0 /\ w = "plain" -> "ready"]
  /\ left' = [left EXCEPT ![r] = n]
  /\ work' = [work EXCEPT ![r] = w]
  /\ UNCHANGED <<mainVars, tx, own, idle, queue>>

\* GetQueryEngine: the transaction of the context, or else the pool.
\* Mutant: always the pool.
AlwaysThePool(r) == TRUE
FromPool(r)      == tx[r] = None

\* r asks the pool for a connection: Begin, or a statement on the pool.
Ask(r) ==
  /\ Alive
  /\ phase[r] = "begin" \/ (phase[r] = "ready" /\ FromPool(r))
  /\ phase' = [phase EXCEPT ![r] = "waiting"]
  /\ queue' = Append(queue, r)
  /\ UNCHANGED <<mainVars, left, work, tx, own, idle>>

\* The pool gives the connection to the first that waits.
Grant(c) ==
  /\ Alive /\ closed = "no"
  /\ queue # <<>> /\ c \in idle
  /\ LET r == Head(queue)
         begins == work[r] = "tx" /\ tx[r] = None
     IN  /\ phase' = [phase EXCEPT ![r] = IF begins THEN "ready" ELSE "query"]
         /\ tx' = IF begins THEN [tx EXCEPT ![r] = c] ELSE tx
         /\ own' = IF begins THEN own ELSE [own EXCEPT ![r] = c]
  /\ idle' = idle \ {c} /\ queue' = Tail(queue)
  /\ UNCHANGED <<mainVars, left, work>>

\* A statement has been executed and its connection is back in the pool,
\* unless it is the transaction's.
Query(r) ==
  /\ Alive
  /\ phase[r] = "query" \/ (phase[r] = "ready" /\ ~FromPool(r))
  /\ left' = [left EXCEPT ![r] = @ - 1]
  /\ phase' = [phase EXCEPT ![r] = CASE left[r] > 1 -> "ready"
                                     [] left[r] <= 1 /\ work[r] = "tx" -> "commit"
                                     [] left[r] <= 1 /\ work[r] = "plain" -> "answered"]
  /\ own' = [own EXCEPT ![r] = None]
  /\ idle' = idle \cup ({own[r]} \ {None})
  /\ UNCHANGED <<mainVars, work, tx, queue>>

\* Mutant: without the deferred Rollback.
HeldByStatement(r) == {own[r]} \ {None}

\* Mutant: gives back what it never got.
HeldOrNot(r) == {tx[r], own[r]}

\* What r gives back to the pool at its end: rows.Close, and the deferred
\* Rollback of Manager.Run, which does nothing after a Commit.
Held(r) == {tx[r], own[r]} \ {None}

End(r, how) ==
  /\ phase' = [phase EXCEPT ![r] = how]
  /\ tx' = [tx EXCEPT ![r] = None] /\ own' = [own EXCEPT ![r] = None]
  /\ idle' = idle \cup Held(r)
  /\ \/ r \notin Range(queue) /\ queue' = queue
     \/ \E i \in DOMAIN queue : queue[i] = r /\ queue' = RemoveAt(queue, i)
  /\ UNCHANGED <<mainVars, left, work>>

Commit(r) == Alive /\ phase[r] = "commit" /\ End(r, "answered")

\* An error of the database, or the client is gone and the context cancelled,
\* while r waits too.
Fail(r) == Alive /\ phase[r] \in InProgress /\ End(r, "failed")

\* The pool is closed: who waits for a connection gets an error instead.
Refuse(r) == Alive /\ closed = "yes" /\ phase[r] = "waiting" /\ End(r, "refused")

(***************************************************************************)
(* The goroutine that runs Start.                                          *)
(***************************************************************************)
\* s.httpServer is assigned, no synchronisation with the reader in Stop.
Assign ==
  /\ Alive /\ main # "connect"
  /\ srv = "unset" /\ srv' = "set"
  /\ UNCHANGED <<main, code, crashed, signal, closed, reqVars>>

Listen ==
  /\ Alive /\ srv = "set"
  /\ \/ srv' = "listening" /\ crashed' = crashed
     \/ srv' = "down" /\ crashed' = "yes"
  /\ UNCHANGED <<main, code, signal, closed, reqVars>>

\* The listener fails for good.
Crash ==
  /\ Alive /\ srv = "listening"
  /\ srv' = "down" /\ crashed' = "yes"
  /\ UNCHANGED <<main, code, signal, closed, reqVars>>

(***************************************************************************)
(* run().                                                                  *)
(***************************************************************************)
Leave(how) == main' = "close" /\ code' = how

\* NewPool, within DBConnectTimeout; then the goroutine is started.
Connect ==
  /\ main = "connect"
  /\ \/ main' = "notify" /\ code' = code
     \/ main' = "exited" /\ code' = "error"
  /\ UNCHANGED <<srv, crashed, signal, closed, reqVars>>

Notify ==
  /\ main = "notify" /\ main' = "select"
  /\ UNCHANGED <<code, srv, crashed, signal, closed, reqVars>>

\* SIGTERM or SIGINT; a second one is dropped, the channel being full or
\* nobody reading it any more.
Signal ==
  /\ Alive /\ signal = "no"
  /\ IF main \in {"connect", "notify"}
       THEN main' = "exited" /\ code' = "killed" /\ signal' = signal
            /\ phase' = [r \in Requests |-> IF r \in Busy THEN "dropped" ELSE phase[r]]
       ELSE main' = main /\ code' = code /\ signal' = "yes" /\ phase' = phase
  /\ UNCHANGED <<srv, crashed, closed, left, work, tx, own, idle, queue>>

SelectError ==
  /\ main = "select" /\ crashed = "yes"
  /\ Leave("error")
  /\ UNCHANGED <<srv, crashed, signal, closed, reqVars>>

\* Stop reads s.httpServer: nil, and Shutdown panics, if Start has not assigned
\* it, or not for main to see; else the listener is closed, or never opened.
SelectSignal ==
  /\ main = "select" /\ signal = "yes"
  /\ \/ srv \in {"unset", "set"} /\ Leave("panic") /\ srv' = srv
     \/ srv \in {"set", "listening", "down"} /\ main' = "stop" /\ code' = code /\ srv' = "down"
  /\ UNCHANGED <<crashed, signal, closed, reqVars>>

\* Shutdown returns nil when no request is in progress.
Quiet == Busy = {}

ShutdownDone ==
  /\ main = "stop" /\ Quiet
  /\ Leave("ok")
  /\ UNCHANGED <<srv, crashed, signal, closed, reqVars>>

\* Mutant: the error of Stop is logged, and run goes on.
ShutdownTimeoutLogged ==
  /\ main = "stop"
  /\ Leave("ok")
  /\ UNCHANGED <<srv, crashed, signal, closed, reqVars>>

ShutdownTimeout ==
  /\ main = "stop"
  /\ Leave("error")
  /\ UNCHANGED <<srv, crashed, signal, closed, reqVars>>

\* Mutant: the pool is closed beside Stop.
ClosePoolEarly ==
  /\ main \in {"stop", "close"} /\ closed = "no" /\ closed' = "yes"
  /\ UNCHANGED <<main, code, srv, crashed, signal, reqVars>>

\* The deferred pool.Close, which waits for the connections in use.
ClosePool ==
  /\ main = "close" /\ closed = "no" /\ closed' = "yes"
  /\ UNCHANGED <<main, code, srv, crashed, signal, reqVars>>

Exit ==
  /\ main = "close" /\ closed = "yes" /\ idle = Conns
  /\ main' = "exited"
  /\ phase' = [r \in Requests |-> IF r \in Busy THEN "dropped" ELSE phase[r]]
  /\ UNCHANGED <<code, srv, crashed, signal, closed, left, work, tx, own, idle, queue>>

(***************************************************************************)
(* The specification.                                                      *)
(***************************************************************************)
Request(r) == Ask(r) \/ Query(r) \/ Commit(r) \/ Refuse(r)
Pool       == \E c \in Conns : Grant(c)
Serve      == Assign \/ Listen
Main       == Connect \/ Notify \/ SelectError \/ SelectSignal \/ ShutdownDone
                \/ ShutdownTimeout \/ ClosePool \/ Exit

Next ==
  \/ \E r \in Requests :
       \/ \E w \in {"tx", "plain"}, n \in 0..MaxStatements : Accept(r, w, n)
       \/ Request(r) \/ Fail(r)
  \/ Pool \/ Serve \/ Crash \/ Main \/ Signal

\* Statements are answered, the pool hands out what it has, and the goroutines
\* run; nobody is bound to send requests or signals, or to fail.
Fairness ==
  /\ \A r \in Requests : WF_vars(Request(r))
  /\ WF_vars(Pool) /\ WF_vars(Serve) /\ WF_vars(Main)

Spec     == Init /\ [][Next]_vars
FairSpec == Spec /\ Fairness

(***************************************************************************)
(* Properties.                                                             *)
(***************************************************************************)
TypeOK ==
  /\ main \in {"connect", "notify", "select", "stop", "close", "exited"}
  /\ code \in {"none", "ok", "error", "panic", "killed"}
  /\ srv \in {"unset", "set", "listening", "down"}
  /\ crashed \in {"yes", "no"} /\ signal \in {"yes", "no"} /\ closed \in {"yes", "no"}
  /\ phase \in [Requests -> Phases]
  /\ left \in [Requests -> Nat]
  /\ work \in [Requests -> {"tx", "plain"}]
  /\ tx \in [Requests -> Conns \cup {None}]
  /\ own \in [Requests -> Conns \cup {None}]
  /\ idle \subseteq Conns
  /\ queue \in Seq(Requests)

\* Who is in the queue waits, and is there once.
QueueWaits ==
  /\ Alive => \A i \in 1..Len(queue) : phase[queue[i]] = "waiting"
  /\ \A i, j \in 1..Len(queue) : queue[i] = queue[j] => i = j

\* Who holds a connection, and never while waiting for one: a transaction's
\* statements use its own; and who still has something to ask of it.
Holders ==
  \A r \in Requests :
    /\ phase[r] \in {"begin", "ready", "waiting", "query"} => left[r] > 0
    /\ own[r] # None => phase[r] \in {"query", "dropped"}
    /\ tx[r] # None => work[r] = "tx" /\ phase[r] \in {"ready", "commit", "dropped"}
    /\ phase[r] = "query" => work[r] = "plain"

\* How far main has come bounds what can have happened to the requests.
Stages ==
  /\ (code = "none") = (main \in {"connect", "notify", "select", "stop"})
  /\ main = "stop" => srv = "down"
  /\ code = "ok" => srv = "down" /\ Busy = {}
  /\ closed = "yes" => main \in {"close", "exited"}
  /\ main = "close" => code # "killed"
  /\ code = "killed" => closed = "no"
  /\ \A r \in Requests :
       /\ phase[r] = "refused" => closed = "yes"
       /\ phase[r] = "dropped" => main = "exited"

\* Every connection is in the pool or with exactly one request, which is still
\* in progress: no path through Manager.Run and the repositories, with errors
\* and cancellations at any statement, keeps one or gives one back twice.
ConnsAccounted ==
  /\ \A c \in Conns : c \in idle \/ \E r \in Requests : c \in Held(r)
  /\ \A r \in Requests : Held(r) \cap idle = {}
  /\ \A r, q \in Requests : r # q => Held(r) \cap Held(q) = {}
  /\ \A r \in Requests : Held(r) # {} => phase[r] \in InProgress \cup {"dropped"}

\* "server gracefully stopped" and exit code 0 (main.go:94) mean that every
\* request the server accepted has been answered, by its own outcome: none was
\* cut off and none found the pool closed.
GracefulStop ==
  code = "ok" => \A r \in Requests : phase[r] \in {"none", "answered", "failed"}

\* The pool is closed after the server has stopped: while main can still answer
\* with success, no request meets a closed pool (the deferred pool.Close of run).
PoolOutlivesServer ==
  (\E r \in Requests : phase[r] = "refused") => code \in {"error", "panic"}

\* What a connection is used for and what main is waiting for fit together at
\* every step of every request (Manager.Run, run): the inductive invariant.
LifecycleInv ==
  TypeOK /\ QueueWaits /\ Holders /\ Stages /\ ConnsAccounted /\ GracefulStop
    /\ PoolOutlivesServer

\* Every accepted request ends, or the process does: requests that share
\* MaxConns connections never wait for each other in a circle, since none
\* holds one while it asks for another (GetQueryEngine).
RequestsEnd ==
  \A r \in Requests : (phase[r] \in InProgress) ~> (phase[r] \notin InProgress)

\* A signal stops the process, whatever the requests are doing and even when
\* Stop panics: run() waits at most ShutdownTimeout for them and then for their
\* connections, which all come back.
SignalStops == (signal = "yes") ~> (main = "exited")
==============================================================================
