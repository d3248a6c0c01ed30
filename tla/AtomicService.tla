---------------------------- MODULE AtomicService ----------------------------
(***************************************************************************)
(* What the endpoints promise to a client who is alone: every request      *)
(* changes the database in one step, to one of its Outcomes, or not at     *)
(* all.  AssignmentService with a single worker implements this; with more *)
(* it does not, and the violation runs show where.                         *)
(***************************************************************************)
EXTENDS EndpointOutcomes

CONSTANTS Requests, InitialDBs, MaxFaults

VARIABLES db, stage, req, ans, faults

vars == <<db, stage, req, ans, faults>>

(***************************************************************************)
(* The stages of a request: "pending", its effect is to come; "applied",   *)
(* only the answer is; "free", there is none.                              *)
(***************************************************************************)
Broken == Answer("INTERNAL_ERROR", Absent)

Init ==
  /\ db \in InitialDBs
  /\ stage = "free" /\ req = NoRequest /\ ans = NoAnswer
  /\ faults = MaxFaults

Submit ==
  /\ stage = "free" /\ stage' = "pending"
  /\ req' \in Requests
  /\ ans' = NoAnswer
  /\ UNCHANGED <<db, faults>>

Apply ==
  /\ stage = "pending" /\ stage' \in {"applied", "free"}
  /\ [db |-> db', ans |-> ans'] \in Outcomes(db, req)
  /\ UNCHANGED <<req, faults>>

Reply ==
  /\ stage = "applied" /\ stage' = "free"
  /\ UNCHANGED <<db, req, ans, faults>>

\* A fault loses the answer, and the effect too unless it is there already.
Break ==
  /\ stage # "free" /\ stage' = "free"
  /\ faults > 0 /\ faults' = faults - 1
  /\ \/ db' = db
     \/ stage = "pending" /\ \E o \in Outcomes(db, req) : db' = o.db
  /\ ans' = Broken
  /\ UNCHANGED req

Next == Submit \/ Apply \/ Reply \/ Break

Spec == Init /\ [][Next]_vars
==============================================================================
