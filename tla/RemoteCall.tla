------------------------------ MODULE RemoteCall ------------------------------
(***************************************************************************)
(* What a caller of the API is promised, whatever happens to messages: one *)
(* call makes the service run at most once (a call that only reads, which  *)
(* the transport may repeat, any number of times), on the very request     *)
(* that was made; and the caller is told what that run answered, or that   *)
(* it never ran, or nothing at all.                                        *)
(***************************************************************************)
EXTENDS Naturals, Sequences, SequencesExt

CONSTANT Calls    (* whose calls: by, reads, and of a client op and arg    *)

VARIABLES stage, asked, ran, told

vars == <<stage, asked, ran, told>>

Nobody       == [by |-> "nobody"]
Nothing      == [kind |-> "nothing"]
Refused      == [kind |-> "refused"]
Told(answer) == [kind |-> "answer", answer |-> answer]

\* What others than the client mean by their requests is anybody's guess.
Means(call, run) == call.by = "other" \/ (run.op = call.op /\ run.arg = call.arg)

Init == stage = "free" /\ asked = Nobody /\ ran = <<>> /\ told = Nothing

Ask ==
  /\ stage = "free" /\ stage' = "pending"
  /\ asked' \in Calls
  /\ told' = Nothing
  /\ UNCHANGED ran

Run ==
  /\ stage = "pending"
  /\ ran = <<>> \/ asked.reads
  /\ Len(ran') = Len(ran) + 1
  /\ ran' = Append(ran, Last(ran')) /\ Means(asked, Last(ran'))
  /\ UNCHANGED <<stage, asked, told>>

Return ==
  /\ stage = "pending" /\ stage' = "free"
  /\ \/ told' = Nothing
     \/ ran = <<>> /\ told' = Refused
     \/ ran # <<>> /\ told' = Told(Last(ran).answer)
  /\ asked' = Nobody /\ ran' = <<>>

Spec == Init /\ [][Ask \/ Run \/ Return]_vars
==============================================================================
