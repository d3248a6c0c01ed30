------------------------------ MODULE JsonCodec ------------------------------
(***************************************************************************)
(* How the generated types of internal/api are written to JSON and read    *)
(* back (oas_json_gen.go).  The generator writes one Encode and one Decode *)
(* per type, all by the same rules; here the rules are two operators, and  *)
(* a type is a description they follow.                                    *)
(*                                                                         *)
(* A Go object is a function from its field names to their values, without *)
(* the optional fields that are not set.  A nil slice and an empty one are *)
(* both <<>>: both are encoded as [], and Decode never leaves a nil.       *)
(***************************************************************************)
EXTENDS Naturals, Sequences, FiniteSets, SequencesExt

CONSTANTS
  UuidOf,   (* the UUID each text is read as, however it is spelled        *)
  Stamps    (* Stamps[s]: the text of second s, as RFC 3339 has it         *)

\* An instant counts halves of a second; the texts of instants do not.
Halves   == 2
NullTime == 0

(***************************************************************************)
(* JSON values, tagged with their kind.                                    *)
(***************************************************************************)
Str(s)      == <<"string", s>>
Num(n)      == <<"number", n>>
Bool(b)     == <<"bool", b>>
Null        == <<"null">>
Arr(js)     == <<"array", js>>
Obj(members) == <<"object", members>>  (* <<name, value>> by place, in their
                                          order; places may be left out    *)
Junk        == <<"junk">>             (* bytes that are not JSON           *)

(***************************************************************************)
(* Types: what a field may hold, and the objects with their fields in the  *)
(* order Encode writes them.                                               *)
(***************************************************************************)
Uuid               == [kind |-> "uuid"]
Text               == [kind |-> "text"]
GoInt              == [kind |-> "int"]
Flag               == [kind |-> "flag"]
NilDateTime        == [kind |-> "time"]
ListOf(elem)       == [kind |-> "list", elem |-> elem]
Object(go, fields) == [kind |-> "object", go |-> go, fields |-> fields]
Alias(go, type)    == [type EXCEPT !.go = go]
Needed(name, type) == [name |-> name, type |-> type, required |-> TRUE]
Opt(name, type)    == [name |-> name, type |-> type, required |-> FALSE]

The(S) == CHOOSE x \in S : TRUE

(***************************************************************************)
(* The Encode and Decode of a type call those of what it is made of: the   *)
(* last argument.                                                          *)
(***************************************************************************)
EncodeIn(type, v, Inner(_, _)) ==
  CASE type.kind \in {"uuid", "text"} -> Str(v)
    [] type.kind = "int"  -> Num(v)
    [] type.kind = "flag" -> Bool(v)
    [] type.kind = "time" -> IF v = NullTime THEN Null ELSE Str(Stamps[v \div Halves])
    [] type.kind = "list" -> Arr([i \in DOMAIN v |-> Inner(type.elem, v[i])])
    [] type.kind = "object" ->
         LET fields == type.fields
             set    == {i \in DOMAIN fields : fields[i].name \in DOMAIN v}
         IN  Obj([i \in set |-> <<fields[i].name, Inner(fields[i].type, v[fields[i].name])>>])

\* A list when reads[i] is what its element i was read as, {the element} or {}.
ListOfRead(reads) ==
  IF \A i \in DOMAIN reads : reads[i] # {} THEN {[i \in DOMAIN reads |-> The(reads[i])]} ELSE {}

\* An object when reads[i] is what its member i was read as: every member must
\* be readable, of two with one name the last is kept, and every required
\* field must be there.
ObjectOfRead(fields, members, reads) ==
  LET given     == {members[i][1] : i \in DOMAIN reads}
      Latest(n) == CHOOSE i \in DOMAIN reads :
                     /\ members[i][1] = n
                     /\ \A k \in DOMAIN reads : members[k][1] = n => k <= i
  IN  IF /\ \A i \in DOMAIN reads : reads[i] # {}
         /\ \A i \in DOMAIN fields : fields[i].required => fields[i].name \in given
        THEN {[n \in given |-> The(reads[Latest(n)])]} ELSE {}

\* {the value} of a JSON value, {} when it cannot be read as the type.  Members
\* that the type does not have are skipped.
DecodeIn(type, j, Inner(_, _)) ==
  CASE type.kind = "uuid" /\ j[1] = "string" -> {UuidOf[s] : s \in DOMAIN UuidOf \cap {j[2]}}
    [] type.kind = "text" /\ j[1] = "string" -> {j[2]}
    [] type.kind = "int"  /\ j[1] = "number" -> {j[2]}
    [] type.kind = "flag" /\ j[1] = "bool"   -> {j[2]}
    [] type.kind = "time" /\ j[1] = "null"   -> {NullTime}
    [] type.kind = "time" /\ j[1] = "string" ->
         {Halves * s : s \in {s \in DOMAIN Stamps : Stamps[s] = j[2]}}
    [] type.kind = "list" /\ j[1] = "array"  ->
         ListOfRead([i \in DOMAIN j[2] |-> Inner(type.elem, j[2][i])])
    [] type.kind = "object" /\ j[1] = "object" ->
         LET Field(n) == CHOOSE f \in Range(type.fields) : f.name = n
             known    == {i \in DOMAIN j[2] : \E f \in Range(type.fields) : f.name = j[2][i][1]}
         IN  ObjectOfRead(type.fields, j[2],
                          [i \in known |-> Inner(Field(j[2][i][1]).type, j[2][i][2])])
    [] OTHER -> {}

\* No type of internal/api is more than five deep (the names in the members of
\* the team that CreateTeamCreated holds).
Encode1(type, v) == EncodeIn(type, v, LAMBDA t, x : Null)
Encode2(type, v) == EncodeIn(type, v, Encode1)
Encode3(type, v) == EncodeIn(type, v, Encode2)
Encode4(type, v) == EncodeIn(type, v, Encode3)
Encode(type, v)  == EncodeIn(type, v, Encode4)

Decode1(type, j) == DecodeIn(type, j, LAMBDA t, x : {})
Decode2(type, j) == DecodeIn(type, j, Decode1)
Decode3(type, j) == DecodeIn(type, j, Decode2)
Decode4(type, j) == DecodeIn(type, j, Decode3)
Decode(type, j)  == DecodeIn(type, j, Decode4)
==============================================================================
