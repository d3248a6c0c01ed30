------------------------------ MODULE HttpProofs ------------------------------
(***************************************************************************)
(* What holds of HttpExchange for any names, ids, texts and arguments, and *)
(* any number of repeated reads.                                           *)
(*                                                                         *)
(* The invariant that carries the proof is ExchangeInv.  It stands on two  *)
(* facts about values.  What a caller asks arrives as it was, or is        *)
(* refused for a reason that openapi.yaml has too (RequestsArrive); and    *)
(* what a service answers, when the database holds nothing but valid       *)
(* names, the client understands, up to the fractions of seconds           *)
(* (AnswersUnderstood).  Both follow type by type from what Encode and     *)
(* Decode do to a list and an object, one level of nesting at a time.      *)
(*                                                                         *)
(* Part 1  lists and objects       Part 5  answers are understood          *)
(* Part 2  the types               Part 6  ExchangeInv                     *)
(* Part 3  requests are routed     Part 7  what a caller is promised       *)
(* Part 4  requests arrive         Part 8  RemoteCall is implemented       *)
(***************************************************************************)
EXTENDS HttpExchange, TLAPS

(***************************************************************************)
(* Part 1.  Lists and objects cross the network.                           *)
(***************************************************************************)
\* A set of one element has that element.
LEMMA TheOne == ASSUME NEW x PROVE The({x}) = x
  BY DEF The

\* A list is read when every element is.
LEMMA ListRead ==
  ASSUME NEW w, w = [i \in DOMAIN w |-> w[i]],
         NEW reads, reads = [i \in DOMAIN w |-> {w[i]}]
  PROVE  ListOfRead(reads) = {w}
<1>1. DOMAIN reads = DOMAIN w /\ \A i \in DOMAIN w : reads[i] = {w[i]}
  OBVIOUS
<1>2. \A i \in DOMAIN w : The(reads[i]) = w[i]
  BY <1>1, TheOne
<1>3. [i \in DOMAIN reads |-> The(reads[i])] = w
  BY <1>1, <1>2
<1>4. \A i \in DOMAIN reads : reads[i] # {}
  BY <1>1
<1> QED
  BY <1>3, <1>4 DEF ListOfRead

\* The value v of an object type and what arrives of it have the fields that the
\* type allows and requires.
Fits(fields, v, w) ==
  /\ DOMAIN fields \subseteq Nat
  /\ \A i, k \in DOMAIN fields : fields[i].name = fields[k].name => i = k
  /\ \A i \in DOMAIN fields : fields[i].required => fields[i].name \in DOMAIN v
  /\ \A n \in DOMAIN v : \E i \in DOMAIN fields : fields[i].name = n
  /\ DOMAIN w = DOMAIN v
  /\ w = [n \in DOMAIN w |-> w[n]]

\* The places of the fields of v that are set.
SetPlaces(fields, v) == {i \in DOMAIN fields : fields[i].name \in DOMAIN v}

\* An object is read when every member is.
LEMMA ObjectRead ==
  ASSUME NEW fields, NEW v, NEW w, Fits(fields, v, w),
         NEW members, DOMAIN members = SetPlaces(fields, v),
         \A i \in SetPlaces(fields, v) : members[i][1] = fields[i].name,
         NEW reads, DOMAIN reads = SetPlaces(fields, v),
         \A i \in SetPlaces(fields, v) : reads[i] = {w[fields[i].name]}
  PROVE  ObjectOfRead(fields, members, reads) = {w}
<1> DEFINE given == {members[i][1] : i \in DOMAIN reads}
           Latest(n) == CHOOSE i \in DOMAIN reads :
                          /\ members[i][1] = n
                          /\ \A k \in DOMAIN reads : members[k][1] = n => k <= i
<1>1. given = DOMAIN w
  <2>1. ASSUME NEW i \in DOMAIN reads PROVE members[i][1] \in DOMAIN w
    BY <2>1 DEF Fits, SetPlaces
  <2>2. ASSUME NEW n \in DOMAIN w PROVE \E i \in DOMAIN reads : members[i][1] = n
    <3>1. PICK i \in DOMAIN fields : fields[i].name = n
      BY <2>2 DEF Fits
    <3>2. i \in SetPlaces(fields, v)
      BY <2>2, <3>1 DEF Fits, SetPlaces
    <3> QED
      BY <3>1, <3>2
  <2>3. given \subseteq DOMAIN w
    BY <2>1
  <2>4. DOMAIN w \subseteq given
    BY <2>2
  <2> QED
    BY <2>3, <2>4
<1>2. \A i \in DOMAIN reads : reads[i] # {}
  OBVIOUS
<1>3. \A i \in DOMAIN fields : fields[i].required => fields[i].name \in given
  BY <1>1 DEF Fits
<1>4. ASSUME NEW n \in DOMAIN w PROVE The(reads[Latest(n)]) = w[n]
  <2>1. PICK i \in DOMAIN reads : members[i][1] = n
    BY <1>1, <1>4
  <2>2. i \in Nat /\ fields[i].name = n
    BY <2>1 DEF Fits, SetPlaces
  <2>3. \A k \in DOMAIN reads : members[k][1] = n => k = i
    BY <2>1, <2>2 DEF Fits, SetPlaces
  <2>4. \A k \in DOMAIN reads : members[k][1] = n => k <= i
    BY <2>2, <2>3
  <2>5. Latest(n) = i
    BY <2>1, <2>3, <2>4
  <2> QED
    BY <2>2, <2>5, TheOne
<1>5. [n \in given |-> The(reads[Latest(n)])] = w
  BY <1>1, <1>4 DEF Fits
<1> QED
  BY <1>2, <1>3, <1>5 DEF ObjectOfRead

\* Objects at the levels where the types have them, from the level below.
LEMMA Object2 ==
  ASSUME NEW go, NEW fields, NEW v, NEW w, Fits(fields, v, w),
         \A i \in SetPlaces(fields, v) :
           Decode1(fields[i].type, Encode1(fields[i].type, v[fields[i].name])) = {w[fields[i].name]}
  PROVE  Decode2(Object(go, fields), Encode2(Object(go, fields), v)) = {w}
<1> DEFINE Field(n) == CHOOSE f \in Range(fields) : f.name = n
           members  == [i \in SetPlaces(fields, v) |->
                          <<fields[i].name, Encode1(fields[i].type, v[fields[i].name])>>]
           known    == {i \in DOMAIN members : \E f \in Range(fields) : f.name = members[i][1]}
           reads    == [i \in known |-> Decode1(Field(members[i][1]).type, members[i][2])]
<1>1. Encode2(Object(go, fields), v) = Obj(members)
  BY DEF Encode2, EncodeIn, Object, SetPlaces
<1>2. Decode2(Object(go, fields), Obj(members)) = ObjectOfRead(fields, members, reads)
  BY DEF Decode2, DecodeIn, Object, Obj
<1>3. DOMAIN members = SetPlaces(fields, v)
  OBVIOUS
<1>4. \A i \in SetPlaces(fields, v) :
        /\ members[i][1] = fields[i].name
        /\ members[i][2] = Encode1(fields[i].type, v[fields[i].name])
  OBVIOUS
<1>5. DOMAIN reads = SetPlaces(fields, v)
  BY <1>3, <1>4 DEF SetPlaces, Range
<1>6. \A i \in SetPlaces(fields, v) : Field(fields[i].name) = fields[i]
  BY DEF Fits, SetPlaces, Range
<1> HIDE DEF members, Field
<1>7. \A i \in SetPlaces(fields, v) : reads[i] = {w[fields[i].name]}
  BY <1>4, <1>5, <1>6
<1> HIDE DEF reads
<1>8. ObjectOfRead(fields, members, reads) = {w}
  BY <1>3, <1>4, <1>5, <1>7, ObjectRead
<1> QED
  BY <1>1, <1>2, <1>8 DEF reads

\* An object of three levels is read when its fields, of two, are.
LEMMA Object3 ==
  ASSUME NEW go, NEW fields, NEW v, NEW w, Fits(fields, v, w),
         \A i \in SetPlaces(fields, v) :
           Decode2(fields[i].type, Encode2(fields[i].type, v[fields[i].name])) = {w[fields[i].name]}
  PROVE  Decode3(Object(go, fields), Encode3(Object(go, fields), v)) = {w}
<1> DEFINE Field(n) == CHOOSE f \in Range(fields) : f.name = n
           members  == [i \in SetPlaces(fields, v) |->
                          <<fields[i].name, Encode2(fields[i].type, v[fields[i].name])>>]
           known    == {i \in DOMAIN members : \E f \in Range(fields) : f.name = members[i][1]}
           reads    == [i \in known |-> Decode2(Field(members[i][1]).type, members[i][2])]
<1>1. Encode3(Object(go, fields), v) = Obj(members)
  BY DEF Encode3, EncodeIn, Object, SetPlaces
<1>2. Decode3(Object(go, fields), Obj(members)) = ObjectOfRead(fields, members, reads)
  BY DEF Decode3, DecodeIn, Object, Obj
<1>3. DOMAIN members = SetPlaces(fields, v)
  OBVIOUS
<1>4. \A i \in SetPlaces(fields, v) :
        /\ members[i][1] = fields[i].name
        /\ members[i][2] = Encode2(fields[i].type, v[fields[i].name])
  OBVIOUS
<1>5. DOMAIN reads = SetPlaces(fields, v)
  BY <1>3, <1>4 DEF SetPlaces, Range
<1>6. \A i \in SetPlaces(fields, v) : Field(fields[i].name) = fields[i]
  BY DEF Fits, SetPlaces, Range
<1> HIDE DEF members, Field
<1>7. \A i \in SetPlaces(fields, v) : reads[i] = {w[fields[i].name]}
  BY <1>4, <1>5, <1>6
<1> HIDE DEF reads
<1>8. ObjectOfRead(fields, members, reads) = {w}
  BY <1>3, <1>4, <1>5, <1>7, ObjectRead
<1> QED
  BY <1>1, <1>2, <1>8 DEF reads

\* The same of four levels.
LEMMA Object4 ==
  ASSUME NEW go, NEW fields, NEW v, NEW w, Fits(fields, v, w),
         \A i \in SetPlaces(fields, v) :
           Decode3(fields[i].type, Encode3(fields[i].type, v[fields[i].name])) = {w[fields[i].name]}
  PROVE  Decode4(Object(go, fields), Encode4(Object(go, fields), v)) = {w}
<1> DEFINE Field(n) == CHOOSE f \in Range(fields) : f.name = n
           members  == [i \in SetPlaces(fields, v) |->
                          <<fields[i].name, Encode3(fields[i].type, v[fields[i].name])>>]
           known    == {i \in DOMAIN members : \E f \in Range(fields) : f.name = members[i][1]}
           reads    == [i \in known |-> Decode3(Field(members[i][1]).type, members[i][2])]
<1>1. Encode4(Object(go, fields), v) = Obj(members)
  BY DEF Encode4, EncodeIn, Object, SetPlaces
<1>2. Decode4(Object(go, fields), Obj(members)) = ObjectOfRead(fields, members, reads)
  BY DEF Decode4, DecodeIn, Object, Obj
<1>3. DOMAIN members = SetPlaces(fields, v)
  OBVIOUS
<1>4. \A i \in SetPlaces(fields, v) :
        /\ members[i][1] = fields[i].name
        /\ members[i][2] = Encode3(fields[i].type, v[fields[i].name])
  OBVIOUS
<1>5. DOMAIN reads = SetPlaces(fields, v)
  BY <1>3, <1>4 DEF SetPlaces, Range
<1>6. \A i \in SetPlaces(fields, v) : Field(fields[i].name) = fields[i]
  BY DEF Fits, SetPlaces, Range
<1> HIDE DEF members, Field
<1>7. \A i \in SetPlaces(fields, v) : reads[i] = {w[fields[i].name]}
  BY <1>4, <1>5, <1>6
<1> HIDE DEF reads
<1>8. ObjectOfRead(fields, members, reads) = {w}
  BY <1>3, <1>4, <1>5, <1>7, ObjectRead
<1> QED
  BY <1>1, <1>2, <1>8 DEF reads

\* The same of five.
LEMMA Object5 ==
  ASSUME NEW go, NEW fields, NEW v, NEW w, Fits(fields, v, w),
         \A i \in SetPlaces(fields, v) :
           Decode4(fields[i].type, Encode4(fields[i].type, v[fields[i].name])) = {w[fields[i].name]}
  PROVE  Decode(Object(go, fields), Encode(Object(go, fields), v)) = {w}
<1> DEFINE Field(n) == CHOOSE f \in Range(fields) : f.name = n
           members  == [i \in SetPlaces(fields, v) |->
                          <<fields[i].name, Encode4(fields[i].type, v[fields[i].name])>>]
           known    == {i \in DOMAIN members : \E f \in Range(fields) : f.name = members[i][1]}
           reads    == [i \in known |-> Decode4(Field(members[i][1]).type, members[i][2])]
<1>1. Encode(Object(go, fields), v) = Obj(members)
  BY DEF Encode, EncodeIn, Object, SetPlaces
<1>2. Decode(Object(go, fields), Obj(members)) = ObjectOfRead(fields, members, reads)
  BY DEF Decode, DecodeIn, Object, Obj
<1>3. DOMAIN members = SetPlaces(fields, v)
  OBVIOUS
<1>4. \A i \in SetPlaces(fields, v) :
        /\ members[i][1] = fields[i].name
        /\ members[i][2] = Encode4(fields[i].type, v[fields[i].name])
  OBVIOUS
<1>5. DOMAIN reads = SetPlaces(fields, v)
  BY <1>3, <1>4 DEF SetPlaces, Range
<1>6. \A i \in SetPlaces(fields, v) : Field(fields[i].name) = fields[i]
  BY DEF Fits, SetPlaces, Range
<1> HIDE DEF members, Field
<1>7. \A i \in SetPlaces(fields, v) : reads[i] = {w[fields[i].name]}
  BY <1>4, <1>5, <1>6
<1> HIDE DEF reads
<1>8. ObjectOfRead(fields, members, reads) = {w}
  BY <1>3, <1>4, <1>5, <1>7, ObjectRead
<1> QED
  BY <1>1, <1>2, <1>8 DEF reads

\* Lists at the levels where the types have them.
LEMMA List3 ==
  ASSUME NEW elem, NEW v, NEW w, DOMAIN w = DOMAIN v, w = [i \in DOMAIN w |-> w[i]],
         \A i \in DOMAIN v : Decode2(elem, Encode2(elem, v[i])) = {w[i]}
  PROVE  Decode3(ListOf(elem), Encode3(ListOf(elem), v)) = {w}
<1> DEFINE elems == [i \in DOMAIN v |-> Encode2(elem, v[i])]
           reads == [i \in DOMAIN elems |-> Decode2(elem, elems[i])]
<1>1. Encode3(ListOf(elem), v) = Arr(elems)
  BY DEF Encode3, EncodeIn, ListOf
<1>2. Decode3(ListOf(elem), Arr(elems)) = ListOfRead(reads)
  BY DEF Decode3, DecodeIn, ListOf, Arr
<1>3. reads = [i \in DOMAIN w |-> {w[i]}]
  OBVIOUS
<1> HIDE DEF reads
<1>4. ListOfRead(reads) = {w}
  BY <1>3, ListRead
<1> QED
  BY <1>1, <1>2, <1>4 DEF reads

\* A list of objects of three levels is read when they are.
LEMMA List4 ==
  ASSUME NEW elem, NEW v, NEW w, DOMAIN w = DOMAIN v, w = [i \in DOMAIN w |-> w[i]],
         \A i \in DOMAIN v : Decode3(elem, Encode3(elem, v[i])) = {w[i]}
  PROVE  Decode4(ListOf(elem), Encode4(ListOf(elem), v)) = {w}
<1> DEFINE elems == [i \in DOMAIN v |-> Encode3(elem, v[i])]
           reads == [i \in DOMAIN elems |-> Decode3(elem, elems[i])]
<1>1. Encode4(ListOf(elem), v) = Arr(elems)
  BY DEF Encode4, EncodeIn, ListOf
<1>2. Decode4(ListOf(elem), Arr(elems)) = ListOfRead(reads)
  BY DEF Decode4, DecodeIn, ListOf, Arr
<1>3. reads = [i \in DOMAIN w |-> {w[i]}]
  OBVIOUS
<1> HIDE DEF reads
<1>4. ListOfRead(reads) = {w}
  BY <1>3, ListRead
<1> QED
  BY <1>1, <1>2, <1>4 DEF reads

\* The whole seconds of an instant.
Whole(t) == Halves * (t \div Halves)

\* Values without parts, at every level.
LEMMA Scalars1 ==
  /\ \A v : Decode1(Text, Encode1(Text, v)) = {v}
  /\ \A v : Decode1(GoInt, Encode1(GoInt, v)) = {v}
  /\ \A v : Decode1(Flag, Encode1(Flag, v)) = {v}
  /\ \A u \in Uuids : Decode1(Uuid, Encode1(Uuid, u)) = {u}
  /\ \A t \in Instants : Decode1(NilDateTime, Encode1(NilDateTime, t)) = {Whole(t)}
<1>1. \A v : Decode1(Text, Encode1(Text, v)) = {v}
  BY DEF Decode1, Encode1, DecodeIn, EncodeIn, Text, Str
<1>2. \A v : Decode1(GoInt, Encode1(GoInt, v)) = {v}
  BY DEF Decode1, Encode1, DecodeIn, EncodeIn, GoInt, Num
<1>3. \A v : Decode1(Flag, Encode1(Flag, v)) = {v}
  BY DEF Decode1, Encode1, DecodeIn, EncodeIn, Flag, Bool
<1>4. ASSUME NEW u \in Uuids PROVE Decode1(Uuid, Encode1(Uuid, u)) = {u}
  <2>1. Encode1(Uuid, u) = Str(u)
    BY DEF Encode1, EncodeIn, Uuid
  <2>2. Decode1(Uuid, Str(u)) = {UuidOf[s] : s \in DOMAIN UuidOf \cap {u}}
    BY DEF Decode1, DecodeIn, Uuid, Str
  <2> QED
    BY <1>4, <2>1, <2>2, IdsAndTimes
<1>5. ASSUME NEW t \in Instants PROVE Decode1(NilDateTime, Encode1(NilDateTime, t)) = {Whole(t)}
  <2>1. CASE t = NullTime
    <3>1. Encode1(NilDateTime, t) = Null
      BY <2>1 DEF Encode1, EncodeIn, NilDateTime
    <3>2. Decode1(NilDateTime, Null) = {NullTime}
      BY DEF Decode1, DecodeIn, NilDateTime, Null
    <3>3. Whole(NullTime) = NullTime
      BY DEF Whole, NullTime, Halves
    <3> QED
      BY <2>1, <3>1, <3>2, <3>3
  <2>2. CASE t # NullTime
    <3>1. Encode1(NilDateTime, t) = Str(Stamps[t \div Halves])
      BY <2>2 DEF Encode1, EncodeIn, NilDateTime
    <3>2. Decode1(NilDateTime, Str(Stamps[t \div Halves])) =
            {Halves * s : s \in {s \in DOMAIN Stamps : Stamps[s] = Stamps[t \div Halves]}}
      BY DEF Decode1, DecodeIn, NilDateTime, Str
    <3>3. {s \in DOMAIN Stamps : Stamps[s] = Stamps[t \div Halves]} = {t \div Halves}
      BY IdsAndTimes
    <3> QED
      BY <3>1, <3>2, <3>3 DEF Whole
  <2> QED
    BY <2>1, <2>2
<1> QED
  BY <1>1, <1>2, <1>3, <1>4, <1>5

\* Texts, numbers, flags and ids arrive as they were, instants in whole seconds.
LEMMA Scalars2 ==
  /\ \A v : Decode2(Text, Encode2(Text, v)) = {v}
  /\ \A v : Decode2(GoInt, Encode2(GoInt, v)) = {v}
  /\ \A v : Decode2(Flag, Encode2(Flag, v)) = {v}
  /\ \A u \in Uuids : Decode2(Uuid, Encode2(Uuid, u)) = {u}
  /\ \A t \in Instants : Decode2(NilDateTime, Encode2(NilDateTime, t)) = {Whole(t)}
<1>1. \A v : Decode2(Text, Encode2(Text, v)) = {v}
  BY DEF Decode2, Encode2, DecodeIn, EncodeIn, Text, Str
<1>2. \A v : Decode2(GoInt, Encode2(GoInt, v)) = {v}
  BY DEF Decode2, Encode2, DecodeIn, EncodeIn, GoInt, Num
<1>3. \A v : Decode2(Flag, Encode2(Flag, v)) = {v}
  BY DEF Decode2, Encode2, DecodeIn, EncodeIn, Flag, Bool
<1>4. ASSUME NEW u \in Uuids PROVE Decode2(Uuid, Encode2(Uuid, u)) = {u}
  <2>1. Encode2(Uuid, u) = Str(u)
    BY DEF Encode2, EncodeIn, Uuid
  <2>2. Decode2(Uuid, Str(u)) = {UuidOf[s] : s \in DOMAIN UuidOf \cap {u}}
    BY DEF Decode2, DecodeIn, Uuid, Str
  <2> QED
    BY <1>4, <2>1, <2>2, IdsAndTimes
<1>5. ASSUME NEW t \in Instants PROVE Decode2(NilDateTime, Encode2(NilDateTime, t)) = {Whole(t)}
  <2>1. CASE t = NullTime
    <3>1. Encode2(NilDateTime, t) = Null
      BY <2>1 DEF Encode2, EncodeIn, NilDateTime
    <3>2. Decode2(NilDateTime, Null) = {NullTime}
      BY DEF Decode2, DecodeIn, NilDateTime, Null
    <3>3. Whole(NullTime) = NullTime
      BY DEF Whole, NullTime, Halves
    <3> QED
      BY <2>1, <3>1, <3>2, <3>3
  <2>2. CASE t # NullTime
    <3>1. Encode2(NilDateTime, t) = Str(Stamps[t \div Halves])
      BY <2>2 DEF Encode2, EncodeIn, NilDateTime
    <3>2. Decode2(NilDateTime, Str(Stamps[t \div Halves])) =
            {Halves * s : s \in {s \in DOMAIN Stamps : Stamps[s] = Stamps[t \div Halves]}}
      BY DEF Decode2, DecodeIn, NilDateTime, Str
    <3>3. {s \in DOMAIN Stamps : Stamps[s] = Stamps[t \div Halves]} = {t \div Halves}
      BY IdsAndTimes
    <3> QED
      BY <3>1, <3>2, <3>3 DEF Whole
  <2> QED
    BY <2>1, <2>2
<1> QED
  BY <1>1, <1>2, <1>3, <1>4, <1>5

\* The same one level further out.
LEMMA Scalars3 ==
  /\ \A v : Decode3(Text, Encode3(Text, v)) = {v}
  /\ \A v : Decode3(GoInt, Encode3(GoInt, v)) = {v}
  /\ \A v : Decode3(Flag, Encode3(Flag, v)) = {v}
  /\ \A u \in Uuids : Decode3(Uuid, Encode3(Uuid, u)) = {u}
  /\ \A t \in Instants : Decode3(NilDateTime, Encode3(NilDateTime, t)) = {Whole(t)}
<1>1. \A v : Decode3(Text, Encode3(Text, v)) = {v}
  BY DEF Decode3, Encode3, DecodeIn, EncodeIn, Text, Str
<1>2. \A v : Decode3(GoInt, Encode3(GoInt, v)) = {v}
  BY DEF Decode3, Encode3, DecodeIn, EncodeIn, GoInt, Num
<1>3. \A v : Decode3(Flag, Encode3(Flag, v)) = {v}
  BY DEF Decode3, Encode3, DecodeIn, EncodeIn, Flag, Bool
<1>4. ASSUME NEW u \in Uuids PROVE Decode3(Uuid, Encode3(Uuid, u)) = {u}
  <2>1. Encode3(Uuid, u) = Str(u)
    BY DEF Encode3, EncodeIn, Uuid
  <2>2. Decode3(Uuid, Str(u)) = {UuidOf[s] : s \in DOMAIN UuidOf \cap {u}}
    BY DEF Decode3, DecodeIn, Uuid, Str
  <2> QED
    BY <1>4, <2>1, <2>2, IdsAndTimes
<1>5. ASSUME NEW t \in Instants PROVE Decode3(NilDateTime, Encode3(NilDateTime, t)) = {Whole(t)}
  <2>1. CASE t = NullTime
    <3>1. Encode3(NilDateTime, t) = Null
      BY <2>1 DEF Encode3, EncodeIn, NilDateTime
    <3>2. Decode3(NilDateTime, Null) = {NullTime}
      BY DEF Decode3, DecodeIn, NilDateTime, Null
    <3>3. Whole(NullTime) = NullTime
      BY DEF Whole, NullTime, Halves
    <3> QED
      BY <2>1, <3>1, <3>2, <3>3
  <2>2. CASE t # NullTime
    <3>1. Encode3(NilDateTime, t) = Str(Stamps[t \div Halves])
      BY <2>2 DEF Encode3, EncodeIn, NilDateTime
    <3>2. Decode3(NilDateTime, Str(Stamps[t \div Halves])) =
            {Halves * s : s \in {s \in DOMAIN Stamps : Stamps[s] = Stamps[t \div Halves]}}
      BY DEF Decode3, DecodeIn, NilDateTime, Str
    <3>3. {s \in DOMAIN Stamps : Stamps[s] = Stamps[t \div Halves]} = {t \div Halves}
      BY IdsAndTimes
    <3> QED
      BY <3>1, <3>2, <3>3 DEF Whole
  <2> QED
    BY <2>1, <2>2
<1> QED
  BY <1>1, <1>2, <1>3, <1>4, <1>5

\* The same one level further out.
LEMMA Scalars4 ==
  /\ \A v : Decode4(Text, Encode4(Text, v)) = {v}
  /\ \A v : Decode4(GoInt, Encode4(GoInt, v)) = {v}
  /\ \A v : Decode4(Flag, Encode4(Flag, v)) = {v}
  /\ \A u \in Uuids : Decode4(Uuid, Encode4(Uuid, u)) = {u}
  /\ \A t \in Instants : Decode4(NilDateTime, Encode4(NilDateTime, t)) = {Whole(t)}
<1>1. \A v : Decode4(Text, Encode4(Text, v)) = {v}
  BY DEF Decode4, Encode4, DecodeIn, EncodeIn, Text, Str
<1>2. \A v : Decode4(GoInt, Encode4(GoInt, v)) = {v}
  BY DEF Decode4, Encode4, DecodeIn, EncodeIn, GoInt, Num
<1>3. \A v : Decode4(Flag, Encode4(Flag, v)) = {v}
  BY DEF Decode4, Encode4, DecodeIn, EncodeIn, Flag, Bool
<1>4. ASSUME NEW u \in Uuids PROVE Decode4(Uuid, Encode4(Uuid, u)) = {u}
  <2>1. Encode4(Uuid, u) = Str(u)
    BY DEF Encode4, EncodeIn, Uuid
  <2>2. Decode4(Uuid, Str(u)) = {UuidOf[s] : s \in DOMAIN UuidOf \cap {u}}
    BY DEF Decode4, DecodeIn, Uuid, Str
  <2> QED
    BY <1>4, <2>1, <2>2, IdsAndTimes
<1>5. ASSUME NEW t \in Instants PROVE Decode4(NilDateTime, Encode4(NilDateTime, t)) = {Whole(t)}
  <2>1. CASE t = NullTime
    <3>1. Encode4(NilDateTime, t) = Null
      BY <2>1 DEF Encode4, EncodeIn, NilDateTime
    <3>2. Decode4(NilDateTime, Null) = {NullTime}
      BY DEF Decode4, DecodeIn, NilDateTime, Null
    <3>3. Whole(NullTime) = NullTime
      BY DEF Whole, NullTime, Halves
    <3> QED
      BY <2>1, <3>1, <3>2, <3>3
  <2>2. CASE t # NullTime
    <3>1. Encode4(NilDateTime, t) = Str(Stamps[t \div Halves])
      BY <2>2 DEF Encode4, EncodeIn, NilDateTime
    <3>2. Decode4(NilDateTime, Str(Stamps[t \div Halves])) =
            {Halves * s : s \in {s \in DOMAIN Stamps : Stamps[s] = Stamps[t \div Halves]}}
      BY DEF Decode4, DecodeIn, NilDateTime, Str
    <3>3. {s \in DOMAIN Stamps : Stamps[s] = Stamps[t \div Halves]} = {t \div Halves}
      BY IdsAndTimes
    <3> QED
      BY <3>1, <3>2, <3>3 DEF Whole
  <2> QED
    BY <2>1, <2>2
<1> QED
  BY <1>1, <1>2, <1>3, <1>4, <1>5

(***************************************************************************)
(* Part 2.  The types of internal/api cross the network: IsTeamMember and  *)
(* so on say what a Go value of the type is.                               *)
(***************************************************************************)
IsTeamMember(m) ==
  /\ m = [user_id |-> m.user_id, username |-> m.username, is_active |-> m.is_active]
  /\ m.user_id \in Uuids

\* TeamMember crosses the network as it is.
LEMMA TeamMemberThrough ==
  ASSUME NEW m, IsTeamMember(m)
  PROVE  /\ Decode2(TeamMember, Encode2(TeamMember, m)) = {m}
         /\ Decode3(TeamMember, Encode3(TeamMember, m)) = {m}
<1> DEFINE fields == TeamMember.fields
<1>1. TeamMember = Object("TeamMember", fields)
  BY DEF TeamMember, Object
<1>2. Fits(fields, m, m)
  BY DEF TeamMember, Object, IsTeamMember, Fits, Needed
<1>3. \A i \in SetPlaces(fields, m) :
        \/ fields[i].name = "user_id" /\ fields[i].type = Uuid /\ m["user_id"] \in Uuids
        \/ fields[i].name = "username" /\ fields[i].type = Text
        \/ fields[i].name = "is_active" /\ fields[i].type = Flag
  BY DEF TeamMember, Object, IsTeamMember, SetPlaces, Needed, Username
<1> HIDE DEF fields
<1>4. Decode2(Object("TeamMember", fields), Encode2(Object("TeamMember", fields), m)) = {m}
  BY <1>2, <1>3, Scalars1, Object2
<1>5. Decode3(Object("TeamMember", fields), Encode3(Object("TeamMember", fields), m)) = {m}
  BY <1>2, <1>3, Scalars2, Object3
<1> QED
  BY <1>1, <1>4, <1>5

IsUser(u) ==
  /\ u = [user_id |-> u.user_id, username |-> u.username, team_name |-> u.team_name,
          is_active |-> u.is_active]
  /\ u.user_id \in Uuids

\* User crosses the network as it is.
LEMMA UserThrough ==
  ASSUME NEW u, IsUser(u)
  PROVE  Decode4(User, Encode4(User, u)) = {u}
<1> DEFINE fields == User.fields
<1>1. User = Object("User", fields)
  BY DEF User, Object
<1>2. Fits(fields, u, u)
  BY DEF User, Object, IsUser, Fits, Needed
<1>3. \A i \in SetPlaces(fields, u) :
        \/ fields[i].name = "user_id" /\ fields[i].type = Uuid /\ u["user_id"] \in Uuids
        \/ fields[i].name = "username" /\ fields[i].type = Text
        \/ fields[i].name = "team_name" /\ fields[i].type = Text
        \/ fields[i].name = "is_active" /\ fields[i].type = Flag
  BY DEF User, Object, IsUser, SetPlaces, Needed, TeamName, Username
<1> HIDE DEF fields
<1>4. Decode4(Object("User", fields), Encode4(Object("User", fields), u)) = {u}
  BY <1>2, <1>3, Scalars3, Object4
<1> QED
  BY <1>1, <1>4

IsPullRequestShort(p) ==
  /\ p = [pull_request_id |-> p.pull_request_id, pull_request_name |-> p.pull_request_name,
          author_id |-> p.author_id, status |-> p.status]
  /\ p.pull_request_id \in Uuids /\ p.author_id \in Uuids

\* PullRequestShort crosses the network as it is.
LEMMA PullRequestShortThrough ==
  ASSUME NEW p, IsPullRequestShort(p)
  PROVE  Decode3(PullRequestShort, Encode3(PullRequestShort, p)) = {p}
<1> DEFINE fields == PullRequestShort.fields
<1>1. PullRequestShort = Object("PullRequestShort", fields)
  BY DEF PullRequestShort, Object
<1>2. Fits(fields, p, p)
  BY DEF PullRequestShort, Object, IsPullRequestShort, Fits, Needed
<1>3. \A i \in SetPlaces(fields, p) :
        \/ fields[i].name = "pull_request_id" /\ fields[i].type = Uuid /\ p["pull_request_id"] \in Uuids
        \/ fields[i].name = "pull_request_name" /\ fields[i].type = Text
        \/ fields[i].name = "author_id" /\ fields[i].type = Uuid /\ p["author_id"] \in Uuids
        \/ fields[i].name = "status" /\ fields[i].type = Text
  BY DEF PullRequestShort, Object, IsPullRequestShort, SetPlaces, Needed, PullRequestName,
         PullRequestShortStatus
<1> HIDE DEF fields
<1>4. Decode3(Object("PullRequestShort", fields),
              Encode3(Object("PullRequestShort", fields), p)) = {p}
  BY <1>2, <1>3, Scalars2, Object3
<1> QED
  BY <1>1, <1>4

IsCreatePullRequestReq(r) ==
  /\ r = [pull_request_id |-> r.pull_request_id, pull_request_name |-> r.pull_request_name,
          author_id |-> r.author_id]
  /\ r.pull_request_id \in Uuids /\ r.author_id \in Uuids

\* CreatePullRequestReq crosses the network as it is.
LEMMA CreatePullRequestReqThrough ==
  ASSUME NEW r, IsCreatePullRequestReq(r)
  PROVE  Decode(CreatePullRequestReq, Encode(CreatePullRequestReq, r)) = {r}
<1> DEFINE fields == CreatePullRequestReq.fields
<1>1. CreatePullRequestReq = Object("CreatePullRequestReq", fields)
  BY DEF CreatePullRequestReq, Object
<1>2. Fits(fields, r, r)
  BY DEF CreatePullRequestReq, Object, IsCreatePullRequestReq, Fits, Needed
<1>3. \A i \in SetPlaces(fields, r) :
        \/ fields[i].name = "pull_request_id" /\ fields[i].type = Uuid /\ r["pull_request_id"] \in Uuids
        \/ fields[i].name = "pull_request_name" /\ fields[i].type = Text
        \/ fields[i].name = "author_id" /\ fields[i].type = Uuid /\ r["author_id"] \in Uuids
  BY DEF CreatePullRequestReq, Object, IsCreatePullRequestReq, SetPlaces, Needed, PullRequestName
<1> HIDE DEF fields
<1>4. Decode(Object("CreatePullRequestReq", fields),
             Encode(Object("CreatePullRequestReq", fields), r)) = {r}
  BY <1>2, <1>3, Scalars4, Object5
<1> QED
  BY <1>1, <1>4

IsDeactivateTeamMembersReq(r) ==
  /\ r = [team_name |-> r.team_name]

\* DeactivateTeamMembersReq crosses the network as it is.
LEMMA DeactivateTeamMembersReqThrough ==
  ASSUME NEW r, IsDeactivateTeamMembersReq(r)
  PROVE  Decode(DeactivateTeamMembersReq, Encode(DeactivateTeamMembersReq, r)) = {r}
<1> DEFINE fields == DeactivateTeamMembersReq.fields
<1>1. DeactivateTeamMembersReq = Object("DeactivateTeamMembersReq", fields)
  BY DEF DeactivateTeamMembersReq, Object
<1>2. Fits(fields, r, r)
  BY DEF DeactivateTeamMembersReq, Object, IsDeactivateTeamMembersReq, Fits, Needed
<1>3. \A i \in SetPlaces(fields, r) :
        \/ fields[i].name = "team_name" /\ fields[i].type = Text
  BY DEF DeactivateTeamMembersReq, Object, IsDeactivateTeamMembersReq, SetPlaces, Needed, TeamName
<1> HIDE DEF fields
<1>4. Decode(Object("DeactivateTeamMembersReq", fields),
             Encode(Object("DeactivateTeamMembersReq", fields), r)) = {r}
  BY <1>2, <1>3, Scalars4, Object5
<1> QED
  BY <1>1, <1>4

IsMergePullRequestReq(r) ==
  /\ r = [pull_request_id |-> r.pull_request_id]
  /\ r.pull_request_id \in Uuids

\* MergePullRequestReq crosses the network as it is.
LEMMA MergePullRequestReqThrough ==
  ASSUME NEW r, IsMergePullRequestReq(r)
  PROVE  Decode(MergePullRequestReq, Encode(MergePullRequestReq, r)) = {r}
<1> DEFINE fields == MergePullRequestReq.fields
<1>1. MergePullRequestReq = Object("MergePullRequestReq", fields)
  BY DEF MergePullRequestReq, Object
<1>2. Fits(fields, r, r)
  BY DEF MergePullRequestReq, Object, IsMergePullRequestReq, Fits, Needed
<1>3. \A i \in SetPlaces(fields, r) :
        \/ fields[i].name = "pull_request_id" /\ fields[i].type = Uuid /\ r["pull_request_id"] \in Uuids
  BY DEF MergePullRequestReq, Object, IsMergePullRequestReq, SetPlaces, Needed
<1> HIDE DEF fields
<1>4. Decode(Object("MergePullRequestReq", fields),
             Encode(Object("MergePullRequestReq", fields), r)) = {r}
  BY <1>2, <1>3, Scalars4, Object5
<1> QED
  BY <1>1, <1>4

IsReassignReviewerReq(r) ==
  /\ r = [pull_request_id |-> r.pull_request_id, old_user_id |-> r.old_user_id]
  /\ r.pull_request_id \in Uuids /\ r.old_user_id \in Uuids

\* ReassignReviewerReq crosses the network as it is.
LEMMA ReassignReviewerReqThrough ==
  ASSUME NEW r, IsReassignReviewerReq(r)
  PROVE  Decode(ReassignReviewerReq, Encode(ReassignReviewerReq, r)) = {r}
<1> DEFINE fields == ReassignReviewerReq.fields
<1>1. ReassignReviewerReq = Object("ReassignReviewerReq", fields)
  BY DEF ReassignReviewerReq, Object
<1>2. Fits(fields, r, r)
  BY DEF ReassignReviewerReq, Object, IsReassignReviewerReq, Fits, Needed
<1>3. \A i \in SetPlaces(fields, r) :
        \/ fields[i].name = "pull_request_id" /\ fields[i].type = Uuid /\ r["pull_request_id"] \in Uuids
        \/ fields[i].name = "old_user_id" /\ fields[i].type = Uuid /\ r["old_user_id"] \in Uuids
  BY DEF ReassignReviewerReq, Object, IsReassignReviewerReq, SetPlaces, Needed
<1> HIDE DEF fields
<1>4. Decode(Object("ReassignReviewerReq", fields),
             Encode(Object("ReassignReviewerReq", fields), r)) = {r}
  BY <1>2, <1>3, Scalars4, Object5
<1> QED
  BY <1>1, <1>4

IsSetUserActiveReq(r) ==
  /\ r = [user_id |-> r.user_id, is_active |-> r.is_active]
  /\ r.user_id \in Uuids

\* SetUserActiveReq crosses the network as it is.
LEMMA SetUserActiveReqThrough ==
  ASSUME NEW r, IsSetUserActiveReq(r)
  PROVE  Decode(SetUserActiveReq, Encode(SetUserActiveReq, r)) = {r}
<1> DEFINE fields == SetUserActiveReq.fields
<1>1. SetUserActiveReq = Object("SetUserActiveReq", fields)
  BY DEF SetUserActiveReq, Object
<1>2. Fits(fields, r, r)
  BY DEF SetUserActiveReq, Object, IsSetUserActiveReq, Fits, Needed
<1>3. \A i \in SetPlaces(fields, r) :
        \/ fields[i].name = "user_id" /\ fields[i].type = Uuid /\ r["user_id"] \in Uuids
        \/ fields[i].name = "is_active" /\ fields[i].type = Flag
  BY DEF SetUserActiveReq, Object, IsSetUserActiveReq, SetPlaces, Needed
<1> HIDE DEF fields
<1>4. Decode(Object("SetUserActiveReq", fields),
             Encode(Object("SetUserActiveReq", fields), r)) = {r}
  BY <1>2, <1>3, Scalars4, Object5
<1> QED
  BY <1>1, <1>4

IsDeactivateTeamMembersOK(v) ==
  /\ v = [deactivated_count |-> v.deactivated_count, removed_count |-> v.removed_count]

\* DeactivateTeamMembersOK crosses the network as it is.
LEMMA DeactivateTeamMembersOKThrough ==
  ASSUME NEW v, IsDeactivateTeamMembersOK(v)
  PROVE  Decode(DeactivateTeamMembersOK, Encode(DeactivateTeamMembersOK, v)) = {v}
<1> DEFINE fields == DeactivateTeamMembersOK.fields
<1>1. DeactivateTeamMembersOK = Object("DeactivateTeamMembersOK", fields)
  BY DEF DeactivateTeamMembersOK, Object
<1>2. Fits(fields, v, v)
  BY DEF DeactivateTeamMembersOK, Object, IsDeactivateTeamMembersOK, Fits, Needed
<1>3. \A i \in SetPlaces(fields, v) :
        \/ fields[i].name = "deactivated_count" /\ fields[i].type = GoInt
        \/ fields[i].name = "removed_count" /\ fields[i].type = GoInt
  BY DEF DeactivateTeamMembersOK, Object, IsDeactivateTeamMembersOK, SetPlaces, Needed
<1> HIDE DEF fields
<1>4. Decode(Object("DeactivateTeamMembersOK", fields),
             Encode(Object("DeactivateTeamMembersOK", fields), v)) = {v}
  BY <1>2, <1>3, Scalars4, Object5
<1> QED
  BY <1>1, <1>4

IsUserStatsItem(v) ==
  /\ v = [user_id |-> v.user_id, username |-> v.username, assignment_count |-> v.assignment_count]
  /\ v.user_id \in Uuids

\* GetAssignmentStatsOKUserStatsItem crosses the network as it is.
LEMMA GetAssignmentStatsOKUserStatsItemThrough ==
  ASSUME NEW v, IsUserStatsItem(v)
  PROVE  Decode3(GetAssignmentStatsOKUserStatsItem,
                 Encode3(GetAssignmentStatsOKUserStatsItem, v)) = {v}
<1> DEFINE fields == GetAssignmentStatsOKUserStatsItem.fields
<1>1. GetAssignmentStatsOKUserStatsItem = Object("GetAssignmentStatsOKUserStatsItem", fields)
  BY DEF GetAssignmentStatsOKUserStatsItem, Object
<1>2. Fits(fields, v, v)
  BY DEF GetAssignmentStatsOKUserStatsItem, Object, IsUserStatsItem, Fits, Needed
<1>3. \A i \in SetPlaces(fields, v) :
        \/ fields[i].name = "user_id" /\ fields[i].type = Uuid /\ v["user_id"] \in Uuids
        \/ fields[i].name = "username" /\ fields[i].type = Text
        \/ fields[i].name = "assignment_count" /\ fields[i].type = GoInt
  BY DEF GetAssignmentStatsOKUserStatsItem, Object, IsUserStatsItem, SetPlaces, Needed
<1> HIDE DEF fields
<1>4. Decode3(Object("GetAssignmentStatsOKUserStatsItem", fields),
              Encode3(Object("GetAssignmentStatsOKUserStatsItem", fields), v)) = {v}
  BY <1>2, <1>3, Scalars2, Object3
<1> QED
  BY <1>1, <1>4

IsPrStatsItem(v) ==
  /\ v = [pull_request_id |-> v.pull_request_id, pull_request_name |-> v.pull_request_name,
          reviewer_count |-> v.reviewer_count]
  /\ v.pull_request_id \in Uuids

\* GetAssignmentStatsOKPrStatsItem crosses the network as it is.
LEMMA GetAssignmentStatsOKPrStatsItemThrough ==
  ASSUME NEW v, IsPrStatsItem(v)
  PROVE  Decode3(GetAssignmentStatsOKPrStatsItem, Encode3(GetAssignmentStatsOKPrStatsItem, v)) = {v}
<1> DEFINE fields == GetAssignmentStatsOKPrStatsItem.fields
<1>1. GetAssignmentStatsOKPrStatsItem = Object("GetAssignmentStatsOKPrStatsItem", fields)
  BY DEF GetAssignmentStatsOKPrStatsItem, Object
<1>2. Fits(fields, v, v)
  BY DEF GetAssignmentStatsOKPrStatsItem, Object, IsPrStatsItem, Fits, Needed
<1>3. \A i \in SetPlaces(fields, v) :
        \/ fields[i].name = "pull_request_id" /\ fields[i].type = Uuid /\ v["pull_request_id"] \in Uuids
        \/ fields[i].name = "pull_request_name" /\ fields[i].type = Text
        \/ fields[i].name = "reviewer_count" /\ fields[i].type = GoInt
  BY DEF GetAssignmentStatsOKPrStatsItem, Object, IsPrStatsItem, SetPlaces, Needed
<1> HIDE DEF fields
<1>4. Decode3(Object("GetAssignmentStatsOKPrStatsItem", fields),
              Encode3(Object("GetAssignmentStatsOKPrStatsItem", fields), v)) = {v}
  BY <1>2, <1>3, Scalars2, Object3
<1> QED
  BY <1>1, <1>4

IsList(s) == s = [i \in DOMAIN s |-> s[i]]

IsTeam(t) ==
  /\ t = [team_name |-> t.team_name, members |-> t.members]
  /\ IsList(t.members) /\ \A i \in DOMAIN t.members : IsTeamMember(t.members[i])

\* Team crosses the network as it is.
LEMMA TeamThrough ==
  ASSUME NEW t, IsTeam(t)
  PROVE  /\ Decode4(Team, Encode4(Team, t)) = {t}
         /\ Decode(Team, Encode(Team, t)) = {t}
<1> DEFINE fields == Team.fields
<1>1. Team = Object("Team", fields)
  BY DEF Team, Object
<1>2. Fits(fields, t, t)
  BY DEF Team, Object, IsTeam, Fits, Needed
<1>3. \A i \in SetPlaces(fields, t) :
        \/ fields[i].name = "team_name" /\ fields[i].type = Text
        \/ fields[i].name = "members" /\ fields[i].type = ListOf(TeamMember)
  BY DEF Team, Object, IsTeam, SetPlaces, Needed, TeamName
<1>4. Decode3(ListOf(TeamMember), Encode3(ListOf(TeamMember), t["members"])) = {t["members"]}
  BY TeamMemberThrough, List3 DEF IsTeam, IsList
<1>5. Decode4(ListOf(TeamMember), Encode4(ListOf(TeamMember), t["members"])) = {t["members"]}
  BY TeamMemberThrough, List4 DEF IsTeam, IsList
<1> HIDE DEF fields
<1>6. Decode4(Object("Team", fields), Encode4(Object("Team", fields), t)) = {t}
  BY <1>2, <1>3, <1>4, Scalars3, Object4
<1>7. Decode(Object("Team", fields), Encode(Object("Team", fields), t)) = {t}
  BY <1>2, <1>3, <1>5, Scalars4, Object5
<1> QED
  BY <1>1, <1>6, <1>7

IsPullRequest(p) ==
  /\ {"pull_request_id", "pull_request_name", "author_id", "status", "assigned_reviewers"}
       \subseteq DOMAIN p
  /\ DOMAIN p \subseteq {"pull_request_id", "pull_request_name", "author_id", "status",
                         "assigned_reviewers", "createdAt", "mergedAt"}
  /\ p.pull_request_id \in Uuids /\ p.author_id \in Uuids
  /\ IsList(p.assigned_reviewers)
  /\ \A i \in DOMAIN p.assigned_reviewers : p.assigned_reviewers[i] \in Uuids
  /\ \A f \in DOMAIN p \cap {"createdAt", "mergedAt"} : p[f] \in Instants

\* What arrives of a pull request.
InSeconds(p) ==
  [f \in DOMAIN p |-> IF f \in {"createdAt", "mergedAt"} THEN Halves * (p[f] \div Halves) ELSE p[f]]

\* PullRequest crosses the network, its instants in whole seconds.
LEMMA PullRequestThrough ==
  ASSUME NEW p, IsPullRequest(p)
  PROVE  Decode4(PullRequest, Encode4(PullRequest, p)) = {InSeconds(p)}
<1> DEFINE fields == PullRequest.fields
           w == InSeconds(p)
<1>1. PullRequest = Object("PullRequest", fields)
  BY DEF PullRequest, Object
<1>2. DOMAIN w = DOMAIN p /\ w = [n \in DOMAIN w |-> w[n]]
  BY DEF InSeconds
<1>3. Fits(fields, p, w)
  <2>1. /\ DOMAIN fields \subseteq Nat
        /\ \A i, k \in DOMAIN fields : fields[i].name = fields[k].name => i = k
    BY DEF PullRequest, Object, Needed, Opt, OptNilDateTime
  <2>2. \A i \in DOMAIN fields : fields[i].required => fields[i].name \in DOMAIN p
    BY DEF PullRequest, Object, Needed, Opt, OptNilDateTime, IsPullRequest
  <2>3. \A n \in DOMAIN p : \E i \in DOMAIN fields : fields[i].name = n
    <3>1. /\ DOMAIN fields = 1..7
          /\ fields[1].name = "pull_request_id" /\ fields[2].name = "pull_request_name"
          /\ fields[3].name = "author_id" /\ fields[4].name = "status"
          /\ fields[5].name = "assigned_reviewers" /\ fields[6].name = "createdAt"
          /\ fields[7].name = "mergedAt"
      BY DEF PullRequest, Object, Needed, Opt, OptNilDateTime
    <3> HIDE DEF fields
    <3> QED
      BY <3>1 DEF IsPullRequest
  <2> HIDE DEF fields, w
  <2> QED
    BY <1>2, <2>1, <2>2, <2>3 DEF Fits
<1>4. \A i \in SetPlaces(fields, p) :
        \/ fields[i].name \in {"pull_request_id", "author_id"} /\ fields[i].type = Uuid
        \/ fields[i].name \in {"pull_request_name", "status"} /\ fields[i].type = Text
        \/ fields[i].name = "assigned_reviewers" /\ fields[i].type = ListOf(Uuid)
        \/ /\ fields[i].name \in DOMAIN p \cap {"createdAt", "mergedAt"}
           /\ fields[i].type = NilDateTime
  BY DEF PullRequest, Object, SetPlaces, Needed, Opt, OptNilDateTime, PullRequestName,
         PullRequestStatus
<1>5. /\ p["pull_request_id"] \in Uuids /\ p["author_id"] \in Uuids
      /\ \A f \in DOMAIN p \cap {"createdAt", "mergedAt"} : p[f] \in Instants
  BY DEF IsPullRequest
<1>6. Decode3(ListOf(Uuid), Encode3(ListOf(Uuid), p["assigned_reviewers"])) =
        {p["assigned_reviewers"]}
  BY Scalars2, List3 DEF IsPullRequest, IsList
<1>7. \A f \in DOMAIN p :
        w[f] = IF f \in {"createdAt", "mergedAt"} THEN Whole(p[f]) ELSE p[f]
  BY DEF InSeconds, Whole
<1> HIDE DEF fields, w
<1>8. ASSUME NEW i \in SetPlaces(fields, p)
      PROVE  Decode3(fields[i].type, Encode3(fields[i].type, p[fields[i].name])) =
               {w[fields[i].name]}
  <2>1. fields[i].name \in DOMAIN p
    BY DEF SetPlaces
  <2>2. CASE fields[i].name \in {"pull_request_id", "author_id"} /\ fields[i].type = Uuid
    BY <1>5, <1>7, <2>1, <2>2, Scalars3
  <2>3. CASE fields[i].name \in {"pull_request_name", "status"} /\ fields[i].type = Text
    BY <1>7, <2>1, <2>3, Scalars3
  <2>4. CASE fields[i].name = "assigned_reviewers" /\ fields[i].type = ListOf(Uuid)
    BY <1>6, <1>7, <2>1, <2>4
  <2>5. CASE /\ fields[i].name \in DOMAIN p \cap {"createdAt", "mergedAt"}
             /\ fields[i].type = NilDateTime
    BY <1>5, <1>7, <2>1, <2>5, Scalars3
  <2> QED
    BY <1>4, <2>2, <2>3, <2>4, <2>5
<1>9. Decode4(Object("PullRequest", fields), Encode4(Object("PullRequest", fields), p)) = {w}
  BY <1>3, <1>8, Object4
<1> QED
  BY <1>1, <1>9 DEF w

\* CreatePullRequestCreated crosses the network, its instants in whole seconds.
LEMMA CreatePullRequestCreatedThrough ==
  ASSUME NEW p, IsPullRequest(p)
  PROVE  Decode(CreatePullRequestCreated,
                Encode(CreatePullRequestCreated, [pr |-> p])) = {[pr |-> InSeconds(p)]}
<1> DEFINE fields == CreatePullRequestCreated.fields
           v == [pr |-> p]
           w == [pr |-> InSeconds(p)]
<1>1. CreatePullRequestCreated = Object("CreatePullRequestCreated", fields)
  BY DEF CreatePullRequestCreated, Object
<1>2. Fits(fields, v, w)
  BY DEF CreatePullRequestCreated, Object, Fits, Opt, OptPullRequest
<1>3. \A i \in SetPlaces(fields, v) : fields[i].name = "pr" /\ fields[i].type = PullRequest
  BY DEF CreatePullRequestCreated, Object, SetPlaces, Opt, OptPullRequest
<1>4. v["pr"] = p /\ w["pr"] = InSeconds(p)
  OBVIOUS
<1> HIDE DEF fields, v, w
<1>5. Decode(Object("CreatePullRequestCreated", fields),
             Encode(Object("CreatePullRequestCreated", fields), v)) = {w}
  BY <1>2, <1>3, <1>4, PullRequestThrough, Object5
<1> QED
  BY <1>1, <1>5 DEF v, w

\* MergePullRequestOK crosses the network, its instants in whole seconds.
LEMMA MergePullRequestOKThrough ==
  ASSUME NEW p, IsPullRequest(p)
  PROVE  Decode(MergePullRequestOK,
                Encode(MergePullRequestOK, [pr |-> p])) = {[pr |-> InSeconds(p)]}
<1> DEFINE fields == MergePullRequestOK.fields
           v == [pr |-> p]
           w == [pr |-> InSeconds(p)]
<1>1. MergePullRequestOK = Object("MergePullRequestOK", fields)
  BY DEF MergePullRequestOK, Object
<1>2. Fits(fields, v, w)
  BY DEF MergePullRequestOK, Object, Fits, Opt, OptPullRequest
<1>3. \A i \in SetPlaces(fields, v) : fields[i].name = "pr" /\ fields[i].type = PullRequest
  BY DEF MergePullRequestOK, Object, SetPlaces, Opt, OptPullRequest
<1>4. v["pr"] = p /\ w["pr"] = InSeconds(p)
  OBVIOUS
<1> HIDE DEF fields, v, w
<1>5. Decode(Object("MergePullRequestOK", fields),
             Encode(Object("MergePullRequestOK", fields), v)) = {w}
  BY <1>2, <1>3, <1>4, PullRequestThrough, Object5
<1> QED
  BY <1>1, <1>5 DEF v, w

\* CreateTeamCreated crosses the network as it is.
LEMMA CreateTeamCreatedThrough ==
  ASSUME NEW t, IsTeam(t)
  PROVE  Decode(CreateTeamCreated, Encode(CreateTeamCreated, [team |-> t])) = {[team |-> t]}
<1> DEFINE fields == CreateTeamCreated.fields
           v == [team |-> t]
           w == [team |-> t]
<1>1. CreateTeamCreated = Object("CreateTeamCreated", fields)
  BY DEF CreateTeamCreated, Object
<1>2. Fits(fields, v, w)
  BY DEF CreateTeamCreated, Object, Fits, Opt, OptTeam
<1>3. \A i \in SetPlaces(fields, v) : fields[i].name = "team" /\ fields[i].type = Team
  BY DEF CreateTeamCreated, Object, SetPlaces, Opt, OptTeam
<1>4. v["team"] = t /\ w["team"] = t
  OBVIOUS
<1> HIDE DEF fields, v, w
<1>5. Decode(Object("CreateTeamCreated", fields),
             Encode(Object("CreateTeamCreated", fields), v)) = {w}
  BY <1>2, <1>3, <1>4, TeamThrough, Object5
<1> QED
  BY <1>1, <1>5 DEF v, w

\* SetUserActiveOK crosses the network as it is.
LEMMA SetUserActiveOKThrough ==
  ASSUME NEW u, IsUser(u)
  PROVE  Decode(SetUserActiveOK, Encode(SetUserActiveOK, [user |-> u])) = {[user |-> u]}
<1> DEFINE fields == SetUserActiveOK.fields
           v == [user |-> u]
           w == [user |-> u]
<1>1. SetUserActiveOK = Object("SetUserActiveOK", fields)
  BY DEF SetUserActiveOK, Object
<1>2. Fits(fields, v, w)
  BY DEF SetUserActiveOK, Object, Fits, Opt, OptUser
<1>3. \A i \in SetPlaces(fields, v) : fields[i].name = "user" /\ fields[i].type = User
  BY DEF SetUserActiveOK, Object, SetPlaces, Opt, OptUser
<1>4. v["user"] = u /\ w["user"] = u
  OBVIOUS
<1> HIDE DEF fields, v, w
<1>5. Decode(Object("SetUserActiveOK", fields), Encode(Object("SetUserActiveOK", fields), v)) = {w}
  BY <1>2, <1>3, <1>4, UserThrough, Object5
<1> QED
  BY <1>1, <1>5 DEF v, w

\* ReassignReviewerOK crosses the network, its instants in whole seconds.
LEMMA ReassignReviewerOKThrough ==
  ASSUME NEW p, IsPullRequest(p), NEW u \in Uuids
  PROVE  Decode(ReassignReviewerOK, Encode(ReassignReviewerOK, [pr |-> p, replaced_by |-> u])) =
           {[pr |-> InSeconds(p), replaced_by |-> u]}
<1> DEFINE fields == ReassignReviewerOK.fields
           v == [pr |-> p, replaced_by |-> u]
           w == [pr |-> InSeconds(p), replaced_by |-> u]
<1>1. ReassignReviewerOK = Object("ReassignReviewerOK", fields)
  BY DEF ReassignReviewerOK, Object
<1>2. Fits(fields, v, w)
  BY DEF ReassignReviewerOK, Object, Fits, Needed
<1>3. \A i \in SetPlaces(fields, v) :
        \/ fields[i].name = "pr" /\ fields[i].type = PullRequest
        \/ fields[i].name = "replaced_by" /\ fields[i].type = Uuid
  BY DEF ReassignReviewerOK, Object, SetPlaces, Needed
<1>4. v["pr"] = p /\ w["pr"] = InSeconds(p) /\ v["replaced_by"] = u /\ w["replaced_by"] = u
  OBVIOUS
<1> HIDE DEF fields, v, w
<1>5. Decode(Object("ReassignReviewerOK", fields),
             Encode(Object("ReassignReviewerOK", fields), v)) = {w}
  BY <1>2, <1>3, <1>4, PullRequestThrough, Scalars4, Object5
<1> QED
  BY <1>1, <1>5 DEF v, w

IsGetUserReviewsOK(v) ==
  /\ v = [user_id |-> v.user_id, pull_requests |-> v.pull_requests]
  /\ v.user_id \in Uuids
  /\ IsList(v.pull_requests)
  /\ \A i \in DOMAIN v.pull_requests : IsPullRequestShort(v.pull_requests[i])

\* GetUserReviewsOK crosses the network as it is.
LEMMA GetUserReviewsOKThrough ==
  ASSUME NEW v, IsGetUserReviewsOK(v)
  PROVE  Decode(GetUserReviewsOK, Encode(GetUserReviewsOK, v)) = {v}
<1> DEFINE fields == GetUserReviewsOK.fields
<1>1. GetUserReviewsOK = Object("GetUserReviewsOK", fields)
  BY DEF GetUserReviewsOK, Object
<1>2. Fits(fields, v, v)
  BY DEF GetUserReviewsOK, Object, IsGetUserReviewsOK, Fits, Needed
<1>3. \A i \in SetPlaces(fields, v) :
        \/ fields[i].name = "user_id" /\ fields[i].type = Uuid /\ v["user_id"] \in Uuids
        \/ fields[i].name = "pull_requests" /\ fields[i].type = ListOf(PullRequestShort)
  BY DEF GetUserReviewsOK, Object, IsGetUserReviewsOK, SetPlaces, Needed
<1>4. Decode4(ListOf(PullRequestShort), Encode4(ListOf(PullRequestShort), v["pull_requests"])) =
        {v["pull_requests"]}
  BY PullRequestShortThrough, List4 DEF IsGetUserReviewsOK, IsList
<1> HIDE DEF fields
<1>5. Decode(Object("GetUserReviewsOK", fields),
             Encode(Object("GetUserReviewsOK", fields), v)) = {v}
  BY <1>2, <1>3, <1>4, Scalars4, Object5
<1> QED
  BY <1>1, <1>5

IsGetAssignmentStatsOK(v) ==
  /\ v = [user_stats |-> v.user_stats, pr_stats |-> v.pr_stats]
  /\ IsList(v.user_stats) /\ \A i \in DOMAIN v.user_stats : IsUserStatsItem(v.user_stats[i])
  /\ IsList(v.pr_stats) /\ \A i \in DOMAIN v.pr_stats : IsPrStatsItem(v.pr_stats[i])

\* GetAssignmentStatsOK crosses the network as it is.
LEMMA GetAssignmentStatsOKThrough ==
  ASSUME NEW v, IsGetAssignmentStatsOK(v)
  PROVE  Decode(GetAssignmentStatsOK, Encode(GetAssignmentStatsOK, v)) = {v}
<1> DEFINE fields == GetAssignmentStatsOK.fields
           ofUser == ListOf(GetAssignmentStatsOKUserStatsItem)
           ofPr   == ListOf(GetAssignmentStatsOKPrStatsItem)
<1>1. GetAssignmentStatsOK = Object("GetAssignmentStatsOK", fields)
  BY DEF GetAssignmentStatsOK, Object
<1>2. Fits(fields, v, v)
  BY DEF GetAssignmentStatsOK, Object, IsGetAssignmentStatsOK, Fits, Needed
<1>3. \A i \in SetPlaces(fields, v) :
        \/ fields[i].name = "user_stats" /\ fields[i].type = ofUser
        \/ fields[i].name = "pr_stats" /\ fields[i].type = ofPr
  BY DEF GetAssignmentStatsOK, Object, SetPlaces, Needed
<1>4. Decode4(ofUser, Encode4(ofUser, v["user_stats"])) = {v["user_stats"]}
  BY GetAssignmentStatsOKUserStatsItemThrough, List4 DEF IsGetAssignmentStatsOK, IsList
<1>5. Decode4(ofPr, Encode4(ofPr, v["pr_stats"])) = {v["pr_stats"]}
  BY GetAssignmentStatsOKPrStatsItemThrough, List4 DEF IsGetAssignmentStatsOK, IsList
<1> HIDE DEF fields, ofUser, ofPr
<1>6. Decode(Object("GetAssignmentStatsOK", fields),
             Encode(Object("GetAssignmentStatsOK", fields), v)) = {v}
  BY <1>2, <1>3, <1>4, <1>5, Object5
<1> QED
  BY <1>1, <1>6

\* Every answer of failure is an ErrorResponse under another name.
LEMMA ErrorResponseThrough ==
  ASSUME NEW go, NEW code, NEW message,
         NEW v, v = [error |-> [code |-> code, message |-> message]]
  PROVE  Decode(Alias(go, ErrorResponse), Encode(Alias(go, ErrorResponse), v)) = {v}
<1> DEFINE outer == ErrorResponse.fields
           inner == ErrorResponseError.fields
           e == [code |-> code, message |-> message]
<1>1. Alias(go, ErrorResponse) = Object(go, outer)
  BY DEF ErrorResponse, Object, Alias
<1>2. ErrorResponseError = Object("ErrorResponseError", inner)
  BY DEF ErrorResponseError, Object
<1>3. Fits(inner, e, e)
  BY DEF ErrorResponseError, Object, Fits, Needed
<1>4. \A i \in SetPlaces(inner, e) : inner[i].type = Text
  BY DEF ErrorResponseError, Object, SetPlaces, Needed, ErrorResponseErrorCode
<1>5. Fits(outer, v, v)
  BY DEF ErrorResponse, Object, Fits, Needed
<1>6. \A i \in SetPlaces(outer, v) :
        outer[i].name = "error" /\ outer[i].type = ErrorResponseError /\ v["error"] = e
  BY DEF ErrorResponse, Object, SetPlaces, Needed
<1> HIDE DEF inner, outer, e
<1>7. Decode4(ErrorResponseError, Encode4(ErrorResponseError, e)) = {e}
  BY <1>2, <1>3, <1>4, Scalars3, Object4
<1>8. Decode(Object(go, outer), Encode(Object(go, outer), v)) = {v}
  BY <1>5, <1>6, <1>7, Object5
<1> QED
  BY <1>1, <1>8

\* The body of ErrorHandler is no ErrorResponse: error is required, and is not
\* there.
LEMMA ErrorHandlerUnread ==
  ASSUME NEW go
  PROVE  Decode(Alias(go, ErrorResponse), Obj(<<<<"error_message", Str("...")>>>>)) = {}
<1> DEFINE members == <<<<"error_message", Str("...")>>>>
           fields  == ErrorResponse.fields
           Field(n) == CHOOSE f \in Range(fields) : f.name = n
           known    == {i \in DOMAIN members : \E f \in Range(fields) : f.name = members[i][1]}
           reads    == [i \in known |-> Decode4(Field(members[i][1]).type, members[i][2])]
<1>1. Alias(go, ErrorResponse) = Object(go, fields)
  BY DEF ErrorResponse, Object, Alias
<1>2. Decode(Object(go, fields), Obj(members)) = ObjectOfRead(fields, members, reads)
  BY DEF Decode, DecodeIn, Object, Obj
<1>3. fields = <<Needed("error", ErrorResponseError)>>
  BY DEF ErrorResponse, Object
<1>4. known = {}
  BY <1>3 DEF Range, Needed
<1>5. DOMAIN reads = {}
  BY <1>4
<1>6. 1 \in DOMAIN fields /\ fields[1].required
  BY <1>3 DEF Needed
<1> HIDE DEF members, fields, reads
<1>7. ObjectOfRead(fields, members, reads) = {}
  BY <1>5, <1>6 DEF ObjectOfRead
<1> QED
  BY <1>1, <1>2, <1>7 DEF members, reads

(***************************************************************************)
(* Part 3.  The router brings a request to the handler of one operation,   *)
(* which reads it and either refuses it or has it run.                     *)
(***************************************************************************)
Path(op) ==
  CASE op = "CheckHealth"           -> "/health"
    [] op = "CreatePullRequest"     -> "/pullRequest/create"
    [] op = "CreateTeam"            -> "/team/add"
    [] op = "DeactivateTeamMembers" -> "/team/deactivate"
    [] op = "GetAssignmentStats"    -> "/stats/assignments"
    [] op = "GetTeam"               -> "/team/get"
    [] op = "GetUserReviews"        -> "/users/getReview"
    [] op = "MergePullRequest"      -> "/pullRequest/merge"
    [] op = "ReassignReviewer"      -> "/pullRequest/reassign"
    [] op = "SetUserActive"         -> "/users/setIsActive"

Routed(m, op) == m.path = Path(op) /\ m.method = IF op \in Reading THEN "GET" ELSE "POST"

\* What the handler of op reads of a request, the answers its service can give,
\* and how they are written.
ReadBy(op, m) ==
  CASE op = "CheckHealth"           -> Good(NoArg)
    [] op = "CreatePullRequest"     -> decodeCreatePullRequestRequest(m)
    [] op = "CreateTeam"            -> decodeCreateTeamRequest(m)
    [] op = "DeactivateTeamMembers" -> decodeDeactivateTeamMembersRequest(m)
    [] op = "GetAssignmentStats"    -> Good(NoArg)
    [] op = "GetTeam"               -> decodeGetTeamParams(m)
    [] op = "GetUserReviews"        -> decodeGetUserReviewsParams(m)
    [] op = "MergePullRequest"      -> decodeMergePullRequestRequest(m)
    [] op = "ReassignReviewer"      -> decodeReassignReviewerRequest(m)
    [] op = "SetUserActive"         -> decodeSetUserActiveRequest(m)

AnswersOf(op, ns, arg) ==
  CASE op = "CheckHealth"           -> CheckHealthAnswers
    [] op = "CreatePullRequest"     -> CreatePullRequestAnswers(arg)
    [] op = "CreateTeam"            -> CreateTeamAnswers(arg)
    [] op = "DeactivateTeamMembers" -> DeactivateTeamMembersAnswers
    [] op = "GetAssignmentStats"    -> GetAssignmentStatsAnswers(ns)
    [] op = "GetTeam"               -> GetTeamAnswers(ns, arg)
    [] op = "GetUserReviews"        -> GetUserReviewsAnswers(ns, arg)
    [] op = "MergePullRequest"      -> MergePullRequestAnswers(ns, arg)
    [] op = "ReassignReviewer"      -> ReassignReviewerAnswers(ns, arg)
    [] op = "SetUserActive"         -> SetUserActiveAnswers(ns, arg)

WriteFor(op, a) ==
  CASE op = "CheckHealth"           -> encodeCheckHealthResponse(a)
    [] op = "CreatePullRequest"     -> encodeCreatePullRequestResponse(a)
    [] op = "CreateTeam"            -> encodeCreateTeamResponse(a)
    [] op = "DeactivateTeamMembers" -> encodeDeactivateTeamMembersResponse(a)
    [] op = "GetAssignmentStats"    -> encodeGetAssignmentStatsResponse(a)
    [] op = "GetTeam"               -> encodeGetTeamResponse(a)
    [] op = "GetUserReviews"        -> encodeGetUserReviewsResponse(a)
    [] op = "MergePullRequest"      -> encodeMergePullRequestResponse(a)
    [] op = "ReassignReviewer"      -> encodeReassignReviewerResponse(a)
    [] op = "SetUserActive"         -> encodeSetUserActiveResponse(a)

RunOf(op, arg, a) == [op |-> op, arg |-> arg, answer |-> a]

OutcomeOf(op, arg, a) ==
  [ran  |-> <<RunOf(op, arg, a)>>,
   resp |-> IF a.go = GoError.go THEN ErrorHandler(500) ELSE WriteFor(op, a)]

OutcomesOf(op, ns, read) ==
  IF read.status = 200
    THEN {OutcomeOf(op, read.value, a) : a \in AnswersOf(op, ns, read.value)}
    ELSE {[ran |-> <<>>, resp |-> ErrorHandler(read.status)]}

\* Only the handler of the operation a request is routed to serves it (ServeHTTP).
LEMMA Routing ==
  ASSUME NEW op \in Operations, NEW m, Routed(m, op), NEW ns
  PROVE  ServeHTTP(m, ns) = OutcomesOf(op, ns, ReadBy(op, m))
<1>1. CASE op = "CheckHealth"
  <2>1. m.path = "/health" /\ m.method = "GET"
    BY <1>1 DEF Routed, Path, Reading
  <2>2. ServeHTTP(m, ns) = handleCheckHealthRequest(m, ns)
    BY <2>1 DEF ServeHTTP, Allow
  <2>3. /\ ReadBy(op, m) = Good(NoArg)
        /\ \A arg : AnswersOf(op, ns, arg) = CheckHealthAnswers
        /\ \A a : WriteFor(op, a) = encodeCheckHealthResponse(a)
    BY <1>1 DEF ReadBy, AnswersOf, WriteFor
  <2> DEFINE read == Good(NoArg)
             lit(a) == [ran  |-> <<[op |-> "CheckHealth", arg |-> read.value, answer |-> a]>>,
                        resp |-> IF a.go = GoError.go THEN ErrorHandler(500)
                                 ELSE encodeCheckHealthResponse(a)]
  <2>4. ServeHTTP(m, ns) = IF read.status = 200 THEN {lit(a) : a \in CheckHealthAnswers}
                           ELSE {[ran |-> <<>>, resp |-> ErrorHandler(read.status)]}
    BY <2>2 DEF handleCheckHealthRequest, Handle
  <2>5. \A a : OutcomeOf(op, read.value, a) = lit(a)
    BY <1>1, <2>3 DEF OutcomeOf, RunOf
  <2>6. ReadBy(op, m) = read /\ AnswersOf(op, ns, read.value) = CheckHealthAnswers
    BY <2>3
  <2> HIDE DEF read, lit
  <2> QED
    BY <2>4, <2>5, <2>6 DEF OutcomesOf
<1>2. CASE op = "CreatePullRequest"
  <2>1. m.path = "/pullRequest/create" /\ m.method = "POST"
    BY <1>2 DEF Routed, Path, Reading
  <2>2. ServeHTTP(m, ns) = handleCreatePullRequestRequest(m, ns)
    BY <2>1 DEF ServeHTTP, Allow
  <2>3. /\ ReadBy(op, m) = decodeCreatePullRequestRequest(m)
        /\ \A arg : AnswersOf(op, ns, arg) = CreatePullRequestAnswers(arg)
        /\ \A a : WriteFor(op, a) = encodeCreatePullRequestResponse(a)
    BY <1>2 DEF ReadBy, AnswersOf, WriteFor
  <2> DEFINE read == decodeCreatePullRequestRequest(m)
             lit(a) == [ran  |-> <<[op |-> "CreatePullRequest", arg |-> read.value, answer |-> a]>>,
                        resp |-> IF a.go = GoError.go THEN ErrorHandler(500)
                                 ELSE encodeCreatePullRequestResponse(a)]
  <2>4. ServeHTTP(m, ns) = IF read.status = 200
                           THEN {lit(a) : a \in CreatePullRequestAnswers(read.value)}
                           ELSE {[ran |-> <<>>, resp |-> ErrorHandler(read.status)]}
    BY <2>2 DEF handleCreatePullRequestRequest, Handle
  <2>5. \A a : OutcomeOf(op, read.value, a) = lit(a)
    BY <1>2, <2>3 DEF OutcomeOf, RunOf
  <2>6. ReadBy(op, m) = read /\ AnswersOf(op, ns, read.value) = CreatePullRequestAnswers(read.value)
    BY <2>3
  <2> HIDE DEF read, lit
  <2> QED
    BY <2>4, <2>5, <2>6 DEF OutcomesOf
<1>3. CASE op = "CreateTeam"
  <2>1. m.path = "/team/add" /\ m.method = "POST"
    BY <1>3 DEF Routed, Path, Reading
  <2>2. ServeHTTP(m, ns) = handleCreateTeamRequest(m, ns)
    BY <2>1 DEF ServeHTTP, Allow
  <2>3. /\ ReadBy(op, m) = decodeCreateTeamRequest(m)
        /\ \A arg : AnswersOf(op, ns, arg) = CreateTeamAnswers(arg)
        /\ \A a : WriteFor(op, a) = encodeCreateTeamResponse(a)
    BY <1>3 DEF ReadBy, AnswersOf, WriteFor
  <2> DEFINE read == decodeCreateTeamRequest(m)
             lit(a) == [ran  |-> <<[op |-> "CreateTeam", arg |-> read.value, answer |-> a]>>,
                        resp |-> IF a.go = GoError.go THEN ErrorHandler(500)
                                 ELSE encodeCreateTeamResponse(a)]
  <2>4. ServeHTTP(m, ns) = IF read.status = 200 THEN {lit(a) : a \in CreateTeamAnswers(read.value)}
                           ELSE {[ran |-> <<>>, resp |-> ErrorHandler(read.status)]}
    BY <2>2 DEF handleCreateTeamRequest, Handle
  <2>5. \A a : OutcomeOf(op, read.value, a) = lit(a)
    BY <1>3, <2>3 DEF OutcomeOf, RunOf
  <2>6. ReadBy(op, m) = read /\ AnswersOf(op, ns, read.value) = CreateTeamAnswers(read.value)
    BY <2>3
  <2> HIDE DEF read, lit
  <2> QED
    BY <2>4, <2>5, <2>6 DEF OutcomesOf
<1>4. CASE op = "DeactivateTeamMembers"
  <2>1. m.path = "/team/deactivate" /\ m.method = "POST"
    BY <1>4 DEF Routed, Path, Reading
  <2>2. ServeHTTP(m, ns) = handleDeactivateTeamMembersRequest(m, ns)
    BY <2>1 DEF ServeHTTP, Allow
  <2>3. /\ ReadBy(op, m) = decodeDeactivateTeamMembersRequest(m)
        /\ \A arg : AnswersOf(op, ns, arg) = DeactivateTeamMembersAnswers
        /\ \A a : WriteFor(op, a) = encodeDeactivateTeamMembersResponse(a)
    BY <1>4 DEF ReadBy, AnswersOf, WriteFor
  <2> DEFINE read == decodeDeactivateTeamMembersRequest(m)
             lit(a) == [ran  |-> <<[op |-> "DeactivateTeamMembers", arg |-> read.value, answer |-> a]>>,
                        resp |-> IF a.go = GoError.go THEN ErrorHandler(500)
                                 ELSE encodeDeactivateTeamMembersResponse(a)]
  <2>4. ServeHTTP(m, ns) = IF read.status = 200 THEN {lit(a) : a \in DeactivateTeamMembersAnswers}
                           ELSE {[ran |-> <<>>, resp |-> ErrorHandler(read.status)]}
    BY <2>2 DEF handleDeactivateTeamMembersRequest, Handle
  <2>5. \A a : OutcomeOf(op, read.value, a) = lit(a)
    BY <1>4, <2>3 DEF OutcomeOf, RunOf
  <2>6. ReadBy(op, m) = read /\ AnswersOf(op, ns, read.value) = DeactivateTeamMembersAnswers
    BY <2>3
  <2> HIDE DEF read, lit
  <2> QED
    BY <2>4, <2>5, <2>6 DEF OutcomesOf
<1>5. CASE op = "GetAssignmentStats"
  <2>1. m.path = "/stats/assignments" /\ m.method = "GET"
    BY <1>5 DEF Routed, Path, Reading
  <2>2. ServeHTTP(m, ns) = handleGetAssignmentStatsRequest(m, ns)
    BY <2>1 DEF ServeHTTP, Allow
  <2>3. /\ ReadBy(op, m) = Good(NoArg)
        /\ \A arg : AnswersOf(op, ns, arg) = GetAssignmentStatsAnswers(ns)
        /\ \A a : WriteFor(op, a) = encodeGetAssignmentStatsResponse(a)
    BY <1>5 DEF ReadBy, AnswersOf, WriteFor
  <2> DEFINE read == Good(NoArg)
             lit(a) == [ran  |-> <<[op |-> "GetAssignmentStats", arg |-> read.value, answer |-> a]>>,
                        resp |-> IF a.go = GoError.go THEN ErrorHandler(500)
                                 ELSE encodeGetAssignmentStatsResponse(a)]
  <2>4. ServeHTTP(m, ns) = IF read.status = 200 THEN {lit(a) : a \in GetAssignmentStatsAnswers(ns)}
                           ELSE {[ran |-> <<>>, resp |-> ErrorHandler(read.status)]}
    BY <2>2 DEF handleGetAssignmentStatsRequest, Handle
  <2>5. \A a : OutcomeOf(op, read.value, a) = lit(a)
    BY <1>5, <2>3 DEF OutcomeOf, RunOf
  <2>6. ReadBy(op, m) = read /\ AnswersOf(op, ns, read.value) = GetAssignmentStatsAnswers(ns)
    BY <2>3
  <2> HIDE DEF read, lit
  <2> QED
    BY <2>4, <2>5, <2>6 DEF OutcomesOf
<1>6. CASE op = "GetTeam"
  <2>1. m.path = "/team/get" /\ m.method = "GET"
    BY <1>6 DEF Routed, Path, Reading
  <2>2. ServeHTTP(m, ns) = handleGetTeamRequest(m, ns)
    BY <2>1 DEF ServeHTTP, Allow
  <2>3. /\ ReadBy(op, m) = decodeGetTeamParams(m)
        /\ \A arg : AnswersOf(op, ns, arg) = GetTeamAnswers(ns, arg)
        /\ \A a : WriteFor(op, a) = encodeGetTeamResponse(a)
    BY <1>6 DEF ReadBy, AnswersOf, WriteFor
  <2> DEFINE read == decodeGetTeamParams(m)
             lit(a) == [ran  |-> <<[op |-> "GetTeam", arg |-> read.value, answer |-> a]>>,
                        resp |-> IF a.go = GoError.go THEN ErrorHandler(500)
                                 ELSE encodeGetTeamResponse(a)]
  <2>4. ServeHTTP(m, ns) = IF read.status = 200 THEN {lit(a) : a \in GetTeamAnswers(ns, read.value)}
                           ELSE {[ran |-> <<>>, resp |-> ErrorHandler(read.status)]}
    BY <2>2 DEF handleGetTeamRequest, Handle
  <2>5. \A a : OutcomeOf(op, read.value, a) = lit(a)
    BY <1>6, <2>3 DEF OutcomeOf, RunOf
  <2>6. ReadBy(op, m) = read /\ AnswersOf(op, ns, read.value) = GetTeamAnswers(ns, read.value)
    BY <2>3
  <2> HIDE DEF read, lit
  <2> QED
    BY <2>4, <2>5, <2>6 DEF OutcomesOf
<1>7. CASE op = "GetUserReviews"
  <2>1. m.path = "/users/getReview" /\ m.method = "GET"
    BY <1>7 DEF Routed, Path, Reading
  <2>2. ServeHTTP(m, ns) = handleGetUserReviewsRequest(m, ns)
    BY <2>1 DEF ServeHTTP, Allow
  <2>3. /\ ReadBy(op, m) = decodeGetUserReviewsParams(m)
        /\ \A arg : AnswersOf(op, ns, arg) = GetUserReviewsAnswers(ns, arg)
        /\ \A a : WriteFor(op, a) = encodeGetUserReviewsResponse(a)
    BY <1>7 DEF ReadBy, AnswersOf, WriteFor
  <2> DEFINE read == decodeGetUserReviewsParams(m)
             lit(a) == [ran  |-> <<[op |-> "GetUserReviews", arg |-> read.value, answer |-> a]>>,
                        resp |-> IF a.go = GoError.go THEN ErrorHandler(500)
                                 ELSE encodeGetUserReviewsResponse(a)]
  <2>4. ServeHTTP(m, ns) = IF read.status = 200
                           THEN {lit(a) : a \in GetUserReviewsAnswers(ns, read.value)}
                           ELSE {[ran |-> <<>>, resp |-> ErrorHandler(read.status)]}
    BY <2>2 DEF handleGetUserReviewsRequest, Handle
  <2>5. \A a : OutcomeOf(op, read.value, a) = lit(a)
    BY <1>7, <2>3 DEF OutcomeOf, RunOf
  <2>6. ReadBy(op, m) = read /\ AnswersOf(op, ns, read.value) = GetUserReviewsAnswers(ns, read.value)
    BY <2>3
  <2> HIDE DEF read, lit
  <2> QED
    BY <2>4, <2>5, <2>6 DEF OutcomesOf
<1>8. CASE op = "MergePullRequest"
  <2>1. m.path = "/pullRequest/merge" /\ m.method = "POST"
    BY <1>8 DEF Routed, Path, Reading
  <2>2. ServeHTTP(m, ns) = handleMergePullRequestRequest(m, ns)
    BY <2>1 DEF ServeHTTP, Allow
  <2>3. /\ ReadBy(op, m) = decodeMergePullRequestRequest(m)
        /\ \A arg : AnswersOf(op, ns, arg) = MergePullRequestAnswers(ns, arg)
        /\ \A a : WriteFor(op, a) = encodeMergePullRequestResponse(a)
    BY <1>8 DEF ReadBy, AnswersOf, WriteFor
  <2> DEFINE read == decodeMergePullRequestRequest(m)
             lit(a) == [ran  |-> <<[op |-> "MergePullRequest", arg |-> read.value, answer |-> a]>>,
                        resp |-> IF a.go = GoError.go THEN ErrorHandler(500)
                                 ELSE encodeMergePullRequestResponse(a)]
  <2>4. ServeHTTP(m, ns) = IF read.status = 200
                           THEN {lit(a) : a \in MergePullRequestAnswers(ns, read.value)}
                           ELSE {[ran |-> <<>>, resp |-> ErrorHandler(read.status)]}
    BY <2>2 DEF handleMergePullRequestRequest, Handle
  <2>5. \A a : OutcomeOf(op, read.value, a) = lit(a)
    BY <1>8, <2>3 DEF OutcomeOf, RunOf
  <2>6. ReadBy(op, m) = read /\ AnswersOf(op, ns, read.value) = MergePullRequestAnswers(ns, read.value)
    BY <2>3
  <2> HIDE DEF read, lit
  <2> QED
    BY <2>4, <2>5, <2>6 DEF OutcomesOf
<1>9. CASE op = "ReassignReviewer"
  <2>1. m.path = "/pullRequest/reassign" /\ m.method = "POST"
    BY <1>9 DEF Routed, Path, Reading
  <2>2. ServeHTTP(m, ns) = handleReassignReviewerRequest(m, ns)
    BY <2>1 DEF ServeHTTP, Allow
  <2>3. /\ ReadBy(op, m) = decodeReassignReviewerRequest(m)
        /\ \A arg : AnswersOf(op, ns, arg) = ReassignReviewerAnswers(ns, arg)
        /\ \A a : WriteFor(op, a) = encodeReassignReviewerResponse(a)
    BY <1>9 DEF ReadBy, AnswersOf, WriteFor
  <2> DEFINE read == decodeReassignReviewerRequest(m)
             lit(a) == [ran  |-> <<[op |-> "ReassignReviewer", arg |-> read.value, answer |-> a]>>,
                        resp |-> IF a.go = GoError.go THEN ErrorHandler(500)
                                 ELSE encodeReassignReviewerResponse(a)]
  <2>4. ServeHTTP(m, ns) = IF read.status = 200
                           THEN {lit(a) : a \in ReassignReviewerAnswers(ns, read.value)}
                           ELSE {[ran |-> <<>>, resp |-> ErrorHandler(read.status)]}
    BY <2>2 DEF handleReassignReviewerRequest, Handle
  <2>5. \A a : OutcomeOf(op, read.value, a) = lit(a)
    BY <1>9, <2>3 DEF OutcomeOf, RunOf
  <2>6. ReadBy(op, m) = read /\ AnswersOf(op, ns, read.value) = ReassignReviewerAnswers(ns, read.value)
    BY <2>3
  <2> HIDE DEF read, lit
  <2> QED
    BY <2>4, <2>5, <2>6 DEF OutcomesOf
<1>10. CASE op = "SetUserActive"
  <2>1. m.path = "/users/setIsActive" /\ m.method = "POST"
    BY <1>10 DEF Routed, Path, Reading
  <2>2. ServeHTTP(m, ns) = handleSetUserActiveRequest(m, ns)
    BY <2>1 DEF ServeHTTP, Allow
  <2>3. /\ ReadBy(op, m) = decodeSetUserActiveRequest(m)
        /\ \A arg : AnswersOf(op, ns, arg) = SetUserActiveAnswers(ns, arg)
        /\ \A a : WriteFor(op, a) = encodeSetUserActiveResponse(a)
    BY <1>10 DEF ReadBy, AnswersOf, WriteFor
  <2> DEFINE read == decodeSetUserActiveRequest(m)
             lit(a) == [ran  |-> <<[op |-> "SetUserActive", arg |-> read.value, answer |-> a]>>,
                        resp |-> IF a.go = GoError.go THEN ErrorHandler(500)
                                 ELSE encodeSetUserActiveResponse(a)]
  <2>4. ServeHTTP(m, ns) = IF read.status = 200
                           THEN {lit(a) : a \in SetUserActiveAnswers(ns, read.value)}
                           ELSE {[ran |-> <<>>, resp |-> ErrorHandler(read.status)]}
    BY <2>2 DEF handleSetUserActiveRequest, Handle
  <2>5. \A a : OutcomeOf(op, read.value, a) = lit(a)
    BY <1>10, <2>3 DEF OutcomeOf, RunOf
  <2>6. ReadBy(op, m) = read /\ AnswersOf(op, ns, read.value) = SetUserActiveAnswers(ns, read.value)
    BY <2>3
  <2> HIDE DEF read, lit
  <2> QED
    BY <2>4, <2>5, <2>6 DEF OutcomesOf
<1> QED
  BY <1>1, <1>2, <1>3, <1>4, <1>5, <1>6, <1>7, <1>8, <1>9, <1>10 DEF Operations

\* A request for another path, or by another method, runs nothing.
LEMMA Unrouted ==
  ASSUME NEW m, \A op \in Operations : ~Routed(m, op), NEW ns, NEW out \in ServeHTTP(m, ns)
  PROVE  out.ran = <<>>
<1>1. \A op \in Operations : m.path = Path(op) => out \in notAllowed(m)
  <2>1. CASE m.path = "/health"
    <3>1. m.method # "GET"
      BY <2>1 DEF Routed, Operations, Reading, Path
    <3> QED
      BY <2>1, <3>1 DEF ServeHTTP, Allow
  <2>2. CASE m.path = "/pullRequest/create"
    <3>1. m.method # "POST"
      BY <2>2 DEF Routed, Operations, Reading, Path
    <3> QED
      BY <2>2, <3>1 DEF ServeHTTP, Allow
  <2>3. CASE m.path = "/team/add"
    <3>1. m.method # "POST"
      BY <2>3 DEF Routed, Operations, Reading, Path
    <3> QED
      BY <2>3, <3>1 DEF ServeHTTP, Allow
  <2>4. CASE m.path = "/team/deactivate"
    <3>1. m.method # "POST"
      BY <2>4 DEF Routed, Operations, Reading, Path
    <3> QED
      BY <2>4, <3>1 DEF ServeHTTP, Allow
  <2>5. CASE m.path = "/stats/assignments"
    <3>1. m.method # "GET"
      BY <2>5 DEF Routed, Operations, Reading, Path
    <3> QED
      BY <2>5, <3>1 DEF ServeHTTP, Allow
  <2>6. CASE m.path = "/team/get"
    <3>1. m.method # "GET"
      BY <2>6 DEF Routed, Operations, Reading, Path
    <3> QED
      BY <2>6, <3>1 DEF ServeHTTP, Allow
  <2>7. CASE m.path = "/users/getReview"
    <3>1. m.method # "GET"
      BY <2>7 DEF Routed, Operations, Reading, Path
    <3> QED
      BY <2>7, <3>1 DEF ServeHTTP, Allow
  <2>8. CASE m.path = "/pullRequest/merge"
    <3>1. m.method # "POST"
      BY <2>8 DEF Routed, Operations, Reading, Path
    <3> QED
      BY <2>8, <3>1 DEF ServeHTTP, Allow
  <2>9. CASE m.path = "/pullRequest/reassign"
    <3>1. m.method # "POST"
      BY <2>9 DEF Routed, Operations, Reading, Path
    <3> QED
      BY <2>9, <3>1 DEF ServeHTTP, Allow
  <2>10. CASE m.path = "/users/setIsActive"
    <3>1. m.method # "POST"
      BY <2>10 DEF Routed, Operations, Reading, Path
    <3> QED
      BY <2>10, <3>1 DEF ServeHTTP, Allow
  <2> QED
    BY <2>1, <2>2, <2>3, <2>4, <2>5, <2>6, <2>7, <2>8, <2>9, <2>10 DEF Operations, Path
<1>2. ASSUME \A op \in Operations : m.path # Path(op) PROVE out \in notFound
  <2>1. /\ m.path # "/health" /\ m.path # "/pullRequest/create"
        /\ m.path # "/team/add" /\ m.path # "/team/deactivate"
        /\ m.path # "/stats/assignments" /\ m.path # "/team/get"
        /\ m.path # "/users/getReview" /\ m.path # "/pullRequest/merge"
        /\ m.path # "/pullRequest/reassign" /\ m.path # "/users/setIsActive"
    BY <1>2 DEF Operations, Path
  <2>2. ServeHTTP(m, ns) = notFound
    BY <2>1 DEF ServeHTTP
  <2> QED
    BY <2>2
<1>3. out \in notFound => out.ran = <<>>
  BY DEF notFound
<1>4. out \in notAllowed(m) => out.ran = <<>>
  BY DEF notAllowed
<1> QED
  BY <1>1, <1>2, <1>3, <1>4

(***************************************************************************)
(* Part 4.  Requests arrive.                                               *)
(***************************************************************************)
\* The content types differ.
LEMMA TypesApart == Json # Empty /\ Json # Plain
  BY DEF Json, Empty, Plain

\* What DecodeBody makes of the body of m that is read as read.
BodyOf(m, read) ==
  CASE m.ctype = Json /\ read # {} -> Good(The(read))
    [] m.ctype \notin {Json, Empty} -> Bad(415)
    [] m.ctype = Empty \/ (m.ctype = Json /\ read = {}) -> Bad(400)

\* The body is announced as JSON.
LEMMA BodyAnnounced ==
  ASSUME NEW m, m.ctype = Json, NEW read
  PROVE  BodyOf(m, read) = IF read = {} THEN Bad(400) ELSE Good(The(read))
  BY TypesApart DEF BodyOf

\* A valid request body is read as what was sent, another one is refused.
LEMMA CreatePullRequestArrives ==
  ASSUME NEW arg, IsCreatePullRequestReq(arg)
  PROVE  decodeCreatePullRequestRequest(sendCreatePullRequest(arg)) =
           IF ValidCreatePullRequestReq(arg) THEN Good(arg) ELSE Bad(400)
<1> DEFINE m == sendCreatePullRequest(arg)
           read == IF Len(m.body) = 1
                   THEN {v \in Decode(CreatePullRequestReq, m.body[1]) : ValidCreatePullRequestReq(v)}
                   ELSE {}
<1>1. m.ctype = Json /\ m.body = <<Encode(CreatePullRequestReq, arg)>>
  BY DEF sendCreatePullRequest, encodeCreatePullRequestRequest, Post
<1>2. Len(m.body) = 1 /\ Decode(CreatePullRequestReq, m.body[1]) = {arg}
  BY <1>1, CreatePullRequestReqThrough
<1> HIDE DEF m
<1>3. read = IF ValidCreatePullRequestReq(arg) THEN {arg} ELSE {}
  BY <1>2
<1>4. decodeCreatePullRequestRequest(m) = BodyOf(m, read)
  BY DEF decodeCreatePullRequestRequest, DecodeBody, BodyOf
<1> HIDE DEF read
<1>5. decodeCreatePullRequestRequest(m) = IF read = {} THEN Bad(400) ELSE Good(The(read))
  BY <1>1, <1>4, BodyAnnounced
<1> QED
  BY <1>3, <1>5, TheOne DEF m

\* CreateTeam: the server reads what the client was asked to send, or refuses it.
LEMMA CreateTeamArrives ==
  ASSUME NEW arg, IsTeam(arg)
  PROVE  decodeCreateTeamRequest(sendCreateTeam(arg)) =
           IF ValidTeam(arg) THEN Good(arg) ELSE Bad(400)
<1> DEFINE m == sendCreateTeam(arg)
           read == IF Len(m.body) = 1 THEN {v \in Decode(Team, m.body[1]) : ValidTeam(v)}
                   ELSE {}
<1>1. m.ctype = Json /\ m.body = <<Encode(Team, arg)>>
  BY DEF sendCreateTeam, encodeCreateTeamRequest, Post
<1>2. Len(m.body) = 1 /\ Decode(Team, m.body[1]) = {arg}
  BY <1>1, TeamThrough
<1> HIDE DEF m
<1>3. read = IF ValidTeam(arg) THEN {arg} ELSE {}
  BY <1>2
<1>4. decodeCreateTeamRequest(m) = BodyOf(m, read)
  BY DEF decodeCreateTeamRequest, DecodeBody, BodyOf
<1> HIDE DEF read
<1>5. decodeCreateTeamRequest(m) = IF read = {} THEN Bad(400) ELSE Good(The(read))
  BY <1>1, <1>4, BodyAnnounced
<1> QED
  BY <1>3, <1>5, TheOne DEF m

\* DeactivateTeamMembers: the server reads what the client was asked to send, or refuses it.
LEMMA DeactivateTeamMembersArrives ==
  ASSUME NEW arg, IsDeactivateTeamMembersReq(arg)
  PROVE  decodeDeactivateTeamMembersRequest(sendDeactivateTeamMembers(arg)) =
           IF ValidDeactivateTeamMembersReq(arg) THEN Good(arg) ELSE Bad(400)
<1> DEFINE m == sendDeactivateTeamMembers(arg)
           read == IF Len(m.body) = 1
                   THEN {v \in Decode(DeactivateTeamMembersReq, m.body[1]) : ValidDeactivateTeamMembersReq(v)}
                   ELSE {}
<1>1. m.ctype = Json /\ m.body = <<Encode(DeactivateTeamMembersReq, arg)>>
  BY DEF sendDeactivateTeamMembers, encodeDeactivateTeamMembersRequest, Post
<1>2. Len(m.body) = 1 /\ Decode(DeactivateTeamMembersReq, m.body[1]) = {arg}
  BY <1>1, DeactivateTeamMembersReqThrough
<1> HIDE DEF m
<1>3. read = IF ValidDeactivateTeamMembersReq(arg) THEN {arg} ELSE {}
  BY <1>2
<1>4. decodeDeactivateTeamMembersRequest(m) = BodyOf(m, read)
  BY DEF decodeDeactivateTeamMembersRequest, DecodeBody, BodyOf
<1> HIDE DEF read
<1>5. decodeDeactivateTeamMembersRequest(m) = IF read = {} THEN Bad(400) ELSE Good(The(read))
  BY <1>1, <1>4, BodyAnnounced
<1> QED
  BY <1>3, <1>5, TheOne DEF m

\* MergePullRequest: the server reads what the client was asked to send, or refuses it.
LEMMA MergePullRequestArrives ==
  ASSUME NEW arg, IsMergePullRequestReq(arg)
  PROVE  decodeMergePullRequestRequest(sendMergePullRequest(arg)) =
           IF Unrestricted(arg) THEN Good(arg) ELSE Bad(400)
<1> DEFINE m == sendMergePullRequest(arg)
           read == IF Len(m.body) = 1
                   THEN {v \in Decode(MergePullRequestReq, m.body[1]) : Unrestricted(v)}
                   ELSE {}
<1>1. m.ctype = Json /\ m.body = <<Encode(MergePullRequestReq, arg)>>
  BY DEF sendMergePullRequest, encodeMergePullRequestRequest, Post
<1>2. Len(m.body) = 1 /\ Decode(MergePullRequestReq, m.body[1]) = {arg}
  BY <1>1, MergePullRequestReqThrough
<1> HIDE DEF m
<1>3. read = IF Unrestricted(arg) THEN {arg} ELSE {}
  BY <1>2
<1>4. decodeMergePullRequestRequest(m) = BodyOf(m, read)
  BY DEF decodeMergePullRequestRequest, DecodeBody, BodyOf
<1> HIDE DEF read
<1>5. decodeMergePullRequestRequest(m) = IF read = {} THEN Bad(400) ELSE Good(The(read))
  BY <1>1, <1>4, BodyAnnounced
<1> QED
  BY <1>3, <1>5, TheOne DEF m

\* ReassignReviewer: the server reads what the client was asked to send, or refuses it.
LEMMA ReassignReviewerArrives ==
  ASSUME NEW arg, IsReassignReviewerReq(arg)
  PROVE  decodeReassignReviewerRequest(sendReassignReviewer(arg)) =
           IF Unrestricted(arg) THEN Good(arg) ELSE Bad(400)
<1> DEFINE m == sendReassignReviewer(arg)
           read == IF Len(m.body) = 1
                   THEN {v \in Decode(ReassignReviewerReq, m.body[1]) : Unrestricted(v)}
                   ELSE {}
<1>1. m.ctype = Json /\ m.body = <<Encode(ReassignReviewerReq, arg)>>
  BY DEF sendReassignReviewer, encodeReassignReviewerRequest, Post
<1>2. Len(m.body) = 1 /\ Decode(ReassignReviewerReq, m.body[1]) = {arg}
  BY <1>1, ReassignReviewerReqThrough
<1> HIDE DEF m
<1>3. read = IF Unrestricted(arg) THEN {arg} ELSE {}
  BY <1>2
<1>4. decodeReassignReviewerRequest(m) = BodyOf(m, read)
  BY DEF decodeReassignReviewerRequest, DecodeBody, BodyOf
<1> HIDE DEF read
<1>5. decodeReassignReviewerRequest(m) = IF read = {} THEN Bad(400) ELSE Good(The(read))
  BY <1>1, <1>4, BodyAnnounced
<1> QED
  BY <1>3, <1>5, TheOne DEF m

\* SetUserActive: the server reads what the client was asked to send, or refuses it.
LEMMA SetUserActiveArrives ==
  ASSUME NEW arg, IsSetUserActiveReq(arg)
  PROVE  decodeSetUserActiveRequest(sendSetUserActive(arg)) =
           IF Unrestricted(arg) THEN Good(arg) ELSE Bad(400)
<1> DEFINE m == sendSetUserActive(arg)
           read == IF Len(m.body) = 1
                   THEN {v \in Decode(SetUserActiveReq, m.body[1]) : Unrestricted(v)}
                   ELSE {}
<1>1. m.ctype = Json /\ m.body = <<Encode(SetUserActiveReq, arg)>>
  BY DEF sendSetUserActive, encodeSetUserActiveRequest, Post
<1>2. Len(m.body) = 1 /\ Decode(SetUserActiveReq, m.body[1]) = {arg}
  BY <1>1, SetUserActiveReqThrough
<1> HIDE DEF m
<1>3. read = IF Unrestricted(arg) THEN {arg} ELSE {}
  BY <1>2
<1>4. decodeSetUserActiveRequest(m) = BodyOf(m, read)
  BY DEF decodeSetUserActiveRequest, DecodeBody, BodyOf
<1> HIDE DEF read
<1>5. decodeSetUserActiveRequest(m) = IF read = {} THEN Bad(400) ELSE Good(The(read))
  BY <1>1, <1>4, BodyAnnounced
<1> QED
  BY <1>3, <1>5, TheOne DEF m

\* GetTeam: the server reads what the client was asked to send, or refuses it.
LEMMA GetTeamArrives ==
  ASSUME NEW arg, arg = [team_name |-> arg.team_name]
  PROVE  decodeGetTeamParams(sendGetTeam(arg)) =
           IF ValidTeamName(arg.team_name) THEN Good(arg) ELSE Bad(400)
<1> DEFINE m == sendGetTeam(arg)
<1>1. m.query = [team_name |-> arg.team_name]
  BY DEF sendGetTeam, Get
<1> HIDE DEF m
<1>2. "team_name" \in DOMAIN m.query /\ m.query["team_name"] = arg.team_name
  BY <1>1
<1> QED
  BY <1>2 DEF decodeGetTeamParams, m

\* GetUserReviews: the server reads what the client was asked to send, or refuses it.
LEMMA GetUserReviewsArrives ==
  ASSUME NEW arg, arg = [user_id |-> arg.user_id], arg.user_id \in Uuids
  PROVE  decodeGetUserReviewsParams(sendGetUserReviews(arg)) = Good(arg)
<1> DEFINE m == sendGetUserReviews(arg)
<1>1. m.query = [user_id |-> arg.user_id]
  BY DEF sendGetUserReviews, Get
<1> HIDE DEF m
<1>2. "user_id" \in DOMAIN m.query /\ m.query["user_id"] = arg.user_id
  BY <1>1
<1>3. arg.user_id \in DOMAIN UuidOf /\ UuidOf[arg.user_id] = arg.user_id
  BY IdsAndTimes
<1> QED
  BY <1>2, <1>3 DEF decodeGetUserReviewsParams, m

\* An element of a sequence is in its set.
LEMMA Elements == \A S : \A s \in Seq(S) : \A i \in DOMAIN s : s[i] \in S
  OBVIOUS

\* The callers of the client give Go values of the right types.
LEMMA ArgsAreGo ==
  /\ \A arg \in Args["CheckHealth"] \cup Args["GetAssignmentStats"] : arg = NoArg
  /\ \A arg \in Args["CreatePullRequest"] : IsCreatePullRequestReq(arg)
  /\ \A arg \in Args["CreateTeam"] : IsTeam(arg)
  /\ \A arg \in Args["DeactivateTeamMembers"] : IsDeactivateTeamMembersReq(arg)
  /\ \A arg \in Args["GetTeam"] : arg = [team_name |-> arg.team_name]
  /\ \A arg \in Args["GetUserReviews"] : arg = [user_id |-> arg.user_id] /\ arg.user_id \in Uuids
  /\ \A arg \in Args["MergePullRequest"] : IsMergePullRequestReq(arg)
  /\ \A arg \in Args["ReassignReviewer"] : IsReassignReviewerReq(arg)
  /\ \A arg \in Args["SetUserActive"] : IsSetUserActiveReq(arg)
<1>1. \A arg \in Args["CheckHealth"] \cup Args["GetAssignmentStats"] : arg = NoArg
  BY ArgsTyped
<1>2. \A arg \in Args["CreatePullRequest"] : IsCreatePullRequestReq(arg)
  BY ArgsTyped DEF IsCreatePullRequestReq
<1>3. ASSUME NEW arg \in Args["CreateTeam"] PROVE IsTeam(arg)
  <2>1. /\ arg = [team_name |-> arg.team_name, members |-> arg.members]
        /\ arg.members \in Seq([user_id : Uuids, username : STRING, is_active : BOOLEAN])
    BY <1>3, ArgsTyped
  <2>2. IsList(arg.members)
    BY <2>1 DEF IsList
  <2>3. \A i \in DOMAIN arg.members :
          arg.members[i] \in [user_id : Uuids, username : STRING, is_active : BOOLEAN]
    BY <2>1, Elements
  <2>4. \A i \in DOMAIN arg.members : IsTeamMember(arg.members[i])
    BY <2>3 DEF IsTeamMember
  <2> QED
    BY <2>1, <2>2, <2>4 DEF IsTeam
<1>4. \A arg \in Args["DeactivateTeamMembers"] : IsDeactivateTeamMembersReq(arg)
  BY ArgsTyped DEF IsDeactivateTeamMembersReq
<1>5. \A arg \in Args["GetTeam"] : arg = [team_name |-> arg.team_name]
  BY ArgsTyped
<1>6. \A arg \in Args["GetUserReviews"] : arg = [user_id |-> arg.user_id] /\ arg.user_id \in Uuids
  BY ArgsTyped
<1>7. \A arg \in Args["MergePullRequest"] : IsMergePullRequestReq(arg)
  BY ArgsTyped DEF IsMergePullRequestReq
<1>8. \A arg \in Args["ReassignReviewer"] : IsReassignReviewerReq(arg)
  BY ArgsTyped DEF IsReassignReviewerReq
<1>9. \A arg \in Args["SetUserActive"] : IsSetUserActiveReq(arg)
  BY ArgsTyped DEF IsSetUserActiveReq
<1> QED
  BY <1>1, <1>2, <1>3, <1>4, <1>5, <1>6, <1>7, <1>8, <1>9

\* What was read has status 200.
LEMMA ReadStatus == (\A v : Good(v).status = 200 /\ Good(v).value = v) /\ Bad(400).status = 400
  BY DEF Good, Bad

\* What the client sends of a call, the router brings to the handler of the
\* operation, which reads what the caller asked, or refuses what the schemas of
\* openapi.yaml do not admit.
LEMMA RequestsArrive ==
  ASSUME NEW op \in Operations, NEW arg \in Args[op],
         NEW read, read = ReadBy(op, Send(op, arg))
  PROVE  /\ Routed(Send(op, arg), op)
         /\ read = Good(arg) \/ (read = Bad(400) /\ arg \notin Admitted[op])
<1>1. CASE op = "CheckHealth"
  <2>1. Send(op, arg) = sendCheckHealth
    BY <1>1 DEF Send
  <2>2. Routed(Send(op, arg), op)
    BY <1>1, <2>1 DEF Routed, Path, Reading, sendCheckHealth, Get
  <2>3. read = Good(NoArg)
    BY <1>1 DEF ReadBy
  <2> QED
    BY <1>1, <2>2, <2>3, ArgsAreGo
<1>2. CASE op = "CreatePullRequest"
  <2>1. Send(op, arg) = sendCreatePullRequest(arg)
    BY <1>2 DEF Send
  <2>2. Routed(Send(op, arg), op)
    BY <1>2, <2>1 DEF Routed, Path, Reading, sendCreatePullRequest, Post
  <2>3. read = decodeCreatePullRequestRequest(sendCreatePullRequest(arg))
    BY <1>2, <2>1 DEF ReadBy
  <2>4. read = IF ValidCreatePullRequestReq(arg) THEN Good(arg) ELSE Bad(400)
    BY <1>2, <2>3, ArgsAreGo, CreatePullRequestArrives
  <2>5. arg \in Admitted[op] => ValidCreatePullRequestReq(arg)
    BY <1>2, AdmittedByOpenApi DEF ValidCreatePullRequestReq, ValidPullRequestName
  <2> QED
    BY <2>2, <2>4, <2>5
<1>3. CASE op = "CreateTeam"
  <2>1. Send(op, arg) = sendCreateTeam(arg)
    BY <1>3 DEF Send
  <2>2. Routed(Send(op, arg), op)
    BY <1>3, <2>1 DEF Routed, Path, Reading, sendCreateTeam, Post
  <2>3. read = decodeCreateTeamRequest(sendCreateTeam(arg))
    BY <1>3, <2>1 DEF ReadBy
  <2>4. read = IF ValidTeam(arg) THEN Good(arg) ELSE Bad(400)
    BY <1>3, <2>3, ArgsAreGo, CreateTeamArrives
  <2>5. arg \in Admitted[op] => ValidTeam(arg)
    BY <1>3, AdmittedByOpenApi DEF ValidTeam, ValidTeamName, ValidTeamMember, ValidUsername
  <2> QED
    BY <2>2, <2>4, <2>5
<1>4. CASE op = "DeactivateTeamMembers"
  <2>1. Send(op, arg) = sendDeactivateTeamMembers(arg)
    BY <1>4 DEF Send
  <2>2. Routed(Send(op, arg), op)
    BY <1>4, <2>1 DEF Routed, Path, Reading, sendDeactivateTeamMembers, Post
  <2>3. read = decodeDeactivateTeamMembersRequest(sendDeactivateTeamMembers(arg))
    BY <1>4, <2>1 DEF ReadBy
  <2>4. read = IF ValidDeactivateTeamMembersReq(arg) THEN Good(arg) ELSE Bad(400)
    BY <1>4, <2>3, ArgsAreGo, DeactivateTeamMembersArrives
  <2>5. arg \in Admitted[op] => ValidDeactivateTeamMembersReq(arg)
    BY <1>4, AdmittedByOpenApi DEF ValidDeactivateTeamMembersReq, ValidTeamName
  <2> QED
    BY <2>2, <2>4, <2>5
<1>5. CASE op = "GetAssignmentStats"
  <2>1. Send(op, arg) = sendGetAssignmentStats
    BY <1>5 DEF Send
  <2>2. Routed(Send(op, arg), op)
    BY <1>5, <2>1 DEF Routed, Path, Reading, sendGetAssignmentStats, Get
  <2>3. read = Good(NoArg)
    BY <1>5 DEF ReadBy
  <2> QED
    BY <1>5, <2>2, <2>3, ArgsAreGo
<1>6. CASE op = "GetTeam"
  <2>1. Send(op, arg) = sendGetTeam(arg)
    BY <1>6 DEF Send
  <2>2. Routed(Send(op, arg), op)
    BY <1>6, <2>1 DEF Routed, Path, Reading, sendGetTeam, Get
  <2>3. read = decodeGetTeamParams(sendGetTeam(arg))
    BY <1>6, <2>1 DEF ReadBy
  <2>4. read = IF ValidTeamName(arg.team_name) THEN Good(arg) ELSE Bad(400)
    BY <1>6, <2>3, ArgsAreGo, GetTeamArrives
  <2>5. arg \in Admitted[op] => ValidTeamName(arg.team_name)
    BY <1>6, AdmittedByOpenApi DEF ValidTeamName
  <2> QED
    BY <2>2, <2>4, <2>5
<1>7. CASE op = "GetUserReviews"
  <2>1. Send(op, arg) = sendGetUserReviews(arg)
    BY <1>7 DEF Send
  <2>2. Routed(Send(op, arg), op)
    BY <1>7, <2>1 DEF Routed, Path, Reading, sendGetUserReviews, Get
  <2>3. read = decodeGetUserReviewsParams(sendGetUserReviews(arg))
    BY <1>7, <2>1 DEF ReadBy
  <2>4. read = Good(arg)
    BY <1>7, <2>3, ArgsAreGo, GetUserReviewsArrives
  <2> QED
    BY <2>2, <2>4
<1>8. CASE op = "MergePullRequest"
  <2>1. Send(op, arg) = sendMergePullRequest(arg)
    BY <1>8 DEF Send
  <2>2. Routed(Send(op, arg), op)
    BY <1>8, <2>1 DEF Routed, Path, Reading, sendMergePullRequest, Post
  <2>3. read = decodeMergePullRequestRequest(sendMergePullRequest(arg))
    BY <1>8, <2>1 DEF ReadBy
  <2>4. read = IF Unrestricted(arg) THEN Good(arg) ELSE Bad(400)
    BY <1>8, <2>3, ArgsAreGo, MergePullRequestArrives
  <2>5. arg \in Admitted[op] => Unrestricted(arg)
    BY <1>8, AdmittedByOpenApi DEF Unrestricted
  <2> QED
    BY <2>2, <2>4, <2>5
<1>9. CASE op = "ReassignReviewer"
  <2>1. Send(op, arg) = sendReassignReviewer(arg)
    BY <1>9 DEF Send
  <2>2. Routed(Send(op, arg), op)
    BY <1>9, <2>1 DEF Routed, Path, Reading, sendReassignReviewer, Post
  <2>3. read = decodeReassignReviewerRequest(sendReassignReviewer(arg))
    BY <1>9, <2>1 DEF ReadBy
  <2>4. read = IF Unrestricted(arg) THEN Good(arg) ELSE Bad(400)
    BY <1>9, <2>3, ArgsAreGo, ReassignReviewerArrives
  <2>5. arg \in Admitted[op] => Unrestricted(arg)
    BY <1>9, AdmittedByOpenApi DEF Unrestricted
  <2> QED
    BY <2>2, <2>4, <2>5
<1>10. CASE op = "SetUserActive"
  <2>1. Send(op, arg) = sendSetUserActive(arg)
    BY <1>10 DEF Send
  <2>2. Routed(Send(op, arg), op)
    BY <1>10, <2>1 DEF Routed, Path, Reading, sendSetUserActive, Post
  <2>3. read = decodeSetUserActiveRequest(sendSetUserActive(arg))
    BY <1>10, <2>1 DEF ReadBy
  <2>4. read = IF Unrestricted(arg) THEN Good(arg) ELSE Bad(400)
    BY <1>10, <2>3, ArgsAreGo, SetUserActiveArrives
  <2>5. arg \in Admitted[op] => Unrestricted(arg)
    BY <1>10, AdmittedByOpenApi DEF Unrestricted
  <2> QED
    BY <2>2, <2>4, <2>5
<1> QED
  BY <1>1, <1>2, <1>3, <1>4, <1>5, <1>6, <1>7, <1>8, <1>9, <1>10 DEF Operations

(***************************************************************************)
(* Part 5.  Answers are understood.                                        *)
(***************************************************************************)
HoldsValidNames(ns) ==
  /\ \A n \in ns.teams : ValidTeamName(n)
  /\ \A n \in ns.users : ValidUsername(n)
  /\ \A n \in ns.prs   : ValidPullRequestName(n)

\* An answer is written under the status of its type.
LEMMA WrittenAs ==
  ASSUME NEW types, NEW status, NEW type, <<status, type>> \in types,
         NEW a, a.go = type.go,
         \A t \in types : t[2].go = type.go => t = <<status, type>>
  PROVE  Written(a, types) = Response(status, Json, <<Encode(type, a.value)>>)
<1> DEFINE t == <<status, type>>
<1>1. {u \in types : u[2].go = a.go} = {t}
  OBVIOUS
<1>2. t[1] = status /\ t[2] = type
  OBVIOUS
<1> HIDE DEF t
<1> QED
  BY <1>1, <1>2, TheOne DEF Written

\* A response is read by the branch of its status alone.
LEMMA OtherStatus ==
  ASSUME NEW status, NEW body, NEW s, s # status, NEW type
  PROVE  ReadError(Response(status, Json, body), s, type) = {}
  BY DEF ReadError, Read, Response

ErrorCodes == {"TEAM_EXISTS", "PR_EXISTS", "PR_MERGED", "NOT_ASSIGNED", "NO_CANDIDATE",
               "NOT_FOUND", "INTERNAL_ERROR"}

\* An error response is understood as the type of its status.
LEMMA ErrorRead ==
  ASSUME NEW go, NEW code \in ErrorCodes, NEW status,
         NEW type, type = Alias(go, ErrorResponse),
         NEW a, a = Failure(type, code)
  PROVE  ReadError(Response(status, Json, <<Encode(type, a.value)>>), status, type) = {a}
<1> DEFINE v == [error |-> [code |-> code, message |-> "..."]]
           body == Encode(type, v)
<1>1. a.value = v /\ a = Answer(type, v)
  BY DEF Failure, Answer
<1>2. Decode(type, body) = {v}
  BY ErrorResponseThrough
<1>3. ValidErrorResponse(v)
  BY DEF ValidErrorResponse, ValidErrorResponseError, ValidErrorResponseErrorCode, ErrorCodes
<1> HIDE DEF v
<1>4. {x \in Decode(type, body) : ValidErrorResponse(x)} = {v}
  BY <1>2, <1>3
<1> DEFINE r == Response(status, Json, <<body>>)
<1>5. r.status = status /\ r.ctype = Json /\ Len(r.body) = 1 /\ r.body[1] = body
  BY DEF Response
<1> HIDE DEF body, r
<1>6. ReadError(r, status, type) =
        {Answer(type, x) : x \in {x \in Decode(type, body) : ValidErrorResponse(x)}}
  BY <1>5 DEF ReadError, Read
<1>7. ReadError(r, status, type) = {a}
  BY <1>1, <1>4, <1>6
<1> QED
  BY <1>1, <1>7 DEF r, body

\* Each type an operation answers with is written under the status it names.
LEMMA CreatePullRequestWritten ==
  ASSUME NEW a
  PROVE  /\ a.go = "CreatePullRequestCreated" =>
              encodeCreatePullRequestResponse(a) =
                Response(201, Json, <<Encode(CreatePullRequestCreated, a.value)>>)
         /\ a.go = "CreatePullRequestNotFound" =>
              encodeCreatePullRequestResponse(a) =
                Response(404, Json, <<Encode(CreatePullRequestNotFound, a.value)>>)
         /\ a.go = "CreatePullRequestConflict" =>
              encodeCreatePullRequestResponse(a) =
                Response(409, Json, <<Encode(CreatePullRequestConflict, a.value)>>)
         /\ a.go = "CreatePullRequestInternalServerError" =>
              encodeCreatePullRequestResponse(a) =
                Response(500, Json, <<Encode(CreatePullRequestInternalServerError, a.value)>>)
<1> DEFINE types == {<<201, CreatePullRequestCreated>>,
                     <<400, CreatePullRequestBadRequest>>,
                     <<404, CreatePullRequestNotFound>>,
                     <<409, CreatePullRequestConflict>>,
                     <<500, CreatePullRequestInternalServerError>>}
<1>1. /\ CreatePullRequestCreated.go = "CreatePullRequestCreated"
      /\ CreatePullRequestBadRequest.go = "CreatePullRequestBadRequest"
      /\ CreatePullRequestNotFound.go = "CreatePullRequestNotFound"
      /\ CreatePullRequestConflict.go = "CreatePullRequestConflict"
      /\ CreatePullRequestInternalServerError.go = "CreatePullRequestInternalServerError"
  BY DEF CreatePullRequestCreated, CreatePullRequestBadRequest,
         CreatePullRequestNotFound, CreatePullRequestConflict,
         CreatePullRequestInternalServerError, Alias, ErrorResponse, Object
<1>2. encodeCreatePullRequestResponse(a) = Written(a, types)
  BY DEF encodeCreatePullRequestResponse
<1>3. a.go = "CreatePullRequestCreated" =>
        Written(a, types) = Response(201, Json, <<Encode(CreatePullRequestCreated, a.value)>>)
  <2>1. <<201, CreatePullRequestCreated>> \in types /\ \A u \in types :
          u[2].go = CreatePullRequestCreated.go => u = <<201, CreatePullRequestCreated>>
    BY <1>1
  <2> HIDE DEF types
  <2> QED
    BY <1>1, <2>1, WrittenAs
<1>4. a.go = "CreatePullRequestNotFound" =>
        Written(a, types) = Response(404, Json, <<Encode(CreatePullRequestNotFound, a.value)>>)
  <2>1. <<404, CreatePullRequestNotFound>> \in types /\ \A u \in types :
          u[2].go = CreatePullRequestNotFound.go => u = <<404, CreatePullRequestNotFound>>
    BY <1>1
  <2> HIDE DEF types
  <2> QED
    BY <1>1, <2>1, WrittenAs
<1>5. a.go = "CreatePullRequestConflict" =>
        Written(a, types) = Response(409, Json, <<Encode(CreatePullRequestConflict, a.value)>>)
  <2>1. <<409, CreatePullRequestConflict>> \in types /\ \A u \in types :
          u[2].go = CreatePullRequestConflict.go => u = <<409, CreatePullRequestConflict>>
    BY <1>1
  <2> HIDE DEF types
  <2> QED
    BY <1>1, <2>1, WrittenAs
<1>6. a.go = "CreatePullRequestInternalServerError" =>
        Written(a, types) =
                Response(500, Json, <<Encode(CreatePullRequestInternalServerError, a.value)>>)
  <2>1. <<500, CreatePullRequestInternalServerError>> \in types /\ \A u \in types :
          u[2].go = CreatePullRequestInternalServerError.go
            => u = <<500, CreatePullRequestInternalServerError>>
    BY <1>1
  <2> HIDE DEF types
  <2> QED
    BY <1>1, <2>1, WrittenAs
<1> HIDE DEF types
<1> QED
  BY <1>2, <1>3, <1>4, <1>5, <1>6

\* CreateTeam: each type of answer has its status.
LEMMA CreateTeamWritten ==
  ASSUME NEW a
  PROVE  /\ a.go = "CreateTeamCreated" =>
              encodeCreateTeamResponse(a) =
                Response(201, Json, <<Encode(CreateTeamCreated, a.value)>>)
         /\ a.go = "CreateTeamConflict" =>
              encodeCreateTeamResponse(a) =
                Response(409, Json, <<Encode(CreateTeamConflict, a.value)>>)
         /\ a.go = "CreateTeamInternalServerError" =>
              encodeCreateTeamResponse(a) =
                Response(500, Json, <<Encode(CreateTeamInternalServerError, a.value)>>)
<1> DEFINE types == {<<201, CreateTeamCreated>>, <<400, CreateTeamBadRequest>>,
                     <<409, CreateTeamConflict>>, <<500, CreateTeamInternalServerError>>}
<1>1. /\ CreateTeamCreated.go = "CreateTeamCreated"
      /\ CreateTeamBadRequest.go = "CreateTeamBadRequest"
      /\ CreateTeamConflict.go = "CreateTeamConflict"
      /\ CreateTeamInternalServerError.go = "CreateTeamInternalServerError"
  BY DEF CreateTeamCreated, CreateTeamBadRequest, CreateTeamConflict,
         CreateTeamInternalServerError, Alias, ErrorResponse, Object
<1>2. encodeCreateTeamResponse(a) = Written(a, types)
  BY DEF encodeCreateTeamResponse
<1>3. a.go = "CreateTeamCreated" =>
        Written(a, types) = Response(201, Json, <<Encode(CreateTeamCreated, a.value)>>)
  <2>1. <<201, CreateTeamCreated>> \in types /\ \A u \in types :
          u[2].go = CreateTeamCreated.go => u = <<201, CreateTeamCreated>>
    BY <1>1
  <2> HIDE DEF types
  <2> QED
    BY <1>1, <2>1, WrittenAs
<1>4. a.go = "CreateTeamConflict" =>
        Written(a, types) = Response(409, Json, <<Encode(CreateTeamConflict, a.value)>>)
  <2>1. <<409, CreateTeamConflict>> \in types /\ \A u \in types :
          u[2].go = CreateTeamConflict.go => u = <<409, CreateTeamConflict>>
    BY <1>1
  <2> HIDE DEF types
  <2> QED
    BY <1>1, <2>1, WrittenAs
<1>5. a.go = "CreateTeamInternalServerError" =>
        Written(a, types) = Response(500, Json, <<Encode(CreateTeamInternalServerError, a.value)>>)
  <2>1. <<500, CreateTeamInternalServerError>> \in types /\ \A u \in types :
          u[2].go = CreateTeamInternalServerError.go => u = <<500, CreateTeamInternalServerError>>
    BY <1>1
  <2> HIDE DEF types
  <2> QED
    BY <1>1, <2>1, WrittenAs
<1> HIDE DEF types
<1> QED
  BY <1>2, <1>3, <1>4, <1>5

\* DeactivateTeamMembers: each type of answer has its status.
LEMMA DeactivateTeamMembersWritten ==
  ASSUME NEW a
  PROVE  /\ a.go = "DeactivateTeamMembersOK" =>
              encodeDeactivateTeamMembersResponse(a) =
                Response(200, Json, <<Encode(DeactivateTeamMembersOK, a.value)>>)
         /\ a.go = "DeactivateTeamMembersNotFound" =>
              encodeDeactivateTeamMembersResponse(a) =
                Response(404, Json, <<Encode(DeactivateTeamMembersNotFound, a.value)>>)
         /\ a.go = "DeactivateTeamMembersInternalServerError" =>
              encodeDeactivateTeamMembersResponse(a) =
                Response(500, Json, <<Encode(DeactivateTeamMembersInternalServerError, a.value)>>)
<1> DEFINE types == {<<200, DeactivateTeamMembersOK>>,
                     <<400, DeactivateTeamMembersBadRequest>>,
                     <<404, DeactivateTeamMembersNotFound>>,
                     <<500, DeactivateTeamMembersInternalServerError>>}
<1>1. /\ DeactivateTeamMembersOK.go = "DeactivateTeamMembersOK"
      /\ DeactivateTeamMembersBadRequest.go = "DeactivateTeamMembersBadRequest"
      /\ DeactivateTeamMembersNotFound.go = "DeactivateTeamMembersNotFound"
      /\ DeactivateTeamMembersInternalServerError.go = "DeactivateTeamMembersInternalServerError"
  BY DEF DeactivateTeamMembersOK, DeactivateTeamMembersBadRequest,
         DeactivateTeamMembersNotFound, DeactivateTeamMembersInternalServerError, Alias,
         ErrorResponse, Object
<1>2. encodeDeactivateTeamMembersResponse(a) = Written(a, types)
  BY DEF encodeDeactivateTeamMembersResponse
<1>3. a.go = "DeactivateTeamMembersOK" =>
        Written(a, types) = Response(200, Json, <<Encode(DeactivateTeamMembersOK, a.value)>>)
  <2>1. <<200, DeactivateTeamMembersOK>> \in types /\ \A u \in types :
          u[2].go = DeactivateTeamMembersOK.go => u = <<200, DeactivateTeamMembersOK>>
    BY <1>1
  <2> HIDE DEF types
  <2> QED
    BY <1>1, <2>1, WrittenAs
<1>4. a.go = "DeactivateTeamMembersNotFound" =>
        Written(a, types) = Response(404, Json, <<Encode(DeactivateTeamMembersNotFound, a.value)>>)
  <2>1. <<404, DeactivateTeamMembersNotFound>> \in types /\ \A u \in types :
          u[2].go = DeactivateTeamMembersNotFound.go => u = <<404, DeactivateTeamMembersNotFound>>
    BY <1>1
  <2> HIDE DEF types
  <2> QED
    BY <1>1, <2>1, WrittenAs
<1>5. a.go = "DeactivateTeamMembersInternalServerError" =>
        Written(a, types) =
                Response(500, Json, <<Encode(DeactivateTeamMembersInternalServerError, a.value)>>)
  <2>1. <<500, DeactivateTeamMembersInternalServerError>> \in types /\ \A u \in types :
          u[2].go = DeactivateTeamMembersInternalServerError.go
            => u = <<500, DeactivateTeamMembersInternalServerError>>
    BY <1>1
  <2> HIDE DEF types
  <2> QED
    BY <1>1, <2>1, WrittenAs
<1> HIDE DEF types
<1> QED
  BY <1>2, <1>3, <1>4, <1>5

\* GetAssignmentStats: each type of answer has its status.
LEMMA GetAssignmentStatsWritten ==
  ASSUME NEW a
  PROVE  /\ a.go = "GetAssignmentStatsOK" =>
              encodeGetAssignmentStatsResponse(a) =
                Response(200, Json, <<Encode(GetAssignmentStatsOK, a.value)>>)
<1> DEFINE types == {<<200, GetAssignmentStatsOK>>, <<500, ErrorResponse>>}
<1>1. /\ GetAssignmentStatsOK.go = "GetAssignmentStatsOK"
      /\ ErrorResponse.go = "ErrorResponse"
  BY DEF GetAssignmentStatsOK, ErrorResponse, Alias, Object
<1>2. encodeGetAssignmentStatsResponse(a) = Written(a, types)
  BY DEF encodeGetAssignmentStatsResponse
<1>3. a.go = "GetAssignmentStatsOK" =>
        Written(a, types) = Response(200, Json, <<Encode(GetAssignmentStatsOK, a.value)>>)
  <2>1. <<200, GetAssignmentStatsOK>> \in types /\ \A u \in types :
          u[2].go = GetAssignmentStatsOK.go => u = <<200, GetAssignmentStatsOK>>
    BY <1>1
  <2> HIDE DEF types
  <2> QED
    BY <1>1, <2>1, WrittenAs
<1> HIDE DEF types
<1> QED
  BY <1>2, <1>3

\* GetTeam: each type of answer has its status.
LEMMA GetTeamWritten ==
  ASSUME NEW a
  PROVE  /\ a.go = "Team" =>
              encodeGetTeamResponse(a) =
                Response(200, Json, <<Encode(Team, a.value)>>)
         /\ a.go = "GetTeamNotFound" =>
              encodeGetTeamResponse(a) =
                Response(404, Json, <<Encode(GetTeamNotFound, a.value)>>)
         /\ a.go = "GetTeamInternalServerError" =>
              encodeGetTeamResponse(a) =
                Response(500, Json, <<Encode(GetTeamInternalServerError, a.value)>>)
<1> DEFINE types == {<<200, Team>>, <<400, GetTeamBadRequest>>, <<404, GetTeamNotFound>>,
                     <<500, GetTeamInternalServerError>>}
<1>1. /\ Team.go = "Team"
      /\ GetTeamBadRequest.go = "GetTeamBadRequest"
      /\ GetTeamNotFound.go = "GetTeamNotFound"
      /\ GetTeamInternalServerError.go = "GetTeamInternalServerError"
  BY DEF Team, GetTeamBadRequest, GetTeamNotFound, GetTeamInternalServerError, Alias,
         ErrorResponse, Object
<1>2. encodeGetTeamResponse(a) = Written(a, types)
  BY DEF encodeGetTeamResponse
<1>3. a.go = "Team" =>
        Written(a, types) = Response(200, Json, <<Encode(Team, a.value)>>)
  <2>1. <<200, Team>> \in types /\ \A u \in types : u[2].go = Team.go => u = <<200, Team>>
    BY <1>1
  <2> HIDE DEF types
  <2> QED
    BY <1>1, <2>1, WrittenAs
<1>4. a.go = "GetTeamNotFound" =>
        Written(a, types) = Response(404, Json, <<Encode(GetTeamNotFound, a.value)>>)
  <2>1. <<404, GetTeamNotFound>> \in types /\ \A u \in types :
          u[2].go = GetTeamNotFound.go => u = <<404, GetTeamNotFound>>
    BY <1>1
  <2> HIDE DEF types
  <2> QED
    BY <1>1, <2>1, WrittenAs
<1>5. a.go = "GetTeamInternalServerError" =>
        Written(a, types) = Response(500, Json, <<Encode(GetTeamInternalServerError, a.value)>>)
  <2>1. <<500, GetTeamInternalServerError>> \in types /\ \A u \in types :
          u[2].go = GetTeamInternalServerError.go => u = <<500, GetTeamInternalServerError>>
    BY <1>1
  <2> HIDE DEF types
  <2> QED
    BY <1>1, <2>1, WrittenAs
<1> HIDE DEF types
<1> QED
  BY <1>2, <1>3, <1>4, <1>5

\* GetUserReviews: each type of answer has its status.
LEMMA GetUserReviewsWritten ==
  ASSUME NEW a
  PROVE  /\ a.go = "GetUserReviewsOK" =>
              encodeGetUserReviewsResponse(a) =
                Response(200, Json, <<Encode(GetUserReviewsOK, a.value)>>)
         /\ a.go = "GetUserReviewsNotFound" =>
              encodeGetUserReviewsResponse(a) =
                Response(404, Json, <<Encode(GetUserReviewsNotFound, a.value)>>)
         /\ a.go = "GetUserReviewsInternalServerError" =>
              encodeGetUserReviewsResponse(a) =
                Response(500, Json, <<Encode(GetUserReviewsInternalServerError, a.value)>>)
<1> DEFINE types == {<<200, GetUserReviewsOK>>, <<400, GetUserReviewsBadRequest>>,
                     <<404, GetUserReviewsNotFound>>,
                     <<500, GetUserReviewsInternalServerError>>}
<1>1. /\ GetUserReviewsOK.go = "GetUserReviewsOK"
      /\ GetUserReviewsBadRequest.go = "GetUserReviewsBadRequest"
      /\ GetUserReviewsNotFound.go = "GetUserReviewsNotFound"
      /\ GetUserReviewsInternalServerError.go = "GetUserReviewsInternalServerError"
  BY DEF GetUserReviewsOK, GetUserReviewsBadRequest, GetUserReviewsNotFound,
         GetUserReviewsInternalServerError, Alias, ErrorResponse, Object
<1>2. encodeGetUserReviewsResponse(a) = Written(a, types)
  BY DEF encodeGetUserReviewsResponse
<1>3. a.go = "GetUserReviewsOK" =>
        Written(a, types) = Response(200, Json, <<Encode(GetUserReviewsOK, a.value)>>)
  <2>1. <<200, GetUserReviewsOK>> \in types /\ \A u \in types :
          u[2].go = GetUserReviewsOK.go => u = <<200, GetUserReviewsOK>>
    BY <1>1
  <2> HIDE DEF types
  <2> QED
    BY <1>1, <2>1, WrittenAs
<1>4. a.go = "GetUserReviewsNotFound" =>
        Written(a, types) = Response(404, Json, <<Encode(GetUserReviewsNotFound, a.value)>>)
  <2>1. <<404, GetUserReviewsNotFound>> \in types /\ \A u \in types :
          u[2].go = GetUserReviewsNotFound.go => u = <<404, GetUserReviewsNotFound>>
    BY <1>1
  <2> HIDE DEF types
  <2> QED
    BY <1>1, <2>1, WrittenAs
<1>5. a.go = "GetUserReviewsInternalServerError" =>
        Written(a, types) =
                Response(500, Json, <<Encode(GetUserReviewsInternalServerError, a.value)>>)
  <2>1. <<500, GetUserReviewsInternalServerError>> \in types /\ \A u \in types :
          u[2].go = GetUserReviewsInternalServerError.go
            => u = <<500, GetUserReviewsInternalServerError>>
    BY <1>1
  <2> HIDE DEF types
  <2> QED
    BY <1>1, <2>1, WrittenAs
<1> HIDE DEF types
<1> QED
  BY <1>2, <1>3, <1>4, <1>5

\* MergePullRequest: each type of answer has its status.
LEMMA MergePullRequestWritten ==
  ASSUME NEW a
  PROVE  /\ a.go = "MergePullRequestOK" =>
              encodeMergePullRequestResponse(a) =
                Response(200, Json, <<Encode(MergePullRequestOK, a.value)>>)
         /\ a.go = "MergePullRequestNotFound" =>
              encodeMergePullRequestResponse(a) =
                Response(404, Json, <<Encode(MergePullRequestNotFound, a.value)>>)
         /\ a.go = "MergePullRequestInternalServerError" =>
              encodeMergePullRequestResponse(a) =
                Response(500, Json, <<Encode(MergePullRequestInternalServerError, a.value)>>)
<1> DEFINE types == {<<200, MergePullRequestOK>>, <<400, MergePullRequestBadRequest>>,
                     <<404, MergePullRequestNotFound>>,
                     <<500, MergePullRequestInternalServerError>>}
<1>1. /\ MergePullRequestOK.go = "MergePullRequestOK"
      /\ MergePullRequestBadRequest.go = "MergePullRequestBadRequest"
      /\ MergePullRequestNotFound.go = "MergePullRequestNotFound"
      /\ MergePullRequestInternalServerError.go = "MergePullRequestInternalServerError"
  BY DEF MergePullRequestOK, MergePullRequestBadRequest, MergePullRequestNotFound,
         MergePullRequestInternalServerError, Alias, ErrorResponse, Object
<1>2. encodeMergePullRequestResponse(a) = Written(a, types)
  BY DEF encodeMergePullRequestResponse
<1>3. a.go = "MergePullRequestOK" =>
        Written(a, types) = Response(200, Json, <<Encode(MergePullRequestOK, a.value)>>)
  <2>1. <<200, MergePullRequestOK>> \in types /\ \A u \in types :
          u[2].go = MergePullRequestOK.go => u = <<200, MergePullRequestOK>>
    BY <1>1
  <2> HIDE DEF types
  <2> QED
    BY <1>1, <2>1, WrittenAs
<1>4. a.go = "MergePullRequestNotFound" =>
        Written(a, types) = Response(404, Json, <<Encode(MergePullRequestNotFound, a.value)>>)
  <2>1. <<404, MergePullRequestNotFound>> \in types /\ \A u \in types :
          u[2].go = MergePullRequestNotFound.go => u = <<404, MergePullRequestNotFound>>
    BY <1>1
  <2> HIDE DEF types
  <2> QED
    BY <1>1, <2>1, WrittenAs
<1>5. a.go = "MergePullRequestInternalServerError" =>
        Written(a, types) =
                Response(500, Json, <<Encode(MergePullRequestInternalServerError, a.value)>>)
  <2>1. <<500, MergePullRequestInternalServerError>> \in types /\ \A u \in types :
          u[2].go = MergePullRequestInternalServerError.go
            => u = <<500, MergePullRequestInternalServerError>>
    BY <1>1
  <2> HIDE DEF types
  <2> QED
    BY <1>1, <2>1, WrittenAs
<1> HIDE DEF types
<1> QED
  BY <1>2, <1>3, <1>4, <1>5

\* ReassignReviewer: each type of answer has its status.
LEMMA ReassignReviewerWritten ==
  ASSUME NEW a
  PROVE  /\ a.go = "ReassignReviewerOK" =>
              encodeReassignReviewerResponse(a) =
                Response(200, Json, <<Encode(ReassignReviewerOK, a.value)>>)
         /\ a.go = "ReassignReviewerNotFound" =>
              encodeReassignReviewerResponse(a) =
                Response(404, Json, <<Encode(ReassignReviewerNotFound, a.value)>>)
         /\ a.go = "ReassignReviewerConflict" =>
              encodeReassignReviewerResponse(a) =
                Response(409, Json, <<Encode(ReassignReviewerConflict, a.value)>>)
         /\ a.go = "ReassignReviewerInternalServerError" =>
              encodeReassignReviewerResponse(a) =
                Response(500, Json, <<Encode(ReassignReviewerInternalServerError, a.value)>>)
<1> DEFINE types == {<<200, ReassignReviewerOK>>, <<400, ReassignReviewerBadRequest>>,
                     <<404, ReassignReviewerNotFound>>,
                     <<409, ReassignReviewerConflict>>,
                     <<500, ReassignReviewerInternalServerError>>}
<1>1. /\ ReassignReviewerOK.go = "ReassignReviewerOK"
      /\ ReassignReviewerBadRequest.go = "ReassignReviewerBadRequest"
      /\ ReassignReviewerNotFound.go = "ReassignReviewerNotFound"
      /\ ReassignReviewerConflict.go = "ReassignReviewerConflict"
      /\ ReassignReviewerInternalServerError.go = "ReassignReviewerInternalServerError"
  BY DEF ReassignReviewerOK, ReassignReviewerBadRequest, ReassignReviewerNotFound,
         ReassignReviewerConflict, ReassignReviewerInternalServerError, Alias,
         ErrorResponse, Object
<1>2. encodeReassignReviewerResponse(a) = Written(a, types)
  BY DEF encodeReassignReviewerResponse
<1>3. a.go = "ReassignReviewerOK" =>
        Written(a, types) = Response(200, Json, <<Encode(ReassignReviewerOK, a.value)>>)
  <2>1. <<200, ReassignReviewerOK>> \in types /\ \A u \in types :
          u[2].go = ReassignReviewerOK.go => u = <<200, ReassignReviewerOK>>
    BY <1>1
  <2> HIDE DEF types
  <2> QED
    BY <1>1, <2>1, WrittenAs
<1>4. a.go = "ReassignReviewerNotFound" =>
        Written(a, types) = Response(404, Json, <<Encode(ReassignReviewerNotFound, a.value)>>)
  <2>1. <<404, ReassignReviewerNotFound>> \in types /\ \A u \in types :
          u[2].go = ReassignReviewerNotFound.go => u = <<404, ReassignReviewerNotFound>>
    BY <1>1
  <2> HIDE DEF types
  <2> QED
    BY <1>1, <2>1, WrittenAs
<1>5. a.go = "ReassignReviewerConflict" =>
        Written(a, types) = Response(409, Json, <<Encode(ReassignReviewerConflict, a.value)>>)
  <2>1. <<409, ReassignReviewerConflict>> \in types /\ \A u \in types :
          u[2].go = ReassignReviewerConflict.go => u = <<409, ReassignReviewerConflict>>
    BY <1>1
  <2> HIDE DEF types
  <2> QED
    BY <1>1, <2>1, WrittenAs
<1>6. a.go = "ReassignReviewerInternalServerError" =>
        Written(a, types) =
                Response(500, Json, <<Encode(ReassignReviewerInternalServerError, a.value)>>)
  <2>1. <<500, ReassignReviewerInternalServerError>> \in types /\ \A u \in types :
          u[2].go = ReassignReviewerInternalServerError.go
            => u = <<500, ReassignReviewerInternalServerError>>
    BY <1>1
  <2> HIDE DEF types
  <2> QED
    BY <1>1, <2>1, WrittenAs
<1> HIDE DEF types
<1> QED
  BY <1>2, <1>3, <1>4, <1>5, <1>6

\* SetUserActive: each type of answer has its status.
LEMMA SetUserActiveWritten ==
  ASSUME NEW a
  PROVE  /\ a.go = "SetUserActiveOK" =>
              encodeSetUserActiveResponse(a) =
                Response(200, Json, <<Encode(SetUserActiveOK, a.value)>>)
         /\ a.go = "SetUserActiveNotFound" =>
              encodeSetUserActiveResponse(a) =
                Response(404, Json, <<Encode(SetUserActiveNotFound, a.value)>>)
         /\ a.go = "SetUserActiveInternalServerError" =>
              encodeSetUserActiveResponse(a) =
                Response(500, Json, <<Encode(SetUserActiveInternalServerError, a.value)>>)
<1> DEFINE types == {<<200, SetUserActiveOK>>, <<400, SetUserActiveBadRequest>>,
                     <<404, SetUserActiveNotFound>>,
                     <<500, SetUserActiveInternalServerError>>}
<1>1. /\ SetUserActiveOK.go = "SetUserActiveOK"
      /\ SetUserActiveBadRequest.go = "SetUserActiveBadRequest"
      /\ SetUserActiveNotFound.go = "SetUserActiveNotFound"
      /\ SetUserActiveInternalServerError.go = "SetUserActiveInternalServerError"
  BY DEF SetUserActiveOK, SetUserActiveBadRequest, SetUserActiveNotFound,
         SetUserActiveInternalServerError, Alias, ErrorResponse, Object
<1>2. encodeSetUserActiveResponse(a) = Written(a, types)
  BY DEF encodeSetUserActiveResponse
<1>3. a.go = "SetUserActiveOK" =>
        Written(a, types) = Response(200, Json, <<Encode(SetUserActiveOK, a.value)>>)
  <2>1. <<200, SetUserActiveOK>> \in types /\ \A u \in types :
          u[2].go = SetUserActiveOK.go => u = <<200, SetUserActiveOK>>
    BY <1>1
  <2> HIDE DEF types
  <2> QED
    BY <1>1, <2>1, WrittenAs
<1>4. a.go = "SetUserActiveNotFound" =>
        Written(a, types) = Response(404, Json, <<Encode(SetUserActiveNotFound, a.value)>>)
  <2>1. <<404, SetUserActiveNotFound>> \in types /\ \A u \in types :
          u[2].go = SetUserActiveNotFound.go => u = <<404, SetUserActiveNotFound>>
    BY <1>1
  <2> HIDE DEF types
  <2> QED
    BY <1>1, <2>1, WrittenAs
<1>5. a.go = "SetUserActiveInternalServerError" =>
        Written(a, types) =
                Response(500, Json, <<Encode(SetUserActiveInternalServerError, a.value)>>)
  <2>1. <<500, SetUserActiveInternalServerError>> \in types /\ \A u \in types :
          u[2].go = SetUserActiveInternalServerError.go
            => u = <<500, SetUserActiveInternalServerError>>
    BY <1>1
  <2> HIDE DEF types
  <2> QED
    BY <1>1, <2>1, WrittenAs
<1> HIDE DEF types
<1> QED
  BY <1>2, <1>3, <1>4, <1>5

\* A JSON response is no refusal, but for 400.
LEMMA NoRefusal ==
  ASSUME NEW status \in {200, 201, 404, 409, 500}, NEW body
  PROVE  ~Refusal(Response(status, Json, body))
  BY TypesApart DEF Refusal, Response

\* The lists of at most one element that the queries return.
LEMMA ShortLists ==
  ASSUME NEW S, NEW s \in AtMostOne(S)
  PROVE  IsList(s) /\ \A i \in DOMAIN s : s[i] \in S
<1>1. CASE s = <<>>
  BY <1>1 DEF IsList
<1>2. ASSUME NEW x \in S, s = <<x>> PROVE IsList(s) /\ \A i \in DOMAIN s : s[i] \in S
  <2>1. DOMAIN s = {1} /\ s[1] = x
    BY <1>2
  <2>2. s = [i \in DOMAIN s |-> s[i]]
    BY <1>2
  <2> QED
    BY <2>1, <2>2 DEF IsList
<1> QED
  BY <1>1, <1>2 DEF AtMostOne

\* Every pull request in the database is one of the API, and arrives valid.
LEMMA StoredPullRequests ==
  ASSUME NEW id \in Uuids, NEW name, ValidPullRequestName(name), NEW author \in Uuids,
         NEW p \in OpenPRs(id, name, author) \cup MergedPRs(id, name, author)
  PROVE  IsPullRequest(p) /\ ValidPullRequest(InSeconds(p))
<1>1. ASSUME NEW q \in OpenPRs(id, name, author)
      PROVE  /\ IsPullRequest(q) /\ q.status = "OPEN" /\ q.pull_request_name = name
             /\ DOMAIN q = {"pull_request_id", "pull_request_name", "author_id", "status",
                            "assigned_reviewers", "createdAt"}
  <2>1. /\ DOMAIN q = {"pull_request_id", "pull_request_name", "author_id", "status",
                       "assigned_reviewers", "createdAt"}
        /\ q.pull_request_id = id /\ q.pull_request_name = name /\ q.author_id = author
        /\ q.status = "OPEN" /\ q.assigned_reviewers \in AtMostOne(Uuids) /\ q.createdAt \in Instants
    BY DEF OpenPRs
  <2>2. IsList(q.assigned_reviewers)
        /\ \A i \in DOMAIN q.assigned_reviewers : q.assigned_reviewers[i] \in Uuids
    BY <2>1, ShortLists
  <2>3. \A f \in DOMAIN q \cap {"createdAt", "mergedAt"} : q[f] \in Instants
    BY <2>1
  <2> QED
    BY <2>1, <2>2, <2>3 DEF IsPullRequest
<1>2. CASE p \in OpenPRs(id, name, author)
  <2>1. InSeconds(p).pull_request_name = name /\ InSeconds(p).status = "OPEN"
    BY <1>1, <1>2 DEF InSeconds
  <2> QED
    BY <1>1, <1>2, <2>1 DEF ValidPullRequest, ValidPullRequestStatus
<1>3. CASE p \in MergedPRs(id, name, author)
  <2>1. PICK q \in OpenPRs(id, name, author), t \in Instants :
          p = [f \in DOMAIN q \cup {"mergedAt"} |->
                 CASE f = "status" -> "MERGED" [] f = "mergedAt" -> t [] OTHER -> q[f]]
    BY <1>3 DEF MergedPRs
  <2>2. /\ IsPullRequest(q) /\ q.pull_request_name = name
        /\ DOMAIN q = {"pull_request_id", "pull_request_name", "author_id", "status",
                       "assigned_reviewers", "createdAt"}
    BY <1>1
  <2>3. DOMAIN p = DOMAIN q \cup {"mergedAt"} /\ p.status = "MERGED" /\ p.mergedAt = t
    BY <2>1, <2>2
  <2>4. \A f \in DOMAIN q \ {"status"} : p[f] = q[f]
    BY <2>1, <2>2
  <2>5. /\ p.pull_request_id = q.pull_request_id /\ p.pull_request_name = name
        /\ p.author_id = q.author_id /\ p.assigned_reviewers = q.assigned_reviewers
        /\ p.createdAt = q.createdAt
    BY <2>2, <2>4
  <2>6. IsPullRequest(p)
    <3>1. \A f \in DOMAIN p \cap {"createdAt", "mergedAt"} : p[f] \in Instants
      BY <2>2, <2>3, <2>5 DEF IsPullRequest
    <3> QED
      BY <2>2, <2>3, <2>5, <3>1 DEF IsPullRequest
  <2>7. InSeconds(p).pull_request_name = name /\ InSeconds(p).status = "MERGED"
    BY <2>2, <2>3, <2>5 DEF InSeconds
  <2> QED
    BY <2>6, <2>7 DEF ValidPullRequest, ValidPullRequestStatus
<1> QED
  BY <1>2, <1>3

\* A pull request of the database is one the client accepts.
LEMMA StoredPRsArrive ==
  ASSUME NEW ns, HoldsValidNames(ns), NEW id \in Uuids, NEW p \in StoredPRs(ns, id)
  PROVE  IsPullRequest(p) /\ ValidPullRequest(InSeconds(p))
<1>1. PICK n \in ns.prs, u \in Uuids : p \in OpenPRs(id, n, u) \cup MergedPRs(id, n, u)
  BY DEF StoredPRs
<1> QED
  BY <1>1, StoredPullRequests DEF HoldsValidNames

\* InTransit keeps a pull request, in whole seconds.
LEMMA PullRequestInTransit ==
  ASSUME NEW p, NEW u
  PROVE  /\ \A go \in {"CreatePullRequestCreated", "MergePullRequestOK"} :
              InTransit([go |-> go, value |-> [pr |-> p]]) =
                [go |-> go, value |-> [pr |-> InSeconds(p)]]
         /\ InTransit([go |-> "ReassignReviewerOK", value |-> [pr |-> p, replaced_by |-> u]]) =
              [go |-> "ReassignReviewerOK", value |-> [pr |-> InSeconds(p), replaced_by |-> u]]
<1> DEFINE sec == [f \in DOMAIN p |-> IF f \in {"createdAt", "mergedAt"}
                                       THEN Halves * (p[f] \div Halves) ELSE p[f]]
<1>1. sec = InSeconds(p)
  BY DEF InSeconds
<1>2. \A go \in {"CreatePullRequestCreated", "MergePullRequestOK"} :
        InTransit([go |-> go, value |-> [pr |-> p]]) = [go |-> go, value |-> [pr |-> sec]]
  BY DEF InTransit
<1>3. InTransit([go |-> "ReassignReviewerOK", value |-> [pr |-> p, replaced_by |-> u]]) =
        [go |-> "ReassignReviewerOK", value |-> [pr |-> sec, replaced_by |-> u]]
  BY DEF InTransit
<1> QED
  BY <1>1, <1>2, <1>3

\* CreatePullRequest: the client reads what the service answered, whatever that was.
LEMMA CreatePullRequestUnderstood ==
  ASSUME NEW req, NEW a \in CreatePullRequestAnswers(req),
         NEW r, r = encodeCreatePullRequestResponse(a)
  PROVE  /\ a.go # GoError.go /\ ~Refusal(r)
         /\ IsCreatePullRequestReq(req) /\ ValidCreatePullRequestReq(req) =>
              decodeCreatePullRequestResponse(r) = {InTransit(a)}
<1> DEFINE goal == /\ a.go # GoError.go /\ ~Refusal(r)
                   /\ IsCreatePullRequestReq(req) /\ ValidCreatePullRequestReq(req) =>
                        decodeCreatePullRequestResponse(r) = {InTransit(a)}
<1>1. ASSUME NEW code \in ErrorCodes, a = Failure(CreatePullRequestNotFound, code) PROVE goal
  <2>1. a.go = "CreatePullRequestNotFound"
    BY <1>1 DEF Failure, Answer, CreatePullRequestNotFound, Alias, ErrorResponse, Object
  <2>2. r = Response(404, Json, <<Encode(CreatePullRequestNotFound, a.value)>>)
    BY <2>1, CreatePullRequestWritten
  <2>3. ReadError(r, 404, CreatePullRequestNotFound) = {a}
    BY <1>1, <2>2, ErrorRead DEF CreatePullRequestNotFound
  <2>4. Read(r, 201, CreatePullRequestCreated, ValidCreatePullRequestCreated) = {}
    BY <2>2 DEF Read, Response
  <2>5. /\ ReadError(r, 400, CreatePullRequestBadRequest) = {}
        /\ ReadError(r, 409, CreatePullRequestConflict) = {}
        /\ ReadError(r, 500, CreatePullRequestInternalServerError) = {}
    BY <2>2, OtherStatus
  <2>6. decodeCreatePullRequestResponse(r) = {a}
    BY <2>3, <2>4, <2>5 DEF decodeCreatePullRequestResponse
  <2>7. InTransit(a) = a
    BY <2>1 DEF InTransit
  <2> QED
    BY <2>1, <2>2, <2>6, <2>7, NoRefusal DEF GoError
<1>2. ASSUME NEW code \in ErrorCodes, a = Failure(CreatePullRequestConflict, code) PROVE goal
  <2>1. a.go = "CreatePullRequestConflict"
    BY <1>2 DEF Failure, Answer, CreatePullRequestConflict, Alias, ErrorResponse, Object
  <2>2. r = Response(409, Json, <<Encode(CreatePullRequestConflict, a.value)>>)
    BY <2>1, CreatePullRequestWritten
  <2>3. ReadError(r, 409, CreatePullRequestConflict) = {a}
    BY <1>2, <2>2, ErrorRead DEF CreatePullRequestConflict
  <2>4. Read(r, 201, CreatePullRequestCreated, ValidCreatePullRequestCreated) = {}
    BY <2>2 DEF Read, Response
  <2>5. /\ ReadError(r, 400, CreatePullRequestBadRequest) = {}
        /\ ReadError(r, 404, CreatePullRequestNotFound) = {}
        /\ ReadError(r, 500, CreatePullRequestInternalServerError) = {}
    BY <2>2, OtherStatus
  <2>6. decodeCreatePullRequestResponse(r) = {a}
    BY <2>3, <2>4, <2>5 DEF decodeCreatePullRequestResponse
  <2>7. InTransit(a) = a
    BY <2>1 DEF InTransit
  <2> QED
    BY <2>1, <2>2, <2>6, <2>7, NoRefusal DEF GoError
<1>3. ASSUME NEW code \in ErrorCodes, a = Failure(CreatePullRequestInternalServerError, code)
      PROVE  goal
  <2>1. a.go = "CreatePullRequestInternalServerError"
    BY <1>3 DEF Failure, Answer, CreatePullRequestInternalServerError, Alias, ErrorResponse, Object
  <2>2. r = Response(500, Json, <<Encode(CreatePullRequestInternalServerError, a.value)>>)
    BY <2>1, CreatePullRequestWritten
  <2>3. ReadError(r, 500, CreatePullRequestInternalServerError) = {a}
    BY <1>3, <2>2, ErrorRead DEF CreatePullRequestInternalServerError
  <2>4. Read(r, 201, CreatePullRequestCreated, ValidCreatePullRequestCreated) = {}
    BY <2>2 DEF Read, Response
  <2>5. /\ ReadError(r, 400, CreatePullRequestBadRequest) = {}
        /\ ReadError(r, 404, CreatePullRequestNotFound) = {}
        /\ ReadError(r, 409, CreatePullRequestConflict) = {}
    BY <2>2, OtherStatus
  <2>6. decodeCreatePullRequestResponse(r) = {a}
    BY <2>3, <2>4, <2>5 DEF decodeCreatePullRequestResponse
  <2>7. InTransit(a) = a
    BY <2>1 DEF InTransit
  <2> QED
    BY <2>1, <2>2, <2>6, <2>7, NoRefusal DEF GoError
<1>4. ASSUME NEW p \in OpenPRs(req.pull_request_id, req.pull_request_name, req.author_id),
           a = Answer(CreatePullRequestCreated, [pr |-> p])
      PROVE  goal
  <2>1. a = [go |-> "CreatePullRequestCreated", value |-> [pr |-> p]]
    BY <1>4 DEF Answer, CreatePullRequestCreated, Object
  <2>2. a.go = "CreatePullRequestCreated" /\ a.value = [pr |-> p]
    BY <2>1
  <2>3. r = Response(201, Json, <<Encode(CreatePullRequestCreated, a.value)>>)
    BY <2>2, CreatePullRequestWritten
  <2>4. r = Response(201, Json, <<Encode(CreatePullRequestCreated, [pr |-> p])>>)
    BY <2>2, <2>3
  <2>5. ASSUME IsCreatePullRequestReq(req), ValidCreatePullRequestReq(req)
        PROVE  decodeCreatePullRequestResponse(r) = {InTransit(a)}
    <3> DEFINE w == [pr |-> InSeconds(p)]
    <3>1. IsPullRequest(p) /\ ValidPullRequest(InSeconds(p))
      BY <1>4, <2>5, StoredPullRequests DEF IsCreatePullRequestReq, ValidCreatePullRequestReq
    <3>2. Decode(CreatePullRequestCreated, Encode(CreatePullRequestCreated, [pr |-> p])) = {w}
      BY <1>4, <3>1, CreatePullRequestCreatedThrough
    <3>3. ValidCreatePullRequestCreated(w)
      BY <3>1 DEF ValidCreatePullRequestCreated, WhenSet
    <3>4. InTransit(a) = Answer(CreatePullRequestCreated, w)
      BY <1>4, <2>1, PullRequestInTransit DEF Answer, CreatePullRequestCreated, Object
    <3> HIDE DEF w
    <3>5. /\ r.status = 201 /\ r.ctype = Json /\ Len(r.body) = 1
          /\ r.body[1] = Encode(CreatePullRequestCreated, [pr |-> p])
      BY <2>4 DEF Response
    <3>6. {x \in Decode(CreatePullRequestCreated, r.body[1]) : ValidCreatePullRequestCreated(x)} = {w}
      BY <3>2, <3>3, <3>5
    <3>7. Read(r, 201, CreatePullRequestCreated, ValidCreatePullRequestCreated) =
            {Answer(CreatePullRequestCreated, w)}
      BY <3>5, <3>6 DEF Read
    <3>8. /\ ReadError(r, 400, CreatePullRequestBadRequest) = {}
          /\ ReadError(r, 404, CreatePullRequestNotFound) = {}
          /\ ReadError(r, 409, CreatePullRequestConflict) = {}
          /\ ReadError(r, 500, CreatePullRequestInternalServerError) = {}
      BY <2>4, OtherStatus
    <3> QED
      BY <3>4, <3>7, <3>8 DEF decodeCreatePullRequestResponse
  <2> QED
    BY <2>2, <2>4, <2>5, NoRefusal DEF GoError
<1> QED
  BY <1>1, <1>2, <1>3, <1>4 DEF CreatePullRequestAnswers, ErrorCodes

\* CreateTeam: the client reads what the service answered, whatever that was.
LEMMA CreateTeamUnderstood ==
  ASSUME NEW req, NEW a \in CreateTeamAnswers(req),
         NEW r, r = encodeCreateTeamResponse(a)
  PROVE  /\ a.go # GoError.go /\ ~Refusal(r)
         /\ IsTeam(req) /\ ValidTeam(req) =>
              decodeCreateTeamResponse(r) = {InTransit(a)}
<1> DEFINE goal == /\ a.go # GoError.go /\ ~Refusal(r)
                   /\ IsTeam(req) /\ ValidTeam(req) =>
                        decodeCreateTeamResponse(r) = {InTransit(a)}
<1>1. ASSUME NEW code \in ErrorCodes, a = Failure(CreateTeamConflict, code) PROVE goal
  <2>1. a.go = "CreateTeamConflict"
    BY <1>1 DEF Failure, Answer, CreateTeamConflict, Alias, ErrorResponse, Object
  <2>2. r = Response(409, Json, <<Encode(CreateTeamConflict, a.value)>>)
    BY <2>1, CreateTeamWritten
  <2>3. ReadError(r, 409, CreateTeamConflict) = {a}
    BY <1>1, <2>2, ErrorRead DEF CreateTeamConflict
  <2>4. Read(r, 201, CreateTeamCreated, ValidCreateTeamCreated) = {}
    BY <2>2 DEF Read, Response
  <2>5. /\ ReadError(r, 400, CreateTeamBadRequest) = {}
        /\ ReadError(r, 500, CreateTeamInternalServerError) = {}
    BY <2>2, OtherStatus
  <2>6. decodeCreateTeamResponse(r) = {a}
    BY <2>3, <2>4, <2>5 DEF decodeCreateTeamResponse
  <2>7. InTransit(a) = a
    BY <2>1 DEF InTransit
  <2> QED
    BY <2>1, <2>2, <2>6, <2>7, NoRefusal DEF GoError
<1>2. ASSUME NEW code \in ErrorCodes, a = Failure(CreateTeamInternalServerError, code) PROVE goal
  <2>1. a.go = "CreateTeamInternalServerError"
    BY <1>2 DEF Failure, Answer, CreateTeamInternalServerError, Alias, ErrorResponse, Object
  <2>2. r = Response(500, Json, <<Encode(CreateTeamInternalServerError, a.value)>>)
    BY <2>1, CreateTeamWritten
  <2>3. ReadError(r, 500, CreateTeamInternalServerError) = {a}
    BY <1>2, <2>2, ErrorRead DEF CreateTeamInternalServerError
  <2>4. Read(r, 201, CreateTeamCreated, ValidCreateTeamCreated) = {}
    BY <2>2 DEF Read, Response
  <2>5. /\ ReadError(r, 400, CreateTeamBadRequest) = {}
        /\ ReadError(r, 409, CreateTeamConflict) = {}
    BY <2>2, OtherStatus
  <2>6. decodeCreateTeamResponse(r) = {a}
    BY <2>3, <2>4, <2>5 DEF decodeCreateTeamResponse
  <2>7. InTransit(a) = a
    BY <2>1 DEF InTransit
  <2> QED
    BY <2>1, <2>2, <2>6, <2>7, NoRefusal DEF GoError
<1>3. ASSUME a = Answer(CreateTeamCreated, [team |-> req])
      PROVE  goal
  <2>1. a = [go |-> "CreateTeamCreated", value |-> [team |-> req]]
    BY <1>3 DEF Answer, CreateTeamCreated, Object
  <2>2. a.go = "CreateTeamCreated" /\ a.value = [team |-> req]
    BY <2>1
  <2>3. r = Response(201, Json, <<Encode(CreateTeamCreated, a.value)>>)
    BY <2>2, CreateTeamWritten
  <2>4. r = Response(201, Json, <<Encode(CreateTeamCreated, [team |-> req])>>)
    BY <2>2, <2>3
  <2>5. ASSUME IsTeam(req), ValidTeam(req)
        PROVE  decodeCreateTeamResponse(r) = {InTransit(a)}
    <3> DEFINE w == [team |-> req]
    <3>1. IsTeam(req) /\ ValidTeam(req)
      BY <2>5
    <3>2. Decode(CreateTeamCreated, Encode(CreateTeamCreated, [team |-> req])) = {w}
      BY <1>3, <3>1, CreateTeamCreatedThrough
    <3>3. ValidCreateTeamCreated(w)
      BY <3>1 DEF ValidCreateTeamCreated, WhenSet
    <3>4. InTransit(a) = Answer(CreateTeamCreated, w)
      BY <1>3, <2>1 DEF InTransit, Answer, CreateTeamCreated, Object
    <3> HIDE DEF w
    <3>5. /\ r.status = 201 /\ r.ctype = Json /\ Len(r.body) = 1
          /\ r.body[1] = Encode(CreateTeamCreated, [team |-> req])
      BY <2>4 DEF Response
    <3>6. {x \in Decode(CreateTeamCreated, r.body[1]) : ValidCreateTeamCreated(x)} = {w}
      BY <3>2, <3>3, <3>5
    <3>7. Read(r, 201, CreateTeamCreated, ValidCreateTeamCreated) = {Answer(CreateTeamCreated, w)}
      BY <3>5, <3>6 DEF Read
    <3>8. /\ ReadError(r, 400, CreateTeamBadRequest) = {}
          /\ ReadError(r, 409, CreateTeamConflict) = {}
          /\ ReadError(r, 500, CreateTeamInternalServerError) = {}
      BY <2>4, OtherStatus
    <3> QED
      BY <3>4, <3>7, <3>8 DEF decodeCreateTeamResponse
  <2> QED
    BY <2>2, <2>4, <2>5, NoRefusal DEF GoError
<1> QED
  BY <1>1, <1>2, <1>3 DEF CreateTeamAnswers, ErrorCodes

\* DeactivateTeamMembers: the client reads what the service answered, whatever that was.
LEMMA DeactivateTeamMembersUnderstood ==
  ASSUME NEW a \in DeactivateTeamMembersAnswers,
         NEW r, r = encodeDeactivateTeamMembersResponse(a)
  PROVE  /\ a.go # GoError.go /\ ~Refusal(r)
         /\ decodeDeactivateTeamMembersResponse(r) = {InTransit(a)}
<1> DEFINE goal == /\ a.go # GoError.go /\ ~Refusal(r)
                   /\ decodeDeactivateTeamMembersResponse(r) = {InTransit(a)}
<1>1. ASSUME NEW code \in ErrorCodes, a = Failure(DeactivateTeamMembersNotFound, code) PROVE goal
  <2>1. a.go = "DeactivateTeamMembersNotFound"
    BY <1>1 DEF Failure, Answer, DeactivateTeamMembersNotFound, Alias, ErrorResponse, Object
  <2>2. r = Response(404, Json, <<Encode(DeactivateTeamMembersNotFound, a.value)>>)
    BY <2>1, DeactivateTeamMembersWritten
  <2>3. ReadError(r, 404, DeactivateTeamMembersNotFound) = {a}
    BY <1>1, <2>2, ErrorRead DEF DeactivateTeamMembersNotFound
  <2>4. Read(r, 200, DeactivateTeamMembersOK, Unrestricted) = {}
    BY <2>2 DEF Read, Response
  <2>5. /\ ReadError(r, 400, DeactivateTeamMembersBadRequest) = {}
        /\ ReadError(r, 500, DeactivateTeamMembersInternalServerError) = {}
    BY <2>2, OtherStatus
  <2>6. decodeDeactivateTeamMembersResponse(r) = {a}
    BY <2>3, <2>4, <2>5 DEF decodeDeactivateTeamMembersResponse
  <2>7. InTransit(a) = a
    BY <2>1 DEF InTransit
  <2> QED
    BY <2>1, <2>2, <2>6, <2>7, NoRefusal DEF GoError
<1>2. ASSUME NEW code \in ErrorCodes, a = Failure(DeactivateTeamMembersInternalServerError, code)
      PROVE  goal
  <2>1. a.go = "DeactivateTeamMembersInternalServerError"
    BY <1>2 DEF Failure, Answer, DeactivateTeamMembersInternalServerError, Alias,
                ErrorResponse, Object
  <2>2. r = Response(500, Json, <<Encode(DeactivateTeamMembersInternalServerError, a.value)>>)
    BY <2>1, DeactivateTeamMembersWritten
  <2>3. ReadError(r, 500, DeactivateTeamMembersInternalServerError) = {a}
    BY <1>2, <2>2, ErrorRead DEF DeactivateTeamMembersInternalServerError
  <2>4. Read(r, 200, DeactivateTeamMembersOK, Unrestricted) = {}
    BY <2>2 DEF Read, Response
  <2>5. /\ ReadError(r, 400, DeactivateTeamMembersBadRequest) = {}
        /\ ReadError(r, 404, DeactivateTeamMembersNotFound) = {}
    BY <2>2, OtherStatus
  <2>6. decodeDeactivateTeamMembersResponse(r) = {a}
    BY <2>3, <2>4, <2>5 DEF decodeDeactivateTeamMembersResponse
  <2>7. InTransit(a) = a
    BY <2>1 DEF InTransit
  <2> QED
    BY <2>1, <2>2, <2>6, <2>7, NoRefusal DEF GoError
<1>3. ASSUME NEW v \in [deactivated_count : {0, 1}, removed_count : {0, 2}],
           a = Answer(DeactivateTeamMembersOK, v)
      PROVE  goal
  <2>1. a = [go |-> "DeactivateTeamMembersOK", value |-> v]
    BY <1>3 DEF Answer, DeactivateTeamMembersOK, Object
  <2>2. a.go = "DeactivateTeamMembersOK" /\ a.value = v
    BY <2>1
  <2>3. r = Response(200, Json, <<Encode(DeactivateTeamMembersOK, a.value)>>)
    BY <2>2, DeactivateTeamMembersWritten
  <2>4. r = Response(200, Json, <<Encode(DeactivateTeamMembersOK, v)>>)
    BY <2>2, <2>3
  <2>5. decodeDeactivateTeamMembersResponse(r) = {InTransit(a)}
    <3> DEFINE w == v
    <3>1. IsDeactivateTeamMembersOK(v)
      BY <1>3 DEF IsDeactivateTeamMembersOK
    <3>2. Decode(DeactivateTeamMembersOK, Encode(DeactivateTeamMembersOK, v)) = {w}
      BY <1>3, <3>1, DeactivateTeamMembersOKThrough
    <3>3. Unrestricted(w)
      BY <3>1 DEF Unrestricted
    <3>4. InTransit(a) = Answer(DeactivateTeamMembersOK, w)
      BY <1>3, <2>1 DEF InTransit, Answer, DeactivateTeamMembersOK, Object
    <3> HIDE DEF w
    <3>5. /\ r.status = 200 /\ r.ctype = Json /\ Len(r.body) = 1
          /\ r.body[1] = Encode(DeactivateTeamMembersOK, v)
      BY <2>4 DEF Response
    <3>6. {x \in Decode(DeactivateTeamMembersOK, r.body[1]) : Unrestricted(x)} = {w}
      BY <3>2, <3>3, <3>5
    <3>7. Read(r, 200, DeactivateTeamMembersOK, Unrestricted) = {Answer(DeactivateTeamMembersOK, w)}
      BY <3>5, <3>6 DEF Read
    <3>8. /\ ReadError(r, 400, DeactivateTeamMembersBadRequest) = {}
          /\ ReadError(r, 404, DeactivateTeamMembersNotFound) = {}
          /\ ReadError(r, 500, DeactivateTeamMembersInternalServerError) = {}
      BY <2>4, OtherStatus
    <3> QED
      BY <3>4, <3>7, <3>8 DEF decodeDeactivateTeamMembersResponse
  <2> QED
    BY <2>2, <2>4, <2>5, NoRefusal DEF GoError
<1> QED
  BY <1>1, <1>2, <1>3 DEF DeactivateTeamMembersAnswers, ErrorCodes

\* GetAssignmentStats: the client reads what the service answered, whatever that was.
LEMMA GetAssignmentStatsUnderstood ==
  ASSUME NEW ns, NEW a \in GetAssignmentStatsAnswers(ns) \ {GoError},
         NEW r, r = encodeGetAssignmentStatsResponse(a)
  PROVE  /\ a.go # GoError.go /\ ~Refusal(r)
         /\ HoldsValidNames(ns) =>
              decodeGetAssignmentStatsResponse(r) = {InTransit(a)}
<1> DEFINE goal == /\ a.go # GoError.go /\ ~Refusal(r)
                   /\ HoldsValidNames(ns) =>
                        decodeGetAssignmentStatsResponse(r) = {InTransit(a)}
<1>1. ASSUME NEW v \in
             [user_stats : AtMostOne([user_id : Uuids, username : ns.users, assignment_count : {0, 1}]),
              pr_stats : AtMostOne([pull_request_id : Uuids, pull_request_name : ns.prs,
                                    reviewer_count : {2}])],
           a = Answer(GetAssignmentStatsOK, v)
      PROVE  goal
  <2>1. a = [go |-> "GetAssignmentStatsOK", value |-> v]
    BY <1>1 DEF Answer, GetAssignmentStatsOK, Object
  <2>2. a.go = "GetAssignmentStatsOK" /\ a.value = v
    BY <2>1
  <2>3. r = Response(200, Json, <<Encode(GetAssignmentStatsOK, a.value)>>)
    BY <2>2, GetAssignmentStatsWritten
  <2>4. r = Response(200, Json, <<Encode(GetAssignmentStatsOK, v)>>)
    BY <2>2, <2>3
  <2>5. ASSUME HoldsValidNames(ns)
        PROVE  decodeGetAssignmentStatsResponse(r) = {InTransit(a)}
    <3> DEFINE w == v
    <3>1. IsGetAssignmentStatsOK(v)
      <4> DEFINE users == [user_id : Uuids, username : ns.users, assignment_count : {0, 1}]
                 prs   == [pull_request_id : Uuids, pull_request_name : ns.prs, reviewer_count : {2}]
      <4>1. v = [user_stats |-> v.user_stats, pr_stats |-> v.pr_stats]
        BY <1>1
      <4>2. v.user_stats \in AtMostOne(users) /\ v.pr_stats \in AtMostOne(prs)
        BY <1>1
      <4>3. (\A x \in users : IsUserStatsItem(x)) /\ (\A x \in prs : IsPrStatsItem(x))
        BY DEF IsUserStatsItem, IsPrStatsItem
      <4> HIDE DEF users, prs
      <4>4. /\ IsList(v.user_stats) /\ \A i \in DOMAIN v.user_stats : v.user_stats[i] \in users
            /\ IsList(v.pr_stats) /\ \A i \in DOMAIN v.pr_stats : v.pr_stats[i] \in prs
        BY <4>2, ShortLists
      <4> QED
        BY <4>1, <4>3, <4>4 DEF IsGetAssignmentStatsOK
    <3>2. Decode(GetAssignmentStatsOK, Encode(GetAssignmentStatsOK, v)) = {w}
      BY <1>1, <3>1, GetAssignmentStatsOKThrough
    <3>3. Unrestricted(w)
      BY <3>1 DEF Unrestricted
    <3>4. InTransit(a) = Answer(GetAssignmentStatsOK, w)
      BY <1>1, <2>1 DEF InTransit, Answer, GetAssignmentStatsOK, Object
    <3> HIDE DEF w
    <3>5. /\ r.status = 200 /\ r.ctype = Json /\ Len(r.body) = 1
          /\ r.body[1] = Encode(GetAssignmentStatsOK, v)
      BY <2>4 DEF Response
    <3>6. {x \in Decode(GetAssignmentStatsOK, r.body[1]) : Unrestricted(x)} = {w}
      BY <3>2, <3>3, <3>5
    <3>7. Read(r, 200, GetAssignmentStatsOK, Unrestricted) = {Answer(GetAssignmentStatsOK, w)}
      BY <3>5, <3>6 DEF Read
    <3>8. /\ ReadError(r, 500, ErrorResponse) = {}
      BY <2>4, OtherStatus
    <3> QED
      BY <3>4, <3>7, <3>8 DEF decodeGetAssignmentStatsResponse
  <2> QED
    BY <2>2, <2>4, <2>5, NoRefusal DEF GoError
<1> QED
  BY <1>1 DEF GetAssignmentStatsAnswers, ErrorCodes

\* GetTeam: the client reads what the service answered, whatever that was.
LEMMA GetTeamUnderstood ==
  ASSUME NEW ns, NEW params, NEW a \in GetTeamAnswers(ns, params),
         NEW r, r = encodeGetTeamResponse(a)
  PROVE  /\ a.go # GoError.go /\ ~Refusal(r)
         /\ HoldsValidNames(ns) =>
              decodeGetTeamResponse(r) = {InTransit(a)}
<1> DEFINE goal == /\ a.go # GoError.go /\ ~Refusal(r)
                   /\ HoldsValidNames(ns) =>
                        decodeGetTeamResponse(r) = {InTransit(a)}
<1>1. ASSUME NEW code \in ErrorCodes, a = Failure(GetTeamNotFound, code) PROVE goal
  <2>1. a.go = "GetTeamNotFound"
    BY <1>1 DEF Failure, Answer, GetTeamNotFound, Alias, ErrorResponse, Object
  <2>2. r = Response(404, Json, <<Encode(GetTeamNotFound, a.value)>>)
    BY <2>1, GetTeamWritten
  <2>3. ReadError(r, 404, GetTeamNotFound) = {a}
    BY <1>1, <2>2, ErrorRead DEF GetTeamNotFound
  <2>4. Read(r, 200, Team, ValidTeam) = {}
    BY <2>2 DEF Read, Response
  <2>5. /\ ReadError(r, 400, GetTeamBadRequest) = {}
        /\ ReadError(r, 500, GetTeamInternalServerError) = {}
    BY <2>2, OtherStatus
  <2>6. decodeGetTeamResponse(r) = {a}
    BY <2>3, <2>4, <2>5 DEF decodeGetTeamResponse
  <2>7. InTransit(a) = a
    BY <2>1 DEF InTransit
  <2> QED
    BY <2>1, <2>2, <2>6, <2>7, NoRefusal DEF GoError
<1>2. ASSUME NEW code \in ErrorCodes, a = Failure(GetTeamInternalServerError, code) PROVE goal
  <2>1. a.go = "GetTeamInternalServerError"
    BY <1>2 DEF Failure, Answer, GetTeamInternalServerError, Alias, ErrorResponse, Object
  <2>2. r = Response(500, Json, <<Encode(GetTeamInternalServerError, a.value)>>)
    BY <2>1, GetTeamWritten
  <2>3. ReadError(r, 500, GetTeamInternalServerError) = {a}
    BY <1>2, <2>2, ErrorRead DEF GetTeamInternalServerError
  <2>4. Read(r, 200, Team, ValidTeam) = {}
    BY <2>2 DEF Read, Response
  <2>5. /\ ReadError(r, 400, GetTeamBadRequest) = {}
        /\ ReadError(r, 404, GetTeamNotFound) = {}
    BY <2>2, OtherStatus
  <2>6. decodeGetTeamResponse(r) = {a}
    BY <2>3, <2>4, <2>5 DEF decodeGetTeamResponse
  <2>7. InTransit(a) = a
    BY <2>1 DEF InTransit
  <2> QED
    BY <2>1, <2>2, <2>6, <2>7, NoRefusal DEF GoError
<1>3. ASSUME NEW v \in
             [team_name : ns.teams \cap {params.team_name},
              members : AtMostOne([user_id : Uuids, username : ns.users, is_active : BOOLEAN])],
           a = Answer(Team, v)
      PROVE  goal
  <2>1. a = [go |-> "Team", value |-> v]
    BY <1>3 DEF Answer, Team, Object
  <2>2. a.go = "Team" /\ a.value = v
    BY <2>1
  <2>3. r = Response(200, Json, <<Encode(Team, a.value)>>)
    BY <2>2, GetTeamWritten
  <2>4. r = Response(200, Json, <<Encode(Team, v)>>)
    BY <2>2, <2>3
  <2>5. ASSUME HoldsValidNames(ns)
        PROVE  decodeGetTeamResponse(r) = {InTransit(a)}
    <3> DEFINE w == v
    <3>1. IsTeam(v) /\ ValidTeam(v)
      <4>1. v.team_name \in ns.teams /\ v = [team_name |-> v.team_name, members |-> v.members]
        BY <1>3
      <4>2. v.members \in AtMostOne([user_id : Uuids, username : ns.users, is_active : BOOLEAN])
        BY <1>3
      <4>3. /\ IsList(v.members)
            /\ \A i \in DOMAIN v.members :
                 v.members[i] \in [user_id : Uuids, username : ns.users, is_active : BOOLEAN]
        BY <4>2, ShortLists
      <4>4. \A m \in [user_id : Uuids, username : ns.users, is_active : BOOLEAN] :
              IsTeamMember(m) /\ ValidTeamMember(m)
        BY <2>5 DEF IsTeamMember, ValidTeamMember, HoldsValidNames
      <4> QED
        BY <2>5, <4>1, <4>3, <4>4 DEF IsTeam, ValidTeam, HoldsValidNames, Range
    <3>2. Decode(Team, Encode(Team, v)) = {w}
      BY <1>3, <3>1, TeamThrough
    <3>3. ValidTeam(w)
      BY <3>1 DEF ValidTeam
    <3>4. InTransit(a) = Answer(Team, w)
      BY <1>3, <2>1 DEF InTransit, Answer, Team, Object
    <3> HIDE DEF w
    <3>5. r.status = 200 /\ r.ctype = Json /\ Len(r.body) = 1 /\ r.body[1] = Encode(Team, v)
      BY <2>4 DEF Response
    <3>6. {x \in Decode(Team, r.body[1]) : ValidTeam(x)} = {w}
      BY <3>2, <3>3, <3>5
    <3>7. Read(r, 200, Team, ValidTeam) = {Answer(Team, w)}
      BY <3>5, <3>6 DEF Read
    <3>8. /\ ReadError(r, 400, GetTeamBadRequest) = {}
          /\ ReadError(r, 404, GetTeamNotFound) = {}
          /\ ReadError(r, 500, GetTeamInternalServerError) = {}
      BY <2>4, OtherStatus
    <3> QED
      BY <3>4, <3>7, <3>8 DEF decodeGetTeamResponse
  <2> QED
    BY <2>2, <2>4, <2>5, NoRefusal DEF GoError
<1> QED
  BY <1>1, <1>2, <1>3 DEF GetTeamAnswers, ErrorCodes

\* GetUserReviews: the client reads what the service answered, whatever that was.
LEMMA GetUserReviewsUnderstood ==
  ASSUME NEW ns, NEW params, NEW a \in GetUserReviewsAnswers(ns, params),
         NEW r, r = encodeGetUserReviewsResponse(a)
  PROVE  /\ a.go # GoError.go /\ ~Refusal(r)
         /\ HoldsValidNames(ns) /\ params.user_id \in Uuids =>
              decodeGetUserReviewsResponse(r) = {InTransit(a)}
<1> DEFINE goal == /\ a.go # GoError.go /\ ~Refusal(r)
                   /\ HoldsValidNames(ns) /\ params.user_id \in Uuids =>
                        decodeGetUserReviewsResponse(r) = {InTransit(a)}
<1>1. ASSUME NEW code \in ErrorCodes, a = Failure(GetUserReviewsNotFound, code) PROVE goal
  <2>1. a.go = "GetUserReviewsNotFound"
    BY <1>1 DEF Failure, Answer, GetUserReviewsNotFound, Alias, ErrorResponse, Object
  <2>2. r = Response(404, Json, <<Encode(GetUserReviewsNotFound, a.value)>>)
    BY <2>1, GetUserReviewsWritten
  <2>3. ReadError(r, 404, GetUserReviewsNotFound) = {a}
    BY <1>1, <2>2, ErrorRead DEF GetUserReviewsNotFound
  <2>4. Read(r, 200, GetUserReviewsOK, ValidGetUserReviewsOK) = {}
    BY <2>2 DEF Read, Response
  <2>5. /\ ReadError(r, 400, GetUserReviewsBadRequest) = {}
        /\ ReadError(r, 500, GetUserReviewsInternalServerError) = {}
    BY <2>2, OtherStatus
  <2>6. decodeGetUserReviewsResponse(r) = {a}
    BY <2>3, <2>4, <2>5 DEF decodeGetUserReviewsResponse
  <2>7. InTransit(a) = a
    BY <2>1 DEF InTransit
  <2> QED
    BY <2>1, <2>2, <2>6, <2>7, NoRefusal DEF GoError
<1>2. ASSUME NEW code \in ErrorCodes, a = Failure(GetUserReviewsInternalServerError, code)
      PROVE  goal
  <2>1. a.go = "GetUserReviewsInternalServerError"
    BY <1>2 DEF Failure, Answer, GetUserReviewsInternalServerError, Alias, ErrorResponse, Object
  <2>2. r = Response(500, Json, <<Encode(GetUserReviewsInternalServerError, a.value)>>)
    BY <2>1, GetUserReviewsWritten
  <2>3. ReadError(r, 500, GetUserReviewsInternalServerError) = {a}
    BY <1>2, <2>2, ErrorRead DEF GetUserReviewsInternalServerError
  <2>4. Read(r, 200, GetUserReviewsOK, ValidGetUserReviewsOK) = {}
    BY <2>2 DEF Read, Response
  <2>5. /\ ReadError(r, 400, GetUserReviewsBadRequest) = {}
        /\ ReadError(r, 404, GetUserReviewsNotFound) = {}
    BY <2>2, OtherStatus
  <2>6. decodeGetUserReviewsResponse(r) = {a}
    BY <2>3, <2>4, <2>5 DEF decodeGetUserReviewsResponse
  <2>7. InTransit(a) = a
    BY <2>1 DEF InTransit
  <2> QED
    BY <2>1, <2>2, <2>6, <2>7, NoRefusal DEF GoError
<1>3. ASSUME NEW v \in [user_id : {params.user_id}, pull_requests : AtMostOne(ShortPRs(ns))],
           a = Answer(GetUserReviewsOK, v)
      PROVE  goal
  <2>1. a = [go |-> "GetUserReviewsOK", value |-> v]
    BY <1>3 DEF Answer, GetUserReviewsOK, Object
  <2>2. a.go = "GetUserReviewsOK" /\ a.value = v
    BY <2>1
  <2>3. r = Response(200, Json, <<Encode(GetUserReviewsOK, a.value)>>)
    BY <2>2, GetUserReviewsWritten
  <2>4. r = Response(200, Json, <<Encode(GetUserReviewsOK, v)>>)
    BY <2>2, <2>3
  <2>5. ASSUME HoldsValidNames(ns), params.user_id \in Uuids
        PROVE  decodeGetUserReviewsResponse(r) = {InTransit(a)}
    <3> DEFINE w == v
    <3>1. IsGetUserReviewsOK(v) /\ ValidGetUserReviewsOK(v)
      <4>1. v = [user_id |-> v.user_id, pull_requests |-> v.pull_requests] /\ v.user_id \in Uuids
        BY <1>3, <2>5
      <4>2. v.pull_requests \in AtMostOne(ShortPRs(ns))
        BY <1>3
      <4>3. /\ IsList(v.pull_requests)
            /\ \A i \in DOMAIN v.pull_requests : v.pull_requests[i] \in ShortPRs(ns)
        BY <4>2, ShortLists
      <4>4. \A p \in ShortPRs(ns) : IsPullRequestShort(p) /\ ValidPullRequestShort(p)
        BY <2>5 DEF ShortPRs, IsPullRequestShort, ValidPullRequestShort,
                    ValidPullRequestShortStatus, HoldsValidNames
      <4> QED
        BY <4>1, <4>3, <4>4 DEF IsGetUserReviewsOK, ValidGetUserReviewsOK, Range
    <3>2. Decode(GetUserReviewsOK, Encode(GetUserReviewsOK, v)) = {w}
      BY <1>3, <3>1, GetUserReviewsOKThrough
    <3>3. ValidGetUserReviewsOK(w)
      BY <3>1 DEF ValidGetUserReviewsOK
    <3>4. InTransit(a) = Answer(GetUserReviewsOK, w)
      BY <1>3, <2>1 DEF InTransit, Answer, GetUserReviewsOK, Object
    <3> HIDE DEF w
    <3>5. /\ r.status = 200 /\ r.ctype = Json /\ Len(r.body) = 1
          /\ r.body[1] = Encode(GetUserReviewsOK, v)
      BY <2>4 DEF Response
    <3>6. {x \in Decode(GetUserReviewsOK, r.body[1]) : ValidGetUserReviewsOK(x)} = {w}
      BY <3>2, <3>3, <3>5
    <3>7. Read(r, 200, GetUserReviewsOK, ValidGetUserReviewsOK) = {Answer(GetUserReviewsOK, w)}
      BY <3>5, <3>6 DEF Read
    <3>8. /\ ReadError(r, 400, GetUserReviewsBadRequest) = {}
          /\ ReadError(r, 404, GetUserReviewsNotFound) = {}
          /\ ReadError(r, 500, GetUserReviewsInternalServerError) = {}
      BY <2>4, OtherStatus
    <3> QED
      BY <3>4, <3>7, <3>8 DEF decodeGetUserReviewsResponse
  <2> QED
    BY <2>2, <2>4, <2>5, NoRefusal DEF GoError
<1> QED
  BY <1>1, <1>2, <1>3 DEF GetUserReviewsAnswers, ErrorCodes

\* MergePullRequest: the client reads what the service answered, whatever that was.
LEMMA MergePullRequestUnderstood ==
  ASSUME NEW ns, NEW req, NEW a \in MergePullRequestAnswers(ns, req),
         NEW r, r = encodeMergePullRequestResponse(a)
  PROVE  /\ a.go # GoError.go /\ ~Refusal(r)
         /\ HoldsValidNames(ns) /\ IsMergePullRequestReq(req) =>
              decodeMergePullRequestResponse(r) = {InTransit(a)}
<1> DEFINE goal == /\ a.go # GoError.go /\ ~Refusal(r)
                   /\ HoldsValidNames(ns) /\ IsMergePullRequestReq(req) =>
                        decodeMergePullRequestResponse(r) = {InTransit(a)}
<1>1. ASSUME NEW code \in ErrorCodes, a = Failure(MergePullRequestNotFound, code) PROVE goal
  <2>1. a.go = "MergePullRequestNotFound"
    BY <1>1 DEF Failure, Answer, MergePullRequestNotFound, Alias, ErrorResponse, Object
  <2>2. r = Response(404, Json, <<Encode(MergePullRequestNotFound, a.value)>>)
    BY <2>1, MergePullRequestWritten
  <2>3. ReadError(r, 404, MergePullRequestNotFound) = {a}
    BY <1>1, <2>2, ErrorRead DEF MergePullRequestNotFound
  <2>4. Read(r, 200, MergePullRequestOK, ValidMergePullRequestOK) = {}
    BY <2>2 DEF Read, Response
  <2>5. /\ ReadError(r, 400, MergePullRequestBadRequest) = {}
        /\ ReadError(r, 500, MergePullRequestInternalServerError) = {}
    BY <2>2, OtherStatus
  <2>6. decodeMergePullRequestResponse(r) = {a}
    BY <2>3, <2>4, <2>5 DEF decodeMergePullRequestResponse
  <2>7. InTransit(a) = a
    BY <2>1 DEF InTransit
  <2> QED
    BY <2>1, <2>2, <2>6, <2>7, NoRefusal DEF GoError
<1>2. ASSUME NEW code \in ErrorCodes, a = Failure(MergePullRequestInternalServerError, code)
      PROVE  goal
  <2>1. a.go = "MergePullRequestInternalServerError"
    BY <1>2 DEF Failure, Answer, MergePullRequestInternalServerError, Alias, ErrorResponse, Object
  <2>2. r = Response(500, Json, <<Encode(MergePullRequestInternalServerError, a.value)>>)
    BY <2>1, MergePullRequestWritten
  <2>3. ReadError(r, 500, MergePullRequestInternalServerError) = {a}
    BY <1>2, <2>2, ErrorRead DEF MergePullRequestInternalServerError
  <2>4. Read(r, 200, MergePullRequestOK, ValidMergePullRequestOK) = {}
    BY <2>2 DEF Read, Response
  <2>5. /\ ReadError(r, 400, MergePullRequestBadRequest) = {}
        /\ ReadError(r, 404, MergePullRequestNotFound) = {}
    BY <2>2, OtherStatus
  <2>6. decodeMergePullRequestResponse(r) = {a}
    BY <2>3, <2>4, <2>5 DEF decodeMergePullRequestResponse
  <2>7. InTransit(a) = a
    BY <2>1 DEF InTransit
  <2> QED
    BY <2>1, <2>2, <2>6, <2>7, NoRefusal DEF GoError
<1>3. ASSUME NEW p \in StoredPRs(ns, req.pull_request_id),
           a = Answer(MergePullRequestOK, [pr |-> p])
      PROVE  goal
  <2>1. a = [go |-> "MergePullRequestOK", value |-> [pr |-> p]]
    BY <1>3 DEF Answer, MergePullRequestOK, Object
  <2>2. a.go = "MergePullRequestOK" /\ a.value = [pr |-> p]
    BY <2>1
  <2>3. r = Response(200, Json, <<Encode(MergePullRequestOK, a.value)>>)
    BY <2>2, MergePullRequestWritten
  <2>4. r = Response(200, Json, <<Encode(MergePullRequestOK, [pr |-> p])>>)
    BY <2>2, <2>3
  <2>5. ASSUME HoldsValidNames(ns), IsMergePullRequestReq(req)
        PROVE  decodeMergePullRequestResponse(r) = {InTransit(a)}
    <3> DEFINE w == [pr |-> InSeconds(p)]
    <3>1. IsPullRequest(p) /\ ValidPullRequest(InSeconds(p))
      BY <1>3, <2>5, StoredPRsArrive DEF IsMergePullRequestReq
    <3>2. Decode(MergePullRequestOK, Encode(MergePullRequestOK, [pr |-> p])) = {w}
      BY <1>3, <3>1, MergePullRequestOKThrough
    <3>3. ValidMergePullRequestOK(w)
      BY <3>1 DEF ValidMergePullRequestOK, WhenSet
    <3>4. InTransit(a) = Answer(MergePullRequestOK, w)
      BY <1>3, <2>1, PullRequestInTransit DEF Answer, MergePullRequestOK, Object
    <3> HIDE DEF w
    <3>5. /\ r.status = 200 /\ r.ctype = Json /\ Len(r.body) = 1
          /\ r.body[1] = Encode(MergePullRequestOK, [pr |-> p])
      BY <2>4 DEF Response
    <3>6. {x \in Decode(MergePullRequestOK, r.body[1]) : ValidMergePullRequestOK(x)} = {w}
      BY <3>2, <3>3, <3>5
    <3>7. Read(r, 200, MergePullRequestOK, ValidMergePullRequestOK) =
            {Answer(MergePullRequestOK, w)}
      BY <3>5, <3>6 DEF Read
    <3>8. /\ ReadError(r, 400, MergePullRequestBadRequest) = {}
          /\ ReadError(r, 404, MergePullRequestNotFound) = {}
          /\ ReadError(r, 500, MergePullRequestInternalServerError) = {}
      BY <2>4, OtherStatus
    <3> QED
      BY <3>4, <3>7, <3>8 DEF decodeMergePullRequestResponse
  <2> QED
    BY <2>2, <2>4, <2>5, NoRefusal DEF GoError
<1> QED
  BY <1>1, <1>2, <1>3 DEF MergePullRequestAnswers, ErrorCodes

\* ReassignReviewer: the client reads what the service answered, whatever that was.
LEMMA ReassignReviewerUnderstood ==
  ASSUME NEW ns, NEW req, NEW a \in ReassignReviewerAnswers(ns, req),
         NEW r, r = encodeReassignReviewerResponse(a)
  PROVE  /\ a.go # GoError.go /\ ~Refusal(r)
         /\ HoldsValidNames(ns) /\ IsReassignReviewerReq(req) =>
              decodeReassignReviewerResponse(r) = {InTransit(a)}
<1> DEFINE goal == /\ a.go # GoError.go /\ ~Refusal(r)
                   /\ HoldsValidNames(ns) /\ IsReassignReviewerReq(req) =>
                        decodeReassignReviewerResponse(r) = {InTransit(a)}
<1>1. ASSUME NEW code \in ErrorCodes, a = Failure(ReassignReviewerNotFound, code) PROVE goal
  <2>1. a.go = "ReassignReviewerNotFound"
    BY <1>1 DEF Failure, Answer, ReassignReviewerNotFound, Alias, ErrorResponse, Object
  <2>2. r = Response(404, Json, <<Encode(ReassignReviewerNotFound, a.value)>>)
    BY <2>1, ReassignReviewerWritten
  <2>3. ReadError(r, 404, ReassignReviewerNotFound) = {a}
    BY <1>1, <2>2, ErrorRead DEF ReassignReviewerNotFound
  <2>4. Read(r, 200, ReassignReviewerOK, ValidReassignReviewerOK) = {}
    BY <2>2 DEF Read, Response
  <2>5. /\ ReadError(r, 400, ReassignReviewerBadRequest) = {}
        /\ ReadError(r, 409, ReassignReviewerConflict) = {}
        /\ ReadError(r, 500, ReassignReviewerInternalServerError) = {}
    BY <2>2, OtherStatus
  <2>6. decodeReassignReviewerResponse(r) = {a}
    BY <2>3, <2>4, <2>5 DEF decodeReassignReviewerResponse
  <2>7. InTransit(a) = a
    BY <2>1 DEF InTransit
  <2> QED
    BY <2>1, <2>2, <2>6, <2>7, NoRefusal DEF GoError
<1>2. ASSUME NEW code \in ErrorCodes, a = Failure(ReassignReviewerConflict, code) PROVE goal
  <2>1. a.go = "ReassignReviewerConflict"
    BY <1>2 DEF Failure, Answer, ReassignReviewerConflict, Alias, ErrorResponse, Object
  <2>2. r = Response(409, Json, <<Encode(ReassignReviewerConflict, a.value)>>)
    BY <2>1, ReassignReviewerWritten
  <2>3. ReadError(r, 409, ReassignReviewerConflict) = {a}
    BY <1>2, <2>2, ErrorRead DEF ReassignReviewerConflict
  <2>4. Read(r, 200, ReassignReviewerOK, ValidReassignReviewerOK) = {}
    BY <2>2 DEF Read, Response
  <2>5. /\ ReadError(r, 400, ReassignReviewerBadRequest) = {}
        /\ ReadError(r, 404, ReassignReviewerNotFound) = {}
        /\ ReadError(r, 500, ReassignReviewerInternalServerError) = {}
    BY <2>2, OtherStatus
  <2>6. decodeReassignReviewerResponse(r) = {a}
    BY <2>3, <2>4, <2>5 DEF decodeReassignReviewerResponse
  <2>7. InTransit(a) = a
    BY <2>1 DEF InTransit
  <2> QED
    BY <2>1, <2>2, <2>6, <2>7, NoRefusal DEF GoError
<1>3. ASSUME NEW code \in ErrorCodes, a = Failure(ReassignReviewerInternalServerError, code)
      PROVE  goal
  <2>1. a.go = "ReassignReviewerInternalServerError"
    BY <1>3 DEF Failure, Answer, ReassignReviewerInternalServerError, Alias, ErrorResponse, Object
  <2>2. r = Response(500, Json, <<Encode(ReassignReviewerInternalServerError, a.value)>>)
    BY <2>1, ReassignReviewerWritten
  <2>3. ReadError(r, 500, ReassignReviewerInternalServerError) = {a}
    BY <1>3, <2>2, ErrorRead DEF ReassignReviewerInternalServerError
  <2>4. Read(r, 200, ReassignReviewerOK, ValidReassignReviewerOK) = {}
    BY <2>2 DEF Read, Response
  <2>5. /\ ReadError(r, 400, ReassignReviewerBadRequest) = {}
        /\ ReadError(r, 404, ReassignReviewerNotFound) = {}
        /\ ReadError(r, 409, ReassignReviewerConflict) = {}
    BY <2>2, OtherStatus
  <2>6. decodeReassignReviewerResponse(r) = {a}
    BY <2>3, <2>4, <2>5 DEF decodeReassignReviewerResponse
  <2>7. InTransit(a) = a
    BY <2>1 DEF InTransit
  <2> QED
    BY <2>1, <2>2, <2>6, <2>7, NoRefusal DEF GoError
<1>4. ASSUME NEW p \in StoredPRs(ns, req.pull_request_id), NEW u \in Uuids,
           a = Answer(ReassignReviewerOK, [pr |-> p, replaced_by |-> u])
      PROVE  goal
  <2>1. a = [go |-> "ReassignReviewerOK", value |-> [pr |-> p, replaced_by |-> u]]
    BY <1>4 DEF Answer, ReassignReviewerOK, Object
  <2>2. a.go = "ReassignReviewerOK" /\ a.value = [pr |-> p, replaced_by |-> u]
    BY <2>1
  <2>3. r = Response(200, Json, <<Encode(ReassignReviewerOK, a.value)>>)
    BY <2>2, ReassignReviewerWritten
  <2>4. r = Response(200, Json, <<Encode(ReassignReviewerOK, [pr |-> p, replaced_by |-> u])>>)
    BY <2>2, <2>3
  <2>5. ASSUME HoldsValidNames(ns), IsReassignReviewerReq(req)
        PROVE  decodeReassignReviewerResponse(r) = {InTransit(a)}
    <3> DEFINE w == [pr |-> InSeconds(p), replaced_by |-> u]
    <3>1. IsPullRequest(p) /\ ValidPullRequest(InSeconds(p))
      BY <1>4, <2>5, StoredPRsArrive DEF IsReassignReviewerReq
    <3>2. Decode(ReassignReviewerOK,
                 Encode(ReassignReviewerOK, [pr |-> p, replaced_by |-> u])) = {w}
      BY <1>4, <3>1, ReassignReviewerOKThrough
    <3>3. ValidReassignReviewerOK(w)
      BY <3>1 DEF ValidReassignReviewerOK
    <3>4. InTransit(a) = Answer(ReassignReviewerOK, w)
      BY <1>4, <2>1, PullRequestInTransit DEF Answer, ReassignReviewerOK, Object
    <3> HIDE DEF w
    <3>5. /\ r.status = 200 /\ r.ctype = Json /\ Len(r.body) = 1
          /\ r.body[1] = Encode(ReassignReviewerOK, [pr |-> p, replaced_by |-> u])
      BY <2>4 DEF Response
    <3>6. {x \in Decode(ReassignReviewerOK, r.body[1]) : ValidReassignReviewerOK(x)} = {w}
      BY <3>2, <3>3, <3>5
    <3>7. Read(r, 200, ReassignReviewerOK, ValidReassignReviewerOK) =
            {Answer(ReassignReviewerOK, w)}
      BY <3>5, <3>6 DEF Read
    <3>8. /\ ReadError(r, 400, ReassignReviewerBadRequest) = {}
          /\ ReadError(r, 404, ReassignReviewerNotFound) = {}
          /\ ReadError(r, 409, ReassignReviewerConflict) = {}
          /\ ReadError(r, 500, ReassignReviewerInternalServerError) = {}
      BY <2>4, OtherStatus
    <3> QED
      BY <3>4, <3>7, <3>8 DEF decodeReassignReviewerResponse
  <2> QED
    BY <2>2, <2>4, <2>5, NoRefusal DEF GoError
<1> QED
  BY <1>1, <1>2, <1>3, <1>4 DEF ReassignReviewerAnswers, ErrorCodes

\* SetUserActive: the client reads what the service answered, whatever that was.
LEMMA SetUserActiveUnderstood ==
  ASSUME NEW ns, NEW req, NEW a \in SetUserActiveAnswers(ns, req),
         NEW r, r = encodeSetUserActiveResponse(a)
  PROVE  /\ a.go # GoError.go /\ ~Refusal(r)
         /\ HoldsValidNames(ns) /\ IsSetUserActiveReq(req) =>
              decodeSetUserActiveResponse(r) = {InTransit(a)}
<1> DEFINE goal == /\ a.go # GoError.go /\ ~Refusal(r)
                   /\ HoldsValidNames(ns) /\ IsSetUserActiveReq(req) =>
                        decodeSetUserActiveResponse(r) = {InTransit(a)}
<1>1. ASSUME NEW code \in ErrorCodes, a = Failure(SetUserActiveNotFound, code) PROVE goal
  <2>1. a.go = "SetUserActiveNotFound"
    BY <1>1 DEF Failure, Answer, SetUserActiveNotFound, Alias, ErrorResponse, Object
  <2>2. r = Response(404, Json, <<Encode(SetUserActiveNotFound, a.value)>>)
    BY <2>1, SetUserActiveWritten
  <2>3. ReadError(r, 404, SetUserActiveNotFound) = {a}
    BY <1>1, <2>2, ErrorRead DEF SetUserActiveNotFound
  <2>4. Read(r, 200, SetUserActiveOK, ValidSetUserActiveOK) = {}
    BY <2>2 DEF Read, Response
  <2>5. /\ ReadError(r, 400, SetUserActiveBadRequest) = {}
        /\ ReadError(r, 500, SetUserActiveInternalServerError) = {}
    BY <2>2, OtherStatus
  <2>6. decodeSetUserActiveResponse(r) = {a}
    BY <2>3, <2>4, <2>5 DEF decodeSetUserActiveResponse
  <2>7. InTransit(a) = a
    BY <2>1 DEF InTransit
  <2> QED
    BY <2>1, <2>2, <2>6, <2>7, NoRefusal DEF GoError
<1>2. ASSUME NEW code \in ErrorCodes, a = Failure(SetUserActiveInternalServerError, code) PROVE goal
  <2>1. a.go = "SetUserActiveInternalServerError"
    BY <1>2 DEF Failure, Answer, SetUserActiveInternalServerError, Alias, ErrorResponse, Object
  <2>2. r = Response(500, Json, <<Encode(SetUserActiveInternalServerError, a.value)>>)
    BY <2>1, SetUserActiveWritten
  <2>3. ReadError(r, 500, SetUserActiveInternalServerError) = {a}
    BY <1>2, <2>2, ErrorRead DEF SetUserActiveInternalServerError
  <2>4. Read(r, 200, SetUserActiveOK, ValidSetUserActiveOK) = {}
    BY <2>2 DEF Read, Response
  <2>5. /\ ReadError(r, 400, SetUserActiveBadRequest) = {}
        /\ ReadError(r, 404, SetUserActiveNotFound) = {}
    BY <2>2, OtherStatus
  <2>6. decodeSetUserActiveResponse(r) = {a}
    BY <2>3, <2>4, <2>5 DEF decodeSetUserActiveResponse
  <2>7. InTransit(a) = a
    BY <2>1 DEF InTransit
  <2> QED
    BY <2>1, <2>2, <2>6, <2>7, NoRefusal DEF GoError
<1>3. ASSUME NEW u \in
             [user_id : {req.user_id}, username : ns.users, team_name : ns.teams,
              is_active : {req.is_active}],
           a = Answer(SetUserActiveOK, [user |-> u])
      PROVE  goal
  <2>1. a = [go |-> "SetUserActiveOK", value |-> [user |-> u]]
    BY <1>3 DEF Answer, SetUserActiveOK, Object
  <2>2. a.go = "SetUserActiveOK" /\ a.value = [user |-> u]
    BY <2>1
  <2>3. r = Response(200, Json, <<Encode(SetUserActiveOK, a.value)>>)
    BY <2>2, SetUserActiveWritten
  <2>4. r = Response(200, Json, <<Encode(SetUserActiveOK, [user |-> u])>>)
    BY <2>2, <2>3
  <2>5. ASSUME HoldsValidNames(ns), IsSetUserActiveReq(req)
        PROVE  decodeSetUserActiveResponse(r) = {InTransit(a)}
    <3> DEFINE w == [user |-> u]
    <3>1. IsUser(u) /\ ValidUser(u)
      BY <1>3, <2>5 DEF IsUser, ValidUser, HoldsValidNames, IsSetUserActiveReq
    <3>2. Decode(SetUserActiveOK, Encode(SetUserActiveOK, [user |-> u])) = {w}
      BY <1>3, <3>1, SetUserActiveOKThrough
    <3>3. ValidSetUserActiveOK(w)
      BY <3>1 DEF ValidSetUserActiveOK, WhenSet
    <3>4. InTransit(a) = Answer(SetUserActiveOK, w)
      BY <1>3, <2>1 DEF InTransit, Answer, SetUserActiveOK, Object
    <3> HIDE DEF w
    <3>5. /\ r.status = 200 /\ r.ctype = Json /\ Len(r.body) = 1
          /\ r.body[1] = Encode(SetUserActiveOK, [user |-> u])
      BY <2>4 DEF Response
    <3>6. {x \in Decode(SetUserActiveOK, r.body[1]) : ValidSetUserActiveOK(x)} = {w}
      BY <3>2, <3>3, <3>5
    <3>7. Read(r, 200, SetUserActiveOK, ValidSetUserActiveOK) = {Answer(SetUserActiveOK, w)}
      BY <3>5, <3>6 DEF Read
    <3>8. /\ ReadError(r, 400, SetUserActiveBadRequest) = {}
          /\ ReadError(r, 404, SetUserActiveNotFound) = {}
          /\ ReadError(r, 500, SetUserActiveInternalServerError) = {}
      BY <2>4, OtherStatus
    <3> QED
      BY <3>4, <3>7, <3>8 DEF decodeSetUserActiveResponse
  <2> QED
    BY <2>2, <2>4, <2>5, NoRefusal DEF GoError
<1> QED
  BY <1>1, <1>2, <1>3 DEF SetUserActiveAnswers, ErrorCodes

\* The answer of CheckHealth has no body.
LEMMA CheckHealthUnderstood ==
  ASSUME NEW a \in CheckHealthAnswers, NEW r, r = encodeCheckHealthResponse(a)
  PROVE  /\ a.go # GoError.go /\ ~Refusal(r)
         /\ decodeCheckHealthResponse(r) = {InTransit(a)}
<1>1. a = [go |-> "CheckHealthOK", value |-> "OK"]
  BY DEF CheckHealthAnswers, Answer, CheckHealthOK
<1>2. a.go = "CheckHealthOK" /\ a.value = "OK"
  BY <1>1
<1>3. r = Response(200, Plain, <<Str("OK")>>)
  BY <1>2 DEF encodeCheckHealthResponse, CheckHealthOK
<1>4. r.status = 200 /\ r.ctype = Plain /\ r.body[1][2] = "OK"
  BY <1>3 DEF Response, Str
<1>5. ReadError(r, 500, ErrorResponse) = {}
  BY <1>4 DEF ReadError, Read
<1>6. decodeCheckHealthResponse(r) = {Answer(CheckHealthOK, "OK")}
  BY <1>4, <1>5 DEF decodeCheckHealthResponse
<1>7. InTransit(a) = Answer(CheckHealthOK, "OK")
  BY <1>1 DEF InTransit, Answer, CheckHealthOK
<1>8. ~Refusal(r)
  BY <1>4 DEF Refusal
<1> QED
  BY <1>2, <1>6, <1>7, <1>8 DEF GoError

\* The client cannot read what ErrorHandler writes.
LEMMA NoErrorResponse ==
  ASSUME NEW status, NEW s, NEW go
  PROVE  ReadError(ErrorHandler(status), s, Alias(go, ErrorResponse)) = {}
<1> DEFINE r == ErrorHandler(status)
           type == Alias(go, ErrorResponse)
<1>1. Len(r.body) = 1 /\ r.body[1] = Obj(<<<<"error_message", Str("...")>>>>)
  BY DEF ErrorHandler, Response
<1>2. Decode(type, r.body[1]) = {}
  BY <1>1, ErrorHandlerUnread
<1> HIDE DEF r, type
<1>3. ReadError(r, s, type) = {}
  BY <1>2 DEF ReadError, Read
<1> QED
  BY <1>3 DEF r, type

\* What the error handler sends, the client never takes for an answer.
LEMMA ErrorHandlerNotUnderstood ==
  ASSUME NEW op \in Operations, NEW status \in {400, 500}
  PROVE  Understand(op, ErrorHandler(status)) = {}
<1> DEFINE r == ErrorHandler(status)
<1>1. r.status = status /\ r.ctype = Json
  BY DEF ErrorHandler, Response
<1>2. \A s, go : ReadError(r, s, Alias(go, ErrorResponse)) = {}
  BY NoErrorResponse
<1>3. \A s : ReadError(r, s, ErrorResponse) = {}
  <2>1. ErrorResponse = Alias("ErrorResponse", ErrorResponse)
    BY DEF ErrorResponse, Alias, Object
  <2> QED
    BY <1>2, <2>1
<1> HIDE DEF r
<1>4. CASE op = "CheckHealth"
  <2>1. decodeCheckHealthResponse(r) = {}
    BY <1>1, <1>3 DEF decodeCheckHealthResponse
  <2> QED
    BY <1>4, <2>1 DEF Understand, r
<1>5. CASE op = "CreatePullRequest"
  <2>1. Read(r, 201, CreatePullRequestCreated, ValidCreatePullRequestCreated) = {}
    BY <1>1 DEF Read
  <2>2. /\ ReadError(r, 400, CreatePullRequestBadRequest) = {}
        /\ ReadError(r, 404, CreatePullRequestNotFound) = {}
        /\ ReadError(r, 409, CreatePullRequestConflict) = {}
        /\ ReadError(r, 500, CreatePullRequestInternalServerError) = {}
    BY <1>2 DEF CreatePullRequestBadRequest,
                CreatePullRequestNotFound,
                CreatePullRequestConflict,
                CreatePullRequestInternalServerError
  <2>3. decodeCreatePullRequestResponse(r) = {}
    BY <2>1, <2>2 DEF decodeCreatePullRequestResponse
  <2> QED
    BY <1>5, <2>3 DEF Understand, r
<1>6. CASE op = "CreateTeam"
  <2>1. Read(r, 201, CreateTeamCreated, ValidCreateTeamCreated) = {}
    BY <1>1 DEF Read
  <2>2. /\ ReadError(r, 400, CreateTeamBadRequest) = {}
        /\ ReadError(r, 409, CreateTeamConflict) = {}
        /\ ReadError(r, 500, CreateTeamInternalServerError) = {}
    BY <1>2 DEF CreateTeamBadRequest,
                CreateTeamConflict,
                CreateTeamInternalServerError
  <2>3. decodeCreateTeamResponse(r) = {}
    BY <2>1, <2>2 DEF decodeCreateTeamResponse
  <2> QED
    BY <1>6, <2>3 DEF Understand, r
<1>7. CASE op = "DeactivateTeamMembers"
  <2>1. Read(r, 200, DeactivateTeamMembersOK, Unrestricted) = {}
    BY <1>1 DEF Read
  <2>2. /\ ReadError(r, 400, DeactivateTeamMembersBadRequest) = {}
        /\ ReadError(r, 404, DeactivateTeamMembersNotFound) = {}
        /\ ReadError(r, 500, DeactivateTeamMembersInternalServerError) = {}
    BY <1>2 DEF DeactivateTeamMembersBadRequest,
                DeactivateTeamMembersNotFound,
                DeactivateTeamMembersInternalServerError
  <2>3. decodeDeactivateTeamMembersResponse(r) = {}
    BY <2>1, <2>2 DEF decodeDeactivateTeamMembersResponse
  <2> QED
    BY <1>7, <2>3 DEF Understand, r
<1>8. CASE op = "GetAssignmentStats"
  <2>1. Read(r, 200, GetAssignmentStatsOK, Unrestricted) = {}
    BY <1>1 DEF Read
  <2>2. /\ ReadError(r, 500, ErrorResponse) = {}
    BY <1>3
  <2>3. decodeGetAssignmentStatsResponse(r) = {}
    BY <2>1, <2>2 DEF decodeGetAssignmentStatsResponse
  <2> QED
    BY <1>8, <2>3 DEF Understand, r
<1>9. CASE op = "GetTeam"
  <2>1. Read(r, 200, Team, ValidTeam) = {}
    BY <1>1 DEF Read
  <2>2. /\ ReadError(r, 400, GetTeamBadRequest) = {}
        /\ ReadError(r, 404, GetTeamNotFound) = {}
        /\ ReadError(r, 500, GetTeamInternalServerError) = {}
    BY <1>2 DEF GetTeamBadRequest,
                GetTeamNotFound,
                GetTeamInternalServerError
  <2>3. decodeGetTeamResponse(r) = {}
    BY <2>1, <2>2 DEF decodeGetTeamResponse
  <2> QED
    BY <1>9, <2>3 DEF Understand, r
<1>10. CASE op = "GetUserReviews"
  <2>1. Read(r, 200, GetUserReviewsOK, ValidGetUserReviewsOK) = {}
    BY <1>1 DEF Read
  <2>2. /\ ReadError(r, 400, GetUserReviewsBadRequest) = {}
        /\ ReadError(r, 404, GetUserReviewsNotFound) = {}
        /\ ReadError(r, 500, GetUserReviewsInternalServerError) = {}
    BY <1>2 DEF GetUserReviewsBadRequest,
                GetUserReviewsNotFound,
                GetUserReviewsInternalServerError
  <2>3. decodeGetUserReviewsResponse(r) = {}
    BY <2>1, <2>2 DEF decodeGetUserReviewsResponse
  <2> QED
    BY <1>10, <2>3 DEF Understand, r
<1>11. CASE op = "MergePullRequest"
  <2>1. Read(r, 200, MergePullRequestOK, ValidMergePullRequestOK) = {}
    BY <1>1 DEF Read
  <2>2. /\ ReadError(r, 400, MergePullRequestBadRequest) = {}
        /\ ReadError(r, 404, MergePullRequestNotFound) = {}
        /\ ReadError(r, 500, MergePullRequestInternalServerError) = {}
    BY <1>2 DEF MergePullRequestBadRequest,
                MergePullRequestNotFound,
                MergePullRequestInternalServerError
  <2>3. decodeMergePullRequestResponse(r) = {}
    BY <2>1, <2>2 DEF decodeMergePullRequestResponse
  <2> QED
    BY <1>11, <2>3 DEF Understand, r
<1>12. CASE op = "ReassignReviewer"
  <2>1. Read(r, 200, ReassignReviewerOK, ValidReassignReviewerOK) = {}
    BY <1>1 DEF Read
  <2>2. /\ ReadError(r, 400, ReassignReviewerBadRequest) = {}
        /\ ReadError(r, 404, ReassignReviewerNotFound) = {}
        /\ ReadError(r, 409, ReassignReviewerConflict) = {}
        /\ ReadError(r, 500, ReassignReviewerInternalServerError) = {}
    BY <1>2 DEF ReassignReviewerBadRequest,
                ReassignReviewerNotFound,
                ReassignReviewerConflict,
                ReassignReviewerInternalServerError
  <2>3. decodeReassignReviewerResponse(r) = {}
    BY <2>1, <2>2 DEF decodeReassignReviewerResponse
  <2> QED
    BY <1>12, <2>3 DEF Understand, r
<1>13. CASE op = "SetUserActive"
  <2>1. Read(r, 200, SetUserActiveOK, ValidSetUserActiveOK) = {}
    BY <1>1 DEF Read
  <2>2. /\ ReadError(r, 400, SetUserActiveBadRequest) = {}
        /\ ReadError(r, 404, SetUserActiveNotFound) = {}
        /\ ReadError(r, 500, SetUserActiveInternalServerError) = {}
    BY <1>2 DEF SetUserActiveBadRequest,
                SetUserActiveNotFound,
                SetUserActiveInternalServerError
  <2>3. decodeSetUserActiveResponse(r) = {}
    BY <2>1, <2>2 DEF decodeSetUserActiveResponse
  <2> QED
    BY <1>13, <2>3 DEF Understand, r
<1> QED
  BY <1>4, <1>5, <1>6, <1>7, <1>8, <1>9, <1>10, <1>11, <1>12, <1>13 DEF Operations, r

\* A body that was accepted has been read.
LEMMA BodyRead ==
  ASSUME NEW m, NEW read, BodyOf(m, read).status = 200
  PROVE  read # {} /\ BodyOf(m, read).value = The(read)
<1> DEFINE got == BodyOf(m, read)
<1> HIDE DEF got
<1>1. CASE m.ctype = Json
  <2>1. got = IF read = {} THEN Bad(400) ELSE Good(The(read))
    BY <1>1, BodyAnnounced DEF got
  <2> QED
    BY <2>1 DEF Bad, Good, got
<1>2. CASE m.ctype \notin {Json, Empty}
  <2>1. got = Bad(415)
    BY <1>2 DEF got, BodyOf
  <2> QED
    BY <2>1 DEF Bad, got
<1>3. CASE m.ctype = Empty
  <2>1. got = Bad(400)
    BY <1>3, TypesApart DEF got, BodyOf
  <2> QED
    BY <2>1 DEF Bad, got
<1> QED
  BY <1>1, <1>2, <1>3

\* What a handler lets pass is valid, whoever sent it.
LEMMA ReadValid ==
  ASSUME NEW m
  PROVE  /\ decodeCreatePullRequestRequest(m).status = 200 =>
              ValidCreatePullRequestReq(decodeCreatePullRequestRequest(m).value)
         /\ decodeCreateTeamRequest(m).status = 200 => ValidTeam(decodeCreateTeamRequest(m).value)
<1>1. decodeCreatePullRequestRequest(m).status = 200 =>
        ValidCreatePullRequestReq(decodeCreatePullRequestRequest(m).value)
  <2> DEFINE got  == decodeCreatePullRequestRequest(m)
             read == IF Len(m.body) = 1
                       THEN {v \in Decode(CreatePullRequestReq, m.body[1]) :
                               ValidCreatePullRequestReq(v)}
                       ELSE {}
  <2>1. read # {} => ValidCreatePullRequestReq(The(read))
    BY DEF The
  <2>2. got = BodyOf(m, read)
    BY DEF decodeCreatePullRequestRequest, DecodeBody, BodyOf
  <2> HIDE DEF got, read
  <2>3. ASSUME got.status = 200 PROVE read # {} /\ got.value = The(read)
    BY <2>2, <2>3, BodyRead
  <2> QED
    BY <2>1, <2>3 DEF got
<1>2. decodeCreateTeamRequest(m).status = 200 => ValidTeam(decodeCreateTeamRequest(m).value)
  <2> DEFINE got  == decodeCreateTeamRequest(m)
             read == IF Len(m.body) = 1 THEN {v \in Decode(Team, m.body[1]) : ValidTeam(v)} ELSE {}
  <2>1. read # {} => ValidTeam(The(read))
    BY DEF The
  <2>2. got = BodyOf(m, read)
    BY DEF decodeCreateTeamRequest, DecodeBody, BodyOf
  <2> HIDE DEF got, read
  <2>3. ASSUME got.status = 200 PROVE read # {} /\ got.value = The(read)
    BY <2>2, <2>3, BodyRead
  <2> QED
    BY <2>1, <2>3 DEF got
<1> QED
  BY <1>1, <1>2

\* What a service answers is no refusal; and when the database holds valid names
\* and the request was valid, the client understands it, whatever it is.
LEMMA AnswersUnderstood ==
  ASSUME NEW op \in Operations, NEW ns, NEW arg, NEW a \in AnswersOf(op, ns, arg), a # GoError
  PROVE  /\ a.go # GoError.go /\ ~Refusal(WriteFor(op, a))
         /\ HoldsValidNames(ns) /\ arg \in Args[op] /\ ReadBy(op, Send(op, arg)) = Good(arg) =>
              Understand(op, WriteFor(op, a)) = {InTransit(a)}
<1> DEFINE r    == WriteFor(op, a)
           good == HoldsValidNames(ns) /\ arg \in Args[op] /\ ReadBy(op, Send(op, arg)) = Good(arg)
<1>1. CASE op = "CheckHealth"
  <2>1. a \in CheckHealthAnswers
    BY <1>1 DEF AnswersOf
  <2>2. r = encodeCheckHealthResponse(a)
    BY <1>1 DEF WriteFor
  <2> HIDE DEF r
  <2>3. /\ a.go # GoError.go /\ ~Refusal(r)
        /\ good => decodeCheckHealthResponse(r) = {InTransit(a)}
    BY <2>1, <2>2, CheckHealthUnderstood
  <2> QED
    BY <1>1, <2>3 DEF Understand, r
<1>2. CASE op = "CreatePullRequest"
  <2>1. a \in CreatePullRequestAnswers(arg)
    BY <1>2 DEF AnswersOf
  <2>2. r = encodeCreatePullRequestResponse(a)
    BY <1>2 DEF WriteFor
  <2>3. ASSUME good PROVE IsCreatePullRequestReq(arg) /\ ValidCreatePullRequestReq(arg)
    <3>1. ReadBy(op, Send(op, arg)) = decodeCreatePullRequestRequest(Send(op, arg))
      BY <1>2 DEF ReadBy
    <3>2. decodeCreatePullRequestRequest(Send(op, arg)) = Good(arg)
      BY <2>3, <3>1
    <3>3. ValidCreatePullRequestReq(arg)
      BY <3>2, ReadStatus, ReadValid
    <3> QED
      BY <1>2, <2>3, <3>3, ArgsAreGo
  <2> HIDE DEF r
  <2>4. /\ a.go # GoError.go /\ ~Refusal(r)
        /\ good => decodeCreatePullRequestResponse(r) = {InTransit(a)}
    BY <2>1, <2>2, <2>3, CreatePullRequestUnderstood
  <2> QED
    BY <1>2, <2>4 DEF Understand, r
<1>3. CASE op = "CreateTeam"
  <2>1. a \in CreateTeamAnswers(arg)
    BY <1>3 DEF AnswersOf
  <2>2. r = encodeCreateTeamResponse(a)
    BY <1>3 DEF WriteFor
  <2>3. ASSUME good PROVE IsTeam(arg) /\ ValidTeam(arg)
    <3>1. ReadBy(op, Send(op, arg)) = decodeCreateTeamRequest(Send(op, arg))
      BY <1>3 DEF ReadBy
    <3>2. decodeCreateTeamRequest(Send(op, arg)) = Good(arg)
      BY <2>3, <3>1
    <3>3. ValidTeam(arg)
      BY <3>2, ReadStatus, ReadValid
    <3> QED
      BY <1>3, <2>3, <3>3, ArgsAreGo
  <2> HIDE DEF r
  <2>4. /\ a.go # GoError.go /\ ~Refusal(r)
        /\ good => decodeCreateTeamResponse(r) = {InTransit(a)}
    BY <2>1, <2>2, <2>3, CreateTeamUnderstood
  <2> QED
    BY <1>3, <2>4 DEF Understand, r
<1>4. CASE op = "DeactivateTeamMembers"
  <2>1. a \in DeactivateTeamMembersAnswers
    BY <1>4 DEF AnswersOf
  <2>2. r = encodeDeactivateTeamMembersResponse(a)
    BY <1>4 DEF WriteFor
  <2> HIDE DEF r
  <2>3. /\ a.go # GoError.go /\ ~Refusal(r)
        /\ good => decodeDeactivateTeamMembersResponse(r) = {InTransit(a)}
    BY <2>1, <2>2, DeactivateTeamMembersUnderstood
  <2> QED
    BY <1>4, <2>3 DEF Understand, r
<1>5. CASE op = "GetAssignmentStats"
  <2>1. a \in GetAssignmentStatsAnswers(ns) \ {GoError}
    BY <1>5 DEF AnswersOf
  <2>2. r = encodeGetAssignmentStatsResponse(a)
    BY <1>5 DEF WriteFor
  <2> HIDE DEF r
  <2>3. /\ a.go # GoError.go /\ ~Refusal(r)
        /\ good => decodeGetAssignmentStatsResponse(r) = {InTransit(a)}
    BY <2>1, <2>2, GetAssignmentStatsUnderstood
  <2> QED
    BY <1>5, <2>3 DEF Understand, r
<1>6. CASE op = "GetTeam"
  <2>1. a \in GetTeamAnswers(ns, arg)
    BY <1>6 DEF AnswersOf
  <2>2. r = encodeGetTeamResponse(a)
    BY <1>6 DEF WriteFor
  <2> HIDE DEF r
  <2>3. /\ a.go # GoError.go /\ ~Refusal(r)
        /\ good => decodeGetTeamResponse(r) = {InTransit(a)}
    BY <2>1, <2>2, GetTeamUnderstood
  <2> QED
    BY <1>6, <2>3 DEF Understand, r
<1>7. CASE op = "GetUserReviews"
  <2>1. a \in GetUserReviewsAnswers(ns, arg)
    BY <1>7 DEF AnswersOf
  <2>2. r = encodeGetUserReviewsResponse(a)
    BY <1>7 DEF WriteFor
  <2>3. good => arg.user_id \in Uuids
    BY <1>7, ArgsAreGo
  <2> HIDE DEF r
  <2>4. /\ a.go # GoError.go /\ ~Refusal(r)
        /\ good => decodeGetUserReviewsResponse(r) = {InTransit(a)}
    BY <2>1, <2>2, <2>3, GetUserReviewsUnderstood
  <2> QED
    BY <1>7, <2>4 DEF Understand, r
<1>8. CASE op = "MergePullRequest"
  <2>1. a \in MergePullRequestAnswers(ns, arg)
    BY <1>8 DEF AnswersOf
  <2>2. r = encodeMergePullRequestResponse(a)
    BY <1>8 DEF WriteFor
  <2>3. good => IsMergePullRequestReq(arg)
    BY <1>8, ArgsAreGo
  <2> HIDE DEF r
  <2>4. /\ a.go # GoError.go /\ ~Refusal(r)
        /\ good => decodeMergePullRequestResponse(r) = {InTransit(a)}
    BY <2>1, <2>2, <2>3, MergePullRequestUnderstood
  <2> QED
    BY <1>8, <2>4 DEF Understand, r
<1>9. CASE op = "ReassignReviewer"
  <2>1. a \in ReassignReviewerAnswers(ns, arg)
    BY <1>9 DEF AnswersOf
  <2>2. r = encodeReassignReviewerResponse(a)
    BY <1>9 DEF WriteFor
  <2>3. good => IsReassignReviewerReq(arg)
    BY <1>9, ArgsAreGo
  <2> HIDE DEF r
  <2>4. /\ a.go # GoError.go /\ ~Refusal(r)
        /\ good => decodeReassignReviewerResponse(r) = {InTransit(a)}
    BY <2>1, <2>2, <2>3, ReassignReviewerUnderstood
  <2> QED
    BY <1>9, <2>4 DEF Understand, r
<1>10. CASE op = "SetUserActive"
  <2>1. a \in SetUserActiveAnswers(ns, arg)
    BY <1>10 DEF AnswersOf
  <2>2. r = encodeSetUserActiveResponse(a)
    BY <1>10 DEF WriteFor
  <2>3. good => IsSetUserActiveReq(arg)
    BY <1>10, ArgsAreGo
  <2> HIDE DEF r
  <2>4. /\ a.go # GoError.go /\ ~Refusal(r)
        /\ good => decodeSetUserActiveResponse(r) = {InTransit(a)}
    BY <2>1, <2>2, <2>3, SetUserActiveUnderstood
  <2> QED
    BY <1>10, <2>4 DEF Understand, r
<1> QED
  BY <1>1, <1>2, <1>3, <1>4, <1>5, <1>6, <1>7, <1>8, <1>9, <1>10 DEF Operations

(***************************************************************************)
(* Part 6.  The invariant.                                                 *)
(***************************************************************************)
\* Which service answers what stores names; and every service has an answer.
LEMMA AnswersGiven ==
  ASSUME NEW op \in Operations, NEW ns, NEW arg
  PROVE  /\ AnswersOf(op, ns, arg) # {}
         /\ \A a \in AnswersOf(op, ns, arg) :
              /\ a.go \in {"CreateTeamCreated", "CreateTeamInternalServerError"}
                   => op = "CreateTeam"
              /\ a.go \in {"CreatePullRequestCreated", "CreatePullRequestInternalServerError"}
                   => op = "CreatePullRequest"
<1>1. CASE op = "CheckHealth"
  <2>1. AnswersOf(op, ns, arg) = CheckHealthAnswers
    BY <1>1 DEF AnswersOf
  <2>2. /\ CheckHealthOK.go = "CheckHealthOK"
    BY DEF CheckHealthOK
  <2>3. Answer(CheckHealthOK, "OK") \in CheckHealthAnswers
    BY DEF CheckHealthAnswers
  <2>4. \A a \in CheckHealthAnswers :
          a.go \in {"CheckHealthOK"}
    BY <2>2 DEF CheckHealthAnswers, Answer
  <2> QED
    BY <1>1, <2>1, <2>3, <2>4
<1>2. CASE op = "CreatePullRequest"
  <2>1. AnswersOf(op, ns, arg) = CreatePullRequestAnswers(arg)
    BY <1>2 DEF AnswersOf
  <2>2. /\ CreatePullRequestCreated.go = "CreatePullRequestCreated"
        /\ CreatePullRequestNotFound.go = "CreatePullRequestNotFound"
        /\ CreatePullRequestConflict.go = "CreatePullRequestConflict"
        /\ CreatePullRequestInternalServerError.go = "CreatePullRequestInternalServerError"
    BY DEF Alias, ErrorResponse, Object, CreatePullRequestCreated,
           CreatePullRequestNotFound, CreatePullRequestConflict,
           CreatePullRequestInternalServerError
  <2>3. Failure(CreatePullRequestInternalServerError, "INTERNAL_ERROR")
          \in CreatePullRequestAnswers(arg)
    BY DEF CreatePullRequestAnswers
  <2>4. \A a \in CreatePullRequestAnswers(arg) :
          a.go \in {"CreatePullRequestCreated", "CreatePullRequestNotFound",
                    "CreatePullRequestConflict", "CreatePullRequestInternalServerError"}
    BY <2>2 DEF CreatePullRequestAnswers, Answer, Failure
  <2> QED
    BY <1>2, <2>1, <2>3, <2>4
<1>3. CASE op = "CreateTeam"
  <2>1. AnswersOf(op, ns, arg) = CreateTeamAnswers(arg)
    BY <1>3 DEF AnswersOf
  <2>2. /\ CreateTeamCreated.go = "CreateTeamCreated"
        /\ CreateTeamConflict.go = "CreateTeamConflict"
        /\ CreateTeamInternalServerError.go = "CreateTeamInternalServerError"
    BY DEF Alias, ErrorResponse, Object, CreateTeamCreated, CreateTeamConflict,
           CreateTeamInternalServerError
  <2>3. Failure(CreateTeamInternalServerError, "INTERNAL_ERROR") \in CreateTeamAnswers(arg)
    BY DEF CreateTeamAnswers
  <2>4. \A a \in CreateTeamAnswers(arg) :
          a.go \in {"CreateTeamCreated", "CreateTeamConflict",
                    "CreateTeamInternalServerError"}
    BY <2>2 DEF CreateTeamAnswers, Answer, Failure
  <2> QED
    BY <1>3, <2>1, <2>3, <2>4
<1>4. CASE op = "DeactivateTeamMembers"
  <2>1. AnswersOf(op, ns, arg) = DeactivateTeamMembersAnswers
    BY <1>4 DEF AnswersOf
  <2>2. /\ DeactivateTeamMembersOK.go = "DeactivateTeamMembersOK"
        /\ DeactivateTeamMembersNotFound.go = "DeactivateTeamMembersNotFound"
        /\ DeactivateTeamMembersInternalServerError.go = "DeactivateTeamMembersInternalServerError"
    BY DEF Alias, ErrorResponse, Object, DeactivateTeamMembersOK,
           DeactivateTeamMembersNotFound, DeactivateTeamMembersInternalServerError
  <2>3. Failure(DeactivateTeamMembersInternalServerError, "INTERNAL_ERROR")
          \in DeactivateTeamMembersAnswers
    BY DEF DeactivateTeamMembersAnswers
  <2>4. \A a \in DeactivateTeamMembersAnswers :
          a.go \in {"DeactivateTeamMembersOK", "DeactivateTeamMembersNotFound",
                    "DeactivateTeamMembersInternalServerError"}
    BY <2>2 DEF DeactivateTeamMembersAnswers, Answer, Failure
  <2> QED
    BY <1>4, <2>1, <2>3, <2>4
<1>5. CASE op = "GetAssignmentStats"
  <2>1. AnswersOf(op, ns, arg) = GetAssignmentStatsAnswers(ns)
    BY <1>5 DEF AnswersOf
  <2>2. /\ GetAssignmentStatsOK.go = "GetAssignmentStatsOK"
    BY DEF Object, GetAssignmentStatsOK
  <2>3. GoError \in GetAssignmentStatsAnswers(ns)
    BY DEF GetAssignmentStatsAnswers
  <2>4. \A a \in GetAssignmentStatsAnswers(ns) :
          a.go \in {"GetAssignmentStatsOK", GoError.go}
    BY <2>2 DEF GetAssignmentStatsAnswers, Answer
  <2> QED
    BY <1>5, <2>1, <2>3, <2>4 DEF GoError
<1>6. CASE op = "GetTeam"
  <2>1. AnswersOf(op, ns, arg) = GetTeamAnswers(ns, arg)
    BY <1>6 DEF AnswersOf
  <2>2. /\ Team.go = "Team"
        /\ GetTeamNotFound.go = "GetTeamNotFound"
        /\ GetTeamInternalServerError.go = "GetTeamInternalServerError"
    BY DEF Alias, ErrorResponse, Object, Team, GetTeamNotFound,
           GetTeamInternalServerError
  <2>3. Failure(GetTeamInternalServerError, "INTERNAL_ERROR") \in GetTeamAnswers(ns, arg)
    BY DEF GetTeamAnswers
  <2>4. \A a \in GetTeamAnswers(ns, arg) :
          a.go \in {"Team", "GetTeamNotFound", "GetTeamInternalServerError"}
    BY <2>2 DEF GetTeamAnswers, Answer, Failure
  <2> QED
    BY <1>6, <2>1, <2>3, <2>4
<1>7. CASE op = "GetUserReviews"
  <2>1. AnswersOf(op, ns, arg) = GetUserReviewsAnswers(ns, arg)
    BY <1>7 DEF AnswersOf
  <2>2. /\ GetUserReviewsOK.go = "GetUserReviewsOK"
        /\ GetUserReviewsNotFound.go = "GetUserReviewsNotFound"
        /\ GetUserReviewsInternalServerError.go = "GetUserReviewsInternalServerError"
    BY DEF Alias, ErrorResponse, Object, GetUserReviewsOK, GetUserReviewsNotFound,
           GetUserReviewsInternalServerError
  <2>3. Failure(GetUserReviewsInternalServerError, "INTERNAL_ERROR")
          \in GetUserReviewsAnswers(ns, arg)
    BY DEF GetUserReviewsAnswers
  <2>4. \A a \in GetUserReviewsAnswers(ns, arg) :
          a.go \in {"GetUserReviewsOK", "GetUserReviewsNotFound",
                    "GetUserReviewsInternalServerError"}
    BY <2>2 DEF GetUserReviewsAnswers, Answer, Failure
  <2> QED
    BY <1>7, <2>1, <2>3, <2>4
<1>8. CASE op = "MergePullRequest"
  <2>1. AnswersOf(op, ns, arg) = MergePullRequestAnswers(ns, arg)
    BY <1>8 DEF AnswersOf
  <2>2. /\ MergePullRequestOK.go = "MergePullRequestOK"
        /\ MergePullRequestNotFound.go = "MergePullRequestNotFound"
        /\ MergePullRequestInternalServerError.go = "MergePullRequestInternalServerError"
    BY DEF Alias, ErrorResponse, Object, MergePullRequestOK, MergePullRequestNotFound,
           MergePullRequestInternalServerError
  <2>3. Failure(MergePullRequestInternalServerError, "INTERNAL_ERROR")
          \in MergePullRequestAnswers(ns, arg)
    BY DEF MergePullRequestAnswers
  <2>4. \A a \in MergePullRequestAnswers(ns, arg) :
          a.go \in {"MergePullRequestOK", "MergePullRequestNotFound",
                    "MergePullRequestInternalServerError"}
    BY <2>2 DEF MergePullRequestAnswers, Answer, Failure
  <2> QED
    BY <1>8, <2>1, <2>3, <2>4
<1>9. CASE op = "ReassignReviewer"
  <2>1. AnswersOf(op, ns, arg) = ReassignReviewerAnswers(ns, arg)
    BY <1>9 DEF AnswersOf
  <2>2. /\ ReassignReviewerOK.go = "ReassignReviewerOK"
        /\ ReassignReviewerNotFound.go = "ReassignReviewerNotFound"
        /\ ReassignReviewerConflict.go = "ReassignReviewerConflict"
        /\ ReassignReviewerInternalServerError.go = "ReassignReviewerInternalServerError"
    BY DEF Alias, ErrorResponse, Object, ReassignReviewerOK, ReassignReviewerNotFound,
           ReassignReviewerConflict, ReassignReviewerInternalServerError
  <2>3. Failure(ReassignReviewerInternalServerError, "INTERNAL_ERROR")
          \in ReassignReviewerAnswers(ns, arg)
    BY DEF ReassignReviewerAnswers
  <2>4. \A a \in ReassignReviewerAnswers(ns, arg) :
          a.go \in {"ReassignReviewerOK", "ReassignReviewerNotFound",
                    "ReassignReviewerConflict", "ReassignReviewerInternalServerError"}
    BY <2>2 DEF ReassignReviewerAnswers, Answer, Failure
  <2> QED
    BY <1>9, <2>1, <2>3, <2>4
<1>10. CASE op = "SetUserActive"
  <2>1. AnswersOf(op, ns, arg) = SetUserActiveAnswers(ns, arg)
    BY <1>10 DEF AnswersOf
  <2>2. /\ SetUserActiveOK.go = "SetUserActiveOK"
        /\ SetUserActiveNotFound.go = "SetUserActiveNotFound"
        /\ SetUserActiveInternalServerError.go = "SetUserActiveInternalServerError"
    BY DEF Alias, ErrorResponse, Object, SetUserActiveOK, SetUserActiveNotFound,
           SetUserActiveInternalServerError
  <2>3. Failure(SetUserActiveInternalServerError, "INTERNAL_ERROR")
          \in SetUserActiveAnswers(ns, arg)
    BY DEF SetUserActiveAnswers
  <2>4. \A a \in SetUserActiveAnswers(ns, arg) :
          a.go \in {"SetUserActiveOK", "SetUserActiveNotFound",
                    "SetUserActiveInternalServerError"}
    BY <2>2 DEF SetUserActiveAnswers, Answer, Failure
  <2> QED
    BY <1>10, <2>1, <2>3, <2>4
<1> QED
  BY <1>1, <1>2, <1>3, <1>4, <1>5, <1>6, <1>7, <1>8, <1>9, <1>10 DEF Operations

\* An outcome is the refusal of a request, or one run of the service it was
\* routed to; which of the two does not depend on the database.
LEMMA OutcomeIs ==
  ASSUME NEW m, NEW ns, NEW out \in ServeHTTP(m, ns)
  PROVE  \/ out.ran = <<>>
         \/ \E op \in Operations :
              /\ Routed(m, op) /\ ReadBy(op, m).status = 200
              /\ \E a \in AnswersOf(op, ns, ReadBy(op, m).value) :
                   out = OutcomeOf(op, ReadBy(op, m).value, a)
<1>1. CASE \A op \in Operations : ~Routed(m, op)
  BY <1>1, Unrouted
<1>2. ASSUME NEW op \in Operations, Routed(m, op)
      PROVE  out.ran = <<>> \/ /\ ReadBy(op, m).status = 200
                               /\ \E a \in AnswersOf(op, ns, ReadBy(op, m).value) :
                                    out = OutcomeOf(op, ReadBy(op, m).value, a)
  <2>1. out \in OutcomesOf(op, ns, ReadBy(op, m))
    BY <1>2, Routing
  <2> QED
    BY <2>1 DEF OutcomesOf
<1> QED
  BY <1>1, <1>2

\* An outcome has run its operation once.
LEMMA OutcomeRan ==
  ASSUME NEW op, NEW arg, NEW a
  PROVE  /\ OutcomeOf(op, arg, a).ran = <<RunOf(op, arg, a)>>
         /\ OutcomeOf(op, arg, a).ran # <<>>
         /\ OutcomeOf(op, arg, a).ran[1] = RunOf(op, arg, a)
  BY DEF OutcomeOf

\* Whether a request is run does not depend on the names in the database.
LEMMA ServedAlike ==
  ASSUME NEW m, NEW ns1, NEW out1 \in ServeHTTP(m, ns1), out1.ran # <<>>, NEW ns2
  PROVE  /\ \A out2 \in ServeHTTP(m, ns2) : out2.ran # <<>>
         /\ \E out2 \in ServeHTTP(m, ns2) : out2.ran # <<>>
<1>1. PICK op \in Operations : Routed(m, op) /\ ReadBy(op, m).status = 200
  BY OutcomeIs
<1>2. ServeHTTP(m, ns2) =
        {OutcomeOf(op, ReadBy(op, m).value, a) : a \in AnswersOf(op, ns2, ReadBy(op, m).value)}
  <2>1. ServeHTTP(m, ns2) = OutcomesOf(op, ns2, ReadBy(op, m))
    BY <1>1, Routing
  <2> QED
    BY <1>1, <2>1 DEF OutcomesOf
<1>3. PICK a \in AnswersOf(op, ns2, ReadBy(op, m).value) : TRUE
  BY AnswersGiven
<1>4. OutcomeOf(op, ReadBy(op, m).value, a) \in ServeHTTP(m, ns2)
  BY <1>2
<1> QED
  BY <1>2, <1>4, OutcomeRan

\* Runs one after another.
LEMMA OneMoreRun ==
  ASSUME NEW runs, runs \in Seq(Range(runs)), NEW run, NEW more, more = runs \o <<run>>
  PROVE  /\ more \in Seq(Range(more)) /\ Range(more) = Range(runs) \cup {run}
         /\ more # <<>> /\ Last(more) = run /\ Len(more) = Len(runs) + 1
         /\ more = Append(runs, run)
<1>1. /\ Len(more) = Len(runs) + 1 /\ DOMAIN more = 1..(Len(runs) + 1)
      /\ \A i \in 1..Len(runs) : more[i] = runs[i]
      /\ more[Len(runs) + 1] = run /\ Len(runs) \in Nat /\ DOMAIN runs = 1..Len(runs)
      /\ more \in Seq(Range(runs) \cup {run})
  OBVIOUS
<1>2. Range(more) = Range(runs) \cup {run}
  BY <1>1 DEF Range
<1>3. more = Append(runs, run)
  OBVIOUS
<1> QED
  BY <1>1, <1>2, <1>3 DEF Last

\* No run, nothing changes.
LEMMA NoMoreRuns ==
  ASSUME NEW runs, runs \in Seq(Range(runs))
  PROVE  runs \o <<>> = runs
  OBVIOUS

\* Who calls.
LEMMA WaysToCall ==
  /\ \A op, arg : ByClient(op, arg).by = "client" /\ ByClient(op, arg).op = op
                                                  /\ ByClient(op, arg).arg = arg
  /\ \A m : ByOther(m).by = "other" /\ ByOther(m).reads = (m.method = "GET")
  /\ Nobody.by = "nobody"
  BY DEF ByClient, ByOther, Nobody

\* ExchangeInv holds at the start.
LEMMA InitExchange == Init => ExchangeInv
<1> SUFFICES ASSUME Init PROVE ExchangeInv
  OBVIOUS
<1>1. NamesValid
  BY DEF Init, NamesValid, NoNames
<1>2. stage = "idle" /\ Idle
  BY DEF Init, Idle
<1> QED
  BY <1>1, <1>2 DEF ExchangeInv

\* A request is made, by the client or somebody else (Call, Probe).
LEMMA StartExchange ==
  ASSUME ExchangeInv,
         \/ \E op \in Operations : \E arg \in Args[op] : Start(ByClient(op, arg), Send(op, arg))
         \/ \E m : Start(ByOther(m), m)
  PROVE  ExchangeInv'
<1>1. /\ stage = "idle" /\ stage' = "sent" /\ UNCHANGED <<names, ran>>
      /\ RequestMade'
  BY DEF Start, RequestMade
<1>2. ran = <<>>
  BY <1>1 DEF ExchangeInv, Idle
<1>3. NamesValid'
  BY <1>1 DEF ExchangeInv, NamesValid
<1>4. RunsOfRequest'
  <2>1. ran' = <<>> /\ Range(ran') = {}
    BY <1>1, <1>2 DEF Range
  <2> QED
    BY <2>1 DEF RunsOfRequest
<1> QED
  BY <1>1, <1>2, <1>3, <1>4 DEF ExchangeInv

\* A GET is sent again with its run behind it.
LEMMA ResendExchange == ExchangeInv /\ Resend => ExchangeInv'
<1> SUFFICES ASSUME ExchangeInv, Resend PROVE ExchangeInv'
  OBVIOUS
<1>1. /\ stage = "served" /\ stage' = "sent" /\ msg' = msg /\ msg.method = "GET"
      /\ UNCHANGED <<names, asked, ran>>
  BY DEF Resend
<1>2. NamesValid' /\ RequestMade' /\ RunsOfRequest'
  BY <1>1 DEF ExchangeInv, NamesValid, RequestMade, RunsOfRequest
<1> QED
  BY <1>1, <1>2 DEF ExchangeInv

\* Nothing is left of a call that has ended (Lose, Receive).
LEMMA EndExchange ==
  ASSUME ExchangeInv, NEW got, End(got)
  PROVE  ExchangeInv'
<1>1. stage' = "idle" /\ Idle' /\ NamesValid'
  BY DEF End, Idle, ExchangeInv, NamesValid
<1> QED
  BY <1>1 DEF ExchangeInv

\* A request is routed to one operation, by its path.
LEMMA RoutedOnce ==
  ASSUME NEW m, NEW op1 \in Operations, NEW op2 \in Operations, Routed(m, op1), Routed(m, op2)
  PROVE  op1 = op2
<1>1. Path(op1) = Path(op2)
  BY DEF Routed
<1> QED
  BY <1>1 DEF Path, Operations

\* The names of a valid team are valid names to store ...
LEMMA WithTeamValid ==
  ASSUME NEW ns, ns = [teams |-> ns.teams, users |-> ns.users, prs |-> ns.prs],
         HoldsValidNames(ns), NEW team, ValidTeam(team),
         NEW stored, stored = WithTeam(ns, team)
  PROVE  /\ stored = [teams |-> stored.teams, users |-> stored.users, prs |-> stored.prs]
         /\ HoldsValidNames(stored)
<1>1. stored = [ns EXCEPT !.teams = @ \cup {team.team_name},
                          !.users = @ \cup {u.username : u \in Range(team.members)}]
  BY DEF WithTeam
<1>2. stored = [teams |-> ns.teams \cup {team.team_name},
                users |-> ns.users \cup {u.username : u \in Range(team.members)},
                prs   |-> ns.prs]
  BY <1>1
<1> QED
  BY <1>2 DEF ValidTeam, ValidTeamMember, HoldsValidNames

\* ... and so is the name of a pull request.
LEMMA WithPRValid ==
  ASSUME NEW ns, ns = [teams |-> ns.teams, users |-> ns.users, prs |-> ns.prs],
         HoldsValidNames(ns), NEW pr, ValidPullRequestName(pr.pull_request_name),
         NEW stored, stored = WithPR(ns, pr)
  PROVE  /\ stored = [teams |-> stored.teams, users |-> stored.users, prs |-> stored.prs]
         /\ HoldsValidNames(stored)
<1>1. stored = [ns EXCEPT !.prs = @ \cup {pr.pull_request_name}]
  BY DEF WithPR
<1>2. stored = [teams |-> ns.teams, users |-> ns.users,
                prs |-> ns.prs \cup {pr.pull_request_name}]
  BY <1>1
<1> QED
  BY <1>2 DEF HoldsValidNames

\* A run leaves valid names in the database, whether or not the answer to its
\* COMMIT is lost.
LEMMA StoredValid ==
  ASSUME NEW ns, ns = [teams |-> ns.teams, users |-> ns.users, prs |-> ns.prs],
         HoldsValidNames(ns), NEW op \in Operations, NEW m, ReadBy(op, m).status = 200,
         NEW arg, arg = ReadBy(op, m).value, NEW a \in AnswersOf(op, ns, arg),
         NEW stored \in Stored(ns, arg, a)
  PROVE  /\ stored = [teams |-> stored.teams, users |-> stored.users, prs |-> stored.prs]
         /\ HoldsValidNames(stored)
<1>1. CASE a.go \in {"CreateTeamCreated", "CreateTeamInternalServerError"}
  <2>1. op = "CreateTeam"
    BY <1>1, AnswersGiven
  <2>2. ReadBy(op, m) = decodeCreateTeamRequest(m)
    BY <2>1 DEF ReadBy
  <2>3. ValidTeam(arg)
    BY <2>2, ReadValid
  <2>4. stored = ns \/ stored = WithTeam(ns, arg)
    BY <1>1 DEF Stored
  <2> QED
    BY <2>3, <2>4, WithTeamValid
<1>2. CASE a.go \in {"CreatePullRequestCreated", "CreatePullRequestInternalServerError"}
  <2>1. op = "CreatePullRequest"
    BY <1>2, AnswersGiven
  <2>2. ReadBy(op, m) = decodeCreatePullRequestRequest(m)
    BY <2>1 DEF ReadBy
  <2>3. ValidPullRequestName(arg.pull_request_name)
    BY <2>2, ReadValid DEF ValidCreatePullRequestReq
  <2>4. stored = ns \/ stored = WithPR(ns, arg)
    BY <1>2 DEF Stored
  <2> QED
    BY <2>3, <2>4, WithPRValid
<1>3. CASE a.go \notin {"CreateTeamCreated", "CreateTeamInternalServerError",
                        "CreatePullRequestCreated", "CreatePullRequestInternalServerError"}
  <2>1. stored = ns
    BY <1>3 DEF Stored
  <2> QED
    BY <2>1
<1> QED
  BY <1>1, <1>2, <1>3

\* The server answers the request, from the names it finds.
LEMMA ServeExchange == ExchangeInv /\ Serve => ExchangeInv'
<1> SUFFICES ASSUME ExchangeInv, Serve PROVE ExchangeInv'
  OBVIOUS
<1>1. PICK out \in ServeHTTP(msg, names) :
        /\ ran' = ran \o out.ran /\ resp' = out.resp
        /\ names' \in IF out.ran = <<>> THEN {names}
                      ELSE Stored(names, out.ran[1].arg, out.ran[1].answer)
  BY DEF Serve
<1>2. stage' = "served" /\ UNCHANGED <<asked, msg>>
  BY DEF Serve
<1>3. RequestMade /\ RunsOfRequest /\ NamesValid
  BY DEF Serve, ExchangeInv
<1>4. RequestMade'
  BY <1>2, <1>3 DEF RequestMade
<1>5. ran \in Seq(Range(ran))
  BY <1>3 DEF RunsOfRequest
<1>6. asked.by = "client" => asked.op \in Operations /\ asked.arg \in Args[asked.op]
                             /\ msg = Send(asked.op, asked.arg)
  BY <1>3, WaysToCall DEF RequestMade
<1>7. ASSUME asked.by = "client"
      PROVE  /\ Routed(msg, asked.op)
             /\ ReadBy(asked.op, msg) = Good(asked.arg) \/
                (ReadBy(asked.op, msg) = Bad(400) /\ asked.arg \notin Admitted[asked.op])
  BY <1>6, <1>7, RequestsArrive
<1>8. CASE out.ran = <<>>
  <2>1. ran' = ran /\ names' = names
    BY <1>1, <1>5, <1>8, NoMoreRuns
  <2>2. ran = <<>>
    BY <1>3, <1>8, ServedAlike DEF RunsOfRequest
  <2>3. ASSUME asked.by = "client"
        PROVE  Understand(asked.op, resp') = {} /\ asked.arg \notin Admitted[asked.op]
    <3>1. out \in OutcomesOf(asked.op, names, ReadBy(asked.op, msg))
      BY <1>6, <1>7, <2>3, Routing
    <3>2. ReadBy(asked.op, msg).status # 200
      BY <1>8, <3>1, OutcomeRan DEF OutcomesOf
    <3>3. ReadBy(asked.op, msg) = Bad(400) /\ asked.arg \notin Admitted[asked.op]
      BY <1>7, <2>3, <3>2, ReadStatus
    <3>4. out.resp = ErrorHandler(400)
      BY <3>1, <3>3, ReadStatus DEF OutcomesOf
    <3> QED
      BY <1>1, <1>6, <2>3, <3>3, <3>4, ErrorHandlerNotUnderstood
  <2>4. ResponseOfRun'
    BY <1>2, <2>1, <2>2, <2>3 DEF ResponseOfRun
  <2>5. NamesValid' /\ RunsOfRequest'
    BY <1>2, <1>3, <2>1 DEF NamesValid, RunsOfRequest
  <2> QED
    BY <1>2, <1>4, <2>4, <2>5 DEF ExchangeInv
<1>9. CASE out.ran # <<>>
  <2>1. PICK op \in Operations :
          /\ Routed(msg, op) /\ ReadBy(op, msg).status = 200
          /\ \E a \in AnswersOf(op, names, ReadBy(op, msg).value) :
               out = OutcomeOf(op, ReadBy(op, msg).value, a)
    BY <1>9, OutcomeIs
  <2> DEFINE arg == ReadBy(op, msg).value
  <2>2. PICK a \in AnswersOf(op, names, arg) : out = OutcomeOf(op, arg, a)
    BY <2>1
  <2> DEFINE run == RunOf(op, arg, a)
  <2>3. /\ run = [op |-> op, arg |-> arg, answer |-> a]
        /\ run.op = op /\ run.arg = arg /\ run.answer = a
    BY DEF RunOf
  <2>4. ran' = ran \o <<run>> /\ names' \in Stored(names, arg, a)
    <3>1. /\ out.ran = <<run>> /\ out.ran[1] = run
      BY <2>2, OutcomeRan
    <3> HIDE DEF run, arg
    <3> QED
      BY <1>1, <1>9, <2>3, <3>1
  <2>5. arg = ReadBy(op, msg).value
    OBVIOUS
  <2> HIDE DEF arg, run
  <2>6. /\ ran' \in Seq(Range(ran')) /\ Range(ran') = Range(ran) \cup {run}
        /\ ran' # <<>> /\ Last(ran') = run
    BY <1>5, <2>4, OneMoreRun
  <2>7. ASSUME asked.by = "client"
        PROVE  op = asked.op /\ arg = asked.arg /\ ReadBy(op, msg) = Good(arg)
    <3>1. op = asked.op
      BY <1>6, <1>7, <2>1, <2>7, RoutedOnce
    <3> QED
      BY <1>7, <2>1, <2>5, <2>7, <3>1, ReadStatus
  <2>8. resp' = IF a.go = GoError.go THEN ErrorHandler(500) ELSE WriteFor(op, a)
    BY <1>1, <2>2 DEF OutcomeOf
  <2>9. NamesValid'
    <3>1. HoldsValidNames(names) /\ names = [teams |-> names.teams, users |-> names.users, prs |-> names.prs]
      BY <1>3 DEF NamesValid, HoldsValidNames
    <3>2. /\ names' = [teams |-> names'.teams, users |-> names'.users, prs |-> names'.prs]
          /\ HoldsValidNames(names')
      <4>1. PICK stored \in Stored(names, arg, a) : names' = stored
        BY <2>4
      <4>2. /\ stored = [teams |-> stored.teams, users |-> stored.users, prs |-> stored.prs]
            /\ HoldsValidNames(stored)
        BY <2>1, <2>2, <2>5, <3>1, StoredValid
      <4> QED
        BY <4>1, <4>2
    <3> QED
      BY <3>2 DEF NamesValid, HoldsValidNames
  <2>10. RunsOfRequest'
    <3>1. \E out0 \in ServeHTTP(msg, NoNames) : out0.ran # <<>>
      BY <1>9, ServedAlike
    <3>2. \A r \in Range(ran') : /\ r = [op |-> r.op, arg |-> r.arg, answer |-> r.answer]
                                 /\ asked.by = "client" => r.op = asked.op /\ r.arg = asked.arg
      BY <1>3, <2>3, <2>6, <2>7 DEF RunsOfRequest
    <3> QED
      BY <1>2, <2>6, <3>1, <3>2 DEF RunsOfRequest
  <2>11. ~Refusal(resp')
    <3>1. ~Refusal(ErrorHandler(500))
      BY NoRefusal DEF ErrorHandler
    <3>2. a # GoError => a.go # GoError.go /\ ~Refusal(WriteFor(op, a))
      BY AnswersUnderstood
    <3> QED
      BY <2>8, <3>1, <3>2
  <2>12. ASSUME asked.by = "client"
         PROVE  Understand(asked.op, resp') = IF a = GoError THEN {} ELSE {InTransit(a)}
    <3>1. CASE a = GoError
      BY <1>6, <2>8, <2>12, <3>1, ErrorHandlerNotUnderstood
    <3>2. CASE a # GoError
      <4>1. HoldsValidNames(names) /\ arg \in Args[op] /\ ReadBy(op, Send(op, arg)) = Good(arg)
        BY <1>3, <1>6, <2>7, <2>12 DEF NamesValid, HoldsValidNames
      <4> QED
        BY <2>7, <2>8, <2>12, <3>2, <4>1, AnswersUnderstood
    <3> QED
      BY <3>1, <3>2
  <2>13. ResponseOfRun'
    BY <1>2, <2>3, <2>6, <2>11, <2>12 DEF ResponseOfRun
  <2> QED
    BY <1>2, <1>4, <2>9, <2>10, <2>13 DEF ExchangeInv
<1> QED
  BY <1>8, <1>9

\* Every step keeps ExchangeInv.
LEMMA NextExchange == ExchangeInv /\ [Next]_vars => ExchangeInv'
<1> SUFFICES ASSUME ExchangeInv, [Next]_vars PROVE ExchangeInv'
  OBVIOUS
<1>1. CASE Call
  BY <1>1, StartExchange DEF Call
<1>2. CASE Probe
  BY <1>2, StartExchange DEF Probe
<1>3. CASE Serve
  BY <1>3, ServeExchange
<1>4. CASE Resend
  BY <1>4, ResendExchange
<1>5. CASE Lose
  BY <1>5, EndExchange DEF Lose
<1>6. CASE Receive
  BY <1>6, EndExchange DEF Receive
<1>7. CASE UNCHANGED vars
  BY <1>7 DEF vars, ExchangeInv, NamesValid, Idle, RequestMade, RunsOfRequest, ResponseOfRun
<1> QED
  BY <1>1, <1>2, <1>3, <1>4, <1>5, <1>6, <1>7 DEF Next

\* The request under way, its runs, the response and the names in the database
\* belong together at every moment: what the server reads is what the caller
\* asked, what the client reads is what the service answered, and a refusal
\* means that nothing was run (ServeHTTP and the generated client).
THEOREM ExchangeConsistent == Spec => []ExchangeInv
<1>1. Init => ExchangeInv
  BY InitExchange
<1>2. ExchangeInv /\ [Next]_vars => ExchangeInv'
  BY NextExchange
<1> QED
  BY <1>1, <1>2, PTL DEF Spec

(***************************************************************************)
(* Part 7.  What a caller is promised.                                     *)
(***************************************************************************)
\* An admitted call was run when its response arrives, and the client returns
\* what the latest run answered (Receive, with every name that others may have
\* brought into the database meanwhile).
THEOREM CallsUnderstood == Spec => ValidCallsUnderstood
<1> DEFINE Step == Receive /\ asked.by = "client" /\ asked.arg \in Admitted[asked.op] =>
                     /\ ran # <<>>
                     /\ Last(ran).answer.go # GoError.go =>
                          result' = Got(InTransit(Last(ran).answer))
<1>1. ASSUME ExchangeInv PROVE Step
  <2>1. SUFFICES ASSUME Receive, asked.by = "client", asked.arg \in Admitted[asked.op]
                 PROVE  /\ ran # <<>>
                        /\ Last(ran).answer.go # GoError.go =>
                             result' = Got(InTransit(Last(ran).answer))
    OBVIOUS
  <2>2. ResponseOfRun
    BY <1>1, <2>1 DEF ExchangeInv, Receive
  <2>3. ran # <<>>
    BY <2>1, <2>2 DEF ResponseOfRun
  <2>4. ASSUME Last(ran).answer.go # GoError.go
        PROVE  result' = Got(InTransit(Last(ran).answer))
    <3> DEFINE read == Understand(asked.op, resp)
    <3>1. read = {InTransit(Last(ran).answer)}
      BY <2>1, <2>2, <2>3, <2>4 DEF ResponseOfRun
    <3>2. result' = IF read = {} THEN Failed ELSE Got(The(read))
      BY <2>1 DEF Receive, End
    <3> HIDE DEF read
    <3> QED
      BY <3>1, <3>2, TheOne
  <2> QED
    BY <2>3, <2>4
<1>2. ExchangeInv /\ [Next]_vars => [Step]_vars
  BY <1>1
<1> QED
  BY <1>2, ExchangeConsistent, PTL DEF Spec, ValidCallsUnderstood

\* To serve a request adds one run of what was read, or none.
LEMMA ServeRuns ==
  ASSUME ExchangeInv, Serve
  PROVE  /\ ran \in Seq(Range(ran))
         /\ \/ ran' = ran
            \/ \E op \in Operations : \E a :
                 /\ ReadBy(op, msg).status = 200
                 /\ ran' = ran \o <<RunOf(op, ReadBy(op, msg).value, a)>>
<1>1. PICK out \in ServeHTTP(msg, names) : ran' = ran \o out.ran
  BY DEF Serve
<1>2. ran \in Seq(Range(ran))
  BY DEF Serve, ExchangeInv, RunsOfRequest
<1>3. CASE out.ran = <<>>
  BY <1>1, <1>2, <1>3, NoMoreRuns
<1>4. CASE out.ran # <<>>
  <2>1. PICK op \in Operations :
          /\ ReadBy(op, msg).status = 200
          /\ \E a \in AnswersOf(op, names, ReadBy(op, msg).value) :
               out = OutcomeOf(op, ReadBy(op, msg).value, a)
    BY <1>4, OutcomeIs
  <2>2. PICK a : out = OutcomeOf(op, ReadBy(op, msg).value, a)
    BY <2>1
  <2>3. ran' = ran \o <<RunOf(op, ReadBy(op, msg).value, a)>>
    BY <1>1, <2>2, OutcomeRan
  <2>4. ReadBy(op, msg).status = 200
    BY <2>1
  <2>5. \E b : /\ ReadBy(op, msg).status = 200
               /\ ran' = ran \o <<RunOf(op, ReadBy(op, msg).value, b)>>
    BY <2>3, <2>4, Zenon
  <2> QED
    BY <1>2, <2>5, ZenonT(40)
<1> QED
  BY <1>3, <1>4

\* The upper ends of the ranges of lengths.
LEMMA UpTo == \A n : (n \in 3..50 => n <= 50) /\ (n \in 3..255 => n <= 255)
  OBVIOUS

\* What NamesFitColumns says of one run.
FitsColumns(run) ==
  CASE run.op = "CreateTeam" ->
         /\ Len(run.arg.team_name) <= ColumnWidth.team
         /\ \A m \in Range(run.arg.members) : Len(m.username) <= ColumnWidth.user
    [] run.op = "CreatePullRequest" -> Len(run.arg.pull_request_name) <= ColumnWidth.pr
    [] OTHER -> TRUE

\* What the validators let through is as long as its column at most.
LEMMA ReadFitsColumns ==
  ASSUME NEW op \in Operations, NEW m, ReadBy(op, m).status = 200, NEW a
  PROVE  FitsColumns(RunOf(op, ReadBy(op, m).value, a))
<1> DEFINE arg == ReadBy(op, m).value
           run == RunOf(op, arg, a)
<1>1. run.op = op /\ run.arg = arg
  BY DEF RunOf
<1>2. ColumnWidth.team = 50 /\ ColumnWidth.user = 50 /\ ColumnWidth.pr = 255
  BY DEF ColumnWidth
<1> HIDE DEF run
<1>3. CASE op = "CreateTeam"
  <2>1. ReadBy(op, m) = decodeCreateTeamRequest(m)
    BY <1>3 DEF ReadBy
  <2>2. ValidTeam(arg)
    BY <2>1, ReadValid
  <2> HIDE DEF arg
  <2>3. /\ Len(arg.team_name) \in 3..50
        /\ \A u \in Range(arg.members) : Len(u.username) \in 3..50
    BY <2>2 DEF ValidTeam, ValidTeamName, ValidTeamMember, ValidUsername
  <2>4. /\ Len(arg.team_name) <= 50 /\ \A u \in Range(arg.members) : Len(u.username) <= 50
    <3>1. \A n : n \in 3..50 => n <= 50
      BY UpTo
    <3> QED
      BY <2>3, <3>1, Zenon
  <2>5. FitsColumns(run)
    BY <1>1, <1>2, <1>3, <2>4 DEF FitsColumns
  <2> QED
    BY <2>5 DEF run, arg
<1>4. CASE op = "CreatePullRequest"
  <2>1. ReadBy(op, m) = decodeCreatePullRequestRequest(m)
    BY <1>4 DEF ReadBy
  <2>2. ValidCreatePullRequestReq(arg)
    BY <2>1, ReadValid
  <2> HIDE DEF arg
  <2>3. Len(arg.pull_request_name) \in 3..255
    BY <2>2 DEF ValidCreatePullRequestReq, ValidPullRequestName
  <2>4. Len(arg.pull_request_name) <= 255
    BY <2>3, UpTo, Zenon
  <2>5. FitsColumns(run)
    BY <1>1, <1>2, <1>4, <2>4 DEF FitsColumns
  <2> QED
    BY <2>5 DEF run, arg
<1>5. CASE op \notin {"CreateTeam", "CreatePullRequest"}
  <2>1. FitsColumns(run)
    BY <1>1, <1>5 DEF FitsColumns
  <2> QED
    BY <2>1 DEF run
<1> QED
  BY <1>3, <1>4, <1>5

\* Every name that a service is run with fits its column, so an insertion never
\* fails for a mistake of the caller (the validators against the migration).
THEOREM NamesFit == Spec => []NamesFitColumns
<1>1. NamesFitColumns <=> \A i \in DOMAIN ran : FitsColumns(ran[i])
  BY DEF NamesFitColumns, FitsColumns
<1>2. Init => NamesFitColumns
  BY DEF Init, NamesFitColumns
<1>3. ExchangeInv /\ NamesFitColumns /\ [Next]_vars => NamesFitColumns'
  <2> SUFFICES ASSUME ExchangeInv, NamesFitColumns, [Next]_vars PROVE NamesFitColumns'
    OBVIOUS
  <2>1. NamesFitColumns' <=> \A i \in DOMAIN ran' : FitsColumns(ran'[i])
    BY DEF NamesFitColumns, FitsColumns
  <2>2. CASE ran' = ran
    BY <1>1, <2>1, <2>2
  <2>3. CASE ran' = <<>>
    BY <2>1, <2>3
  <2>4. CASE Serve
    <3>1. CASE ran' = ran
      BY <2>2, <3>1
    <3>2. CASE ran' # ran
      <4> PICK op \in Operations :
            \E a : /\ ReadBy(op, msg).status = 200
                   /\ ran' = ran \o <<RunOf(op, ReadBy(op, msg).value, a)>>
        BY <2>4, <3>2, ServeRuns, Zenon
      <4> PICK a : /\ ReadBy(op, msg).status = 200
                   /\ ran' = ran \o <<RunOf(op, ReadBy(op, msg).value, a)>>
        OBVIOUS
      <4> DEFINE run == RunOf(op, ReadBy(op, msg).value, a)
      <4>1. FitsColumns(run)
        BY ReadFitsColumns
      <4> HIDE DEF run
      <4>2. ran \in Seq(Range(ran))
        BY <2>4, ServeRuns
      <4>3. \A i \in DOMAIN ran' : ran'[i] = run \/ (i \in DOMAIN ran /\ ran'[i] = ran[i])
        BY <4>2 DEF run
      <4> QED
        BY <1>1, <2>1, <4>1, <4>3
    <3> QED
      BY <3>1, <3>2
  <2>5. Call \/ Probe \/ Resend \/ UNCHANGED vars => ran' = ran
    BY DEF Call, Probe, Start, Resend, vars
  <2>6. Lose \/ Receive => ran' = <<>>
    BY DEF Lose, Receive, End
  <2> QED
    BY <2>2, <2>3, <2>4, <2>5, <2>6 DEF Next
<1> QED
  BY <1>2, <1>3, ExchangeConsistent, PTL DEF Spec

\* What the client reads of a response has the type of its status.
LEMMA ErrorOfStatus ==
  ASSUME NEW r, NEW s, NEW type, NEW a \in ReadError(r, s, type)
  PROVE  r.status = s /\ a.go = type.go
<1>1. r.status = s /\ \E v : a = Answer(type, v)
  BY DEF ReadError, Read
<1> QED
  BY <1>1 DEF Answer

\* The load test names every status an understood answer can have.
LEMMA UnderstoodStatus ==
  ASSUME NEW op \in LoadTested, NEW r, NEW a \in Understand(op, r)
  PROVE  executeOperation(op, a) = r.status
<1>1. CASE op = "CheckHealth"
  <2>1. /\ CheckHealthOK.go = "CheckHealthOK"
        /\ ErrorResponse.go = "ErrorResponse"
    BY DEF ErrorResponse, Object, CheckHealthOK
  <2>2. a \in decodeCheckHealthResponse(r)
    BY <1>1 DEF Understand
  <2>3. \/ r.status = 200 /\ a.go = "CheckHealthOK"
        \/ a \in ReadError(r, 500, ErrorResponse)
    BY <2>1, <2>2 DEF decodeCheckHealthResponse, Answer
  <2>4. \/ r.status = 200 /\ a.go = "CheckHealthOK"
        \/ r.status = 500 /\ a.go = "ErrorResponse"
    BY <2>1, <2>2, <2>3, ErrorOfStatus
  <2> QED
    BY <1>1, <2>4 DEF executeOperation, Code
<1>2. CASE op = "CreatePullRequest"
  <2>1. /\ CreatePullRequestCreated.go = "CreatePullRequestCreated"
        /\ CreatePullRequestBadRequest.go = "CreatePullRequestBadRequest"
        /\ CreatePullRequestNotFound.go = "CreatePullRequestNotFound"
        /\ CreatePullRequestConflict.go = "CreatePullRequestConflict"
        /\ CreatePullRequestInternalServerError.go = "CreatePullRequestInternalServerError"
    BY DEF Alias, ErrorResponse, Object, CreatePullRequestCreated,
           CreatePullRequestBadRequest, CreatePullRequestNotFound,
           CreatePullRequestConflict, CreatePullRequestInternalServerError
  <2>2. a \in decodeCreatePullRequestResponse(r)
    BY <1>2 DEF Understand
  <2>3. ASSUME a \in Read(r, 201, CreatePullRequestCreated, ValidCreatePullRequestCreated)
        PROVE  r.status = 201 /\ a.go = "CreatePullRequestCreated"
    <3>1. r.status = 201 /\ \E v : a = Answer(CreatePullRequestCreated, v)
      BY <2>3 DEF Read
    <3> QED
      BY <2>1, <3>1 DEF Answer
  <2>4. \/ r.status = 201 /\ a.go = "CreatePullRequestCreated"
        \/ r.status = 400 /\ a.go = "CreatePullRequestBadRequest"
        \/ r.status = 404 /\ a.go = "CreatePullRequestNotFound"
        \/ r.status = 409 /\ a.go = "CreatePullRequestConflict"
        \/ r.status = 500 /\ a.go = "CreatePullRequestInternalServerError"
    BY <2>1, <2>2, <2>3, ErrorOfStatus DEF decodeCreatePullRequestResponse
  <2> QED
    BY <1>2, <2>4 DEF executeOperation, Code
<1>3. CASE op = "CreateTeam"
  <2>1. /\ CreateTeamCreated.go = "CreateTeamCreated"
        /\ CreateTeamBadRequest.go = "CreateTeamBadRequest"
        /\ CreateTeamConflict.go = "CreateTeamConflict"
        /\ CreateTeamInternalServerError.go = "CreateTeamInternalServerError"
    BY DEF Alias, ErrorResponse, Object, CreateTeamCreated, CreateTeamBadRequest,
           CreateTeamConflict, CreateTeamInternalServerError
  <2>2. a \in decodeCreateTeamResponse(r)
    BY <1>3 DEF Understand
  <2>3. ASSUME a \in Read(r, 201, CreateTeamCreated, ValidCreateTeamCreated)
        PROVE  r.status = 201 /\ a.go = "CreateTeamCreated"
    <3>1. r.status = 201 /\ \E v : a = Answer(CreateTeamCreated, v)
      BY <2>3 DEF Read
    <3> QED
      BY <2>1, <3>1 DEF Answer
  <2>4. \/ r.status = 201 /\ a.go = "CreateTeamCreated"
        \/ r.status = 400 /\ a.go = "CreateTeamBadRequest"
        \/ r.status = 409 /\ a.go = "CreateTeamConflict"
        \/ r.status = 500 /\ a.go = "CreateTeamInternalServerError"
    BY <2>1, <2>2, <2>3, ErrorOfStatus DEF decodeCreateTeamResponse
  <2> QED
    BY <1>3, <2>4 DEF executeOperation, Code
<1>4. CASE op = "GetAssignmentStats"
  <2>1. /\ GetAssignmentStatsOK.go = "GetAssignmentStatsOK"
        /\ ErrorResponse.go = "ErrorResponse"
    BY DEF ErrorResponse, Object, GetAssignmentStatsOK
  <2>2. a \in decodeGetAssignmentStatsResponse(r)
    BY <1>4 DEF Understand
  <2>3. ASSUME a \in Read(r, 200, GetAssignmentStatsOK, Unrestricted)
        PROVE  r.status = 200 /\ a.go = "GetAssignmentStatsOK"
    <3>1. r.status = 200 /\ \E v : a = Answer(GetAssignmentStatsOK, v)
      BY <2>3 DEF Read
    <3> QED
      BY <2>1, <3>1 DEF Answer
  <2>4. \/ r.status = 200 /\ a.go = "GetAssignmentStatsOK"
        \/ r.status = 500 /\ a.go = "ErrorResponse"
    BY <2>1, <2>2, <2>3, ErrorOfStatus DEF decodeGetAssignmentStatsResponse
  <2> QED
    BY <1>4, <2>4 DEF executeOperation, Code
<1>5. CASE op = "GetTeam"
  <2>1. /\ Team.go = "Team"
        /\ GetTeamBadRequest.go = "GetTeamBadRequest"
        /\ GetTeamNotFound.go = "GetTeamNotFound"
        /\ GetTeamInternalServerError.go = "GetTeamInternalServerError"
    BY DEF Alias, ErrorResponse, Object, Team, GetTeamBadRequest, GetTeamNotFound,
           GetTeamInternalServerError
  <2>2. a \in decodeGetTeamResponse(r)
    BY <1>5 DEF Understand
  <2>3. ASSUME a \in Read(r, 200, Team, ValidTeam) PROVE r.status = 200 /\ a.go = "Team"
    <3>1. r.status = 200 /\ \E v : a = Answer(Team, v)
      BY <2>3 DEF Read
    <3> QED
      BY <2>1, <3>1 DEF Answer
  <2>4. \/ r.status = 200 /\ a.go = "Team"
        \/ r.status = 400 /\ a.go = "GetTeamBadRequest"
        \/ r.status = 404 /\ a.go = "GetTeamNotFound"
        \/ r.status = 500 /\ a.go = "GetTeamInternalServerError"
    BY <2>1, <2>2, <2>3, ErrorOfStatus DEF decodeGetTeamResponse
  <2> QED
    BY <1>5, <2>4 DEF executeOperation, Code
<1>6. CASE op = "GetUserReviews"
  <2>1. /\ GetUserReviewsOK.go = "GetUserReviewsOK"
        /\ GetUserReviewsBadRequest.go = "GetUserReviewsBadRequest"
        /\ GetUserReviewsNotFound.go = "GetUserReviewsNotFound"
        /\ GetUserReviewsInternalServerError.go = "GetUserReviewsInternalServerError"
    BY DEF Alias, ErrorResponse, Object, GetUserReviewsOK, GetUserReviewsBadRequest,
           GetUserReviewsNotFound, GetUserReviewsInternalServerError
  <2>2. a \in decodeGetUserReviewsResponse(r)
    BY <1>6 DEF Understand
  <2>3. ASSUME a \in Read(r, 200, GetUserReviewsOK, ValidGetUserReviewsOK)
        PROVE  r.status = 200 /\ a.go = "GetUserReviewsOK"
    <3>1. r.status = 200 /\ \E v : a = Answer(GetUserReviewsOK, v)
      BY <2>3 DEF Read
    <3> QED
      BY <2>1, <3>1 DEF Answer
  <2>4. \/ r.status = 200 /\ a.go = "GetUserReviewsOK"
        \/ r.status = 400 /\ a.go = "GetUserReviewsBadRequest"
        \/ r.status = 404 /\ a.go = "GetUserReviewsNotFound"
        \/ r.status = 500 /\ a.go = "GetUserReviewsInternalServerError"
    BY <2>1, <2>2, <2>3, ErrorOfStatus DEF decodeGetUserReviewsResponse
  <2> QED
    BY <1>6, <2>4 DEF executeOperation, Code
<1> QED
  BY <1>1, <1>2, <1>3, <1>4, <1>5, <1>6 DEF LoadTested

\* An answer is counted under the status it was sent with (executeOperation in
\* cmd/loadtest, through every encoder and decoder of the six operations).
THEOREM LoadTestHonest == Spec => LoadTestCountsStatus
<1> DEFINE Step == Receive /\ result'.kind = "answer" /\ asked.op \in LoadTested =>
                     executeOperation(asked.op, result'.answer) = resp.status
<1>1. Step
  <2> SUFFICES ASSUME Receive, result'.kind = "answer", asked.op \in LoadTested
               PROVE  executeOperation(asked.op, result'.answer) = resp.status
    OBVIOUS
  <2> DEFINE read == Understand(asked.op, resp)
  <2>1. result' = IF asked.by = "other" THEN Seen(resp)
                  ELSE IF read = {} THEN Failed ELSE Got(The(read))
    BY DEF Receive, End
  <2> HIDE DEF read
  <2>2. result' = Got(The(read)) /\ read # {}
    BY <2>1 DEF Seen, Failed, Got
  <2>3. The(read) \in read
    BY <2>2 DEF The
  <2>4. result'.answer = The(read)
    BY <2>2 DEF Got
  <2> QED
    BY <2>3, <2>4, UnderstoodStatus DEF read
<1>2. [Next]_vars => [Step]_vars
  BY <1>1
<1> QED
  BY <1>2, PTL DEF Spec, LoadTestCountsStatus

(***************************************************************************)
(* Part 8.  HttpExchange implements RemoteCall.                            *)
(***************************************************************************)
\* The abstract state: the substitution of Remote, operator by operator.
StageSeen(s) == IF s = "idle" THEN "free" ELSE "pending"
CallSeen(who) ==
  CASE who.by = "client" -> [by |-> "client", reads |-> who.op \in Reading,
                             op |-> who.op, arg |-> who.arg]
    [] who.by = "other"  -> [by |-> "other", reads |-> who.reads]
    [] who.by = "nobody" -> who
RunsSeen(runs) == [i \in DOMAIN runs |-> [runs[i] EXCEPT !.answer = InTransit(@)]]
ToldOf(res) ==
  CASE res.kind = "answer" -> [kind |-> "answer", answer |-> res.answer]
    [] res.kind = "response" /\ Refusal(res.resp) -> [kind |-> "refused"]
    [] OTHER -> [kind |-> "nothing"]
CallsSeen == [by : {"other"}, reads : BOOLEAN] \cup
             UNION {{[by |-> "client", reads |-> op \in Reading, op |-> op, arg |-> arg] :
                       arg \in Args[op]} : op \in Operations}

\* The initial states of RemoteCall, seen through the substitution.
LEMMA RemoteInit ==
  Remote!Init <=> /\ StageSeen(stage) = "free" /\ CallSeen(asked) = [by |-> "nobody"]
                  /\ RunsSeen(ran) = <<>> /\ ToldOf(result) = [kind |-> "nothing"]
  BY DEF Remote!Init, Remote!Nobody, Remote!Nothing, StageSeen, CallSeen, RunsSeen, ToldOf

\* Ask, Run and Return of RemoteCall, seen through the substitution.
LEMMA RemoteAsk ==
  ASSUME StageSeen(stage) = "free", StageSeen(stage') = "pending",
         CallSeen(asked') \in CallsSeen, ToldOf(result') = [kind |-> "nothing"],
         RunsSeen(ran') = RunsSeen(ran)
  PROVE  Remote!Ask
  BY DEF Remote!Ask, Remote!Nothing, StageSeen, CallSeen, RunsSeen, ToldOf, CallsSeen

\* A run is added, by a call that had none or only reads.
LEMMA RemoteRun ==
  ASSUME StageSeen(stage) = "pending", StageSeen(stage') = StageSeen(stage),
         RunsSeen(ran) = <<>> \/ CallSeen(asked).reads,
         Len(RunsSeen(ran')) = Len(RunsSeen(ran)) + 1,
         RunsSeen(ran') = Append(RunsSeen(ran), Last(RunsSeen(ran'))),
         \/ CallSeen(asked).by = "other"
         \/ /\ Last(RunsSeen(ran')).op = CallSeen(asked).op
            /\ Last(RunsSeen(ran')).arg = CallSeen(asked).arg,
         CallSeen(asked') = CallSeen(asked), ToldOf(result') = ToldOf(result)
  PROVE  Remote!Run
<1>1. \A s : Remote!Last(s) = Last(s)
  BY DEF Remote!Last, Last
<1>2. Remote!Run <=>
        /\ StageSeen(stage) = "pending"
        /\ RunsSeen(ran) = <<>> \/ CallSeen(asked).reads
        /\ Len(RunsSeen(ran')) = Len(RunsSeen(ran)) + 1
        /\ RunsSeen(ran') = Append(RunsSeen(ran), Remote!Last(RunsSeen(ran')))
        /\ \/ CallSeen(asked).by = "other"
           \/ /\ Remote!Last(RunsSeen(ran')).op = CallSeen(asked).op
              /\ Remote!Last(RunsSeen(ran')).arg = CallSeen(asked).arg
        /\ UNCHANGED <<StageSeen(stage), CallSeen(asked), ToldOf(result)>>
  BY DEF Remote!Run, Remote!Means, StageSeen, CallSeen, RunsSeen, ToldOf
<1> QED
  BY <1>1, <1>2

\* The call returns what its latest run answered, or that it had none, or nothing.
LEMMA RemoteReturn ==
  ASSUME StageSeen(stage) = "pending", StageSeen(stage') = "free",
         \/ ToldOf(result') = [kind |-> "nothing"]
         \/ RunsSeen(ran) = <<>> /\ ToldOf(result') = [kind |-> "refused"]
         \/ /\ RunsSeen(ran) # <<>>
            /\ ToldOf(result') = [kind |-> "answer", answer |-> Last(RunsSeen(ran)).answer],
         CallSeen(asked') = [by |-> "nobody"], RunsSeen(ran') = <<>>
  PROVE  Remote!Return
<1>1. \A s : Remote!Last(s) = Last(s)
  BY DEF Remote!Last, Last
<1>2. Remote!Return <=>
        /\ StageSeen(stage) = "pending" /\ StageSeen(stage') = "free"
        /\ \/ ToldOf(result') = [kind |-> "nothing"]
           \/ RunsSeen(ran) = <<>> /\ ToldOf(result') = [kind |-> "refused"]
           \/ /\ RunsSeen(ran) # <<>>
              /\ ToldOf(result') = [kind |-> "answer", answer |-> Remote!Last(RunsSeen(ran)).answer]
        /\ CallSeen(asked') = [by |-> "nobody"] /\ RunsSeen(ran') = <<>>
  BY DEF Remote!Return, Remote!Nothing, Remote!Refused, Remote!Told, Remote!Nobody,
               StageSeen, CallSeen, RunsSeen, ToldOf
<1> QED
  BY <1>1, <1>2

\* What RemoteCall does not see changes.
LEMMA RemoteStutter ==
  ASSUME StageSeen(stage') = StageSeen(stage), CallSeen(asked') = CallSeen(asked),
         RunsSeen(ran') = RunsSeen(ran), ToldOf(result') = ToldOf(result)
  PROVE  UNCHANGED Remote!vars
  BY DEF Remote!vars, StageSeen, CallSeen, RunsSeen, ToldOf

\* The latest run, and the latest run as it is seen.
LEMMA RunsSeenOf ==
  ASSUME NEW runs, runs \in Seq(Range(runs)),
         \A run \in Range(runs) : run = [op |-> run.op, arg |-> run.arg, answer |-> run.answer]
  PROVE  /\ runs = <<>> <=> RunsSeen(runs) = <<>>
         /\ runs # <<>> => Last(RunsSeen(runs)).answer = InTransit(Last(runs).answer)
<1> DEFINE seen == RunsSeen(runs)
<1>1. /\ Len(runs) \in Nat /\ DOMAIN runs = 1..Len(runs) /\ (runs = <<>> <=> Len(runs) = 0)
      /\ runs # <<>> => Last(runs) = runs[Len(runs)]
  BY DEF Last
<1>2. /\ DOMAIN seen = 1..Len(runs)
      /\ \A i \in 1..Len(runs) : seen[i] = [runs[i] EXCEPT !.answer = InTransit(@)]
  BY <1>1 DEF RunsSeen
<1>3. seen \in Seq(Range(seen)) /\ Len(seen) = Len(runs)
  <2>1. seen = [i \in 1..Len(runs) |-> [runs[i] EXCEPT !.answer = InTransit(@)]]
    BY <1>1 DEF RunsSeen
  <2>2. \A i \in 1..Len(runs) : seen[i] \in Range(seen)
    BY <1>2 DEF Range
  <2> HIDE DEF seen
  <2> QED
    BY <1>1, <1>2, <2>1, <2>2
<1> HIDE DEF seen
<1>4. runs = <<>> <=> seen = <<>>
  BY <1>1, <1>3
<1>5. runs # <<>> => Last(seen) = [Last(runs) EXCEPT !.answer = InTransit(@)]
  BY <1>1, <1>2, <1>3 DEF Last
<1>6. \A r : r = [op |-> r.op, arg |-> r.arg, answer |-> r.answer] =>
               [r EXCEPT !.answer = InTransit(@)].answer = InTransit(r.answer)
  OBVIOUS
<1>7. runs # <<>> => Last(runs) \in Range(runs)
  BY <1>1 DEF Range
<1> QED
  BY <1>4, <1>5, <1>6, <1>7 DEF seen

\* One more run is one more run seen.
LEMMA RunsSeenMore ==
  ASSUME ran \in Seq(Range(ran)), NEW op, NEW arg, NEW a, ran' = ran \o <<RunOf(op, arg, a)>>
  PROVE  /\ Len(RunsSeen(ran')) = Len(RunsSeen(ran)) + 1
         /\ RunsSeen(ran') = Append(RunsSeen(ran), Last(RunsSeen(ran')))
         /\ Last(RunsSeen(ran')).op = op /\ Last(RunsSeen(ran')).arg = arg
<1> DEFINE n    == Len(ran)
           see(r) == [r EXCEPT !.answer = InTransit(@)]
           run  == RunOf(op, arg, a)
           s1   == RunsSeen(ran)
           s2   == RunsSeen(ran')
<1>1. see(run).op = op /\ see(run).arg = arg
  BY DEF RunOf
<1> HIDE DEF run, see
<1>2. n \in Nat /\ DOMAIN ran = 1..n
  OBVIOUS
<1>3. /\ DOMAIN ran' = 1..(n + 1) /\ ran'[n + 1] = run
      /\ \A i \in 1..n : ran'[i] = ran[i]
  BY <1>2 DEF run
<1>4. s1 = [i \in 1..n |-> see(ran[i])] /\ s2 = [i \in 1..(n + 1) |-> see(ran'[i])]
  BY <1>2, <1>3 DEF RunsSeen, see
<1> HIDE DEF n, s1, s2
<1>5. s1 \in Seq({see(ran[i]) : i \in 1..n}) /\ Len(s1) = n
  BY <1>2, <1>4
<1>6. s2 \in Seq({see(ran'[i]) : i \in 1..(n + 1)}) /\ Len(s2) = n + 1
  BY <1>2, <1>4
<1>7. Last(s2) = see(run)
  BY <1>2, <1>3, <1>4, <1>6 DEF Last
<1>8. s2 = Append(s1, see(run))
  BY <1>2, <1>3, <1>4, <1>5, <1>6
<1> QED
  BY <1>1, <1>5, <1>6, <1>7, <1>8 DEF s1, s2

\* Every caller is one that RemoteCall knows, and repeats a request only if it reads.
LEMMA CallerSeen ==
  /\ \A op \in Operations : \A arg \in Args[op] :
       /\ CallSeen(ByClient(op, arg)) =
            [by |-> "client", reads |-> op \in Reading, op |-> op, arg |-> arg]
       /\ CallSeen(ByClient(op, arg)) \in CallsSeen
       /\ Send(op, arg).method = "GET" <=> op \in Reading
  /\ \A m : /\ CallSeen(ByOther(m)) = [by |-> "other", reads |-> m.method = "GET"]
            /\ CallSeen(ByOther(m)) \in CallsSeen
  /\ CallSeen(Nobody) = [by |-> "nobody"]
<1>1. ASSUME NEW op \in Operations, NEW arg \in Args[op]
      PROVE  /\ CallSeen(ByClient(op, arg)) =
                  [by |-> "client", reads |-> op \in Reading, op |-> op, arg |-> arg]
             /\ CallSeen(ByClient(op, arg)) \in CallsSeen
             /\ Send(op, arg).method = "GET" <=> op \in Reading
  <2>1. CallSeen(ByClient(op, arg)) =
          [by |-> "client", reads |-> op \in Reading, op |-> op, arg |-> arg]
    BY DEF CallSeen, ByClient
  <2> DEFINE call(o, b) == [by |-> "client", reads |-> o \in Reading, op |-> o, arg |-> b]
             callsOf(o) == {call(o, b) : b \in Args[o]}
  <2>2. UNION {callsOf(o) : o \in Operations} \subseteq CallsSeen
    BY DEF CallsSeen
  <2>3. call(op, arg) \in CallsSeen
    <3>1. call(op, arg) \in callsOf(op)
      OBVIOUS
    <3> HIDE DEF call, callsOf
    <3> QED
      BY <2>2, <3>1
  <2>4. Routed(Send(op, arg), op)
    BY RequestsArrive
  <2>5. Send(op, arg).method = "GET" <=> op \in Reading
    BY <2>4 DEF Routed
  <2> QED
    BY <2>1, <2>3, <2>5
<1>2. ASSUME NEW m
      PROVE  /\ CallSeen(ByOther(m)) = [by |-> "other", reads |-> m.method = "GET"]
             /\ CallSeen(ByOther(m)) \in CallsSeen
  <2> DEFINE call == [by |-> "other", reads |-> m.method = "GET"]
  <2>1. CallSeen(ByOther(m)) = call
    BY DEF CallSeen, ByOther
  <2>2. (m.method = "GET") \in BOOLEAN
    OBVIOUS
  <2>3. call \in [by : {"other"}, reads : BOOLEAN]
    BY <2>2
  <2> QED
    BY <2>1, <2>3 DEF CallsSeen
<1>3. CallSeen(Nobody) = [by |-> "nobody"]
  BY DEF CallSeen, Nobody
<1> QED
  BY <1>1, <1>2, <1>3

\* What the caller gets, as RemoteCall tells it.
LEMMA ToldSeen ==
  /\ ToldOf(Pending) = [kind |-> "nothing"] /\ ToldOf(Lost) = [kind |-> "nothing"]
  /\ ToldOf(Failed) = [kind |-> "nothing"]
  /\ \A a : ToldOf(Got(a)) = [kind |-> "answer", answer |-> a]
  /\ \A r : ToldOf(Seen(r)) = IF Refusal(r) THEN [kind |-> "refused"] ELSE [kind |-> "nothing"]
<1> USE DEF ToldOf
<1>1. ToldOf(Pending) = [kind |-> "nothing"] /\ ToldOf(Lost) = [kind |-> "nothing"]
  BY DEF Pending, Lost
<1>2. ToldOf(Failed) = [kind |-> "nothing"]
  BY DEF Failed
<1>3. \A a : ToldOf(Got(a)) = [kind |-> "answer", answer |-> a]
  BY DEF Got
<1>4. ASSUME NEW r
      PROVE  ToldOf(Seen(r)) = IF Refusal(r) THEN [kind |-> "refused"] ELSE [kind |-> "nothing"]
  <2>1. Seen(r).kind = "response" /\ Seen(r).resp = r
    BY DEF Seen
  <2>2. CASE Refusal(r)
    BY <2>1, <2>2
  <2>3. CASE ~Refusal(r)
    BY <2>1, <2>3
  <2> QED
    BY <2>2, <2>3
<1> QED
  BY <1>1, <1>2, <1>3, <1>4

\* To serve is to Run, or RemoteCall sees nothing of it.
LEMMA RemoteServe ==
  ASSUME ExchangeInv, ExchangeInv', Serve
  PROVE  Remote!Run \/ UNCHANGED Remote!vars
<1>1. /\ stage = "sent" /\ stage' = "served" /\ UNCHANGED <<asked, msg, result>>
  BY DEF Serve
<1>2. /\ StageSeen(stage) = "pending" /\ StageSeen(stage') = StageSeen(stage)
      /\ CallSeen(asked') = CallSeen(asked) /\ ToldOf(result') = ToldOf(result)
  BY <1>1 DEF StageSeen
<1>3. CASE ran' = ran
  BY <1>2, <1>3, RemoteStutter
<1>4. CASE ran' # ran
  <2>1. PICK op \in Operations :
          \E a : /\ ReadBy(op, msg).status = 200
                 /\ ran' = ran \o <<RunOf(op, ReadBy(op, msg).value, a)>>
    BY <1>4, ServeRuns, Zenon
  <2>2. PICK a : ran' = ran \o <<RunOf(op, ReadBy(op, msg).value, a)>>
    BY <2>1
  <2> DEFINE arg == ReadBy(op, msg).value
             run == RunOf(op, arg, a)
  <2>3. run.op = op /\ run.arg = arg
    BY DEF RunOf
  <2>4. ran \in Seq(Range(ran))
    BY ServeRuns
  <2>5. ran' = ran \o <<run>>
    BY <2>2
  <2>6. run \in Range(ran')
    <3> HIDE DEF run
    <3>1. /\ ran' \in Seq(Range(ran')) /\ Range(ran') = Range(ran) \cup {run}
          /\ ran' # <<>> /\ Last(ran') = run
      BY <2>4, <2>5, OneMoreRun
    <3> QED
      BY <3>1
  <2>7. RunsOfRequest'
    BY <1>1 DEF ExchangeInv
  <2>8. asked.by = "client" => op = asked.op /\ arg = asked.arg
    <3> HIDE DEF run, arg
    <3> QED
      BY <1>1, <2>3, <2>6, <2>7 DEF RunsOfRequest
  <2> HIDE DEF arg
  <2>9. /\ Len(RunsSeen(ran')) = Len(RunsSeen(ran)) + 1
        /\ RunsSeen(ran') = Append(RunsSeen(ran), Last(RunsSeen(ran')))
        /\ Last(RunsSeen(ran')).op = op /\ Last(RunsSeen(ran')).arg = arg
    BY <2>4, <2>5, RunsSeenMore
  <2>10. RequestMade
    BY <1>1 DEF ExchangeInv
  <2>11. \/ CallSeen(asked).by = "other"
         \/ /\ CallSeen(asked).op = op /\ CallSeen(asked).arg = arg
    <3>1. CASE asked = ByOther(msg)
      <4>1. CallSeen(asked) = [by |-> "other", reads |-> msg.method = "GET"]
        BY <3>1, CallerSeen
      <4> QED
        BY <4>1
    <3>2. ASSUME NEW o \in Operations, NEW b \in Args[o], asked = ByClient(o, b)
          PROVE  CallSeen(asked).op = op /\ CallSeen(asked).arg = arg
      <4>1. CallSeen(asked) = [by |-> "client", reads |-> o \in Reading, op |-> o, arg |-> b]
        BY <3>2, CallerSeen
      <4>2. o = op /\ b = arg
        BY <2>8, <3>2, WaysToCall
      <4> QED
        BY <4>1, <4>2
    <3> QED
      BY <2>10, <3>1, <3>2 DEF RequestMade
  <2>12. RunsSeen(ran) = <<>> \/ CallSeen(asked).reads
    <3>1. CASE ran = <<>>
      BY <3>1 DEF RunsSeen
    <3>2. CASE ran # <<>>
      <4>1. msg.method = "GET"
        BY <1>1, <3>2 DEF ExchangeInv
      <4>2. CASE asked = ByOther(msg)
        <5>1. CallSeen(asked) = [by |-> "other", reads |-> msg.method = "GET"]
          BY <4>2, CallerSeen
        <5>2. (msg.method = "GET") = TRUE
          BY <4>1
        <5>3. CallSeen(asked) = [by |-> "other", reads |-> TRUE]
          BY <5>1, <5>2
        <5> QED
          BY <5>3
      <4>3. ASSUME NEW o \in Operations, NEW b \in Args[o], asked = ByClient(o, b), msg = Send(o, b)
            PROVE  CallSeen(asked).reads
        <5>1. CallSeen(asked) = [by |-> "client", reads |-> o \in Reading, op |-> o, arg |-> b]
          BY <4>3, CallerSeen
        <5>2. o \in Reading
          BY <4>1, <4>3, CallerSeen
        <5>3. (o \in Reading) = TRUE
          BY <5>2
        <5>4. CallSeen(asked) = [by |-> "client", reads |-> TRUE, op |-> o, arg |-> b]
          BY <5>1, <5>3
        <5> QED
          BY <5>4
      <4> QED
        BY <2>10, <4>2, <4>3 DEF RequestMade
    <3> QED
      BY <3>1, <3>2
  <2> QED
    BY <1>2, <2>9, <2>11, <2>12, RemoteRun
<1> QED
  BY <1>3, <1>4

\* What the caller gets at last is what the latest run answered, a refusal of a
\* request that was never run, or nothing.
LEMMA RemoteReceive ==
  ASSUME ExchangeInv, Receive
  PROVE  Remote!Return
<1>1. /\ stage = "served" /\ stage' = "idle" /\ asked' = Nobody /\ ran' = <<>>
      /\ result' = IF asked.by = "other" THEN Seen(resp)
                   ELSE IF Understand(asked.op, resp) = {} THEN Failed
                   ELSE Got(The(Understand(asked.op, resp)))
  BY DEF Receive, End
<1>2. /\ StageSeen(stage) = "pending" /\ StageSeen(stage') = "free"
      /\ CallSeen(asked') = [by |-> "nobody"]
  BY <1>1, CallerSeen DEF StageSeen
<1>3. RunsSeen(<<>>) = <<>>
  BY DEF RunsSeen
<1>4. RequestMade /\ RunsOfRequest /\ ResponseOfRun
  BY <1>1 DEF ExchangeInv
<1>5. CASE asked = ByOther(msg)
  <2>1. result' = Seen(resp)
    BY <1>1, <1>5, WaysToCall
  <2>2. ToldOf(result') = IF Refusal(resp) THEN [kind |-> "refused"] ELSE [kind |-> "nothing"]
    BY <2>1, ToldSeen
  <2>3. Refusal(resp) => RunsSeen(ran) = <<>>
    BY <1>3, <1>4 DEF ResponseOfRun
  <2> QED
    BY <1>1, <1>2, <1>3, <2>2, <2>3, RemoteReturn
<1>6. CASE asked.by = "client"
  <2>1. CASE Understand(asked.op, resp) = {}
    <3>1. result' = Failed
      BY <1>1, <1>6, <2>1
    <3> QED
      BY <1>1, <1>2, <1>3, <3>1, ToldSeen, RemoteReturn
  <2>2. CASE Understand(asked.op, resp) # {}
    <3> DEFINE answer == Last(ran).answer
    <3>1. ran # <<>> /\ Understand(asked.op, resp) = {InTransit(answer)}
      BY <1>4, <1>6, <2>2 DEF ResponseOfRun
    <3>2. The({InTransit(answer)}) = InTransit(answer)
      BY DEF The
    <3>3. result' = Got(InTransit(answer))
      BY <1>1, <1>6, <2>2, <3>1, <3>2
    <3>4. ToldOf(result') = [kind |-> "answer", answer |-> InTransit(answer)]
      BY <3>3, ToldSeen
    <3>5. /\ ran \in Seq(Range(ran))
          /\ \A run \in Range(ran) : run = [op |-> run.op, arg |-> run.arg, answer |-> run.answer]
      BY <1>4 DEF RunsOfRequest
    <3>6. RunsSeen(ran) # <<>> /\ Last(RunsSeen(ran)).answer = InTransit(answer)
      BY <3>1, <3>5, RunsSeenOf
    <3> QED
      BY <1>1, <1>2, <1>3, <3>4, <3>6, RemoteReturn
  <2> QED
    BY <2>1, <2>2
<1> QED
  BY <1>4, <1>5, <1>6, WaysToCall DEF RequestMade

\* Every step of the exchange is a step of RemoteCall or changes nothing it sees.
LEMMA RemoteStep ==
  ASSUME ExchangeInv, ExchangeInv', [Next]_vars
  PROVE  [Remote!Ask \/ Remote!Run \/ Remote!Return]_(Remote!vars)
<1>1. ASSUME NEW who, NEW m, Start(who, m), CallSeen(who) \in CallsSeen
      PROVE  Remote!Ask
  <2>1. /\ stage = "idle" /\ stage' = "sent" /\ asked' = who /\ result' = Pending /\ ran' = ran
    BY <1>1 DEF Start
  <2>2. StageSeen(stage) = "free" /\ StageSeen(stage') = "pending"
    BY <2>1 DEF StageSeen
  <2> QED
    BY <1>1, <2>1, <2>2, ToldSeen, RemoteAsk
<1>2. CASE Call
  BY <1>1, <1>2, CallerSeen DEF Call
<1>3. CASE Probe
  BY <1>1, <1>3, CallerSeen DEF Probe
<1>4. CASE Serve
  BY <1>4, RemoteServe
<1>5. CASE Resend
  <2>1. StageSeen(stage') = StageSeen(stage)
    BY <1>5 DEF Resend, StageSeen
  <2> QED
    BY <1>5, <2>1, RemoteStutter DEF Resend
<1>6. CASE Lose
  <2>1. /\ stage \in {"sent", "served"} /\ stage' = "idle"
        /\ asked' = Nobody /\ ran' = <<>> /\ result' = Lost
    BY <1>6 DEF Lose, End
  <2>2. StageSeen(stage) = "pending" /\ StageSeen(stage') = "free"
    BY <2>1 DEF StageSeen
  <2>3. RunsSeen(<<>>) = <<>>
    BY DEF RunsSeen
  <2> QED
    BY <2>1, <2>2, <2>3, CallerSeen, ToldSeen, RemoteReturn
<1>7. CASE Receive
  BY <1>7, RemoteReceive
<1>8. CASE UNCHANGED vars
  BY <1>8, RemoteStutter DEF vars
<1> QED
  BY <1>2, <1>3, <1>4, <1>5, <1>6, <1>7, <1>8 DEF Next

\* Client, network and server together are one remote call: at most one run of a
\* service, on the request the client was given, and its answer or nothing
\* (HttpExchange implements RemoteCall, for every choice of the constants).
THEOREM ImplementsRemoteCall == Spec => IsRemoteCall
<1>1. Init => Remote!Init
  <2> SUFFICES ASSUME Init PROVE Remote!Init
    OBVIOUS
  <2>1. stage = "idle" /\ asked = Nobody /\ ran = <<>> /\ result = Pending
    BY DEF Init
  <2>2. StageSeen(stage) = "free" /\ RunsSeen(ran) = <<>>
    BY <2>1 DEF StageSeen, RunsSeen
  <2> QED
    BY <2>1, <2>2, CallerSeen, ToldSeen, RemoteInit
<1>2. ExchangeInv /\ ExchangeInv' /\ [Next]_vars =>
        [Remote!Ask \/ Remote!Run \/ Remote!Return]_(Remote!vars)
  BY RemoteStep
<1> QED
  BY <1>1, <1>2, ExchangeConsistent, PTL DEF Spec, IsRemoteCall, Remote!Spec
===============================================================================
