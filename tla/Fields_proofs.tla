---------------------------- MODULE Fields_proofs ----------------------------
(***************************************************************************)
(* Proofs, for struct types with any number of fields and any keys, that   *)
(* the fields of an object arrive, that what is written can be read, and   *)
(* that only values the application chose keep one from travelling.        *)
(***************************************************************************)
EXTENDS Fields, Induction

----------------------------------------------------------------------------
(* Sets *)

\* A set with at most one element has no two.
LEMMA AtMostOne ==
  ASSUME NEW S, IsFiniteSet(S), Cardinality(S) <= 1, NEW a \in S, NEW b \in S
  PROVE  a = b
<1>1. Cardinality(S) \in Nat /\ Cardinality(S) # 0
  BY FS_CardinalityType, FS_EmptySet
<1>2. Cardinality(S) = 1
  BY <1>1
<1> QED
  BY <1>2, FS_Singleton

----------------------------------------------------------------------------
(* Fields and their places *)

\* There are finitely many tags.
LEMMA TagsAreFinite == IsFiniteSet(Tags)
<1> DEFINE A == {"json"} \cup {"query"}
           B == A \cup {"header"}
           C == B \cup {"cookie"}
           D == C \cup {"url"}
           E == D \cup {"use_as_body"}
<1>1. IsFiniteSet(A)
  BY FS_Singleton, FS_AddElement
<1>2. IsFiniteSet(B)
  <2> HIDE DEF A
  <2> QED
    BY <1>1, FS_AddElement
<1>3. IsFiniteSet(C)
  <2> HIDE DEF B
  <2> QED
    BY <1>2, FS_AddElement
<1>4. IsFiniteSet(D)
  <2> HIDE DEF C
  <2> QED
    BY <1>3, FS_AddElement
<1>5. IsFiniteSet(E)
  <2> HIDE DEF D
  <2> QED
    BY <1>4, FS_AddElement
<1>6. IsFiniteSet(E \cup {"use_as_status"})
  <2> HIDE DEF E
  <2> QED
    BY <1>5, FS_AddElement
<1>7. Tags = E \cup {"use_as_status"}
  BY DEF Tags
<1> QED
  BY <1>6, <1>7

\* The chain of else-ifs comes to a tag that the field has, if it has one but "json".
LEMMA PlaceMeans ==
  ASSUME NEW f \in StructField
  PROVE  /\ PlaceOf(f) = "none" <=> ~f.exported
         /\ PlaceOf(f) \in {"none", "json"} \cup TextPlaces \cup {"use_as_body", "use_as_status"}
         /\ PlaceOf(f) \notin {"none", "json"} => PlaceOf(f) \in f.tags
         /\ PlaceOf(f) = "json" => f.tags \subseteq {"json"}
<1> DEFINE chain == <<"query", "header", "cookie", "url", "use_as_body", "use_as_status">>
           has == {i \in DOMAIN chain : chain[i] \in f.tags}
<1>1. PlaceOf(f) = IF ~f.exported THEN "none" ELSE IF has = {} THEN "json" ELSE chain[Min(has)]
  BY DEF PlaceOf
<1>2. has \in SUBSET (1 .. 6) /\ DOMAIN chain = 1 .. 6
  OBVIOUS
<1>3. \A i \in 1 .. 6 : chain[i] \in {"query", "header", "cookie", "url", "use_as_body", "use_as_status"}
  OBVIOUS
<1>4. has # {} => Min(has) \in has
  <2> HIDE DEF has
  <2> QED
    BY <1>2, FirstAndLast
<1>5. has = {} => f.tags \subseteq {"json"}
  <2> SUFFICES ASSUME has = {} PROVE f.tags \subseteq {"json"}
    OBVIOUS
  <2>1. \A i \in 1 .. 6 : chain[i] \notin f.tags
    BY <1>2
  <2>2. "query" \notin f.tags /\ "header" \notin f.tags /\ "cookie" \notin f.tags
    BY <2>1
  <2>3. "url" \notin f.tags /\ "use_as_body" \notin f.tags /\ "use_as_status" \notin f.tags
    BY <2>1
  <2>4. f.tags \subseteq Tags
    BY DEF StructField
  <2> QED
    BY <2>2, <2>3, <2>4 DEF Tags
<1>6. CASE ~f.exported
  BY <1>1, <1>6
<1>7. CASE f.exported /\ has = {}
  BY <1>1, <1>5, <1>7
<1>8. CASE f.exported /\ has # {}
  <2>1. Min(has) \in 1 .. 6 /\ chain[Min(has)] \in f.tags
    <3> HIDE DEF chain
    <3> QED
      BY <1>2, <1>4, <1>8
  <2> HIDE DEF chain, has
  <2>2. PlaceOf(f) = chain[Min(has)]
    BY <1>1, <1>8
  <2> QED
    BY <1>3, <1>8, <2>1, <2>2 DEF TextPlaces
<1> QED
  BY <1>6, <1>7, <1>8

\* An exported field with one tag goes where its tag says.
LEMMA PlaceOfTag ==
  ASSUME NEW f \in StructField, Cardinality(f.tags) <= 1, f.exported, NEW tag \in f.tags
  PROVE  PlaceOf(f) = tag /\ f.tags = {tag}
<1>1. IsFiniteSet(f.tags)
  BY TagsAreFinite, FS_Subset DEF StructField
<1>2. \A t \in f.tags : t = tag
  BY <1>1, AtMostOne
<1>3. PlaceOf(f) # "none"
  BY PlaceMeans
<1> QED
  BY <1>2, <1>3, PlaceMeans

----------------------------------------------------------------------------
(* The invariant *)

\* The place and the key of a field.
At(f) == <<PlaceOf(f), f.key>>

\* What the message has is what was sent.
MessageInv ==
  /\ stage \in {"new", "rejected", "bound", "sending", "failed", "broken"} => msg = NoMessage
  /\ \A pk \in DOMAIN msg.texts : \E i \in DOMAIN fields :
       /\ PlaceOf(fields[i]) \in TextPlaces /\ pk = At(fields[i])
       /\ msg.texts[pk] = Carry(PlaceOf(fields[i]), sent[i])
  /\ msg.hasBody => \A i \in BodyFields(fields) : msg.body[i] = sent[i]

\* Nothing is missing from a message that was encoded without an error.
EncodedInv ==
  encoded =>
    /\ stage \in {"written", "misrouted", "unreadable", "read"}
    /\ \A i \in DOMAIN fields : PlaceOf(fields[i]) \in TextPlaces =>
         ~ToStringFails(fields[i].type, sent[i]) /\ At(fields[i]) \in DOMAIN msg.texts
    /\ \A i \in DOMAIN fields : PlaceOf(fields[i]) = "use_as_status" /\ sent[i] \notin {"0", "102"} =>
         msg.status = sent[i]
    /\ ~msg.hasBody =>
         HasBodyField(fields) /\ \A i \in BodyFields(fields) : fields[i].flags # {} /\ sent[i] = ""

\* The inductive invariant: the message and what was sent, tied together.
IInv ==
  /\ struct \in Structs
  /\ stage \notin {"new", "rejected"} => Accepts(struct)
  /\ TypeOK
  /\ MessageInv
  /\ EncodedInv
  /\ FieldsArrive
  /\ WrittenIsReadable
  /\ FailsForValues

----------------------------------------------------------------------------
(* What validation is good for *)

\* The fields of a struct type.
LEMMA FieldFacts ==
  ASSUME NEW s \in Structs
  PROVE  /\ DOMAIN s.fields = 1 .. Len(s.fields) /\ Len(s.fields) \in Nat
         /\ \A i \in DOMAIN s.fields : s.fields[i] \in StructField
         /\ \A i \in DOMAIN s.fields :
              /\ s.fields[i].tags \cap TextPlaces # {} =>
                   s.fields[i].type \in {"string", "named", "number", "text", "cookie"}
              /\ s.fields[i].type = "cookie" => ~s.request /\ s.fields[i].tags = {"cookie"}
         /\ s.path \in Seq(STRING) /\ s.request \in BOOLEAN
<1>1. /\ s.fields \in Seq(StructField) /\ s.request \in BOOLEAN /\ s.path \in Seq(STRING)
      /\ \A i \in DOMAIN s.fields :
         /\ s.fields[i].tags \cap {"query", "header", "cookie", "url"} # {} =>
              s.fields[i].type \in {"string", "named", "number", "text", "cookie"}
         /\ s.fields[i].type = "cookie" => ~s.request /\ s.fields[i].tags = {"cookie"}
  BY StructsAssumption
<1>2. DOMAIN s.fields = 1 .. Len(s.fields) /\ Len(s.fields) \in Nat
      /\ \A i \in DOMAIN s.fields : s.fields[i] \in StructField
  BY <1>1
<1> QED
  BY <1>1, <1>2 DEF TextPlaces

\* An accepted struct type has one tag in a field, one status, one body, and the URL
\* keys of its path.
LEMMA Accepted ==
  ASSUME NEW s \in Structs, Accepts(s)
  PROVE  /\ \A i \in DOMAIN s.fields :
              AcceptsField(s.fields[i], s.request) /\ Cardinality(s.fields[i].tags) <= 1
         /\ \A tag \in {"use_as_status", "use_as_body"} :
              \A i, j \in Tagged(s.fields, tag) : i = j
         /\ Tagged(s.fields, "use_as_body") = {} \/ Tagged(s.fields, "json") = {}
         /\ \A k \in DOMAIN s.path : \E i \in Tagged(s.fields, "url") : s.fields[i].key = s.path[k]
<1>1. DOMAIN s.fields = 1 .. Len(s.fields) /\ Len(s.fields) \in Nat
  BY FieldFacts
<1>2. IsFiniteSet(DOMAIN s.fields)
  <2>1. 1 \in Int /\ Len(s.fields) \in Int
    BY <1>1
  <2> QED
    BY <1>1, <2>1, FS_Interval
<1>3. \A tag : Tagged(s.fields, tag) \subseteq DOMAIN s.fields /\ IsFiniteSet(Tagged(s.fields, tag))
  <2> SUFFICES ASSUME NEW tag
               PROVE Tagged(s.fields, tag) \subseteq DOMAIN s.fields /\ IsFiniteSet(Tagged(s.fields, tag))
    OBVIOUS
  <2>1. Tagged(s.fields, tag) \in SUBSET DOMAIN s.fields
    BY DEF Tagged
  <2> QED
    BY <1>2, <2>1, FS_Subset
<1>4. \A tag \in {"use_as_status", "use_as_body"} : Cardinality(Tagged(s.fields, tag)) <= 1
  BY DEF Accepts
<1>5. \A tag \in {"use_as_status", "use_as_body"} : \A i, j \in Tagged(s.fields, tag) : i = j
  BY <1>3, <1>4, AtMostOne
<1>6. ASSUME NEW k \in DOMAIN s.path
      PROVE  \E i \in Tagged(s.fields, "url") : s.fields[i].key = s.path[k]
  <2> DEFINE P == {i \in DOMAIN s.path : s.path[i] = s.path[k]}
             F == {i \in Tagged(s.fields, "url") : s.fields[i].key = s.path[k]}
  <2>1. Cardinality(P) = Cardinality(F)
    BY <1>6 DEF Accepts
  <2>2. IsFiniteSet(P) /\ P # {}
    <3>1. s.path \in Seq(STRING)
      BY FieldFacts
    <3>2. DOMAIN s.path = 1 .. Len(s.path) /\ 1 \in Int /\ Len(s.path) \in Int
      BY <3>1
    <3>3. IsFiniteSet(DOMAIN s.path)
      BY <3>2, FS_Interval
    <3>4. P \in SUBSET DOMAIN s.path
      OBVIOUS
    <3>5. k \in P
      BY <1>6
    <3> HIDE DEF P
    <3> QED
      BY <3>3, <3>4, <3>5, FS_Subset
  <2>3. F \in SUBSET Tagged(s.fields, "url")
    OBVIOUS
  <2>4. F # {}
    <3> HIDE DEF P, F
    <3> QED
      BY <1>3, <2>1, <2>2, <2>3, FS_Subset, FS_EmptySet
  <2> QED
    BY <2>4
<1>7. \A i \in DOMAIN s.fields :
        AcceptsField(s.fields[i], s.request) /\ Cardinality(s.fields[i].tags) <= 1
  BY DEF Accepts, AcceptsField
<1>8. Tagged(s.fields, "use_as_body") = {} \/ Tagged(s.fields, "json") = {}
  BY DEF Accepts
<1> QED
  BY <1>5, <1>6, <1>7, <1>8

\* Where the fields of an accepted type go.
LEMMA AcceptedPlaces ==
  ASSUME NEW s \in Structs, Accepts(s), NEW i \in DOMAIN s.fields
  PROVE  /\ s.fields[i].exported => \A tag \in s.fields[i].tags :
              PlaceOf(s.fields[i]) = tag /\ s.fields[i].tags = {tag}
         /\ PlaceOf(s.fields[i]) \in TextPlaces =>
              s.fields[i].type \in {"string", "named", "number", "text", "cookie"}
         /\ s.fields[i].type = "cookie" => PlaceOf(s.fields[i]) \in {"none", "cookie"} /\ ~s.request
         /\ PlaceOf(s.fields[i]) = "cookie" /\ ~s.request => s.fields[i].type = "cookie"
         /\ PlaceOf(s.fields[i]) = "use_as_status" => s.fields[i].type = "number" /\ ~s.request
         /\ PlaceOf(s.fields[i]) = "use_as_body" /\ s.fields[i].flags # {} =>
              s.fields[i].type \in {"proto", "reader", "bytes"}
<1> DEFINE f == s.fields[i]
<1>1. /\ f \in StructField /\ s.request \in BOOLEAN
      /\ f.tags \cap TextPlaces # {} => f.type \in {"string", "named", "number", "text", "cookie"}
      /\ f.type = "cookie" => ~s.request /\ f.tags = {"cookie"}
  BY FieldFacts
<1>2. AcceptsField(f, s.request) /\ Cardinality(f.tags) <= 1
  BY Accepted
<1> HIDE DEF f
<1>3. f.exported => \A tag \in f.tags : PlaceOf(f) = tag /\ f.tags = {tag}
  BY <1>1, <1>2, PlaceOfTag
<1>4. /\ PlaceOf(f) = "none" <=> ~f.exported
      /\ PlaceOf(f) \notin {"none", "json"} => PlaceOf(f) \in f.tags
  BY <1>1, PlaceMeans
<1>5. PlaceOf(f) \in TextPlaces => f.type \in {"string", "named", "number", "text", "cookie"}
  BY <1>1, <1>4 DEF TextPlaces
<1>6. f.type = "cookie" => PlaceOf(f) \in {"none", "cookie"} /\ ~s.request
  BY <1>1, <1>3, <1>4
<1>7. PlaceOf(f) = "cookie" /\ ~s.request => f.type = "cookie"
  BY <1>2, <1>4 DEF AcceptsField
<1>8. PlaceOf(f) = "use_as_status" => f.type = "number" /\ ~s.request
  BY <1>2, <1>4 DEF AcceptsField
<1>9. f.flags # {} => f.type \in {"proto", "reader", "bytes"}
  BY <1>1, <1>2 DEF AcceptsField, StructField, Flags
<1> QED
  BY <1>3, <1>5, <1>6, <1>7, <1>8, <1>9 DEF f

----------------------------------------------------------------------------
(* What the encoder writes *)

\* The texts set for some fields: each is that of one of them, as its place carries it.
LEMMA TextsMean ==
  ASSUME struct \in Structs, NEW S \in SUBSET Placed(fields, TextPlaces)
  PROVE  /\ DOMAIN TextsOf(S) = {At(fields[i]) : i \in S}
         /\ \A pk \in DOMAIN TextsOf(S) : \E i \in S :
              pk = At(fields[i]) /\ TextsOf(S)[pk] = Carry(PlaceOf(fields[i]), sent[i])
<1> DEFINE same(pk) == {i \in S : PlaceOf(fields[i]) = pk[1] /\ fields[i].key = pk[2]}
           kept(pk) == IF pk[1] = "cookie" /\ struct.request THEN Min(same(pk)) ELSE Max(same(pk))
           keys == {At(fields[i]) : i \in S}
<1>1. TextsOf(S) = [pk \in keys |-> Carry(pk[1], sent[kept(pk)])]
  BY DEF TextsOf, At
<1>2. S \in SUBSET (1 .. Len(fields)) /\ Len(fields) \in Nat
  BY FieldFacts DEF fields, Placed
<1>3. ASSUME NEW pk \in keys
      PROVE  \E i \in S : pk = At(fields[i]) /\ TextsOf(S)[pk] = Carry(PlaceOf(fields[i]), sent[i])
  <2>1. PICK j \in S : pk = At(fields[j])
    OBVIOUS
  <2>2. j \in same(pk) /\ same(pk) \in SUBSET (1 .. Len(fields))
    BY <1>2, <2>1 DEF At
  <2>3. kept(pk) \in same(pk)
    <3> HIDE DEF same
    <3> QED
      BY <1>2, <2>2, FirstAndLast
  <2> DEFINE i == kept(pk)
  <2>4. TextsOf(S)[pk] = Carry(pk[1], sent[i])
    <3> HIDE DEF kept, keys
    <3> QED
      BY <1>1
  <2> HIDE DEF i
  <2>5. i \in S /\ PlaceOf(fields[i]) = pk[1] /\ fields[i].key = pk[2]
    BY <2>3 DEF i
  <2>6. pk = At(fields[i])
    BY <2>1, <2>5 DEF At
  <2> QED
    BY <2>4, <2>5, <2>6
<1>4. DOMAIN TextsOf(S) = keys
  <2> HIDE DEF kept, keys
  <2> QED
    BY <1>1
<1> QED
  BY <1>3, <1>4

\* The status of an accepted response is that of its only status field, if not 0.
LEMMA StatusMeans ==
  ASSUME struct \in Structs, Accepts(struct), TypeOK
  PROVE  /\ StatusSet \in ValuesOf("number") \ {"0"}
         /\ StatusSet # "200" =>
              \E i \in DOMAIN fields : PlaceOf(fields[i]) = "use_as_status" /\ sent[i] = StatusSet
         /\ \A i \in DOMAIN fields :
              PlaceOf(fields[i]) = "use_as_status" /\ sent[i] # "0" => StatusSet = sent[i]
<1> DEFINE P == Placed(fields, {"use_as_status"})
<1>1. \A i \in P : i \in DOMAIN fields /\ PlaceOf(fields[i]) = "use_as_status"
  BY DEF Placed
<1>2. \A i \in DOMAIN fields : PlaceOf(fields[i]) = "use_as_status" => i \in P
  BY DEF Placed
<1>3. \A i, j \in P : i = j
  <2>1. \A i \in P : i \in Tagged(fields, "use_as_status")
    BY <1>1, FieldFacts, PlaceMeans DEF Tagged, fields
  <2> QED
    BY <2>1, Accepted DEF fields
<1>4. P # {} => Max(P) \in P
  <2>1. P \in SUBSET (1 .. Len(fields)) /\ Len(fields) \in Nat
    BY <1>1, FieldFacts DEF fields
  <2> HIDE DEF P
  <2> QED
    BY <2>1, FirstAndLast
<1>5. StatusSet = IF \E i \in P : sent[i] # "0" THEN sent[Max(P)] ELSE "200"
  BY DEF StatusSet
<1>6. \A i \in P : sent[i] \in ValuesOf("number")
  <2>1. \A i \in P : fields[i].type = "number"
    BY <1>1, AcceptedPlaces DEF fields
  <2> QED
    BY <1>1, <2>1 DEF TypeOK
<1>7. "200" \in ValuesOf("number") \ {"0"}
  BY DEF ValuesOf
<1> HIDE DEF P
<1>8. CASE \E i \in P : sent[i] # "0"
  <2>1. PICK i \in P : sent[i] # "0"
    BY <1>8
  <2>2. StatusSet = sent[i]
    BY <1>3, <1>4, <1>5, <2>1
  <2> QED
    BY <1>1, <1>2, <1>3, <1>6, <2>1, <2>2
<1>9. CASE ~(\E i \in P : sent[i] # "0")
  <2>1. StatusSet = "200"
    BY <1>5, <1>9
  <2> QED
    BY <1>2, <1>7, <1>9, <2>1
<1> QED
  BY <1>8, <1>9

\* What goes out in a field of the URL, the headers or the cookies is one of the texts
\* that a field of its place has, and of its type if it is an http.Cookie.
LEMMA Carried ==
  ASSUME NEW type \in Types, NEW v \in ValuesOf(type), NEW place \in TextPlaces
  PROVE  /\ Carry(place, v) \in Holds("string")
         /\ type = "cookie" => Carry(place, v) \in ValuesOf("cookie")
<1>1. v \in Holds("string")
  BY DEF Holds
<1>2. "word" \in Holds("string") /\ "cut" \in Holds("string")
  <2>1. "word" \in ValuesOf("string") /\ "cut" \in ValuesOf("string") /\ "string" \in Types
    BY DEF ValuesOf, Texts, Types
  <2> QED
    BY <2>1 DEF Holds
<1>3. Carry(place, v) \in {v, "word", "cut"}
  BY DEF Carry
<1>4. {"word", "cut"} \subseteq ValuesOf("cookie")
  BY DEF ValuesOf
<1> QED
  BY <1>1, <1>2, <1>3, <1>4

\* An encoder that fails does so for a value, or for a URL key of an unexported field.
LEMMA EncoderFailsForValues ==
  ASSUME struct \in Structs, Accepts(struct), TypeOK, TextFails \/ BodyFails
  PROVE  \/ \E i \in DOMAIN fields : fields[i].exported /\ sent[i] \in {"bad", "other", "204"}
         \/ \E i \in Tagged(fields, "url") : ~fields[i].exported
<1>1. \A i \in DOMAIN fields : PlaceOf(fields[i]) # "none" => fields[i].exported
  BY FieldFacts, PlaceMeans DEF fields
<1>2. CASE FailingTexts # {}
  <2>1. PICK i \in DOMAIN fields :
          PlaceOf(fields[i]) \in TextPlaces /\ ToStringFails(fields[i].type, sent[i])
    BY <1>2 DEF FailingTexts, Placed
  <2> QED
    BY <1>1, <2>1 DEF ToStringFails, TextPlaces
<1>3. CASE BuildUrlFails
  <2>1. PICK k \in DOMAIN struct.path :
          \A i \in Placed(fields, {"url"}) : fields[i].key # struct.path[k]
    BY <1>3 DEF BuildUrlFails
  <2>2. PICK i \in Tagged(fields, "url") : fields[i].key = struct.path[k]
    BY Accepted DEF fields
  <2>3. i \in DOMAIN fields /\ "url" \in fields[i].tags /\ PlaceOf(fields[i]) # "url"
    BY <2>1, <2>2 DEF Tagged, Placed
  <2>4. ~fields[i].exported
    BY <2>3, AcceptedPlaces DEF fields
  <2> QED
    BY <2>2, <2>4
<1>4. CASE \E i \in BodyFields(fields) : fields[i].flags = {} /\ sent[i] = "bad"
  <2>1. PICK i \in BodyFields(fields) : sent[i] = "bad"
    BY <1>4
  <2>2. i \in DOMAIN fields /\ PlaceOf(fields[i]) # "none"
    BY <2>1 DEF BodyFields, Placed
  <2> QED
    BY <1>1, <2>1, <2>2
<1>5. CASE StatusSet = "204"
  BY <1>1, <1>5, StatusMeans
<1> QED
  BY <1>2, <1>3, <1>4, <1>5 DEF TextFails, BodyFails

----------------------------------------------------------------------------
(* What the decoder reads *)

\* What Get finds of an encoded field, and that it finds no foreign text in a cookie.
LEMMA GetMeans ==
  ASSUME IInv, NEW i \in DOMAIN fields, PlaceOf(fields[i]) \in TextPlaces
  PROVE  /\ Get(fields[i]) \in Holds("string")
         /\ At(fields[i]) \in DOMAIN msg.texts /\ fields[i].type = "cookie" /\ Accepts(struct) =>
              Get(fields[i]) \in ValuesOf("cookie")
         /\ encoded /\ DistinctKeys =>
              /\ At(fields[i]) \in DOMAIN msg.texts
              /\ Get(fields[i]) = Carry(PlaceOf(fields[i]), sent[i])
<1>1. \A j \in DOMAIN fields :
        fields[j] \in StructField /\ fields[j].type \in Types /\ sent[j] \in ValuesOf(fields[j].type)
  BY FieldFacts DEF IInv, TypeOK, fields, StructField
<1>2. ASSUME At(fields[i]) \in DOMAIN msg.texts
      PROVE  \E j \in DOMAIN fields :
               /\ PlaceOf(fields[j]) \in TextPlaces /\ At(fields[i]) = At(fields[j])
               /\ Get(fields[i]) = Carry(PlaceOf(fields[j]), sent[j])
  BY <1>2 DEF Get, At, IInv, MessageInv
<1>3. Get(fields[i]) \in Holds("string")
  <2>1. CASE At(fields[i]) \in DOMAIN msg.texts
    BY <1>1, <1>2, <2>1, Carried
  <2>2. CASE At(fields[i]) \notin DOMAIN msg.texts
    <3>1. Get(fields[i]) = ""
      BY <2>2 DEF Get, At
    <3>2. "" \in ValuesOf("string") /\ "string" \in Types
      BY DEF ValuesOf, Texts, Types
    <3> QED
      BY <3>1, <3>2 DEF Holds
  <2> QED
    BY <2>1, <2>2
<1>4. ASSUME At(fields[i]) \in DOMAIN msg.texts, fields[i].type = "cookie", Accepts(struct)
      PROVE  Get(fields[i]) \in ValuesOf("cookie")
  <2>1. PICK j \in DOMAIN fields :
               /\ PlaceOf(fields[j]) \in TextPlaces /\ At(fields[i]) = At(fields[j])
               /\ Get(fields[i]) = Carry(PlaceOf(fields[j]), sent[j])
    BY <1>2, <1>4
  <2>2. PlaceOf(fields[j]) = PlaceOf(fields[i])
    BY <2>1 DEF At
  <2>3. struct \in Structs /\ PlaceOf(fields[i]) = "cookie" /\ ~struct.request
    BY <1>4, AcceptedPlaces DEF IInv, fields, TextPlaces
  <2>4. fields[j].type = "cookie"
    BY <1>4, <2>2, <2>3, AcceptedPlaces DEF fields
  <2> QED
    BY <1>1, <2>1, <2>4, Carried
<1>5. ASSUME encoded, DistinctKeys
      PROVE  /\ At(fields[i]) \in DOMAIN msg.texts
             /\ Get(fields[i]) = Carry(PlaceOf(fields[i]), sent[i])
  <2>1. At(fields[i]) \in DOMAIN msg.texts
    BY <1>5 DEF IInv, EncodedInv
  <2>2. PICK j \in DOMAIN fields :
               /\ PlaceOf(fields[j]) \in TextPlaces /\ At(fields[i]) = At(fields[j])
               /\ Get(fields[i]) = Carry(PlaceOf(fields[j]), sent[j])
    BY <1>2, <2>1
  <2>3. PlaceOf(fields[j]) = PlaceOf(fields[i]) /\ fields[j].key = fields[i].key
    BY <2>2 DEF At
  <2>4. i = j
    BY <1>5, <2>2, <2>3 DEF DistinctKeys, Placed
  <2> QED
    BY <2>1, <2>2, <2>4
<1> QED
  BY <1>3, <1>4, <1>5

\* A text that its place and its type can carry is read as it was sent.
LEMMA CarriedIsRead ==
  ASSUME NEW f \in StructField, PlaceOf(f) \in TextPlaces, PlaceOf(f) \in f.tags,
         f.type \in {"string", "named", "number", "text", "cookie"},
         NEW v \in ValuesOf(f.type), Carries(f, v), NEW before
  PROVE  fromString(f.type, Carry(PlaceOf(f), v), before) = v
<1>1. Carry(PlaceOf(f), v) = v
  BY DEF Carries, Carry
<1>2. f.type = "named" => v \notin {"", "words", "padded"}
  BY DEF Carries
<1>3. f.type = "number" => v # ""
  BY DEF ValuesOf
<1> QED
  BY <1>1, <1>2, <1>3 DEF fromString, FirstWord

\* Reading leaves in a field what its type can hold.
LEMMA ReadTyped ==
  ASSUME IInv, stage = "written", ~ReadFails, NEW i \in DOMAIN fields
  PROVE  ReadField(i) \in Holds(fields[i].type)
<1> DEFINE f == fields[i]
<1>1. /\ struct \in Structs /\ Accepts(struct)
      /\ old[i] \in ValuesOf(f.type) /\ sent[i] \in ValuesOf(f.type)
      /\ msg.status \in ValuesOf("number")
      /\ f \in StructField /\ f.type \in Types
  BY FieldFacts DEF IInv, TypeOK, fields, StructField
<1>2. ValuesOf(f.type) \subseteq Holds(f.type)
  BY <1>1 DEF Holds
<1>3. CASE IsKept(i)
  BY <1>1, <1>2, <1>3 DEF ReadField
<1>4. CASE ~IsKept(i) /\ PlaceOf(f) \in TextPlaces
  <2>1. ReadField(i) = fromString(f.type, Get(f), old[i])
    BY <1>4 DEF ReadField
  <2>2. f.type \in {"string", "named", "number", "text", "cookie"}
    BY <1>1, <1>4, AcceptedPlaces DEF fields
  <2>3. Get(f) \in Holds("string")
    BY <1>4, GetMeans
  <2>4. ~FromStringFails(f.type, Get(f))
    BY <1>4 DEF ReadFails, Placed
  <2>5. f.type = "cookie" => Get(f) \in ValuesOf("cookie")
    <3> SUFFICES ASSUME f.type = "cookie" PROVE Get(f) \in ValuesOf("cookie")
      OBVIOUS
    <3>1. PlaceOf(f) = "cookie" /\ ~struct.request
      BY <1>1, <1>4, AcceptedPlaces DEF fields, TextPlaces
    <3>2. At(f) \in DOMAIN msg.texts
      BY <1>4, <3>1 DEF IsKept, At
    <3> QED
      BY <1>1, <1>4, <3>2, GetMeans
  <2> SUFFICES ReadField(i) \in Holds(f.type)
    OBVIOUS
  <2> HIDE DEF f
  <2>6. CASE f.type = "string"
    BY <2>1, <2>3, <2>6 DEF fromString
  <2>7. CASE f.type = "named"
    <3>1. Holds("named") = Holds("string")
      BY DEF Holds
    <3>2. "word" \in Holds("string")
      <4>1. "word" \in ValuesOf("string") /\ "string" \in Types
        BY DEF ValuesOf, Texts, Types
      <4> QED
        BY <4>1 DEF Holds
    <3> QED
      BY <1>1, <1>2, <2>1, <2>3, <2>7, <3>1, <3>2 DEF fromString, FirstWord
  <2>8. CASE f.type = "number"
    BY <1>1, <1>2, <2>1, <2>4, <2>8 DEF fromString, FromStringFails
  <2>9. CASE f.type = "text"
    <3>1. Get(f) \in ValuesOf("text")
      BY <2>4, <2>9 DEF FromStringFails, ValuesOf
    <3> QED
      BY <1>2, <2>1, <2>9, <3>1 DEF fromString
  <2>10. CASE f.type = "cookie"
    BY <1>2, <2>1, <2>5, <2>10 DEF fromString
  <2> QED
    BY <2>2, <2>6, <2>7, <2>8, <2>9, <2>10
<1>5. CASE ~IsKept(i) /\ PlaceOf(f) = "use_as_status"
  <2>1. ReadField(i) = msg.status
    BY <1>5 DEF ReadField, TextPlaces
  <2>2. f.type = "number"
    BY <1>1, <1>5, AcceptedPlaces DEF fields
  <2> QED
    BY <1>1, <1>2, <2>1, <2>2
<1>6. CASE ~IsKept(i) /\ PlaceOf(f) \notin TextPlaces \cup {"use_as_status"}
  <2>1. ReadField(i) = IF msg.hasBody THEN msg.body[i] ELSE Zero(f.type)
    BY <1>6 DEF ReadField
  <2>2. Zero(f.type) \in ValuesOf(f.type)
    BY DEF Zero, ValuesOf, Texts
  <2>3. i \in BodyFields(fields)
    BY <1>1, <1>6, PlaceMeans DEF IsKept, BodyFields, HasBodyField, Placed
  <2>4. msg.hasBody => msg.body[i] = sent[i]
    BY <2>3 DEF IInv, MessageInv
  <2> QED
    BY <1>1, <1>2, <2>1, <2>2, <2>4
<1> QED
  BY <1>3, <1>4, <1>5, <1>6

\* Reading an object that was encoded gives back what was sent, as far as the places and
\* types carry it.
LEMMA ReadFaithful ==
  ASSUME IInv, stage = "written", encoded, DistinctKeys,
         NEW i \in DOMAIN fields, fields[i].exported, Carries(fields[i], sent[i]),
         fields[i].tags # {} \/ Tagged(fields, "use_as_body") = {}
  PROVE  ReadField(i) = sent[i]
<1> DEFINE f == fields[i]
<1>1. /\ struct \in Structs /\ Accepts(struct)
      /\ sent[i] \in ValuesOf(f.type) /\ f \in StructField
  BY FieldFacts DEF IInv, TypeOK, fields
<1>2. /\ PlaceOf(f) \in {"json"} \cup TextPlaces \cup {"use_as_body", "use_as_status"}
      /\ PlaceOf(f) # "json" => PlaceOf(f) \in f.tags
      /\ PlaceOf(f) = "json" => f.tags \subseteq {"json"}
  BY <1>1, PlaceMeans
<1>3. CASE PlaceOf(f) \in TextPlaces
  <2>1. At(f) \in DOMAIN msg.texts /\ Get(f) = Carry(PlaceOf(f), sent[i])
    BY <1>3, GetMeans
  <2>2. ~IsKept(i)
    BY <1>3, <2>1 DEF IsKept, At, TextPlaces
  <2>3. ReadField(i) = fromString(f.type, Carry(PlaceOf(f), sent[i]), old[i])
    BY <1>3, <2>1, <2>2 DEF ReadField
  <2>4. f.type \in {"string", "named", "number", "text", "cookie"}
    BY <1>1, <1>3, AcceptedPlaces DEF fields
  <2>5. PlaceOf(f) \in f.tags
    BY <1>2, <1>3 DEF TextPlaces
  <2> QED
    BY <1>1, <1>3, <2>3, <2>4, <2>5, CarriedIsRead
<1>4. CASE PlaceOf(f) = "use_as_status"
  <2>1. ReadField(i) = msg.status
    BY <1>4 DEF ReadField, IsKept, TextPlaces
  <2>2. sent[i] \notin {"0", "102"}
    BY <1>2, <1>4 DEF Carries
  <2> QED
    BY <1>4, <2>1, <2>2 DEF IInv, EncodedInv
<1>5. CASE PlaceOf(f) = "json"
  <2>1. Tagged(fields, "use_as_body") = {}
    <3>1. CASE f.tags = {"json"}
      <4>1. i \in Tagged(fields, "json")
        BY <3>1 DEF Tagged
      <4> QED
        BY <1>1, <4>1, Accepted DEF fields
    <3> QED
      BY <1>2, <1>5, <3>1
  <2>2. ~HasBodyField(fields)
    <3> SUFFICES ASSUME NEW j \in DOMAIN fields, PlaceOf(fields[j]) = "use_as_body" PROVE FALSE
      BY DEF HasBodyField, Placed
    <3>1. "use_as_body" \in fields[j].tags
      BY <1>1, FieldFacts, PlaceMeans DEF fields
    <3> QED
      BY <2>1, <3>1 DEF Tagged
  <2>3. i \in BodyFields(fields) /\ msg.hasBody
    BY <1>5, <2>2 DEF BodyFields, Placed, IInv, EncodedInv
  <2>4. msg.body[i] = sent[i]
    BY <2>3 DEF IInv, MessageInv
  <2> QED
    BY <1>5, <2>2, <2>3, <2>4 DEF ReadField, IsKept, TextPlaces
<1>6. CASE PlaceOf(f) = "use_as_body"
  <2>1. i \in BodyFields(fields) /\ ~IsKept(i)
    BY <1>6 DEF BodyFields, HasBodyField, Placed, IsKept
  <2>2. ReadField(i) = IF msg.hasBody THEN msg.body[i] ELSE Zero(f.type)
    BY <1>6, <2>1 DEF ReadField, TextPlaces
  <2>3. CASE msg.hasBody
    BY <2>1, <2>2, <2>3 DEF IInv, MessageInv
  <2>4. CASE ~msg.hasBody
    <3>1. f.flags # {} /\ sent[i] = ""
      BY <2>1, <2>4 DEF IInv, EncodedInv
    <3>2. f.type # "number"
      BY <1>1, <1>6, <3>1, AcceptedPlaces DEF fields
    <3> QED
      BY <2>2, <2>4, <3>1, <3>2 DEF Zero
  <2> QED
    BY <2>3, <2>4
<1> QED
  BY <1>2, <1>3, <1>4, <1>5, <1>6

\* What was encoded can be read, if no two fields share a place and a key.
LEMMA Legible ==
  ASSUME IInv, stage = "written", encoded, DistinctKeys
  PROVE  ~ReadFails
<1>1. ~(JsonBody(fields) /\ ~msg.hasBody)
  BY DEF IInv, EncodedInv, JsonBody, HasBodyField, BodyFields
<1>2. ASSUME NEW i \in Placed(fields, TextPlaces)
      PROVE  ~FromStringFails(fields[i].type, Get(fields[i]))
  <2>1. i \in DOMAIN fields /\ PlaceOf(fields[i]) \in TextPlaces
    BY <1>2 DEF Placed
  <2>2. Get(fields[i]) = Carry(PlaceOf(fields[i]), sent[i])
    BY <2>1, GetMeans
  <2>3. sent[i] \in ValuesOf(fields[i].type) /\ ~ToStringFails(fields[i].type, sent[i])
    BY <2>1 DEF IInv, TypeOK, EncodedInv
  <2>4. CASE fields[i].type = "text"
    BY <2>2, <2>3, <2>4 DEF FromStringFails, ToStringFails, ValuesOf, Carry
  <2>5. CASE fields[i].type = "number"
    BY <2>2, <2>3, <2>5 DEF FromStringFails, ValuesOf, Carry
  <2> QED
    BY <2>4, <2>5 DEF FromStringFails
<1> QED
  BY <1>1, <1>2 DEF ReadFails

----------------------------------------------------------------------------
(* The invariant is inductive *)

\* An object that has not begun to travel satisfies the invariant.
LEMMA InitInv == Init => IInv
<1> SUFFICES ASSUME Init PROVE IInv
  OBVIOUS
<1>1. \A t : Zero(t) \in ValuesOf(t) /\ (t \in Types => ValuesOf(t) \subseteq Holds(t))
  BY DEF Zero, ValuesOf, Texts, Holds
<1>2. \A i \in DOMAIN fields : fields[i].type \in Types
  BY FieldFacts DEF Init, fields, StructField
<1>3. /\ DOMAIN Zeros(fields) = DOMAIN fields
      /\ \A i \in DOMAIN fields : Zeros(fields)[i] = Zero(fields[i].type)
  BY DEF Zeros
<1>4. DOMAIN msg.texts = {} /\ msg.status = "200" /\ msg.hasBody = FALSE /\ msg = NoMessage
  BY DEF Init, NoMessage, NoTexts
<1>5. "200" \in ValuesOf("number") \ {"0", "7", "102"}
  BY DEF ValuesOf
<1>6. TypeOK
  BY <1>1, <1>2, <1>3, <1>4, <1>5 DEF Init, TypeOK
<1>7. MessageInv
  BY <1>4 DEF MessageInv
<1> QED
  BY <1>6, <1>7 DEF Init, IInv, EncodedInv, FieldsArrive, WrittenIsReadable, FailsForValues

\* Validation keeps the invariant: what it lets through it accepts.
LEMMA ValidateInv ==
  ASSUME IInv, Validate
  PROVE  IInv'
<1>1. TypeOK'
  BY DEF IInv, TypeOK, Validate, fields
<1>2. MessageInv' /\ EncodedInv'
  BY DEF IInv, MessageInv, EncodedInv, Validate, fields
<1>3. FieldsArrive' /\ WrittenIsReadable' /\ FailsForValues'
  BY DEF FieldsArrive, WrittenIsReadable, FailsForValues, Validate, IInv, EncodedInv
<1>4. struct' \in Structs /\ (stage' \notin {"new", "rejected"} => Accepts(struct)')
  BY DEF IInv, Validate
<1> QED
  BY <1>1, <1>2, <1>3, <1>4 DEF IInv

\* So does choosing the values that travel and the object that is read into.
LEMMA SendInv ==
  ASSUME IInv, Send
  PROVE  IInv'
<1>1. \A i \in DOMAIN fields :
        {Zeros(fields)[i], Stales(fields)[i]} \subseteq ValuesOf(fields[i].type)
  <2>1. \A t \in Types : Zero(t) \in ValuesOf(t) /\ Stale(t) \in ValuesOf(t)
    BY DEF Zero, Stale, ValuesOf, Texts, Types
  <2>2. \A i \in DOMAIN fields : fields[i].type \in Types
    BY FieldFacts DEF IInv, fields, StructField
  <2> QED
    BY <2>1, <2>2 DEF Zeros, Stales
<1>2. DOMAIN sent' = DOMAIN fields /\ \A i \in DOMAIN fields : sent'[i] \in ValuesOf(fields[i].type)
  BY DEF Send, Objects
<1>3. DOMAIN old' = DOMAIN fields /\ \A i \in DOMAIN fields : old'[i] \in ValuesOf(fields[i].type)
  BY <1>1 DEF Send, Zeros, Stales
<1>4. TypeOK'
  BY <1>2, <1>3 DEF IInv, TypeOK, Send, fields
<1>5. ~encoded /\ msg = NoMessage
  BY DEF IInv, EncodedInv, MessageInv, Send
<1>6. MessageInv' /\ EncodedInv'
  BY <1>5 DEF MessageInv, EncodedInv, NoMessage, NoTexts, Send
<1>7. FieldsArrive' /\ WrittenIsReadable' /\ FailsForValues'
  BY <1>5 DEF FieldsArrive, WrittenIsReadable, FailsForValues, Send
<1>8. struct' \in Structs /\ (stage' \notin {"new", "rejected"} => Accepts(struct)')
  BY DEF IInv, Send
<1> QED
  BY <1>4, <1>6, <1>7, <1>8 DEF IInv

\* The message of either kind of write, and its status.
LEMMA Written ==
  ASSUME IInv, stage = "sending", NEW S \in SUBSET Placed(fields, TextPlaces),
         NEW status, NEW hasBody \in BOOLEAN, msg' = Message(TextsOf(S), status, hasBody),
         UNCHANGED <<struct, sent>>, stage' \in {"written", "misrouted"}
  PROVE  /\ MessageInv'
         /\ DOMAIN msg'.texts = {At(fields[i]) : i \in S}
         /\ msg'.status = status /\ msg'.hasBody = hasBody
<1>1. /\ msg'.texts = TextsOf(S) /\ msg'.status = status /\ msg'.hasBody = hasBody
      /\ \A i \in BodyFields(fields) : msg'.body[i] = sent[i]
  BY DEF Message
<1>2. /\ DOMAIN TextsOf(S) = {At(fields[i]) : i \in S}
      /\ \A pk \in DOMAIN TextsOf(S) : \E i \in S :
              pk = At(fields[i]) /\ TextsOf(S)[pk] = Carry(PlaceOf(fields[i]), sent[i])
  BY TextsMean DEF IInv
<1>3. \A i \in S : i \in DOMAIN fields /\ PlaceOf(fields[i]) \in TextPlaces
  BY DEF Placed
<1>4. \A pk \in DOMAIN msg'.texts : \E i \in DOMAIN fields :
       /\ PlaceOf(fields[i]) \in TextPlaces /\ pk = At(fields[i])
       /\ msg'.texts[pk] = Carry(PlaceOf(fields[i]), sent[i])
  BY <1>1, <1>2, <1>3
<1>5. fields' = fields
  BY DEF fields
<1>6. MessageInv'
  BY <1>1, <1>4, <1>5 DEF MessageInv
<1> QED
  BY <1>1, <1>2, <1>6

\* So does an encoder without an error: it set the text of every field.
LEMMA WriteInv ==
  ASSUME IInv, Write
  PROVE  IInv'
<1> DEFINE status == FinalStatus(StatusSet)
           hasBody == ~BodyIsEmpty
<1>1. /\ struct \in Structs /\ Accepts(struct) /\ stage = "sending" /\ TypeOK
      /\ UNCHANGED <<struct, sent, old, received>> /\ fields' = fields
      /\ encoded' = TRUE /\ stage' \in {"written", "misrouted"}
      /\ msg' = Message(TextsOf(SetTexts), status, hasBody)
  BY DEF IInv, Write, fields
<1>2. SetTexts = Placed(fields, TextPlaces) /\ FailingTexts = {}
  BY DEF Write, TextFails, SetTexts
<1>3. hasBody \in BOOLEAN
  BY DEF BodyIsEmpty
<1>4. /\ MessageInv'
      /\ DOMAIN msg'.texts = {At(fields[i]) : i \in Placed(fields, TextPlaces)}
      /\ msg'.status = status /\ msg'.hasBody = hasBody
  <2> HIDE DEF status, hasBody
  <2> QED
    BY <1>1, <1>2, <1>3, Written
<1>5. /\ status \in ValuesOf("number") \ {"0", "7", "102"}
      /\ \A i \in DOMAIN fields : PlaceOf(fields[i]) = "use_as_status" /\ sent[i] \notin {"0", "102"} =>
           status = sent[i]
  <2>1. StatusSet \in ValuesOf("number") \ {"0", "7"}
    BY <1>1, StatusMeans DEF Write, StatusPanics
  <2>2. "200" \in ValuesOf("number")
    BY DEF ValuesOf
  <2> QED
    BY <1>1, <2>1, <2>2, StatusMeans DEF FinalStatus
<1>6. TypeOK'
  BY <1>1, <1>4, <1>5 DEF TypeOK
<1>7. \A i \in DOMAIN fields : PlaceOf(fields[i]) \in TextPlaces =>
        ~ToStringFails(fields[i].type, sent[i]) /\ At(fields[i]) \in DOMAIN msg'.texts
  BY <1>2, <1>4 DEF FailingTexts, Placed
<1>8. ~msg'.hasBody =>
         HasBodyField(fields) /\ \A i \in BodyFields(fields) : fields[i].flags # {} /\ sent[i] = ""
  BY <1>4 DEF BodyIsEmpty
<1>9. EncodedInv'
  <2> HIDE DEF status, hasBody
  <2> QED
    BY <1>1, <1>4, <1>5, <1>7, <1>8 DEF EncodedInv
<1>10. FailsForValues'
  <2>1. stage' = "misrouted" => \E i \in Tagged(fields, "url") : sent[i] = ""
    <3> SUFFICES ASSUME Misrouted PROVE \E i \in Tagged(fields, "url") : sent[i] = ""
      BY DEF Write
    <3>1. PICK i \in DOMAIN fields : PlaceOf(fields[i]) = "url" /\ sent[i] = ""
      BY DEF Misrouted, Placed
    <3>2. "url" \in fields[i].tags
      BY <1>1, <3>1, FieldFacts, PlaceMeans DEF fields
    <3> QED
      BY <3>1, <3>2 DEF Tagged
  <2> HIDE DEF status, hasBody
  <2> QED
    BY <1>1, <2>1 DEF FailsForValues
<1> HIDE DEF status, hasBody
<1>11. FieldsArrive' /\ WrittenIsReadable'
  BY <1>1 DEF FieldsArrive, WrittenIsReadable
<1> QED
  BY <1>1, <1>4, <1>6, <1>9, <1>10, <1>11 DEF IInv

\* So does an encoder with an error, of a request or of a response, part of which may go out.
LEMMA WriteFailsInv ==
  ASSUME IInv, WriteFails
  PROVE  IInv'
<1> DEFINE status == IF TextFails THEN "200" ELSE FinalStatus(StatusSet)
<1>1. /\ struct \in Structs /\ Accepts(struct) /\ stage = "sending" /\ TypeOK /\ MessageInv
      /\ UNCHANGED <<struct, sent, old, encoded, received>> /\ fields' = fields
      /\ ~encoded
      /\ \/ stage' = "failed" /\ msg' = msg
         \/ stage' = "written" /\ msg' = Message(TextsOf(SetTexts), status, FALSE)
  BY DEF IInv, EncodedInv, WriteFails, fields
<1>2. status \in ValuesOf("number") \ {"0", "7", "102"}
  <2>1. "200" \in ValuesOf("number")
    BY DEF ValuesOf
  <2>2. ~TextFails => StatusSet \in ValuesOf("number") \ {"0", "7"}
    BY <1>1, StatusMeans DEF WriteFails, StatusPanics
  <2> QED
    BY <2>1, <2>2 DEF FinalStatus
<1> HIDE DEF status
<1>3. MessageInv' /\ msg'.status \in ValuesOf("number") \ {"0", "7", "102"}
  <2>1. CASE stage' = "failed" /\ msg' = msg
    BY <1>1, <2>1 DEF MessageInv, TypeOK
  <2>2. CASE stage' = "written" /\ msg' = Message(TextsOf(SetTexts), status, FALSE)
    <3>1. SetTexts \in SUBSET Placed(fields, TextPlaces)
      BY DEF SetTexts
    <3> QED
      BY <1>1, <1>2, <2>2, <3>1, Written
  <2> QED
    BY <1>1, <2>1, <2>2
<1>4. TypeOK'
  BY <1>1, <1>3 DEF TypeOK
<1>5. FailsForValues'
  <2>1. TextFails \/ BodyFails
    BY DEF WriteFails
  <2>2. \/ \E i \in DOMAIN fields : fields[i].exported /\ sent[i] \in {"bad", "other", "204"}
        \/ \E i \in Tagged(fields, "url") : ~fields[i].exported
    BY <1>1, <2>1, EncoderFailsForValues
  <2> QED
    BY <1>1, <2>2 DEF FailsForValues
<1>6. EncodedInv' /\ FieldsArrive' /\ WrittenIsReadable'
  BY <1>1 DEF EncodedInv, FieldsArrive, WrittenIsReadable
<1> QED
  BY <1>1, <1>3, <1>4, <1>5, <1>6 DEF IInv

\* So does a status that net/http panics at: the application chose it.
LEMMA WritePanicsInv ==
  ASSUME IInv, WritePanics
  PROVE  IInv'
<1>1. /\ struct \in Structs /\ Accepts(struct) /\ TypeOK /\ MessageInv /\ msg = NoMessage
      /\ UNCHANGED <<struct, sent, old, msg, encoded, received>> /\ fields' = fields
      /\ ~encoded /\ stage' = "broken"
  BY DEF IInv, EncodedInv, MessageInv, WritePanics, fields
<1>2. \E i \in Tagged(fields, "use_as_status") : sent[i] = "7"
  <2>1. StatusSet = "7"
    BY <1>1, StatusMeans DEF WritePanics, StatusPanics
  <2>2. PICK i \in DOMAIN fields : PlaceOf(fields[i]) = "use_as_status" /\ sent[i] = "7"
    BY <1>1, <2>1, StatusMeans
  <2>3. "use_as_status" \in fields[i].tags
    BY <1>1, <2>2, FieldFacts, PlaceMeans DEF fields
  <2> QED
    BY <2>2, <2>3 DEF Tagged
<1>3. TypeOK' /\ MessageInv'
  BY <1>1 DEF TypeOK, MessageInv
<1>4. FailsForValues'
  BY <1>1, <1>2 DEF FailsForValues
<1>5. EncodedInv' /\ FieldsArrive' /\ WrittenIsReadable'
  BY <1>1 DEF EncodedInv, FieldsArrive, WrittenIsReadable
<1> QED
  BY <1>1, <1>3, <1>4, <1>5 DEF IInv

\* So does a decoder without an error.
LEMMA ReadInv ==
  ASSUME IInv, Read
  PROVE  IInv'
<1>1. /\ struct \in Structs /\ Accepts(struct) /\ TypeOK /\ MessageInv /\ EncodedInv
      /\ UNCHANGED <<struct, sent, old, msg, encoded>> /\ fields' = fields
      /\ stage = "written" /\ ~ReadFails /\ stage' = "read"
  BY DEF IInv, Read, fields
<1>2. DOMAIN received' = DOMAIN fields /\ \A i \in DOMAIN fields : received'[i] = ReadField(i)
  BY DEF Read
<1>3. \A i \in DOMAIN fields : received'[i] \in Holds(fields[i].type)
  BY <1>1, <1>2, ReadTyped
<1>4. TypeOK'
  BY <1>1, <1>2, <1>3 DEF TypeOK
<1>5. MessageInv' /\ EncodedInv'
  BY <1>1 DEF MessageInv, EncodedInv
<1>6. FieldsArrive'
  <2> SUFFICES ASSUME encoded, DistinctKeys, NEW i \in DOMAIN fields,
                      fields[i].exported, Carries(fields[i], sent[i]),
                      fields[i].tags # {} \/ Tagged(fields, "use_as_body") = {}
               PROVE  received'[i] = sent[i]
    BY <1>1 DEF FieldsArrive, DistinctKeys
  <2> QED
    BY <1>1, <1>2, ReadFaithful
<1>7. WrittenIsReadable' /\ FailsForValues'
  BY <1>1 DEF IInv, WrittenIsReadable, FailsForValues
<1> QED
  BY <1>1, <1>4, <1>5, <1>6, <1>7 DEF IInv

\* So does a decoder with an error: it was not given what an encoder finished.
LEMMA UnreadableInv ==
  ASSUME IInv, Unreadable
  PROVE  IInv'
<1>1. /\ struct \in Structs /\ Accepts(struct) /\ TypeOK /\ MessageInv /\ EncodedInv
      /\ UNCHANGED <<struct, sent, old, msg, encoded, received>> /\ fields' = fields
      /\ stage = "written" /\ ReadFails /\ stage' = "unreadable"
  BY DEF IInv, Unreadable, fields
<1>2. TypeOK' /\ MessageInv' /\ EncodedInv'
  BY <1>1 DEF TypeOK, MessageInv, EncodedInv
<1>3. WrittenIsReadable'
  BY <1>1, Legible DEF WrittenIsReadable, DistinctKeys
<1>4. FieldsArrive' /\ FailsForValues'
  BY <1>1 DEF IInv, FieldsArrive, FailsForValues
<1> QED
  BY <1>1, <1>2, <1>3, <1>4 DEF IInv

\* So does a step that changes nothing.
LEMMA StutterInv == IInv /\ UNCHANGED vars => IInv'
<1> SUFFICES ASSUME IInv, UNCHANGED vars PROVE IInv'
  OBVIOUS
<1>1. UNCHANGED <<struct, stage, sent, old, msg, encoded, received>> /\ fields' = fields
  BY DEF vars, fields
<1>2. TypeOK' /\ MessageInv' /\ EncodedInv'
  BY <1>1 DEF IInv, TypeOK, MessageInv, EncodedInv
<1>3. FieldsArrive' /\ WrittenIsReadable' /\ FailsForValues'
  BY <1>1 DEF IInv, FieldsArrive, WrittenIsReadable, FailsForValues, DistinctKeys
<1> QED
  BY <1>1, <1>2, <1>3 DEF IInv

----------------------------------------------------------------------------
(* The properties *)

\* IInv is inductive.
THEOREM Invariance == Spec => []IInv
<1>1. IInv /\ [Next]_vars => IInv'
  BY StutterInv, ValidateInv, SendInv, WriteInv, WriteFailsInv, WritePanicsInv, ReadInv,
     UnreadableInv DEF Next
<1> QED
  BY <1>1, InitInv, PTL DEF Spec

\* An object's fields keep their types all the way.
THEOREM TypeCorrect == Spec => []TypeOK
  BY Invariance, PTL DEF IInv

\* Every exported field of an accepted type arrives with its value, whatever the object
\* that is read into had: the encoder and the decoder, which walk the fields apart, agree.
THEOREM AllFieldsArrive == Spec => []FieldsArrive
  BY Invariance, PTL DEF IInv

\* What the encoder wrote without an error the decoder reads without one.
THEOREM Readable == Spec => []WrittenIsReadable
  BY Invariance, PTL DEF IInv

\* An object of an accepted type fails to travel only for the application's own values.
THEOREM FailureIsTheValues == Spec => []FailsForValues
  BY Invariance, PTL DEF IInv
=============================================================================
