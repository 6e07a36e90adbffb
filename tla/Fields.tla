-------------------------------- MODULE Fields --------------------------------
(***************************************************************************)
(* Where the fields of a request or a response travel: which struct types  *)
(* api.go accepts (validateRequestResponse), where json_transport.go puts  *)
(* their fields (prepare), and one object on its way from one side to the  *)
(* other (writeQueryHeaderCookie, net/http, readQueryHeaderCookie).        *)
(*                                                                         *)
(* A value is named by its text.  Texts stand for what the conversions on  *)
(* the way tell apart: "word"; "words", with a space inside; "padded", a   *)
(* word between spaces; "semi", with a byte that cookies may not have, and *)
(* "cut", what is left of it without.  Of an http.Cookie the value is kept *)
(* and whether it has the name of another key ("other").                   *)
(***************************************************************************)
EXTENDS Naturals, Sequences, FiniteSets, FiniteSetsExt

CONSTANTS
  Structs   \* struct types: [fields, request, path], see below

(***************************************************************************)
(* fields: a sequence of [tags, flags, key, type, exported]: the tags that *)
(* place a field, the is_... tags, the key in a placing tag, the Go type.  *)
(* The key of a header is the name that net/http makes of the tag, which   *)
(* does not tell letter case: "x-id" and "X-Id" are one key.               *)
(* request: the type is that of a request; path: the URL keys in the path  *)
(* of its route, in order.                                                 *)
(***************************************************************************)
Tags == {"json", "query", "header", "cookie", "url", "use_as_body", "use_as_status"}
Flags == {"is_protobuf", "is_stream", "is_raw"}
Types == {"string", "named", "number", "text", "cookie", "bytes", "proto", "reader"}

\* A TextMarshaler refuses "bad".  "7" is no HTTP status, "102" is informational.
Texts == {"", "word", "words", "padded", "semi", "cut"}
ValuesOf(type) ==
  IF type \in {"string", "named"} THEN Texts
  ELSE IF type = "number" THEN {"0", "7", "102", "200", "204", "404"}
  ELSE IF type = "text" THEN {"", "tt", "bad"}
  ELSE IF type = "cookie" THEN {"", "word", "semi", "cut", "other"}
  ELSE {"", "b"}

StructField ==
  [tags : SUBSET Tags, flags : SUBSET Flags, key : STRING, type : Types, exported : BOOLEAN]

\* Types that toString prints in a form fromString cannot read are not used there.
ASSUME StructsAssumption ==
  \A s \in Structs :
    /\ s.fields \in Seq(StructField) /\ s.request \in BOOLEAN /\ s.path \in Seq(STRING)
    /\ \A i \in DOMAIN s.fields :
         /\ s.fields[i].tags \cap {"query", "header", "cookie", "url"} # {} =>
              s.fields[i].type \in {"string", "named", "number", "text", "cookie"}
         /\ s.fields[i].type = "cookie" => ~s.request /\ s.fields[i].tags = {"cookie"}

Zero(type) == IF type = "number" THEN "0" ELSE ""

\* What the fields of an object that was used before have.
Stale(type) ==
  IF type = "number" THEN "200"
  ELSE IF type = "text" THEN "tt"
  ELSE IF type \in {"string", "named", "cookie"} THEN "word"
  ELSE "b"

----------------------------------------------------------------------------
(* api.go: validateRequestResponse *)

AcceptsField(f, request) ==
  /\ "is_protobuf" \in f.flags => "use_as_body" \in f.tags /\ f.type = "proto"
  /\ "is_stream" \in f.flags => "use_as_body" \in f.tags /\ f.type = "reader"
  /\ "is_raw" \in f.flags => f.type = "bytes"
  /\ Cardinality(f.flags) <= 1
  /\ Cardinality(f.tags) <= 1
  /\ "use_as_status" \in f.tags => ~request /\ f.type = "number"
  /\ "query" \in f.tags \/ "url" \in f.tags => request
  /\ "cookie" \in f.tags /\ ~request => f.type = "cookie"

Tagged(fields, tag) == {i \in DOMAIN fields : tag \in fields[i].tags}

\* Mutant: the URL keys are not compared.
Accepts_AnyUrl(s) ==
  /\ \A i \in DOMAIN s.fields : AcceptsField(s.fields[i], s.request)
  /\ Cardinality(Tagged(s.fields, "use_as_status")) <= 1
  /\ Cardinality(Tagged(s.fields, "use_as_body")) <= 1
  /\ Tagged(s.fields, "use_as_body") = {} \/ Tagged(s.fields, "json") = {}

\* The URL keys are compared as sorted sequences: as bags.
Accepts(s) ==
  /\ \A i \in DOMAIN s.fields : AcceptsField(s.fields[i], s.request)
  /\ Cardinality(Tagged(s.fields, "use_as_status")) <= 1
  /\ Cardinality(Tagged(s.fields, "use_as_body")) <= 1
  /\ Tagged(s.fields, "use_as_body") = {} \/ Tagged(s.fields, "json") = {}
  /\ LET inPath(k) == {i \in DOMAIN s.path : s.path[i] = k}
         inStruct(k) == {i \in Tagged(s.fields, "url") : s.fields[i].key = k}
     IN \A k \in {s.path[i] : i \in DOMAIN s.path}
                   \cup {s.fields[i].key : i \in Tagged(s.fields, "url")} :
          Cardinality(inPath(k)) = Cardinality(inStruct(k))

----------------------------------------------------------------------------
(* json_transport.go: prepare *)

\* The chain of else-ifs; an unexported field goes nowhere.
PlaceOf(f) ==
  LET chain == <<"query", "header", "cookie", "url", "use_as_body", "use_as_status">>
      has == {i \in DOMAIN chain : chain[i] \in f.tags}
  IN IF ~f.exported THEN "none" ELSE IF has = {} THEN "json" ELSE chain[Min(has)]

Placed(fields, places) == {i \in DOMAIN fields : PlaceOf(fields[i]) \in places}

TextPlaces == {"query", "header", "cookie", "url"}

\* The body is not read if every field, unexported ones too, is elsewhere.
NoJsonFields(fields) ==
  Cardinality(Placed(fields, TextPlaces \cup {"use_as_status"})) = Len(fields)

HasBodyField(fields) == Placed(fields, {"use_as_body"}) # {}

\* The fields whose values the HTTP body is made of.
BodyFields(fields) ==
  IF HasBodyField(fields) THEN Placed(fields, {"use_as_body"}) ELSE Placed(fields, {"json"})

\* The body is parsed as JSON, not taken as it is or as a protobuf message.
JsonBody(fields) ==
  IF HasBodyField(fields)
    THEN \A i \in BodyFields(fields) : fields[i].flags = {}
    ELSE ~NoJsonFields(fields)

----------------------------------------------------------------------------
(* toString, fromString, and what HTTP does to a text *)

\* A TextMarshaler may fail, and so may the cookie of a response, by its name.
ToStringFails(type, v) == (type = "text" /\ v = "bad") \/ (type = "cookie" /\ v = "other")

\* Sscanf with %v reads a string up to a space.
FirstWord(text) == IF text \in {"words", "padded"} THEN "word" ELSE text

\* Mutant: *string has no case of its own.
fromString_ScansStrings(type, text, before) ==
  IF type \in {"text", "cookie"} THEN text
  ELSE IF text = "" THEN before
  ELSE IF type \in {"string", "named"} THEN FirstWord(text) ELSE text

\* Mutant: an empty text is stored like any other.
fromString_StoresEmpty(type, text, before) == IF type = "named" THEN FirstWord(text) ELSE text

\* fromString into a field that has the value before.  An http.Cookie is assigned.
fromString(type, text, before) ==
  IF type \in {"string", "text", "cookie"} THEN text
  ELSE IF text = "" THEN before
  ELSE IF type = "named" THEN FirstWord(text) ELSE text

\* Mutant: an empty text is scanned too.
FromStringFails_ScansEmpty(type, text) ==
  \/ (type = "text" /\ text \notin {"", "tt"})
  \/ (type = "number" /\ text \notin ValuesOf("number"))
  \/ (type = "named" /\ text = "")

FromStringFails(type, text) ==
  \/ (type = "text" /\ text \notin {"", "tt"})
  \/ (type = "number" /\ text # "" /\ text \notin ValuesOf("number"))

\* A header value loses the spaces around it, a cookie value invalid bytes.
Carry(place, text) ==
  IF place = "header" /\ text = "padded" THEN "word"
  ELSE IF place = "cookie" /\ text = "semi" THEN "cut"
  ELSE text

----------------------------------------------------------------------------

VARIABLES
  struct,    \* the member of Structs that travels
  stage,     \* "new", "rejected", "bound", "sending", "failed", "broken",
             \* "misrouted", "written", "unreadable" or "read"
  sent,      \* values of its fields on the sending side
  old,       \* values of the fields of the object that is read into
  msg,       \* [texts, status, body, hasBody]: texts by place and key, body
             \* by field, whether the body has a byte
  encoded,   \* writeQueryHeaderCookie returned no error
  received   \* values of the fields on the receiving side

vars == <<struct, stage, sent, old, msg, encoded, received>>

fields == struct.fields

Objects(fs) ==
  {o \in [DOMAIN fs -> UNION {ValuesOf(fs[i].type) : i \in DOMAIN fs}] :
     \A i \in DOMAIN fs : o[i] \in ValuesOf(fs[i].type)}

Zeros(fs) == [i \in DOMAIN fs |-> Zero(fs[i].type)]
Stales(fs) == [i \in DOMAIN fs |-> Stale(fs[i].type)]

NoTexts == [pk \in {} |-> ""]
NoMessage == [texts |-> NoTexts, status |-> "200", body |-> << >>, hasBody |-> FALSE]

\* A string may receive the text of a field of another type with its key.
Holds(type) == IF type \in {"string", "named"} THEN UNION {ValuesOf(t) : t \in Types}
                                              ELSE ValuesOf(type)

TypeOK ==
  /\ stage \in {"new", "rejected", "bound", "sending", "failed", "broken", "misrouted",
                "written", "unreadable", "read"}
  /\ DOMAIN sent = DOMAIN fields /\ DOMAIN old = DOMAIN fields
  /\ DOMAIN received = DOMAIN fields
  /\ \A i \in DOMAIN fields :
       /\ {sent[i], old[i]} \subseteq ValuesOf(fields[i].type)
       /\ received[i] \in Holds(fields[i].type)
  /\ msg.status \in ValuesOf("number") \ {"0", "7", "102"}
  /\ encoded \in BOOLEAN

Init ==
  /\ struct \in Structs
  /\ stage = "new"
  /\ sent = Zeros(fields) /\ old = Zeros(fields) /\ received = Zeros(fields)
  /\ msg = NoMessage
  /\ encoded = FALSE

----------------------------------------------------------------------------
(* NewClient and BindRoutes validate; then a call comes *)

Validate ==
  /\ stage = "new"
  /\ stage' = IF Accepts(struct) THEN "bound" ELSE "rejected"
  /\ UNCHANGED <<struct, sent, old, msg, encoded, received>>

\* The server reads a request into a new object, Call the response into the
\* caller's, which may have been used before.
Send ==
  /\ stage = "bound"
  /\ sent' \in Objects(fields)
  /\ old' \in {Zeros(fields)} \cup (IF struct.request THEN {} ELSE {Stales(fields)})
  /\ stage' = "sending"
  /\ UNCHANGED <<struct, msg, encoded, received>>

----------------------------------------------------------------------------
(* writeQueryHeaderCookie *)

\* The order of its loops.
Rank(i) == CHOOSE r \in 1 .. 4 : <<"query", "header", "cookie", "url">>[r] = PlaceOf(fields[i])
Before(i, j) == Rank(i) < Rank(j) \/ (Rank(i) = Rank(j) /\ i < j)

FailingTexts == {i \in Placed(fields, TextPlaces) : ToStringFails(fields[i].type, sent[i])}

\* What is set when the first of them fails, or all.
SetTexts == {i \in Placed(fields, TextPlaces) : \A j \in FailingTexts : Before(i, j)}

\* buildUrl: a key of the path has no value.  Not called without URL fields.
BuildUrlFails ==
  /\ Placed(fields, {"url"}) # {}
  /\ \E k \in DOMAIN struct.path :
       \A i \in Placed(fields, {"url"}) : fields[i].key # struct.path[k]

\* Set keeps the last value of a key; of a request's cookies the first is found.
TextsOf(S) ==
  [pk \in {<<PlaceOf(fields[i]), fields[i].key>> : i \in S} |->
     LET same == {i \in S : PlaceOf(fields[i]) = pk[1] /\ fields[i].key = pk[2]}
         kept == IF pk[1] = "cookie" /\ struct.request THEN Min(same) ELSE Max(same)
     IN Carry(pk[1], sent[kept])]

\* A status of 0 means 200.
StatusSet ==
  IF \E i \in Placed(fields, {"use_as_status"}) : sent[i] # "0"
    THEN sent[Max(Placed(fields, {"use_as_status"}))]
    ELSE "200"

\* net/http: an informational response is followed by a final one, of status 200.
FinalStatus(status) == IF status = "102" THEN "200" ELSE status

\* JSON is never empty, and {} is written where no field is JSON.
BodyIsEmpty ==
  /\ HasBodyField(fields)
  /\ \A i \in BodyFields(fields) : fields[i].flags # {} /\ sent[i] = ""

\* A marshaler fails, or net/http refuses a body under this status.
BodyFails ==
  \/ \E i \in BodyFields(fields) : fields[i].flags = {} /\ sent[i] = "bad"
  \/ (~struct.request /\ StatusSet = "204" /\ ~BodyIsEmpty)

Message(texts, status, hasBody) ==
  [texts |-> texts, status |-> status, body |-> [i \in BodyFields(fields) |-> sent[i]],
   hasBody |-> hasBody]

TextFails == FailingTexts # {} \/ BuildUrlFails
StatusPanics == StatusSet \in {"0", "7"}

\* An empty URL parameter: the path fits the mask no more, the server answers 404.
Misrouted == \E i \in Placed(fields, {"url"}) : sent[i] = ""

Write ==
  /\ stage = "sending"
  /\ ~TextFails /\ ~StatusPanics /\ ~BodyFails
  /\ msg' = Message(TextsOf(SetTexts), FinalStatus(StatusSet), ~BodyIsEmpty)
  /\ encoded' = TRUE
  /\ stage' = IF Misrouted THEN "misrouted" ELSE "written"
  /\ UNCHANGED <<struct, sent, old, received>>

\* Of a request Call returns the error.  The handler logs it, and net/http sends
\* what is there: the headers set before, the status if it was written, no body.
WriteFails ==
  /\ stage = "sending"
  /\ TextFails \/ (~StatusPanics /\ BodyFails)
  /\ IF struct.request
       THEN stage' = "failed" /\ UNCHANGED msg
       ELSE /\ stage' = "written"
            /\ msg' = Message(TextsOf(SetTexts),
                              IF TextFails THEN "200" ELSE FinalStatus(StatusSet), FALSE)
  /\ UNCHANGED <<struct, sent, old, encoded, received>>

\* net/http's WriteHeader panics, its server drops the connection.
WritePanics ==
  /\ stage = "sending"
  /\ ~TextFails /\ StatusPanics
  /\ stage' = "broken"
  /\ UNCHANGED <<struct, sent, old, msg, encoded, received>>

----------------------------------------------------------------------------
(* readQueryHeaderCookie *)

\* query.Get, header.Get, request.Cookie and the map of URL parameters.
Get(f) ==
  IF <<PlaceOf(f), f.key>> \in DOMAIN msg.texts THEN msg.texts[<<PlaceOf(f), f.key>>] ELSE ""

\* JSON of no byte is an error, and so is a text that does not parse.
ReadFails ==
  \/ JsonBody(fields) /\ ~msg.hasBody
  \/ \E i \in Placed(fields, TextPlaces) : FromStringFails(fields[i].type, Get(fields[i]))

\* A cookie that a response does not have is left as it was.
IsKept(i) ==
  \/ PlaceOf(fields[i]) = "none"
  \/ PlaceOf(fields[i]) = "json" /\ HasBodyField(fields)
  \/ /\ PlaceOf(fields[i]) = "cookie" /\ ~struct.request
     /\ <<"cookie", fields[i].key>> \notin DOMAIN msg.texts

ReadField(i) ==
  LET f == fields[i] IN
  IF IsKept(i) THEN old[i]
  ELSE IF PlaceOf(f) \in TextPlaces THEN fromString(f.type, Get(f), old[i])
  ELSE IF PlaceOf(f) = "use_as_status" THEN msg.status
  ELSE IF msg.hasBody THEN msg.body[i] ELSE Zero(f.type)

Read ==
  /\ stage = "written"
  /\ ~ReadFails
  /\ received' = [i \in DOMAIN fields |-> ReadField(i)]
  /\ stage' = "read"
  /\ UNCHANGED <<struct, sent, old, msg, encoded>>

Unreadable ==
  /\ stage = "written"
  /\ ReadFails
  /\ stage' = "unreadable"
  /\ UNCHANGED <<struct, sent, old, msg, encoded, received>>

Next == Validate \/ Send \/ Write \/ WriteFails \/ WritePanics \/ Read \/ Unreadable

Spec == Init /\ [][Next]_vars

----------------------------------------------------------------------------
(* Properties *)

\* No two fields share a place and a key.
DistinctKeys ==
  \A i, j \in Placed(fields, TextPlaces) :
    (PlaceOf(fields[i]) = PlaceOf(fields[j]) /\ fields[i].key = fields[j].key) => i = j

\* What a place or a type cannot carry: an informational status or none, spaces
\* around a header, a byte that no cookie has, and, in a text, all but the first
\* word of a string of a named type, or no word.
Carries(f, v) ==
  /\ "use_as_status" \in f.tags => v \notin {"0", "102"}
  /\ "header" \in f.tags => v # "padded"
  /\ "cookie" \in f.tags => v # "semi"
  /\ (f.tags \cap TextPlaces # {} /\ f.type = "named") => v \notin {"", "words", "padded"}

\* Every exported field of a type that validation accepts arrives with its value
\* if encoding and decoding return no error: by its tag, or as JSON without a tag
\* unless another field is the body.  The object that is read into does not
\* matter.  (writeQueryHeaderCookie and readQueryHeaderCookie walk the fields
\* apart, with only the tags in common.)
FieldsArrive ==
  (stage = "read" /\ encoded /\ DistinctKeys) =>
    \A i \in DOMAIN fields :
      ( /\ fields[i].exported /\ Carries(fields[i], sent[i])
        /\ fields[i].tags # {} \/ Tagged(fields, "use_as_body") = {} )
      => received[i] = sent[i]

\* What the encoder wrote without an error, the decoder of the same type reads
\* without one, with any values, empty ones too.
WrittenIsReadable == (stage = "unreadable" /\ encoded) => ~DistinctKeys

\* An object of an accepted type fails to travel only for a value the application
\* put in: a marshaler that fails, the name of a cookie, a status; or for a URL
\* key that an unexported field has.  It misses its route only by an empty URL
\* parameter.  (validateRequestResponse compares the URL keys for that.)
FailsForValues ==
  /\ (stage = "failed" \/ (stage \in {"written", "unreadable", "read"} /\ ~encoded)) =>
       \/ \E i \in DOMAIN fields :
            fields[i].exported /\ sent[i] \in {"bad", "other", "204"}
       \/ \E i \in Tagged(fields, "url") : ~fields[i].exported
  /\ stage = "broken" => \E i \in Tagged(fields, "use_as_status") : sent[i] = "7"
  /\ stage = "misrouted" => \E i \in Tagged(fields, "url") : sent[i] = ""
=============================================================================
