------------------------------ MODULE MCFields ------------------------------
\* Fields for TLC: struct types of up to two fields with one tag each, some of
\* three, and single fields with several tags, most of which are refused.
EXTENDS Fields

Field(tags, flags, key, type) ==
  [tags |-> tags, flags |-> flags, key |-> key, type |-> type, exported |-> TRUE]
Unexported(f) == [f EXCEPT !.exported = FALSE]

Scalars == {"string", "named", "number", "text"}

TextFields(places, keys) ==
  {Field({place}, {}, key, type) : place \in places, key \in keys, type \in Scalars}

JsonFields == {Field({}, {}, "", "string"), Field({"json"}, {}, "", "text")}

BodyField == {
  Field({"use_as_body"}, {}, "", "string"),
  Field({"use_as_body"}, {"is_raw"}, "", "bytes"),
  Field({"use_as_body"}, {"is_protobuf"}, "", "proto"),
  Field({"use_as_body"}, {"is_stream"}, "", "reader")}

StatusField == Field({"use_as_status"}, {}, "", "number")
CookieField == Field({"cookie"}, {}, "k", "cookie")

\* One or two fields, in this order; the path has the keys of the URL fields.
Request(fs, path) == [fields |-> fs, request |-> TRUE, path |-> path]
Response(fs) == [fields |-> fs, request |-> FALSE, path |-> << >>]

UrlPath(fs) ==
  LET keys == {fs[i].key : i \in Tagged(fs, "url")}
  IN CASE keys = {} -> << >>
       [] keys = {"k"} -> <<"k">>
       [] keys = {"l"} -> <<"l">>
       [] OTHER -> <<"l", "k">>

RequestFields ==
  TextFields({"query", "header", "cookie", "url"}, {"k"}) \cup JsonFields \cup BodyField
    \cup {Unexported(Field({"url"}, {}, "k", "string")), Unexported(Field({}, {}, "", "string"))}

ResponseFields ==
  TextFields({"header"}, {"k"}) \cup JsonFields \cup BodyField
    \cup {StatusField, CookieField, Field({"header"}, {}, "l", "named"),
          Unexported(Field({}, {}, "", "string"))}

Pairs(fs) == {<<f>> : f \in fs} \cup {<<f, g>> : f \in fs, g \in fs}

\* A second field of another key beside each place.
OtherKeys == {Field({place}, {}, "l", "string") : place \in {"query", "header", "cookie", "url"}}

Requests ==
  {Request(fs, UrlPath(fs)) : fs \in Pairs(RequestFields)}
    \cup {Request(<<f, g>>, UrlPath(<<f, g>>)) : f \in OtherKeys, g \in RequestFields}
    \* Paths that do not have the keys of the struct.
    \cup {Request(fs, path) :
            fs \in {<<f>> : f \in TextFields({"url", "query"}, {"k"})},
            path \in {<<"k", "l">>, <<"l">>}}

Responses ==
  {Response(fs) : fs \in Pairs(ResponseFields)}
    \cup {Response(<<StatusField, f, Field({"header"}, {}, "l", "text")>>) :
            f \in {CookieField} \cup JsonFields \cup BodyField}

\* Tags that do not go together, in requests and responses.
Misused ==
  LET odd == {Field(tags, flags, "k", type) :
                tags \in {{"use_as_status"}, {"query"}, {"url"}, {"json", "header"},
                         {"use_as_body", "json"}, {"use_as_body"}, {"header"}, {}},
                flags \in {{}, {"is_raw"}, {"is_stream"}, {"is_protobuf"}, {"is_raw", "is_stream"}},
                type \in {"number"}}
  IN {Request(<<f>>, << >>) : f \in odd} \cup {Response(<<f>>) : f \in odd}
       \cup {Response(<<Field({"cookie"}, {}, "k", "string")>>)}

StructsDef == Requests \cup Responses \cup Misused
=============================================================================
