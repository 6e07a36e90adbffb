-------------------------- MODULE MCErrorTransport --------------------------
\* ErrorTransport for TLC: errors of up to four links and pairs of registries.
EXTENDS ErrorTransport

AllTypes == {"errorString", "wrapError", "joinError", "SyntaxError", "CodeError", "httpError",
             "Conflict", "Limit", "Broken"}

Link(type, code, detail) == [type |-> type, code |-> code, detail |-> detail]
text == Link("errorString", 0, "zero")
wrap == Link("wrapError", 0, "zero")
join == Link("joinError", 0, "zero")
limit == Link("Limit", 0, "set")

\* Errors that wrap nothing.  "Conflict" is an application's type with an
\* HttpCode: a usual one, one that is forgotten, and those net/http treats apart.
Leaves ==
  {<<l>> : l \in {text, limit, Link("Broken", 0, "set"), Link("SyntaxError", 0, "set")}}
  \cup {<<Link("Conflict", code, "set")>> : code \in {0, 102, 204, 299, 304, 409}}

Coding == {makeError(name, <<text>>) : name \in DOMAIN Constructor}

\* Wrapped by text, by a list of errors, by a CodeError, by another type.
Wrappers(e) ==
  {<<wrap>> \o e, <<join>> \o e, <<join, text>> \o e, <<limit>> \o e,
   <<Link("Conflict", 409, "zero")>> \o e, makeError("NotFound", <<wrap>> \o e)}

Once == UNION {Wrappers(e) : e \in Leaves}
AllErrors == Leaves \cup Coding \cup Once \cup UNION {Wrappers(e) : e \in Once}

\* Two names and the empty one.
Registry(a, b, none) == [k \in {"a", "b", NoKey} |-> IF k = "a" THEN a ELSE IF k = "b" THEN b
                                                     ELSE none]
Maps ==
  {Registry(a, b, NoType) : a \in {NoType, "Conflict", "Limit", "Broken"},
                            b \in {NoType, "Conflict", "Limit", "CodeError"}}
  \cup {Registry("Limit", NoType, "Conflict")}

\* Every pair of them: the two sides may be of different versions.
AllRegistries == [server : Maps, client : Maps]
=============================================================================
