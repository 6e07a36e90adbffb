------------------------------- MODULE Routing -------------------------------
(***************************************************************************)
(* From a call of the client to the handler that answers it: url_params.go *)
(* (masks, the classifier, building a URL), BindRoutes and GetMatcher of   *)
(* server.go, on top of http.ServeMux.                                     *)
(*                                                                         *)
(* A path is the sequence of what stands between its slashes, after the    *)
(* leading one: "/a/b" is <<"a", "b">>, "/a/" is <<"a", "">> and "/" is    *)
(* <<"">>.  A mask is a path of segments [param, name]: ":x" is            *)
(* [param |-> TRUE, name |-> "x"].  The value of a parameter is put into   *)
(* the path as it is, so it is a path too: "v/w" is <<"v", "w">>.          *)
(***************************************************************************)
EXTENDS Naturals, Sequences, SequencesExt, FiniteSets, FiniteSetsExt

CONSTANTS
  Tables,   \* route tables: sequences of [method, mask]
  Methods,  \* HTTP methods of requests
  Values,   \* values that callers give to URL parameters
  Paths     \* paths that other HTTP clients ask for

NoRoute == 0

\* A string has something between slashes even when it is empty: "" is <<"">>.
NonEmpty(S) == Seq(S) \ {<<>>}
Segments == [param : BOOLEAN, name : STRING]
Routes == [method : Methods, mask : NonEmpty(Segments)]

ASSUME TablesAssumption == Tables \subseteq Seq(Routes)

ASSUME PathsAssumption == Values \cup Paths \subseteq NonEmpty(STRING)

----------------------------------------------------------------------------
(* url_params.go *)

\* splitUrl: no empty parts at either end.
splitUrl(path) ==
  LET full == {i \in DOMAIN path : path[i] # ""}
  IN IF full = {} THEN <<>> ELSE SubSeq(path, Min(full), Max(full))

Names(mask) == [i \in DOMAIN mask |-> mask[i].name]

\* Mutant: the slashes around the mask are not cut off.
MaskParts_Untrimmed(mask) == mask

\* The parts of a mask after splitUrl; a parameter is never an empty part.
MaskParts(mask) ==
  LET full == {i \in DOMAIN mask : mask[i].param \/ mask[i].name # ""}
  IN IF full = {} THEN <<>> ELSE SubSeq(mask, Min(full), Max(full))

findUrlKeys(mask) == {mask[i].name : i \in {j \in DOMAIN mask : mask[j].param}}

\* match: the same number of parts, and equal static ones.
Matches(path, mask) ==
  LET parts == splitUrl(path)
      maskParts == MaskParts(mask)
  IN /\ Len(parts) = Len(maskParts)
     /\ \A i \in DOMAIN parts : maskParts[i].param \/ maskParts[i].name = parts[i]

\* param2value as match fills it: of two equal keys the last one wins.
Params(path, mask) ==
  LET parts == splitUrl(path)
      maskParts == MaskParts(mask)
      at(key) == Max({i \in DOMAIN parts : maskParts[i].param /\ maskParts[i].name = key})
  IN [key \in findUrlKeys(mask) |-> <<parts[at(key)]>>]

\* Mutant: the slash before the first parameter is cut off too.
cutUrlParams_NoSlash(mask) ==
  LET params == {i \in DOMAIN mask : mask[i].param}
  IN IF params = {} THEN Names(mask) ELSE Names(SubSeq(mask, 1, Min(params) - 1))

\* cutUrlParams: what stands before the first parameter, ending with a slash.
cutUrlParams(mask) ==
  LET params == {i \in DOMAIN mask : mask[i].param}
      before == Names(SubSeq(mask, 1, Min(params) - 1))
  IN IF params = {} THEN Names(mask)
     ELSE IF before # <<>> /\ Last(before) = "" THEN before
     ELSE Append(before, "")

\* buildUrl, for the keys of the mask: each parameter replaced by its value.
buildUrl(mask, param2value) ==
  FlattenSeq([i \in DOMAIN mask |->
    IF mask[i].param THEN param2value[mask[i].name] ELSE <<mask[i].name>>])

----------------------------------------------------------------------------
(* http.ServeMux of the Go version in go.mod (external) *)

\* cleanPath leaves it as it is; otherwise the client is redirected.
IsClean(path) ==
  \A i \in DOMAIN path :
    path[i] \notin {".", ".."} /\ (path[i] = "" => i = Len(path))

IsSubtree(pattern) == Last(pattern) = ""

InSubtree(path, pattern) ==
  IsSubtree(pattern) /\ Len(path) >= Len(pattern) /\ IsPrefix(Front(pattern), path)

\* The pattern that serves a path: itself, or the longest subtree it is in.
Candidates(path, patterns) ==
  {p \in patterns : p = path \/ InSubtree(path, p)}

PatternOf(path, patterns) ==
  IF path \in patterns THEN path
  ELSE CHOOSE p \in Candidates(path, patterns) :
         \A q \in Candidates(path, patterns) : Len(q) <= Len(p)

NeedsSlash(path, patterns) ==
  path \notin patterns /\ Append(path, "") \in patterns

----------------------------------------------------------------------------

VARIABLES
  table,    \* the routes given to BindRoutes, NewClient and GetMatcher
  todo,     \* path2routes: paths that BindRoutes has not registered yet
  bound,    \* registered pattern |-> method |-> set of indexes of routes
  call,     \* the route that Call uses, NoRoute for a foreign request
  values,   \* the URL parameters Call was given
  req,      \* [method, path] of the request
  answer,   \* [kind, route, params]: what the server did with it
  matched   \* {}, or {r}: what GetMatcher's function found for it

vars == <<table, todo, bound, call, values, req, answer, matched>>

Mask(i) == table[i].mask

Pending == [kind |-> "pending", route |-> NoRoute, params |-> <<>>]
Refusal(kind) == [kind |-> kind, route |-> NoRoute, params |-> <<>>]
NoRequest == [method |-> "", path |-> <<>>]

CutPath(i) == cutUrlParams(Mask(i))

TypeOK ==
  /\ table \in Tables
  /\ todo \subseteq {CutPath(i) : i \in DOMAIN table}
  /\ DOMAIN bound = {CutPath(i) : i \in DOMAIN table} \ todo
  /\ call \in {NoRoute} \cup DOMAIN table
  /\ req = NoRequest \/ req.method \in Methods
  /\ answer.kind \in {"pending", "route", "redirect", "noPattern", "notFound",
                      "methodNotAllowed"}
  /\ answer.route \in {NoRoute} \cup DOMAIN table
  /\ matched \subseteq {NoRoute} \cup DOMAIN table

Init ==
  /\ table \in Tables
  /\ todo = {CutPath(i) : i \in DOMAIN table}
  /\ bound = <<>>
  /\ call = NoRoute /\ values = <<>>
  /\ req = NoRequest
  /\ answer = Pending
  /\ matched = {}

\* method2routes: the routes with this path, by method.
MethodRoutes(path) ==
  LET routes == {i \in DOMAIN table : CutPath(i) = path}
  IN [m \in {table[i].method : i \in routes} |-> {i \in routes : table[i].method = m}]

\* Mutant: the loop ends after its first path.
BindRoutes_Once(path) ==
  /\ path \in todo
  /\ bound' = [p \in DOMAIN bound \cup {path} |->
                 IF p = path THEN MethodRoutes(path) ELSE bound[p]]
  /\ todo' = {}
  /\ UNCHANGED <<table, call, values, req, answer, matched>>

\* One iteration of "for path, routes := range path2routes", in any order.
BindRoutes(path) ==
  /\ path \in todo
  /\ bound' = [p \in DOMAIN bound \cup {path} |->
                 IF p = path THEN MethodRoutes(path) ELSE bound[p]]
  /\ todo' = todo \ {path}
  /\ UNCHANGED <<table, call, values, req, answer, matched>>

\* Call: the path of the request is the mask with the values in it.
Call(i) ==
  /\ todo = {} /\ req = NoRequest
  /\ \E v \in [findUrlKeys(Mask(i)) -> Values] :
       /\ values' = v
       /\ req' = [method |-> table[i].method, path |-> buildUrl(Mask(i), v)]
  /\ call' = i
  /\ UNCHANGED <<table, todo, bound, answer, matched>>

\* A request of a client that is not api2's.
ForeignRequest ==
  /\ todo = {} /\ req = NoRequest
  /\ \E m \in Methods, p \in Paths : req' = [method |-> m, path |-> p]
  /\ UNCHANGED <<table, todo, bound, call, values, answer, matched>>

\* Mutant: the last route that matches.
Classify_Last(path, routes) ==
  LET matching == {i \in routes : Matches(path, Mask(i))}
  IN IF matching = {} THEN NoRoute ELSE Max(matching)

\* Classify: the first route whose mask matches, or NoRoute.
Classify(path, routes) ==
  LET matching == {i \in routes : Matches(path, Mask(i))}
  IN IF matching = {} THEN NoRoute ELSE Min(matching)

\* newHTTPMethodHandler: a single route without parameters takes every path
\* its pattern was given, several routes are told apart by Classify.
MethodHandler(routes, path) ==
  LET first == Min(routes)
      index == Classify(path, routes)
  IN IF routes = {first} /\ findUrlKeys(Mask(first)) = {}
       THEN [kind |-> "route", route |-> first, params |-> <<>>]
     ELSE IF index = NoRoute
       THEN Refusal("notFound")
     ELSE [kind |-> "route", route |-> index, params |-> Params(path, Mask(index))]

\* The handler that BindRoutes registered for the pattern.
PatternHandler(pattern, method, path) ==
  IF method \notin DOMAIN bound[pattern]
    THEN Refusal("methodNotAllowed")
    ELSE MethodHandler(bound[pattern][method], path)

\* What the mux and the handlers under it answer.
Reply(method, path) ==
  IF NeedsSlash(path, DOMAIN bound) \/ ~IsClean(path)
    THEN Refusal("redirect")
  ELSE IF Candidates(path, DOMAIN bound) = {}
    THEN Refusal("noPattern")
  ELSE PatternHandler(PatternOf(path, DOMAIN bound), method, path)

Serve ==
  /\ req # NoRequest /\ answer = Pending
  /\ answer' = Reply(req.method, req.path)
  /\ UNCHANGED <<table, todo, bound, call, values, req, matched>>

\* Mutant: the method is not compared.
RouteByPath_AnyMethod(path, method) ==
  LET found == {i \in DOMAIN table : /\ findUrlKeys(Mask(i)) = {}
                                     /\ Names(Mask(i)) = path}
  IN IF found = {} THEN NoRoute ELSE Max(found)

\* path2method2route: the last route with this path, as it is written in the
\* table, and this method.
RouteByPath(path, method) ==
  LET found == {i \in DOMAIN table : /\ findUrlKeys(Mask(i)) = {}
                                     /\ Names(Mask(i)) = path
                                     /\ table[i].method = method}
  IN IF found = {} THEN NoRoute ELSE Max(found)

\* GetMatcher's function, asked about a request that the server answers.  A
\* pattern of the mux has no ":", so no path with a parameter equals it.
Matcher ==
  /\ answer.kind = "route" /\ matched = {}
  /\ matched' = {RouteByPath(PatternOf(req.path, DOMAIN bound), req.method)}
  /\ UNCHANGED <<table, todo, bound, call, values, req, answer>>

Next ==
  \/ \E path \in todo : BindRoutes(path)
  \/ \E i \in DOMAIN table : Call(i)
  \/ ForeignRequest
  \/ Serve
  \/ Matcher

Spec == Init /\ [][Next]_vars

----------------------------------------------------------------------------
(* Properties *)

\* What a mask means: some full values of its parameters make the path, but
\* for slashes at the ends.
Fits(path, mask, v) == splitUrl(buildUrl(mask, v)) = splitUrl(path)

FullValues(path, mask) ==
  [findUrlKeys(mask) -> {<<path[i]>> : i \in {j \in DOMAIN path : path[j] # ""}}]

CanFit(path, mask) == \E v \in FullValues(path, mask) : Fits(path, mask, v)

SameHandler(i, j) == CutPath(i) = CutPath(j) /\ table[i].method = table[j].method

Alone(i) ==
  /\ findUrlKeys(Mask(i)) = {}
  /\ \A j \in DOMAIN table \ {i} : ~SameHandler(i, j)

\* No parameter is twice in the mask.  Nothing refuses one that is: validation
\* wants as many fields with its key (api.go:187-192).
KeysDiffer(mask) ==
  \A i, j \in DOMAIN mask :
    mask[i].param /\ mask[j].param /\ mask[i].name = mask[j].name => i = j

\* server.go:101-130, url_params.go:53-86: a request is answered by a route of
\* its method that its path fits, with the values that make the path, and the
\* first such route of the pattern in the table; only a route that has a pattern
\* and a method for itself, and no parameters, answers without a look at the path.
\* A mask with a key twice takes paths that it does not fit.
DispatchIsFirstFit ==
  answer.kind = "route" =>
    LET r == answer.route
    IN /\ table[r].method = req.method
       /\ Alone(r) \/ /\ KeysDiffer(Mask(r)) => Fits(req.path, Mask(r), answer.params)
                      /\ \A j \in 1 .. r - 1 :
                           SameHandler(j, r) => ~CanFit(req.path, Mask(j))

\* server.go:117-126: the classifier's 404 comes only from a pattern none of whose
\* routes of the method the path fits; the mux's, which unlike the classifier
\* minds a slash at the end, only when the path is none that a call would build.
RefusalIsRight ==
  /\ answer.kind = "notFound" =>
       \A i \in DOMAIN table :
         CutPath(i) = PatternOf(req.path, DOMAIN bound) /\ table[i].method = req.method
           => ~CanFit(req.path, Mask(i))
  /\ answer.kind = "noPattern" =>
       \A i \in DOMAIN table : \A v \in FullValues(req.path, Mask(i)) :
         buildUrl(Mask(i), v) # req.path

\* A value that stays one part of a path.
IsPlain(value) == Len(value) = 1 /\ value[1] \notin {"", ".", ".."}

\* Another route the path may go to: an earlier one of the same handler that it
\* fits (a key twice in its mask apart), or one whose pattern is the path, with or
\* without a slash at the end, or a longer prefix of it.
Rival(j) ==
  \/ /\ j < call /\ SameHandler(j, call)
     /\ KeysDiffer(Mask(j)) => CanFit(req.path, Mask(j))
  \/ /\ CutPath(j) # CutPath(call)
     /\ \/ CutPath(j) \in {req.path, Append(req.path, "")}
        \/ Len(CutPath(j)) > Len(CutPath(call)) /\ InSubtree(req.path, CutPath(j))

\* json_transport.go:495-519, url_params.go:53-129, client.go:100-152: a call
\* reaches the handler of its own route with the values it was made with, when
\* they stay one part each, its mask is clean and no route is a rival.
RoundTrip ==
  /\ call # NoRoute /\ answer # Pending
  /\ IsClean(Names(Mask(call)))
  /\ \A k \in DOMAIN values : IsPlain(values[k])
  /\ \A j \in DOMAIN table \ {call} : ~Rival(j)
  => answer = [kind |-> "route", route |-> call, params |-> values]

\* server.go:83, 96: without URL parameters, and with no method and path twice,
\* GetMatcher names the route whose handler answered.
MatcherAgreesWithoutParams ==
  /\ \A i \in DOMAIN table : findUrlKeys(Mask(i)) = {}
  /\ \A i, j \in DOMAIN table : SameHandler(i, j) => i = j
  /\ matched # {}
  => matched = {answer.route}

\* server.go:73 "GetMatcher returns a function converting http.Request to Route."
MatcherAgrees == matched # {} => matched = {answer.route}
==============================================================================
