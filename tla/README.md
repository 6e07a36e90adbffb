# Verification of api2

api2 (Go) turns a table of routes, `(method, path, handler, transport)`, into an
HTTP server (`BindRoutes`) and an HTTP client (`NewClient`, `Client.Call`) that
share the request and response types. This directory holds TLA+ modules
translated from the Go source, TLC configurations that check them on small
instances, and TLAPS proofs. Line numbers are those of the files under `src/`.

Contents: [the system](#1-the-system) · [modules](#2-modules-and-the-code) ·
[runs](#3-runs-bounds-and-fairness) · [divergences](#4-where-code-and-documentation-part) ·
[proofs](#5-what-is-proved) · [limits](#6-what-is-not-modelled) · [plan](#7-plan)

## 1. The system

| Component | State it keeps | Operations | Interacts with |
|---|---|---|---|
| `closingclient` (closing_client.go) | mutex, `closing`, map of cancel functions, `lastCancelKey`, wait group | `Do`, `Close`, `CloseIdleConnections`, all from any goroutine | wraps an HTTP client; is the HTTP client of `Client` |
| CSV streaming (csv.go) | two `Rows` channels, the response in flight | encode/decode response, encode/decode error | a goroutine of the handler, one of the caller, both contexts, `net/http` |
| URL parameters (url_params.go) | the classifier's masks | `splitUrl`, `Classify`, `cutUrlParams`, `buildUrl` | server (dispatch), `JsonTransport` (URL of a request) |
| Server (server.go) | pattern → method → handler tables, built once | `BindRoutes`, `GetMatcher`, the handler of a pattern, `newHTTPHandler` | `http.ServeMux`, transports, handlers |
| Client (client.go) | route map, base URL, options | `NewClient`, `Call`, `Close` | transports, an HTTP client |
| `JsonTransport` (json_transport.go) | cache of prepared types (a `sync.Map` of values that are equal whoever computes them) | encode/decode request, response, error | client and server |
| `errors` | none | constructors of errors with an HTTP status | handlers, `JsonTransport` |
| `debugclient` | a counter | logs a `Do`: reads and replaces both bodies | wraps an HTTP client, maybe a `ClosingClient`, or is wrapped by one |
| Validation (api.go), options | none | checks at start-up | `BindRoutes`, `NewClient` |
| `typegen` | types seen, order of visits | walk from the types of routes, print TypeScript and OpenAPI | generators |
| Generators (static, TypeScript, OpenAPI, YAML) | none | read the routes, write source text | `typegen` |

The hard behaviour, and what makes each part correct:

- **Closing while calls are in flight** (closing_client.go). `Do`s and `Close`s
  interleave on a mutex and a wait group. Correct means: no call slips past a
  close uncancelled, the nil map is never written, `wg.Add` never runs beside
  `wg.Wait` (the rule the comments at 44-45 and 81-84 set), the wrapped client is
  closed only when no call is inside, and everyone gets out.
- **A stream with five parties** (csv.go). Producer, encoder, connection,
  decoder, consumer, with two cancellations and a broken connection anywhere.
  Correct means: rows in order with none lost between two others, all of them
  after a nil error, nobody left hanging, each row delivered before the next is
  produced.
- **Who answers** (server.go, url_params.go). Three mechanisms choose the route
  of a request (mux pattern, method table, classifier) and a fourth builds the
  URL on the client. Correct means they agree.
- **One call with partial failure** (client.go, server.go, json_transport.go).
  Anything may fail on either side, and three bodies or readers must be closed by
  somebody. Correct means: the caller learns what the handler did, and nothing
  stays open, also when `Client.Close` comes in the middle, whatever HTTP clients are
  stacked on one another.
- **An error through two registries** (json_transport.go, errors). Three searches of a
  chain of wrapped errors choose the status and the error that is sent, and the client
  looks the name up in a map of its own version. Correct means: the outermost
  registered error arrives whole, and none is made up.
- **A walk of a graph** (typegen). Types refer to each other; the printers trust that
  what they come to was marked. Correct means: the walk ends and both agree.

Every hazard found, with its line and the property that watches it, is in
`PROJECT.json` under `hazards`.

## 2. Modules and the code

`PROJECT.json` under `map` gives the lines of every definition.

- **`AbstractClosing`** — what a closing client promises its callers: a status per
  call and a phase. No mutex, no map, no counter.
- **`ClosingClient`** — closing_client.go. Every `Do` (`Calls`) and every `Close`
  (`Closers`) is a process with a program counter (`pc`, `cpc`); one action is one
  step that another goroutine can come between: taking the mutex, `wg.Add`,
  registering, one iteration of the range loop, `wg.Wait`. What happens under the
  mutex without touching `wg` or a context is one step. The range loop visits the
  keys in any order. The wrapped client may answer at any time, with a response or
  an error, and the caller's own context may end at any time. Assigning to the nil
  map is modelled as what it is: a panic with the mutex held.
- **`CsvStream`** — csv.go with the parts of `Call` and of `newHTTPHandler` around
  it. Channels are sequences with capacities (0 is unbuffered: a send needs a
  receiver), the response writer's buffer is `pending`, the connection is `wire`.
  A line has an identity and a kind, which is what encoding/csv makes of it: plain,
  with a carriage return, of another width, blank, or refused for its quotes. A handler
  returns a file or fails, and `csvEncodeError` then sends the lines of the error's text; both
  have a status code, a number, of which `IsStatus`, `StatusLine` and `BodyAllowed` say what
  `net/http` makes of it: a panic, a 200 after an informational one, no body. The
  client knows only the status (`IsSuccess`), not whether it reads a file or a text. `net/http` ends
  a response as complete whenever the handler function returns, with or without a logged
  error, and breaks it when the handler panics.
- **`Routing`** — url_params.go, `BindRoutes`, `newHTTPMethodHandler`, `GetMatcher`
  and the URL part of encoding a request. A path is the sequence of the strings
  between its slashes, so `splitUrl`, the trailing slash that `cutUrlParams` adds and
  values that contain slashes are what they are in the code. `http.ServeMux` (of the Go
  version in go.mod: exact pattern, else the longest subtree, redirects) is external.
- **`RpcCall`** — one call: `Client.Call`, `newHTTPHandler`, the control flow of
  `writeQueryHeaderCookie`, `readQueryHeaderCookie`, the error path, and the owners of
  the request stream, the handler's response stream and the response body. The HTTP
  client is a stack of layers, entered one by one (`layer`) and left in the opposite
  order: a `ClosingClient` at the granularity of `AbstractClosing` (which the
  property `CloseWaits` states, and `ClosingClient` implements), and a `DebugClient` with both copies and every
  early return. `Client.Close` reaches the outermost layer only, which refuses calls from then on
  (`Refuses`) and passes the close on after waiting. `Client.Close` may come at any moment (`closer`). Which
  faults a call may meet is chosen at its start, so that properties can speak
  of calls that met none. "json" stands for any JSON body, "protobuf" for a
  protobuf body; `is_raw` bodies are not distinguished.
- **`ErrorTransport`** — the way of an error. An error is the sequence of its links in the order of
  `errors.As`, a link a type, the code that its `HttpCode()` returns and whether its fields are
  set. `errorToCode`, `detectErrorType`, `jsonError`, what `WriteHeader` makes of a code
  (external), `DecodeResponseAndError` and `RawDecodeError` for a response with JSON
  fields and no status field. Each side has a map `Errors` of its own, ranged over in any order;
  the answer may be cut or replaced by a proxy's. `errors` is `Constructor` and `makeError`, with
  grpc-gateway's table of statuses external.
- **`TypeVisit`** — `typegen`: `visitType` with its recursive calls as frames on a stack, so that an
  overflow is a state and not an endless run; `ParseStructTag` as three predicates of a field's tags;
  `SetName`, `markVisit`, and as `LookedUp` the types whose definition both printers ask for. A type
  graph is a constant; go/packages, go/doc and reflection are external.
- **`Fields`** — which struct types validation accepts (`validateRequestResponse`),
  where their fields go (`prepare`), and one object on its way: `Write` is
  `writeQueryHeaderCookie`, `Read` is `readQueryHeaderCookie`, with what `net/http` does
  to headers, cookies and statuses in `Carry` and `FinalStatus`. A field is its tags, its key,
  its type and whether it is exported; a value is one of a few texts that the
  conversions treat differently (a space inside, spaces around, a byte no cookie has, a
  text a marshaler refuses, the statuses 0, 7, 102, 204). A request is read into a new
  object, a response into one that may have been used before. `WriteFails` has both
  ends: `Call` returns an error for a request, while a response that fails to encode is
  sent as far as it got.
- **`ClosingClient_proofs`, `RpcCall_proofs`, `CsvStream_proofs`, `Routing_proofs`,
  `ErrorTransport_proofs`, `TypeVisit_proofs`, `Fields_proofs`** — the theorems of section 5; **`Induction`** — the lemmas that
  several of them need about recursive functions and about least and greatest elements.
- **`MC...`** — instances for TLC: the sets of jobs, route tables and struct types.

Definitions named `X_Something` above a definition `X` are mutants: `X` with a
plausible bug, each of which makes TLC report the property named beside it in
`PROJECT.json`. They are used nowhere else.

## 3. Runs, bounds and fairness

| Run | States | Shows |
|---|---|---|
| `ClosingClient_calls` | 23 000 | `CancelsAreLive`, `NoMissedCancel`, `NoNilMapWrite`, `ClosedMeansQuiet`, `AddNeverRacesWait`, `CloseReturns`, `DoReturnsOnceClosing`, `ImplementsAbstract` for 2 calls, 2 closers |
| `CsvStream_download` | 276 000 | `DeliveredIsPrefix`, `CompleteOnNil`, `ProducerOutlived`, `HandlerEnds`, `CallReturns`, `ConsumerEnds`, `InteractiveDelivery` for all files of up to two rows, all texts of an error of up to two lines, longer ones, every sort of status code, every fault |
| `Routing_dispatch` | 185 000 | `DispatchIsFirstFit`, `RefusalIsRight`, `RoundTrip`, `MatcherAgreesWithoutParams` |
| `RpcCall_calls` | 817 000 | `AnswersTheHandler`, `ErrorsReachCaller`, `AnswerIsGenuine`, `BodyReleased`, `CloseWaits`, `CallReturns`, `HandlerReaderReleased` |
| `ErrorTransport_travel` | 1 190 000 | `TypedErrorArrives`, `NothingInvented`, `StatusIsTheErrors` |
| `TypeVisit_parse` | 993 000 | `FindsEveryType`, `DefinedOnce`, `VisitEnds` |
| `Fields_roundtrip` | 74 000 | `FieldsArrive`, `WrittenIsReadable`, `FailsForValues` for 1 000 struct types, every value of every field |

The remaining runs end in a violation and belong to section 4.

**Bounds.** `ClosingClient`: two calls are needed for one to be in the map while
another registers, or is rejected; two closers are
the first and "any other". `KeyMod` stands for 2^64 and only has to exceed the
number of calls, an assumption the proofs state (`KeyModAssumption`). The proofs
remove all these bounds. `CsvStream`: `WireCap = 1` blocks the encoder as soon as it is
two lines ahead; channel capacities 0 and 1 are the unbuffered and the
buffered case; `BodyLimit` is below the length of the longest files, so the limit
bites, and above that of the files of two rows. The codes are a success, an informational one, two without a
body, an error and no status at all, for files and for errors. `Routing`: two routes are enough for one to shadow another, eleven masks
cover static, parameter, trailing slash, longer prefix, root and a key twice; two longer tables
put three masks behind one pattern and a longer pattern next to it. `RpcCall`: a
call is independent of others (what `Close` does to several is in `ClosingClient`); all kinds of
calls over net/http's client are enumerated, and those with a JSON or a streaming response over each
stack of one or two layers. `MaxFaults = 3`: every set of up to three faults, since a call ends at
the first or second one it meets. `ErrorTransport`: up to four links, so that a registered, a coded and a
joined error meet in each order; seventeen maps of errors, with each pair of them; status codes 0, 102, 204, 299,
304, 409 and those of `errors`. `TypeVisit`: every graph of three types out of structs with one or two fields,
slices and maps, named or not, with an enum and a scalar to refer to; two fields with every
sort of tags and of embedding; pointers in containers; structs without names in each other, or with
fields of two structs, one of them without a name.
`MaxStack` is as high as any walk that ends needs (`MaxStackAssumption`). `Fields`: fields only meet in pairs (a shared key, the body and the rest, the
status and the rest), so one field of each kind and all pairs of kinds are
enumerated, three fields where a status, a failing header and a body meet, and single
fields with tags that do not go together, most of which validation refuses.

**Deadlock** is not checked where the system may stop: each of these models is
about a finite number of calls that end.

**Fairness.** `ClosingClient`: the scheduler runs every goroutine that can run
(weak fairness per process; a goroutine takes the mutex a bounded number of times,
so nobody starves), and a wrapped client returns from `Do` once its context is
done, which is the contract of `http.Client`. Nothing is assumed of a `Do` whose
context is alive, and no `Close` need be called. `CsvStream`: each of the four
goroutines runs when it can, and a server notices a broken connection; the
consumer may stop for ever, which the liveness properties exclude explicitly
where the code does not survive it (`res.Rows <- record` has no `select`).
`RpcCall`: client, server, transport and `Close` run; handlers and readers of streams end.
`TypeVisit`: the one goroutine of a generator runs. `ErrorTransport` and `Fields` need none.

**What the properties say that is easy to overlook.** `RoundTrip` has a
precondition: parameter values that are one path segment, and no *rival* route —
an earlier one of the same pattern and method that fits the path, or a longer
pattern that takes it. Outside of it the code routes a call to a handler it was not
made for, as first-match dispatch must. Nothing refuses a mask with one key twice: the classifier
takes any two parts for it and keeps the last, so `DispatchIsFirstFit` and `RoundTrip` leave such masks out
(`KeysDiffer`), as they leave out a mask that the mux redirects (`IsClean`). `AnswersTheHandler` names the two ways an
error of a handler becomes a nil error of `Call`: a `use_as_status` field, which
the repository's README states, and an error whose `HttpCode()` ends as a 2xx, being one or
informational (`net/http` then sends a 200), which nothing states. `DeliveredIsPrefix` and
`CompleteOnNil` name the same case for CSV (`PassesForFile`): `csvEncodeError` takes the status
from `HttpCode()`, so `csvDecodeResponse` reads the text of such an error as a file, its first line
as the header, sends the others to `Rows`, and `Call` may return nil. `TypedErrorArrives` holds for chains: behind an error that wraps several
(`errors.Join`, two `%w`) `errors.Unwrap` finds nothing and the detail is lost, though the
status, which `errors.As` looks up, is not. A registered `CodeError` arrives with empty fields,
which JSON does not see. `StatusIsTheErrors` excepts a chain with a `json.SyntaxError` in it: it
is a 400 whatever the `HttpCode()` of the outer errors. `NothingInvented` needs that no name stands for one
type here and for another there.

`FindsEveryType`, `DefinedOnce` and `VisitEnds` name what typegen does not survive: a container
that holds itself with no struct between (the walk overflows), a named container that go/doc
does not list, as one without an exported name (`getDoc(t).Doc` of nil), an enum behind
a pointer in a container (no values, or a panic), an embedded date or interface (the printers look up nil). A named container on a
cycle is defined twice; a struct without a name inside another one is named after its
field alone; `RefName` takes only the last element of a package's path.

`FieldsArrive` names in `Carries` the values that do not arrive: a status of 0 or below 200,
spaces around a header value, a byte no cookie has, and, for a string type of its own
(not `string`) outside the body, everything after the first space, and the empty text into an
object that was used before. It also leaves out an untagged field beside a
`use_as_body` field, which validation accepts and nothing sends, and two fields with one
place and key, of which one wins. `FailsForValues` says the rest of what can go wrong
is the application's choice of a value, or an unexported field with a `url` tag.

## 4. Where code and documentation part

| Run | Property | What happens |
|---|---|---|
| `CsvStream_truncated` | `NilMeansDownloaded` | The server's context ends in the middle of a file: the encoder's error is only logged, the response ends cleanly, `Call` returns nil with rows missing. |
| `CsvStream_rowsclosed` | `RowsClosedOnReturn` | When the handler returns an error, `Rows` is never closed; a consumer that ranges over it hangs. `ConsumerEnds` holds from the moment the decoder has the response. |
| `Routing_matcher` | `MatcherAgrees` | `GetMatcher` finds nothing for a route with a URL parameter. `MatcherAgreesWithoutParams` is the part that holds. |
| `RpcCall_openbody` | `OpenBodyHasOwner` | An error answer to a call whose response streams leaves a body nobody can close. `BodyReleased` is the part that holds. |
| `RpcCall_streams` | `StreamsClosed` | A closed `ClosingClient` rejects a call without closing the stream of its request; and a header or cookie field that does not encode leaves the handler's reader open (`HandlerReaderReleased` is the part that holds, for a caller that reads the stream). |

Behaviour of the same kind that no document contradicts: bodies handed over by
`ClosingClient.Do` stay readable after `Close` (the map no longer has their cancel
function); a request that does not encode (json_transport.go:148) leaves its stream
open like a rejected one; a response that fails to encode is a success with a
zero response when its type has no JSON body; a `DebugClient` copies a body of any size before `Call`
limits it, and never closes the stream of a request, which it replaces by a copy; `ClientTemplate` of
`TypesGenConfig` is set by default and not read.

## 5. What is proved

Every theorem is about a specification without fairness (`Safety`, or `Spec` where there is
none) and holds for every value of the constants that satisfies the assumptions of its module. In
each proof module `IInv` is the inductive invariant, `Invariance` says that it is one, with one
lemma per action or group of actions, and the other theorems follow from it. TLC has checked
each `IInv` on small instances too.

| Module | Theorems (the property each states) | For every |
|---|---|---|
| `ClosingClient_proofs` | `TypeCorrect` (`TypeOK`), `CancelsCorrect` (`CancelsAreLive`), `NoneMissed` (`NoMissedCancel`), `NoPanic` (`NoNilMapWrite`), `QuietWhenClosed` (`ClosedMeansQuiet`), `AddWaitExclusion` (`AddNeverRacesWait`), `SafeRefinement` | finite set of calls, set of closers, `KeyMod` larger than the number of calls |
| `RpcCall_proofs` | `TypeCorrect` (`TypeOK`), `HandlerAnswered` (`AnswersTheHandler`), `ErrorsArrive` (`ErrorsReachCaller`), `AnswersAreGenuine` (`AnswerIsGenuine`), `BodiesReleased` (`BodyReleased`), `ClosingHolds` (`CloseWaits`) | kind of call, stack of HTTP clients of any height, number of faults |
| `CsvStream_proofs` | `TypeCorrect` (`TypeOK`), `ProducerDone` (`ProducerOutlived`), `RowsInOrder` (`DeliveredIsPrefix`), `AllRowsOnNil` (`CompleteOnNil`) | length of the file or of the text of an error, status code, capacity of the channels and the wire, limit of the body |
| `Routing_proofs` | `TypeCorrect` (`TypeOK`), `FirstFit` (`DispatchIsFirstFit`), `RightlyRefused` (`RefusalIsRight`), `CallsArrive` (`RoundTrip`), `MatcherRight` (`MatcherAgreesWithoutParams`) | length of the table, masks, values, paths |
| `ErrorTransport_proofs` | `TypedErrors` (`TypedErrorArrives`), `NoInvention` (`NothingInvented`), `Statuses` (`StatusIsTheErrors`) | length of the chain, size of both maps of errors |
| `TypeVisit_proofs` | `EveryTypeFound` (`FindsEveryType`), `EachDefinedOnce` (`DefinedOnce`), `TypeCorrect` | finite graph of types, any roots, any stack |
| `Fields_proofs` | `TypeCorrect` (`TypeOK`), `AllFieldsArrive` (`FieldsArrive`), `Readable` (`WrittenIsReadable`), `FailureIsTheValues` (`FailsForValues`) | number of fields, keys, tags, path; the values are the texts of the module |

**Why the invariants are needed.** No checked invariant but the simplest is inductive by itself.

- `ClosingClient`: `IInv` adds who may hold the mutex in which
  state, that at most one closer is ever in the range loop and what it has still to
  visit, that a flag once set and an emptied map go together, that keys are handed out
  in order, each to one call (`lastCancelKey` is the number of calls that have one, which
  is less than `KeyMod`), and that the counter of the wait group is the number of calls
  inside. `SafeRefinement` maps every step of the detailed client to a step of the abstract
  one or to a stutter.
- `RpcCall`: `ServerInv` ties the payload and the status line to what the handler did and to where it
  is, `ClientInv` the body to where `Call` is, `LayerInv` the layers a call is in to what
  its closing client has admitted, `QuietInv` says that a call that no fault touches is
  still on its way to `Verdict`. `ClosingHolds` refines `AbstractClosing` with the one call of
  this module, so a call over a `ClosingClient` is closed as `SafeRefinement` promises.
- `CsvStream`: each place a row can be (producer's channel, encoder, response writer's buffer, wire,
  decoder, consumer's channel, consumer) holds an interval of the lines of the file, or of the text of
  an error, and each interval starts where the one before it ends; once the response is broken only the
  consumer's side of that chain is left. That the delivered rows are a prefix of `RowsOfBody`
  follows because both are the records among lines that were read in order. `SuccessInv` ties the decoder to
  the status: it reads rows only after a success, so the text of an error only if that
  passes for a file.
- `Routing`: `IInv` is short, for the server keeps no state: what is bound to a pattern are its routes, the request
  of a call is the mask with its values, an answer is `Reply` of its request. The work is in lemmas about
  the operators: `Flattened` (what `FlattenSeq`, a recursive function, makes of a mask), `SplitMeans` and `MaskPartsMean` (what is
  between the first and the last full part), and over them `MatchFits`, `CanFitMatches` and `MatchCanFit`, which tie
  the classifier's `Matches` to `Fits`, what a mask means; `CutMeans` and `BuiltIsCandidate` (a path built
  of a mask is in its pattern), `Longest` (which pattern the mux finds) and `HandlerMeans`.
- `ErrorTransport`: three stages; what is at each is a function of the error, the two maps and the
  fault. The work is in two lemmas: `errorToCode` and the recursive search of `detectErrorType`
  find the outermost error of their kind in a chain of any length.
- `TypeVisit`: while `visitType` is at part n of a type, the parts before n are finished: all that
  is in them, through containers, is marked (`Covers`). A marked struct that is not
  finished is on the stack. What is on the stack leads to what is above it, which makes a
  container that is marked twice one on a cycle. A struct without a name gets one from a struct
  with a field of that type. `Reached` is the least closed set; `ReachIsLeast` shows that the bounded recursion
  of `Reach` computes it for every finite graph.
- `Fields`: `MessageInv` says whose text each key of the message holds, as its place carries it;
  `EncodedInv` that a message encoded without an error lacks nothing. The rest are lemmas
  about the operators: `Accepted` and `AcceptedPlaces` (what validation leaves of the ways to tag a
  field: one place, one status, one body, a URL field for each key of the path), `TextsMean`
  (last or first of equal keys, it is one of them), `StatusMeans`, `CarriedIsRead` (`fromString` undoes
  `toString` where the place carries the value).

**Induction.** The library's induction theorems take a predicate as a parameter, which the provers
cannot instantiate. `Induction` goes around it with sets: `LeastNat` (every nonempty set of naturals
has a least element, from the well-foundedness of inclusion of finite sets), `UpTo` (a set with 0 and the
successor of each of its members has all naturals), `Recursion` (a function defined by recursion
over an interval exists and satisfies its equations), `FirstAndLast` (a set of positions has a least and a
greatest element).

**What the proofs found in the models.** Four statements that TLC had passed on small instances were
wrong or could not be proved, and were corrected. With one `ClosingClient` inside another, the inner
one was told to close together with the outer one; in the code the outer one passes the close on only after it has
waited. `DefinedOnce` was false for graphs larger than those checked: a struct without a name
that is the type of a field of a named struct and of one without a name gets its
name from whichever was visited first, and then may share it with another (`Homeless` now says so, and
`SharedGraph` is such a graph). A `CodeError` with any code was among the errors, though only the
constructors make one (`ErrorsAssumption`). A mask with one key twice takes paths that it does not fit, and
a mask that the mux redirects reaches no handler: `DispatchIsFirstFit` and `RoundTrip` now leave them out, and the
instance has such a mask.

**Assumptions.** The named `ASSUME`s, which TLC evaluates in every run. They give the constants their types;
beyond that: calls are finite in number and fewer than `KeyMod` (`ClosingClient`); the graph of a job is finite,
parts are as the kind of a type has them, an enum has a name, and the stack holds every walk that ends
(`TypeVisit`, the last for TLC only, no proof uses it); a wire holds a line (`CsvStream`);
masks, values and paths are not empty sequences, as a string always has something between its slashes (`Routing`); the codes of
`CodeError` are those of its constructors, and 101 is no status of an error (`ErrorTransport`); 101 is no status of
a file or an error, and the CSV writer writes no line that the reader refuses (`CsvStream`).

**Only model-checked.**

- Liveness under fairness, which the prover cannot do: `CloseReturns`, `DoReturnsOnceClosing`, the liveness half
  of `ImplementsAbstract`, `HandlerEnds`, `CallReturns`, `ConsumerEnds`,
  `InteractiveDelivery`, `HandlerReaderReleased`, `VisitEnds`.

## 6. What is not modelled

- JSON keys, attributes of cookies other than name and value, and types in a query,
  header, cookie or URL that `fmt` prints in a form it cannot scan (validation accepts
  them; `StructsAssumption` excludes them).
- `validateHandler`'s look at the shape of the function type.
- Custom encoders of `JsonTransport` other than CSV; transports without
  `DecodeResponseAndError`.
- Back-pressure of the connection in `RpcCall`: `HandlerReaderReleased` holds for a caller that reads the
  stream of a response, as the repository's README (108-109) asks; with one that does neither read nor
  close it, `io.Copy` waits for ever. `CsvStream` has back-pressure.
- Letter case of header keys: two tags that differ in it are one key for `net/http`, so a key of `Fields` is the
  name in the form of `net/http`.
- Status 101 of a CSV response or error, which hands the connection over.
- The `human` flag (layout of JSON) and the form parsing it needs.
- `http.ServeMux` patterns with a host or a method, CONNECT requests, `RawPath`.
- Reuse of one `CsvResponse` for two calls.
- `NewClient`'s map from a pair of types to its route, and the options: a lookup, and setters.
- Generators and examples, and of typegen the text that is printed, the values of enums and the
  loading of packages: they format text or call external tools.
- Memory: contexts that are never cancelled on the normal path of `Do`.
- Two readings of one error: `errorToCode` and `detectErrorType` look at it once each and do not change it.

## 7. Plan

Most important behaviour first; all of it is done.

1. `AbstractClosing`, `ClosingClient`, their refinement and proofs.
2. `CsvStream`.
3. `Routing`.
4. `RpcCall`.
5. The divergences of section 4.
6. `Fields`: validation, `prepare`, and the round trip of a request and a response.
7. `ErrorTransport`: status and type of an error across two registries.
8. The stack of HTTP clients and `Client.Close`, in `RpcCall`, over `AbstractClosing`.
9. `TypeVisit`: the walk of typegen.
10. Proofs of the invariants of `RpcCall`, `CsvStream`, `Routing`, `ErrorTransport`, `TypeVisit` and `Fields`.

What could follow: what a mask with a key twice gives its handler; one `CsvResponse` used for two calls; the names of
enums' values and the text that typegen prints, which are not modelled.
