# A verification project for tonic2axum

tonic2axum puts REST and web socket endpoints (axum) in front of gRPC services (tonic). It has two
crates. `tonic2axum-build` runs in a build script: it reads the proto descriptors and the structs that
prost generated, and writes handlers and a router for each service. `tonic2axum` is the small runtime that
these handlers call. This directory holds TLA+ models of both, checked with TLC, and proofs checked with
TLAPS. `PROJECT.json` maps every definition to the lines it models and lists all runs, mutants, hazards,
findings and theorems.

## Inventory

| Component | State | Operations | Interacts with |
|---|---|---|---|
| Request stream adapter, `streaming/mod.rs` | one-place buffer `next` and the upstream, shared by two clones behind a mutex | `poll_frame`, `decode` | polled by `tonic::Streaming`; polls `JsonLines` or the web socket |
| Web socket sessions, `streaming/ws.rs` | the two halves of a socket, the status to close with | `upgrade_to_ws`, `make_ws_request`, `make_ws_stream_request`, `process_ws_response`, `process_ws_stream_response`, `close_ws` | called by the generated callbacks; client and service on either side |
| HTTP conversions, `lib.rs`, `streaming/http.rs` | none of their own; the exchange has a head and two bodies | `make_request`, `make_response`, `make_stream_request`, `make_stream_response` | called by the generated handlers; driven by hyper |
| Field binding, `http.rs`, `message.rs`, `codegen/helpers.rs` | `NewMessages`, shared by all methods | `HttpOption::parse`, `get_or_create_*_message`, `FunctionParts::new` | called by `generate_func` |
| Service generator, `codegen/generator.rs`, `HttpOptions` | option table, message table, structs, modules | `generate`, `finalize`, `finalize_package` | driven by prost-build |
| Builder, `builder.rs` | a configuration record | setters, `compile*` | starts prost-build |
| Example services, `examples/` | `ws-streaming`: a timer and a stream; `streaming`: a mapped stream | `bidi_echo`, `say_hello` | called by the generated handlers |

What is hard in this code:

- two clones of one helper that must be called in step by a reader the repository does not own, with polls
  that are cancelled and decodes that fail;
- a session in which the client, the socket's own close handshake, the handler and a service with tasks of
  its own all act at once, and in which every failure has to become the right close frame, once;
- the end of the input: a normal close, an error code and a lost connection reach the code as different
  values, and only one of them may look like a normal end;
- a response whose status is sent before the first reply is made: later failures can only cut it;
- a lazy service between two connections that both fill up;
- a division of message fields over path, body and query string whose cases (all, one, or none left) are
  told apart by counting, and structs that are shared by methods that do not know of each other;
- tables that outlive the service, file and package they were filled for, read back in an order that
  prost-build decides.

What makes each component correct:

- adapter: each upstream result reaches the service once and in order, the end comes last, no wake-up is
  lost;
- session: replies in order; NORMAL only after all of them; a close for every client that is still there; a
  clean end of the input only from a client that closed cleanly; the task ends after its client has left;
- HTTP conversions: status and body agree; an error after the head has been sent is visible; a body that
  broke off is never taken for a complete one;
- binding: the request parts hold each field exactly once; each pattern fits its struct; the request that is
  passed on holds all of it;
- generator: each package gets its own code, and all of it; a method gets its own option and message.

## Modules

| Module | Models | Shown to implement |
|---|---|---|
| `ItemStream` | what a request stream promises a service | (abstract) |
| `ReplyStream` | what a streamed response promises a client | (abstract) |
| `FrameHelper` | `FakeGrpcFrameStreamingHelper` under calls in any order | `ItemStream` |
| `StreamingRequest` | the helper composed with the gRPC reader and an awaiting service | `ItemStream` |
| `WsSession` | a web socket session of any of the three streaming kinds | `ReplyStream` |
| `EchoSession` | the same session with the service of `examples/ws-streaming` | `ReplyStream` (by proof) |
| `HttpSession` | one HTTP exchange of any of the four kinds of method | `ReplyStream` |
| `HelloSession` | the same exchange with the service of `examples/streaming`, or a free one | `ReplyStream` |
| `Binding` | the binding of methods, one after the other, with the structs they share | |
| `Generator` | a whole build: configuration, options, files, services, packages | |
| `FrameHelper_proof`, `StreamingRequest_proof`, `WsSession_proof`, `EchoSession_proof`, `HelloSession_proof`, `Binding_proof`, `Generator_proof` | theorems (`ReplyStream` holds its own) | |

The `MC*` modules give the constants values for TLC. Definitions marked `(mutant)` stand before the
definition they distort; they are used by no specification, and show for each property a plausible bug that
it catches.

### FrameHelper

The mutex makes each call of `poll_frame` and `decode` atomic, so each outcome of a call is one action.
`arrived` is the history of the upstream, `polled` how much of it `lines.poll_next` has returned, `next` the
buffer, `delivered` what `decode` has handed out, `finished` whether `Ready(None)` was answered, and `reply`
the answer of the last call. Both clones may be called in any order: `NothingLost` and `EndAfterLast` hold
without any discipline of the caller. The reader below is disciplined: it never polls while a result is
buffered, so a second poll, or the end, before the first result was taken is covered by the proofs of
`FrameHelper_proof` only and does not occur in the run.

### StreamingRequest

`tonic::Streaming` is external. It is modelled as the length-prefixed reader that the comments in
`ws.rs:110` and `http.rs:24` speak of: collect bytes, take a five byte header (the fake frame's zeros say:
uncompressed, length 0), call the decoder, ask the body for a frame when there is nothing to decode. After a
failed decode it may stay inside the message or be finished for good; both are in the model. A service may
drop a pending poll. The frames are counted in bytes because `EmptyGrpcFrame::advance` does not advance:
`remaining` is 5 for ever.

`SurplusNeedsErrors` describes how far reader and results may drift apart: not at all before a decode
fails, by one frame after one failure (absorbed by the next header), and after two the end of the stream is
answered with "Unexpected EOF", at every poll. This is why `EndIsReported` excludes streams with two
failures.

### WsSession and EchoSession

`pc` follows the callback of the generated handler: `upgrade`, `await_request` (server streaming only),
`calling` the service, `streaming` its replies, `sending` one, `finishing` (the close frame), `closing`
(`ws.close()`), `done`. `sent`/`rd` and `wire`/`rcvd` are the frames of both directions and how many of them
were read. A client sends messages, pings, frames that do not decode (`bad`) and frames that the socket cannot
read (`broken`: too long, no UTF-8, no web socket frame). The latter end the requests with an error of a client
that is still there, and the socket may still send. The socket (axum over tungstenite) is external: `tx` is
whether it still sends (a Close that was read or sent ends sending, a later send is an error), `owed` an echo
that the next flush will send, `rx` whether there is more to read. A send waits while `OutCap` frames are in
transit.

The service reads its request stream in any step of the session, also while the handler sends, for it may have
given the stream to a task of its own, and after the end. Reading goes through the adapter, which by
`FrameHelper` is an `ItemStream`, so here a read gives the service the converted frame at once. The read half of
a server streaming method is dropped after the first message (`rx = "dropped"`).

A reply fails to encode only on the JSON route, and only if it is one of `Unencodable`; encoding protobuf
into a growing buffer does not fail.

### HttpSession and HelloSession

A request has a body of lines; for a method without client streaming the body is its one message. Its extractors
run in the order of the handler (`Extract`): `Path` and `Query` refuse with 400 or 500, whatever the body, and
`Json<T>` with 415, 400, 413 or 422, or takes the message whole. A client streaming body is left to the service:
`ReadLine` is `JsonLines` behind the adapter, `ReadLost` a body that breaks off. `MakeOkResponse` and the status
table `HttpStatus` are `make_response`; `SvcEmit`, `SendLine`, `SvcStreamFail` and `EndBody` are
`make_stream_response` polled by the connection. A reply that does not serialise cuts a stream, whose head was
sent; a single one is answered with 500 or with the 200 of the tuple, whichever axum lets stand.

hyper is external: it polls the response body when there is room (`OutCap` lines in transit), passes on the
request when it is asked for (`InCap`), and drops the handler when the client has left.

`HelloSession` gives the exchange either a free service or the lazy one of the example, whose one poll
(`HelloPoll`) reads a request and makes a reply. It is where liveness can be stated: with a free service
nothing must happen.

### Binding

A method is its input message, path variables, body and whether the client streams. `BindMethod` is
`generate_func` from `HttpOption::parse` to the handler: the fields taken by the path (`PathFields`), those
the body takes (`BodyFields`), and the rest for the query string, each part either the whole message
(`verbatim`), a nested message (`single`) or a struct of `NewMessages` (`fields`). The fields of a message
and of a part are sets, for the order in which the code keeps them only shows in the text; the code tells
the cases apart by comparing lengths, and so does the model (`Cardinality`). Errors panic and end the build.
Methods come in any order; the structs in `bodyMsgs` and `queryMsgs` outlive them. Names are symbolic: a
struct's name is its message, suffix and number. As text these are as distinct as that for suffixes like the
default ones of the run; the builder only asks that a suffix is not empty, and so does `BindingAssumption`,
and no theorem is about names.

### Generator

A build is a sequence of files, each with a package, messages and services. `phase` follows `compile_fds`:
`config` (the setters of the builder, any number of times), `generate` (prost-build goes through the files:
`BeginFile`, `Generate` for each service, `Finalize`), `packages` (`FinalizePackage` for each package with
services, in any order, as prost-build's hash map gives them), then `done`; a panic is `failed`. What
outlives a service is the state: `options` is the table of `HttpOptions`, filled from all files before the
first service; `existing` the messages of `ExistingMessages`, keyed by the bare name and never cleared;
`newMessages` and `modules`, which `finalize_package` writes out and never clears. How the rest of a method is
bound belongs to `Binding`; a rule here takes some fields by its path and has `*` or nothing as its body.

A service has two names: `proto`, the one in its file, and `name`, the one prost gives to its trait
(`APIService` becomes `ApiService`). The option table is keyed by the first and asked with the second
(`OptionsOf`). It is known by its place (`Slots`: file and position), because two packages may each have a
service of one name, and `Latest` is the one whose options the table keeps. A module has its service, and its
handlers at the positions of their methods, so that order and gaps (methods without a rule) are in the model
without building a list. `Insert` is `HashMap::insert` for all entries of another table.

## Runs

| Run | Question | Bounds |
|---|---|---|
| `streaming_request` | the helper in step with its reader: nothing lost, the end last, every result and the end arrive | 3 results to tell apart, streams of 4: an error, a result after it, a second error, one more |
| `ws_session` | safety of a session, the silence after the last request included | 2 frames and a Close of the client, 2 replies, 1 frame in transit; 573,896 states |
| `echo_session` | Ok means that all is echoed; a client that stays has its echoes; the service stops after its client; a client that reads gets its echoes | 2 frames and a Close, 4 replies, 1 greeting; 30,586 states |
| `http_session` | safety of an exchange; answers to full and half duplex clients | 3 lines (= `InCap` + `OutCap`, the longest body that fits), 2 replies; 46,546 states |
| `binding` | binding of fields, sharing of structs | messages of 0, 1 and 3 fields, all methods of up to 2 path variables, 3 methods in a row; 16,457 states |
| `generator` | packages complete and, if there is one, exact; own messages | 2 files, 2 services of up to 2 methods, one package or two, namesakes among services and messages, a renamed service, methods that take nothing or an imported message; 237,286 states |
| `ws_unary_reply`, `http_success`, `binding_empty_request`, `generator_options`, `generator_packages`, `generator_ws_routes` | findings, see below | those of the component's run; `http_success` with 1 line and 1 reply |

The bounds suffice because the components have little memory. The helper's buffer has one place and its
reader is at most two failures away from its worst state. A session or exchange differs only by the next
frame, the next reply and whether the connection has room; `OutCap = 1` makes a send wait as often as
possible. A struct is reused or made by comparing with those before it, and three methods give every case
(new, reused, second number). What a table keeps from one service to the next shows with two services: in one
file, in two files of a package, in two packages, and with one name for both.

Deadlock is checked in every run. A finished session or build repeats its last state (`Over`).

### Fairness

- `FairReaderSpec`: the executor runs a ready task, a waker that fired wakes it, a poll that was started
  completes, and a service that awaits the stream polls again. Nothing is assumed of the upstream.
- `FairEchoSpec`: the handler and the service run when they can (tokio polls both branches of `select!`, and
  greetings are at least five seconds apart). Of the client only this is assumed: after it has sent a Close
  it reads until it gets one or vanishes, as the closing handshake asks. A client that is open may stop
  reading for ever, which blocks the handler in a send; `StopsWhenClientDisconnects` says nothing until it
  leaves.
- `HelloSpec`: the executor runs the handler and the lazy service when they can go on. Nothing is assumed of
  the client, or of a free service.

What a property asks of a client is a premise of the property: that it reads (`EveryRequestIsEchoed`,
`EveryLineIsAnswered`), or that it first sends its whole body and then reads (`HalfDuplexCompletes`).

`HalfDuplexCompletes` is exact (and `HalfDuplexNeverStuck` proves the bound for all capacities): with `MaxLines
= InCap + OutCap + 1` TLC finds the deadlock of a client that writes all before it reads and a service that
makes a reply only when it is asked for one. The comment in `examples/streaming/src/main.rs:35` promises half
duplex for "REST" without a length, and real connections have room for many lines, so this is a limit and is not
listed as a finding.

## Findings

Each is a run that ends in a counterexample; `PROJECT.json` quotes the code.

1. `ws_unary_reply`: a client streaming request over a web socket ends with the client's Close. After the
   socket has read that, it refuses to send: the reply is always lost for a service that reads its whole
   request first. The run shows one such session; the theorem `NothingToSayAfterLastRequest` says it of every
   service and every client, for bidirectional methods too, unless a frame that could not be read ended the
   requests.
2. `http_success`: the generated documentation says that a 200 carries the reply. An `Err` with the code Ok is
   answered with 200 and the status text. The theorem `ReplyIsLostTwoWays` says that the only other way to lose
   it is a reply that does not serialise.
3. `binding_empty_request`: no body and no path variables: the query string is extracted as the whole message,
   and then dropped for `T {}`.
4. `generator_options`: the options of a service are kept under its name in the proto file and asked for with the
   name of its trait. A service that prost renames gets no handlers, and no error. The theorem
   `OptionsAreLostTwoWays` says that the only other way is a later service of the same name.
5. `generator_packages`: with services in two packages the code of each package gets the modules of both,
   which refer to their service by `super::` and so cannot be compiled in the other package.
6. `generator_ws_routes`: two streaming methods on one path with different verbs get the same web socket
   routes, which axum refuses when the router is built.

Three more were seen in the code, and have no run:

- The refusal of client streaming with query parameters (`helpers.rs:157`) misses the query that is the whole
  message; the cause is that of finding 3, and `OnlyWholeQueriesEscape` says that nothing else passes it.
- Two path variables get two `Path<T>` extractors (`helpers.rs:192`); axum's `Path` of a single value fails on a
  route with two. The expected output of the tests contains such a handler (`tests/testdata/test.v1.rs:638`).
- A trait object is refused for client streaming (`generator.rs:117`), but it is server streaming that adds the
  associated type it lacks: such a service passes and does not compile.

## Proofs

Every theorem is for all values of the constants that meet the named assumption of the module:

- `FrameHelperAssumption`: items and errors are disjoint, `NoResult` is neither.
- `WsSessionAssumption`, `HttpSessionAssumption`: what a service answers with are replies and gRPC codes, the
  bounds are numbers, and over a web socket a request can be told from the other frames.
- `EchoSessionAssumption`, `HelloSessionAssumption`: the examples' replies are replies; an echo is no greeting.
- `BindingAssumption`: the field names of a message are distinct, the suffixes are not empty.
- `GeneratorAssumption`, what protoc has checked: methods of a service have distinct names, a package has one
  service of a name, and a method takes nothing, a message
  declared in its own package (in this file or an earlier one), or an imported one, whose path is no name of a
  message. Nothing is assumed of the rules, or of the names that prost makes.

The bounds (`MaxFrames`, `MaxReplies`, `OutCap`, ...) are constants like the others: a theorem holds for all of
them.

### The adapter

`FrameHelper_proof`:

- `TypeCorrect`: `TypeOK` is invariant.
- `NothingIsLost`: `NothingLost` is invariant. It is inductive together with `TypeOK`: what was polled is
  what was delivered plus what is buffered, and both equal the upstream at their positions.
- `EndIsReportedLast`: `EndAfterLast`, which needs `NothingLost`: with the buffer empty and everything polled,
  everything is delivered.
- `RefinesItemStream`: the helper implements `ItemStream` (polls stutter, `DecodeTake` is `Deliver`,
  `PollEnded` is `Finish`). `NothingLost` says that the delivered result is the next one.

`StreamingRequest_proof`, about the composition with the reader:

- `ReaderUsesHelper` and `ReaderRefinesItemStream`: a behaviour of the composition is one of the helper, and so
  one of `ItemStream`; the facts above carry over.
- `ReaderTypeCorrect`: `ReaderTypeOK`, the types of the composition, which the proofs below rest on.
- `NothingStranded`: `NoStrandedResult` is invariant, by the stronger fact that the buffer is empty whenever
  the service is not inside a poll.
- `CleanEndComplete`: `CleanEndIsComplete` is invariant. A reader that is done without having failed was told
  so by `PollEnded`, and nothing arrives after that.
- `SurplusTakesErrors`: `SurplusNeedsErrors` is invariant. The inductive invariant `InStep` weighs the bytes the
  reader holds (`Ahead`) against the result in the buffer (`Behind`): they are equal until a decode fails, one
  frame apart after the first failure, and anything further apart needs a second one.

### Streamed responses

`ReplyStream` proves its own `Promise` (`PromiseKept`): the client has a prefix of what the service offered,
and all of it if the stream ended normally. The proofs below show that web sockets (`SessionImplementsReplies`,
`EchoImplementsReplies`) and HTTP (`ImplementsReplies`) refine it; `SessionKeepsPromise` and
`ExchangeKeepsPromise` draw the conclusion, in terms of the frames and lines that were really sent.

`WsSession_proof` first splits `Next` into the actions of `Step`, and then shows, each by one lemma with one
step per action:

- `WsTypeCorrect`: `ReadTypes` and `SendTypes`, which also say at which `pc` a reply or a status is there.
- `NoSessionEndsSilently`: `NoSilentEnd`. The inductive `Closing` says what may be on the wire for
  each state of the socket: data frames while it is active, one Close at the end after that, an echo owed only
  to a client that has closed.
- `FirstRequestOnly`: `RequestIsFirst`, by `FirstMessage`: before the call only pings were read.
- `CleanEndHasAllRequests`: `CleanEndMeansClientFinished`. By `InputRead`, as long as no error was handed over
  (`NoError`), the service has the requests among the frames read so far, each in its place; by `ClosedByClient`
  an end without an error was read from a Close, and nothing follows a Close.
- `NothingToSayAfterLastRequest`: the action property `NoReplyAfterLastRequest`, by `ReadOver`: once the service
  was told of the end, the read half is closed or has failed; a closed one means that the socket does not send,
  a failed one that the client is gone or that the last frame could not be read. The latter is the premise of
  the property: after such a frame the socket still sends.
- `SessionImplementsReplies`: the refinement of `ReplyStream`. `Carrying` relates what is on the wire to what
  the service emitted at each `pc`; `Closing` says when the mapped verdict is set, and that it is set once.

`EchoSession_proof` reuses these invariants, for all steps of the example but its read are steps of `WsSession`
(`EchoStep`), and its read is a read of the request stream followed by one branch of the `select!` (`EchoReads`):

- `OkAfterAllEchoes`: `OkMeansAllEchoed`. `Counted` says that, as long as nothing failed, as many echoes were made
  as requests were handed over, and all of them are on the wire but the one in hand (`Unsent`); by `InputRead`
  the requests handed over at a clean end are all of the client's.
- `StayingClientIsServed`: `StayingClientHasEchoes`, by `Staying => Kept`: as long as the client stays and sends
  what can be decoded, no error is in the input, no send fails, and so the loop ends only at the client's Close.
  `OwnReplies` says that the replies are echoes and greetings, so that both encode.
- `EchoImplementsReplies`: the refinement of `ReplyStream` under the fair specification.

`HelloSession_proof`, with either service:

- `HttpTypeCorrect`: `RequestTypes` and `Response`, which says what the response is at each stage of the handler.
- `FailuresAreVisible`: by `FailureShown`; the status table gives an error status to every code but Ok
  (`HttpStatusOfError`), and a stream that fails is cut in the same step.
- `ReplyIsLostTwoWays`: a response 200 without a reply has one of two causes (`OneOfTwoCauses`), which bounds
  finding 2; by `Response`.
- `CleanEndsAreComplete`: by `ReadSoFar`: without an error among them the results are the lines read so far,
  and the end is told only when all were read; after a loss there is an error.
- `ImplementsReplies`: the refinement of `ReplyStream` under the mapping of `Verdict`.
- `HalfDuplexNeverStuck`: what can be proved of `HalfDuplexCompletes`. `InTransit` says that the lazy service has
  answered what it has read. If a client with at most `InCap + OutCap` lines waits to send, then the response has
  room and there is a line to read, so the exchange is finished or a guard holds (`CanStep` spells the guards
  out); each step adds to `Progress`, which is bounded. That a step whose guard holds is taken is the fairness.

### The build script

`Binding_proof`:

- `EveryFieldBoundOnce`, `EveryBuilderComplete`, `VerbatimIsAlone`: `SharedOut` says that path, body and query
  share the fields out; `BodyCases` and `QueryCases` say what each handling means for the fields, where
  `IntactIsWhole` turns a comparison of lengths into one of sets. `OneHandler` puts them together for one method.
- `EveryPatternMatches`, `NoStructTwice` (`StructsApart`: two structs of one message and part differ in their
  fields), `BindingTypes`: the inductive invariant numbers the structs of each list and lets no two have the
  same fields (`Numbered`); `GetOrCreateAnswers` shows that a step keeps what is there and answers with a struct
  of the fields that were asked for, so the patterns of older handlers still match.
- `OnlyWholeQueriesEscape` bounds finding 3 and the refusal named after it: without a query string that is the
  whole message, a request is made without fields only when there are no extractors, and client streaming has no
  parameters.

`Generator_proof` has one inductive invariant (`GeneratorInductive`) in four parts. `Setting` keeps the
configuration, the option table and the place in the files. `Sourced` says that whatever is in the code of a
package, in `existing` or in a struct was declared by a file, and that no message of a file read so far is
missing. `Collected` says that the modules
are those of the services passed so far (`Passed`), each made (`Made`) from its own service, its package's
messages and the table's options, in order (`InOrder`), with their structs among `newMessages` and no others.
`PackagesWritten` says that what a package got is all there was, because nothing is added once packages are
written. From it:

- `EveryPackageComplete`, `OnePackageIsExact`: `AllPassed` says that at the end every place was passed; the
  order of the modules gives the second.
- `MessagesAreOwn`: `ParseSource` puts the package's messages over what other packages left, so a name that the
  package has is its own; `GeneratorAssumption` says that a name it does not have is in no table.
- `OptionsAreLostTwoWays` bounds finding 4: `LatestIsLast` (there is a last service of each name, by well-founded
  induction on places) and `OwnOptions` (the table's entry is that service's rules).
- `OnePackageHasOwnCode` bounds finding 5: with one served package no module gets into the code of another.
- `GeneratorTypes`: `GeneratorTypeOK`; that a struct has fields of its message only is a part of `Sourced`.

### Only model-checked

Liveness is out of the prover's reach: `EveryResultDelivered`, `EndIsReported`, `StopsWhenClientDisconnects`,
`EveryRequestIsEchoed`, `EveryLineIsAnswered` and, but for what `HalfDuplexNeverStuck` says,
`HalfDuplexCompletes`. `StructsDistinct` is checked for suffixes that differ; its part about fields is the
theorem `NoStructTwice`, its part about names depends on the suffixes. Every other safety property of a passing
run is a theorem. To reason about the tables and lists of `Generator`, the model avoids the operators that the
libraries define by recursion (`SelectSeq`, `FlattenSeq`) or that the prover does not know (`@@`, `:>`).

## Plan

1. Done: the adapter, its reader, sessions over web sockets and HTTP, the examples' services, the binding of
   methods and the build; their safety properties but `StructsDistinct`, and the refinements of `ItemStream` and
   `ReplyStream`, are proved.
2. To prove: the safety half of the other liveness properties, as `HalfDuplexNeverStuck` does it: full duplex
   (`EveryLineIsAnswered`), the echo session (`StopsWhenClientDisconnects`) and the awaiting service
   (`EveryResultDelivered`).
3. `Generator` with the steps of `Binding` in the place of its simple rules, so that the struct names of two
   services with one input message are in one model.
4. The OpenAPI attributes, as far as they must agree with the extractors.
5. The names of handlers, to state that a web socket handler (`echo_ws`) cannot clash with a method's
   (`EchoWs`).

## Not modelled

- The setters of the builder besides state types and flags (assignments to a configuration record), and the
  descriptor file that is written and read back: inside a build script it lies in a directory of its own.
- The OpenAPI attributes and the documentation comments: formatting. One hazard is listed: a query string
  that is the whole message is documented by a trait that messages do not get.
- The names of values and types as text, and so a clash of two formatted names.
- The pattern of a body that is a nested message, which carries the outer field's name: it is reached only by
  a field whose Rust type is the bare message, which prost never makes of a proto3 field.
- `MetadataMap` and extensions (passed through), and the texts of errors.
- The routers and main functions of the examples, and the `simple` example (one reply to one request, which is
  an exchange of `HttpSession`).
- Of the libraries (tonic, axum, hyper, tungstenite, prost-build) only what this code relies on is modelled,
  and marked external.
