# PipeForge in TLA+

PipeForge (`src/`) is a named-pipe client and server: a bounded asynchronous
client, a framed byte stream over overlapped I/O, a Protobuf codec, a server
whose worker threads share one domain gate, and two command-line programs. This
directory holds TLA+ models of these parts, their TLC instances, and TLAPS
proofs. `PROJECT.json` maps every definition to its source lines and lists
hazards, runs, mutants and theorems.

## The system

| Part | State | Operations | Module |
| --- | --- | --- | --- |
| client scheduler, `client.cpp` | pending map, queue, promises, flags under one mutex and condition variable; three threads | connect, call, close; write, read and monitor loops | `ClientConnection`, `ClientSession` |
| connecting, `stream.cpp` 12-79 | deadline, stop token, retry slice | look, wait, back off | `PipeConnect` |
| stream and framing, `stream.cpp`, `framing.cpp` | input buffer, decoder, `failed` flag | send, receive, consume, finish | `PipeStream` |
| overlapped I/O, `native.cpp`, `completion.cpp` | OVERLAPPED storage, two events, stop callback | read, write, accept | `Overlapped` |
| server host, `server.cpp` | pipes, workers, gate, stop source, counters | launch, stop, run, serve, dispatch | `PipeServer` |
| validation, `validation.cpp` | none | contracts of values, names, pages, classes | `Contracts` |
| class registry, `domain.cpp` | classes sorted by name | add, find, list | `ClassRegistry` |
| session store, `domain.cpp`, `builtins.cpp` | values, objects, bytes in use; shared identifier source | put, get, list, create, invoke, release, close | `SessionStore` |
| codec, `codec.cpp` | none | encode and decode requests and responses | `Codec` |
| dispatcher, `dispatcher.cpp` | none | dispatch, reject | `Exchange` |
| diagnostics, `diagnostics.cpp` | log and trace sinks, budgets, open scopes | construct, log, scope begin and end, finish, destroy | `Diagnostics` |
| programs, `cli/*.cpp` | arguments, diagnostic session, exit code | parse, run, handlers | `Application` |

The client's threads call a channel, which is a `PipeStream` that `PipeConnect`
opened and whose transfers are `Overlapped` operations. At the other end a
server worker receives, decodes, waits for the gate, executes against its
`SessionStore` and responds. `Exchange` composes contracts, codec, dispatcher,
registry and stores. Each concurrent model replaces the layer below by what that
layer may return. In `ClientConnection` the stream's `failed` flag, which
couples reader and writer, is kept.

What is hard here: three client threads and the controller all may end a
session; replies overtake the end of the send that caused them; deadlines race
replies; kernel operations outlive the decision to cancel them; the identifier
source is unlocked and relies on the gate; a record the store accepts must still
fit a message; trace scopes outlive their session.

## Correspondence

**ClientConnection.** One variable per member of `connection_state`, plus the
thread positions and the channel. A step is what a thread does between taking
and releasing `mutex_`, or one channel call. `asleep` holds the threads blocked
on `changed_`; `NotifyAll` empties it. `expired` and `stopReq` are deadlines
that passed and stops that were requested. `monitor_loop` samples `now` once
per scan; the model reads expiry live during the scan, which adds behaviours
and removes none. `Faults` selects what goes wrong: thread creation, opener,
I/O errors, a peer that leaves, a peer that answers with forged responses, at
most `Unsolicited` of them in flight.

**ClientSession** is the promise to callers (`client.hpp` 76-123): one session
opened once and ended once, each future resolved once, an end that resolves all
unresolved calls together. `ImplementsSession` is the refinement.

**PipeConnect.** Each client is one caller of `pipe_stream::connect`. The clock is
finer than the milliseconds of `WaitNamedPipe`, so that rounding a remaining
time up matters, and a wait of zero means the default wait of the system. The
server creates, recycles and closes instances at any time.

**PipeServer.** One `pc` per worker. Drawing an identity is two steps
(`ExecuteReads`, `ExecuteWrites`), because only the gate makes it atomic. The
request's outcome is reduced to what its bytes decode to.

**Overlapped.** Thread, kernel and stop callback are three actors. Destruction
follows the reverse order of the members: drain, unregister the callback, close
the events. A reported `disconnected` or `io_failure` is any failing code.

**PipeStream.** Both ends of one direction, byte by byte, with partial writes and
reads. Zero-byte transfers are part of `ReceiveAborts` and `WriteFails`.

**Contracts, ClassRegistry, SessionStore.** A value is a kind, a size or number,
and whether it is sound (UTF-8, finite). A name is its rank in the order of
strings. Charges are computed modulo the width of `size_t`. Classes are offered
to the registry in any order before the first session. A class whose `create` is
`"plugin"` stands for registered code that may return any state or result.
Every operation also records its outcome in `reply`, with the identity it is
about; `epoch` and `owner` are histories.

**Codec, Exchange.** A message is what the schema lets a parser see: whether it
parses, its size, its envelope and a body of fields. Encoding and decoding are
separate operators, each with its own refusals. An exchange (encode, decode,
execute or reject, encode, decode, match) is one step. The reader follows the
cursors of `list_values` or `list_classes` while sessions store, as the demo
program does. `Foreign` holds messages that this encoder would not write: unknown
fields, other versions, missing parts.

**Diagnostics, Application.** Each diagnostic operation holds the mutex and is one
step. The trace document is a sequence of records; any write or flush may fail,
and two paths may lead to one file. `Application` reads arguments one at a
time, opens the session they ask for, runs a handler with its threads and
computes the exit code; its phase `"library"` is any other program that uses
diagnostics from several threads.

## Runs

| Run | Instance | Shows |
| --- | --- | --- |
| `client_faults` | 2 calls, all faults; 1.7 M states | no promise forgotten, queue and map agree, no lost wake-up, late responses fail |
| `client_live` | 2 calls, no faults; 178,000 states | only a call under way ends a session; `ClientConnection` implements `ClientSession`; every future resolves, the workers of an ended session stop |
| `client_cause` | 2 calls, no faults | **violated**, see Findings |
| `store_objects` | 1 session, identities 1 to 3, integers -4..3, an arbitrary plug-in; 45,600 states | accounting, quotas, published states, failed operations change nothing, exact increments |
| `exchange` | 2 sessions, 3 identities, 3 classes, 20 requests of the reader's client and 6 of the other, 13 foreign messages; 31,600 states | a walk over values or classes misses and repeats nothing, every answer of the store fits a message, both codecs agree, each rejection has its code and its effect on the session, isolation, no identity issued twice |
| `server_faults` | 2 workers, 2 connections, 2 requests, all failures; 1.8 M states | identities under the gate, lapsed requests, cleanup, active count |
| `server_live` | 2 workers, 2 connections, launch may fail | workers drain after a stop, requests end, slots are reused |
| `server_statistics` | 1 worker | **violated**, see Findings |
| `overlapped` | a read and a write sharing a stop source | storage, callback, causes; a stopped or expired operation returns |
| `stream` | base-2 bytes, 2-byte header, payloads up to 2, 3-byte transfers, 2 sends or raw writes | bytes conserved, exact end verdicts, whole frames delivered |
| `connect` | 2 clients, 2 instances, half milliseconds; 80,000 states | deadlines kept and reported truthfully, retries paced, every connect returns |
| `application` | every argument list up to 5, 3 threads, 2 tracks, 3 events, 5 scopes; 199,000 states | arguments are accepted exactly when valid and the exit code tells what happened, no scope loses its trace, a complete verdict means a complete document, outputs close |

Every property of a passing run has a mutant, a small plausible bug in a mapped
definition. TLC finds the property violated when the mutant replaces it.

Why these bounds are enough to be interesting: two calls are one culprit and one
bystander; two workers contend for the gate, and one of them may serve both
connections in turn, so a slot is reused; the identifier source runs out in both
store runs; the byte limit admits some but not all records; in `exchange` one
long or two short values fill a page, one class description fills a message
exactly and another exceeds it; a header can be cut by a read and a transfer can
hold the end of one frame and the start of another; one deadline of `connect`
falls within a millisecond; three threads and five scopes exceed two tracks and
three events. The small numbers stand for 16 calls, 4 workers, 100 values and
objects, 8 MiB per session, 128 tracks, 100000 events and 1 MiB payloads.

Two bounds do not bind: two calls never exceed `MaxPending`, and a slot of
`exchange` opens one session. The proofs close both gaps, `Refinement` for every
quota and `IsolationSafety` for every number of reopened slots. Deadlock is
checked for the client and for `overlapped`. It is off elsewhere, where a bound
on requests, time or scopes, or a finished system, stops the model.

## Fairness

Client: runnable threads run, a timed wait ends, a stopped, expired or cut-off
channel call returns, deadlines pass. Nothing is assumed of the peer or of a
blocked write. Server: threads are scheduled, deadlines pass, and a worker
closing its session eventually gets the gate (strong fairness: `lock_guard` on a
timed mutex, which each holder leaves after bounded work; the standard does not
promise this, every practical scheduler provides it). A request waiting in
slices needs no such assumption, because its deadline ends the wait. Overlapped:
the kernel finishes what it was asked to cancel, and nothing else. Stream: a
started send and the receiver continue. Connect: clients run, waits end and time
passes; nothing is assumed of the server. Application: in the library phase,
open scopes end.

## Proofs

All theorems hold for every value of the constants.

- `ClientStepProofs`, `ClientProofs`: `ClientInv` is inductive. The promised
  properties are not inductive alone. They need where each thread can be
  (`PlaceInv`), the life of the opening promise (`OpeningInv`), what the writer
  holds across its I/O and that the wire only carries smaller ids than the queue
  (`WriterInv`), who may sleep (`SleepInv`) and how far `close` has joined
  (`TeardownInv`). From it follow `PromiseSafety`, `QueueSafety` and
  `WakeupSafety`. Every step is invisible, resolves one call, ends the session or
  is one of three visible actions (`StepKinds`); hence `Refinement`, and
  `LateResponses`. `ClientStepProofs` has the steps that touch no promise and no
  queue, the facts about the queue and the steps that change it.
- `OverlappedProofs`: `OperationInv` ties thread position to storage, kernel
  and callback (`Ownership`) and each cause to its origin (`Provenance`); hence
  `StorageSafety`, `CallbackSafety`, `CauseSafety`.
- `ServerProofs`: `GateInv` says that the gate names exactly the worker in the
  domain layer, that a value read is still current when written back, and that
  a lapse stays visible to the recheck; hence `IdentitySafety`, `LapseSafety`.
  `SessionInv` adds that the counter of active sessions is the cardinality of the
  set of workers between opening and closing one, that a worker outside a session
  retains nothing, and that pipes exist while a worker lives; hence
  `ActiveSafety`, `StopSafety`.
- `ConnectProofs`: `ConnectInv` bounds when each wait ends, how often a stopped
  client waits, and where a client can be that has just found no pipe; hence
  `DeadlineSafety` and `RetrySafety`.
- `StoreProofs`: each operation reads, retains one record or rewrites the
  objects of its own session (`Reads`, `Retains`, `Rewrites`); `StoreInv` says
  that identities from `next` on belong to nobody, that what a session holds was
  issued to its present incarnation, that classes are registered before
  the first session, and that each object matches its class. Hence
  `IsolationSafety`, `IdentityUniqueness`, `PublicationSafety`, `RefusalSafety`.

- `AccountProofs`: the books of a store. `used` is a sum over functions whose
  domain changes with every operation, so `StoreProofs` first shows that the
  library's `SumFunction` gains and loses exactly the term of the key that was
  added, replaced or removed (induction over finite sets, by a minimal
  counterexample). `LedgerInv` says that `used` is that sum, that it and the two
  cardinalities respect the quotas, and that each record is charged for what it
  holds; hence
  `AccountingSafety`, `QuotaSafety`, `IncrementSafety`.
- `ApplicationProofs`: `DiagnosticInv` counts the open scopes as a set of pairs of
  thread and depth, ties that number to the sinks and says record by record what
  the document is; it is preserved by every operation of `Diagnostics`.
  `ApplicationInv` says which scopes are open in which phase (`ScopePlan`), what
  the parser knows of the arguments read so far (`ReadSoFar`) and that what it
  rejected no further argument can save (`Hopeless`), and how each exit code came
  about (`Outcome`). Hence `ApplicationUsesDiagnostics` (the program is a client
  that `Diagnostics` allows), `OpenScopeSafety`, `CompletenessSafety`,
  `ExitSafety`.

Assumptions are the named `ASSUME`s on the constants. `KindsAssumption` and
`StoreAssumption` give values, classes and limits their shapes;
`ApplicationAssumption` says that the value of an option is neither a command nor
an option (the parser refuses values that start with `--`) and that numeric values
are naturals. Only model-checked: liveness, and everything in
`Codec`, `Exchange` and `PipeStream`.

## Findings

- `client_cause`: `docs/client.md` 114-116 says the call that expires after
  writing began gets the cause. The failing send marks the stream failed before
  the writer reports; a reader entering `receive` in between ends the session
  as `disconnected` for all calls, that one included.
- `server_statistics`: `pipe_server.hpp` 30 calls `protocol_failures` terminal
  failures; `server.cpp` 147 also counts rejected requests after which the
  session continues.

Noticed, without a run of its own: `application.hpp` 60 promises exit code 1 on
an I/O failure, but `print_command` returns 0 whether or not the help or version
text could be written. `ExitTruthful` therefore does not speak of that output.

## Not modelled

- Protobuf's byte encoding and the UTF-8 check: the codec starts from what a
  parser sees, and soundness of a text is given with the text.
- JSON and log rendering, log rotation and message wording: no property depends
  on them.
- Windows security descriptors, instance creation flags and error-code tables:
  single calls into the system, whose results are nondeterministic choices here.
- The demo program's checks other than its walk through the values: straight-line
  assertions on operations that `SessionStore` models.
- The end-to-end interleaving of client, stream and server threads in one
  instance: the product is out of TLC's reach. `Exchange` composes the sequential
  layers, and each concurrent module takes the others' outcomes as choices.
- Build, packaging and benchmarks.
