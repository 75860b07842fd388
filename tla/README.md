# slogcp in TLA+

TLA+ models of slogcp, a `log/slog` handler for Google Cloud Logging with an
asynchronous wrapper and HTTP and gRPC middleware, and of the services that its
end-to-end tests run. TLC checks the models on small instances; TLAPS proves
the safety of eight of them, and of the concurrent half of the ninth, for
instances of every size: the asynchronous wrapper with any number of records,
workers and callers, any queue and drop mode; the log file's lifecycle with any
number of calls and rotations; the construction of a handler from option lists
of any length; platform detection in any environment against any metadata
server; an HTTP request with any handler, readers and headers; an RPC with any
messages and status codes; the trace context in a chain of any length under any
options; the end-to-end services with requests of any number of chunks; and any
number of goroutines that log through one JSON handler.

`PROJECT.json` maps each definition to the lines it models and lists the runs,
the mutants, the hazards, the findings and the theorems.

## The system

| Component | State it keeps | Operations | Correct when |
| --- | --- | --- | --- |
| Async wrapper `slogcpasync/handler.go` | bounded channel, count of active sends, `closed` flag, five `sync.Once`s, worker group, abort flag, cached errors | `Handle`, `Close`, `Shutdown`, `Abort`, `AbortContext`, worker loop | no record is lost or reported twice, no send on a closed channel, the inner `Close` comes last, results tell the truth, everything ends |
| Core handler `handler.go` | owned file, `SwitchableWriter`, `closeOnce`, cached error, level variable | `Close`, `Shutdown`, `Abort`, `ReopenLogFile`, `SetLevel` | no file closed under a write, none leaked, nothing lost in silence |
| `switchable_writer.go` | current writer under a mutex | `Write`, `SetWriter`, `Close` | a writer is swapped between writes, never during one |
| Configuration and pipeline `handler.go`, `exporter.go`, `slogcpasync/handler.go` | the configuration, opened file, pipeline of a handler | options, environment, `NewHandler`, fan-out, middlewares, shared level | options beat environment beats defaults; what was passed in is not closed, what was opened is |
| JSON handler `json_handler.go`, `json_payload.go`, `exporter.go` | groups and attributes, payload and buffer pools, the writer's mutex | `Handle`, `WithAttrs`, `WithGroup` | an entry is the one its record alone gives; pooled maps are never shared |
| Levels, errors, stacks `levels.go`, `errorreporting.go`, `stack.go` | none | severity, error fields, stack of an entry | a stack starts where the application logged |
| Runtime detection `runtime_info.go` | cached result, metadata cache and availability latch | `DetectRuntimeInfo` | one answer, at most one timeout, no source of a project missed |
| Trace correlation `trace.go`, `propagation.go`, `context.go`, `slogcphttp/trace_context.go`, `slogcpgrpc/trace.go` | span context in the `context.Context`, global propagator | extraction, injection, trace fields of an entry | traces continue, untrusted ones stay out, a span is logged only by its owner |
| HTTP `slogcphttp/` | `RequestScope` (three atomics), `responseRecorder` | middleware, transport, payload builders | what is logged is what was answered, never half of it; the client is who it says |
| gRPC `slogcpgrpc/` | `RequestInfo` (atomics), `sync.Once` per client stream | interceptors, stream wrappers | finished once, with the stream's own status; both ends agree |
| End-to-end trace services `.e2e/services/target-apps/trace-*` | what is open, the streams of a request, a published message | endpoints, downstream calls, workers, Pub/Sub receiver, start and shutdown | a success is the whole of what was asked, everybody gets an answer |
| End-to-end harness, core-logging app, examples, benchmarks | none worth modelling | | |

How they interact: the core handler builds JSON handler → fan-out → middlewares
→ async wrapper, and keeps a pointer to the wrapper so that its own `Close`,
`Shutdown` and `Abort` run the wrapper's first and tear the file down after.
Worker goroutines of the wrapper call the JSON handler, which writes through
the `SwitchableWriter`; `ReopenLogFile` replaces what is behind it. The HTTP
and gRPC packages derive a logger per request and put a `RequestScope` or
`RequestInfo` into the context, from which other goroutines build log
attributes while the request is still running. The trace services use all of
it at once: a front service calls two workers over HTTP and gRPC and a third
through Pub/Sub, each with slogcp's middleware on both ends.

Where it is hard: senders, workers and up to four kinds of lifecycle call meet
in the wrapper, each with a deadline of its own; an abort may overtake a close;
the file is rotated under running writes; maps are shared between records,
pools and the application; request state is published through separate atomics
that are read while they are being written; a stream has two ends that learn
of its end at different moments; and which trace a request belongs to depends
on a dozen settings and on who looked at its headers first.

## Modules

| Module | Models | Uses |
| --- | --- | --- |
| `AsyncLog` | what the wrapper promises: records are taken in or refused, delivered or dropped once, the inner handler closed last | |
| `AsyncHandler` | the wrapper itself | |
| `AsyncRefinement` | the mapping that shows `AsyncHandler` to implement `AsyncLog` | `AsyncHandler`, instance of `AsyncLog` |
| `AsyncHandler_proofs` | theorems about `AsyncHandler`, among them that it implements `AsyncLog` | `AsyncRefinement` |
| `HandlerLifecycle` | the core handler's lifecycle over a log file and the `SwitchableWriter` | instance of `AsyncLog` in place of the wrapper |
| `HandlerLifecycle_proofs` | theorems about `HandlerLifecycle` | `HandlerLifecycle` |
| `HandlerConfig` | construction of a handler from options, environment and platform; derivation and fan-out | |
| `HandlerConfig_proofs` | theorems about `HandlerConfig`, and about the JSON handler that it builds the others around | `HandlerConfig`, instance of `JSONHandler` |
| `RuntimeInfo` | detection of platform and project, the metadata lookup | |
| `RuntimeInfo_proofs` | theorems about `RuntimeInfo` | `RuntimeInfo` |
| `JSONHandler` | a record's way into a line or an exported entry, with heap, pools and mutex | |
| `TraceContext` | trace context through a chain of services over HTTP and gRPC | |
| `TraceContext_proofs` | theorems about `TraceContext` | `TraceContext` |
| `RequestScope` | one HTTP request: scope, logger, recorder, finalize, payload builders | |
| `RequestScope_proofs` | theorems about `RequestScope` | `RequestScope` |
| `GrpcCall` | one RPC of any kind, both ends | |
| `GrpcCall_proofs` | theorems about `GrpcCall` | `GrpcCall` |
| `TraceServices` | the end-to-end trace services: start, one request, shutdown | |
| `TraceServices_proofs` | theorems about `TraceServices` | `TraceServices` |
| `MC...` | instances for TLC: symmetry and values a `.cfg` cannot write | |

The modules meet at what one says and the next assumes. `HandlerConfig`'s
`AsyncConfigIsUsable` is `AsyncHandler`'s `ConstantsAssumption`; `AsyncLog` is
proved of `AsyncHandler` and instantiated by `HandlerLifecycle`; what
`RuntimeInfo` finds out is an input of `HandlerConfig`; `TraceServices` takes
from `TraceContext` and `GrpcCall` only that a trace goes on and that a call
ends.

### AsyncHandler

A record stands for one call of `Handle`; `call[r]` is that call's program
counter. A step is what the code makes atomic: a `gateMu` section
(`BeginSend`, `EndSend`, `BeginClose`), one channel operation (`Enqueue`,
`Receive`, `DropOldest`), one case of a `select` (`GiveUp`, `FlushTimeout`,
`AbortContext`), or one transition of a `sync.Once` (`CloseOnce`,
`FinalizeClose`, `StartAbort`).

* `gate` is the program counter of the body of `shutdownOnce`. `parked` is
  `gateCond.Wait`; only `EndSend` of the last active send wakes it, so a lost
  wake-up would be a deadlock or a liveness violation.
* The default branch of a non-blocking send on an unbuffered channel is taken
  whenever no worker is parked in its receive. A worker at `recv` may or may
  not have parked yet, so `QueueFull` and `Rendezvous` are both possible.
* `select` with several ready cases is a free choice, as in Go. That is why
  `FlushTimeout` needs no unfinished worker.
* A panic of the inner handler is an outcome of `HandleItem`. The `recover` in
  `enqueue` appears as the `queueClosed` branch of `Enqueue`, which
  `NoSendOnClosedQueue` shows to be dead code.
* An error is the set of the errors joined in it, `{}` is nil.
* `fate` and `reports` are a ledger beside the code's state: what became of
  each record, and how many times that was reported.

### HandlerLifecycle

The wrapper's queue and workers are gone; `status` and `phase` are the variables
of `AsyncLog`, and only what the core handler sees of the wrapper is left: it
drains, it times out, it was aborted, its `Close` keeps its first error.
`BeginWrite` and `EndWrite` bracket the mutex section of
`SwitchableWriter.Write`; file handles are numbered in the order they are
opened. `cfg` is chosen in `Init`: with or without the wrapper, with or without
a flush timeout, and the `CloseTimeoutPolicy`. Without the wrapper the callers
write for themselves. `sink` is a ledger of where each record went: the file,
`io.Discard`, or the error of a write to a closed file. The second close of a
file that failed to close and the close of `cfg.ClosableWriter` (the same
`SwitchableWriter`, by then `io.Discard`) have no effect and are part of
`CloseFile`.

### HandlerConfig

Variables are set and options given one at a time (`SetEnv`, `With...`), each
option changing the struct `o` as its closure does. Construction is then one
step with one outcome of four: `InvalidTarget`, `OpenFails`, or `NewHandler`,
which strict diagnostics may refuse. Inside it, `Configured` lays the options
over the environment over the defaults, in the code's order, and
`BuildPipeline` puts fan-out, middlewares and wrapper together. A value is
unset, bad (its parser rejects it) or holds a value; every default, clamp and
override of the code is an operator named after its function. A failing
construction keeps what it has opened and set by then. `h.layers` are the
wrappers around the sinks, from the outside in, each middleware with its place
in the option list. `SetLevel`, `Derive`, `Log`, `Enqueue` and `HandleItem` use
the finished handler: without the wrapper a record goes through all layers to
the sinks in the caller's goroutine, with it the layers above the wrapper are
the caller's and the rest is a worker's, later, who has nobody to return a
failure to but the `ErrorWriter`. `delivery` says of the last record which
layers it passed, whom it reached and who was told of a failure, so that the
order in which fan-out, middlewares, wrapper and shared level are put around
each other can be observed.

### RuntimeInfo

Detection runs inside `sync.OnceValue`: `once`, `pc` and `got` are its callers.
Each detector of `detectRuntimeInfo` is a step with its own guard on the
variables; a detector asks the metadata server for its paths in the code's
order through `Get`, with the lookup's cache, the probe and the availability
latch in `md`. A server answers with a value, an invalid one, nothing, or not
at all; another server may be met by a later detection, if there were one.

### JSONHandler

`heap` maps a reference to the contents of a Go map, because the code hands
references around: the payload's root, the maps borrowed from a pooled
`payloadState`, and the maps of the application that records carry. `call[p]` is
the goroutine's place in `Handle`: the payload is built in one step (it touches
only the state the goroutine has borrowed, and the application's maps);
`PrepareHTTPRequest`, which works on a value goroutines may share, is three (the
code calls it from within the walk, whose other steps neither read nor write the
request; its second call, in `flattenHTTPRequestToMap`, finds the request
detached); encoding, the retry after the values were sanitised, the two halves
of a write under the mutex, and the deferred calls that give pooled objects back
are a step each. `AloneFields` is the reference definition: the fields slog's
rules give for a record logged by itself. Two reductions keep the states few:
records start in the order of their numbers (`Upcoming`), and of the empty
buffers in the pool the first is taken (`Blank`).

### TraceContext

One request walks through `MaxHops` services. In each, `boot` installs
propagators in some order, `Serve` is the middleware or the interceptor, the
handler starts spans and logs, and `PrepareCall`, `RoundTrip`/`InvokeRPC` and
`Retry` are a call to the next service. A header is what can be read from it:
a legacy header keeps its comma-separated values with trace, span and options
apart, because HTTP and gRPC read them differently. OpenTelemetry is external,
modelled by when its span is started relative to slogcp's code.

### RequestScope

`NewRequestScope` (or `NewClientScope`) and `AttachLogger` come first, on a
request that reached the server directly or through a load balancer with
forwarding headers its sender made up; what they say is then dropped from the
state, as it does not change. The scope's `status`, `respBytes` and `latencyNS`
are separate variables, and `finalize` is three steps, as is each payload
builder's sequence of loads. The recorder's own fields belong to the handler's
goroutine, so `WriteHeader` is one step and `Write` is two, the implicit header
and the body. `wire` is net/http's response, which is external: the first header
that is not informational counts, and a write or flush without one sends 200.
What `Write` takes (`Takes`, all that the recorder ever learns) waits in
`wire.held` and goes out in parts of any size (`Push`), at a flush and at the
end; for HEAD and on a broken connection it is taken and goes nowhere, and a
handler that panics leaves behind what was still held. `EndAnswer` is net/http's
end of the answer. `outbound`, chosen in `Init`, tells the transport's scope
from the middleware's.

### GrpcCall

On the client one goroutine sends and one receives, on the server the handler
does both, and a third party logs through `requestInfoValue`, which reads the
status and then the rest. `finalize` is two stores on either end (`Store`).
Messages are counted and not measured: sizes are added up at the same places.
gRPC itself is external, by its documented contract: `SendMsg` on an ended
stream returns `io.EOF`, `RecvMsg` returns the status or `io.EOF` for OK behind
all messages, and without `ServerStreams` the single successful `RecvMsg` is the
end. The stream may break at any moment, with a code of the client's own.

### TraceServices

`trace-target-app` opens its clients one after the other (`Open`, which may
fail), serves one request and closes in the reverse order of its `defer`s. The
front handler is a program counter `pc` over decode, call, send, receive, drain
and answer; the worker's is `wpc`. `up` and `down` are the two directions of a
stream, `trailers` says that the worker's status has reached the client, and
`link` breaks both at any moment. A payload is reduced to its test id, final
status and `close_after`, a response to the number it carries. `answers` are the
statuses the front handler has tried to send: `Refuse` is `http.Error`,
`WriteTraceResponse` a success whose body may fail to encode. Pub/Sub is
external: it takes a message or not, and delivers at least once.

## Runs

| Run | Bounds | Shows |
| --- | --- | --- |
| `async_block` | 3 records, 2 workers, 2 calls of any kind, queue 1, batch 2, blocking senders | type correctness, the gate, conservation of records, inner `Close` last, what a result means |
| `async_hang` | 2 records, 1 worker, unbuffered, 2 bounded calls | senders and bounded calls are released although the inner handler hangs (`NobodyHangs`) |
| `async_live` | 2 records, 1 worker, queue 1, `drop_oldest`, 2 calls | every call returns, every record is settled, an abort nobody waits for completes; eviction and retry, which are not atomic, lose and double-report nothing: `AsyncHandler` implements `AsyncLog` (`LogSafety`) |
| `lifecycle` | 2 records, 2 calls of any kind, 3 files, all 8 configurations | no write to a closed file, no leaked file, silent loss only by an abort whose context expired, and a nil from `Shutdown` means that the file is closed and every record the wrapper took in is in a file or was reported as dropped, none in `io.Discard` (`NothingLostInSilence`); `Close` under `CloseTimeoutAutoAbort` and `Abort` always end with the file closed (`FileIsReleased`) |
| `config` | 3 steps (variables set, options given, uses made), every variable and option | the output is the one asked for, and `Close` closes what the handler opened and nothing else (`OutputIsRight`); a failed construction leaves nothing behind but in strict mode, and strict means correlated (`RefusalsAreRight`); the wrapper is there if and only if options, environment and output ask for it, and usable (`AsyncIsRight`); attributes keep their groups, the shared level gates every sink, in a queue too, a failure is told to the caller or, behind the wrapper, to the `ErrorWriter`, and every middleware is passed once, in order (`DerivationKeeps`) |
| `runtime` | 2 callers, 13 environments, 4 sets of project variables, servers that lack or lose up to two paths | at most one timeout; one answer for everybody, managed defaults independent of the server, no project only without a source (`AnswerIsRight`) |
| `json` | 2 goroutines, 2 records of 5 kinds, 2 loggers, 4 configurations, stacks of at most 4 frames | every entry is the one its record alone gives, whole, redacted in every depth, and a bad field costs only itself (`EntryIsRight`); pooled states and buffers serve one call at a time, lines come out in one piece and nil means written, once (`CallsStayApart`); maps of different calls never meet and the application's map is only pruned (`MapsStayApart`); a shared request is shown whole |
| `json_isolation` | the same with a group that has the key of the application's map | *violation*, see Findings |
| `trace` | 2 services, 2 attempts per call, 15 header sets from outside, HTTP and gRPC in every combination | spans are the process's own; untrusted traces stay out and nothing is sent when propagation is off (`OnlyAllowedTraces`); traces continue; the two headers of a call agree and a retry announces its own span (`HeadersAreCurrent`) |
| `scope` | every forged header of up to two items, 3 handler operations of any kind or a response of unknown, zero or positive length or a failure; 2 readers, chunks of at most 1, GET and HEAD, targets in absolute form, clock steps of -2, -1 and 1 | address and scheme are real where forwarding headers and target can be trusted, and the logger, made before the answer, claims nothing of it (`LoggerIsRight`); no torn payload (`PayloadIsWhole`); the size reported is never less than what was sent, and just that when the answer is whole, and the status is that of a plain response (`ReportIsSent`); always final in the end |
| `grpc` | 2 requests and 2 responses, codes OK, NotFound, Canceled, all four kinds | the status is the stream's, OK means served, errors keep their code through the wrapper (`StatusIsRight`); counts are ordered, and equal after a success (`CountsAgree`); a failure that an entry shows is the call's, and an entry begun after the end shows the call's status and final duration (`EntryIsRight`); a finished `RequestInfo` keeps its status, whoever fails later (`FinishedOnce`); finished in the end |
| `services` | 1 request of every endpoint, whole or flawed, up to 3 chunks, an int32 that ends at 2, 1 redelivery | answered once, but for a 500 behind a success whose body fails, success is whole, false alarms only for the reasons named (`AnswerIsRight`); everybody gets an answer (`NobodyWaits`); what was published is handled |

Why the bounds are enough:

* `AsyncHandler`: two records of which one is in the queue and one blocked,
  plus a third that comes after the gate has closed, are the three roles a
  record can have; with `drop_oldest` two senders suffice to evict each other's
  record, to lose the slot between eviction and retry and to find the queue
  emptied by the worker. `drop_newest` takes a subset of the steps of
  `drop_oldest`. Two workers are needed for one to exit while another still
  works; two callers and the abort coordinator are the runner, the waiter and
  the late comer of a once-guard. More records, larger queues, and every mode
  with every queue size are covered by the theorems.
* `HandlerLifecycle`: three files are two rotations and one more for a race
  with `Close`.
* `HandlerConfig`: each setting interacts with at most two others (an option,
  the variable it overrides and the target that makes it matter), so
  `MaxSteps` of 3 meets every such combination; a setting in `Plain`, which no
  other depends on, counts for two. The theorems hold for any number of steps.
* `JSONHandler`: two goroutines and two records make a pool's object change
  hands and a line meet another; a logger has at most three groups and a
  record at most four attributes, enough for a group over an attribute, an
  attribute over a group, a nested group, and labels. In run `json` no group
  has the key of an application's map; `json_isolation` asks about that.
* `TraceContext`: a second service is where propagation shows, and what it
  does with its headers does not depend on a third; the theorems are about
  chains of any length.
* `RequestScope`: two readers of each kind of payload; the longest dangerous
  sequence (informational header, status, body) has three operations. A
  `MaxChunk` of 1 is a write that is taken or refused; that several of them wait
  together, go out apart or are lost in the middle takes three writes.
* `GrpcCall`: two messages each way, one behind the other. The server counts
  in all instances, since the properties of the counts need both.
* `TraceServices`: a third chunk is one that comes after the one that closes.
  The receiver stops only once there is a message it could have handled.

Bounds are named constants (`MaxSteps`, `MaxHops`, `MaxTries`, `MaxOps`,
`MaxChunk`, `MaxSends`, `MaxReplies`, `MaxFiles`, `MaxRedeliveries`). Symmetry
is used in `async_block` only, whose properties are invariants that do not tell
records, workers or callers apart. Deadlock is
checked except in `config` and `trace`, where a behaviour ends when its bound
is used up; elsewhere the only states without a real successor are those in
which every call has returned.

Fairness: a runnable goroutine runs and a ready `select` case or a free mutex
is eventually taken, which the Go scheduler provides, and contexts with a
deadline expire. Nobody is obliged to log, to call `Close` or to return from a
handler. Whether the inner handler returns is a separate assumption:
`AsyncHandler`'s `FairSpec` does without it, `LiveSpec` adds it.
`HandlerLifecycle.FairSpec` assumes that writes to the file return.
`RequestScope` assumes only that the goroutine that serves a request goes on
once the handler is through. `GrpcCall.FairSpec` assumes that the client reads
its stream to the end, as gRPC's documentation demands, and that trailers the
server has sent arrive; the handler is under no obligation.
`TraceServices.FairSpec` assumes that both programs run, that trailers arrive,
and that the receiver, as long as it runs, handles and acknowledges; links are
free to break, and nothing assumes that they hold.

Most run properties are conjunctions of parts that have a name and a comment of
their own in the module (`CountsAgree` is `SenderCountsFirst` and `EndsAgree`).
Every property of a passing run has a mutant in `PROJECT.json`: a changed
definition, kept beside the original, under which TLC finds the property
violated.

## Findings

`json_isolation`: the attributes given to a handler are said to be immutable
(`json_handler.go:439`). When one of them is a `map[string]any` and a group has
the same key, `ensureGroupMap` (`json_handler.go:644`) uses the application's
map as the group's, and writes the record's attributes into it. The next
record logged through the handler shows them. Nested groups leave pooled maps
there too, which are recycled: in a longer behaviour the application's map
comes to contain itself, and `pruneEmptyMaps` does not return.

Disagreements between a comment and the code that the models show and no run
is kept for; the properties named state what does hold.

1. `ErrFlushTimeout` (`slogcpasync/handler.go:109`) is said to mean that
   `Close` returned before the queue was drained. When the workers finish and
   the deadline expires together, `select` (line 728) may take the deadline,
   and `Close` repeats that answer for ever. (`ReturnMeansDrained`)
2. `responseRecorder.Status` (`slogcphttp/middleware.go:580`) is said to be
   the code written to the client. An informational header is latched (line
   527) and the final one ignored, so the scope reports 103 for a 404. A
   `Flush` ahead of the status sends 200 past the recorder.
   (`PlainStatusIsSent`)
3. The in-flight branch of `HTTPRequestAttr` (`slogcphttp/http_request.go:53`)
   is said to suppress response metadata. It reads the latency a second time,
   and a request that ends between the reads is logged with its final latency
   and without status and size. (`SnapshotIsFinal`, `FromScopeIsWhole`)
4. `RequestInfo.finalize` (`slogcpgrpc/request_info.go:100`) is said to store
   the terminal status. `SendMsg` on an ended stream stores Unknown, and the
   status `RecvMsg` learns afterwards is ignored. (`ClientStatusIsReal`)
5. `RecvMsg` (`slogcpgrpc/interceptors.go:414`) is said to finalize the request
   when the stream ends. A client-streaming RPC ends with a `RecvMsg` that
   returns nil, which does not. (`CallFinishes`)
6. `responseRecorder.BytesWritten` (`slogcphttp/middleware.go:588`) is said to
   be what was sent to the client. It is what `Write` took, which net/http may
   never send: the body of a HEAD response, bytes in a buffer when the
   connection fails or the handler panics, anything once it is hijacked.
   (`SizeIsSent` is an inequality in these cases.)

Behaviours the properties had to be careful about:

* An `Abort` whose context expires closes the file while workers are still
  writing, and what they write afterwards goes to `io.Discard` without a drop
  being reported (`SilentLossOnlyByExpiredAbort`).
* Behind the wrapper a failing sink is not told to the caller of `Handle`, which
  returns nil once the record is queued, but to the `ErrorWriter`; and a level
  that is raised while a record waits in the queue is the one the record is
  judged by (`FailuresAreTold`, `SharedLevelGates`).
* A construction refused by strict diagnostics has opened the log file and set
  the program's `LevelVar` (`FailureIsCleanUnlessStrict`).
* otelgrpc starts its span before the interceptor runs, so that a gRPC server
  with an SDK whose propagator reads nothing ignores all fallback headers;
  otelhttp starts it after the middleware (`TraceContinues`).
* A public HTTP endpoint leaves the new root to OpenTelemetry. If the request
  is filtered or there is no SDK, the caller's trace is used after all; gRPC
  servers have no such guard (`UntrustedStaysOut`).
* `RoundTrip` writes into the caller's header map and does not replace a
  legacy header, so that a retry carries the legacy header of the first attempt
  (`LegacyAgrees` is about fresh requests, `TraceparentIsCurrent` about all).
  With an SDK, a gRPC call's legacy header names the caller's span and its
  traceparent names otelgrpc's.
* HTTP and gRPC read the options and the comma-separated values of a legacy
  header differently; `LegacyAgrees` holds for the headers slogcp writes.
* In proxy mode X-Forwarded-Proto is trusted even with
  `WithTrustXForwardedProto(false)`, and a target in absolute form decides the
  scheme before anything else (`slogcphttp/middleware.go:301`), so that
  `GET https://h/` over plain HTTP is reported as https (`SchemeIsReal`).
* A `RequestInfo` begins with OK (`slogcpgrpc/request_info.go:58`), so that an
  entry written while the call goes on shows an OK that a failing end takes
  back, even beside the final duration, which is read after the status
  (`EntryIsRight`). The client's counts may still grow after the end: `SendMsg`
  counts a message before it finds the stream ended (`FinishedOnce`).
* A gRPC handler that panics leaves a server's `RequestInfo` unfinished with
  the OK it was created with (`OKMeansServed` is about the client's).
* In the trace services, a bidi `Send` that finds the stream closed early by
  the worker is a failure of the request although the worker succeeded, and a
  shutdown signal cancels the requests the server then waits for, through
  `BaseContext` (`FalseAlarmHasReason`); `FailWork` told to fail with OK fails
  with Unknown (`FailWorkFails`); when the body of a success cannot be encoded,
  `writeTraceResponse` (`trace_handlers.go:660`) answers 500 behind the 200 that
  has gone out (`AnsweredOnce`); the Pub/Sub client is closed before its
  publisher is stopped (`PublishedIsHandled`).

## Proofs

`AsyncHandler_proofs` proves, from `ConstantsAssumption` alone (finitely many
records, at least one worker, a queue of any size including 0, a batch of at
least 1), that `Spec` implies:

* `TypeCorrect`: `[]TypeOK`; `activeSends` never goes below zero.
* `GateIsSafe`: `[]NoSendOnClosedQueue`.
* `RecordsConserved`: `[]Conservation`.
* `CloserIsLast`: `[]CloserRunsLast`.
* `ReturnIsDrained`: `[]ReturnMeansDrained`.
* `NilIsLossless`: `[]NilMeansNoAbortDrop`.
* `Refinement`: `LogSafety`, that is `AsyncLog`'s
  specification under the refinement mapping. This is what entitles
  `HandlerLifecycle` to use `AsyncLog` in place of the wrapper.

None of these is inductive by itself, and the argument for each leans on the
others, so there is one invariant, `IInv`, a conjunction of named parts:

* `GateInv`: `activeSends` is the cardinality of the set of active calls, and
  it is 0 from the moment `beginClose` stops waiting. This is where finite
  cardinalities enter (`FiniteSetTheorems`): adding a call to the set, or
  removing one, changes the count by one.
* `WorkerInv`: a worker exits only from a closed, empty queue, and a closed
  queue stays empty because `GateInv` leaves no sender.
* `LifeInv`: nobody is past `waitWorkers` before the workers are done or in the
  inner handler's `Close` outside `finalizeOnce`; every error that was or will
  be returned is `Justified`.
* `FateInv` and `Conservation`: a record has exactly one place or exactly one
  report.

Each part has a lemma with one step per action. `Conservation` needs
`WorkerInv` to know which worker holds what, and facts about `Append`, `Head`
and `Tail` of a queue without duplicates.

For the refinement, `Init` maps to `AsyncLog`'s `Init`, and under `IInv` every
step maps to a step of `AsyncLog` or to a stutter: `BeginSend` to `Accept` or
`Refuse`, the steps that settle a record to `Deliver` or `Drop` (lemma
`SettlePending`, with one lemma each for a record in hand, at the head of the
queue and with a worker), `StartShutdown` to `Close`, `FinalizeClose` to
`CloseInner`, everything else to a stutter (lemma `Invisible`).

`HandlerLifecycle_proofs` proves, from `LifecycleAssumption` alone (at least
one file, `io.Discard` and "nobody" are neither files nor callers nor records),
that `Spec` of `HandlerLifecycle` implies:

* `FileOpenWhileWritten`: `[]NoWriteToClosedFile`.
* `NoFileLeaked`: `[]NoLeakedFile`.
* `LossIsReported`: `[]NothingLostInSilence`.

The inductive invariant of that module starts from the lock: `LockInv` says that
the calls inside `h.mu` are its holder and that `closeOnce` runs under it.
`FileInv` can then say exactly which files are open from the place where the
holder stands: the owned one as a rule, the old and the new one in the middle of
`ReopenLogFile`, none after `closeResources`; `NumberInv` (files are opened in
their order) makes the file that `SetWriter` installs the one that was just
opened. `WriteInv` says that the writer is not replaced while
`SwitchableWriter.Write` holds its mutex, so a file that is closed, which is
never the current writer, is not the one being written. `DrainInv`,
`ShutdownInv` and `SinkInv` are for loss: a call goes on to the file when the
wrapper has nothing pending, unless it is an `Abort` whose context expired; a
`Shutdown` that goes on without an error is never that; and as long as one is on
its way, or has returned nil, nothing behind the wrapper has gone to
`io.Discard`, because the wrapper would have told it of the abort. TLC has
checked the parts as invariants on the instance of run `lifecycle`.

`GrpcCall_proofs` proves, from `CallAssumption` alone (OK is a code, none of the
codes is one of the model's own words, at least one message each way), that
`Spec` of `GrpcCall` implies:

* `CallTypes`: `[]TypeOK`.
* `StatusCorrect`: `[]StatusIsRight`.
* `CountsCorrect`: `[]CountsAgree`.
* `EntryCorrect`: `[]EntryIsRight`.
* `FinishedForGood`: `FinishedOnce`, an action property: a `RequestInfo` that
  is finished stays so and keeps its status, and the server's does not change at
  all. Messages that the client counts after the end are not excluded.

The inductive invariant, `IInv` of that module, has these parts: `PlacesInv`
(who can be where in a call of each kind), `StreamInv` (a stream that ended has
the code of the trailers or one of the client's own), `OnceInv` (at most one
goroutine of the client is between `finalize`'s two stores, and none when it is
finished), `CodeInv` (what is about to be stored is what the stream ended with),
`ServerInv` (a success in the trailers is one the server has stored), `CountInv`
(what one end has counted and the other has not is under way, or lost with a
broken stream), `UnaryInv` and `EndInv` (a call that ended well has nothing
under way), and `EntryInv` (a failure that an entry shows is stored, and what
was begun after the end shows what was stored then). A property about the end of
a call needs them all the way back: that OK means served follows from what
`RecvMsg` was about to store, hence from the stream's code, hence from the
trailers, hence from what the server's interceptor stored before it returned.
Each part has a lemma with one step per action. TLC has checked the parts as
invariants on the instance of run `grpc`.

`HandlerConfig_proofs` proves, from `ConfigAssumption` (the bound is a number),
that `Spec` of `HandlerConfig` implies:

* `OutputsAreRight`: `[]OutputIsRight`.
* `RefusalsAreJustified`: `[]RefusalsAreRight`.
* `AsyncIsAsAsked`: `[]AsyncIsRight`. Its second half, `AsyncConfigIsUsable`, is
  what `AsyncHandler` assumes of its constants, so that the theorems about the
  wrapper apply to every wrapper a handler builds.
* `DerivationsKeep`: `[]DerivationKeeps`.

The properties compare a finished handler with the option list; the code reads
the options struct. The invariant is therefore about the two: `RedirectInv` and
`AsyncInv` say that the struct holds what the last option of a kind said,
`GroupsInv` that its groups are those opened since the last blank name, in
order, and `PlacesInv` that the *n*-th attribute was given at the *n*-th place
of the list that has one, with the groups that were open there. Lemmas
`LastRedirectIs`, `LastAsyncIs`, `OpenIs` and `MwsStep` say what one more option
does to these. `FreshInv` says that nothing outside is touched before the
construction, `PipelineInv` that every sink of a finished handler stands behind
the shared level, that its layers are the middlewares of the options struct, in
order, with at most the source layer and the wrapper above them, and that the
wrapper is among them exactly if it was configured. `MwsInv` ties the struct's
middlewares to their places in the option list, and `QueuedInv` carries what
`PipelineInv` says over to a record that waits for a worker. Lemma `LayersAre`
shows of a pipeline, built from these parts, that the wrapper is around every
middleware, so that all of them are on the worker's side. The construction
itself is one step of eight functions; each has a lemma about what it does to
the output, its owner and the project and what it leaves alone (`TargetIs` to
`ClosableIs`), and `FinalOutput` and `FinalCorrelates` combine them. The
theorems hold for every `MaxSteps` and `Plain`. Options and variables take the
values of `SettingArgs` and `EnvArgs`, of which the proofs use only those of the
project ids and of `SLOGCP_TARGET`.

`RuntimeInfo_proofs` proves, from `RuntimeAssumption` (what kind of thing an
environment and a server are), that `Spec` of `RuntimeInfo` implies:

* `TimeoutsAreBounded`: `[]AtMostOneTimeout`.
* `AnswersAreRight`: `[]AnswerIsRight`.

`Sound` is the invariant of a metadata lookup: what was asked for is cached,
nothing was asked for twice, and a lookup on Google Cloud that is unavailable
has seen a network error, which was the last thing it saw. `LookupInv` states it
of the one server a detection talks to. `StageInv` says that a detector runs
only after those before it have found a variable missing, `ProjectInv` that a
project of the environment is never passed over but for Compute Engine's
metadata, and `NoSourceInv` why there is none. Each detector makes several
lookups in one step, so `Sound` is shown of `Probe` and `Get` once and carried
through their compositions.

`RequestScope_proofs` proves, from `ScopeAssumption` (codes between 100 and
599, requests with a list of forwarding addresses), that `Spec` of
`RequestScope` implies:

* `PayloadsAreWhole`: `[]PayloadIsWhole`.
* `ReportsAreSent`: `[]ReportIsSent`.
* `LoggersAreRight`: `[]LoggerIsRight`.

`FinalInv` says that the latency is the last store of `finalize`; with it,
`ReaderInv` says that a reader that goes on after its first load has seen a
final scope, so that its later loads belong to the same request end. `SizeInv`
says that recorder and scope count the same, that this is never less than what
net/http has sent and still holds, just that on a living connection that wants a
body, and that a whole answer ends with nothing held; `StatusInv` that recorder
and wire have the same status as long as nothing went past the recorder. That
the client's address is real rests on a lemma about `FromRight`, the place of an
address among those that are not blank, counted from the right: what the load
balancer appends has places 1 and 2 whatever the sender put before it.

`TraceContext_proofs` proves, from `TraceAssumption` (headers from outside name
only IDs made outside, `Foreign` among them; the OpenTelemetry settings), that
`Spec` of `TraceContext` implies:

* `SpansAreOwn`: `[]SpanIsOwn`.
* `TracesAreAllowed`: `[]OnlyAllowedTraces`.
* `TracesContinue`: `[]TraceContinues`.
* `CallHeadersAreCurrent`: `[]HeadersAreCurrent`.

The argument for untrusted traces needs to know that an ID a process makes is
in no header it was sent, and `TraceTypes` provides that: headers arriving at
service *n* hold IDs of services before it only. `SpanInv` says that a local
span context is of a started span and that a logger naming a span lives in such
a context. `CallInv` ties the headers of a call to the context it is made in,
`ArriveInv` carries that over the wire to the next service, and
`TraceContinues` follows there, from lemmas that parsing what
`BuildXCloudTraceContext` has written gives back trace and sampling decision,
with HTTP's parser and with gRPC's.

`TraceServices_proofs` proves, from `RequestAssumption` (what a request is: an
endpoint, a count, a sequence of chunks, and over HTTP no trace without
propagation, as client and middleware share their options; the codes the
services make themselves are codes), that `Spec` of `TraceServices` implies:

* `RightAnswers`: `[]AnswerIsRight`.
* `PublicationIsKept`: `[]PublishedIsKept`, the safety half of
  `PublishedIsHandled`: once a publication was answered with 200 its message is
  queued, handled or acknowledged ever after, whenever the process shuts down.

That a 200 stands for the whole exchange (`Whole`) is the hard part, because
front service and worker learn of each other's end at different moments. The
invariant follows what is under way: `Echoed` says that the responses read and
those in `down` are the worker's first ones, in order; `UnderWay` that the
chunks in `up` are those after the ones received; `Received` what the worker's
state (`clientStreamState`, `bidiStreamState`) has made of the chunks received.
`AnswerInv` says that nothing is answered before the end, so that what is then
answered is a refusal or a success and at most a 500 behind it. `ServerInv`,
`ChunkedInv`, `ClientInv` and `UnaryInv` are about the end: a
worker that ended well had everything there was to have, unless the caller had
failed before it. With these, `drain` that reads the end of the stream behind
an OK has read all of it. `AlarmInv` says that a call that failed over a living
link has a worker that is not running, which makes `FalseAlarmHasReason`
inductive: a worker cannot end well afterwards. `PlaceInv`, `EndpointInv` and
`NotBegun` say who can be where, for which endpoint.

The last part of `HandlerConfig_proofs` is about an instance `J` of
`JSONHandler` and proves, from `J!WellFormed` (records are numbers) and
`J!MutexIsShared`, that `J!Spec` implies:

* `CallsKeepApart`: `[]J!CallsStayApart`, for any number of goroutines, records,
  loggers and inputs.

`OwnInv` says that no two calls share a record, a pooled state or a buffer, and
that none of what they hold is in a pool; `StagedInv` that a call about to write
has staged one entry, of its record; `LineInv` that a call in the middle of a
line holds the mutex and that the beginning of its line came out last, which
holds because another call appends to the output only under the mutex, and an
exporting handler never writes; `CameInv` counts what came out for each record.
`MutexIsShared` says that every logger, however derived, has the mutex of its
root. That either step of a derivation keeps the mutex is lemma
`StepsKeepMutex`; that a list of steps does would be induction over the list,
so TLC evaluates it for the loggers of the runs.

TLC has checked the parts of all these invariants, on the instances of the runs,
before they were proved.

Only model-checked:

* All liveness (`EverythingSettles`, `NobodyHangs`, `FileIsReleased`,
  `EndsFinal`, `CallFinishes`, `NobodyWaits`, `PublishedIsHandled`): it needs
  fairness and `ENABLED`, which are out of this prover's reach.
* `EntryIsRight`, `MapsStayApart` and `HTTPRequestIsWhole` of `JSONHandler`:
  they depend on what the walks over the attributes leave in the maps, on the
  error and the request that those pick up, and on what encoding finds there.
  Those are folds over sequences of attributes, and a fact about a fold for
  every sequence is induction over data.

## Not modelled

* Wording, layout and encoding of log lines, stack traces and labels; the
  fields of an `httpRequest` payload beyond status, size, latency, address and
  scheme.
* `onDrop` callbacks that log through the same handler or panic.
* Diagnostics that are printed once: they change no state a property reads.
* Message sizes in gRPC, which are added where messages are counted.
* The end-to-end harness and the core-logging application: deployment, polling
  of Cloud Logging, comparison of what comes back, and endpoints that write one
  kind of entry each. The start and shutdown of the workers' own processes,
  which `TraceServices` sees as a link that breaks.
* Generated protobuf code, benchmarks and examples.

## What is left

The three invariants of `JSONHandler` just named would need a prover that can
use an induction theorem, and the liveness properties one for fairness. A model
of diagnostics and of `onDrop` callbacks that log would extend the project to
what `PROJECT.json` lists as hazards without a property.
