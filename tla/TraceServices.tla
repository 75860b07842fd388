---------------------------- MODULE TraceServices ----------------------------
(***************************************************************************)
(* The services of the end-to-end trace tests: trace-target-app, from its  *)
(* start to its shutdown, serving one request; trace-downstream-http and   *)
(* trace-downstream-grpc, which it calls; and the Pub/Sub receiver of the  *)
(* former, which it publishes to.                                          *)
(*                                                                         *)
(* A call is two programs around a stream: the DownstreamClients method    *)
(* and the worker's handler.  HTTP and unary gRPC are streams of one       *)
(* message each way.  A payload is reduced to its test id, its final       *)
(* status and close_after; a response to its sequence number or to the     *)
(* number of the chunk it echoes.                                          *)
(*                                                                         *)
(* External: the network and gRPC (Send returns EOF once the trailers are  *)
(* there, Recv returns messages before them; a broken link, a timeout and  *)
(* a cancelled context all end both sides with an error), Cloud Trace,     *)
(* which may refuse a span, and Pub/Sub, which delivers at least once.     *)
(***************************************************************************)
EXTENDS Integers, Sequences, SequencesExt

CONSTANTS
    Requests,        \* the requests that may arrive
    Codes,           \* names of gRPC codes
    MaxInt32,        \* the largest int32
    MaxRedeliveries  \* bound: deliveries of a message after the first

Chunked   == {"client", "bidi"}
Streams   == Chunked \cup {"server"}
Direct    == {"fail", "panic", "echo"}      \* called by the tests, past the front
Endpoints == Streams \cup Direct \cup {"simple", "http", "grpc", "pubsub"}

ASSUME RequestAssumption ==
    /\ {"OK", "Unknown", "Internal", "InvalidArgument", "Canceled"} \subseteq Codes
    /\ MaxInt32 \in Nat /\ MaxRedeliveries \in Nat
    /\ \A r \in Requests : /\ r.endpoint \in Endpoints
                           /\ r.count \in Int
                           /\ r.propagate \in BOOLEAN
                           /\ r.endpoint = "http" => r.propagate \/ ~r.traced
                           /\ r.chunks \in Seq(Range(r.chunks))
                           /\ \A n \in DOMAIN r.chunks : r.chunks[n].close \in BOOLEAN

VARIABLES
    app,        \* where run of trace-target-app is
    open,       \* what run has opened and its defers will close, oldest first
    clients,    \* what the handlers were given: invoker.GRPCClient, pubsubTopic
    cancelled,  \* the signal has come: ctx, the base of every request, is done
    req, pc,    \* the request and where its handler is
    answers,    \* the statuses written for it
    sent,       \* payloads sent downstream
    got,        \* responses received
    callErr,    \* the downstream call returned an error
    stored,     \* whether the span of a simple request is in Cloud Trace
    wpc, work,  \* the worker's handler and its clientStreamState/bidiStreamState
    status,     \* the code the worker ended with, or "none"
    up, down,   \* messages to the worker and to the client
    sendClosed, \* the client has called CloseSend
    trailers,   \* the worker's status has reached the client
    link,       \* whether the call's connection and context are alive
    msg,        \* where the Pub/Sub message is
    receiver,   \* whether sub.Receive is running
    redelivered,
    worked      \* the services that have done work under a trace

appVars    == <<app, open, clients, cancelled>>
frontVars  == <<req, pc, answers, sent, got, callErr, stored>>
workerVars == <<wpc, work, status>>
netVars    == <<up, down, sendClosed, trailers, link>>
subVars    == <<msg, receiver, redelivered>>
vars == <<appVars, frontVars, workerVars, netVars, subVars, worked>>

None  == "none"
Blank == ""
NoReq == [endpoint |-> None]

Init ==
    /\ app = "handler" /\ open = << >> /\ clients = {}
    /\ cancelled = FALSE
    /\ req = NoReq /\ pc = "idle" /\ answers = << >>
    /\ sent = 0 /\ got = << >> /\ callErr = FALSE /\ stored = FALSE
    /\ wpc = "idle" /\ work = [id |-> Blank, final |-> "OK", received |-> 0]
    /\ status = None
    /\ up = << >> /\ down = << >> /\ sendClosed = FALSE
    /\ trailers = FALSE /\ link = "up"
    /\ msg = None /\ receiver = TRUE /\ redelivered = 0
    /\ worked = {}

-----------------------------------------------------------------------------
(* trace-target-app from start to end.                                     *)

(* The steps of run and what each opens.                                   *)
BootOrder == <<"handler", "trace", "pubsub", "auth", "grpc", "serving">>

NextStep(s) == BootOrder[1 + CHOOSE i \in 1..(Len(BootOrder) - 1) : BootOrder[i] = s]

(* What a step opens: setupPubSubPublisher a client and its publisher.     *)
Opened(step) == CASE step = "pubsub" -> <<"publisher", "pubsub">>
                  [] step = "auth"   -> << >>
                  [] OTHER           -> <<step>>

(* run can do without a topic, and without a gRPC connection, whose target *)
(* may be unset, without credentials or impossible to dial.                *)
Optional == {"pubsub", "grpc"}

(* A failure of these ends run.                                            *)
Required == {"handler", "trace", "pubsub", "auth"}

(* run opens the next thing; when it returns early the defers close.       *)
Open ==
    /\ app \in Optional \cup Required
    /\ \/ /\ open' = open \o Opened(app)
          /\ clients' = clients \cup ({app} \cap Optional)
          /\ app' = NextStep(app)
       \/ /\ app \in Optional
          /\ app' = NextStep(app)
          /\ UNCHANGED <<open, clients>>
       \/ /\ app \in Required
          /\ app' = "closing"
          /\ UNCHANGED <<open, clients>>
    /\ UNCHANGED <<cancelled, frontVars, workerVars, netVars, subVars, worked>>

(* SIGTERM: ctx is done, and with it the context of every request.         *)
Signal ==
    /\ app = "serving"
    /\ app' = "draining"
    /\ cancelled' = TRUE
    /\ link' = "down"
    /\ UNCHANGED <<open, clients, frontVars, workerVars,
                   up, down, sendClosed, trailers, subVars, worked>>

InFlight == pc \notin {"idle", "done"}

(* serveUntilShutdown returns: after the signal, when Shutdown has waited  *)
(* for the request or its 30 seconds are over; without one, when the       *)
(* listener fails, whoever is being served.                                *)
ServeUntilShutdown ==
    /\ app \in {"draining", "serving"}
    /\ app' = "closing"
    /\ UNCHANGED <<open, clients, cancelled, frontVars, workerVars, netVars,
                   subVars, worked>>

(* A deferred close.  Closing the Pub/Sub client loses a message that has  *)
(* not gone out: its publisher is only stopped afterwards.                 *)
CloseNext ==
    /\ app = "closing" /\ open # << >>
    /\ open' = Front(open)
    /\ msg' = IF Last(open) = "pubsub" /\ msg = "sending" THEN "lost" ELSE msg
    /\ UNCHANGED <<app, clients, cancelled, frontVars,
                   workerVars, netVars, receiver, redelivered, worked>>

(* run has returned and the process ends, with every request in it.        *)
Exit ==
    /\ app = "closing" /\ open = << >>
    /\ app' = "stopped"
    /\ link' = "down"
    /\ UNCHANGED <<open, clients, cancelled, frontVars,
                   workerVars, up, down, sendClosed, trailers, subVars, worked>>

Running == app # "stopped"

-----------------------------------------------------------------------------
(* The request.                                                            *)

Arrive ==
    /\ app = "serving" /\ pc = "idle"
    /\ \E r \in Requests :
          /\ req' = r
          /\ pc' = IF r.endpoint \in Direct THEN "call" ELSE "decode"
    /\ UNCHANGED <<appVars, answers, sent, got, callErr, stored, workerVars,
                   netVars, subVars, worked>>

(* The error of decode*TraceRequest: no JSON, no trace_request where there *)
(* must be one, a blank test_id, a negative count, nothing to send.        *)
DecodeFails ==
    \/ ~req.json
    \/ req.endpoint \in Streams /\ ~req.wrapped
    \/ req.id = Blank
    \/ req.endpoint = "server" /\ req.count < 0
    \/ req.endpoint \in Chunked /\ req.chunks = << >>

(* http.Error, which a return follows.                                     *)
Refuse(code) == answers' = Append(answers, code)

(* The success and its body; when Encode cannot write the body, http.Error *)
(* answers a second time, which net/http ignores but for its text.         *)
WriteTraceResponse ==
    answers' \in {Append(answers, 200), answers \o <<200, 500>>}

(* TraceDownstreamPubSub without a publisher; it keeps one that has been   *)
(* stopped.                                                                *)
NoPublisher == req.endpoint = "pubsub" /\ "pubsub" \notin clients

(* The first lines of every handler.                                       *)
Decode ==
    /\ Running /\ pc = "decode"
    /\ \/ DecodeFails /\ Refuse(400) /\ pc' = "done"
       \/ ~DecodeFails /\ NoPublisher /\ Refuse(503) /\ pc' = "done"
       \/ ~DecodeFails /\ ~NoPublisher /\ ~req.traced /\ Refuse(400) /\ pc' = "done"
       \/ /\ ~DecodeFails /\ ~NoPublisher /\ req.traced
          /\ pc' = "call" /\ UNCHANGED answers
    /\ UNCHANGED <<appVars, req, sent, got, callErr, stored, workerVars,
                   netVars, subVars, worked>>

(* writeSpan may be refused, and is once the context is done.              *)
SpanStored == IF cancelled THEN {FALSE} ELSE BOOLEAN

(* TraceSimple: the span is the answer.                                    *)
TraceSimple ==
    /\ Running /\ pc = "call" /\ req.endpoint = "simple"
    /\ stored' \in SpanStored
    /\ IF stored' THEN WriteTraceResponse ELSE Refuse(500)
    /\ pc' = "done"
    /\ UNCHANGED <<appVars, req, sent, got, callErr, workerVars, netVars, subVars,
                   worked>>

(* int32FromInt saturates.                                                 *)
Int32FromInt(v) == IF v > MaxInt32 THEN MaxInt32
                   ELSE IF v < -MaxInt32 - 1 THEN -MaxInt32 - 1 ELSE v

(* buildBidiStreamMessages and the same loop of the client stream: a blank *)
(* test id is the request's, a blank chunk id the chunk's number.          *)
Payload(n) ==
    [n |-> n, id |-> IF req.chunks[n].id = Blank THEN req.id ELSE req.chunks[n].id,
     final |-> req.chunks[n].final, close |-> req.chunks[n].close]

(* A test that calls the worker itself writes no spans.                    *)
AfterCall == IF req.endpoint \in Direct THEN "done" ELSE "spans"

Fail == callErr' = TRUE /\ pc' = AfterCall

(* The call begins: without a client it fails at once; a call with one     *)
(* request message sends it and half-closes.                               *)
OpenCall ==
    /\ Running /\ pc = "call" /\ req.endpoint \notin {"simple", "pubsub"}
    /\ \/ /\ \/ req.endpoint \in Streams \cup {"grpc"} /\ "grpc" \notin clients
             \/ link = "down"
          /\ Fail
          /\ UNCHANGED <<wpc, sendClosed>>
       \/ /\ req.endpoint \in Streams \cup {"grpc"} => "grpc" \in clients
          /\ link = "up"
          /\ wpc' = "loop"
          /\ sendClosed' = (req.endpoint \notin Chunked)
          /\ pc' = CASE req.endpoint \in Chunked -> "send"
                     [] req.endpoint = "server"  -> "drain"
                     [] OTHER                    -> "await"
          /\ UNCHANGED callErr
    /\ UNCHANGED <<appVars, req, answers, sent, got, stored, work, status,
                   up, down, trailers, link, subVars, worked>>

(* stream.Send of the client: EOF, an error like any other to its callers, *)
(* once the stream is over, whether or not it ended well.  A bidi exchange *)
(* then half-closes before it returns.                                     *)
Send ==
    /\ Running /\ pc = "send" /\ sent < Len(req.chunks)
    /\ \/ /\ ~trailers /\ link = "up"
          /\ sent' = sent + 1
          /\ up' = Append(up, Payload(sent + 1))
          /\ pc' = IF req.endpoint = "bidi" THEN "recv" ELSE "send"
          /\ UNCHANGED <<callErr, sendClosed>>
       \/ /\ trailers \/ link = "down"
          /\ Fail
          /\ sendClosed' = (req.endpoint = "bidi")
          /\ UNCHANGED <<sent, up>>
    /\ UNCHANGED <<appVars, req, answers, got, stored, workerVars, down,
                   trailers, link, subVars, worked>>

(* What stream.Recv of the client can return now.                          *)
CanRead  == down # << >>
AtEOF    == down = << >> /\ trailers /\ status = "OK"
AtError  == link = "down" \/ (down = << >> /\ trailers /\ status # "OK")

(* exchangeBidiStreamMessages after a Send: the reply, or the end.         *)
RecvReply ==
    /\ Running /\ pc = "recv"
    /\ \/ /\ CanRead
          /\ got' = Append(got, Head(down)) /\ down' = Tail(down)
          /\ pc' = "send"
          /\ UNCHANGED <<callErr, sendClosed>>
       \/ /\ AtEOF
          /\ pc' = "close"
          /\ UNCHANGED <<got, down, callErr, sendClosed>>
       \/ /\ AtError
          /\ Fail /\ sendClosed' = TRUE
          /\ UNCHANGED <<got, down>>
    /\ UNCHANGED <<appVars, req, answers, sent, stored, workerVars, up,
                   trailers, link, subVars, worked>>

(* Mutant of CloseSend: the tail is drained without half-closing.          *)
CloseSendForgotten ==
    /\ Running
    /\ pc = "close" \/ (pc = "send" /\ sent = Len(req.chunks))
    /\ pc' = IF req.endpoint = "bidi" THEN "drain" ELSE "await"
    /\ UNCHANGED <<appVars, req, answers, sent, got, callErr, stored, workerVars,
                   netVars, subVars, worked>>

(* drainBidiStreamTail and CloseAndRecv half-close first.                  *)
CloseSend ==
    /\ Running
    /\ pc = "close" \/ (pc = "send" /\ sent = Len(req.chunks))
    /\ sendClosed' = TRUE
    /\ pc' = IF req.endpoint = "bidi" THEN "drain" ELSE "await"
    /\ UNCHANGED <<appVars, req, answers, sent, got, callErr, stored, workerVars,
                   up, down, trailers, link, subVars, worked>>

(* The loops of CallDownstreamGRPCServerStream and drainBidiStreamTail.    *)
Drain ==
    /\ Running /\ pc = "drain"
    /\ \/ /\ CanRead
          /\ got' = Append(got, Head(down)) /\ down' = Tail(down)
          /\ UNCHANGED <<pc, callErr>>
       \/ /\ AtEOF
          /\ pc' = "spans"
          /\ UNCHANGED <<got, down, callErr>>
       \/ /\ AtError
          /\ Fail
          /\ UNCHANGED <<got, down>>
    /\ UNCHANGED <<appVars, req, answers, sent, stored, workerVars, up,
                   sendClosed, trailers, link, subVars, worked>>

(* A call with one response: CallDownstreamHTTP, whose status must be 200, *)
(* DoWork, and CloseAndRecv.                                               *)
Await ==
    /\ Running /\ pc = "await"
    /\ \/ /\ trailers /\ status = "OK"
          /\ got' = down /\ down' = << >>
          /\ pc' = AfterCall
          /\ UNCHANGED callErr
       \/ /\ link = "down" \/ (trailers /\ status # "OK")
          /\ Fail
          /\ UNCHANGED <<got, down>>
    /\ UNCHANGED <<appVars, req, answers, sent, stored, workerVars, up,
                   sendClosed, trailers, link, subVars, worked>>

(* The outgoing span and the parent are written however the call ended; a  *)
(* refusal is logged and nothing more.  Then the answer; the request's     *)
(* context ends with it.                                                   *)
Finish(endpoint) ==
    /\ Running /\ pc = "spans" /\ req.endpoint = endpoint
    /\ IF callErr THEN Refuse(502) ELSE WriteTraceResponse
    /\ pc' = "done" /\ link' = "down"
    /\ UNCHANGED <<appVars, req, sent, got, callErr, stored, workerVars,
                   up, down, sendClosed, trailers, subVars, worked>>

TraceDownstreamHTTP             == Finish("http")
TraceDownstreamGRPC             == Finish("grpc")
TraceDownstreamGRPCServerStream == Finish("server")
TraceDownstreamGRPCClientStream == Finish("client")
TraceDownstreamGRPCBidiStream   == Finish("bidi")

-----------------------------------------------------------------------------
(* The workers.                                                            *)

(* parseStatusCode: blank is Internal, what is no name or number Unknown.  *)
ParseStatusCode(raw) ==
    CASE raw = Blank   -> "Internal"
      [] raw \in Codes -> raw
      [] OTHER         -> "Unknown"

(* fmt.Errorf around status.Error: status.Error of OK is nil, so that the  *)
(* error around it has no status.                                          *)
StatusOf(code) == IF code = "OK" THEN "Unknown" ELSE code

Return(code) == status' = code /\ wpc' = "done"

(* No work without a trace, and no error for a span that is refused.  The  *)
(* trace is the caller's, or one of the platform if the caller sends none. *)
(* A 400 and an error without a status are both "Unknown".                 *)
Work(protocol) ==
    /\ wpc = "loop" /\ req.endpoint = protocol
    /\ \/ /\ Return("OK")
          /\ worked' = worked \cup {protocol}
       \/ /\ ~req.propagate
          /\ Return("Unknown") /\ UNCHANGED worked
    /\ UNCHANGED <<appVars, frontVars, work, netVars, subVars>>

HandleWork == Work("http")
DoWork     == Work("grpc")

(* FailWork, PanicWork and EchoPayload, which the tests call themselves.   *)
DirectWork ==
    /\ wpc = "loop" /\ req.endpoint \in Direct
    /\ Return(CASE req.endpoint = "fail"  -> StatusOf(ParseStatusCode(req.final))
                [] req.endpoint = "panic" -> "Internal"
                [] OTHER                  -> "OK")
    /\ UNCHANGED <<appVars, frontVars, work, netVars, subVars, worked>>

(* StreamServer: so many responses, then the final status, of which blank  *)
(* and OK are a success.                                                   *)
StreamServer ==
    /\ wpc = "loop" /\ req.endpoint = "server"
    /\ \/ /\ link = "up" /\ work.received < Int32FromInt(req.count)
          /\ work' = [work EXCEPT !.received = @ + 1]
          /\ down' = Append(down, work.received + 1)
          /\ UNCHANGED <<wpc, status>>
       \/ /\ link = "down" /\ work.received < Int32FromInt(req.count)
          /\ Return("Canceled")
          /\ UNCHANGED <<work, down>>
       \/ /\ work.received >= Int32FromInt(req.count)
          /\ Return(IF req.final = Blank THEN "OK" ELSE ParseStatusCode(req.final))
          /\ UNCHANGED <<work, down>>
    /\ UNCHANGED <<appVars, frontVars, up, sendClosed, trailers, link, subVars, worked>>

Mismatch(chunk) == work.id \notin {Blank, chunk.id}

(* Mutant of Apply: a later chunk without a final status resets it.        *)
ApplyLast(chunk) ==
    [id |-> chunk.id, received |-> work.received + 1,
     final |-> IF chunk.final = Blank THEN "OK" ELSE ParseStatusCode(chunk.final)]

(* applyClientStreamChunk and processBidiChunk: the first test id is the   *)
(* stream's, the last final status that is not blank wins.                 *)
Apply(chunk) ==
    [id |-> chunk.id, received |-> work.received + 1,
     final |-> IF chunk.final = Blank THEN work.final ELSE ParseStatusCode(chunk.final)]

(* What the stream handlers return after their loop.                       *)
FinalStatus(w) == IF w.id = Blank THEN "InvalidArgument" ELSE w.final

(* Recv of the worker fails: the stream was reset.                         *)
WorkerCancelled ==
    /\ wpc = "loop" /\ req.endpoint \in Chunked /\ link = "down"
    /\ Return("Canceled")
    /\ UNCHANGED <<appVars, frontVars, work, netVars, subVars, worked>>

(* StreamClient.                                                           *)
StreamClient ==
    /\ wpc = "loop" /\ req.endpoint = "client"
    /\ \/ /\ up # << >> /\ Mismatch(Head(up))
          /\ Return("InvalidArgument") /\ up' = Tail(up)
          /\ UNCHANGED <<work, down>>
       \/ /\ up # << >> /\ ~Mismatch(Head(up))
          /\ work' = Apply(Head(up)) /\ up' = Tail(up)
          /\ UNCHANGED <<wpc, status, down>>
       \/ /\ up = << >> /\ sendClosed
          /\ Return(FinalStatus(work))
          /\ down' = IF FinalStatus(work) = "OK" THEN <<work.received>> ELSE << >>
          /\ UNCHANGED <<work, up>>
    /\ UNCHANGED <<appVars, frontVars, sendClosed, trailers, link, subVars, worked>>

(* StreamBidi and processBidiChunk: every chunk is echoed; close_after     *)
(* ends the stream, whatever the client has still to send.                 *)
StreamBidi ==
    /\ wpc = "loop" /\ req.endpoint = "bidi"
    /\ \/ /\ up # << >> /\ Mismatch(Head(up))
          /\ Return("InvalidArgument") /\ up' = Tail(up)
          /\ UNCHANGED <<work, down>>
       \/ /\ up # << >> /\ ~Mismatch(Head(up)) /\ link = "up"
          /\ work' = Apply(Head(up))
          /\ down' = Append(down, Head(up).n) /\ up' = Tail(up)
          /\ IF Head(up).close THEN Return(FinalStatus(work')) ELSE UNCHANGED <<wpc, status>>
       \/ /\ up = << >> /\ sendClosed
          /\ Return(FinalStatus(work))
          /\ UNCHANGED <<work, up, down>>
    /\ UNCHANGED <<appVars, frontVars, sendClosed, trailers, link, subVars, worked>>

-----------------------------------------------------------------------------
(* The network.                                                            *)

TrailersArrive ==
    /\ status # None /\ ~trailers /\ link = "up"
    /\ trailers' = TRUE
    /\ UNCHANGED <<appVars, frontVars, workerVars, up, down, sendClosed, link,
                   subVars, worked>>

(* A lost connection, the 30 seconds of the HTTP client, a worker that is  *)
(* stopped.                                                                *)
LinkBreaks ==
    /\ InFlight /\ wpc # "idle" /\ link = "up"
    /\ link' = "down"
    /\ UNCHANGED <<appVars, frontVars, workerVars, up, down, sendClosed,
                   trailers, subVars, worked>>

-----------------------------------------------------------------------------
(* Pub/Sub.                                                                *)

(* TraceDownstreamPubSub injects the trace and hands the message over.     *)
Publish ==
    /\ Running /\ pc = "call" /\ req.endpoint = "pubsub"
    /\ msg' = IF Contains(open, "pubsub") THEN "sending" ELSE "lost"
    /\ pc' = "get"
    /\ UNCHANGED <<appVars, req, answers, sent, got, callErr, stored, workerVars,
                   netVars, receiver, redelivered, worked>>

(* Mutant of GetResult: the answer does not wait for the result.           *)
GetResultNoWait ==
    /\ Running /\ pc = "get"
    /\ WriteTraceResponse /\ pc' = "done"
    /\ UNCHANGED <<appVars, req, sent, got, callErr, stored, workerVars,
                   netVars, subVars, worked>>

(* result.Get: the id of a message that is stored, or the error of the     *)
(* publication or of the context.                                          *)
GetResult ==
    /\ Running /\ pc = "get"
    /\ \/ msg \notin {"sending", "lost"} /\ WriteTraceResponse
       \/ (msg = "lost" \/ cancelled) /\ Refuse(502)
    /\ pc' = "done"
    /\ UNCHANGED <<appVars, req, sent, got, callErr, stored, workerVars,
                   netVars, subVars, worked>>

(* Pub/Sub stores the message, or refuses it.                              *)
Store ==
    /\ msg = "sending" /\ msg' \in {"queued", "lost"}
    /\ UNCHANGED <<appVars, frontVars, workerVars, netVars, receiver, redelivered, worked>>

(* handlePubSubMessage up to its log line.                                 *)
HandlePubSubMessage ==
    /\ receiver /\ msg = "queued"
    /\ msg' = "handled"
    /\ worked' = worked \cup {"pubsub"}
    /\ UNCHANGED <<appVars, frontVars, workerVars, netVars, receiver, redelivered>>

Ack ==
    /\ receiver /\ msg = "handled"
    /\ msg' = "acked"
    /\ UNCHANGED <<appVars, frontVars, workerVars, netVars, receiver, redelivered, worked>>

(* The acknowledgement is lost, or the receiver before it.                 *)
Redeliver ==
    /\ msg \in {"handled", "acked"} /\ redelivered < MaxRedeliveries
    /\ msg' = "queued" /\ redelivered' = redelivered + 1
    /\ UNCHANGED <<appVars, frontVars, workerVars, netVars, receiver, worked>>

(* sub.Receive returns an error; it is logged and nobody calls it again.   *)
(* It may have done so long before there was a message.                    *)
ReceiveStops ==
    /\ receiver /\ msg # None
    /\ receiver' = FALSE
    /\ UNCHANGED <<appVars, frontVars, workerVars, netVars, msg, redelivered, worked>>

-----------------------------------------------------------------------------
Terminated ==
    /\ app = "stopped" /\ wpc \in {"idle", "done"}
    /\ UNCHANGED vars

FrontNext ==
    \/ Decode \/ TraceSimple \/ OpenCall \/ Send \/ RecvReply \/ CloseSend
    \/ Drain \/ Await \/ Publish \/ GetResult
    \/ TraceDownstreamHTTP \/ TraceDownstreamGRPC
    \/ TraceDownstreamGRPCServerStream \/ TraceDownstreamGRPCClientStream
    \/ TraceDownstreamGRPCBidiStream

WorkerNext ==
    \/ HandleWork \/ DoWork \/ DirectWork \/ StreamServer \/ StreamClient \/ StreamBidi
    \/ WorkerCancelled

Next ==
    \/ Open \/ Signal \/ ServeUntilShutdown \/ CloseNext \/ Exit
    \/ Arrive \/ FrontNext \/ WorkerNext
    \/ TrailersArrive \/ LinkBreaks
    \/ Store \/ HandlePubSubMessage \/ Ack \/ Redeliver \/ ReceiveStops
    \/ Terminated

Spec == Init /\ [][Next]_vars

(* Goroutines run and the network delivers what it does not lose; nothing  *)
(* obliges a signal, a request, a failure or a redelivery to come.         *)
FairSpec ==
    /\ Spec
    /\ WF_vars(FrontNext) /\ WF_vars(WorkerNext)
    /\ WF_vars(TrailersArrive) /\ WF_vars(Store)
    /\ WF_vars(HandlePubSubMessage) /\ WF_vars(Ack)

-----------------------------------------------------------------------------
(* Properties.                                                             *)

(* A request is answered at most once, whatever fails on its way, for      *)
(* every http.Error of the handlers is followed by a return; the exception *)
(* is the error of writeTraceResponse, behind a success already written.   *)
AnsweredOnce == Len(answers) <= 1 \/ answers = <<200, 500>>

(* The status the client sees is the first.                                *)
Succeeded == answers # << >> /\ Head(answers) = 200

(* The chunks a bidi exchange gets through: all, or up to close_after.     *)
Processed ==
    IF req.endpoint = "bidi" /\ \E n \in DOMAIN req.chunks : req.chunks[n].close
    THEN CHOOSE n \in DOMAIN req.chunks :
            req.chunks[n].close /\ \A m \in 1..(n - 1) : ~req.chunks[m].close
    ELSE Len(req.chunks)

(* n is the last of the chunks that get through to ask for a final status. *)
LastToAsk(n) == /\ req.chunks[n].final # Blank
                /\ \A m \in (n + 1)..Processed : req.chunks[m].final = Blank

(* The whole of what was asked: every response, in order, of a server      *)
(* stream; every chunk counted, of a client stream; every chunk echoed, in *)
(* order, up to close_after, of a bidi stream; all chunks under one test   *)
(* id, the last final status OK; the span stored, if the span is the       *)
(* answer.                                                                 *)
Whole ==
    /\ req.endpoint = "simple" => stored
    /\ req.endpoint \in {"http", "grpc"} =>
          req.endpoint \in worked
    /\ req.endpoint = "server" =>
          /\ got = [i \in 1..Int32FromInt(req.count) |-> i]
          /\ req.final \in {Blank, "OK"}
    /\ req.endpoint \in Chunked =>
          /\ got = IF req.endpoint = "client" THEN <<Len(req.chunks)>>
                   ELSE [i \in 1..Processed |-> i]
          /\ \A i, j \in 1..Processed : Payload(i).id = Payload(j).id
          /\ \A n \in 1..Processed :
                LastToAsk(n) => ParseStatusCode(req.chunks[n].final) = "OK"

(* A success is the whole of what was asked.                               *)
SuccessIsWhole == Succeeded => Whole

(* The tests' own calls succeed or fail as they asked: FailWork never      *)
(* succeeds, whatever status it is told to fail with.                      *)
FailWorkFails ==
    status # None /\ req.endpoint \in {"fail", "panic"} => status # "OK"

(* A call that failed though the worker ended well has a reason: the link  *)
(* or the context was lost, or a bidi worker closed the stream before the  *)
(* client had sent everything, in which case Send may find it over.        *)
FalseAlarmHasReason ==
    callErr /\ pc = "spans" /\ status = "OK" =>
        \/ link = "down"
        \/ req.endpoint = "bidi" /\ Processed < Len(req.chunks)

(* A request has one answer, and the right one: a success is whole, and a  *)
(* failure has its reason.                                                 *)
AnswerIsRight ==
    AnsweredOnce /\ SuccessIsWhole /\ FailWorkFails /\ FalseAlarmHasReason

(* A request that arrived is answered, unless the process ends under it:   *)
(* client and worker never wait for each other.                            *)
RequestIsAnswered == [](pc = "decode" => <>(Len(answers) > 0 \/ ~Running))

(* A worker's handler returns, also when its client has given up.          *)
WorkerReturns == [](wpc = "loop" => <>(wpc = "done"))

(* Neither the caller nor a worker waits for ever.                         *)
NobodyWaits == RequestIsAnswered /\ WorkerReturns

(* A message whose publication was answered as a success is handled while  *)
(* the receiver runs, also when the publisher shuts down meanwhile.        *)
PublishedIsHandled ==
    [](Succeeded /\ req.endpoint = "pubsub" =>
          <>("pubsub" \in worked \/ ~receiver))
=============================================================================
