---------------------------- MODULE RequestScope ----------------------------
(***************************************************************************)
(* One request's RequestScope in slogcphttp: the handler answers through   *)
(* the responseRecorder of middleware.go, or the RoundTripper of           *)
(* transport.go gets a response, while other goroutines of the program     *)
(* build httpRequest payloads from the scope (http_request.go).            *)
(*                                                                         *)
(* A request reaches the server directly or through a load balancer, and   *)
(* carries forwarding headers of its sender's; scope and logger are made   *)
(* from it first.  What they say about it does not change after that and   *)
(* is left out of the states that follow.                                  *)
(*                                                                         *)
(* The scope's three fields are separate atomics: finalize stores them one *)
(* after the other, and a payload is built from separate loads.            *)
(***************************************************************************)
EXTENDS Integers, Sequences, FiniteSets

CONSTANTS
    Readers,      \* goroutines that build one payload each
    Codes,        \* the codes the handler or the peer answers with
    HandlerOps,   \* what the handler does with its ResponseWriter
    MaxOps,       \* bound: operations of the handler
    MaxChunk,     \* bound: bytes moved by one operation
    Durations,    \* what time.Since(start) gives, clock steps included
    Requests,     \* requests, as their senders made them
    Options,      \* settings given to the middleware or the transport
    Enriched,     \* attributes the configured enrichers add
    Redacted      \* attributes the configured transformers take away

Unset == -1       \* unsetLatencySentinel; also an omitted payload field
Blank == ""
OK    == 200

ASSUME ScopeAssumption ==
    /\ Codes \subseteq 100..599
    /\ HandlerOps \subseteq {"WriteHeader", "Write", "Flush", "Hijack", "panic"}
    /\ MaxOps \in Nat /\ MaxChunk \in Nat
    /\ Durations \subseteq Int
    /\ \A r \in Requests : /\ r.path \in {"direct", "proxied"}
                           /\ r.xff \in Seq(STRING)
                           /\ r.scheme \in {"http", "https"}
                           /\ r.urlScheme \in {Blank, "http", "https"}

VARIABLES
    req,        \* the request
    cfg,        \* the configuration it meets
    meta,       \* the scope's account of the request
    attrs,      \* the attributes of the request's logger
    outbound,   \* a scope of the transport, or else of the middleware
    status,     \* scope.status
    respBytes,  \* scope.respBytes
    latency,    \* scope.latencyNS
    rr,         \* the responseRecorder
    wire,       \* net/http's answer: what it holds, what the client was sent
    hpc,        \* where the handler or the round trip is
    ops,        \* how many operations the handler has made
    fin,        \* the arguments of finalize
    rpc,        \* where each reader is
    kind,       \* which payload builder it runs
    snap        \* the payload it has built so far

scopeVars  == <<status, respBytes, latency>>
serverVars == <<outbound, rr, wire, ops>>
readVars   == <<rpc, kind, snap>>
newVars    == <<req, cfg, meta, attrs>>
vars       == <<scopeVars, serverVars, hpc, fin, readVars, newVars>>

Empty == [status |-> Unset, size |-> Unset, latency |-> Unset]

NoMeta == [ip |-> "", scheme |-> "", host |-> ""]
NoReq  == [path |-> "direct", method |-> "GET", urlScheme |-> "", xff |-> <<>>,
           proto |-> <<>>, scheme |-> "http", host |-> "", urlHost |-> ""]

-----------------------------------------------------------------------------
(* Options: what is not given has its default; a position from the right   *)
(* is at least 1.                                                          *)
DefaultConfig ==
    [proxy |-> "none", fromRight |-> 2, trustProto |-> "unset", managed |-> FALSE,
     clientIP |-> TRUE, query |-> FALSE, agent |-> FALSE, payload |-> FALSE]

ApplyOptions(o) ==
    [k \in DOMAIN DefaultConfig |->
        CASE k \notin DOMAIN o -> DefaultConfig[k]
          [] k = "fromRight" /\ o[k] <= 0 -> 1
          [] OTHER -> o[k]]

(* newRequestScope and newClientScope: an outbound size starts unknown.    *)
Init ==
    /\ outbound \in BOOLEAN
    /\ req \in Requests
    /\ cfg \in {ApplyOptions(o) : o \in Options}
    /\ meta = NoMeta /\ attrs = {}
    /\ status = 0
    /\ respBytes = IF outbound THEN Unset ELSE 0
    /\ latency = Unset
    /\ rr = [status |-> 0, wroteHeader |-> FALSE, bytes |-> 0]
    /\ wire = [status |-> 0, held |-> 0, bytes |-> 0, head |-> FALSE,
               broken |-> FALSE, informed |-> FALSE, flushed |-> FALSE,
               hijacked |-> FALSE, aborted |-> FALSE]
    /\ hpc = "new"
    /\ ops = 0
    /\ fin = [status |-> 0, bytes |-> 0, latency |-> 0]
    /\ rpc = [g \in Readers |-> "idle"]
    /\ kind = [g \in Readers |-> "none"]
    /\ snap = [g \in Readers |-> Empty]

-----------------------------------------------------------------------------
(* How the request reaches the server.  The load balancer appends the      *)
(* client's address and its own to what the client sent, says which scheme *)
(* the client used, and talks to the server in the clear.                  *)

XForwardedFor(r)   == IF r.path = "direct" THEN r.xff ELSE r.xff \o <<"client", "lb">>
XForwardedProto(r) == IF r.path = "direct" THEN r.proto ELSE <<r.scheme>>
TLS(r)             == r.path = "direct" /\ r.scheme = "https"
RemoteAddr(r)      == IF r.path = "direct" THEN "client" ELSE "lb"

IPs == {"client", "lb", "spoofed"}      \* what netip.ParseAddr accepts

(* Mutant of GCLBClientIP: the leftmost address, which is the sender's.    *)
GCLBClientIPLeftmost(xff, fromRight) ==
    LET cleaned == SelectSeq(xff, LAMBDA p : p # "")
    IN  IF cleaned # <<>> /\ Head(cleaned) \in IPs THEN Head(cleaned) ELSE ""

(* The place of an element among those that are not blank.                 *)
FromRight(xff, i) == Cardinality({j \in i..Len(xff) : xff[j] # ""})

(* gclbClientIPFromXForwardedFor: the Nth element from the right that is   *)
(* not blank, if it is an address.                                         *)
GCLBClientIP(xff, fromRight) ==
    LET nth == {i \in DOMAIN xff : xff[i] # "" /\ FromRight(xff, i) = fromRight}
        ips == {xff[i] : i \in nth} \cap IPs
    IN  IF ips # {} THEN CHOOSE ip \in ips : TRUE ELSE ""

(* clientIPFromRequest.                                                    *)
ClientIPFromRequest(r, c) ==
    LET ip == GCLBClientIP(XForwardedFor(r), c.fromRight)
    IN  IF c.proxy = "gclb" /\ ip # "" THEN ip ELSE RemoteAddr(r)

(* applyDefaultForwardedProtoTrust: an explicit setting, the proxy mode,   *)
(* or a platform that ends TLS before the server.                          *)
TrustXForwardedProto(c) ==
    IF c.trustProto # "unset" THEN c.trustProto = "on"
    ELSE c.proxy = "gclb" \/ c.managed

(* inferScheme and xForwardedProto: the first token, if it is a scheme.    *)
(* The proxy mode is trusted whatever WithTrustXForwardedProto said.       *)
InferScheme(r, c) ==
    LET proto == XForwardedProto(r)
    IN  IF /\ c.proxy = "gclb" \/ TrustXForwardedProto(c)
           /\ proto # <<>> /\ Head(proto) \in {"http", "https"}
        THEN Head(proto)
        ELSE IF TLS(r) THEN "https" ELSE "http"

(* outboundHostPort: the URL's host, or else the Host field's.             *)
OutboundHost(r) == IF r.urlHost # "" THEN r.urlHost ELSE r.host

(* newRequestScope: the scheme of a target in absolute form, be it what    *)
(* its sender likes, comes before every other sign.                        *)
NewRequestScope ==
    /\ ~outbound /\ hpc = "new"
    /\ meta' = [ip |-> IF cfg.clientIP THEN ClientIPFromRequest(req, cfg) ELSE "",
                scheme |-> IF req.urlScheme # Blank THEN req.urlScheme
                           ELSE InferScheme(req, cfg),
                host |-> req.host]
    /\ hpc' = "scope"
    /\ UNCHANGED <<req, cfg, attrs, scopeVars, serverVars, fin, readVars>>

(* newClientScope.                                                         *)
NewClientScope ==
    /\ outbound /\ hpc = "new"
    /\ meta' = [ip |-> IF cfg.clientIP THEN OutboundHost(req) ELSE "",
                scheme |-> req.scheme, host |-> req.urlHost]
    /\ hpc' = "scope"
    /\ UNCHANGED <<req, cfg, attrs, scopeVars, serverVars, fin, readVars>>

(* appendMetricAttrs: a scope that is not final has neither.               *)
MetricAttrs ==
    (IF status > 0 THEN {"http.status_code"} ELSE {})
    \cup (IF latency # Unset THEN {"http.response_size", "http.latency"} ELSE {})

(* appendClientAttrs.                                                      *)
ClientAttrs ==
    (IF ~cfg.clientIP \/ meta.ip = "" THEN {}
     ELSE {IF outbound THEN "server.address" ELSE "network.peer.ip"})
    \cup (IF cfg.agent THEN {"http.user_agent"} ELSE {})

(* loggerAttrs.                                                            *)
LoggerAttrs ==
    {"http.method", "http.target"}
    \cup (IF cfg.query THEN {"http.query"} ELSE {})
    \cup (IF meta.scheme # "" THEN {"http.scheme"} ELSE {})
    \cup (IF meta.host # "" THEN {"http.host"} ELSE {})
    \cup MetricAttrs \cup ClientAttrs

(* HTTPRequestAttr of the middleware; the transport adds none.             *)
PayloadAttr == IF cfg.payload /\ ~outbound THEN {"httpRequest"} ELSE {}

(* buildRequestAttributes and the transport's buildAttrs.                  *)
RequestAttributes == (LoggerAttrs \cup Enriched \cup PayloadAttr) \ Redacted

AttachLogger ==
    /\ hpc = "scope"
    /\ attrs' = RequestAttributes
    /\ hpc' = "logger"
    /\ UNCHANGED <<req, cfg, meta, scopeVars, serverVars, fin, readVars>>

(* The request goes on to the handler or to the base transport.            *)
Begin ==
    /\ hpc = "logger"
    /\ wire' = [wire EXCEPT !.head = ~outbound /\ req.method = "HEAD"]
    /\ req' = NoReq /\ cfg' = DefaultConfig /\ meta' = NoMeta /\ attrs' = {}
    /\ hpc' = "run"
    /\ UNCHANGED <<scopeVars, outbound, rr, ops, fin, readVars>>

-----------------------------------------------------------------------------
(* RequestScope.Status, responseRecorder.Status and setStatus.             *)
DefaultStatus(code) == IF code <= 0 THEN OK ELSE code

-----------------------------------------------------------------------------
(* net/http's ResponseWriter: an informational header goes out by itself,  *)
(* the first other one is the answer, later ones are ignored, and a write  *)
(* or a flush without one sends 200.                                       *)
Informational(code) == code \in 100..199

SendHeader(wr, code) ==
    IF wr.status # 0 \/ wr.hijacked THEN wr
    ELSE IF Informational(code) THEN [wr EXCEPT !.informed = TRUE]
    ELSE [wr EXCEPT !.status = code]

(* What Write says it took: nothing of a body the answer cannot have, or   *)
(* any part of it, all of it for HEAD and for as long as buffers last.     *)
Takes(wr) == IF wr.hijacked \/ wr.status \in {204, 304} THEN {0} ELSE 0..MaxChunk

(* What is taken waits in a buffer.  The body of a HEAD request and what   *)
(* comes after the connection failed are taken and go nowhere.             *)
SendBody(wr, n) ==
    LET v == SendHeader(wr, OK)
    IN  IF v.head \/ v.broken THEN v ELSE [v EXCEPT !.held = @ + n]

(* The buffer goes out in parts of any size; the connection may fail.      *)
Push(wr, k, b) == [wr EXCEPT !.bytes = @ + k, !.held = @ - k, !.broken = b]

Pushed(wr) ==
    IF wr.broken \/ wr.hijacked THEN {wr}
    ELSE {Push(wr, k, b) : k \in 0..wr.held, b \in BOOLEAN}

(* All of it goes out, unless the connection fails.                        *)
Drained(wr) == {v \in Pushed(wr) : v.held = 0 \/ v.broken \/ v.hijacked}

-----------------------------------------------------------------------------
(* The responseRecorder, used by the handler's goroutine alone.            *)

HandlerMay(o) ==
    /\ ~outbound
    /\ hpc = "run"
    /\ o \in HandlerOps
    /\ ops < MaxOps
    /\ ops' = ops + 1
    /\ UNCHANGED outbound

(* What WriteHeader leaves in the recorder, the scope and on the wire.     *)
RecordHeader(code) ==
    /\ wire' = SendHeader(wire, code)
    /\ IF rr.wroteHeader
       THEN UNCHANGED <<rr, status>>
       ELSE /\ rr' = [rr EXCEPT !.status = code, !.wroteHeader = TRUE]
            /\ status' = DefaultStatus(code)

(* Mutant of WriteHeader: the last status wins, not the first.             *)
WriteHeaderLast ==
    /\ HandlerMay("WriteHeader")
    /\ \E code \in Codes :
        /\ wire' = SendHeader(wire, code)
        /\ rr' = [rr EXCEPT !.status = code, !.wroteHeader = TRUE]
        /\ status' = DefaultStatus(code)
    /\ UNCHANGED <<respBytes, latency, hpc, fin, readVars, newVars>>

WriteHeader ==
    /\ HandlerMay("WriteHeader")
    /\ \E code \in Codes : RecordHeader(code)
    /\ UNCHANGED <<respBytes, latency, hpc, fin, readVars, newVars>>

(* Write and ReadFrom: the implicit header, and ...                        *)
BeginWrite ==
    /\ HandlerMay("Write")
    /\ IF rr.wroteHeader THEN UNCHANGED <<rr, wire, status>>
                         ELSE RecordHeader(OK)
    /\ hpc' = "body"
    /\ UNCHANGED <<respBytes, latency, fin, readVars, newVars>>

(* Mutant of EndWrite: it counts what Write was asked for, not its result. *)
EndWriteAsked ==
    /\ hpc = "body"
    /\ \E n \in Takes(wire) : wire' \in Pushed(SendBody(wire, n))
    /\ rr' = [rr EXCEPT !.bytes = @ + MaxChunk]
    /\ respBytes' = respBytes + MaxChunk
    /\ hpc' = "run"
    /\ UNCHANGED <<outbound, status, latency, ops, fin, readVars, newVars>>

(* ... the body, of which the recorder counts what Write says it took.     *)
EndWrite ==
    /\ hpc = "body"
    /\ \E n \in Takes(wire) :
        /\ wire' \in Pushed(SendBody(wire, n))
        /\ rr' = [rr EXCEPT !.bytes = @ + n]
        /\ respBytes' = respBytes + n
    /\ hpc' = "run"
    /\ UNCHANGED <<outbound, status, latency, ops, fin, readVars, newVars>>

(* Flush goes to the wrapped writer, past the recorder's status.           *)
Flush ==
    /\ HandlerMay("Flush")
    /\ \E wr \in Drained(SendHeader(wire, OK)) :
        wire' = [wr EXCEPT !.flushed = @ \/ wire.status = 0]
    /\ UNCHANGED <<rr, scopeVars, hpc, fin, readVars, newVars>>

(* Hijack hands the connection to the handler.                             *)
Hijack ==
    /\ HandlerMay("Hijack")
    /\ ~wire.hijacked
    /\ wire' = [wire EXCEPT !.hijacked = TRUE]
    /\ UNCHANGED <<rr, scopeVars, hpc, fin, readVars, newVars>>

-----------------------------------------------------------------------------
(* The end of the request.                                                 *)

Finalize(code, bytes) ==
    /\ \E d \in Durations :
        fin' = [status |-> code, bytes |-> bytes, latency |-> d]
    /\ hpc' = "status"

(* Mutant of ServeHTTP: finalize is not deferred.                          *)
ServeHTTPNoDefer ==
    /\ ~outbound
    /\ hpc = "run"
    /\ \/ /\ Finalize(DefaultStatus(rr.status), rr.bytes)
          /\ UNCHANGED wire
       \/ /\ "panic" \in HandlerOps
          /\ wire' = [wire EXCEPT !.aborted = TRUE]
          /\ hpc' = "done"
          /\ UNCHANGED fin
    /\ UNCHANGED <<outbound, scopeVars, rr, ops, readVars, newVars>>

(* next.ServeHTTP returns or panics; the deferred call finalizes the scope *)
(* with what the recorder holds either way.                                *)
ServeHTTP ==
    /\ ~outbound
    /\ hpc = "run"
    /\ \/ UNCHANGED wire
       \/ "panic" \in HandlerOps /\ wire' = [wire EXCEPT !.aborted = TRUE]
    /\ Finalize(DefaultStatus(rr.status), rr.bytes)
    /\ UNCHANGED <<outbound, scopeVars, rr, ops, readVars, newVars>>

(* finishRoundTrip: a response, whose length may be unknown, or an error.  *)
RoundTrip ==
    /\ outbound
    /\ hpc = "run"
    /\ \/ \E code \in Codes, n \in -1..MaxChunk : Finalize(code, n)
       \/ Finalize(0, respBytes)
    /\ UNCHANGED <<scopeVars, serverVars, readVars, newVars>>

(* Mutant of FinalizeStatus: latency is stored first.                      *)
FinalizeStatusLatencyFirst ==
    /\ hpc = "status"
    /\ status' = DefaultStatus(fin.status)
    /\ latency' = IF fin.latency < 0 THEN 0 ELSE fin.latency
    /\ hpc' = "bytes"
    /\ UNCHANGED <<respBytes, serverVars, fin, readVars, newVars>>

(* finalize: three stores, the one that makes the scope final last.        *)
FinalizeStatus ==
    /\ hpc = "status"
    /\ status' = DefaultStatus(fin.status)
    /\ hpc' = "bytes"
    /\ UNCHANGED <<respBytes, latency, serverVars, fin, readVars, newVars>>

FinalizeBytes ==
    /\ hpc = "bytes"
    /\ respBytes' = IF fin.bytes >= 0 THEN fin.bytes ELSE respBytes
    /\ hpc' = "latency"
    /\ UNCHANGED <<status, latency, serverVars, fin, readVars, newVars>>

FinalizeLatency ==
    /\ hpc = "latency"
    /\ latency' = IF fin.latency < 0 THEN 0 ELSE fin.latency
    /\ hpc' = "done"
    /\ UNCHANGED <<status, respBytes, serverVars, fin, readVars, newVars>>

(* Only then net/http ends the answer: it sends 200 if nothing was sent    *)
(* and flushes what it holds, or drops the connection after a panic.       *)
EndAnswer ==
    /\ ~outbound /\ hpc = "done"
    /\ wire' \in IF wire.aborted THEN Pushed(wire) ELSE Drained(SendHeader(wire, OK))
    /\ hpc' = "answered"
    /\ UNCHANGED <<scopeVars, outbound, rr, ops, fin, readVars, newVars>>

-----------------------------------------------------------------------------
(* The payload builders.  A negative field is left out of the payload.     *)

(* The builder behind HTTPRequestAttr, or HTTPRequestFromScope, begins     *)
(* with the latency and goes on only when it is final; the attribute's     *)
(* builder otherwise asks for the latency again.                           *)
ReadLatency(g) ==
    /\ rpc[g] = "idle" /\ hpc \notin {"new", "scope", "logger"}
    /\ \E k \in {"HTTPRequestAttr", "HTTPRequestFromScope"} :
        /\ kind' = [kind EXCEPT ![g] = k]
        /\ rpc' = [rpc EXCEPT ![g] =
                      CASE latency # Unset -> "size"
                        [] latency = Unset /\ k = "HTTPRequestAttr" -> "again"
                        [] OTHER -> "done"]
    /\ snap' = [snap EXCEPT ![g].latency = latency]
    /\ UNCHANGED <<scopeVars, serverVars, hpc, fin, newVars>>

ReadSize(g) ==
    /\ rpc[g] = "size"
    /\ snap' = [snap EXCEPT ![g].size = respBytes]
    /\ rpc' = [rpc EXCEPT ![g] = "status"]
    /\ UNCHANGED <<scopeVars, serverVars, hpc, fin, kind, newVars>>

ReadStatus(g) ==
    /\ rpc[g] = "status"
    /\ snap' = [snap EXCEPT ![g].status = DefaultStatus(status)]
    /\ rpc' = [rpc EXCEPT ![g] = "done"]
    /\ UNCHANGED <<scopeVars, serverVars, hpc, fin, kind, newVars>>

(* latencyForLogging.                                                      *)
LatencyForLogging(g) ==
    /\ rpc[g] = "again"
    /\ snap' = [snap EXCEPT ![g].latency = latency]
    /\ rpc' = [rpc EXCEPT ![g] = "done"]
    /\ UNCHANGED <<scopeVars, serverVars, hpc, fin, kind, newVars>>

-----------------------------------------------------------------------------
Construct == NewRequestScope \/ NewClientScope \/ AttachLogger \/ Begin

Handler == WriteHeader \/ BeginWrite \/ EndWrite \/ Flush \/ Hijack

Finish == FinalizeStatus \/ FinalizeBytes \/ FinalizeLatency

Reader(g) ==
    ReadLatency(g) \/ ReadSize(g) \/ ReadStatus(g) \/ LatencyForLogging(g)

Terminated ==
    /\ hpc = IF outbound THEN "done" ELSE "answered"
    /\ \A g \in Readers : rpc[g] = "done"
    /\ UNCHANGED vars

Next ==
    \/ Construct
    \/ Handler
    \/ ServeHTTP
    \/ RoundTrip
    \/ Finish
    \/ EndAnswer
    \/ \E g \in Readers : Reader(g)
    \/ Terminated

(* The goroutine that serves the request keeps running once the handler is *)
(* through; the handler itself may take for ever.                          *)
Spec == Init /\ [][Next]_vars /\ WF_vars(Finish)

-----------------------------------------------------------------------------
Shown(x) == x # Unset

(* A payload that shows a status shows the final one, together with the    *)
(* final size and latency: finalize stores the latency last and the        *)
(* builders load it first, so no payload mixes an intermediate status or   *)
(* byte count with a final one.                                            *)
SnapshotIsFinal ==
    \A g \in Readers :
        rpc[g] = "done" /\ Shown(snap[g].status) =>
            /\ hpc \in {"done", "answered"}
            /\ snap[g] = [status |-> status, size |-> respBytes,
                          latency |-> latency]

(* HTTPRequestFromScope shows the status and the latency together or not   *)
(* at all.                                                                 *)
FromScopeIsWhole ==
    \A g \in Readers :
        rpc[g] = "done" /\ kind[g] = "HTTPRequestFromScope" =>
            (Shown(snap[g].status) <=> Shown(snap[g].latency))

(* No payload is half of a request in flight and half of a finished one.   *)
PayloadIsWhole == SnapshotIsFinal /\ FromScopeIsWhole

(* An answer is whole when the server sent all that its handler gave it:   *)
(* the connection held, the handler neither took it over nor panicked, and *)
(* the request wanted the body.                                            *)
Whole == ~wire.head /\ ~wire.broken /\ ~wire.hijacked /\ ~wire.aborted

(* Once the answer has ended, a client was never sent more than the final  *)
(* scope reports, and exactly that when the answer is whole, whatever      *)
(* writes failed or were refused, buffers waited and flushes came between. *)
SizeIsSent ==
    (~outbound /\ hpc = "answered")
    => /\ wire.bytes <= respBytes
       /\ Whole => respBytes = wire.bytes

(* The status a final scope reports is the answer's, whatever order and    *)
(* number of WriteHeader and Write calls it was made by, unless the        *)
(* connection was hijacked or dropped, or an informational header or a     *)
(* Flush came ahead of the status.                                         *)
PlainStatusIsSent ==
    (/\ ~outbound /\ hpc = "answered"
     /\ ~wire.hijacked /\ ~wire.aborted /\ ~wire.informed /\ ~wire.flushed)
    => status = wire.status

(* What a final scope reports is what the client got.                      *)
ReportIsSent == SizeIsSent /\ PlainStatusIsSent

(* Through the load balancer the address reported is the client's and      *)
(* without proxy mode it is the peer's, whatever X-Forwarded-For the       *)
(* sender made up; only a request that goes around the load balancer can   *)
(* deceive a server that expects it.                                       *)
ClientIPIsReal ==
    (hpc = "scope" /\ ~outbound /\ cfg.clientIP)
    => /\ cfg.proxy = "none" => meta.ip = RemoteAddr(req)
       /\ (cfg.proxy = "gclb" /\ cfg.fromRight = 2 /\ req.path = "proxied")
          => meta.ip = "client"

(* The scheme reported is the one the client used if forwarding headers    *)
(* are trusted just when the load balancer sets them and the target is not *)
(* in absolute form, which tells the server what its sender likes.         *)
SchemeIsReal ==
    (/\ hpc = "scope" /\ ~outbound /\ req.urlScheme = Blank
     /\ (req.path = "proxied") = (cfg.proxy = "gclb" \/ TrustXForwardedProto(cfg)))
    => meta.scheme = req.scheme

(* The logger is made once for all records of the request, so it holds no  *)
(* number that the answer has yet to make true, unless an enricher adds it.*)
NothingPremature ==
    attrs \cap {"http.status_code", "http.response_size", "http.latency"}
        \subseteq Enriched

(* The request's logger says who the client is and how it came, and        *)
(* nothing of an answer that is still to be made.                          *)
LoggerIsRight == ClientIPIsReal /\ SchemeIsReal /\ NothingPremature

(* Every request ends with a final scope, also when its handler panics,    *)
(* the transport fails or the clock steps back.                            *)
EndsFinal == hpc \in {"status", "bytes", "latency", "done"} ~> latency # Unset
=============================================================================
