---------------------------- MODULE TraceContext ----------------------------
(***************************************************************************)
(* Trace context on its way through a chain of services that use slogcp:   *)
(* what slogcphttp.Middleware and the slogcpgrpc server interceptors make  *)
(* of the headers of a request, which trace fields the request's logger    *)
(* and its log entries carry, and what slogcphttp.Transport and the gRPC   *)
(* client interceptors put on the calls the service makes.                 *)
(*                                                                         *)
(* An ID is a tuple, empty if it is not valid, that names the process (the *)
(* hop) it was made in; outside the chain that is 0.  A header is what can *)
(* be read from it: traceparent a span context, grpc-trace-bin its fields  *)
(* and their markers, X-Cloud-Trace-Context the values between its commas, *)
(* each with a trace, a decimal span and option tokens, a number or -1.    *)
(*                                                                         *)
(* OpenTelemetry (otelhttp, otelgrpc, its propagators and its tracers) is  *)
(* external: with an SDK a server span is a child of what was extracted,   *)
(* or a new root on a public endpoint; without one, and for a filtered     *)
(* request, the context stays what it was.                                 *)
(***************************************************************************)
EXTENDS Integers, Sequences, SequencesExt

CONSTANTS
    MaxHops,            \* bound: services in the chain
    MaxTries,           \* bound: attempts of one outgoing call
    OutsideHeaders,     \* headers of requests that enter the chain
    HTTPServerOptions, GRPCServerOptions,   \* the options given to the
    HTTPClientOptions, GRPCClientOptions,   \* middleware and interceptors
    TrustEnv,           \* values of SLOGCP_TRUST_REMOTE_TRACE
    Foreign             \* names of the IDs made outside the chain

None == "none"      \* a setting that is not there, or cannot be read
Bad  == "bad"

(* The IDs that the first n services and the outside have made, and what   *)
(* headers can be made of them.                                            *)
Made             == {"random", "outer", "root", "server", "own", "call", "retry"}
IDs(n)           == {<<>>} \cup ((0..n) \X (Made \cup Foreign))
SpanContexts(n)  == [trace : IDs(n), span : IDs(n), sampled : BOOLEAN,
                     remote : BOOLEAN]
Bins(n)          == [version : Nat, markers : Seq(Nat), trace : IDs(n),
                     span : IDs(n), flags : Nat]
LegacyOptions    == [key : {"o", "O", "foo"}, val : Int]
LegacyValues(n)  == [trace : IDs(n), dec : IDs(n), opts : Seq(LegacyOptions)]
Headers(n)       == [tp : SpanContexts(n), bin : Bins(n),
                     xctc : Seq(LegacyValues(n))]

ASSUME TraceAssumption ==
    /\ OutsideHeaders \subseteq Headers(0)
    /\ \A o \in HTTPServerOptions \cup GRPCServerOptions :
          "otel" \in DOMAIN o => o.otel \in {"off", "noop", "sdk"}

VARIABLES
    hop,        \* the process the request is in
    global,     \* its global propagator, and what has been done about it
    kind,       \* how the request came in: "http" or "grpc"
    hdr,        \* the headers it came with
    up,         \* the caller's span context, and whether hdr is one it made
                \* for this call alone
    cfg,        \* configuration of the middleware or interceptor
    env,        \* the rest of the surroundings of the request
    ctx,        \* the span context of the request's context
    started,    \* <<trace, span>> of the spans this process started
    attrs,      \* trace attributes of the request's logger
    log,        \* the trace fields of the entry just written
    out,        \* headers or metadata the application gives to its call
    wire,       \* headers the call is sent with
    tries,      \* attempts of the call
    pc          \* boot, served, calling or sent

vars == <<hop, global, kind, hdr, up, cfg, env, ctx, started, attrs, log, out,
          wire, tries, pc>>

serverVars == <<kind, hdr, up, cfg, env, attrs, log>>
clientVars == <<out, wire, tries>>

SC(trace, span, sampled, remote) ==
    [trace |-> trace, span |-> span, sampled |-> sampled, remote |-> remote]
NoSC          == SC(<<>>, <<>>, FALSE, FALSE)
IsValid(sc)   == sc.trace # <<>> /\ sc.span # <<>>
Remote(sc)    == [sc EXCEPT !.remote = TRUE]
Own(name)     == <<hop, name>>
NoBin         == [version |-> 0, markers |-> <<>>, trace |-> <<>>, span |-> <<>>,
                  flags |-> 0]
NoHeaders     == [tp |-> NoSC, bin |-> NoBin, xctc |-> <<>>]
NoFields      == [k \in {} |-> <<>>]
NoEnv         == [outer |-> FALSE, injected |-> FALSE, filtered |-> FALSE]

-----------------------------------------------------------------------------
(* Options.  A set of options is a function on the settings it gives.      *)

(* What f says, and for the rest what g says.                              *)
Over(f, g) == [k \in DOMAIN f \cup DOMAIN g |-> IF k \in DOMAIN f THEN f[k] ELSE g[k]]

HTTPDefaults ==
    [propagators |-> None, propagate |-> TRUE, otel |-> "sdk", public |-> FALSE,
     trust |-> FALSE, legacy |-> FALSE]

(* defaultConfig, the options in order, and then the environment, which    *)
(* decides about remote traces only where no option did.                   *)
ApplyHTTPOptions(opts, trustEnv) ==
    LET c == Over(opts, HTTPDefaults)
    IN  IF "trust" \in DOMAIN opts \/ trustEnv \notin {"true", "false"}
        THEN c ELSE [c EXCEPT !.trust = trustEnv = "true"]

GRPCDefaults == [s \in DOMAIN HTTPDefaults \ {"trust"} |-> HTTPDefaults[s]]

ApplyGRPCOptions(opts) == Over(opts, GRPCDefaults)

-----------------------------------------------------------------------------
(* The X-Cloud-Trace-Context header.                                       *)

(* BuildXCloudTraceContext: the span in decimal, the decision as ;o=.      *)
BuildXCloudTraceContext(sc) ==
    <<[trace |-> sc.trace, dec |-> sc.span,
       opts |-> <<[key |-> "o", val |-> IF sc.sampled THEN 1 ELSE 0]>>]>>

(* sampledFlagFromOptions: the first o token, in either case, with a       *)
(* number decides.                                                         *)
HTTPSampled(opts) ==
    LET i == SelectInSeq(opts, LAMBDA t : t.key \in {"o", "O"} /\ t.val >= 0)
    IN  i # 0 /\ opts[i].val # 0

(* slogcpgrpc's traceFlagsFromOptions: o=1 occurs somewhere in the text.   *)
GRPCSampled(opts) ==
    \E i \in DOMAIN opts :
        opts[i].key \in {"o", "foo"} /\ opts[i].val \in {1, 10}

(* parseSingleXCloudTraceValue; a span that is absent, unreadable or zero  *)
(* becomes a random one.                                                   *)
ParseSingle(x, sampled) ==
    IF x.trace = <<>> THEN NoSC
    ELSE SC(x.trace, IF x.dec = <<>> THEN Own("random") ELSE x.dec,
            sampled, TRUE)

(* parseXCloudTrace of slogcphttp: the first value of the list that        *)
(* parses.                                                                 *)
ParseHTTPXCloudTrace(h) ==
    LET i == SelectInSeq(h.xctc, LAMBDA x : x.trace # <<>>)
    IN  IF i = 0 THEN NoSC
        ELSE ParseSingle(h.xctc[i], HTTPSampled(h.xctc[i].opts))

(* parseXCloudTrace of slogcpgrpc does not know of lists: it cuts the text *)
(* at the first semicolon and slash, so the span or the trace may hold a   *)
(* comma, and looks for options in all that follows.                       *)
ParseGRPCXCloudTrace(h) ==
    IF h.xctc = <<>> THEN NoSC
    ELSE LET x   == Head(h.xctc)
             cut == Len(h.xctc) = 1 \/ x.opts # <<>>
         IN  IF ~cut /\ x.dec = <<>> THEN NoSC
             ELSE ParseSingle([x EXCEPT !.dec = IF cut THEN @ ELSE <<>>],
                              \E i \in DOMAIN h.xctc : GRPCSampled(h.xctc[i].opts))

(* parseGRPCTraceBin: version 0 and the fields 0, 1 and 2 in that order;   *)
(* the lowest bit of the flags is the sampling decision.                   *)
ParseGRPCTraceBin(b) ==
    IF b.version = 0 /\ IsPrefix(<<0, 1, 2>>, b.markers)
    THEN SC(b.trace, b.span, b.flags % 2 = 1, TRUE) ELSE NoSC

-----------------------------------------------------------------------------
(* Propagators: the global one unless one was configured.                  *)

Propagator(c) == IF c.propagators = None THEN global.installed
                                         ELSE c.propagators

(* The composite reads X-Cloud-Trace-Context, if it is one well-formed     *)
(* value with a span, and then traceparent over it.                        *)
Extract(p, h, sc) ==
    CASE p # "noop" /\ IsValid(h.tp) -> Remote(h.tp)
      [] /\ p = "composite" /\ ~IsValid(h.tp) /\ Len(h.xctc) = 1
         /\ h.xctc[1].trace # <<>> /\ h.xctc[1].dec # <<>>
         /\ h.xctc[1].opts \in {<<>>} \cup {<<[key |-> "o", val |-> n]>> : n \in 0..1}
            -> ParseSingle(h.xctc[1], HTTPSampled(h.xctc[1].opts))
      [] OTHER -> sc

Inject(p, h, sc) == IF p = "noop" \/ ~IsValid(sc) THEN h
                    ELSE [h EXCEPT !.tp = Remote(sc)]

-----------------------------------------------------------------------------
(* slogcphttp: the middleware's span context, and otelhttp inside it.      *)

(* Mutant of ShouldExtractRemoteSpanContext: a public endpoint extracts.   *)
ShouldExtractAlways(c) == TRUE

ShouldExtractRemoteSpanContext(c) == ~c.public \/ c.otel # "off" \/ c.trust

FirstValid(a, b) == IF IsValid(a) THEN a ELSE b

(* InjectTraceContextMiddleware.                                           *)
InjectTraceContext(sc, h) == FirstValid(sc, ParseHTTPXCloudTrace(h))

(* ensureSpanContext.                                                      *)
EnsureSpanContext(c, sc, h) ==
    IF ~c.propagate \/ IsValid(sc) \/ ~ShouldExtractRemoteSpanContext(c) THEN sc
    ELSE FirstValid(Extract(Propagator(c), h, NoSC), ParseHTTPXCloudTrace(h))

(* wrapWithOTel and otelOptions; statsHandlerOptions for otelgrpc.         *)
OTelServer(c, sc, h, e, sampled) ==
    LET parent == Extract(IF c.propagate THEN Propagator(c) ELSE "noop", h, sc)
    IN  CASE c.otel = "off" \/ e.filtered -> sc
          [] c.otel = "noop" /\ ~e.filtered -> parent
          [] c.otel = "sdk" /\ ~e.filtered /\ ~c.public /\ IsValid(parent) ->
                SC(parent.trace, Own("server"), parent.sampled, FALSE)
          [] OTHER -> SC(Own("root"), Own("server"), sampled, FALSE)

(* Mutant of EnsureServerSpanContext: no fallback to the legacy header.    *)
EnsureServerSpanContextW3C(c, sc, h) ==
    IF ~c.propagate \/ IsValid(sc) THEN sc
    ELSE FirstValid(Extract(Propagator(c), h, NoSC),
         FirstValid(ParseGRPCTraceBin(h.bin), Remote(h.tp)))

(* slogcpgrpc: the interceptor finds what otelgrpc left, or reads the      *)
(* metadata itself, and there is no public endpoint for it.                *)
EnsureServerSpanContext(c, sc, h) ==
    IF ~c.propagate \/ IsValid(sc) THEN sc
    ELSE FirstValid(Extract(Propagator(c), h, NoSC),
         FirstValid(ParseGRPCTraceBin(h.bin),
         FirstValid(Remote(h.tp), ParseGRPCXCloudTrace(h))))

OuterSpan == SC(Own("outer"), Own("outer"), TRUE, FALSE)

(* Middleware: inside InjectTraceContextMiddleware and a span of the       *)
(* application's, and around otelhttp.                                     *)
HTTPServerContext(c, h, e, sampled) ==
    LET before == IF e.outer THEN OuterSpan ELSE NoSC
        first  == IF e.injected THEN InjectTraceContext(before, h) ELSE before
    IN  OTelServer(c, EnsureSpanContext(c, first, h), h, e, sampled)

(* ServerOptions: otelgrpc's stats handler, then the interceptor.          *)
GRPCServerContext(c, h, e, sampled) ==
    EnsureServerSpanContext(c, OTelServer(c, NoSC, h, e, sampled), h)

ServerContext(k, c, h, e, sampled) ==
    IF k = "http" THEN HTTPServerContext(c, h, e, sampled)
                  ELSE GRPCServerContext(c, h, e, sampled)

-----------------------------------------------------------------------------
(* Trace fields.                                                           *)

(* resolveTraceProject: explicit, from the context, from the environment.  *)
ResolveTraceProject(explicit, override, fromEnv) ==
    IF explicit \notin {None, Bad} THEN explicit
    ELSE IF override # None THEN override ELSE fromEnv

(* Mutant of TraceAttributes: the span of another process is named too.    *)
TraceAttributesAnySpan(sc, project) ==
    IF ~IsValid(sc) THEN NoFields
    ELSE IF project # None THEN [trace |-> sc.trace, span |-> sc.span]
    ELSE [otelTrace |-> sc.trace, otelSpan |-> sc.span]

(* TraceAttributes and buildTraceAttrSet: the span only if it is local.    *)
TraceAttributes(sc, project) ==
    IF ~IsValid(sc) THEN NoFields
    ELSE IF project # None
         THEN IF sc.remote THEN [trace |-> sc.trace]
              ELSE [trace |-> sc.trace, span |-> sc.span]
         ELSE IF sc.remote THEN [otelTrace |-> sc.trace]
              ELSE [otelTrace |-> sc.trace, otelSpan |-> sc.span]

(* jsonHandler.applyTrace: fields of the context over the logger's; with   *)
(* no project the span's owner is not asked for.                           *)
ApplyTrace(sc, project, fields) ==
    IF IsValid(sc) /\ project = None
    THEN Over([otelTrace |-> sc.trace, otelSpan |-> sc.span], fields)
    ELSE Over(TraceAttributes(sc, project), fields)

-----------------------------------------------------------------------------
Booting == [installed |-> "noop", once |-> FALSE, app |-> FALSE]

Init ==
    /\ hop = 1
    /\ global = Booting
    /\ kind \in {"http", "grpc"}
    /\ hdr \in OutsideHeaders
    /\ up = [sc |-> NoSC, fresh |-> FALSE]
    /\ cfg = GRPCDefaults /\ env = NoEnv
    /\ ctx = NoSC /\ started = {}
    /\ attrs = NoFields /\ log = NoFields
    /\ out = NoHeaders /\ wire = NoHeaders /\ tries = 0
    /\ pc = "boot"

EnsurePropagation ==
    /\ pc = "boot"
    /\ global' = IF global.once THEN global
                 ELSE [global EXCEPT !.installed = "composite", !.once = TRUE]
    /\ UNCHANGED <<hop, serverVars, ctx, started, clientVars, pc>>

(* otel.SetTextMapPropagator, called by the application after slogcp.      *)
SetTextMapPropagator ==
    /\ pc = "boot" /\ global.once
    /\ global' = [global EXCEPT !.installed = "w3c", !.app = TRUE]
    /\ UNCHANGED <<hop, serverVars, ctx, started, clientVars, pc>>

(* The request reaches the application's handler.                          *)
Serve ==
    /\ pc = "boot"
    /\ cfg' \in IF kind = "http"
                THEN {ApplyHTTPOptions(o, t) : o \in HTTPServerOptions, t \in TrustEnv}
                ELSE {ApplyGRPCOptions(o) : o \in GRPCServerOptions}
    /\ env' \in [outer : {FALSE, kind = "http"}, injected : {FALSE, kind = "http"},
                 filtered : {FALSE, cfg'.otel = "sdk"}]
    /\ \E sampled \in BOOLEAN : ctx' = ServerContext(kind, cfg', hdr, env', sampled)
    /\ started' = (IF env'.outer THEN {<<OuterSpan.trace, OuterSpan.span>>} ELSE {})
                  \cup (IF IsValid(ctx') /\ ~ctx'.remote THEN {<<ctx'.trace, ctx'.span>>}
                        ELSE {})
    /\ \E explicit \in {None, Bad, "P"}, override \in {None, "P"} :
        attrs' = TraceAttributes(ctx', ResolveTraceProject(explicit, override, None))
    /\ pc' = "served"
    /\ UNCHANGED <<hop, global, kind, hdr, up, log, clientVars>>

(* The handler starts a span of its own, in its trace or in a new one.     *)
StartSpan ==
    /\ pc = "served"
    /\ \A s \in started : s[2] # Own("own")
    /\ \E root \in BOOLEAN :
        LET t == IF root \/ ~IsValid(ctx) THEN Own("own") ELSE ctx.trace
        IN  /\ ctx' = SC(t, Own("own"), ~IsValid(ctx) \/ ctx.sampled, FALSE)
            /\ started' = started \cup {<<t, Own("own")>>}
    /\ log' = NoFields
    /\ UNCHANGED <<hop, global, kind, hdr, up, cfg, env, attrs, clientVars, pc>>

(* It logs, through the request's logger or its own, with its context or   *)
(* without, to a handler that knows its project or not.                    *)
Log ==
    /\ pc = "served" /\ log = NoFields
    /\ \E fields \in {attrs, NoFields}, sc \in {ctx, NoSC}, project \in {None, "Q"} :
        log' = ApplyTrace(sc, project, fields)
    /\ UNCHANGED <<hop, global, kind, hdr, up, cfg, env, ctx, started, attrs,
                   clientVars, pc>>

-----------------------------------------------------------------------------
(* The handler makes a call; its headers are new, or it forwards the       *)
(* legacy header that it got.                                              *)
PrepareCall ==
    /\ pc = "served" /\ log = NoFields /\ hop < MaxHops
    /\ kind' \in {"http", "grpc"}
    /\ cfg' \in IF kind' = "http"
                THEN {ApplyHTTPOptions(o, None) : o \in HTTPClientOptions}
                ELSE {ApplyGRPCOptions(o) : o \in GRPCClientOptions}
    /\ env' \in [outer : {FALSE}, injected : {FALSE},
                 filtered : {FALSE, kind' = "grpc" /\ cfg'.otel = "sdk"}]
    /\ out' \in {NoHeaders, [NoHeaders EXCEPT !.xctc = hdr.xctc]}
    /\ up' = [sc |-> ctx, fresh |-> out' = NoHeaders]
    /\ hdr' = NoHeaders /\ attrs' = NoFields /\ started' = {}
    /\ pc' = "calling"
    /\ UNCHANGED <<hop, global, ctx, log, wire, tries>>

(* The legacy header, if it is asked for, there is a span, and it is not   *)
(* there yet.                                                              *)
InjectLegacy(c, h, sc) ==
    IF ~c.legacy \/ ~IsValid(sc) \/ h.xctc # <<>> THEN h
    ELSE [h EXCEPT !.xctc = BuildXCloudTraceContext(sc)]

(* Mutant of InjectTrace: what traceparent already says is kept.           *)
InjectTraceOnce(c, h, sc) ==
    IF ~c.propagate THEN h
    ELSE InjectLegacy(c, IF IsValid(h.tp) THEN h ELSE Inject(Propagator(c), h, sc), sc)

(* injectTrace of the transport.                                           *)
InjectTrace(c, h, sc) ==
    IF ~c.propagate THEN h
    ELSE InjectLegacy(c, Inject(Propagator(c), h, sc), sc)

(* injectClientTrace of the interceptors: the same, on metadata.           *)
InjectClientTrace(c, md, sc) == InjectTrace(c, md, sc)

(* otelgrpc on the client: a span of its own, injected over the other.     *)
OTelClient(c, h, sc, e) ==
    LET s == IF c.otel = "noop" THEN sc
             ELSE SC(IF ~IsValid(sc) THEN Own("call") ELSE sc.trace, Own("call"),
                     ~IsValid(sc) \/ sc.sampled, FALSE)
    IN  IF c.otel = "off" \/ e.filtered \/ ~c.propagate THEN h
        ELSE Inject(Propagator(c), h, s)

(* roundTripper.RoundTrip: req.WithContext shares the header map, so what  *)
(* is injected stays in the application's request.                         *)
RoundTrip ==
    /\ pc = "calling" /\ kind = "http"
    /\ out' = InjectTrace(cfg, out, ctx)
    /\ wire' = out'
    /\ tries' = tries + 1
    /\ pc' = "sent"
    /\ UNCHANGED <<hop, global, serverVars, ctx, started>>

(* The client interceptors inject into a copy of the outgoing metadata.    *)
InvokeRPC ==
    /\ pc = "calling" /\ kind = "grpc"
    /\ wire' = OTelClient(cfg, InjectClientTrace(cfg, out, ctx), ctx, env)
    /\ tries' = tries + 1
    /\ pc' = "sent"
    /\ UNCHANGED <<hop, global, serverVars, ctx, started, out>>

(* The attempt failed and the application makes the call again with the    *)
(* request it has, in the same context or in a span of the attempt.        *)
Retry ==
    /\ pc = "sent" /\ tries < MaxTries
    /\ \/ UNCHANGED ctx
       \/ ctx' = SC(IF ~IsValid(ctx) THEN Own("retry") ELSE ctx.trace, Own("retry"),
                    ~IsValid(ctx) \/ ctx.sampled, FALSE)
    /\ up' = [sc |-> ctx', fresh |-> up.fresh /\ out = NoHeaders]
    /\ pc' = "calling"
    /\ UNCHANGED <<hop, global, kind, hdr, cfg, env, started, attrs, log, out,
                   wire, tries>>

(* The call arrives at the next service.                                   *)
Deliver ==
    /\ pc = "sent"
    /\ hop' = hop + 1
    /\ hdr' = wire
    /\ global' = Booting /\ cfg' = GRPCDefaults /\ env' = NoEnv
    /\ ctx' = NoSC /\ started' = {}
    /\ out' = NoHeaders /\ wire' = NoHeaders /\ tries' = 0
    /\ pc' = "boot"
    /\ UNCHANGED <<kind, up, attrs, log>>

Next ==
    \/ EnsurePropagation \/ SetTextMapPropagator \/ Serve
    \/ StartSpan \/ Log \/ PrepareCall
    \/ RoundTrip \/ InvokeRPC \/ Retry \/ Deliver

Spec == Init /\ [][Next]_vars

-----------------------------------------------------------------------------
Field(f, key) == IF key \in DOMAIN f THEN f[key] ELSE <<>>

HeaderTraces(h) ==
    {x.trace : x \in {h.xctc[i] : i \in DOMAIN h.xctc}}
    \cup {h.tp.trace, h.bin.trace}

(* A span that an entry or the request's logger puts beside a Cloud Trace  *)
(* name was started by this process, in that very trace, whatever mix of   *)
(* logger, context and projects the entry was made from (buildTraceAttrSet,*)
(* applyTrace).                                                            *)
SpanIsOwn ==
    pc = "served" =>
        \A f \in {log, attrs} :
            Field(f, "span") # <<>> => <<Field(f, "trace"), f["span"]>> \in started

(* A public HTTP endpoint that was not told to trust remote traces never   *)
(* correlates with a trace named in a header, unless otelhttp was left to  *)
(* start the root span and did not: the request was filtered, or there is  *)
(* no SDK (shouldExtractRemoteSpanContext).                                *)
UntrustedStaysOut ==
    (/\ pc = "served" /\ kind = "http"
     /\ cfg.public /\ ~cfg.trust /\ ~env.injected /\ IsValid(ctx))
    => \/ ctx.trace \notin HeaderTraces(hdr)
       \/ cfg.otel # "off" /\ (env.filtered \/ cfg.otel = "noop")

(* With WithTracePropagation(false) the headers of a request do not reach  *)
(* the context, and a call is sent with exactly the application's headers, *)
(* however often it is retried.                                            *)
SilentWhenOff ==
    /\ (/\ pc = "served" /\ ~cfg.propagate /\ ~env.injected /\ IsValid(ctx))
       => ctx.trace \notin HeaderTraces(hdr)
    /\ (pc = "sent" /\ ~cfg.propagate) => wire = out /\ ~IsValid(wire.tp)

(* Only a trace that the configuration lets in is taken over, and none is  *)
(* sent that it keeps back.                                                *)
OnlyAllowedTraces == UntrustedStaysOut /\ SilentWhenOff

(* otelgrpc starts its span before the interceptor runs, otelhttp after    *)
(* the middleware: a gRPC server with an SDK reads what its propagator     *)
(* reads and nothing else.                                                 *)
SpanFirst         == kind = "grpc" /\ cfg.otel = "sdk" /\ ~env.filtered
ReadsTraceparent  == Propagator(cfg) # "noop" \/ (kind = "grpc" /\ ~SpanFirst)
ReadsLegacy       == Propagator(cfg) = "composite" \/ ~SpanFirst

(* A trace goes on through the next service, with its sampling decision,   *)
(* when both sides propagate and the endpoint is not public: over          *)
(* traceparent if the service reads it, and otherwise over a legacy header *)
(* made for this call, between HTTP and gRPC in every combination.         *)
TraceContinues ==
    (/\ pc = "served" /\ hop > 1 /\ IsValid(up.sc)
     /\ cfg.propagate /\ ~cfg.public /\ ~env.outer
     /\ \A s \in started : s[2] # Own("own")
     /\ \/ IsValid(hdr.tp) /\ ReadsTraceparent /\ ~env.injected
        \/ hdr.xctc # <<>> /\ ReadsLegacy /\ up.fresh)
    => /\ IsValid(ctx)
       /\ ctx.trace = up.sc.trace
       /\ ctx.sampled = up.sc.sampled

(* On a call whose request is new, the legacy header and traceparent name  *)
(* the same trace with the same decision, and the legacy header names the  *)
(* caller's own span.                                                      *)
LegacyAgrees ==
    (pc = "sent" /\ up.fresh /\ cfg.propagate /\ cfg.legacy /\ IsValid(up.sc))
    => LET x == ParseHTTPXCloudTrace(wire)
       IN  /\ x = Remote(up.sc) /\ x = ParseGRPCXCloudTrace(wire)
           /\ IsValid(wire.tp) => /\ wire.tp.trace = x.trace
                                /\ wire.tp.sampled = x.sampled

(* Each attempt of a call announces the span it is made in, or otelgrpc's, *)
(* though the request still carries the headers of the attempt before.     *)
TraceparentIsCurrent ==
    (pc = "sent" /\ cfg.propagate /\ Propagator(cfg) # "noop" /\ IsValid(ctx))
    => /\ wire.tp.trace = ctx.trace
       /\ wire.tp.span \in {ctx.span} \cup (IF kind = "grpc" THEN {Own("call")} ELSE {})

(* The headers of a call are of one mind, and of that very call.           *)
HeadersAreCurrent == LegacyAgrees /\ TraceparentIsCurrent
=============================================================================
