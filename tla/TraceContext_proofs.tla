------------------------ MODULE TraceContext_proofs ------------------------
(***************************************************************************)
(* Proofs about TraceContext, for a chain of any length, any options and   *)
(* any headers from outside: a span is named beside a Cloud Trace name     *)
(* only by its own process, only allowed traces are taken over or sent on, *)
(* a trace goes on through every service that propagates it, and the       *)
(* headers of a call are of that very call.                                *)
(***************************************************************************)
EXTENDS TraceContext, WellFoundedInduction, TLAPS

USE DEF vars, serverVars, clientVars

Arriving == {"boot", "served"}
Leaving  == {"calling", "sent"}

(* Where IDs may come from: the headers of a request name older ones only. *)
TraceTypes ==
    /\ hop \in Nat \ {0}
    /\ pc \in Arriving \cup Leaving
    /\ kind \in {"http", "grpc"}
    /\ hdr \in Headers(hop - 1)
    /\ up \in [sc : SpanContexts(hop), fresh : BOOLEAN]
    /\ ctx \in SpanContexts(hop)
    /\ out \in Headers(hop) /\ wire \in Headers(hop)

(* A local span context is of a span that this process started, and a      *)
(* logger that names a span lives in such a context.                       *)
Started(sc) == <<sc.trace, sc.span>> \in started
SpanInv ==
    IF pc = "served"
    THEN /\ IsValid(ctx) /\ ~ctx.remote => Started(ctx)
         /\ "span" \in DOMAIN attrs =>
               /\ "trace" \in DOMAIN attrs
               /\ <<attrs["trace"], attrs["span"]>> \in started
               /\ IsValid(ctx) /\ ~ctx.remote
         /\ SpanIsOwn
    ELSE log = NoFields

(* What keeps untrusted traces out, and says nothing when told so.         *)
AllowInv ==
    /\ OnlyAllowedTraces
    /\ pc \in Leaving /\ ~cfg.propagate => ~IsValid(out.tp)

(* sc is of the same trace and decision.                                   *)
Continues(sc, of) == sc.trace = of.trace /\ sc.sampled = of.sampled

(* The headers of a call are made from the context it is made in.          *)
CallInv ==
    pc \in Leaving =>
        /\ up.sc = ctx
        /\ out.bin = NoBin
        /\ IsValid(out.tp) => IsValid(ctx) /\ Continues(out.tp, ctx)
        /\ pc = "calling" /\ up.fresh => out = NoHeaders
        /\ pc = "sent" =>
              /\ wire.bin = NoBin
              /\ IsValid(ctx) /\ IsValid(wire.tp) => Continues(wire.tp, ctx)
              /\ up.fresh => wire.xctc \in {<<>>, BuildXCloudTraceContext(ctx)}
              /\ up.fresh /\ wire.xctc # <<>> => IsValid(ctx)
        /\ HeadersAreCurrent

(* The headers of a request are those its caller made.                     *)
ArriveInv ==
    (pc \in Arriving /\ hop > 1) =>
        /\ hdr.bin = NoBin
        /\ IsValid(up.sc) /\ IsValid(hdr.tp) => Continues(hdr.tp, up.sc)
        /\ up.fresh => hdr.xctc \in {<<>>, BuildXCloudTraceContext(up.sc)}

(* The inductive invariant.                                                *)
IInv == TraceTypes /\ SpanInv /\ AllowInv /\ CallInv /\ ArriveInv /\ TraceContinues

-----------------------------------------------------------------------------
(* IDs.                                                                    *)

(* An ID made in this process is a valid one and not among the older ones. *)
LEMMA OwnIs ==
    ASSUME hop \in Nat \ {0}, NEW name \in Made
    PROVE  /\ Own(name) \in IDs(hop) /\ Own(name) # <<>>
           /\ Own(name) \notin IDs(hop - 1)
<1>1. hop \in 0..hop /\ hop \notin 0..(hop - 1)
    OBVIOUS
<1>2. <<hop, name>> \in (0..hop) \X (Made \cup Foreign)
    BY <1>1
<1>3. <<hop, name>> \notin (0..(hop - 1)) \X (Made \cup Foreign)
    BY <1>1
<1>4. <<hop, name>> # <<>>
    OBVIOUS
<1> QED
    BY <1>2, <1>3, <1>4 DEF IDs, Own

(* What was an ID before stays one.                                        *)
LEMMA IDsGrow ==
    ASSUME NEW n \in Nat
    PROVE  /\ IDs(n) \subseteq IDs(n + 1)
           /\ SpanContexts(n) \subseteq SpanContexts(n + 1)
           /\ Seq(LegacyValues(n)) \subseteq Seq(LegacyValues(n + 1))
           /\ Headers(n) \subseteq Headers(n + 1)
           /\ <<>> \in IDs(n) /\ NoSC \in SpanContexts(n)
           /\ NoBin \in Bins(n) /\ NoHeaders \in Headers(n)
<1>1. 0..n \subseteq 0..(n + 1)
    OBVIOUS
<1>2. IDs(n) \subseteq IDs(n + 1)
    BY <1>1 DEF IDs
<1>3. <<>> \in IDs(n)
    BY DEF IDs
<1>4. SpanContexts(n) \subseteq SpanContexts(n + 1)
    BY <1>2 DEF SpanContexts
<1>5. Bins(n) \subseteq Bins(n + 1)
    BY <1>2 DEF Bins
<1>6. LegacyValues(n) \subseteq LegacyValues(n + 1)
    BY <1>2 DEF LegacyValues
<1>7. Seq(LegacyValues(n)) \subseteq Seq(LegacyValues(n + 1))
    BY <1>6
<1>8. Headers(n) \subseteq Headers(n + 1)
    BY <1>4, <1>5, <1>7 DEF Headers
<1>9. NoSC \in SpanContexts(n)
    BY <1>3 DEF NoSC, SC, SpanContexts
<1>10. NoBin \in Bins(n)
    BY <1>3 DEF NoBin, Bins
<1>11. NoHeaders \in Headers(n)
    BY <1>9, <1>10 DEF NoHeaders, Headers
<1> QED
    BY <1>2, <1>3, <1>4, <1>7, <1>8, <1>9, <1>10, <1>11

(* The same, seen from this process.                                       *)
LEMMA OlderIs ==
    ASSUME hop \in Nat \ {0}
    PROVE  /\ IDs(hop - 1) \subseteq IDs(hop)
           /\ SpanContexts(hop - 1) \subseteq SpanContexts(hop)
           /\ Seq(LegacyValues(hop - 1)) \subseteq Seq(LegacyValues(hop))
           /\ Headers(hop - 1) \subseteq Headers(hop)
           /\ <<>> \in IDs(hop) /\ NoSC \in SpanContexts(hop)
           /\ NoSC \in SpanContexts(hop - 1) /\ NoHeaders \in Headers(hop)
           /\ NoHeaders \in Headers(hop - 1)
<1>1. hop - 1 \in Nat /\ hop \in Nat /\ (hop - 1) + 1 = hop
    OBVIOUS
<1> QED
    BY <1>1, IDsGrow

(* A span context, field by field.                                         *)
LEMMA SCIs ==
    ASSUME NEW n, NEW trace \in IDs(n), NEW span \in IDs(n),
           NEW sampled \in BOOLEAN, NEW remote \in BOOLEAN
    PROVE  LET sc == SC(trace, span, sampled, remote)
           IN  /\ sc \in SpanContexts(n)
               /\ sc.trace = trace /\ sc.span = span
               /\ sc.sampled = sampled /\ sc.remote = remote
    BY DEF SC, SpanContexts

(* There is no span context that says less.                                *)
LEMMA NoSCIs == ~IsValid(NoSC) /\ NoSC.trace = <<>>
    BY DEF NoSC, SC, IsValid

(* What is remote is of the same trace and span.                           *)
LEMMA RemoteIs ==
    ASSUME NEW n, NEW sc \in SpanContexts(n)
    PROVE  /\ Remote(sc) \in SpanContexts(n)
           /\ Remote(sc).trace = sc.trace /\ Remote(sc).span = sc.span
           /\ Remote(sc).sampled = sc.sampled /\ Remote(sc).remote
           /\ IsValid(Remote(sc)) = IsValid(sc)
    BY DEF Remote, SpanContexts, IsValid

-----------------------------------------------------------------------------
(* Parsers.                                                                *)

(* A set of indices has a smallest one.                                    *)
LEMMA MinIs ==
    ASSUME NEW I, I \subseteq Nat, I # {}
    PROVE  Min(I) \in I
<1>1. PICK x \in I : \A y \in I : ~(<<y, x>> \in OpToRel(<, Nat))
    BY NatLessThanWellFounded, WFMin
<1>2. ASSUME NEW y \in I PROVE x <= y
    <2>1. x \in Nat /\ y \in Nat
        OBVIOUS
    <2>2. y < x => <<y, x>> \in OpToRel(<, Nat)
        BY <2>1 DEF OpToRel
    <2>3. ~(y < x)
        BY <1>1, <2>2, Zenon
    <2> QED
        BY <2>1, <2>3
<1> QED
    BY <1>2 DEF Min

(* A header that parses gives a span context of this process or an older   *)
(* one, which is remote.                                                   *)
IsRead(sc) == sc \in SpanContexts(hop) /\ (IsValid(sc) => sc.remote)

(* One value of the legacy header.                                         *)
LEMMA ParseSingleIs ==
    ASSUME hop \in Nat \ {0}, NEW x \in LegacyValues(hop - 1), NEW sampled \in BOOLEAN
    PROVE  IsRead(ParseSingle(x, sampled))
<1>1. x.trace \in IDs(hop) /\ x.dec \in IDs(hop)
    BY OlderIs DEF LegacyValues
<1>2. Own("random") \in IDs(hop)
    BY OwnIs DEF Made
<1>3. CASE x.trace = <<>>
    BY <1>3, OlderIs, NoSCIs DEF ParseSingle, IsRead
<1>4. CASE x.trace # <<>>
    <2> DEFINE span == IF x.dec = <<>> THEN Own("random") ELSE x.dec
    <2>1. span \in IDs(hop)
        BY <1>1, <1>2
    <2>2. ParseSingle(x, sampled) = SC(x.trace, span, sampled, TRUE)
        BY <1>4 DEF ParseSingle
    <2> HIDE DEF span
    <2>3. /\ SC(x.trace, span, sampled, TRUE) \in SpanContexts(hop)
          /\ SC(x.trace, span, sampled, TRUE).remote
        BY <1>1, <2>1, SCIs
    <2> QED
        BY <2>2, <2>3 DEF IsRead
<1> QED
    BY <1>3, <1>4

(* The first value that parses.                                            *)
LEMMA ParseHTTPIs ==
    ASSUME hop \in Nat \ {0}, NEW h \in Headers(hop - 1)
    PROVE  IsRead(ParseHTTPXCloudTrace(h))
<1> DEFINE I == {j \in 1..Len(h.xctc) : h.xctc[j].trace # <<>>}
           i == IF I # {} THEN Min(I) ELSE 0
<1>1. h.xctc \in Seq(LegacyValues(hop - 1))
    BY DEF Headers
<1>2. ParseHTTPXCloudTrace(h) = IF i = 0 THEN NoSC
                                ELSE ParseSingle(h.xctc[i], HTTPSampled(h.xctc[i].opts))
    BY DEF ParseHTTPXCloudTrace, SelectInSeq
<1>3. CASE i = 0
    BY <1>2, <1>3, OlderIs, NoSCIs DEF IsRead
<1>4. CASE i # 0
    <2>1. I # {} /\ I \subseteq Nat
        BY <1>1, <1>4
    <2>2. i \in I
        BY <2>1, MinIs
    <2>3. h.xctc[i] \in LegacyValues(hop - 1)
        <3>1. i \in 1..Len(h.xctc)
            BY <2>2
        <3> HIDE DEF i
        <3> QED
            BY <1>1, <3>1
    <2>4. HTTPSampled(h.xctc[i].opts) \in BOOLEAN
        BY DEF HTTPSampled
    <2> HIDE DEF i
    <2> QED
        BY <1>2, <1>4, <2>3, <2>4, ParseSingleIs
<1> QED
    BY <1>3, <1>4

(* The first value, whatever it was cut from.                              *)
LEMMA ParseGRPCIs ==
    ASSUME hop \in Nat \ {0}, NEW h \in Headers(hop - 1)
    PROVE  IsRead(ParseGRPCXCloudTrace(h))
<1>1. h.xctc \in Seq(LegacyValues(hop - 1))
    BY DEF Headers
<1>2. CASE h.xctc = <<>>
    BY <1>2, OlderIs, NoSCIs DEF ParseGRPCXCloudTrace, IsRead
<1>3. CASE h.xctc # <<>>
    <2> DEFINE x   == Head(h.xctc)
               cut == Len(h.xctc) = 1 \/ x.opts # <<>>
               y   == [x EXCEPT !.dec = IF cut THEN @ ELSE <<>>]
               s   == \E i \in DOMAIN h.xctc : GRPCSampled(h.xctc[i].opts)
    <2>1. x \in LegacyValues(hop - 1)
        BY <1>1, <1>3
    <2>2. <<>> \in IDs(hop - 1)
        BY DEF IDs
    <2>3. y \in LegacyValues(hop - 1)
        BY <2>1, <2>2 DEF LegacyValues
    <2>4. s \in BOOLEAN
        OBVIOUS
    <2>5. ParseGRPCXCloudTrace(h) \in {NoSC, ParseSingle(y, s)}
        BY <1>3 DEF ParseGRPCXCloudTrace
    <2> HIDE DEF y, s
    <2> QED
        BY <2>3, <2>4, <2>5, ParseSingleIs, OlderIs, NoSCIs DEF IsRead
<1> QED
    BY <1>2, <1>3

(* grpc-trace-bin.                                                         *)
LEMMA ParseBinIs ==
    ASSUME hop \in Nat \ {0}, NEW b \in Bins(hop - 1)
    PROVE  IsRead(ParseGRPCTraceBin(b))
<1>1. b.trace \in IDs(hop) /\ b.span \in IDs(hop) /\ (b.flags % 2 = 1) \in BOOLEAN
    BY OlderIs DEF Bins
<1>2. ParseGRPCTraceBin(b) \in {NoSC, SC(b.trace, b.span, b.flags % 2 = 1, TRUE)}
    BY DEF ParseGRPCTraceBin
<1> DEFINE sc == SC(b.trace, b.span, b.flags % 2 = 1, TRUE)
<1>3. sc \in SpanContexts(hop) /\ sc.remote
    BY <1>1, SCIs
<1> HIDE DEF sc
<1>4. IsRead(sc)
    BY <1>3 DEF IsRead
<1>5. IsRead(NoSC)
    BY OlderIs, NoSCIs DEF IsRead
<1> QED
    BY <1>2, <1>4, <1>5 DEF sc

(* traceparent.                                                            *)
LEMMA TraceparentIs ==
    ASSUME hop \in Nat \ {0}, NEW h \in Headers(hop - 1)
    PROVE  /\ h.tp \in SpanContexts(hop - 1) /\ IsRead(Remote(h.tp))
<1>1. h.tp \in SpanContexts(hop - 1)
    BY DEF Headers
<1> QED
    BY <1>1, RemoteIs, OlderIs DEF IsRead

-----------------------------------------------------------------------------
(* The server.                                                             *)

(* What the composite propagator reads of one well-formed legacy value.    *)
Well(p, h) ==
    /\ p = "composite" /\ ~IsValid(h.tp) /\ Len(h.xctc) = 1
    /\ h.xctc[1].trace # <<>> /\ h.xctc[1].dec # <<>>
    /\ h.xctc[1].opts \in {<<>>} \cup {<<[key |-> "o", val |-> n]>> : n \in 0..1}

(* Extract, case by case.                                                  *)
LEMMA ExtractCases ==
    ASSUME NEW p, NEW h, NEW sc
    PROVE  /\ p # "noop" /\ IsValid(h.tp) => Extract(p, h, sc) = Remote(h.tp)
           /\ Well(p, h) => Extract(p, h, sc)
                            = ParseSingle(h.xctc[1], HTTPSampled(h.xctc[1].opts))
           /\ ~(p # "noop" /\ IsValid(h.tp)) /\ ~Well(p, h) => Extract(p, h, sc) = sc
<1>1. Extract(p, h, sc) =
        CASE p # "noop" /\ IsValid(h.tp) -> Remote(h.tp)
          [] Well(p, h) -> ParseSingle(h.xctc[1], HTTPSampled(h.xctc[1].opts))
          [] OTHER -> sc
    BY DEF Extract, Well
<1>2. ~(p # "noop" /\ IsValid(h.tp) /\ Well(p, h))
    BY DEF Well
<1> QED
    BY <1>1, <1>2

(* A propagator reads a header or leaves the context alone.                *)
LEMMA ExtractIs ==
    ASSUME hop \in Nat \ {0}, NEW p, NEW h \in Headers(hop - 1), NEW sc
    PROVE  \/ IsRead(Extract(p, h, sc))
           \/ Extract(p, h, sc) = sc
<1>1. CASE Well(p, h)
    <2>1. Len(h.xctc) = 1 /\ h.xctc \in Seq(LegacyValues(hop - 1))
        BY <1>1 DEF Well, Headers
    <2>2. h.xctc[1] \in LegacyValues(hop - 1)
        BY <2>1
    <2>3. HTTPSampled(h.xctc[1].opts) \in BOOLEAN
        BY DEF HTTPSampled
    <2> QED
        BY <1>1, <2>2, <2>3, ExtractCases, ParseSingleIs
<1>2. CASE ~Well(p, h)
    BY <1>2, ExtractCases, TraceparentIs
<1> QED
    BY <1>1, <1>2

(* A noop propagator reads nothing.                                        *)
LEMMA ExtractNoop ==
    ASSUME NEW h, NEW sc
    PROVE  Extract("noop", h, sc) = sc
    BY ExtractCases DEF Well

(* The span context that otelhttp or otelgrpc finds.                       *)
Parent(c, sc, h) == Extract(IF c.propagate THEN Propagator(c) ELSE "noop", h, sc)

(* OpenTelemetry's server span is of the trace it found, or of its own.    *)
LEMMA OTelServerIs ==
    ASSUME hop \in Nat \ {0}, NEW c, NEW sc \in SpanContexts(hop),
           NEW h \in Headers(hop - 1), NEW e, NEW sampled \in BOOLEAN
    PROVE  OTelServer(c, sc, h, e, sampled) \in SpanContexts(hop)
<1> DEFINE parent == Parent(c, sc, h)
<1>1. parent \in SpanContexts(hop)
    BY ExtractIs DEF Parent, IsRead
<1>2. parent.trace \in IDs(hop) /\ parent.sampled \in BOOLEAN
    BY <1>1 DEF SpanContexts
<1>3. Own("root") \in IDs(hop) /\ Own("server") \in IDs(hop)
    BY OwnIs DEF Made
<1> HIDE DEF parent
<1>4. /\ SC(parent.trace, Own("server"), parent.sampled, FALSE) \in SpanContexts(hop)
      /\ SC(Own("root"), Own("server"), sampled, FALSE) \in SpanContexts(hop)
    BY <1>2, <1>3, SCIs
<1>5. CASE c.otel = "off" \/ e.filtered
    BY <1>5 DEF OTelServer
<1>6. CASE c.otel = "noop" /\ ~e.filtered
    BY <1>1, <1>6 DEF OTelServer, parent, Parent
<1>7. CASE c.otel = "sdk" /\ ~e.filtered /\ ~c.public /\ IsValid(parent)
    BY <1>4, <1>7 DEF OTelServer, parent, Parent
<1>8. CASE /\ c.otel \notin {"off", "noop"} /\ ~e.filtered
           /\ ~(c.otel = "sdk" /\ ~c.public /\ IsValid(parent))
    BY <1>4, <1>8 DEF OTelServer, parent, Parent
<1> QED
    BY <1>5, <1>6, <1>7, <1>8

(* The span that the application started around the middleware.            *)
LEMMA OuterSpanIs ==
    ASSUME hop \in Nat \ {0}
    PROVE  /\ OuterSpan \in SpanContexts(hop) /\ OuterSpan.trace = Own("outer")
           /\ OuterSpan.span = Own("outer") /\ ~OuterSpan.remote
<1>1. Own("outer") \in IDs(hop)
    BY OwnIs DEF Made
<1> DEFINE sc == SC(Own("outer"), Own("outer"), TRUE, FALSE)
<1>2. /\ sc \in SpanContexts(hop) /\ sc.trace = Own("outer")
      /\ sc.span = Own("outer") /\ ~sc.remote
    BY <1>1 DEF SC, SpanContexts
<1> QED
    BY <1>2 DEF OuterSpan

(* The context that Middleware starts from.                                *)
Before(e)   == IF e.outer THEN OuterSpan ELSE NoSC
First(e, h) == IF e.injected THEN InjectTraceContext(Before(e), h) ELSE Before(e)

(* The middleware's context, in two steps.                                 *)
LEMMA HTTPServerContextIs ==
    ASSUME NEW c, NEW h, NEW e, NEW sampled
    PROVE  HTTPServerContext(c, h, e, sampled)
           = OTelServer(c, EnsureSpanContext(c, First(e, h), h), h, e, sampled)
    BY DEF HTTPServerContext, First, Before

(* The context it starts from is of this process or was read.              *)
LEMMA FirstIs ==
    ASSUME hop \in Nat \ {0}, NEW h \in Headers(hop - 1), NEW e
    PROVE  First(e, h) \in SpanContexts(hop)
<1>1. Before(e) \in SpanContexts(hop)
    BY OuterSpanIs, OlderIs DEF Before
<1> QED
    BY <1>1, ParseHTTPIs DEF First, InjectTraceContext, FirstValid, IsRead

(* So is what ensureSpanContext makes of it.                               *)
LEMMA EnsureSpanContextIs ==
    ASSUME hop \in Nat \ {0}, NEW c, NEW sc \in SpanContexts(hop),
           NEW h \in Headers(hop - 1)
    PROVE  EnsureSpanContext(c, sc, h) \in SpanContexts(hop)
<1>1. Extract(Propagator(c), h, NoSC) \in SpanContexts(hop)
    BY ExtractIs, OlderIs DEF IsRead
<1>2. ParseHTTPXCloudTrace(h) \in SpanContexts(hop)
    BY ParseHTTPIs DEF IsRead
<1> QED
    BY <1>1, <1>2 DEF EnsureSpanContext, FirstValid

(* The same for the interceptors.                                          *)
LEMMA EnsureServerSpanContextIs ==
    ASSUME hop \in Nat \ {0}, NEW c, NEW sc \in SpanContexts(hop),
           NEW h \in Headers(hop - 1)
    PROVE  EnsureServerSpanContext(c, sc, h) \in SpanContexts(hop)
<1>1. Extract(Propagator(c), h, NoSC) \in SpanContexts(hop)
    BY ExtractIs, OlderIs DEF IsRead
<1>2. ParseGRPCXCloudTrace(h) \in SpanContexts(hop)
    BY ParseGRPCIs DEF IsRead
<1>3. ParseGRPCTraceBin(h.bin) \in SpanContexts(hop)
    <2>1. h.bin \in Bins(hop - 1)
        BY DEF Headers
    <2> QED
        BY <2>1, ParseBinIs DEF IsRead
<1>4. Remote(h.tp) \in SpanContexts(hop)
    BY TraceparentIs DEF IsRead
<1> QED
    BY <1>1, <1>2, <1>3, <1>4 DEF EnsureServerSpanContext, FirstValid

(* The context of a request holds IDs of this process or older ones.       *)
LEMMA ServerContextIs ==
    ASSUME hop \in Nat \ {0}, NEW k, NEW c, NEW h \in Headers(hop - 1), NEW e,
           NEW sampled \in BOOLEAN
    PROVE  ServerContext(k, c, h, e, sampled) \in SpanContexts(hop)
<1>1. HTTPServerContext(c, h, e, sampled) \in SpanContexts(hop)
    BY FirstIs, EnsureSpanContextIs, OTelServerIs, HTTPServerContextIs
<1>2. GRPCServerContext(c, h, e, sampled) \in SpanContexts(hop)
    BY OlderIs, EnsureServerSpanContextIs, OTelServerIs DEF GRPCServerContext
<1> QED
    BY <1>1, <1>2 DEF ServerContext

-----------------------------------------------------------------------------
(* What a server takes over, and what not.                                 *)

(* An invalid context, or one of a trace that this process began.          *)
Ours(sc) == IsValid(sc) => sc.trace \in {Own("outer"), Own("root")}

(* No header has been read before InjectTraceContextMiddleware.            *)
LEMMA BeforeIs ==
    ASSUME hop \in Nat \ {0}, NEW e
    PROVE  Ours(Before(e))
    BY OuterSpanIs, NoSCIs DEF Before, Ours

(* Without a trace let in, otelhttp or otelgrpc begin one.                 *)
LEMMA OTelServerOurs ==
    ASSUME NEW c, NEW sc, NEW h, NEW e, NEW sampled, Ours(sc),
           \/ ~c.propagate
           \/ c.public /\ ~(c.otel # "off" /\ (e.filtered \/ c.otel = "noop"))
    PROVE  Ours(OTelServer(c, sc, h, e, sampled))
<1> DEFINE parent == Parent(c, sc, h)
<1>1. ~c.propagate => parent = sc
    BY ExtractNoop DEF Parent
<1>2. /\ SC(parent.trace, Own("server"), parent.sampled, FALSE).trace = parent.trace
      /\ SC(Own("root"), Own("server"), sampled, FALSE).trace = Own("root")
    BY DEF SC
<1> HIDE DEF parent
<1>3. CASE c.otel = "off" \/ e.filtered
    BY <1>3 DEF OTelServer
<1>4. CASE c.otel = "noop" /\ ~e.filtered
    BY <1>1, <1>4 DEF OTelServer, parent, Parent
<1>5. CASE c.otel = "sdk" /\ ~e.filtered /\ ~c.public /\ IsValid(parent)
    <2>1. OTelServer(c, sc, h, e, sampled)
          = SC(parent.trace, Own("server"), parent.sampled, FALSE)
        BY <1>5 DEF OTelServer, parent, Parent
    <2>2. parent = sc
        BY <1>1, <1>5
    <2> QED
        BY <1>2, <1>5, <2>1, <2>2 DEF Ours
<1>6. CASE /\ c.otel \notin {"off", "noop"} /\ ~e.filtered
           /\ ~(c.otel = "sdk" /\ ~c.public /\ IsValid(parent))
    <2>1. OTelServer(c, sc, h, e, sampled)
          = SC(Own("root"), Own("server"), sampled, FALSE)
        BY <1>6 DEF OTelServer, parent, Parent
    <2> QED
        BY <1>2, <2>1 DEF Ours
<1> QED
    BY <1>3, <1>4, <1>5, <1>6

(* With propagation turned off no header is read.                          *)
LEMMA SilentServer ==
    ASSUME hop \in Nat \ {0}, NEW k, NEW c, NEW h, NEW e, NEW sampled,
           ~c.propagate, ~e.injected
    PROVE  Ours(ServerContext(k, c, h, e, sampled))
<1>1. Ours(HTTPServerContext(c, h, e, sampled))
    <2>1. EnsureSpanContext(c, First(e, h), h) = Before(e)
        BY DEF EnsureSpanContext, First
    <2> QED
        BY <2>1, BeforeIs, OTelServerOurs, HTTPServerContextIs
<1>2. Ours(GRPCServerContext(c, h, e, sampled))
    <2>1. Ours(NoSC)
        BY NoSCIs DEF Ours
    <2>2. GRPCServerContext(c, h, e, sampled) = OTelServer(c, NoSC, h, e, sampled)
        BY DEF GRPCServerContext, EnsureServerSpanContext
    <2> QED
        BY <2>1, <2>2, OTelServerOurs
<1> QED
    BY <1>1, <1>2 DEF ServerContext

(* A public HTTP endpoint that trusts nobody reads none either.            *)
LEMMA PublicServer ==
    ASSUME hop \in Nat \ {0}, NEW c, NEW h, NEW e, NEW sampled,
           c.public, ~c.trust, ~e.injected,
           ~(c.otel # "off" /\ (e.filtered \/ c.otel = "noop"))
    PROVE  Ours(ServerContext("http", c, h, e, sampled))
<1> DEFINE sc == EnsureSpanContext(c, First(e, h), h)
<1>1. CASE c.otel = "off"
    <2>1. sc = Before(e)
        BY <1>1 DEF EnsureSpanContext, First, ShouldExtractRemoteSpanContext
    <2> QED
        BY <2>1, BeforeIs, OTelServerOurs, HTTPServerContextIs DEF ServerContext
<1>2. CASE c.otel # "off"
    <2>1. OTelServer(c, sc, h, e, sampled)
          = SC(Own("root"), Own("server"), sampled, FALSE)
        BY <1>2 DEF OTelServer
    <2>2. SC(Own("root"), Own("server"), sampled, FALSE).trace = Own("root")
        BY DEF SC
    <2>3. ServerContext("http", c, h, e, sampled) = OTelServer(c, sc, h, e, sampled)
        BY HTTPServerContextIs DEF ServerContext
    <2> QED
        BY <2>1, <2>2, <2>3 DEF Ours
<1> QED
    BY <1>1, <1>2

(* The traces that headers name are older than those of this process.      *)
LEMMA HeaderTracesAre ==
    ASSUME hop \in Nat \ {0}, NEW h \in Headers(hop - 1), NEW name \in Made
    PROVE  Own(name) \notin HeaderTraces(h)
<1>1. /\ h.tp.trace \in IDs(hop - 1) /\ h.bin.trace \in IDs(hop - 1)
      /\ h.xctc \in Seq(LegacyValues(hop - 1))
    BY DEF Headers, SpanContexts, Bins
<1>2. ASSUME NEW i \in DOMAIN h.xctc PROVE h.xctc[i].trace \in IDs(hop - 1)
    <2>1. h.xctc[i] \in LegacyValues(hop - 1)
        BY <1>1
    <2> QED
        BY <2>1 DEF LegacyValues
<1> QED
    BY <1>1, <1>2, OwnIs DEF HeaderTraces

-----------------------------------------------------------------------------
(* What goes on.                                                           *)

Good(sc, of) == IsValid(sc) /\ Continues(sc, of)

(* The legacy value that is built is one option token, and one value.      *)
LEMMA BuildIs ==
    ASSUME NEW n, NEW sc \in SpanContexts(n)
    PROVE  LET b == BuildXCloudTraceContext(sc)
           IN  /\ b \in Seq(LegacyValues(n)) /\ Len(b) = 1 /\ b # <<>>
               /\ Head(b) = b[1] /\ b[1].trace = sc.trace /\ b[1].dec = sc.span
               /\ b[1].opts = <<[key |-> "o", val |-> IF sc.sampled THEN 1 ELSE 0]>>
<1> DEFINE o == [key |-> "o", val |-> IF sc.sampled THEN 1 ELSE 0]
           x == [trace |-> sc.trace, dec |-> sc.span, opts |-> <<o>>]
<1>1. o \in LegacyOptions
    BY DEF LegacyOptions
<1> HIDE DEF o
<1>2. <<o>> \in Seq(LegacyOptions)
    BY <1>1
<1>3. x \in LegacyValues(n)
    BY <1>2 DEF LegacyValues, SpanContexts
<1>4. x.trace = sc.trace /\ x.dec = sc.span /\ x.opts = <<o>>
    OBVIOUS
<1>5. BuildXCloudTraceContext(sc) = <<x>>
    BY DEF BuildXCloudTraceContext, o
<1> HIDE DEF x
<1>6. /\ <<x>> \in Seq(LegacyValues(n)) /\ Len(<<x>>) = 1 /\ <<x>> # <<>>
      /\ Head(<<x>>) = x /\ <<x>>[1] = x
    BY <1>3
<1> QED
    BY <1>4, <1>5, <1>6 DEF o

(* The option token of a decision is read as that decision.                *)
LEMMA SampledIs ==
    ASSUME NEW sampled \in BOOLEAN
    PROVE  LET opts == <<[key |-> "o", val |-> IF sampled THEN 1 ELSE 0]>>
           IN  /\ HTTPSampled(opts) = sampled
               /\ (GRPCSampled(opts)) = sampled
               /\ opts \in {<<[key |-> "o", val |-> n]>> : n \in 0..1}
<1> DEFINE o    == [key |-> "o", val |-> IF sampled THEN 1 ELSE 0]
           opts == <<o>>
<1>1. o.key = "o" /\ o.val = (IF sampled THEN 1 ELSE 0) /\ o.val >= 0
    OBVIOUS
<1>2. Len(opts) = 1 /\ opts[1] = o /\ DOMAIN opts = {1}
    OBVIOUS
<1>3. opts \in {<<[key |-> "o", val |-> n]>> : n \in 0..1}
    OBVIOUS
<1> HIDE DEF o
<1>4. GRPCSampled(opts) = sampled
    <2>1. GRPCSampled(opts) <=> opts[1].key \in {"o", "foo"} /\ opts[1].val \in {1, 10}
        BY <1>2 DEF GRPCSampled
    <2>2. o.val \in {1, 10} <=> sampled
        BY <1>1
    <2>3. GRPCSampled(opts) <=> sampled
        BY <1>1, <1>2, <2>1, <2>2
    <2>4. GRPCSampled(opts) \in BOOLEAN
        BY DEF GRPCSampled
    <2> QED
        BY <2>3, <2>4, Zenon
<1>5. SelectInSeq(opts, LAMBDA t : t.key \in {"o", "O"} /\ t.val >= 0) = 1
    BY <1>1, <1>2 DEF SelectInSeq, Min
<1>6. HTTPSampled(opts) = sampled
    BY <1>1, <1>2, <1>5 DEF HTTPSampled
<1> QED
    BY <1>3, <1>4, <1>6 DEF o

(* Both parsers read from a legacy header what it was built from.          *)
LEMMA LegacyReads ==
    ASSUME NEW n, NEW sc \in SpanContexts(n), IsValid(sc), NEW h,
           h.xctc = BuildXCloudTraceContext(sc)
    PROVE  /\ ParseHTTPXCloudTrace(h) = Remote(sc)
           /\ ParseGRPCXCloudTrace(h) = Remote(sc)
           /\ ParseSingle(h.xctc[1], HTTPSampled(h.xctc[1].opts)) = Remote(sc)
           /\ ~IsValid(h.tp) => Well("composite", h)
<1> DEFINE x == h.xctc[1]
<1>1. /\ Len(h.xctc) = 1 /\ h.xctc # <<>> /\ Head(h.xctc) = x
      /\ DOMAIN h.xctc = {1}
      /\ x.trace = sc.trace /\ x.dec = sc.span
      /\ x.opts = <<[key |-> "o", val |-> IF sc.sampled THEN 1 ELSE 0]>>
      /\ x \in LegacyValues(n)
    BY BuildIs
<1>2. sc.sampled \in BOOLEAN /\ sc.trace # <<>> /\ sc.span # <<>>
    BY DEF SpanContexts, IsValid
<1>3. /\ HTTPSampled(x.opts) = sc.sampled /\ GRPCSampled(x.opts) = sc.sampled
      /\ x.opts \in {<<[key |-> "o", val |-> m]>> : m \in 0..1}
    BY <1>1, <1>2, SampledIs
<1> HIDE DEF x
<1>4. SC(sc.trace, sc.span, sc.sampled, TRUE) = Remote(sc)
    <2>1. \A v : [sc EXCEPT !.remote = v] = SC(sc.trace, sc.span, sc.sampled, v)
        BY DEF SC, SpanContexts
    <2> QED
        BY <2>1, Zenon DEF Remote
<1>5. ParseSingle(x, sc.sampled) = Remote(sc)
    BY <1>1, <1>2, <1>4 DEF ParseSingle
<1>6. ParseHTTPXCloudTrace(h) = Remote(sc)
    <2>1. SelectInSeq(h.xctc, LAMBDA y : y.trace # <<>>) = 1
        BY <1>1, <1>2 DEF SelectInSeq, Min, x
    <2> QED
        BY <1>3, <1>5, <2>1 DEF ParseHTTPXCloudTrace, x
<1>7. ParseGRPCXCloudTrace(h) = Remote(sc)
    <2>1. [x EXCEPT !.dec = x.dec] = x
        BY <1>1 DEF LegacyValues
    <2>2. (\E i \in DOMAIN h.xctc : GRPCSampled(h.xctc[i].opts)) = sc.sampled
        BY <1>1, <1>2, <1>3 DEF x
    <2>3. ParseGRPCXCloudTrace(h)
          = ParseSingle([x EXCEPT !.dec = x.dec],
                        \E i \in DOMAIN h.xctc : GRPCSampled(h.xctc[i].opts))
        BY <1>1 DEF ParseGRPCXCloudTrace
    <2> QED
        BY <1>5, <2>1, <2>2, <2>3
<1>8. ~IsValid(h.tp) => Well("composite", h)
    BY <1>1, <1>2, <1>3 DEF Well, x
<1> QED
    BY <1>3, <1>5, <1>6, <1>7, <1>8 DEF x

(* What the headers say of the caller's context s: traceparent, if it is   *)
(* there, is of its trace; the legacy header, if it was made for the call, *)
(* was built from it.                                                      *)
Tells(h, s)  == IsValid(h.tp) => Continues(h.tp, s)
Legacy(h, s) == IsValid(s) /\ h.xctc = BuildXCloudTraceContext(s)

(* A context goes on as a remote one.                                      *)
LEMMA GoodRemote ==
    ASSUME NEW n, NEW sc \in SpanContexts(n), NEW s, Good(sc, s)
    PROVE  Good(Remote(sc), s)
    BY RemoteIs DEF Good, Continues

(* What a propagator reads of such headers is of the caller's trace; a     *)
(* legacy header is read by the composite one only.                        *)
LEMMA ExtractGood ==
    ASSUME NEW n, NEW m, NEW h \in Headers(m), NEW s \in SpanContexts(n),
           Tells(h, s), NEW p, NEW sc
    PROVE  /\ p # "noop" /\ IsValid(h.tp) => Good(Extract(p, h, sc), s)
           /\ Legacy(h, s) =>
                 /\ p = "composite" => Good(Extract(p, h, sc), s)
                 /\ Extract(p, h, sc) = sc \/ Good(Extract(p, h, sc), s)
           /\ p = "noop" => Extract(p, h, sc) = sc
<1>1. h.tp \in SpanContexts(m)
    BY DEF Headers
<1>2. CASE p # "noop" /\ IsValid(h.tp)
    <2>1. Good(h.tp, s)
        BY <1>2 DEF Tells, Good
    <2> QED
        BY <1>1, <1>2, <2>1, ExtractCases, GoodRemote
<1>3. CASE ~(p # "noop" /\ IsValid(h.tp)) /\ Legacy(h, s)
    <2>1. Good(Remote(s), s)
        BY <1>3, GoodRemote DEF Legacy, Good, Continues
    <2>2. Well(p, h) => Extract(p, h, sc) = Remote(s)
        BY <1>3, LegacyReads, ExtractCases DEF Legacy
    <2>3. ~Well(p, h) => Extract(p, h, sc) = sc
        BY <1>3, ExtractCases
    <2>4. p = "composite" => Well(p, h)
        BY <1>3, LegacyReads DEF Legacy
    <2>5. p = "noop" => ~Well(p, h)
        BY DEF Well
    <2> QED
        BY <1>3, <2>1, <2>2, <2>3, <2>4, <2>5
<1>4. CASE ~(p # "noop" /\ IsValid(h.tp)) /\ ~Legacy(h, s)
    BY <1>4, ExtractNoop
<1> QED
    BY <1>2, <1>3, <1>4

(* OpenTelemetry keeps a trace that it finds.                              *)
LEMMA OTelServerGood ==
    ASSUME NEW c, NEW sc, NEW h, NEW e, NEW sampled, NEW s,
           c.propagate, ~c.public, c.otel \in {"off", "noop", "sdk"},
           c.otel = "off" \/ e.filtered => Good(sc, s),
           ~(c.otel = "off" \/ e.filtered) => Good(Extract(Propagator(c), h, sc), s)
    PROVE  Good(OTelServer(c, sc, h, e, sampled), s)
<1> DEFINE parent == Extract(Propagator(c), h, sc)
<1>1. CASE c.otel = "off" \/ e.filtered
    BY <1>1 DEF OTelServer
<1>2. CASE c.otel = "noop" /\ ~e.filtered
    BY <1>2 DEF OTelServer
<1>3. CASE c.otel = "sdk" /\ ~e.filtered
    <2> DEFINE span == SC(parent.trace, Own("server"), parent.sampled, FALSE)
    <2>1. Good(parent, s)
        BY <1>3
    <2>2. OTelServer(c, sc, h, e, sampled) = span
        BY <1>3, <2>1 DEF OTelServer, Good
    <2>3. span.trace = parent.trace /\ span.span # <<>> /\ span.sampled = parent.sampled
        BY DEF SC, Own
    <2> HIDE DEF parent, span
    <2>4. Good(span, s)
        BY <2>1, <2>3 DEF Good, IsValid, Continues
    <2> QED
        BY <2>2, <2>4
<1> QED
    BY <1>1, <1>2, <1>3

(* The middleware keeps the trace of the headers that it reads.            *)
LEMMA HTTPContinues ==
    ASSUME NEW n, NEW m, NEW h \in Headers(m), NEW s \in SpanContexts(n),
           NEW c, NEW e, NEW sampled,
           Tells(h, s), c.propagate, ~c.public, ~e.outer,
           c.otel \in {"off", "noop", "sdk"},
           \/ IsValid(h.tp) /\ Propagator(c) # "noop" /\ ~e.injected
           \/ Legacy(h, s)
    PROVE  Good(HTTPServerContext(c, h, e, sampled), s)
<1> DEFINE p     == Propagator(c)
           first == First(e, h)
           sc    == EnsureSpanContext(c, first, h)
<1>1. Before(e) = NoSC /\ ~IsValid(NoSC)
    BY NoSCIs DEF Before
<1>2. Legacy(h, s) => ParseHTTPXCloudTrace(h) = Remote(s) /\ Good(Remote(s), s)
    BY LegacyReads, GoodRemote DEF Legacy, Good, Continues
<1>3. first = NoSC \/ Good(first, s)
    BY <1>1, <1>2 DEF First, InjectTraceContext, FirstValid
<1>4. Good(sc, s)
    <2>1. CASE IsValid(first)
        BY <1>1, <1>3, <2>1 DEF EnsureSpanContext
    <2>2. CASE ~IsValid(first)
        <3>1. sc = FirstValid(Extract(p, h, NoSC), ParseHTTPXCloudTrace(h))
            BY <2>2 DEF EnsureSpanContext, ShouldExtractRemoteSpanContext
        <3>2. \/ Good(Extract(p, h, NoSC), s)
              \/ Extract(p, h, NoSC) = NoSC /\ Legacy(h, s)
            BY <1>3, <2>2, ExtractGood DEF Good
        <3> QED
            BY <1>1, <1>2, <3>1, <3>2 DEF FirstValid, Good
    <2> QED
        BY <2>1, <2>2
<1>5. Good(Extract(p, h, sc), s)
    BY <1>4, ExtractGood
<1> QED
    BY <1>4, <1>5, OTelServerGood, HTTPServerContextIs

(* The interceptors keep the trace of the metadata that they, or otelgrpc  *)
(* before them, read.                                                      *)
LEMMA GRPCContinues ==
    ASSUME NEW n, NEW m, NEW h \in Headers(m), NEW s \in SpanContexts(n),
           NEW c, NEW e, NEW sampled,
           Tells(h, s), h.bin = NoBin, c.propagate, ~c.public,
           c.otel \in {"off", "noop", "sdk"},
           LET first == c.otel = "sdk" /\ ~e.filtered
           IN  \/ IsValid(h.tp) /\ (Propagator(c) # "noop" \/ ~first)
               \/ Legacy(h, s) /\ (Propagator(c) = "composite" \/ ~first)
    PROVE  Good(GRPCServerContext(c, h, e, sampled), s)
<1> DEFINE p     == Propagator(c)
           after == OTelServer(c, NoSC, h, e, sampled)
           tp    == Remote(h.tp)
<1>1. ~IsValid(NoSC)
    BY NoSCIs
<1>2. GRPCServerContext(c, h, e, sampled)
      = IF IsValid(after) THEN after
        ELSE FirstValid(Extract(p, h, NoSC),
             FirstValid(ParseGRPCTraceBin(h.bin),
             FirstValid(tp, ParseGRPCXCloudTrace(h))))
    BY DEF GRPCServerContext, EnsureServerSpanContext
<1>3. ~IsValid(ParseGRPCTraceBin(h.bin))
    BY DEF ParseGRPCTraceBin, NoBin, NoSC, SC, IsValid
<1>4. IsValid(h.tp) => Good(tp, s)
    <2>1. h.tp \in SpanContexts(m)
        BY DEF Headers
    <2> QED
        BY <2>1, GoodRemote DEF Good, Tells
<1>5. ~IsValid(h.tp) => ~IsValid(tp)
    BY DEF Remote, IsValid, Headers, SpanContexts
<1>6. Legacy(h, s) => ParseGRPCXCloudTrace(h) = Remote(s) /\ Good(Remote(s), s)
    BY LegacyReads, GoodRemote DEF Legacy, Good, Continues
<1>7. CASE c.otel = "sdk" /\ ~e.filtered
    <2>1. Good(Extract(p, h, NoSC), s)
        BY <1>7, ExtractGood
    <2>2. Good(after, s)
        BY <1>7, <2>1, OTelServerGood
    <2> QED
        BY <1>2, <2>2 DEF Good
<1>8. CASE ~(c.otel = "sdk" /\ ~e.filtered)
    <2>1. after = NoSC \/ after = Extract(p, h, NoSC)
        BY <1>8 DEF OTelServer
    <2>2. Extract(p, h, NoSC) = NoSC \/ Good(Extract(p, h, NoSC), s)
        BY <1>8, ExtractGood
    <2>3. Good(tp, s) \/ (~IsValid(tp) /\ Good(ParseGRPCXCloudTrace(h), s))
        BY <1>4, <1>5, <1>6, <1>8
    <2> HIDE DEF after, tp, p
    <2> QED
        BY <1>1, <1>2, <1>3, <2>1, <2>2, <2>3 DEF FirstValid, Good
<1> QED
    BY <1>7, <1>8

-----------------------------------------------------------------------------
(* The client.                                                             *)

(* What a propagator writes.                                               *)
LEMMA InjectIs ==
    ASSUME NEW n, NEW h \in Headers(n), NEW sc \in SpanContexts(n), NEW p
    PROVE  LET new == Inject(p, h, sc)
           IN  /\ new \in Headers(n) /\ new.bin = h.bin /\ new.xctc = h.xctc
               /\ new.tp = IF p = "noop" \/ ~IsValid(sc) THEN h.tp ELSE Remote(sc)
<1>1. Remote(sc) \in SpanContexts(n)
    BY RemoteIs
<1>2. CASE p = "noop" \/ ~IsValid(sc)
    BY <1>2 DEF Inject
<1>3. CASE ~(p = "noop" \/ ~IsValid(sc))
    <2> DEFINE r == Remote(sc)
    <2>1. Inject(p, h, sc) = [h EXCEPT !.tp = r]
        BY <1>3 DEF Inject
    <2>2. r \in SpanContexts(n)
        BY <1>1
    <2> HIDE DEF r
    <2>3. LET new == [h EXCEPT !.tp = r]
          IN  new \in Headers(n) /\ new.bin = h.bin /\ new.xctc = h.xctc /\ new.tp = r
        BY <2>2 DEF Headers
    <2> QED
        BY <1>3, <2>1, <2>3 DEF r
<1> QED
    BY <1>2, <1>3

(* What the transport and the client interceptors write.                   *)
LEMMA InjectTraceIs ==
    ASSUME NEW n, NEW h \in Headers(n), NEW sc \in SpanContexts(n), NEW c
    PROVE  LET new    == InjectTrace(c, h, sc)
               silent == ~c.propagate \/ ~IsValid(sc)
           IN  /\ new \in Headers(n) /\ new.bin = h.bin
               /\ new.tp = IF silent \/ Propagator(c) = "noop" THEN h.tp
                           ELSE Remote(sc)
               /\ new.xctc = IF silent \/ ~c.legacy \/ h.xctc # <<>> THEN h.xctc
                             ELSE BuildXCloudTraceContext(sc)
               /\ ~c.propagate => new = h
<1> DEFINE g == Inject(Propagator(c), h, sc)
           b == BuildXCloudTraceContext(sc)
<1>1. /\ g \in Headers(n) /\ g.bin = h.bin /\ g.xctc = h.xctc
      /\ g.tp = IF Propagator(c) = "noop" \/ ~IsValid(sc) THEN h.tp ELSE Remote(sc)
    BY InjectIs
<1>2. b \in Seq(LegacyValues(n))
    BY BuildIs
<1>3. InjectTrace(c, h, sc) = IF ~c.propagate THEN h ELSE InjectLegacy(c, g, sc)
    BY DEF InjectTrace
<1>4. InjectLegacy(c, g, sc) = IF ~c.legacy \/ ~IsValid(sc) \/ g.xctc # <<>> THEN g
                               ELSE [g EXCEPT !.xctc = b]
    BY DEF InjectLegacy
<1> HIDE DEF g, b
<1>5. LET new == [g EXCEPT !.xctc = b]
      IN  new \in Headers(n) /\ new.bin = g.bin /\ new.tp = g.tp /\ new.xctc = b
    BY <1>1, <1>2 DEF Headers
<1>6. CASE ~c.propagate
    BY <1>3, <1>6
<1>7. CASE c.propagate /\ (~c.legacy \/ ~IsValid(sc) \/ g.xctc # <<>>)
    BY <1>1, <1>3, <1>4, <1>7
<1>8. CASE c.propagate /\ ~(~c.legacy \/ ~IsValid(sc) \/ g.xctc # <<>>)
    <2>1. InjectTrace(c, h, sc) = [g EXCEPT !.xctc = b]
        BY <1>3, <1>4, <1>8
    <2> QED
        BY <1>1, <1>5, <1>8, <2>1 DEF b
<1> QED
    BY <1>6, <1>7, <1>8

(* What otelgrpc writes over it: the same context, or that of its own span *)
(* in the same trace.                                                      *)
LEMMA OTelClientIs ==
    ASSUME hop \in Nat \ {0}, NEW c, NEW h \in Headers(hop),
           NEW sc \in SpanContexts(hop), NEW e
    PROVE  LET new == OTelClient(c, h, sc, e)
           IN  /\ new \in Headers(hop) /\ new.bin = h.bin /\ new.xctc = h.xctc
               /\ ~c.propagate => new = h
               /\ \/ new.tp = h.tp
                  \/ /\ Propagator(c) # "noop"
                     /\ IsValid(sc) => /\ new.tp.span \in {sc.span, Own("call")}
                                       /\ Continues(new.tp, sc)
<1> DEFINE t == IF ~IsValid(sc) THEN Own("call") ELSE sc.trace
           d == ~IsValid(sc) \/ sc.sampled
           own == SC(t, Own("call"), d, FALSE)
           s   == IF c.otel = "noop" THEN sc ELSE own
           new == Inject(Propagator(c), h, s)
<1>1. Own("call") \in IDs(hop)
    BY OwnIs DEF Made
<1>2. t \in IDs(hop) /\ d \in BOOLEAN
    BY <1>1 DEF SpanContexts
<1>3. IsValid(sc) => t = sc.trace /\ d = sc.sampled
    BY DEF SpanContexts
<1>4. OTelClient(c, h, sc, e) = IF c.otel = "off" \/ e.filtered \/ ~c.propagate THEN h
                                ELSE new
    BY DEF OTelClient
<1> HIDE DEF t, d
<1>5. /\ own \in SpanContexts(hop) /\ own.trace = t /\ own.span = Own("call")
      /\ own.sampled = d
    BY <1>1, <1>2 DEF SC, SpanContexts
<1> HIDE DEF own
<1>6. /\ s \in SpanContexts(hop)
      /\ IsValid(sc) => s.span \in {sc.span, Own("call")} /\ Continues(s, sc)
    BY <1>3, <1>5 DEF Continues
<1> HIDE DEF s
<1>7. /\ new \in Headers(hop) /\ new.bin = h.bin /\ new.xctc = h.xctc
      /\ new.tp = IF Propagator(c) = "noop" \/ ~IsValid(s) THEN h.tp ELSE Remote(s)
    BY <1>6, InjectIs
<1>8. \/ new.tp = h.tp
      \/ /\ Propagator(c) # "noop"
         /\ IsValid(sc) => /\ new.tp.span \in {sc.span, Own("call")}
                           /\ Continues(new.tp, sc)
    BY <1>6, <1>7, RemoteIs DEF Continues
<1> HIDE DEF new
<1> QED
    BY <1>4, <1>7, <1>8

(* The trace fields of a logger name a span only beside its trace.         *)
LEMMA TraceAttributesIs ==
    ASSUME NEW sc, NEW project
    PROVE  LET f == TraceAttributes(sc, project)
           IN  /\ "span" \in DOMAIN f =>
                     /\ IsValid(sc) /\ ~sc.remote
                     /\ "trace" \in DOMAIN f
                     /\ f["trace"] = sc.trace /\ f["span"] = sc.span
               /\ IsValid(sc) /\ ~sc.remote /\ project # None => "span" \in DOMAIN f
               /\ ~IsValid(sc) \/ project = None => "trace" \notin DOMAIN f
<1> DEFINE f == TraceAttributes(sc, project)
<1>1. CASE ~IsValid(sc)
    BY <1>1 DEF TraceAttributes, NoFields
<1>2. CASE IsValid(sc) /\ project # None /\ sc.remote
    <2>1. f = [trace |-> sc.trace]
        BY <1>2 DEF TraceAttributes
    <2> QED
        BY <1>2, <2>1
<1>3. CASE IsValid(sc) /\ project # None /\ ~sc.remote
    <2>1. f = [trace |-> sc.trace, span |-> sc.span]
        BY <1>3 DEF TraceAttributes
    <2> QED
        BY <1>3, <2>1
<1>4. CASE IsValid(sc) /\ project = None /\ sc.remote
    <2>1. f = [otelTrace |-> sc.trace]
        BY <1>4 DEF TraceAttributes
    <2> QED
        BY <1>4, <2>1
<1>5. CASE IsValid(sc) /\ project = None /\ ~sc.remote
    <2>1. f = [otelTrace |-> sc.trace, otelSpan |-> sc.span]
        BY <1>5 DEF TraceAttributes
    <2> QED
        BY <1>5, <2>1
<1> QED
    BY <1>1, <1>2, <1>3, <1>4, <1>5

(* Options leave one of the three ways of tracing.                         *)
LEMMA OTelModes ==
    /\ \A o \in HTTPServerOptions, t \in TrustEnv :
          ApplyHTTPOptions(o, t).otel \in {"off", "noop", "sdk"}
    /\ \A o \in GRPCServerOptions : ApplyGRPCOptions(o).otel \in {"off", "noop", "sdk"}
<1>1. HTTPDefaults.otel = "sdk" /\ "otel" \in DOMAIN HTTPDefaults
    BY DEF HTTPDefaults
<1>2. GRPCDefaults.otel = "sdk" /\ "otel" \in DOMAIN GRPCDefaults
    BY <1>1 DEF GRPCDefaults
<1>3. ASSUME NEW o \in HTTPServerOptions \cup GRPCServerOptions, NEW g,
             g.otel = "sdk", "otel" \in DOMAIN g
      PROVE  /\ Over(o, g).otel \in {"off", "noop", "sdk"}
             /\ \A v : [Over(o, g) EXCEPT !.trust = v].otel = Over(o, g).otel
    <2>1. Over(o, g).otel = IF "otel" \in DOMAIN o THEN o.otel ELSE g.otel
        BY <1>3 DEF Over
    <2>2. \A v : [Over(o, g) EXCEPT !.trust = v].otel = Over(o, g).otel
        BY <1>3 DEF Over
    <2> QED
        BY <1>3, <2>1, <2>2, TraceAssumption
<1>4. ASSUME NEW o \in HTTPServerOptions, NEW t \in TrustEnv
      PROVE  ApplyHTTPOptions(o, t).otel \in {"off", "noop", "sdk"}
    <2> DEFINE c == Over(o, HTTPDefaults)
               v == t = "true"
    <2>1. ApplyHTTPOptions(o, t) \in {c, [c EXCEPT !.trust = v]}
        BY DEF ApplyHTTPOptions
    <2>2. c.otel \in {"off", "noop", "sdk"} /\ [c EXCEPT !.trust = v].otel = c.otel
        BY <1>1, <1>3
    <2> HIDE DEF c, v
    <2> QED
        BY <2>1, <2>2
<1>5. ASSUME NEW o \in GRPCServerOptions
      PROVE  ApplyGRPCOptions(o).otel \in {"off", "noop", "sdk"}
    BY <1>2, <1>3 DEF ApplyGRPCOptions
<1> QED
    BY <1>4, <1>5

-----------------------------------------------------------------------------
(* Types.                                                                  *)

(* The context of a span that the handler starts.                          *)
LEMMA StartSpanIs ==
    ASSUME TraceTypes, StartSpan
    PROVE  /\ ctx' \in SpanContexts(hop) /\ IsValid(ctx') /\ ~ctx'.remote
           /\ ctx'.span = Own("own") /\ <<ctx'.trace, ctx'.span>> \in started'
           /\ ctx'.trace = Own("own") \/ (IsValid(ctx) /\ ctx'.trace = ctx.trace)
<1> DEFINE d == ~IsValid(ctx) \/ ctx.sampled
<1>1. PICK t : /\ t = Own("own") \/ (IsValid(ctx) /\ t = ctx.trace)
               /\ ctx' = SC(t, Own("own"), d, FALSE)
               /\ started' = started \cup {<<t, Own("own")>>}
    BY DEF StartSpan
<1>2. d \in BOOLEAN
    BY DEF TraceTypes, SpanContexts
<1>3. "own" \in Made /\ Own("own") \in IDs(hop) /\ Own("own") # <<>>
    BY OwnIs DEF Made, TraceTypes
<1>4. t \in IDs(hop) /\ t # <<>>
    BY <1>1, <1>3 DEF TraceTypes, SpanContexts, IsValid
<1> HIDE DEF d
<1> DEFINE new == SC(t, Own("own"), d, FALSE)
<1>5. /\ new \in SpanContexts(hop) /\ ~new.remote
      /\ new.trace = t /\ new.span = Own("own")
    BY <1>2, <1>3, <1>4 DEF SC, SpanContexts
<1> HIDE DEF new
<1>6. IsValid(new) /\ ctx' = new
    BY <1>1, <1>3, <1>4, <1>5 DEF IsValid, new
<1> QED
    BY <1>1, <1>5, <1>6

(* The context of an attempt is of the same trace.                         *)
LEMMA RetryIs ==
    ASSUME TraceTypes, Retry
    PROVE  /\ ctx' \in SpanContexts(hop)
           /\ IsValid(ctx) => IsValid(ctx') /\ Continues(ctx', ctx)
<1>1. CASE ctx' = ctx
    BY <1>1 DEF TraceTypes, Continues
<1>2. CASE ctx' # ctx
    <2> DEFINE t == IF ~IsValid(ctx) THEN Own("retry") ELSE ctx.trace
               d == ~IsValid(ctx) \/ ctx.sampled
    <2>1. "retry" \in Made /\ Own("retry") \in IDs(hop) /\ Own("retry") # <<>>
        BY OwnIs DEF Made, TraceTypes
    <2>2. t \in IDs(hop) /\ t # <<>> /\ d \in BOOLEAN
        BY <2>1 DEF TraceTypes, SpanContexts, IsValid
    <2>3. IsValid(ctx) => t = ctx.trace /\ d = ctx.sampled
        BY DEF TraceTypes, SpanContexts
    <2>4. ctx' = SC(t, Own("retry"), d, FALSE)
        BY <1>2 DEF Retry
    <2> DEFINE new == SC(t, Own("retry"), d, FALSE)
    <2> HIDE DEF t, d
    <2>5. /\ new \in SpanContexts(hop) /\ new.trace = t
          /\ new.span = Own("retry") /\ new.sampled = d
        BY <2>1, <2>2 DEF SC, SpanContexts
    <2> HIDE DEF new
    <2>6. IsValid(new) /\ ctx' = new
        BY <2>1, <2>2, <2>4, <2>5 DEF IsValid, new
    <2> QED
        BY <2>3, <2>5, <2>6 DEF Continues
<1> QED
    BY <1>1, <1>2

(* A call starts without traceparent, and new, or with the legacy header   *)
(* that is forwarded.                                                      *)
LEMMA PrepareCallIs ==
    ASSUME TraceTypes, PrepareCall
    PROVE  /\ out' \in Headers(hop) /\ out'.bin = NoBin /\ ~IsValid(out'.tp)
           /\ up' \in [sc : SpanContexts(hop), fresh : BOOLEAN]
           /\ up'.sc = ctx /\ (up'.fresh <=> out' = NoHeaders)
<1>1. hdr.xctc \in Seq(LegacyValues(hop))
    BY OlderIs DEF TraceTypes, Headers
<1>2. NoHeaders \in Headers(hop)
    BY OlderIs DEF TraceTypes
<1>3. NoHeaders.tp = NoSC /\ NoHeaders.bin = NoBin
    BY DEF NoHeaders
<1> DEFINE v == hdr.xctc
           f == [NoHeaders EXCEPT !.xctc = v]
<1>4. v \in Seq(LegacyValues(hop))
    BY <1>1
<1>5. out' \in {NoHeaders, f}
    BY DEF PrepareCall
<1> HIDE DEF v
<1>6. f \in Headers(hop) /\ f.tp = NoHeaders.tp /\ f.bin = NoHeaders.bin
    BY <1>2, <1>4 DEF Headers
<1> HIDE DEF f
<1>7. up' = [sc |-> ctx, fresh |-> out' = NoHeaders]
    BY DEF PrepareCall
<1>8. up' \in [sc : SpanContexts(hop), fresh : BOOLEAN]
    BY <1>7 DEF TraceTypes
<1> QED
    BY <1>2, <1>3, <1>5, <1>6, <1>7, <1>8, NoSCIs

(* Every ID is of this process or an older one.                            *)
LEMMA TraceTypesStep == TraceTypes /\ [Next]_vars => TraceTypes'
<1> SUFFICES ASSUME TraceTypes, [Next]_vars PROVE TraceTypes'
    OBVIOUS
<1> USE DEF TraceTypes, Arriving, Leaving
<1>1. CASE EnsurePropagation
    BY <1>1 DEF EnsurePropagation
<1>2. CASE SetTextMapPropagator
    BY <1>2 DEF SetTextMapPropagator
<1>3. CASE Serve
    <2>1. PICK sampled \in BOOLEAN : ctx' = ServerContext(kind, cfg', hdr, env', sampled)
        BY <1>3 DEF Serve
    <2>2. ctx' \in SpanContexts(hop)
        BY <2>1, ServerContextIs
    <2> QED
        BY <1>3, <2>2 DEF Serve
<1>4. CASE StartSpan
    <2>1. ctx' \in SpanContexts(hop)
        BY <1>4, StartSpanIs
    <2> QED
        BY <1>4, <2>1 DEF StartSpan
<1>5. CASE Log
    BY <1>5 DEF Log
<1>6. CASE PrepareCall
    <2>1. out' \in Headers(hop) /\ up' \in [sc : SpanContexts(hop), fresh : BOOLEAN]
        BY <1>6, PrepareCallIs
    <2>2. hdr' \in Headers(hop - 1)
        BY <1>6, OlderIs DEF PrepareCall
    <2> QED
        BY <1>6, <2>1, <2>2 DEF PrepareCall
<1>7. CASE RoundTrip
    <2>1. out' \in Headers(hop) /\ wire' = out'
        BY <1>7, InjectTraceIs DEF RoundTrip
    <2> QED
        BY <1>7, <2>1 DEF RoundTrip
<1>8. CASE InvokeRPC
    <2>1. InjectTrace(cfg, out, ctx) \in Headers(hop)
        BY InjectTraceIs
    <2>2. wire' \in Headers(hop)
        BY <1>8, <2>1, OTelClientIs DEF InvokeRPC, InjectClientTrace
    <2> QED
        BY <1>8, <2>2 DEF InvokeRPC
<1>9. CASE Retry
    <2>1. ctx' \in SpanContexts(hop)
        BY <1>9, RetryIs
    <2>2. up' \in [sc : SpanContexts(hop), fresh : BOOLEAN]
        BY <1>9, <2>1 DEF Retry
    <2> QED
        BY <1>9, <2>1, <2>2 DEF Retry
<1>10. CASE Deliver
    <2>1. hop' = hop + 1 /\ hop' - 1 = hop /\ hop' \in Nat \ {0} /\ hop \in Nat
        BY <1>10 DEF Deliver
    <2>2. up' \in [sc : SpanContexts(hop'), fresh : BOOLEAN]
        BY <1>10, <2>1, IDsGrow DEF Deliver
    <2>3. NoSC \in SpanContexts(hop') /\ NoHeaders \in Headers(hop')
        BY <2>1, IDsGrow
    <2> QED
        BY <1>10, <2>1, <2>2, <2>3 DEF Deliver
<1>11. CASE UNCHANGED vars
    BY <1>11
<1> QED
    BY <1>1, <1>2, <1>3, <1>4, <1>5, <1>6, <1>7, <1>8, <1>9, <1>10, <1>11
       DEF Next

-----------------------------------------------------------------------------
(* Spans.                                                                  *)

(* A span that is named is one that was started here.                      *)
LEMMA SpanStep == TraceTypes /\ SpanInv /\ [Next]_vars => SpanInv'
<1> SUFFICES ASSUME TraceTypes, SpanInv, [Next]_vars PROVE SpanInv'
    OBVIOUS
<1> USE DEF SpanInv, SpanIsOwn, Started, Field
<1>1. CASE EnsurePropagation
    BY <1>1 DEF EnsurePropagation
<1>2. CASE SetTextMapPropagator
    BY <1>2 DEF SetTextMapPropagator
<1>3. CASE Serve
    <2>1. log' = NoFields /\ pc' = "served"
        BY <1>3 DEF Serve
    <2>2. IsValid(ctx') /\ ~ctx'.remote => <<ctx'.trace, ctx'.span>> \in started'
        BY <1>3 DEF Serve
    <2>3. PICK project : attrs' = TraceAttributes(ctx', project)
        BY <1>3 DEF Serve
    <2>4. "span" \in DOMAIN attrs' =>
             /\ IsValid(ctx') /\ ~ctx'.remote
             /\ "trace" \in DOMAIN attrs'
             /\ attrs'["trace"] = ctx'.trace /\ attrs'["span"] = ctx'.span
        BY <2>3, TraceAttributesIs
    <2> QED
        BY <2>1, <2>2, <2>4 DEF NoFields, IsValid
<1>4. CASE StartSpan
    <2>1. /\ pc = "served" /\ pc' = "served" /\ attrs' = attrs /\ log' = NoFields
          /\ started \subseteq started'
        BY <1>4 DEF StartSpan
    <2>2. /\ IsValid(ctx') /\ ~ctx'.remote
          /\ <<ctx'.trace, ctx'.span>> \in started'
        BY <1>4, StartSpanIs
    <2> QED
        BY <2>1, <2>2 DEF NoFields, IsValid
<1>5. CASE Log
    <2>1. PICK fields \in {attrs, NoFields}, sc \in {ctx, NoSC}, project \in {None, "Q"} :
             log' = ApplyTrace(sc, project, fields)
        BY <1>5 DEF Log
    <2>2. /\ pc = "served" /\ pc' = "served"
          /\ UNCHANGED <<ctx, attrs, started>>
        BY <1>5 DEF Log
    <2>3. "span" \in DOMAIN log' =>
             "trace" \in DOMAIN log' /\ <<log'["trace"], log'["span"]>> \in started
        <3> DEFINE f == IF IsValid(sc) /\ project = None
                        THEN [otelTrace |-> sc.trace, otelSpan |-> sc.span]
                        ELSE TraceAttributes(sc, project)
        <3>1. log' = Over(f, fields)
            BY <2>1 DEF ApplyTrace
        <3>2. /\ "span" \in DOMAIN f =>
                    /\ IsValid(sc) /\ ~sc.remote
                    /\ "trace" \in DOMAIN f
                    /\ f["trace"] = sc.trace /\ f["span"] = sc.span
              /\ "trace" \in DOMAIN f /\ "span" \notin DOMAIN f =>
                    IsValid(sc) /\ sc.remote
            BY TraceAttributesIs
        <3> HIDE DEF f
        <3>3. \A k \in DOMAIN f \cup DOMAIN fields :
                 log'[k] = IF k \in DOMAIN f THEN f[k] ELSE fields[k]
            BY <3>1 DEF Over
        <3>4. DOMAIN log' = DOMAIN f \cup DOMAIN fields
            BY <3>1 DEF Over
        <3>5. IsValid(sc) => sc = ctx
            BY NoSCIs
        <3>6. CASE "span" \in DOMAIN f
            BY <2>2, <3>2, <3>3, <3>4, <3>5, <3>6
        <3>7. CASE "span" \notin DOMAIN f /\ "span" \in DOMAIN fields
            <4>1. fields = attrs
                BY <3>7 DEF NoFields
            <4>2. "trace" \notin DOMAIN f
                BY <2>2, <3>2, <3>5, <3>7, <4>1
            <4> QED
                BY <2>2, <3>3, <3>4, <3>7, <4>1, <4>2
        <3> QED
            BY <3>4, <3>6, <3>7
    <2> QED
        BY <2>2, <2>3
<1>6. CASE PrepareCall
    BY <1>6 DEF PrepareCall
<1>7. CASE RoundTrip
    BY <1>7 DEF RoundTrip
<1>8. CASE InvokeRPC
    BY <1>8 DEF InvokeRPC
<1>9. CASE Retry
    BY <1>9 DEF Retry
<1>10. CASE Deliver
    BY <1>10 DEF Deliver
<1>11. CASE UNCHANGED vars
    BY <1>11
<1> QED
    BY <1>1, <1>2, <1>3, <1>4, <1>5, <1>6, <1>7, <1>8, <1>9, <1>10, <1>11
       DEF Next

-----------------------------------------------------------------------------
(* What is let in and what is sent.                                        *)

(* Only allowed traces are taken over, and none is sent that is kept back. *)
LEMMA AllowStep == TraceTypes /\ AllowInv /\ [Next]_vars => AllowInv'
<1> SUFFICES ASSUME TraceTypes, AllowInv, [Next]_vars PROVE AllowInv'
    OBVIOUS
<1> USE DEF AllowInv, OnlyAllowedTraces, UntrustedStaysOut, SilentWhenOff,
        Leaving
<1>1. CASE EnsurePropagation
    BY <1>1 DEF EnsurePropagation
<1>2. CASE SetTextMapPropagator
    BY <1>2 DEF SetTextMapPropagator
<1>3. CASE Serve
    <2>1. PICK sampled \in BOOLEAN : ctx' = ServerContext(kind, cfg', hdr, env', sampled)
        BY <1>3 DEF Serve
    <2>2. pc' = "served" /\ UNCHANGED <<hop, kind, hdr>>
        BY <1>3 DEF Serve
    <2>3. Ours(ctx') /\ IsValid(ctx') => ctx'.trace \notin HeaderTraces(hdr)
        BY HeaderTracesAre DEF Ours, TraceTypes, Made
    <2>4. hop \in Nat \ {0}
        BY DEF TraceTypes
    <2>5. ~cfg'.propagate /\ ~env'.injected => Ours(ctx')
        BY <2>1, <2>4, SilentServer
    <2>6. (/\ kind = "http" /\ cfg'.public /\ ~cfg'.trust /\ ~env'.injected
           /\ ~(cfg'.otel # "off" /\ (env'.filtered \/ cfg'.otel = "noop")))
          => Ours(ctx')
        BY <2>1, <2>4, PublicServer
    <2>7. (IsValid(ctx))' <=> IsValid(ctx')
        BY DEF IsValid
    <2>8. (HeaderTraces(hdr))' = HeaderTraces(hdr)
        BY <2>2 DEF HeaderTraces
    <2> QED
        BY <2>2, <2>3, <2>5, <2>6, <2>7, <2>8
<1>4. CASE StartSpan
    <2>1. /\ pc = "served" /\ pc' = "served"
          /\ UNCHANGED <<hop, kind, hdr, cfg, env>>
        BY <1>4 DEF StartSpan
    <2>2. ctx'.trace = Own("own") \/ (IsValid(ctx) /\ ctx'.trace = ctx.trace)
        BY <1>4, StartSpanIs
    <2>3. Own("own") \notin HeaderTraces(hdr)
        BY HeaderTracesAre DEF TraceTypes, Made
    <2>4. (HeaderTraces(hdr))' = HeaderTraces(hdr)
        BY <2>1 DEF HeaderTraces
    <2> QED
        BY <2>1, <2>2, <2>3, <2>4
<1>5. CASE Log
    BY <1>5 DEF Log, HeaderTraces, IsValid
<1>6. CASE PrepareCall
    BY <1>6, PrepareCallIs DEF PrepareCall
<1>7. CASE RoundTrip
    <2>1. ~cfg.propagate => out' = out
        BY <1>7 DEF RoundTrip, InjectTrace
    <2> QED
        BY <1>7, <2>1 DEF RoundTrip, IsValid
<1>8. CASE InvokeRPC
    <2>1. ~cfg.propagate => wire' = out
        BY <1>8 DEF InvokeRPC, InjectClientTrace, InjectTrace, OTelClient
    <2> QED
        BY <1>8, <2>1 DEF InvokeRPC, IsValid
<1>9. CASE Retry
    BY <1>9 DEF Retry, IsValid
<1>10. CASE Deliver
    BY <1>10 DEF Deliver
<1>11. CASE UNCHANGED vars
    BY <1>11
<1> QED
    BY <1>1, <1>2, <1>3, <1>4, <1>5, <1>6, <1>7, <1>8, <1>9, <1>10, <1>11
       DEF Next

-----------------------------------------------------------------------------
(* Calls.                                                                  *)

(* What is written over the headers that the application gave.             *)
LEMMA CallIs ==
    ASSUME TraceTypes, CallInv, pc = "calling"
    PROVE  LET g == InjectTrace(cfg, out, ctx)
           IN  /\ g \in Headers(hop) /\ g.bin = NoBin
               /\ IsValid(g.tp) => IsValid(ctx) /\ Continues(g.tp, ctx)
               /\ up.fresh => g.xctc \in {<<>>, BuildXCloudTraceContext(ctx)}
               /\ up.fresh /\ g.xctc # <<>> => IsValid(ctx)
               /\ up.fresh /\ cfg.propagate /\ cfg.legacy /\ IsValid(ctx)
                     => g.xctc = BuildXCloudTraceContext(ctx)
               /\ cfg.propagate /\ Propagator(cfg) # "noop" /\ IsValid(ctx)
                     => g.tp.trace = ctx.trace /\ g.tp.span = ctx.span
<1> DEFINE g == InjectTrace(cfg, out, ctx)
           silent == ~cfg.propagate \/ ~IsValid(ctx)
<1>1. /\ out.bin = NoBin
      /\ IsValid(out.tp) => IsValid(ctx) /\ Continues(out.tp, ctx)
      /\ up.fresh => out.xctc = <<>>
    BY DEF CallInv, Leaving, NoHeaders
<1>2. out \in Headers(hop) /\ ctx \in SpanContexts(hop)
    BY DEF TraceTypes
<1>3. /\ g \in Headers(hop) /\ g.bin = out.bin
      /\ g.tp = IF silent \/ Propagator(cfg) = "noop" THEN out.tp ELSE Remote(ctx)
      /\ g.xctc = IF silent \/ ~cfg.legacy \/ out.xctc # <<>> THEN out.xctc
                  ELSE BuildXCloudTraceContext(ctx)
    BY <1>2, InjectTraceIs
<1>4. /\ Remote(ctx).trace = ctx.trace /\ Remote(ctx).span = ctx.span
      /\ Remote(ctx).sampled = ctx.sampled
    BY <1>2, RemoteIs
<1> HIDE DEF g
<1>5. IsValid(g.tp) => IsValid(ctx) /\ Continues(g.tp, ctx)
    BY <1>1, <1>3, <1>4 DEF Continues
<1>6. cfg.propagate /\ Propagator(cfg) # "noop" /\ IsValid(ctx)
         => g.tp.trace = ctx.trace /\ g.tp.span = ctx.span
    BY <1>3, <1>4
<1>7. up.fresh => /\ g.xctc \in {<<>>, BuildXCloudTraceContext(ctx)}
                  /\ g.xctc # <<>> => IsValid(ctx)
                  /\ cfg.propagate /\ cfg.legacy /\ IsValid(ctx)
                        => g.xctc = BuildXCloudTraceContext(ctx)
    BY <1>1, <1>3
<1> QED
    BY <1>1, <1>3, <1>5, <1>6, <1>7 DEF g

(* Parsing reads nothing but its header and the process's name.            *)
LEMMA ParsePrimed ==
    ASSUME hop' = hop
    PROVE  /\ ParseHTTPXCloudTrace(wire)' = ParseHTTPXCloudTrace(wire')
           /\ ParseGRPCXCloudTrace(wire)' = ParseGRPCXCloudTrace(wire')
<1>1. ParseHTTPXCloudTrace(wire)' = ParseHTTPXCloudTrace(wire')
    BY DEF ParseHTTPXCloudTrace, ParseSingle, Own, SelectInSeq
<1>2. ParseGRPCXCloudTrace(wire)' = ParseGRPCXCloudTrace(wire')
    BY DEF ParseGRPCXCloudTrace, ParseSingle, Own
<1> QED
    BY <1>1, <1>2

(* Headers sent that way are of one mind.                                  *)
LEMMA SentIs ==
    ASSUME TraceTypes, CallInv, pc = "calling", pc' = "sent",
           UNCHANGED <<hop, global, kind, up, cfg, ctx>>,
           wire'.bin = NoBin, out'.bin = NoBin,
           IsValid(out'.tp) => IsValid(ctx) /\ Continues(out'.tp, ctx),
           IsValid(ctx) /\ IsValid(wire'.tp) => Continues(wire'.tp, ctx),
           up.fresh => wire'.xctc \in {<<>>, BuildXCloudTraceContext(ctx)},
           up.fresh /\ wire'.xctc # <<>> => IsValid(ctx),
           up.fresh /\ cfg.propagate /\ cfg.legacy /\ IsValid(ctx)
              => wire'.xctc = BuildXCloudTraceContext(ctx),
           cfg.propagate /\ Propagator(cfg) # "noop" /\ IsValid(ctx)
              => /\ wire'.tp.trace = ctx.trace
                 /\ wire'.tp.span \in {ctx.span}
                                      \cup (IF kind = "grpc" THEN {Own("call")} ELSE {})
    PROVE  CallInv'
<1>1. up.sc = ctx
    BY DEF CallInv, Leaving
<1>2. /\ ParseHTTPXCloudTrace(wire)' = ParseHTTPXCloudTrace(wire')
      /\ ParseGRPCXCloudTrace(wire)' = ParseGRPCXCloudTrace(wire')
    BY ParsePrimed
<1>3. LegacyAgrees'
    <2> SUFFICES ASSUME up.fresh, cfg.propagate, cfg.legacy, IsValid(ctx)
                 PROVE  /\ ParseHTTPXCloudTrace(wire') = Remote(ctx)
                        /\ ParseGRPCXCloudTrace(wire') = Remote(ctx)
                        /\ IsValid(wire'.tp) =>
                              /\ wire'.tp.trace = Remote(ctx).trace
                              /\ wire'.tp.sampled = Remote(ctx).sampled
        BY <1>1, <1>2 DEF LegacyAgrees, IsValid, Remote
    <2>1. ctx \in SpanContexts(hop)
        BY DEF TraceTypes
    <2> QED
        BY <2>1, LegacyReads, RemoteIs DEF Continues
<1>4. TraceparentIsCurrent'
    BY DEF TraceparentIsCurrent, Propagator, IsValid, Own
<1> QED
    BY <1>1, <1>3, <1>4 DEF CallInv, HeadersAreCurrent, Leaving, IsValid, Continues,
        BuildXCloudTraceContext

(* The headers of a call stay those of its context.                        *)
LEMMA CallStep == TraceTypes /\ SpanInv /\ CallInv /\ [Next]_vars => CallInv'
<1> SUFFICES ASSUME TraceTypes, SpanInv, CallInv, [Next]_vars PROVE CallInv'
    OBVIOUS
<1> USE DEF Leaving
<1>1. CASE EnsurePropagation
    BY <1>1 DEF EnsurePropagation, CallInv
<1>2. CASE SetTextMapPropagator
    BY <1>2 DEF SetTextMapPropagator, CallInv
<1>3. CASE Serve
    BY <1>3 DEF Serve, CallInv
<1>4. CASE StartSpan
    BY <1>4 DEF StartSpan, CallInv
<1>5. CASE Log
    BY <1>5 DEF Log, CallInv
<1>6. CASE PrepareCall
    <2>1. /\ out'.bin = NoBin /\ ~IsValid(out'.tp) /\ up'.sc = ctx
          /\ up'.fresh <=> out' = NoHeaders
        BY <1>6, PrepareCallIs
    <2>2. pc' = "calling" /\ ctx' = ctx
        BY <1>6 DEF PrepareCall
    <2> QED
        BY <2>1, <2>2 DEF CallInv, HeadersAreCurrent, LegacyAgrees,
            TraceparentIsCurrent, IsValid
<1>7. CASE RoundTrip
    <2> DEFINE new == InjectTrace(cfg, out, ctx)
    <2>1. /\ pc = "calling" /\ pc' = "sent" /\ out' = new /\ wire' = new
          /\ UNCHANGED <<hop, global, kind, up, cfg, ctx>>
        BY <1>7 DEF RoundTrip
    <2> HIDE DEF new
    <2>2. /\ new.bin = NoBin
          /\ IsValid(new.tp) => IsValid(ctx) /\ Continues(new.tp, ctx)
          /\ up.fresh => new.xctc \in {<<>>, BuildXCloudTraceContext(ctx)}
          /\ up.fresh /\ new.xctc # <<>> => IsValid(ctx)
          /\ up.fresh /\ cfg.propagate /\ cfg.legacy /\ IsValid(ctx)
                => new.xctc = BuildXCloudTraceContext(ctx)
          /\ cfg.propagate /\ Propagator(cfg) # "noop" /\ IsValid(ctx)
                => new.tp.trace = ctx.trace /\ new.tp.span = ctx.span
        BY <2>1, CallIs DEF new
    <2> QED
        BY <2>1, <2>2, SentIs
<1>8. CASE InvokeRPC
    <2> DEFINE g == InjectTrace(cfg, out, ctx)
               new == OTelClient(cfg, g, ctx, env)
    <2>1. /\ pc = "calling" /\ pc' = "sent" /\ kind = "grpc" /\ out' = out /\ wire' = new
          /\ UNCHANGED <<hop, global, kind, up, cfg, ctx>>
        BY <1>8 DEF InvokeRPC, InjectClientTrace
    <2>2. /\ g \in Headers(hop) /\ g.bin = NoBin
          /\ IsValid(g.tp) => IsValid(ctx) /\ Continues(g.tp, ctx)
          /\ up.fresh => g.xctc \in {<<>>, BuildXCloudTraceContext(ctx)}
          /\ up.fresh /\ g.xctc # <<>> => IsValid(ctx)
          /\ up.fresh /\ cfg.propagate /\ cfg.legacy /\ IsValid(ctx)
                => g.xctc = BuildXCloudTraceContext(ctx)
          /\ cfg.propagate /\ Propagator(cfg) # "noop" /\ IsValid(ctx)
                => g.tp.trace = ctx.trace /\ g.tp.span = ctx.span
        BY <2>1, CallIs
    <2> HIDE DEF g
    <2>3. /\ new.bin = g.bin /\ new.xctc = g.xctc
          /\ \/ new.tp = g.tp
             \/ /\ Propagator(cfg) # "noop"
                /\ IsValid(ctx) => /\ new.tp.span \in {ctx.span, Own("call")}
                                   /\ Continues(new.tp, ctx)
        BY <2>2, OTelClientIs DEF TraceTypes
    <2> HIDE DEF new
    <2>4. IsValid(ctx) /\ IsValid(new.tp) => Continues(new.tp, ctx)
        BY <2>2, <2>3
    <2>5. cfg.propagate /\ Propagator(cfg) # "noop" /\ IsValid(ctx)
             => new.tp.trace = ctx.trace /\ new.tp.span \in {ctx.span, Own("call")}
        BY <2>2, <2>3 DEF Continues
    <2>6. /\ out'.bin = NoBin
          /\ IsValid(out'.tp) => IsValid(ctx) /\ Continues(out'.tp, ctx)
        BY <2>1 DEF CallInv
    <2> QED
        BY <2>1, <2>2, <2>3, <2>4, <2>5, <2>6, SentIs
<1>9. CASE Retry
    <2>1. /\ pc = "sent" /\ pc' = "calling" /\ out' = out /\ up'.sc = ctx'
          /\ up'.fresh => out = NoHeaders
        BY <1>9 DEF Retry
    <2>2. IsValid(ctx) => IsValid(ctx') /\ Continues(ctx', ctx)
        BY <1>9, RetryIs
    <2>3. /\ out.bin = NoBin
          /\ IsValid(out.tp) => IsValid(ctx) /\ Continues(out.tp, ctx)
        BY <2>1 DEF CallInv
    <2>4. IsValid(out.tp) => IsValid(ctx') /\ Continues(out.tp, ctx')
        BY <2>2, <2>3 DEF Continues
    <2> QED
        BY <2>1, <2>3, <2>4 DEF CallInv, HeadersAreCurrent, LegacyAgrees,
            TraceparentIsCurrent, IsValid, Continues
<1>10. CASE Deliver
    BY <1>10 DEF Deliver, CallInv
<1>11. CASE UNCHANGED vars
    <2>1. /\ ParseHTTPXCloudTrace(wire)' = ParseHTTPXCloudTrace(wire)
          /\ ParseGRPCXCloudTrace(wire)' = ParseGRPCXCloudTrace(wire)
        BY <1>11, ParsePrimed
    <2>2. LegacyAgrees'
        BY <1>11, <2>1 DEF CallInv, HeadersAreCurrent, LegacyAgrees, IsValid, Remote
    <2>3. TraceparentIsCurrent'
        BY <1>11 DEF CallInv, HeadersAreCurrent, TraceparentIsCurrent, IsValid,
            Propagator, Own
    <2> QED
        BY <1>11, <2>2, <2>3 DEF CallInv, HeadersAreCurrent, IsValid, Continues,
            BuildXCloudTraceContext
<1> QED
    BY <1>1, <1>2, <1>3, <1>4, <1>5, <1>6, <1>7, <1>8, <1>9, <1>10, <1>11
       DEF Next

-----------------------------------------------------------------------------
(* The next service.                                                       *)

(* A request arrives with the headers that its caller made.                *)
LEMMA ArriveStep ==
    TraceTypes /\ CallInv /\ ArriveInv /\ [Next]_vars
    => ArriveInv'
<1> SUFFICES ASSUME TraceTypes, CallInv, ArriveInv, [Next]_vars
             PROVE  ArriveInv'
    OBVIOUS
<1> USE DEF ArriveInv, Arriving, Leaving
<1>1. CASE EnsurePropagation
    BY <1>1 DEF EnsurePropagation, IsValid, Continues, BuildXCloudTraceContext
<1>2. CASE SetTextMapPropagator
    BY <1>2 DEF SetTextMapPropagator, IsValid, Continues, BuildXCloudTraceContext
<1>3. CASE Serve
    BY <1>3 DEF Serve, IsValid, Continues, BuildXCloudTraceContext
<1>4. CASE StartSpan
    BY <1>4 DEF StartSpan, IsValid, Continues, BuildXCloudTraceContext
<1>5. CASE Log
    BY <1>5 DEF Log, IsValid, Continues, BuildXCloudTraceContext
<1>6. CASE PrepareCall
    BY <1>6 DEF PrepareCall
<1>7. CASE RoundTrip
    BY <1>7 DEF RoundTrip
<1>8. CASE InvokeRPC
    BY <1>8 DEF InvokeRPC
<1>9. CASE Retry
    BY <1>9 DEF Retry
<1>10. CASE Deliver
    <2>1. hdr' = wire /\ up' = up /\ pc = "sent"
        BY <1>10 DEF Deliver
    <2>2. /\ up.sc = ctx /\ wire.bin = NoBin
          /\ IsValid(ctx) /\ IsValid(wire.tp) => Continues(wire.tp, ctx)
          /\ up.fresh => wire.xctc \in {<<>>, BuildXCloudTraceContext(ctx)}
        BY <2>1 DEF CallInv
    <2> QED
        BY <2>1, <2>2 DEF IsValid, Continues, BuildXCloudTraceContext
<1>11. CASE UNCHANGED vars
    BY <1>11
<1> QED
    BY <1>1, <1>2, <1>3, <1>4, <1>5, <1>6, <1>7, <1>8, <1>9, <1>10, <1>11
       DEF Next

(* A service goes on with the trace that it reads.                         *)
LEMMA ContinuesStep ==
    TraceTypes /\ ArriveInv /\ TraceContinues /\ [Next]_vars
    => TraceContinues'
<1> SUFFICES ASSUME TraceTypes, ArriveInv, TraceContinues, [Next]_vars
             PROVE  TraceContinues'
    OBVIOUS
<1> USE DEF TraceContinues, ReadsTraceparent, ReadsLegacy, SpanFirst
<1>1. CASE EnsurePropagation
    BY <1>1 DEF EnsurePropagation
<1>2. CASE SetTextMapPropagator
    BY <1>2 DEF SetTextMapPropagator
<1>3. CASE Serve
    <2>1. PICK sampled \in BOOLEAN : ctx' = ServerContext(kind, cfg', hdr, env', sampled)
        BY <1>3 DEF Serve
    <2>2. pc = "boot" /\ UNCHANGED <<hop, global, kind, hdr, up>>
        BY <1>3 DEF Serve
    <2>3. cfg'.otel \in {"off", "noop", "sdk"}
        <3>1. cfg' \in (IF kind = "http"
                        THEN {ApplyHTTPOptions(o, t) : o \in HTTPServerOptions,
                                                       t \in TrustEnv}
                        ELSE {ApplyGRPCOptions(o) : o \in GRPCServerOptions})
            BY <1>3 DEF Serve
        <3>2. \/ \E o \in HTTPServerOptions, t \in TrustEnv :
                    cfg' = ApplyHTTPOptions(o, t)
              \/ \E o \in GRPCServerOptions : cfg' = ApplyGRPCOptions(o)
            BY <3>1
        <3> QED
            BY <3>2, OTelModes
    <2>4. Propagator(cfg)' = Propagator(cfg')
        BY <2>2 DEF Propagator
    <2> DEFINE first == kind = "grpc" /\ cfg'.otel = "sdk" /\ ~env'.filtered
    <2> SUFFICES ASSUME hop > 1, IsValid(up.sc),
                        cfg'.propagate, ~cfg'.public, ~env'.outer,
                        \/ /\ IsValid(hdr.tp) /\ ~env'.injected
                           /\ Propagator(cfg') # "noop" \/ (kind = "grpc" /\ ~first)
                        \/ /\ hdr.xctc # <<>> /\ up.fresh
                           /\ Propagator(cfg') = "composite" \/ ~first
                 PROVE  Good(ctx', up.sc)
        BY <2>2, <2>4 DEF Good, Continues, IsValid
    <2>5. /\ hdr.bin = NoBin /\ Tells(hdr, up.sc)
          /\ up.fresh /\ hdr.xctc # <<>> => Legacy(hdr, up.sc)
        BY <2>2 DEF ArriveInv, Arriving, Tells, Legacy
    <2>6. hdr \in Headers(hop - 1) /\ up.sc \in SpanContexts(hop)
        BY DEF TraceTypes
    <2>7. CASE kind = "http"
        <3>1. \/ IsValid(hdr.tp) /\ Propagator(cfg') # "noop" /\ ~env'.injected
              \/ Legacy(hdr, up.sc)
            BY <2>5, <2>7
        <3>2. Good(HTTPServerContext(cfg', hdr, env', sampled), up.sc)
            BY <2>3, <2>5, <2>6, <3>1, HTTPContinues
        <3> QED
            BY <2>1, <2>7, <3>2 DEF ServerContext
    <2>8. CASE kind = "grpc"
        <3>1. LET sdk == cfg'.otel = "sdk" /\ ~env'.filtered
              IN  \/ IsValid(hdr.tp) /\ (Propagator(cfg') # "noop" \/ ~sdk)
                  \/ Legacy(hdr, up.sc) /\ (Propagator(cfg') = "composite" \/ ~sdk)
            BY <2>5, <2>8
        <3>2. Good(GRPCServerContext(cfg', hdr, env', sampled), up.sc)
            BY <2>3, <2>5, <2>6, <3>1, GRPCContinues
        <3> QED
            BY <2>1, <2>8, <3>2 DEF ServerContext
    <2> QED
        BY <2>7, <2>8 DEF TraceTypes
<1>4. CASE StartSpan
    <2>1. Own("own")' = Own("own")
        BY <1>4 DEF StartSpan, Own
    <2>2. \E t : <<t, Own("own")>> \in started'
        BY <1>4 DEF StartSpan
    <2> QED
        BY <2>1, <2>2
<1>5. CASE Log
    BY <1>5 DEF Log, Propagator, IsValid, Own
<1>6. CASE PrepareCall
    BY <1>6 DEF PrepareCall
<1>7. CASE RoundTrip
    BY <1>7 DEF RoundTrip
<1>8. CASE InvokeRPC
    BY <1>8 DEF InvokeRPC
<1>9. CASE Retry
    BY <1>9 DEF Retry
<1>10. CASE Deliver
    BY <1>10 DEF Deliver
<1>11. CASE UNCHANGED vars
    BY <1>11 DEF Propagator, IsValid, Own
<1> QED
    BY <1>1, <1>2, <1>3, <1>4, <1>5, <1>6, <1>7, <1>8, <1>9, <1>10, <1>11
       DEF Next

-----------------------------------------------------------------------------
(* The inductive invariant.                                                *)

(* A request from outside, and nothing has happened yet.                   *)
LEMMA InvInit == Init => IInv
<1> SUFFICES ASSUME Init PROVE IInv
    OBVIOUS
<1> USE DEF Init
<1>1. 1 \in Nat \ {0} /\ hop = 1 /\ hop - 1 = 0 /\ pc = "boot"
    OBVIOUS
<1>2. /\ NoSC \in SpanContexts(hop) /\ NoHeaders \in Headers(hop)
    BY <1>1, OlderIs
<1>3. hdr \in Headers(hop - 1)
    BY <1>1, TraceAssumption
<1>4. TraceTypes
    BY <1>1, <1>2, <1>3 DEF TraceTypes, Arriving, Leaving
<1>5. SpanInv /\ TraceContinues /\ AllowInv /\ CallInv /\ ArriveInv
    BY <1>1 DEF SpanInv, TraceContinues, AllowInv, OnlyAllowedTraces,
        UntrustedStaysOut, SilentWhenOff, CallInv, ArriveInv, Arriving, Leaving
<1> QED
    BY <1>4, <1>5 DEF IInv

(* Every step preserves it.                                                *)
LEMMA InvStep == IInv /\ [Next]_vars => IInv'
<1>1. IInv /\ [Next]_vars => TraceTypes' /\ SpanInv' /\ AllowInv'
    BY TraceTypesStep, SpanStep, AllowStep DEF IInv
<1>2. IInv /\ [Next]_vars => CallInv' /\ ArriveInv' /\ TraceContinues'
    BY CallStep, ArriveStep, ContinuesStep DEF IInv
<1> QED
    BY <1>1, <1>2 DEF IInv

-----------------------------------------------------------------------------
(* Theorems.                                                               *)

(* The inductive invariant holds in every reachable state, in a chain of   *)
(* any length, for any options and any headers from outside.               *)
THEOREM TraceInvariance == Spec => []IInv
<1>1. Init => IInv
    BY InvInit
<1>2. IInv /\ [Next]_vars => IInv'
    BY InvStep
<1> QED
    BY <1>1, <1>2, PTL DEF Spec

(* A span that an entry or a request's logger puts beside a Cloud Trace    *)
(* name was started by this process in that trace (buildTraceAttrSet,      *)
(* applyTrace).                                                            *)
THEOREM SpansAreOwn == Spec => []SpanIsOwn
<1>1. IInv => SpanIsOwn
    BY DEF IInv, SpanInv, SpanIsOwn
<1> QED
    BY <1>1, TraceInvariance, PTL

(* Only a trace that the configuration lets in is taken over, and none is  *)
(* sent that it keeps back (shouldExtractRemoteSpanContext,                *)
(* WithTracePropagation).                                                  *)
THEOREM TracesAreAllowed == Spec => []OnlyAllowedTraces
<1>1. IInv => OnlyAllowedTraces
    BY DEF IInv, AllowInv
<1> QED
    BY <1>1, TraceInvariance, PTL

(* A trace goes on through every service that propagates it, with its      *)
(* sampling decision, whichever of HTTP and gRPC carries it and whichever  *)
(* of the two headers is read (ensureSpanContext, ensureServerSpanContext).*)
THEOREM TracesContinue == Spec => []TraceContinues
<1>1. IInv => TraceContinues
    BY DEF IInv
<1> QED
    BY <1>1, TraceInvariance, PTL

(* The headers of a call name one trace and the span of that very attempt  *)
(* (injectTrace, injectClientTrace).                                       *)
THEOREM CallHeadersAreCurrent == Spec => []HeadersAreCurrent
<1>1. IInv => HeadersAreCurrent
    BY DEF IInv, CallInv, HeadersAreCurrent, LegacyAgrees, TraceparentIsCurrent, Leaving
<1> QED
    BY <1>1, TraceInvariance, PTL
=============================================================================
