---------------------------- MODULE JSONHandler ----------------------------
(***************************************************************************)
(* json_handler.go and what it is built from: json_payload.go, exporter.go, *)
(* levels.go, errorreporting.go, stack.go and http_request.go.             *)
(*                                                                         *)
(* Goroutines log through handlers derived from one jsonHandler.  A call   *)
(* borrows a payloadState from a pool, walks the handler's and the         *)
(* record's attributes into maps that it borrows from that state, adds     *)
(* slogcp's own fields, and exports the entry, or encodes it into a pooled *)
(* buffer and writes it under the mutex that derived handlers share.       *)
(*                                                                         *)
(* Maps are references into a heap, as in Go: an attribute whose value is  *)
(* a map of the application puts a reference to that map in the payload.   *)
(***************************************************************************)
EXTENDS Integers, Sequences, FiniteSets, SequencesExt, TLC

CONSTANTS
    Procs,          \* goroutines that log
    Records,        \* records, 1..n
    Configs,        \* the configurations to start from
    Loggers,        \* the derivations that lead to a logger
    Inputs,         \* what a record may be
    MaxStackFrames  \* maxStackFrames

Labels == "labels"      \* LabelsGroup
Secret == "secret"      \* the key that the application's ReplaceAttr drops

(* An attribute is a leaf under the groups of its path.  Its kind: a plain *)
(* value; an error without or with a stack of its own; an *HTTPRequest; a  *)
(* map of the application; a value that JSON never, or not always, can     *)
(* encode; one that resolves to nil.                                       *)
Kinds == {"plain", "err", "errstack", "http", "app", "bad", "flaky", "nil"}
Attrs == [path : Seq(STRING), key : STRING, kind : Kinds]

WellFormed ==
    /\ Records \subseteq Nat \ {0} /\ MaxStackFrames \in Nat \ {0}
    /\ \A in \in Inputs : \A i \in DOMAIN in.attrs : in.attrs[i] \in Attrs
ASSUME JSONAssumption == WellFormed

(* Maps are named by the payloadState they belong to (0: the application)  *)
(* and a number: 0 the root, -1 the labels, 1.. those borrowed for groups. *)
NoRef == <<-1, 0>>
App   == <<0, 0>>       \* a map of the application ...
Inner == <<0, 1>>       \* ... and an empty map inside it
Root(s)  == <<s, 0>>
LabelMap(s) == <<s, -1>>
NoKeys == [k \in {} |-> 0]

(* A value in a map: a reference, or a leaf that came from a record (its   *)
(* number), from the handler's attributes (0) or from slogcp (-1).         *)
Leaf(kind, of) == [kind |-> kind, of |-> of, ref |-> NoRef]
Ref(m) == [kind |-> "map", of |-> 0, ref |-> m]

States == 1..Cardinality(Procs)

VARIABLES
    cfg,    \* the handlerConfig
    heap,   \* the maps: [keys -> values]
    ps,     \* payloadStates: free and used maps, and how many it has made
    pool,   \* payloadStatePool
    bufs,   \* byte buffers: what has been staged in them
    bufPool,\* jsonBufferPool
    mu,     \* who holds each mutex
    hreq,   \* *HTTPRequests: is the *http.Request attached, and copied?
    call,   \* the call of Handle each goroutine is in
    fate,   \* what became of each record
    out,    \* what the writer or the exporter received
    warned, \* how often an unknown project was reported
    crashed \* the process died of a stack overflow

vars == <<cfg, heap, ps, pool, bufs, bufPool, mu, hreq, call, fate, out,
          warned, crashed>>

-----------------------------------------------------------------------------
(* Deriving handlers.                                                      *)

RootHandler == [mu |-> 0, attrs |-> <<>>, groups |-> <<>>]

WithAttrs(h, as) ==
    [h EXCEPT !.attrs = @ \o [i \in DOMAIN as |->
                                [as[i] EXCEPT !.path = h.groups \o @]]]
WithGroup(h, name) ==
    IF name = "" THEN h ELSE [h EXCEPT !.groups = Append(@, name)]

(* A logger is a sequence of steps: With(attributes) or WithGroup(name).   *)
Derive(steps) ==
    FoldLeft(LAMBDA h, st : IF st.op = "attrs" THEN WithAttrs(h, st.attrs)
                            ELSE WithGroup(h, st.name),
             RootHandler, steps)

(* However a logger was derived, it writes under the mutex of the root:    *)
(* both steps keep it.                                                     *)
MutexIsShared == \A l \in Loggers : Derive(l).mu = RootHandler.mu
ASSUME MutexAssumption == MutexIsShared

-----------------------------------------------------------------------------
(* levels.go and stack.go.                                                 *)

SeverityDescriptors ==
    <<[threshold |-> -4, name |-> "DEBUG"], [threshold |-> 0, name |-> "INFO"],
      [threshold |-> 2, name |-> "NOTICE"], [threshold |-> 4, name |-> "WARNING"],
      [threshold |-> 8, name |-> "ERROR"], [threshold |-> 12, name |-> "CRITICAL"],
      [threshold |-> 16, name |-> "ALERT"], [threshold |-> 20, name |-> "EMERGENCY"],
      [threshold |-> 30, name |-> "DEFAULT"]>>
LevelDefault == 30

DescriptorForLevel(level) ==
    LET S == {i \in DOMAIN SeverityDescriptors :
                level >= SeverityDescriptors[i].threshold}
    IN SeverityDescriptors[IF S = {} THEN 1
                           ELSE CHOOSE i \in S : \A j \in S : j <= i]
Severity(level) == DescriptorForLevel(level).name

Enabled(level) == level >= cfg.minLevel

StackTraceComparisonLevel(level) == IF level = LevelDefault THEN 0 ELSE level
ShouldCaptureStack(level) ==
    /\ cfg.stacks
    /\ StackTraceComparisonLevel(level)
         >= StackTraceComparisonLevel(cfg.stackLevel)

(* A frame is "app", "internal" (slogcp, log/slog, runtime), "goexit" or   *)
(* "" (no function name).                                                  *)
SkipInternalStackFrame(f) == f \in {"internal", "goexit"}

TrimStackPCs(pcs) ==
    LET keep == {i \in DOMAIN pcs : ~SkipInternalStackFrame(pcs[i])}
    IN IF keep = {} THEN <<>>
       ELSE SubSeq(pcs, CHOOSE i \in keep : \A j \in keep : i <= j, Len(pcs))
FormatPCsToStackString(pcs) ==
    SelectSeq(pcs, LAMBDA f : f \notin {"goexit", ""})
CaptureStack(frames) ==
    LET pcs == SubSeq(frames, 1, IF Len(frames) < MaxStackFrames
                                 THEN Len(frames) ELSE MaxStackFrames)
        trimmed == TrimStackPCs(pcs)
    IN FormatPCsToStackString(IF trimmed = <<>> THEN pcs ELSE trimmed)

-----------------------------------------------------------------------------
(* errorreporting.go: the attributes that ReportError adds.                *)

Top(key, kind) == [path |-> <<>>, key |-> key, kind |-> kind]

ErrorReportingAttrs(in) ==
    (IF in.service \/ cfg.service THEN <<Top("serviceContext", "plain")>>
     ELSE <<>>)
    \o (IF in.frames # <<>>
        THEN <<Top("stack_trace", "plain"), Top("context", "plain")>> ELSE <<>>)
    \o (IF in.message THEN <<Top("message", "plain")>> ELSE <<>>)

RecordAttrs(in) ==
    IF in.report
    THEN <<Top("error", "err")>> \o ErrorReportingAttrs(in) \o in.attrs
    ELSE in.attrs

-----------------------------------------------------------------------------
(* payloadBuilder.  A walk w holds the maps, what the state has free and   *)
(* in use, and where it stands: the current map, inside labels or not.     *)

BorrowMap(w) ==
    LET reuse == w.free # <<>>
        m == IF reuse THEN Last(w.free) ELSE <<w.st, w.made + 1>>
    IN [w EXCEPT !.free = IF reuse THEN Front(@) ELSE @,
                 !.made = IF reuse THEN @ ELSE @ + 1,
                 !.used = Append(@, m),
                 !.heap = (m :> NoKeys) @@ @,
                 !.cur  = m]

(* ensureGroupMap: a map that is already there is used, whoever made it.   *)
EnsureGroupMap(w, key) ==
    LET here == w.heap[w.cur]
        b == BorrowMap(w)
    IN IF key \in DOMAIN here /\ here[key].ref # NoRef
       THEN [w EXCEPT !.cur = here[key].ref]
       ELSE [b EXCEPT !.heap[w.cur] = (key :> Ref(b.cur)) @@ @]

OpenGroups(w, groups) ==
    FoldLeft(LAMBDA v, g : IF g = Labels THEN [v EXCEPT !.inLabels = TRUE]
                           ELSE EnsureGroupMap(v, g),
             [w EXCEPT !.cur = Root(w.st), !.inLabels = FALSE], groups)

CaptureFirstError(w, kind) ==
    IF w.err = "none" /\ kind \in {"err", "errstack"}
    THEN [w EXCEPT !.err = kind] ELSE w

(* addLabel: obtainLabels clears the state's label map at its first use.   *)
AddLabel(w, key, of) ==
    LET have == IF w.labels THEN w.heap[LabelMap(w.st)] ELSE NoKeys
    IN [w EXCEPT !.labels = TRUE,
                 !.heap = (LabelMap(w.st) :>
                             ((key :> Leaf("plain", of)) @@ have)) @@ @]

(* resolveSlogValueWithRaw: what a leaf becomes in the payload.            *)
Resolve(kind, of) ==
    CASE kind = "app" -> Ref(App)
      [] kind \in {"err", "errstack", "http"} -> Leaf("plain", of)
      [] OTHER -> Leaf(kind, of)

HandleLeafAttr(w, a, of) ==
    IF a.kind = "nil" THEN w
    ELSE IF w.inLabels THEN AddLabel(w, a.key, of)
    ELSE [w EXCEPT !.heap[w.cur] = (a.key :> Resolve(a.kind, of)) @@ @]

(* normalizeAttr: ReplaceAttr empties the attribute with the secret key.   *)
Dropped(a) == cfg.replace /\ a.key = Secret

(* walkAttr.  Only without ReplaceAttr is an httpRequest still a LogValuer *)
(* that can be lifted out of the attributes, and only the first one is.    *)
WalkAttr(w, a, of) ==
    LET v == OpenGroups(w, a.path) IN
    CASE a.kind = "http" /\ ~cfg.replace /\ v.req = -1
            -> [v EXCEPT !.req = of]
      [] Dropped(a) -> v
      [] OTHER -> HandleLeafAttr(CaptureFirstError(v, a.kind), a, of)

ApplyBaseAttrs(w, h) ==
    FoldLeft(LAMBDA v, a : WalkAttr(v, a, 0), w, h.attrs)
ApplyRecordAttrs(w, h, in, r) ==
    FoldLeft(LAMBDA v, a : WalkAttr(v, [a EXCEPT !.path = h.groups \o @], r),
             OpenGroups(w, h.groups), RecordAttrs(in))

(* The maps that a map leads to.                                           *)
Kids(hp, S) == UNION {{hp[x][k].ref : k \in DOMAIN hp[x]} : x \in S} \ {NoRef}
Below(hp, m) ==
    FoldLeft(LAMBDA S, i : S \cup Kids(hp, S), Kids(hp, {m}),
             [i \in 1..Cardinality(DOMAIN hp) |-> i])
Cyclic(hp, m) == \E x \in {m} \cup Below(hp, m) : x \in Below(hp, x)

(* pruneEmptyMaps, on every map the root leads to: the entries that remain *)
(* lead to a leaf.                                                         *)
PruneEmptyMaps(hp, root) ==
    LET HasLeaf(m) == \E x \in {m} \cup Below(hp, m) :
                        \E k \in DOMAIN hp[x] : hp[x][k].ref = NoRef
        keep(m) == {k \in DOMAIN hp[m] :
                      hp[m][k].ref = NoRef \/ HasLeaf(hp[m][k].ref)}
    IN [m \in DOMAIN hp |->
          IF m = root \/ m \in Below(hp, root)
          THEN [k \in keep(m) |-> hp[m][k]] ELSE hp[m]]

(* resolveErrorAndStack: <<stack_trace's kind, the frames it shows>>.      *)
ErrorStack(err, in) ==
    IF err = "errstack" THEN <<"origin", <<>>>>
    ELSE IF ShouldCaptureStack(in.level) /\ in.frames # <<>>
    THEN <<"captured", CaptureStack(in.frames)>>
    ELSE <<"none", <<>>>>

(* buildPayload: prepare clears the root; labels join it at the end.       *)
Build(s, h, in, r) ==
    LET w0 == [st |-> s, free |-> ps[s].free, used |-> <<>>,
               made |-> ps[s].made, heap |-> [heap EXCEPT ![Root(s)] = NoKeys],
               cur |-> Root(s), inLabels |-> FALSE, labels |-> FALSE,
               req |-> -1, err |-> "none"]
    IN ApplyRecordAttrs(ApplyBaseAttrs(w0, h), h, in, r)
Finished(w) ==
    LET hp == PruneEmptyMaps(w.heap, Root(w.st))
    IN IF w.labels
       THEN [hp EXCEPT ![Root(w.st)] = (Labels :> Ref(LabelMap(w.st))) @@ @]
       ELSE hp

-----------------------------------------------------------------------------
(* What slogcp adds, as the keys and kinds of the root's own fields.       *)

TraceFields(in) ==
    CASE in.trace = "none" -> NoKeys
      [] in.trace # "none" /\ cfg.project = "unknown" ->
            "otel.trace_id" :> "raw" @@ "otel.span_id" :> in.trace
      [] OTHER -> "trace" :> cfg.project
                  @@ (IF in.trace = "local" THEN "spanId" :> in.trace
                      ELSE NoKeys)

OwnFields(in, err, stack, req) ==
    "severity" :> Severity(in.level)
    @@ "message" :> (IF err = "none" THEN "message" ELSE "message: error")
    @@ (IF cfg.emitTime THEN "time" :> "time" ELSE NoKeys)
    @@ (IF cfg.addSource THEN "sourceLocation" :> "source" ELSE NoKeys)
    @@ TraceFields(in)
    @@ (IF err # "none" THEN "error_type" :> "type" ELSE NoKeys)
    @@ (IF stack # "none" THEN "stack_trace" :> stack ELSE NoKeys)
    @@ (IF req # -1
        THEN "httpRequest" :> (IF hreq[req].copied THEN "whole" ELSE "blank")
        ELSE NoKeys)

(* emitEntry up to the dispatch: what is already under one of these keys   *)
(* is overwritten; a serviceContext that is already there is kept.         *)
EnrichKeeps(root, own) ==
    root @@ [k \in DOMAIN own |-> Leaf(own[k], -1)]
Enriched(root, own) ==
    [k \in DOMAIN own |-> Leaf(own[k], -1)] @@ root
    @@ (IF cfg.service THEN "serviceContext" :> Leaf("runtime", -1) ELSE NoKeys)

(* exportEntry: metadata of the expected type leaves the payload for the   *)
(* fields of the Entry, as do severity and time.                           *)
MetaKeys == {"trace", "spanId", "sourceLocation", Labels, "httpRequest",
             "severity"} \cup (IF cfg.emitTime THEN {"time"} ELSE {})
Promoted(key, v) ==
    /\ key \in MetaKeys
    /\ \/ v.of = -1
       \/ key \in {"severity", "time"}
       \/ key = Labels /\ v.ref # NoRef
       \/ key \in {"trace", "spanId"} /\ v.kind = "plain"

(* The fields a map shows, each with the path that leads to it.            *)
Places(hp, root) ==
    FoldLeft(LAMBDA S, i :
               S \cup UNION {{<<Append(x[1], k), hp[x[2]][k].ref>> :
                              k \in {k \in DOMAIN hp[x[2]] : hp[x[2]][k].ref # NoRef}} :
                             x \in S},
             {<<<<>>, root>>}, <<1, 2, 3, 4>>)
Fields(hp, root) ==
    UNION {{[path |-> Append(x[1], k), kind |-> hp[x[2]][k].kind,
             of |-> hp[x[2]][k].of] :
            k \in {k \in DOMAIN hp[x[2]] : hp[x[2]][k].ref = NoRef}} :
           x \in Places(hp, root)}

Unencodable(fs) == {f \in fs : f.kind = "bad"}
Unreliable(fs)  == {f \in fs : f.kind = "flaky"}

(* The top-level fields that contain them.                                 *)
TopKeys(fs) == {f.path[1] : f \in fs}

(* sanitizeTopLevelJSONValues: the fields whose probe fails are replaced.  *)
Sanitized(root, keys) ==
    [k \in DOMAIN root |-> IF k \in keys THEN Leaf("!ERROR", -1) ELSE root[k]]

-----------------------------------------------------------------------------
(* Handle, step by step.                                                   *)

NoCall == [at |-> "idle", rec |-> 0, in |-> CHOOSE in \in Inputs : TRUE,
           h |-> RootHandler, st |-> 0, buf |-> 0, req |-> -1, err |-> "none", result |-> "nil"]

Init ==
    /\ cfg \in Configs
    /\ heap = [m \in {App, Inner} \cup {Root(s) : s \in States}
                 |-> IF m = App THEN "k" :> Leaf("plain", 0) @@ "e" :> Ref(Inner)
                     ELSE NoKeys]
    /\ ps = [s \in States |-> [free |-> <<>>, used |-> <<>>, made |-> 0]]
    /\ pool = States
    /\ bufs = [b \in States |-> <<>>]
    /\ bufPool = States
    /\ mu = [m \in 0..3 |-> 0]
    /\ hreq = [r \in Records \cup {0} |-> [attached |-> TRUE, copied |-> FALSE]]
    /\ call = [p \in Procs |-> NoCall]
    /\ fate = [r \in Records |-> "new"]
    /\ out = <<>>
    /\ warned = 0
    /\ crashed = FALSE

At(p, where) == ~crashed /\ call[p].at = where
Goto(p, where) == call' = [call EXCEPT ![p].at = where]
Return(p, result) ==
    call' = [call EXCEPT ![p].at = "return", ![p].result = result]

(* Handle's early return.                                                  *)
Disabled(p, r, in) ==
    /\ At(p, "idle") /\ fate[r] = "new" /\ ~Enabled(in.level)
    /\ fate' = [fate EXCEPT ![r] = "disabled"]
    /\ UNCHANGED <<cfg, heap, ps, pool, bufs, bufPool, mu, hreq, call, out,
                   warned, crashed>>

(* payloadStatePool.Get.                                                   *)
Borrow(s) == pool \ {s}

(* Handle up to and with buildPayload.  pruneEmptyMaps never returns from  *)
(* a map that contains itself.                                             *)
Handle(p, r, in, h, s) ==
    /\ At(p, "idle") /\ fate[r] = "new" /\ Enabled(in.level) /\ s \in pool
    /\ LET w == Build(s, h, in, r) IN
       /\ crashed' = Cyclic(w.heap, Root(s))
       /\ heap' = IF crashed' THEN w.heap ELSE Finished(w)
       /\ ps' = [ps EXCEPT ![s] = [free |-> w.free, used |-> w.used,
                                   made |-> w.made]]
       /\ call' = [call EXCEPT ![p] =
                     [NoCall EXCEPT !.rec = r, !.in = in, !.h = h, !.st = s,
                        !.req = w.req, !.err = w.err,
                        !.at = IF w.req = -1 THEN "emit" ELSE "prepare"]]
    /\ fate' = [fate EXCEPT ![r] = "active"]
    /\ pool' = Borrow(s)
    /\ UNCHANGED <<cfg, bufs, bufPool, mu, hreq, out, warned>>

(* PrepareHTTPRequest, which handleHTTPRequestAttr calls where the walk     *)
(* meets the request.  The walk writes to maps of its own call only, and   *)
(* neither reads nor writes a request, so the steps on the shared request  *)
(* may follow it here; a panic in the middle of the walk abandons an entry *)
(* of which nothing was emitted either way.  flattenHTTPRequestToMap asks  *)
(* for req.Request once more, and finds it detached: by then this call or  *)
(* another has got as far as PrepareDetach, and nothing attaches it again. *)
(* First test req.Request, ...                                             *)
PrepareTest(p) ==
    /\ At(p, "prepare")
    /\ Goto(p, IF hreq[call[p].req].attached THEN "load" ELSE "emit")
    /\ UNCHANGED <<cfg, heap, ps, pool, bufs, bufPool, mu, hreq, fate, out,
                   warned, crashed>>

(* Mutant of PrepareCopy: the request is detached first.                   *)
PrepareCopyLate(p) ==
    /\ At(p, "load")
    /\ IF hreq[call[p].req].attached
       THEN Goto(p, "detach") /\ hreq' = [hreq EXCEPT ![call[p].req].attached = FALSE]
       ELSE Return(p, "panic") /\ UNCHANGED hreq
    /\ UNCHANGED <<cfg, heap, ps, pool, bufs, bufPool, mu, fate, out, warned,
                   crashed>>

(* ... load it (another goroutine may have detached it in between, and the *)
(* copy then dereferences nil), and copy its fields ...                    *)
PrepareCopy(p) ==
    /\ At(p, "load")
    /\ IF hreq[call[p].req].attached
       THEN /\ Goto(p, "detach")
            /\ hreq' = [hreq EXCEPT ![call[p].req].copied = TRUE]
       ELSE Return(p, "panic") /\ UNCHANGED hreq
    /\ UNCHANGED <<cfg, heap, ps, pool, bufs, bufPool, mu, fate, out, warned,
                   crashed>>

(* ... and detach it.                                                      *)
PrepareDetach(p) ==
    /\ At(p, "detach") /\ Goto(p, "emit")
    /\ hreq' = [hreq EXCEPT ![call[p].req].attached = FALSE]
    /\ UNCHANGED <<cfg, heap, ps, pool, bufs, bufPool, mu, fate, out, warned,
                   crashed>>

(* emitEntry up to the dispatch; warnUnknownProject is a sync.Once.        *)
Emit(p) ==
    LET c == call[p]
        own == OwnFields(c.in, c.err, ErrorStack(c.err, c.in)[1], c.req)
    IN /\ At(p, "emit")
       /\ IF cfg.writer
          THEN /\ heap' = [heap EXCEPT ![Root(c.st)] = Enriched(@, own)]
               /\ warned' = IF "otel.trace_id" \in DOMAIN own THEN 1 ELSE warned
               /\ Goto(p, IF cfg.exporter THEN "export" ELSE "encode")
          ELSE Return(p, "error") /\ UNCHANGED <<heap, warned>>
       /\ UNCHANGED <<cfg, ps, pool, bufs, bufPool, mu, hreq, fate, out, crashed>>

(* The entry as it is now, for the writer or the exporter.                 *)
Line(p, hp) ==
    [rec |-> call[p].rec, fields |-> Fields(hp, Root(call[p].st)),
     stack |-> ErrorStack(call[p].err, call[p].in)[2],
     in |-> call[p].in, h |-> call[p].h]

Export(p, result) ==
    LET root == heap[Root(call[p].st)]
        meta == {k \in DOMAIN root : Promoted(k, root[k])}
    IN /\ At(p, "export")
       /\ Return(p, result)
       /\ heap' = [heap EXCEPT ![Root(call[p].st)] =
                     [k \in DOMAIN root \ meta |-> root[k]]]
       /\ out' = IF result = "nil"
                 THEN Append(out, [part |-> "entry", staged |-> <<Line(p, heap)>>,
                                   meta |-> meta])
                 ELSE out
       /\ UNCHANGED <<cfg, ps, pool, bufs, bufPool, mu, hreq, fate, warned, crashed>>

(* Mutant of Encode: the buffer is back in the pool before it is written.  *)
EncodePutEarly(p, b, ok) ==
    LET l == Line(p, heap) IN
    /\ At(p, "encode") /\ b \in bufPool
    /\ ok => Unencodable(l.fields) = {}
    /\ ~ok => Unencodable(l.fields) \cup Unreliable(l.fields) # {}
    /\ bufPool' = bufPool
    /\ bufs' = [bufs EXCEPT ![b] = <<IF ok THEN l ELSE [l EXCEPT !.fields = {}]>>]
    /\ call' = [call EXCEPT ![p].buf = b, ![p].at = IF ok THEN "write" ELSE "retry"]
    /\ UNCHANGED <<cfg, heap, ps, pool, mu, hreq, fate, out, warned, crashed>>

(* writeJSONPayload: the first attempt.                                    *)
Encode(p, b, ok) ==
    LET l == Line(p, heap) IN
    /\ At(p, "encode") /\ b \in bufPool
    /\ ok => Unencodable(l.fields) = {}
    /\ ~ok => Unencodable(l.fields) \cup Unreliable(l.fields) # {}
    /\ bufPool' = bufPool \ {b}
    /\ bufs' = [bufs EXCEPT ![b] = <<IF ok THEN l ELSE [l EXCEPT !.fields = {}]>>]
    /\ call' = [call EXCEPT ![p].buf = b, ![p].at = IF ok THEN "write" ELSE "retry"]
    /\ UNCHANGED <<cfg, heap, ps, pool, mu, hreq, fate, out, warned, crashed>>

(* The second attempt: sanitise, discard the staged bytes, encode again.   *)
RetryWith(p, probed, ok, staged) ==
    LET root == Root(call[p].st)
        fs == Fields(heap, root)
        hp == [heap EXCEPT ![root] = Sanitized(@, TopKeys(Unencodable(fs)) \cup probed)]
        l == Line(p, hp)
    IN /\ At(p, "retry")
       /\ probed \subseteq TopKeys(Unreliable(fs))
       /\ ok => Unencodable(l.fields) = {}
       /\ ~ok => Unencodable(l.fields) \cup Unreliable(l.fields) # {}
       /\ heap' = hp
       /\ bufs' = [bufs EXCEPT ![call[p].buf] = IF ok THEN Append(staged, l) ELSE @]
       /\ IF ok THEN Goto(p, "write") ELSE Return(p, "encode error")
       /\ UNCHANGED <<cfg, ps, pool, bufPool, mu, hreq, fate, out, warned, crashed>>

(* Mutant of Retry: the bytes of the first attempt stay in the buffer.     *)
RetryNoReset(p, probed, ok) == RetryWith(p, probed, ok, bufs[call[p].buf])

Retry(p, probed, ok) == RetryWith(p, probed, ok, <<>>)

(* buf.WriteTo(h.writer) between Lock and Unlock; it may fail before or    *)
(* after the writer took the first part.                                   *)
WriteHead(p, ok) ==
    LET m == call[p].h.mu IN
    /\ At(p, "write") /\ mu[m] = 0
    /\ IF ok
       THEN /\ Goto(p, "tail") /\ mu' = [mu EXCEPT ![m] = call[p].rec]
            /\ out' = Append(out, [part |-> "head", staged |-> bufs[call[p].buf],
                                   meta |-> {}])
       ELSE Return(p, "error") /\ UNCHANGED <<mu, out>>
    /\ UNCHANGED <<cfg, heap, ps, pool, bufs, bufPool, hreq, fate, warned, crashed>>

WriteTail(p, ok) ==
    LET m == call[p].h.mu IN
    /\ At(p, "tail")
    /\ mu' = [mu EXCEPT ![m] = 0]
    /\ out' = IF ok THEN Append(out, [part |-> "tail", meta |-> {},
                                      staged |-> bufs[call[p].buf]])
              ELSE out
    /\ Return(p, IF ok THEN "nil" ELSE "error")
    /\ UNCHANGED <<cfg, heap, ps, pool, bufs, bufPool, hreq, fate, warned, crashed>>

(* Mutant of Recycled: every map that is reached is cleared.               *)
RecycledDeep(hp, s) ==
    [m \in DOMAIN hp |-> IF m = Root(s) \/ m \in Below(hp, Root(s)) THEN NoKeys
                         ELSE hp[m]]

(* The deferred calls: the buffer is reset and put back, the state is      *)
(* recycled (its maps are cleared and free) and put back.                  *)
Recycled(hp, s) ==
    [m \in DOMAIN hp |->
       IF m \in {Root(s), LabelMap(s)} \cup ToSet(ps[s].used) THEN NoKeys
       ELSE hp[m]]
Finish(p) ==
    LET c == call[p] IN
    /\ At(p, "return")
    /\ fate' = [fate EXCEPT ![c.rec] = c.result]
    /\ bufs' = IF c.buf = 0 THEN bufs ELSE [bufs EXCEPT ![c.buf] = <<>>]
    /\ bufPool' = bufPool \cup ({c.buf} \ {0})
    /\ heap' = Recycled(heap, c.st)
    /\ ps' = [ps EXCEPT ![c.st].free = @ \o ps[c.st].used, ![c.st].used = <<>>]
    /\ pool' = pool \cup {c.st}
    /\ call' = [call EXCEPT ![p] = NoCall]
    /\ UNCHANGED <<cfg, mu, hreq, out, warned, crashed>>

(* Records are logged in the order of their numbers, and of the pooled     *)
(* buffers, which are all empty, the first is taken.                       *)
Upcoming == {r \in Records : fate[r] = "new" /\ \A q \in Records :
                                q < r => fate[q] # "new"}
Blank == {b \in bufPool : \A c \in bufPool : b <= c}

Step(p) ==
    \/ \E r \in Upcoming, in \in Inputs :
          \/ Disabled(p, r, in)
          \/ \E l \in Loggers, s \in pool : Handle(p, r, in, Derive(l), s)
    \/ PrepareTest(p) \/ PrepareCopy(p) \/ PrepareDetach(p)
    \/ Emit(p)
    \/ \E result \in {"nil", "error"} : Export(p, result)
    \/ \E b \in Blank, ok \in BOOLEAN : Encode(p, b, ok)
    \/ \E probed \in SUBSET TopKeys(Unreliable(Fields(heap, Root(call[p].st)))),
          ok \in BOOLEAN : Retry(p, probed, ok)
    \/ \E ok \in BOOLEAN : WriteHead(p, ok) \/ WriteTail(p, ok)
    \/ Finish(p)

Done == crashed \/ \A p \in Procs : call[p].at = "idle"
Next == (\E p \in Procs : Step(p)) \/ (Done /\ UNCHANGED vars)

Spec == Init /\ [][Next]_vars

-----------------------------------------------------------------------------
(* Properties.                                                             *)

(* The reference for one entry: the handler's and the record's attributes  *)
(* as a list of writes, in order; the groups the handler is in are opened  *)
(* in between, even for a record without attributes.                       *)
Writes(l) ==
    LET own == RecordAttrs(l.in) IN
    [i \in DOMAIN l.h.attrs |-> <<l.h.attrs[i], 0>>]
    \o <<<<[path |-> l.h.groups, key |-> "", kind |-> "nil"], l.rec>>>>
    \o [i \in DOMAIN own |-> <<[own[i] EXCEPT !.path = l.h.groups \o @], l.rec>>]

(* A field is what the last write to its path left there, unless a later   *)
(* one replaced a group above it, or made a group of it.                   *)
AloneFields(l) ==
    LET w == Writes(l)
        a(i) == w[i][1]
        groups(i) == SelectSeq(a(i).path, LAMBDA g : g # Labels)
        path(i) == IF Labels \in ToSet(a(i).path) THEN <<Labels, a(i).key>>
                   ELSE Append(groups(i), a(i).key)
        https == {i \in DOMAIN w : a(i).kind = "http" /\ ~cfg.replace}
        lifted == {i \in https : \A j \in https : i <= j}
        written == {i \in DOMAIN w : a(i).kind # "nil" /\ ~Dropped(a(i))} \ lifted
        lost(i) == \E j \in DOMAIN w :
                     /\ j > i
                     /\ \/ j \in written /\ IsPrefix(path(j), path(i))
                        \/ IsPrefix(path(i), groups(j))
        errs == {i \in written : a(i).kind \in {"err", "errstack"}}
        err == IF errs = {} THEN "none"
               ELSE a(CHOOSE i \in errs : \A j \in errs : i <= j).kind
        req == IF lifted = {} THEN -1 ELSE w[CHOOSE i \in lifted : TRUE][2]
        own == OwnFields(l.in, err, ErrorStack(err, l.in)[1], req)
        fs == {[path |-> IF a(i).kind = "app" /\ path(i)[1] # Labels
                         THEN Append(path(i), "k") ELSE path(i),
                kind |-> IF path(i)[1] # Labels /\ a(i).kind \in {"bad", "flaky"}
                         THEN a(i).kind ELSE "plain",
                of |-> IF a(i).kind = "app" THEN 0 ELSE w[i][2]] :
                 i \in {j \in written : ~lost(j)}}
        all == {f \in fs : f.path[1] \notin DOMAIN own}
               \cup {[path |-> <<k>>, kind |-> own[k], of |-> -1] : k \in DOMAIN own}
    IN IF cfg.service /\ "serviceContext" \notin TopKeys(all)
       THEN all \cup {[path |-> <<"serviceContext">>, kind |-> "runtime", of |-> -1]}
       ELSE all

(* The same with the values under some keys replaced by placeholders.      *)
Marked(fs, keys) ==
    {f \in fs : f.path[1] \notin keys}
    \cup {[path |-> <<k>>, kind |-> "!ERROR", of |-> -1] : k \in keys}

Lines == UNION {ToSet(out[i].staged) : i \in DOMAIN out}

(* Every entry is the one its record alone would have produced, whatever   *)
(* other goroutines did with the pools meanwhile and whatever the pooled   *)
(* maps held before: the attributes that slog's rules leave, slogcp's own  *)
(* fields over them, and a placeholder exactly where a value does not      *)
(* encode (or did not, when probed).  It is staged once.                   *)
LinesAreOwn ==
    /\ \A i \in DOMAIN out : Len(out[i].staged) = 1
    /\ \A l \in Lines :
          LET fs == AloneFields(l)
              bad == IF cfg.exporter THEN {} ELSE TopKeys(Unencodable(fs))
              flaky == IF cfg.exporter THEN {} ELSE TopKeys(Unreliable(fs))
          IN \E S \in SUBSET flaky : l.fields = Marked(fs, bad \cup S)

(* The mutex that derived handlers share keeps lines whole: what ends a    *)
(* line is the rest of what began it.                                      *)
LinesNotTorn ==
    \A i \in DOMAIN out : out[i].part = "tail" =>
        /\ i > 1 /\ out[i - 1].part = "head"
        /\ out[i - 1].staged = out[i].staged

(* Handle's nil means one complete line or one exported entry, and without *)
(* it there is none.                                                       *)
NilMeansWritten ==
    \A r \in Records :
        LET came == {i \in DOMAIN out :
                       /\ out[i].part # "head"
                       /\ \E l \in ToSet(out[i].staged) : l.rec = r}
        IN /\ fate[r] = "nil" => \E i \in came : came = {i}
           /\ fate[r] \notin {"nil", "active"} => came = {}

(* A value that JSON cannot encode costs its own field, at whatever depth, *)
(* and never the entry: only a marshaler that changes its mind does.       *)
BadFieldKeepsEntry ==
    \A p \in Procs : call[p].result = "encode error" =>
        \E i \in DOMAIN Writes(call[p]) : Writes(call[p])[i][1].kind = "flaky"

(* What ReplaceAttr drops is in no entry, under no group, not as a label.  *)
RedactionHolds ==
    cfg.replace => \A l \in Lines : \A f \in l.fields : Last(f.path) # Secret

(* A pooled state or buffer serves one call at a time.                     *)
PoolsExclusive ==
    \A p \in Procs : call[p].at # "idle" =>
        /\ call[p].st \notin pool /\ call[p].buf \notin bufPool
        /\ \A q \in Procs \ {p} :
              call[q].at # "idle" => /\ call[q].st # call[p].st
                                     /\ call[q].buf \in {0} \cup (States \ {call[p].buf})

(* The maps of a state are reached from its own payload only, never from   *)
(* another call's and never from a map that the application keeps.         *)
MapsExclusive ==
    /\ \A s \in States : \A m \in Below(heap, Root(s)) : m[1] \in {0, s}
    /\ Below(heap, App) \subseteq {Inner}

(* Logging a map of the application takes nothing out of it but the empty  *)
(* maps that pruneEmptyMaps removes, and puts nothing into it.             *)
AppMapOnlyPruned ==
    /\ "k" \in DOMAIN heap[App] /\ heap[App]["k"] = Leaf("plain", 0)
    /\ DOMAIN heap[App] \subseteq {"k", "e"}

(* An httpRequest field has the values of the request it was made from,    *)
(* also when goroutines share the *HTTPRequest and one of them detaches    *)
(* the request while another prepares it.                                  *)
HTTPRequestIsWhole ==
    \A l \in Lines : \A f \in l.fields : f.kind # "blank"

(* A captured stack begins at the application's frame that logged, if that *)
(* is among the frames captured, and not inside slogcp or the runtime.     *)
StackStartsInApp ==
    \A l \in Lines :
        /\ \E f \in l.fields : f.path = <<"stack_trace">> /\ f.kind = "captured"
        /\ \E i \in DOMAIN l.in.frames : i <= MaxStackFrames /\ l.in.frames[i] = "app"
        => l.stack # <<>> /\ l.stack[1] = "app"

(* Goroutines that log at once stay out of each other's way: each has its  *)
(* state and buffer to itself, its line comes out in one piece under the   *)
(* mutex that derived handlers share, and what Handle returns is about     *)
(* that line: nil if it came out, once, and an error if not.               *)
CallsStayApart == PoolsExclusive /\ LinesNotTorn /\ NilMeansWritten

(* What comes out is right: every entry is its record's own, whole, with   *)
(* what ReplaceAttr drops left out and the stack where it belongs, and it  *)
(* is not given up on account of a value that can be left out.             *)
EntryIsRight ==
    LinesAreOwn /\ RedactionHolds /\ StackStartsInApp /\ BadFieldKeepsEntry

(* The maps of pools, calls and application stay apart, and no map comes   *)
(* to contain itself.                                                      *)
MapsStayApart == MapsExclusive /\ AppMapOnlyPruned /\ ~crashed

(* An entry shows nothing that another record logged.                      *)
EntryIsolation ==
    \A l \in Lines : \A f \in l.fields : f.of \in {l.rec, 0, -1}
=============================================================================
