--------------------------- MODULE HandlerConfig ---------------------------
(***************************************************************************)
(* NewHandler and NewHandlerWithExporter of handler.go and exporter.go:    *)
(* the options are collected in the order of the call, the environment is  *)
(* read, the options override it, the output is opened, the trace project  *)
(* is settled and the pipeline is assembled, with the configuration of the *)
(* asynchronous wrapper built by slogcpasync.  A handler that was built is *)
(* then derived from and logged through, so that the fan-out to additional *)
(* sinks and the shared level are part of the module.                      *)
(***************************************************************************)
EXTENDS Integers, Sequences, FiniteSets, SequencesExt

CONSTANTS
    MaxSteps,   \* bound: variables set, options given, uses made
    Plain       \* settings no other depends on: each counts for two steps

ASSUME ConfigAssumption == MaxSteps \in Nat

VARIABLES
    env,        \* the environment variables
    runtime,    \* DetectRuntimeInfo: what it found out
    exporter,   \* whether NewHandlerWithExporter was called
    defaultW,   \* the defaultWriter argument, "none" for nil
    opts,       \* the options given so far, in order
    o,          \* the options struct they have built
    phase,      \* "options", then "failed" or "built"
    file,       \* the log file: "none" or "open"
    levelVar,   \* the LevelVar of the program, shared by WithLevelVar
    h,          \* what the construction produced
    spent,      \* steps of the bound used up
    queued,     \* the record the asynchronous wrapper holds, <<>> for none
    delivery    \* the last record delivered, where it passed and got to

vars == <<env, runtime, exporter, defaultW, opts, o, phase, file, levelVar,
          h, spent, queued, delivery>>
inputs == <<env, runtime, exporter, defaultW>>

(* An environment variable is unset, holds a value its parser rejects, or  *)
(* a value it accepts; an option that was given holds a value.             *)
Unset  == [st |-> "unset"]
Bad    == [st |-> "bad"]
Val(x) == [st |-> "ok", val |-> x]
Or(e, current) == IF e.st = "ok" THEN e.val ELSE current

-----------------------------------------------------------------------------
(* Values.  Two of slog's levels and the threshold of a stricter sink.     *)
LevelDebug == -4
LevelInfo  == 0
LevelWarn  == 4
LevelError == 8

(* A project id as it may be written, and what normalizeTraceProjectID     *)
(* makes of it: "" when it is not valid.                                   *)
Project(id, form) == [id |-> id, form |-> form]
NoProject == Project("", "empty")
Normalized(p) == IF p.form \in {"plain", "prefixed"} THEN p.id ELSE ""

(* Writers: the standard streams, an *os.File and a SwitchableWriter over  *)
(* one that belong to the program, another io.Closer of the program,       *)
(* io.Discard, and the SwitchableWriter over the file the handler opened.  *)
StdStreams  == {"stdout", "stderr"}
Files       == {"osfile", "switch", "own"}
Closers     == {"osfile", "switch", "closer", "own"}
UserWriters == {"switch", "closer"}

(* The settings that an option overrides one by one, with the arguments    *)
(* that are tried.                                                         *)
SettingArgs ==
    [Level                 |-> {LevelDebug, LevelError},
     AddSource             |-> {TRUE},
     EmitTimeField         |-> BOOLEAN,
     StackTraceEnabled     |-> {TRUE},
     StackTraceLevel       |-> {LevelWarn},
     TraceProjectID        |-> {Project("opt", "prefixed"),
                                Project("", "invalid"), NoProject},
     TraceDiagnostics      |-> {"off", "strict"},
     UseShortSeverityNames |-> {FALSE},
     CloseTimeoutPolicy    |-> {"return", "unknown"}]
Settings == DOMAIN SettingArgs

(* The variables loadConfigFromEnv, asyncOnFileTargetsFromEnv and          *)
(* slogcpasync's applyEnv read, with values their parsers accept.          *)
EnvArgs ==
    [SLOGCP_LEVEL             |-> {LevelError},
     LOG_LEVEL                |-> {LevelDebug},
     SLOGCP_SOURCE_LOCATION   |-> {TRUE},
     SLOGCP_TIME              |-> BOOLEAN,
     SLOGCP_STACK_TRACES      |-> {TRUE},
     SLOGCP_STACK_TRACE_LEVEL |-> {LevelWarn},
     SLOGCP_SEVERITY_ALIASES  |-> {TRUE},
     SLOGCP_TRACE_DIAGNOSTICS |-> {"off", "strict"},
     SLOGCP_TRACE_PROJECT_ID  |-> {Project("env1", "plain"),
                                   Project("", "invalid")},
     SLOGCP_PROJECT_ID        |-> {Project("env2", "plain")},
     SLOGCP_GCP_PROJECT       |-> {Project("env3", "prefixed")},
     GOOGLE_CLOUD_PROJECT     |-> {Project("env4", "plain")},
     SLOGCP_TARGET            |-> {"stdout", "stderr", "file"},
     SLOGCP_ASYNC_ON_FILE     |-> BOOLEAN,
     SLOGCP_ASYNC             |-> {FALSE},
     SLOGCP_ASYNC_WORKERS     |-> {0, 2},
     SLOGCP_ASYNC_QUEUE_SIZE  |-> {-1, 0},
     SLOGCP_ASYNC_DROP_MODE   |-> {"drop_oldest"}]
EnvVars == DOMAIN EnvArgs
ProjectVars == <<"SLOGCP_TRACE_PROJECT_ID", "SLOGCP_PROJECT_ID",
                 "SLOGCP_GCP_PROJECT", "GOOGLE_CLOUD_PROJECT">>

(* What detection may have found: whether the platform is a managed one    *)
(* (prefersManagedGCPDefaults), and the project.                           *)
Runtimes == {[managed |-> FALSE, project |-> ""],
             [managed |-> TRUE,  project |-> ""],
             [managed |-> TRUE,  project |-> "detected"]}

-----------------------------------------------------------------------------
(* The options struct, before any option.                                  *)
NoOptions ==
    [set      |-> [s \in Settings |-> Unset],
     writer   |-> "none",   filePath |-> Unset,  external |-> FALSE,
     levelVar |-> FALSE,    mws      |-> <<>>,   sinks    |-> <<>>,
     async    |-> FALSE,    onFile   |-> FALSE,  asyncOpts |-> <<>>,
     groups   |-> <<>>,     attrs    |-> <<>>]

Init ==
    /\ env = [v \in EnvVars |-> Unset]
    /\ runtime \in Runtimes
    /\ exporter \in BOOLEAN
    /\ defaultW \in IF exporter THEN {"none"} ELSE {"none", "osfile"}
    /\ opts = <<>>
    /\ o = NoOptions
    /\ phase = "options"
    /\ file = "none"
    /\ levelVar = LevelWarn
    /\ h = <<>>
    /\ spent = 0
    /\ queued = <<>>
    /\ delivery = <<>>

Spend(n) == spent + n <= MaxSteps /\ spent' = spent + n
Setting(name) == phase = "options" /\ Spend(IF name \in Plain THEN 2 ELSE 1)

(* The program's environment has a variable set.                           *)
SetEnv(v, e) ==
    /\ Setting(v)
    /\ opts = <<>>
    /\ env[v] = Unset
    /\ env' = [env EXCEPT ![v] = e]
    /\ UNCHANGED <<runtime, exporter, defaultW, opts, o, phase, file,
                   levelVar, h, queued, delivery>>

(* One more option, which turns the options struct into new.               *)
Given(opt, new) ==
    /\ Setting(opt.opt)
    /\ opts' = Append(opts, opt)
    /\ o' = new
    /\ UNCHANGED <<inputs, phase, file, levelVar, h, queued, delivery>>

(* WithLevel, WithSourceLocationEnabled, WithTime, WithStackTraceEnabled,  *)
(* WithStackTraceLevel, WithTraceProjectID, WithTraceDiagnostics,          *)
(* WithSeverityAliases, WithCloseTimeoutPolicy.                            *)
WithSetting(s, x) ==
    Given([opt |-> s], [o EXCEPT !.set[s] = Val(x)])

(* WithLevelVar.                                                           *)
WithLevelVar ==
    Given([opt |-> "LevelVar"], [o EXCEPT !.levelVar = TRUE])

(* WithRedirectToStdout, WithRedirectToStderr and WithRedirectWriter: a    *)
(* nil writer forgets the redirects before it.                             *)
WithRedirectWriter(w) ==
    Given([opt |-> "Writer", to |-> w],
          [o EXCEPT !.writer = w, !.filePath = Unset, !.external = TRUE])

(* WithRedirectToFile: the path may be blank.                              *)
WithRedirectToFile(path) ==
    Given([opt |-> "File", to |-> path],
          [o EXCEPT !.writer = "none", !.filePath = Val(path),
                    !.external = FALSE])

(* WithMiddleware, each known by its place in the option list, and         *)
(* WithAdditionalHandlers: a sink with its own level.                      *)
WithMiddleware ==
    Given([opt |-> "Middleware"],
          [o EXCEPT !.mws = Append(@, Len(opts) + 1)])

WithAdditionalHandler(level) ==
    Given([opt |-> "Sink"], [o EXCEPT !.sinks = Append(@, level)])

(* WithAsync and WithAsyncOnFile with options of slogcpasync.              *)
WithAsync(onFile, as) ==
    Given([opt |-> "Async", onFile |-> onFile, as |-> as],
          [o EXCEPT !.async = TRUE, !.onFile = onFile,
                    !.asyncOpts = @ \o as])

(* WithAttrs remembers the groups opened so far, WithGroup opens one more  *)
(* and a blank name closes them all.                                       *)
WithAttrs(a) ==
    Given([opt |-> "Attrs", attr |-> a],
          [o EXCEPT !.attrs = Append(@, [groups |-> o.groups, attr |-> a])])

WithGroup(name) ==
    Given([opt |-> "Group", name |-> name],
          [o EXCEPT !.groups = IF name = "" THEN <<>> ELSE Append(@, name)])

-----------------------------------------------------------------------------
(* newHandler, step by step, as functions of the configuration c.          *)

(* resolveLevelFromEnv: LOG_LEVEL counts only when SLOGCP_LEVEL is blank.  *)
ResolveLevelFromEnv ==
    IF env["SLOGCP_LEVEL"] # Unset
    THEN Or(env["SLOGCP_LEVEL"], LevelInfo)
    ELSE Or(env["LOG_LEVEL"], LevelInfo)

(* resolveTraceProjectFromEnv: the first variable that is not blank, valid *)
(* or not.                                                                 *)
ResolveTraceProjectFromEnv ==
    LET i == SelectInSeq(ProjectVars, LAMBDA v : env[v] # Unset)
    IN IF i = 0 THEN NoProject ELSE env[ProjectVars[i]].val

(* applyTargetFromEnv with a value it accepts.                             *)
ApplyTargetFromEnv(c) ==
    LET t == Or(env["SLOGCP_TARGET"], "none") IN
    CASE t \in StdStreams -> [c EXCEPT !.writer = t, !.filePath = "",
                                       !.external = TRUE]
      [] t = "file"       -> [c EXCEPT !.writer = "none", !.filePath = "env",
                                       !.external = FALSE]
      [] OTHER            -> c

(* loadConfigFromEnv; SLOGCP_TARGET that is not understood is an error.    *)
LoadConfigFromEnv ==
    LET E(v, current) == Or(env[v], current) IN
    ApplyTargetFromEnv(
      [set |->
         [Level                 |-> ResolveLevelFromEnv,
          AddSource             |-> E("SLOGCP_SOURCE_LOCATION", FALSE),
          EmitTimeField         |-> E("SLOGCP_TIME", ~runtime.managed),
          StackTraceEnabled     |-> E("SLOGCP_STACK_TRACES", FALSE),
          StackTraceLevel       |-> E("SLOGCP_STACK_TRACE_LEVEL", LevelError),
          TraceProjectID        |-> ResolveTraceProjectFromEnv,
          TraceDiagnostics      |-> E("SLOGCP_TRACE_DIAGNOSTICS", "warn"),
          UseShortSeverityNames |-> E("SLOGCP_SEVERITY_ALIASES",
                                      runtime.managed),
          CloseTimeoutPolicy    |-> "abort"],
       timeSet  |-> env["SLOGCP_TIME"].st = "ok",
       explicit |-> ResolveTraceProjectFromEnv # NoProject,
       writer   |-> "none", filePath |-> "", external |-> FALSE,
       closable |-> "none"])

NormalizeCloseTimeoutPolicy(p) == IF p = "return" THEN p ELSE "abort"

(* applyLevelAndTraceOptions.                                              *)
ApplySettings(c) ==
    [c EXCEPT
       !.set = [s \in Settings |->
                  LET x == Or(o.set[s], c.set[s])
                  IN IF s = "CloseTimeoutPolicy"
                     THEN NormalizeCloseTimeoutPolicy(x) ELSE x],
       !.timeSet = @ \/ o.set["EmitTimeField"] # Unset,
       !.explicit = @ \/ o.set["TraceProjectID"] # Unset]

(* Mutant of ApplyWriterOptions: a file that was chosen before stays.      *)
ApplyWriterOptionsLate(c) ==
    IF o.writer # "none" /\ c.filePath = ""
    THEN [c EXCEPT !.writer = o.writer, !.external = o.external]
    ELSE c

(* applyWriterOptions.                                                     *)
ApplyWriterOptions(c) ==
    CASE o.writer # "none" ->
           [c EXCEPT !.writer = o.writer, !.filePath = "",
                     !.external = o.external]
      [] o.filePath # Unset ->
           [c EXCEPT !.writer = "none", !.filePath = o.filePath.val,
                     !.external = FALSE]
      [] OTHER -> c

(* The output of a handler with an exporter is the exporter alone.         *)
ApplyExporter(c) ==
    IF exporter
    THEN [c EXCEPT !.writer = "discard", !.filePath = "", !.external = TRUE,
                   !.set["EmitTimeField"] = @ \/ ~c.timeSet]
    ELSE c

(* ensureWriterDefaults.                                                   *)
EnsureWriterDefaults(c) ==
    IF c.writer = "none" /\ c.filePath = ""
    THEN [c EXCEPT !.writer = IF defaultW # "none" THEN defaultW ELSE "stdout",
                   !.external = TRUE]
    ELSE c

(* hasFileTarget and applyFileTargetTimeDefault.                           *)
HasFileTarget(c) == c.filePath # "" \/ c.writer \in Files

ApplyFileTargetTimeDefault(c) ==
    [c EXCEPT !.set["EmitTimeField"] = @ \/ (~c.timeSet /\ HasFileTarget(c))]

(* prepareFileWriter once the file is open, and ensureClosableWriter.      *)
PrepareFileWriter(c) ==
    IF c.filePath = "" THEN c
    ELSE [c EXCEPT !.writer = "own", !.external = FALSE]

EnsureClosableWriter(c) ==
    IF ~c.external /\ c.writer \in Closers
    THEN [c EXCEPT !.closable = c.writer]
    ELSE c

(* prepareRuntimeConfig: the project the traces are filed under, whether   *)
(* Cloud Logging is left to complete the trace name, and what strict       *)
(* diagnostics refuse.                                                     *)
TraceProject(c) ==
    LET configured == Normalized(c.set["TraceProjectID"])
    IN IF configured # "" THEN configured ELSE runtime.project

TraceAllowAutoformat(c) == TraceProject(c) = "" /\ runtime.managed

(* Mutant of StrictRefuses: an invalid project is passed over.             *)
StrictRefusesMissing(c) ==
    /\ c.set["TraceDiagnostics"] = "strict"
    /\ TraceProject(c) = "" /\ ~TraceAllowAutoformat(c)

StrictRefuses(c) ==
    /\ c.set["TraceDiagnostics"] = "strict"
    /\ \/ c.explicit /\ c.set["TraceProjectID"].form = "invalid"
       \/ TraceProject(c) = "" /\ ~TraceAllowAutoformat(c)

(* slogcpasync.buildConfig: the options in order, WithEnv where it stands, *)
(* then the defaults of the drop mode for what is unset or out of range.   *)
ModeDefaults ==
    [block       |-> [queue |-> 2048, workers |-> 1, batch |-> 1],
     drop_newest |-> [queue |-> 512,  workers |-> 1, batch |-> 1],
     drop_oldest |-> [queue |-> 1024, workers |-> 1, batch |-> 1]]

DefaultAsyncConfig ==
    [enabled |-> TRUE, mode |-> "block", queue |-> Unset, workers |-> Unset,
     batch |-> Unset]

(* applyEnv, with the environment e.                                       *)
ApplyEnv(e, a) ==
    LET Number(v, current) == IF e[v].st = "ok" THEN e[v] ELSE current IN
    [a EXCEPT !.enabled = Or(e["SLOGCP_ASYNC"], @),
              !.queue   = Number("SLOGCP_ASYNC_QUEUE_SIZE", @),
              !.workers = Number("SLOGCP_ASYNC_WORKERS", @),
              !.mode    = Or(e["SLOGCP_ASYNC_DROP_MODE"], @)]

ApplyAsyncOption(e, a, x) ==
    CASE x.name = "WithEnv"         -> ApplyEnv(e, a)
      [] x.name = "WithEnabled"     -> [a EXCEPT !.enabled = x.on]
      [] x.name = "WithDropMode"    -> [a EXCEPT !.mode = x.mode]
      [] x.name = "WithQueueSize"   -> [a EXCEPT !.queue = Val(x.n)]
      [] x.name = "WithWorkerCount" -> [a EXCEPT !.workers = Val(x.n)]
      [] x.name = "WithBatchSize"   -> [a EXCEPT !.batch = Val(x.n)]

Clamp(x, fallback, min) ==
    IF x.st = "ok" /\ x.val >= min THEN x.val ELSE fallback

BuildConfig(e, as) ==
    LET a == FoldLeft(LAMBDA b, x : ApplyAsyncOption(e, b, x),
                      DefaultAsyncConfig, as)
        d == ModeDefaults[IF a.mode \in DOMAIN ModeDefaults
                          THEN a.mode ELSE "block"]
    IN [enabled |-> a.enabled, mode |-> a.mode,
        queue   |-> Clamp(a.queue, d.queue, 0),
        workers |-> Clamp(a.workers, d.workers, 1),
        batch   |-> Clamp(a.batch, d.batch, 1)]

(* Mutant of ResolveAsync: WithAsyncOnFile queues for any target.          *)
ResolveAsyncAnyTarget(c) ==
    o.async \/ (HasFileTarget(c) /\ Or(env["SLOGCP_ASYNC_ON_FILE"], TRUE))

(* resolveAsyncConfig: an option decides, else file targets are buffered   *)
(* unless SLOGCP_ASYNC_ON_FILE says no.                                    *)
ResolveAsync(c) ==
    IF o.async
    THEN ~o.onFile \/ HasFileTarget(c)
    ELSE HasFileTarget(c) /\ Or(env["SLOGCP_ASYNC_ON_FILE"], TRUE)

(* composeFanout: the JSON handler and the additional sinks, each behind a *)
(* sharedLevelHandler.                                                     *)
ComposeFanout ==
    <<[gated |-> TRUE, own |-> LevelDebug]>> \o
    [i \in DOMAIN o.sinks |-> [gated |-> TRUE, own |-> o.sinks[i]]]

(* The layers around the fan-out.                                          *)
SourceLayer == [kind |-> "source", place |-> 0]
AsyncLayer  == [kind |-> "async", place |-> 0]
Layer(i)    == [kind |-> "middleware", place |-> i]

(* Mutant of ApplyMiddlewares: wrapped from the first to the last.         *)
ApplyMiddlewaresForward ==
    [k \in DOMAIN o.mws |-> Layer(o.mws[Len(o.mws) + 1 - k])]

(* applyMiddlewares wraps from the last to the first, so that the first is *)
(* the outermost.                                                          *)
ApplyMiddlewares == [k \in DOMAIN o.mws |-> Layer(o.mws[k])]

(* buildPipeline, outermost layer first: the wrapper is put around the     *)
(* middlewares, and the source-aware handler around that.                  *)
BuildPipeline(c) ==
    LET a == BuildConfig(env, o.asyncOpts)
        wrapped == ResolveAsync(c) /\ a.enabled
    IN [cfg     |-> c,
        project |-> TraceProject(c),
        autoformat |-> TraceAllowAutoformat(c),
        layers  |-> (IF c.set["AddSource"] THEN <<SourceLayer>> ELSE <<>>) \o
                    ((IF wrapped THEN <<AsyncLayer>> ELSE <<>>) \o
                     ApplyMiddlewares),
        async   |-> IF wrapped THEN a ELSE <<>>,
        sinks   |-> ComposeFanout,
        level   |-> c.set["Level"],
        attrs   |-> o.attrs,
        groups  |-> o.groups]

Configured ==
    ApplyFileTargetTimeDefault(EnsureWriterDefaults(ApplyExporter(
        ApplyWriterOptions(ApplySettings(LoadConfigFromEnv)))))

Failed(err) ==
    /\ phase' = "failed"
    /\ h' = [err |-> err]
    /\ UNCHANGED <<inputs, opts, o, spent, queued, delivery>>

(* newHandler returns early: SLOGCP_TARGET is not understood, or the log   *)
(* file cannot be opened.                                                  *)
InvalidTarget ==
    /\ phase = "options"
    /\ env["SLOGCP_TARGET"] = Bad
    /\ Failed("target")
    /\ UNCHANGED <<file, levelVar>>

OpenFails ==
    /\ phase = "options"
    /\ env["SLOGCP_TARGET"] # Bad
    /\ Configured.filePath # ""
    /\ Failed("open")
    /\ UNCHANGED <<file, levelVar>>

(* newHandler beyond the file: the level variable is set before strict     *)
(* diagnostics may refuse the configuration.                               *)
NewHandler ==
    LET c == EnsureClosableWriter(PrepareFileWriter(Configured)) IN
    /\ phase = "options"
    /\ env["SLOGCP_TARGET"] # Bad
    /\ file' = IF c.filePath # "" THEN "open" ELSE "none"
    /\ levelVar' = IF o.levelVar THEN c.set["Level"] ELSE levelVar
    /\ \/ StrictRefuses(c) /\ Failed("strict")
       \/ /\ ~StrictRefuses(c)
          /\ phase' = "built"
          /\ h' = BuildPipeline(c)
          /\ UNCHANGED <<inputs, opts, o, spent, queued, delivery>>

-----------------------------------------------------------------------------
(* The finished handler.                                                   *)

Use ==
    /\ phase = "built"
    /\ Spend(1)
    /\ UNCHANGED <<inputs, opts, o, phase, file>>

(* Handler.Level.                                                          *)
Level == IF o.levelVar THEN levelVar ELSE h.level

(* SetLevel, or LevelVar.Set by the program that shares the variable.      *)
SetLevel(l) ==
    /\ Use
    /\ IF o.levelVar
       THEN levelVar' = l /\ UNCHANGED h
       ELSE h' = [h EXCEPT !.level = l] /\ UNCHANGED levelVar
    /\ UNCHANGED <<queued, delivery>>

(* Mutant of Rewrap: the child of an additional sink is bare.              *)
RewrapBare(sinks) ==
    [i \in DOMAIN sinks |-> [gated |-> i = 1, own |-> sinks[i].own]]

(* WithAttrs and WithGroup of the pipeline: sharedLevelHandler wraps the   *)
(* child of its sink again ...                                             *)
Rewrap(sinks) ==
    [i \in DOMAIN sinks |-> [gated |-> sinks[i].gated, own |-> sinks[i].own]]

(* ... and so do sourceAwareHandler and slogcpasync.Handler, whose child   *)
(* shares the queue, with the child of what they are around.               *)
RewrapLayers(layers) ==
    [k \in DOMAIN layers |-> [kind  |-> layers[k].kind,
                              place |-> layers[k].place]]

Derive ==
    /\ Use
    /\ h' = [h EXCEPT !.sinks = Rewrap(@), !.layers = RewrapLayers(@),
                      !.groups = Append(@, "derived")]
    /\ UNCHANGED <<levelVar, queued, delivery>>

(* sharedLevelHandler.Enabled; the JSON handler asks the same variable.    *)
Enabled(sink, l) == (sink.gated => l >= Level) /\ l >= sink.own

(* How many layers a call of Handle passes in the caller's goroutine: as   *)
(* far as the wrapper, which leaves the rest to a worker.                  *)
Cut(layers) ==
    IF \E k \in DOMAIN layers : layers[k].kind = "async"
    THEN CHOOSE k \in DOMAIN layers : layers[k].kind = "async"
    ELSE Len(layers)
IsQueued(layers) == \E k \in DOMAIN layers : layers[k].kind = "async"

(* The record r = [level, sinks, layers] through slog's MultiHandler:      *)
(* every sink that is enabled now gets it, whichever of the others fail,   *)
(* and who = "caller" or "errorWriter" is told of the joined errors.       *)
Deliver(r, failing, who) ==
    LET to == {i \in DOMAIN r.sinks : Enabled(r.sinks[i], r.level)} IN
    /\ failing \subseteq to
    /\ delivery' = [rec |-> r, min |-> Level, to |-> to, failing |-> failing,
                    cut |-> Cut(r.layers),
                    told |-> IF failing = {} THEN "nobody" ELSE who]

Through(l) == [level |-> l, sinks |-> h.sinks, layers |-> h.layers]

(* A record is logged through a handler without the wrapper: the sinks are *)
(* called in the caller's goroutine, which gets their errors.              *)
Log(l, failing) ==
    /\ Use
    /\ ~IsQueued(h.layers)
    /\ Deliver(Through(l), failing, "caller")
    /\ UNCHANGED <<levelVar, h, queued>>

(* With the wrapper Handle returns nil once the record is queued, with the *)
(* handler it was logged through; a record that no sink is enabled for     *)
(* does not get that far.  AsyncHandler has the queue itself; here it      *)
(* holds one record.                                                       *)
Enqueue(l) ==
    /\ Use
    /\ IsQueued(h.layers) /\ queued = <<>>
    /\ \E i \in DOMAIN h.sinks : Enabled(h.sinks[i], l)
    /\ queued' = <<Through(l)>>
    /\ UNCHANGED <<levelVar, h, delivery>>

(* A worker handles it, with the levels as they are by then, and writes an *)
(* error to the ErrorWriter.                                               *)
HandleItem(failing) ==
    /\ queued # <<>>
    /\ Deliver(queued[1], failing, "errorWriter")
    /\ queued' = <<>>
    /\ UNCHANGED <<inputs, opts, o, phase, file, levelVar, h, spent>>

(* Before the construction.                                                *)
Collect ==
    \/ \E v \in EnvVars : \E x \in EnvArgs[v] : SetEnv(v, Val(x))
    \/ \E v \in EnvVars \ ToSet(ProjectVars) : SetEnv(v, Bad)
    \/ \E s \in Settings : \E x \in SettingArgs[s] : WithSetting(s, x)
    \/ WithLevelVar
    \/ \E w \in StdStreams \cup UserWriters \cup {"none"} :
         WithRedirectWriter(w)
    \/ \E path \in {"opt", ""} : WithRedirectToFile(path)
    \/ WithMiddleware
    \/ \E l \in {LevelDebug, LevelError} : WithAdditionalHandler(l)
    \/ \E as \in {<<>>, <<[name |-> "WithEnabled", on |-> FALSE]>>} :
         WithAsync(TRUE, as)
    \/ \E as \in {<<[name |-> "WithEnv"]>>,
                  <<[name |-> "WithDropMode", mode |-> "unknown"]>>,
                  <<[name |-> "WithQueueSize", n |-> -1],
                    [name |-> "WithBatchSize", n |-> 0],
                    [name |-> "WithWorkerCount", n |-> 3]>>} :
         WithAsync(FALSE, as)
    \/ WithAttrs("a")
    \/ \E name \in {"g", ""} : WithGroup(name)

Next ==
    \/ Collect
    \/ InvalidTarget \/ OpenFails \/ NewHandler
    \/ \E l \in {LevelDebug, LevelError} : SetLevel(l)
    \/ Derive
    \/ \E l \in {LevelDebug, LevelInfo, LevelError} :
         \/ \E failing \in SUBSET {1, 2} : Log(l, failing)
         \/ Enqueue(l)
    \/ \E failing \in SUBSET {1, 2} : HandleItem(failing)

Spec == Init /\ [][Next]_vars
-----------------------------------------------------------------------------
(* Properties.                                                             *)

Built == phase = "built"
IsRedirect(x) == x.opt \in {"Writer", "File"}
LastRedirect == SelectLastInSeq(opts, IsRedirect)

(* The output: where the log entries of a finished handler go, told from   *)
(* the call and the environment alone.  An exporter leaves no other        *)
(* output; else the last redirect option counts, one with a nil writer     *)
(* leaves the choice to SLOGCP_TARGET, and a blank file path, like no      *)
(* choice at all, means the default writer.                                *)
ChosenByEnv ==
    IF env["SLOGCP_TARGET"] = Val("file") THEN "own"
    ELSE Or(env["SLOGCP_TARGET"], "default")
Chosen ==
    CASE exporter -> "discard"
      [] ~exporter /\ LastRedirect = 0 -> ChosenByEnv
      [] ~exporter /\ LastRedirect # 0 ->
           LET r == opts[LastRedirect] IN
           CASE r.opt = "Writer" /\ r.to = "none" -> ChosenByEnv
             [] r.opt = "Writer" /\ r.to # "none" -> r.to
             [] r.opt = "File" /\ r.to # "" -> "own"
             [] r.opt = "File" /\ r.to = "" -> "default"
AskedOutput ==
    IF Chosen # "default" THEN Chosen
    ELSE IF defaultW = "none" THEN "stdout" ELSE defaultW
OutputAsAsked == Built => h.cfg.writer = AskedOutput

(* Ownership: Close of a finished handler closes the file it opened itself *)
(* and never a writer that the program passed in, whatever the writer can  *)
(* do (ensureClosableWriter, WithRedirectWriter).                          *)
ClosesOnlyItsOwn ==
    Built => /\ h.cfg.closable \in {"none", "own"}
             /\ (h.cfg.closable = "own") <=> (file = "open")

(* The output of a finished handler is the one that was asked for, and     *)
(* closed by it only if it opened it.                                      *)
OutputIsRight == OutputAsAsked /\ ClosesOnlyItsOwn

(* A construction that fails has touched nothing, neither a file nor the   *)
(* LevelVar of the program, unless it was refused by strict diagnostics:   *)
(* these are checked after the file is open and the level is set.          *)
FailureIsCleanUnlessStrict ==
    phase = "failed" /\ (file = "open" \/ levelVar # LevelWarn)
        => h.err = "strict"

(* TraceDiagnosticsStrict "fails handler construction when trace           *)
(* correlation cannot be established": a handler built under it has a      *)
(* project or runs where Cloud Logging completes the name, and no project  *)
(* that was asked for and is invalid has been replaced by another.         *)
StrictIsCorrelated ==
    Built /\ h.cfg.set["TraceDiagnostics"] = "strict"
        => /\ h.project # "" \/ (h.autoformat /\ runtime.managed)
           /\ o.set["TraceProjectID"].st = "ok" =>
                h.project = (IF o.set["TraceProjectID"].val = NoProject
                             THEN runtime.project
                             ELSE o.set["TraceProjectID"].val.id)
           /\ env["SLOGCP_TRACE_PROJECT_ID"].st = "ok"
                 /\ o.set["TraceProjectID"] = Unset
                => h.project = env["SLOGCP_TRACE_PROJECT_ID"].val.id

(* Strict diagnostics refuse what cannot be correlated, and are the only   *)
(* refusal that leaves something behind.                                   *)
RefusalsAreRight == FailureIsCleanUnlessStrict /\ StrictIsCorrelated

(* The wrapper is there if and only if it was asked for, told from the     *)
(* option list, the environment and the output: the last async option was  *)
(* WithAsync, or it was WithAsyncOnFile, which "does not enable an async    *)
(* queue" for any other output, and the output is a file; without an async *)
(* option a file is enough, unless SLOGCP_ASYNC_ON_FILE says no.  The      *)
(* options of slogcpasync that were given, all of them in their order,     *)
(* must leave it enabled.  So an exporter queues for WithAsync alone.      *)
IsAsync(x) == x.opt = "Async"
LastAsync == SelectLastInSeq(opts, IsAsync)
AsyncAsked ==
    /\ IF LastAsync = 0
       THEN AskedOutput \in Files /\ Or(env["SLOGCP_ASYNC_ON_FILE"], TRUE)
       ELSE opts[LastAsync].onFile => AskedOutput \in Files
    /\ BuildConfig(env, o.asyncOpts).enabled
AsyncAsAsked == Built => (h.async # <<>> <=> AsyncAsked)

(* The wrapper that is built satisfies what AsyncHandler assumes of its    *)
(* constants, whatever options and variables configured it.                *)
AsyncConfigIsUsable ==
    Built /\ h.async # <<>>
        => h.async.workers >= 1 /\ h.async.queue >= 0 /\ h.async.batch >= 1

(* The wrapper is there when it was asked for, and usable.                 *)
AsyncIsRight == AsyncAsAsked /\ AsyncConfigIsUsable

(* An attribute given to WithAttrs stays in the groups that were open at   *)
(* its place in the option list, whatever WithGroup does after it: those   *)
(* named since the last blank name, in the order of the list.              *)
IsAttrs(x) == x.opt = "Attrs"
IsGroup(x) == x.opt = "Group"
Rank(S, i) == Cardinality({j \in S : j <= i})
Open(k) ==
    {i \in 1..k : IsGroup(opts[i]) /\ \A j \in i..k :
                     IsGroup(opts[j]) => opts[j].name # ""}
ListsOpen(names, k) ==
    /\ Len(names) = Cardinality(Open(k))
    /\ \A i \in Open(k) : names[Rank(Open(k), i)] = opts[i].name
Places == {i \in 1..Len(opts) : IsAttrs(opts[i])}
AttrsKeepTheirGroups ==
    Built => /\ Len(h.attrs) = Cardinality(Places)
             /\ \A i \in Places : ListsOpen(h.attrs[Rank(Places, i)].groups, i)

(* The shared level: a record below the level at which it is delivered     *)
(* reaches no sink, also through a derived handler or out of the queue,    *)
(* and one at or above it reaches every sink whose own level accepts it,   *)
(* whichever of them fail.                                                 *)
SharedLevelGates ==
    delivery # <<>> =>
        LET r == delivery.rec IN
        /\ delivery.to # {} => r.level >= delivery.min
        /\ r.level >= delivery.min =>
             \A i \in DOMAIN r.sinks :
                 r.level >= r.sinks[i].own => i \in delivery.to

(* Of a failure the caller learns when its goroutine called the sinks, and *)
(* the ErrorWriter otherwise; with the wrapper it is never the caller's    *)
(* that passes a middleware, through whichever derived handler.            *)
FailuresAreTold ==
    delivery # <<>> =>
        /\ delivery.failing # {} =>
             delivery.told = IF h.async = <<>> THEN "caller" ELSE "errorWriter"
        /\ h.async # <<>> =>
             \A k \in 1..delivery.cut :
                 delivery.rec.layers[k].kind # "middleware"

(* A record passes every middleware that was given, once, in the order of  *)
(* the option list.                                                        *)
IsMiddleware(x) == x.opt = "Middleware"
MiddlewaresInOrder ==
    delivery # <<>> =>
        LET passed == delivery.rec.layers
            M == {k \in DOMAIN passed : passed[k].kind = "middleware"} IN
        /\ \A j \in M : \A k \in M : j < k => passed[j].place < passed[k].place
        /\ \A i \in 1..Len(opts) :
             IsMiddleware(opts[i]) <=> \E k \in M : passed[k].place = i

(* What is logged through a handler, built or derived, meets the groups,   *)
(* the level and the layers that it was given.                             *)
DerivationKeeps ==
    /\ AttrsKeepTheirGroups
    /\ SharedLevelGates
    /\ FailuresAreTold
    /\ MiddlewaresInOrder
=============================================================================
