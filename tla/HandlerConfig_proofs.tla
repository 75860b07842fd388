------------------------ MODULE HandlerConfig_proofs ------------------------
(***************************************************************************)
(* Proofs about HandlerConfig, for option lists and environments of any    *)
(* size and any number of uses: the output of a finished handler is the    *)
(* one that was asked for last, and closed by it only if it opened it;     *)
(* strict diagnostics refuse what cannot be correlated; the asynchronous   *)
(* wrapper is there when it was asked for, and usable; attributes stay in  *)
(* their groups; and no record passes below the shared level.              *)
(*                                                                         *)
(* The last part is about the jsonHandler that such a handler is built     *)
(* around, J: of the goroutines that log through it at once, none gets in  *)
(* another's way.                                                          *)
(***************************************************************************)
EXTENDS HandlerConfig, FiniteSetTheorems, SequenceTheorems, TLAPS

USE DEF vars, inputs

IsSeq(s) == \E S : s \in Seq(S)

(* What the variables and the options may hold.                            *)
EnvOf(v) == {Unset, Bad} \cup {Val(x) : x \in EnvArgs[v]}
EnvTypes ==
    /\ DOMAIN env = EnvVars
    /\ \A v \in EnvVars : env[v] \in EnvOf(v)
    /\ env["SLOGCP_TRACE_PROJECT_ID"] # Bad
    /\ runtime \in Runtimes /\ exporter \in BOOLEAN
    /\ defaultW \in {"none", "osfile"}

Writers == StdStreams \cup UserWriters \cup {"none"}
OptionFields ==
    {"set", "writer", "filePath", "external", "levelVar", "mws", "sinks",
     "async", "onFile", "asyncOpts", "groups", "attrs"}
OptionTypes ==
    /\ DOMAIN o = OptionFields /\ DOMAIN o.set = Settings
    /\ o.set["TraceProjectID"]
          \in {Unset} \cup {Val(x) : x \in SettingArgs["TraceProjectID"]}
    /\ o.writer \in Writers
    /\ o.filePath \in {Unset, Val("opt"), Val("")}
    /\ o.writer # "none" => o.filePath = Unset /\ o.external
    /\ o.sinks \in Seq(Int)
    /\ IsSeq(opts)

(* The options struct says what the last option of a kind said.            *)
RedirectInv ==
    IF LastRedirect = 0 THEN o.writer = "none" /\ o.filePath = Unset
    ELSE /\ LastRedirect \in 1..Len(opts)
         /\ LET r == opts[LastRedirect]
            IN  \/ r.opt = "Writer" /\ o.writer = r.to /\ o.filePath = Unset
                \/ r.opt = "File" /\ o.writer = "none" /\ o.filePath = Val(r.to)

AsyncInv ==
    IF LastAsync = 0 THEN ~o.async
    ELSE /\ LastAsync \in 1..Len(opts) /\ o.async
         /\ o.onFile <=> opts[LastAsync].onFile

(* The middlewares of the options struct are the places of the option list *)
(* that give one, in its order.                                            *)
MwsInv ==
    /\ o.mws \in Seq(Nat)
    /\ \A j, k \in 1..Len(o.mws) : j < k => o.mws[j] < o.mws[k]
    /\ \A k \in 1..Len(o.mws) : o.mws[k] \in 1..Len(opts)
    /\ \A i \in 1..Len(opts) :
          IsMiddleware(opts[i]) <=> \E k \in 1..Len(o.mws) : o.mws[k] = i

(* The groups of the options struct are the open ones, and every attribute *)
(* has those of its place.                                                 *)
GroupsInv == IsSeq(o.groups) /\ ListsOpen(o.groups, Len(opts))
PlacesInv ==
    /\ IsSeq(o.attrs) /\ Len(o.attrs) = Cardinality(Places)
    /\ \A i \in Places : ListsOpen(o.attrs[Rank(Places, i)].groups, i)

OptionsInv == RedirectInv /\ AsyncInv /\ MwsInv /\ GroupsInv /\ PlacesInv

(* Nothing happens to the outside before the construction, and nothing is  *)
(* logged without a handler.                                               *)
FreshInv ==
    /\ phase \in {"options", "failed", "built"}
    /\ phase = "options" => file = "none" /\ levelVar = LevelWarn
    /\ phase # "built" => delivery = <<>> /\ queued = <<>>

(* Layers: the source layer and the wrapper, if they are there, and then   *)
(* the middlewares.                                                        *)
Stacked(mws, ls) ==
    \E d \in 0..2 :
        /\ DOMAIN ls = 1..(d + Len(mws))
        /\ \A k \in 1..d : ls[k].kind \in {"source", "async"}
        /\ \A k \in 1..Len(mws) : /\ ls[d + k].kind = "middleware"
                                  /\ ls[d + k].place = mws[k]

(* A finished handler has all its parts, and every sink its shared level.  *)
Sinks == [gated : {TRUE}, own : Int]
PipelineFields ==
    {"cfg", "project", "autoformat", "layers", "async", "sinks", "level",
     "attrs", "groups"}
PipelineInv ==
    Built => /\ DOMAIN h = PipelineFields /\ h.sinks \in Seq(Sinks)
             /\ h.attrs = o.attrs
             /\ Stacked(o.mws, h.layers) /\ (IsQueued(h.layers) <=> h.async # <<>>)

(* What waits for a worker passed the wrapper.                             *)
QueuedInv ==
    queued # <<>> => LET r == queued[1] IN
        /\ r.sinks \in Seq(Sinks) /\ Stacked(o.mws, r.layers)
        /\ IsQueued(r.layers) /\ h.async # <<>>

(* What was delivered met the level and the layers.                        *)
DeliveryInv == SharedLevelGates /\ FailuresAreTold /\ MiddlewaresInOrder

(* The inductive invariant.                                                *)
IInv ==
    /\ EnvTypes /\ OptionTypes /\ OptionsInv
    /\ FreshInv /\ PipelineInv /\ QueuedInv
    /\ OutputIsRight /\ RefusalsAreRight /\ AsyncIsRight /\ DeliveryInv

-----------------------------------------------------------------------------
(* Values.                                                                 *)

(* Unset, Bad and a value are three things.                                *)
LEMMA ValuesDiffer ==
    /\ Unset # Bad /\ Unset.st = "unset" /\ Bad.st = "bad"
    /\ \A x : /\ Val(x) # Unset /\ Val(x) # Bad
              /\ Val(x).st = "ok" /\ Val(x).val = x
              /\ \A c : Or(Val(x), c) = x
    /\ \A c : Or(Unset, c) = c /\ Or(Bad, c) = c
<1>1. Unset.st = "unset" /\ Bad.st = "bad"
    BY DEF Unset, Bad
<1>2. \A x : Val(x).st = "ok" /\ Val(x).val = x
    BY DEF Val
<1>3. Unset # Bad /\ \A x : Val(x) # Unset /\ Val(x) # Bad
    BY <1>1, <1>2
<1> QED
    BY <1>1, <1>2, <1>3 DEF Or

(* The names of settings and variables that the proofs speak of.           *)
LEMMA NamesAre ==
    /\ "TraceProjectID" \in Settings /\ "EmitTimeField" \in Settings
    /\ "TraceDiagnostics" \in Settings
    /\ {"SLOGCP_TARGET", "SLOGCP_TRACE_PROJECT_ID"} \subseteq EnvVars
    /\ SettingArgs["TraceProjectID"]
          = {Project("opt", "prefixed"), Project("", "invalid"), NoProject}
    /\ EnvArgs["SLOGCP_TARGET"] = {"stdout", "stderr", "file"}
    /\ EnvArgs["SLOGCP_TRACE_PROJECT_ID"]
          = {Project("env1", "plain"), Project("", "invalid")}
<1>1. /\ "TraceProjectID" \in Settings /\ "EmitTimeField" \in Settings
      /\ "TraceDiagnostics" \in Settings
    BY DEF Settings, SettingArgs
<1>2. {"SLOGCP_TARGET", "SLOGCP_TRACE_PROJECT_ID"} \subseteq EnvVars
    BY DEF EnvVars, EnvArgs
<1>3. SettingArgs["TraceProjectID"]
          = {Project("opt", "prefixed"), Project("", "invalid"), NoProject}
    BY DEF SettingArgs
<1>4. EnvArgs["SLOGCP_TARGET"] = {"stdout", "stderr", "file"}
    BY DEF EnvArgs
<1>5. EnvArgs["SLOGCP_TRACE_PROJECT_ID"]
          = {Project("env1", "plain"), Project("", "invalid")}
    BY DEF EnvArgs
<1> QED
    BY <1>1, <1>2, <1>3, <1>4, <1>5

-----------------------------------------------------------------------------
(* The configuration, step by step.                                        *)

ConfigFields == {"set", "timeSet", "explicit", "writer", "filePath", "external",
                 "closable"}
IsConfig(c) == DOMAIN c = ConfigFields /\ DOMAIN c.set = Settings

(* What no step after the options changes.                                 *)
Keeps(d, c) ==
    /\ IsConfig(d) /\ d.explicit = c.explicit
    /\ d.set["TraceProjectID"] = c.set["TraceProjectID"]
Output(c, w, f) == c.writer = w /\ c.filePath = f

(* The environment before SLOGCP_TARGET is read.                           *)
EnvConfig ==
    LET E(v, current) == Or(env[v], current) IN
      [set |->
         [Level                 |-> ResolveLevelFromEnv,
          AddSource             |-> E("SLOGCP_SOURCE_LOCATION", FALSE),
          EmitTimeField         |-> E("SLOGCP_TIME", ~runtime.managed),
          StackTraceEnabled     |-> E("SLOGCP_STACK_TRACES", FALSE),
          StackTraceLevel       |-> E("SLOGCP_STACK_TRACE_LEVEL", LevelError),
          TraceProjectID        |-> ResolveTraceProjectFromEnv,
          TraceDiagnostics      |-> E("SLOGCP_TRACE_DIAGNOSTICS", "warn"),
          UseShortSeverityNames |-> E("SLOGCP_SEVERITY_ALIASES",
                                      runtime.managed),
          CloseTimeoutPolicy    |-> "abort"],
       timeSet  |-> env["SLOGCP_TIME"].st = "ok",
       explicit |-> ResolveTraceProjectFromEnv # NoProject,
       writer   |-> "none", filePath |-> "", external |-> FALSE,
       closable |-> "none"]

(* loadConfigFromEnv, up to the target.                                    *)
LEMMA EnvConfigIs ==
    /\ LoadConfigFromEnv = ApplyTargetFromEnv(EnvConfig)
    /\ IsConfig(EnvConfig) /\ Output(EnvConfig, "none", "")
    /\ EnvConfig.closable = "none"
    /\ EnvConfig.set["TraceProjectID"] = ResolveTraceProjectFromEnv
    /\ EnvConfig.explicit <=> ResolveTraceProjectFromEnv # NoProject
<1>1. LoadConfigFromEnv = ApplyTargetFromEnv(EnvConfig)
    BY DEF LoadConfigFromEnv, EnvConfig
<1>2. DOMAIN EnvConfig = ConfigFields
    BY DEF EnvConfig, ConfigFields
<1>3. DOMAIN EnvConfig.set = Settings
    BY DEF EnvConfig, Settings, SettingArgs
<1>4. Output(EnvConfig, "none", "") /\ EnvConfig.closable = "none"
    BY DEF EnvConfig, Output
<1>5. EnvConfig.set["TraceProjectID"] = ResolveTraceProjectFromEnv
    BY DEF EnvConfig
<1>6. EnvConfig.explicit <=> ResolveTraceProjectFromEnv # NoProject
    BY DEF EnvConfig
<1> QED
    BY <1>1, <1>2, <1>3, <1>4, <1>5, <1>6 DEF IsConfig

(* The project of SLOGCP_TRACE_PROJECT_ID comes first.                     *)
LEMMA FirstProject ==
    ASSUME env["SLOGCP_TRACE_PROJECT_ID"].st = "ok"
    PROVE  ResolveTraceProjectFromEnv = env["SLOGCP_TRACE_PROJECT_ID"].val
<1>1. env[ProjectVars[1]] # Unset /\ 1 \in 1..Len(ProjectVars)
      /\ ProjectVars[1] = "SLOGCP_TRACE_PROJECT_ID"
    BY ValuesDiffer DEF ProjectVars
<1> DEFINE I == {i \in 1..Len(ProjectVars) : env[ProjectVars[i]] # Unset}
<1>2. 1 \in I /\ \A i \in I : 1 <= i
    BY <1>1
<1>3. Min(I) = 1
    BY <1>2 DEF Min
<1>4. SelectInSeq(ProjectVars, LAMBDA v : env[v] # Unset) = 1
    BY <1>2, <1>3 DEF SelectInSeq
<1> QED
    BY <1>1, <1>4 DEF ResolveTraceProjectFromEnv

(* SLOGCP_TARGET.                                                          *)
LEMMA TargetIs ==
    ASSUME EnvTypes, env["SLOGCP_TARGET"] # Bad, NEW c, IsConfig(c),
           Output(c, "none", "")
    PROVE  LET d == ApplyTargetFromEnv(c)
           IN  /\ Keeps(d, c) /\ d.closable = c.closable
               /\ \/ ChosenByEnv = "default" /\ Output(d, "none", "")
                  \/ ChosenByEnv = "own" /\ Output(d, "none", "env")
                  \/ ChosenByEnv \in StdStreams /\ Output(d, ChosenByEnv, "") /\ d.external
<1>1. env["SLOGCP_TARGET"] \in {Unset} \cup {Val(x) : x \in {"stdout", "stderr", "file"}}
    BY NamesAre DEF EnvTypes, EnvOf
<1>2. CASE env["SLOGCP_TARGET"] = Unset
    <2>1. ChosenByEnv = "default"
        BY <1>2, ValuesDiffer DEF ChosenByEnv
    <2>2. ApplyTargetFromEnv(c) = c
        <3>1. Or(env["SLOGCP_TARGET"], "none") = "none"
            BY <1>2, ValuesDiffer, Zenon
        <3> QED
            BY <3>1 DEF ApplyTargetFromEnv, StdStreams
    <2> QED
        BY <2>1, <2>2 DEF Keeps
<1>3. CASE env["SLOGCP_TARGET"] = Val("file")
    <2>1. ChosenByEnv = "own"
        BY <1>3 DEF ChosenByEnv
    <2>2. ApplyTargetFromEnv(c) = [c EXCEPT !.writer = "none", !.filePath = "env",
                                            !.external = FALSE]
        <3>1. Or(env["SLOGCP_TARGET"], "none") = "file"
            BY <1>3, ValuesDiffer, Zenon
        <3> QED
            BY <3>1 DEF ApplyTargetFromEnv, StdStreams
    <2> QED
        BY <2>1, <2>2 DEF Keeps, IsConfig, ConfigFields, Output
<1>4. ASSUME NEW t \in StdStreams, env["SLOGCP_TARGET"] = Val(t)
      PROVE  LET d == ApplyTargetFromEnv(c)
             IN  /\ Keeps(d, c) /\ d.closable = c.closable
                 /\ ChosenByEnv \in StdStreams /\ Output(d, ChosenByEnv, "") /\ d.external
    <2>1. ChosenByEnv = t
        <3>1. t # "file"
            BY DEF StdStreams
        <3>2. Val(t) # Val("file")
            BY <3>1 DEF Val
        <3> QED
            BY <1>4, <3>2, ValuesDiffer DEF ChosenByEnv
    <2>2. ApplyTargetFromEnv(c) = [c EXCEPT !.writer = t, !.filePath = "",
                                            !.external = TRUE]
        <3>1. Or(env["SLOGCP_TARGET"], "none") = t
            BY <1>4, ValuesDiffer, Zenon
        <3> QED
            BY <3>1 DEF ApplyTargetFromEnv, StdStreams
    <2> QED
        BY <2>1, <2>2 DEF Keeps, IsConfig, ConfigFields, Output
<1> QED
    BY <1>1, <1>2, <1>3, <1>4 DEF StdStreams

(* applyLevelAndTraceOptions.                                              *)
LEMMA SettingsAre ==
    ASSUME NEW c, IsConfig(c)
    PROVE  LET d == ApplySettings(c)
           IN  /\ IsConfig(d) /\ Output(d, c.writer, c.filePath)
               /\ d.external = c.external /\ d.closable = c.closable
               /\ d.set["TraceProjectID"]
                     = Or(o.set["TraceProjectID"], c.set["TraceProjectID"])
               /\ d.explicit <=> c.explicit \/ o.set["TraceProjectID"] # Unset
<1> DEFINE new == [s \in Settings |->
                     LET x == Or(o.set[s], c.set[s])
                     IN IF s = "CloseTimeoutPolicy"
                        THEN NormalizeCloseTimeoutPolicy(x) ELSE x]
           tm == c.timeSet \/ o.set["EmitTimeField"] # Unset
           ex == c.explicit \/ o.set["TraceProjectID"] # Unset
           d  == [c EXCEPT !.set = new, !.timeSet = tm, !.explicit = ex]
<1>1. ApplySettings(c) = d
    BY DEF ApplySettings, IsConfig, ConfigFields
<1>2. /\ DOMAIN new = Settings
      /\ new["TraceProjectID"] = Or(o.set["TraceProjectID"], c.set["TraceProjectID"])
    BY NamesAre
<1>3. ex <=> c.explicit \/ o.set["TraceProjectID"] # Unset
    OBVIOUS
<1> HIDE DEF new, tm, ex
<1>4. /\ DOMAIN d = ConfigFields /\ d.set = new /\ d.writer = c.writer
      /\ d.filePath = c.filePath /\ d.external = c.external
      /\ d.closable = c.closable /\ d.explicit = ex
    BY DEF IsConfig, ConfigFields
<1> HIDE DEF d
<1>5. /\ IsConfig(d) /\ Output(d, c.writer, c.filePath)
      /\ d.external = c.external /\ d.closable = c.closable
    BY <1>2, <1>4 DEF IsConfig, Output
<1> QED
    BY <1>1, <1>2, <1>3, <1>4, <1>5

(* applyWriterOptions.                                                     *)
LEMMA WriterOptionsAre ==
    ASSUME OptionTypes, NEW c, IsConfig(c)
    PROVE  LET d == ApplyWriterOptions(c)
           IN  /\ Keeps(d, c) /\ d.closable = c.closable
               /\ o.writer # "none" => Output(d, o.writer, "") /\ d.external
               /\ o.writer = "none" /\ o.filePath # Unset =>
                     Output(d, "none", o.filePath.val)
               /\ o.writer = "none" /\ o.filePath = Unset => d = c
<1>1. CASE o.writer # "none"
    <2> DEFINE w == o.writer
               e == o.external
    <2>1. ApplyWriterOptions(c) = [c EXCEPT !.writer = w, !.filePath = "", !.external = e]
        BY <1>1 DEF ApplyWriterOptions, OptionTypes
    <2>2. e
        BY <1>1 DEF OptionTypes
    <2> HIDE DEF w, e
    <2>3. LET d == [c EXCEPT !.writer = w, !.filePath = "", !.external = e]
          IN  Keeps(d, c) /\ d.closable = c.closable /\ Output(d, w, "") /\ d.external = e
        BY DEF Keeps, IsConfig, ConfigFields, Output
    <2> QED
        BY <1>1, <2>1, <2>2, <2>3 DEF w
<1>2. CASE o.writer = "none" /\ o.filePath # Unset
    <2> DEFINE f == o.filePath.val
    <2>1. ApplyWriterOptions(c) = [c EXCEPT !.writer = "none", !.filePath = f,
                                            !.external = FALSE]
        BY <1>2 DEF ApplyWriterOptions
    <2> HIDE DEF f
    <2>2. LET d == [c EXCEPT !.writer = "none", !.filePath = f, !.external = FALSE]
          IN  Keeps(d, c) /\ d.closable = c.closable /\ Output(d, "none", f)
        BY DEF Keeps, IsConfig, ConfigFields, Output
    <2> QED
        BY <1>2, <2>1, <2>2 DEF f
<1>3. CASE o.writer = "none" /\ o.filePath = Unset
    BY <1>3 DEF ApplyWriterOptions, Keeps
<1> QED
    BY <1>1, <1>2, <1>3

(* The exporter.                                                           *)
LEMMA ExporterIs ==
    ASSUME NEW c, IsConfig(c)
    PROVE  LET d == ApplyExporter(c)
           IN  /\ Keeps(d, c) /\ d.closable = c.closable
               /\ exporter => Output(d, "discard", "") /\ d.external
               /\ ~exporter => d = c
<1>1. CASE exporter
    <2> DEFINE t == c.set["EmitTimeField"] \/ ~c.timeSet
               d == [c EXCEPT !.writer = "discard", !.filePath = "", !.external = TRUE,
                              !.set["EmitTimeField"] = t]
    <2>1. ApplyExporter(c) = d
        BY <1>1 DEF ApplyExporter, IsConfig, ConfigFields
    <2> HIDE DEF t
    <2>2. /\ DOMAIN d = ConfigFields /\ DOMAIN d.set = Settings
          /\ d.explicit = c.explicit /\ d.closable = c.closable /\ d.external
          /\ d.writer = "discard" /\ d.filePath = ""
        BY DEF IsConfig, ConfigFields
    <2>3. d.set["TraceProjectID"] = c.set["TraceProjectID"]
        BY NamesAre DEF IsConfig, ConfigFields
    <2> HIDE DEF d
    <2> QED
        BY <1>1, <2>1, <2>2, <2>3 DEF Keeps, IsConfig, Output
<1>2. CASE ~exporter
    BY <1>2 DEF ApplyExporter, Keeps
<1> QED
    BY <1>1, <1>2

(* ensureWriterDefaults.                                                   *)
DefaultWriter == IF defaultW # "none" THEN defaultW ELSE "stdout"

(* ensureWriterDefaults.                                                   *)
LEMMA DefaultsAre ==
    ASSUME NEW c, IsConfig(c)
    PROVE  LET d == EnsureWriterDefaults(c)
           IN  /\ Keeps(d, c) /\ d.closable = c.closable
               /\ Output(c, "none", "") => Output(d, DefaultWriter, "") /\ d.external
               /\ ~Output(c, "none", "") => d = c
<1>1. CASE Output(c, "none", "")
    <2> DEFINE w == DefaultWriter
    <2>1. EnsureWriterDefaults(c) = [c EXCEPT !.writer = w, !.external = TRUE]
        BY <1>1 DEF EnsureWriterDefaults, Output, DefaultWriter
    <2> HIDE DEF w
    <2>2. LET d == [c EXCEPT !.writer = w, !.external = TRUE]
          IN  Keeps(d, c) /\ d.closable = c.closable /\ Output(d, w, c.filePath) /\ d.external
        BY DEF Keeps, IsConfig, ConfigFields, Output
    <2> QED
        BY <1>1, <2>1, <2>2 DEF w, Output
<1>2. CASE ~Output(c, "none", "")
    BY <1>2 DEF EnsureWriterDefaults, Keeps, Output
<1> QED
    BY <1>1, <1>2

(* applyFileTargetTimeDefault.                                             *)
LEMMA TimeDefaultIs ==
    ASSUME NEW c, IsConfig(c)
    PROVE  LET d == ApplyFileTargetTimeDefault(c)
           IN  /\ Keeps(d, c) /\ d.closable = c.closable
               /\ Output(d, c.writer, c.filePath) /\ d.external = c.external
<1> DEFINE t == c.set["EmitTimeField"] \/ (~c.timeSet /\ HasFileTarget(c))
           d == [c EXCEPT !.set["EmitTimeField"] = t]
<1>1. ApplyFileTargetTimeDefault(c) = d
    BY DEF ApplyFileTargetTimeDefault, IsConfig, ConfigFields
<1> HIDE DEF t
<1>2. /\ DOMAIN d = ConfigFields /\ DOMAIN d.set = Settings
      /\ d.explicit = c.explicit /\ d.closable = c.closable
      /\ d.external = c.external /\ d.writer = c.writer /\ d.filePath = c.filePath
    BY DEF IsConfig, ConfigFields
<1>3. d.set["TraceProjectID"] = c.set["TraceProjectID"]
    BY NamesAre DEF IsConfig, ConfigFields
<1> HIDE DEF d
<1> QED
    BY <1>1, <1>2, <1>3 DEF Keeps, IsConfig, Output

(* prepareFileWriter and ensureClosableWriter.                             *)
LEMMA FileWriterIs ==
    ASSUME NEW c, IsConfig(c)
    PROVE  LET d == PrepareFileWriter(c)
           IN  /\ Keeps(d, c) /\ d.closable = c.closable /\ d.filePath = c.filePath
               /\ c.filePath = "" => d = c
               /\ c.filePath # "" => d.writer = "own" /\ ~d.external
<1>1. CASE c.filePath = ""
    BY <1>1 DEF PrepareFileWriter, Keeps
<1>2. CASE c.filePath # ""
    <2> DEFINE d == [c EXCEPT !.writer = "own", !.external = FALSE]
    <2>1. PrepareFileWriter(c) = d
        BY <1>2 DEF PrepareFileWriter
    <2>2. /\ Keeps(d, c) /\ d.closable = c.closable /\ d.filePath = c.filePath
          /\ d.writer = "own" /\ ~d.external
        BY DEF Keeps, IsConfig, ConfigFields
    <2> HIDE DEF d
    <2> QED
        BY <1>2, <2>1, <2>2
<1> QED
    BY <1>1, <1>2

(* ensureClosableWriter marks a closer that the handler owns.              *)
LEMMA ClosableIs ==
    ASSUME NEW c, IsConfig(c), c.closable = "none"
    PROVE  LET d == EnsureClosableWriter(c)
           IN  /\ Keeps(d, c) /\ Output(d, c.writer, c.filePath)
               /\ d.closable = IF ~c.external /\ c.writer \in Closers THEN c.writer
                               ELSE "none"
<1>1. CASE ~c.external /\ c.writer \in Closers
    <2> DEFINE w == c.writer
               d == [c EXCEPT !.closable = w]
    <2>1. EnsureClosableWriter(c) = d
        BY <1>1 DEF EnsureClosableWriter
    <2> HIDE DEF w
    <2>2. /\ Keeps(d, c) /\ d.closable = w /\ Output(d, c.writer, c.filePath)
        BY DEF Keeps, IsConfig, ConfigFields, Output
    <2> HIDE DEF d
    <2> QED
        BY <1>1, <2>1, <2>2 DEF w
<1>2. CASE ~(~c.external /\ c.writer \in Closers)
    BY <1>2 DEF EnsureClosableWriter, Keeps, Output
<1> QED
    BY <1>1, <1>2

(* The output that the options, the environment and the exporter leave.    *)
AskedConfig == ApplyExporter(ApplyWriterOptions(ApplySettings(LoadConfigFromEnv)))

(* What the options, the environment and the exporter leave of each other. *)
LEMMA AskedIs ==
    ASSUME EnvTypes, OptionTypes, env["SLOGCP_TARGET"] # Bad
    PROVE  /\ IsConfig(AskedConfig) /\ AskedConfig.closable = "none"
           /\ AskedConfig.set["TraceProjectID"]
                 = Or(o.set["TraceProjectID"], ResolveTraceProjectFromEnv)
           /\ AskedConfig.explicit <=> \/ ResolveTraceProjectFromEnv # NoProject
                                  \/ o.set["TraceProjectID"] # Unset
           /\ AskedConfig.writer # "none" => AskedConfig.external /\ AskedConfig.filePath = ""
           /\ exporter => Output(AskedConfig, "discard", "")
           /\ ~exporter /\ o.writer # "none" => Output(AskedConfig, o.writer, "")
           /\ ~exporter /\ o.writer = "none" /\ o.filePath # Unset
                 => Output(AskedConfig, "none", o.filePath.val)
           /\ ~exporter /\ o.writer = "none" /\ o.filePath = Unset
                 => \/ ChosenByEnv = "default" /\ Output(AskedConfig, "none", "")
                    \/ ChosenByEnv = "own" /\ Output(AskedConfig, "none", "env")
                    \/ ChosenByEnv \in StdStreams /\ Output(AskedConfig, ChosenByEnv, "")
<1> DEFINE c1 == LoadConfigFromEnv
           c2 == ApplySettings(c1)
           c3 == ApplyWriterOptions(c2)
           c4 == ApplyExporter(c3)
<1>1. /\ IsConfig(c1) /\ c1.closable = "none"
      /\ c1.set["TraceProjectID"] = ResolveTraceProjectFromEnv
      /\ c1.explicit <=> ResolveTraceProjectFromEnv # NoProject
      /\ \/ ChosenByEnv = "default" /\ Output(c1, "none", "")
         \/ ChosenByEnv = "own" /\ Output(c1, "none", "env")
         \/ ChosenByEnv \in StdStreams /\ Output(c1, ChosenByEnv, "") /\ c1.external
    <2>1. LET d == ApplyTargetFromEnv(EnvConfig)
          IN  /\ Keeps(d, EnvConfig) /\ d.closable = EnvConfig.closable
              /\ \/ ChosenByEnv = "default" /\ Output(d, "none", "")
                 \/ ChosenByEnv = "own" /\ Output(d, "none", "env")
                 \/ ChosenByEnv \in StdStreams /\ Output(d, ChosenByEnv, "") /\ d.external
        BY EnvConfigIs, TargetIs
    <2> QED
        BY <2>1, EnvConfigIs DEF Keeps
<1> HIDE DEF c1
<1>2. /\ IsConfig(c2) /\ Output(c2, c1.writer, c1.filePath)
      /\ c2.external = c1.external /\ c2.closable = c1.closable
      /\ c2.set["TraceProjectID"] = Or(o.set["TraceProjectID"], c1.set["TraceProjectID"])
      /\ c2.explicit <=> c1.explicit \/ o.set["TraceProjectID"] # Unset
    BY <1>1, SettingsAre
<1> HIDE DEF c2
<1>3. /\ Keeps(c3, c2) /\ c3.closable = c2.closable
      /\ o.writer # "none" => Output(c3, o.writer, "") /\ c3.external
      /\ o.writer = "none" /\ o.filePath # Unset => Output(c3, "none", o.filePath.val)
      /\ o.writer = "none" /\ o.filePath = Unset => c3 = c2
    BY <1>2, WriterOptionsAre
<1> HIDE DEF c3
<1>4. IsConfig(c3)
    BY <1>3 DEF Keeps
<1>5. /\ Keeps(c4, c3) /\ c4.closable = c3.closable
      /\ exporter => Output(c4, "discard", "") /\ c4.external
      /\ ~exporter => c4 = c3
    BY <1>4, ExporterIs
<1> HIDE DEF c4
<1>6. /\ IsConfig(c4) /\ c4.closable = "none"
      /\ c4.set["TraceProjectID"] = Or(o.set["TraceProjectID"], ResolveTraceProjectFromEnv)
    BY <1>1, <1>2, <1>3, <1>5 DEF Keeps
<1>7. c4.explicit <=> \/ ResolveTraceProjectFromEnv # NoProject
                      \/ o.set["TraceProjectID"] # Unset
    BY <1>1, <1>2, <1>3, <1>5 DEF Keeps
<1>8. c3.writer # "none" => c3.external /\ c3.filePath = ""
    BY <1>1, <1>2, <1>3 DEF Output
<1>9. c4.writer # "none" => c4.external /\ c4.filePath = ""
    BY <1>5, <1>8 DEF Output
<1>10. ~exporter /\ o.writer = "none" /\ o.filePath = Unset
          => \/ ChosenByEnv = "default" /\ Output(c4, "none", "")
             \/ ChosenByEnv = "own" /\ Output(c4, "none", "env")
             \/ ChosenByEnv \in StdStreams /\ Output(c4, ChosenByEnv, "")
    BY <1>1, <1>2, <1>3, <1>5 DEF Output
<1>11. c4 = AskedConfig
    BY DEF c4, c3, c2, c1, AskedConfig
<1> QED
    BY <1>3, <1>5, <1>6, <1>7, <1>9, <1>10, <1>11

(* The configuration of the finished handler.                              *)
Final == EnsureClosableWriter(PrepareFileWriter(Configured))

(* The output, the owner and the project of the finished configuration.    *)
LEMMA FinalIs ==
    ASSUME EnvTypes, OptionTypes, env["SLOGCP_TARGET"] # Bad
    PROVE  /\ Final.set["TraceProjectID"]
                 = Or(o.set["TraceProjectID"], ResolveTraceProjectFromEnv)
           /\ Final.explicit <=> \/ ResolveTraceProjectFromEnv # NoProject
                                 \/ o.set["TraceProjectID"] # Unset
           /\ Final.closable = IF Final.filePath # "" THEN "own" ELSE "none"
           /\ IF AskedConfig.filePath # "" THEN Output(Final, "own", AskedConfig.filePath)
              ELSE IF AskedConfig.writer # "none" THEN Output(Final, AskedConfig.writer, "")
              ELSE Output(Final, DefaultWriter, "")
<1> DEFINE c4 == AskedConfig
           c5 == EnsureWriterDefaults(c4)
           c6 == ApplyFileTargetTimeDefault(c5)
           c7 == PrepareFileWriter(c6)
           c8 == EnsureClosableWriter(c7)
<1>1. c8 = Final
    BY DEF Final, Configured, AskedConfig
<1>2. /\ IsConfig(c4) /\ c4.closable = "none"
      /\ c4.writer # "none" => c4.external /\ c4.filePath = ""
      /\ c4.set["TraceProjectID"] = Or(o.set["TraceProjectID"], ResolveTraceProjectFromEnv)
      /\ c4.explicit <=> \/ ResolveTraceProjectFromEnv # NoProject
                         \/ o.set["TraceProjectID"] # Unset
    BY AskedIs
<1> HIDE DEF c4
<1>3. /\ Keeps(c5, c4) /\ c5.closable = c4.closable
      /\ Output(c4, "none", "") => Output(c5, DefaultWriter, "") /\ c5.external
      /\ ~Output(c4, "none", "") => c5 = c4
    BY <1>2, DefaultsAre
<1> HIDE DEF c5
<1>4. IsConfig(c5) /\ (c5.filePath = "" => c5.external)
    BY <1>2, <1>3 DEF Keeps, Output
<1>5. /\ Keeps(c6, c5) /\ c6.closable = c5.closable
      /\ Output(c6, c5.writer, c5.filePath) /\ c6.external = c5.external
    BY <1>4, TimeDefaultIs
<1> HIDE DEF c6
<1>6. IsConfig(c6)
    BY <1>5 DEF Keeps
<1>7. /\ Keeps(c7, c6) /\ c7.closable = c6.closable /\ c7.filePath = c6.filePath
      /\ c6.filePath = "" => c7 = c6
      /\ c6.filePath # "" => c7.writer = "own" /\ ~c7.external
    BY <1>6, FileWriterIs
<1> HIDE DEF c7
<1>8. IsConfig(c7) /\ c7.closable = "none"
    BY <1>2, <1>3, <1>5, <1>7 DEF Keeps
<1>9. /\ Keeps(c8, c7) /\ Output(c8, c7.writer, c7.filePath)
      /\ c8.closable = IF ~c7.external /\ c7.writer \in Closers THEN c7.writer
                       ELSE "none"
    BY <1>8, ClosableIs
<1> HIDE DEF c8
<1>10. c8.closable = IF c8.filePath # "" THEN "own" ELSE "none"
    <2>1. CASE c6.filePath = ""
        BY <1>4, <1>5, <1>7, <1>9, <2>1 DEF Output
    <2>2. CASE c6.filePath # ""
        BY <1>7, <1>9, <2>2 DEF Output, Closers
    <2> QED
        BY <2>1, <2>2
<1>11. IF c4.filePath # "" THEN Output(c8, "own", c4.filePath)
       ELSE IF c4.writer # "none" THEN Output(c8, c4.writer, "")
       ELSE Output(c8, DefaultWriter, "")
    <2>1. CASE c4.filePath # ""
        BY <1>3, <1>5, <1>7, <1>9, <2>1 DEF Output
    <2>2. CASE c4.filePath = "" /\ c4.writer # "none"
        BY <1>3, <1>5, <1>7, <1>9, <2>2 DEF Output
    <2>3. CASE Output(c4, "none", "")
        BY <1>3, <1>5, <1>7, <1>9, <2>3 DEF Output
    <2> QED
        BY <2>1, <2>2, <2>3 DEF Output
<1>12. /\ c8.set["TraceProjectID"] = c4.set["TraceProjectID"]
       /\ c8.explicit = c4.explicit
    BY <1>3, <1>5, <1>7, <1>9 DEF Keeps
<1> QED
    BY <1>1, <1>2, <1>10, <1>11, <1>12 DEF c4

(* The output is what the last redirect, or else the environment, chose.   *)
LEMMA FinalOutput ==
    ASSUME EnvTypes, OptionTypes, RedirectInv, env["SLOGCP_TARGET"] # Bad
    PROVE  Final.writer = AskedOutput
<1> DEFINE c == AskedConfig
           Right(x) == IF x # "default" THEN Final.writer = x
                       ELSE Final.writer = DefaultWriter
<1>1. IF c.filePath # "" THEN Final.writer = "own"
      ELSE IF c.writer # "none" THEN Final.writer = c.writer
      ELSE Final.writer = DefaultWriter
    BY FinalIs DEF Output
<1>2. SUFFICES Right(Chosen)
    BY <1>2 DEF DefaultWriter, AskedOutput
<1>3. CASE exporter
    <2>1. Chosen = "discard"
        BY <1>3 DEF Chosen
    <2>2. c.writer = "discard" /\ c.filePath = ""
        BY <1>3, AskedIs DEF Output
    <2> QED
        BY <1>1, <2>1, <2>2
<1>4. ~exporter /\ o.writer = "none" /\ o.filePath = Unset => Right(ChosenByEnv)
    <2>1. ~exporter /\ o.writer = "none" /\ o.filePath = Unset
             => \/ ChosenByEnv = "default" /\ c.writer = "none" /\ c.filePath = ""
                \/ ChosenByEnv = "own" /\ c.filePath = "env"
                \/ ChosenByEnv \in StdStreams /\ c.writer = ChosenByEnv /\ c.filePath = ""
        BY AskedIs DEF Output
    <2> HIDE DEF c
    <2> QED
        BY <1>1, <2>1 DEF StdStreams
<1>5. CASE ~exporter /\ LastRedirect = 0
    BY <1>4, <1>5 DEF Chosen, RedirectInv
<1>6. CASE ~exporter /\ LastRedirect # 0
    <2> DEFINE r == opts[LastRedirect]
    <2>1. \/ r.opt = "Writer" /\ o.writer = r.to /\ o.filePath = Unset
          \/ r.opt = "File" /\ o.writer = "none" /\ o.filePath = Val(r.to)
        BY <1>6 DEF RedirectInv
    <2>2. CASE r.opt = "Writer" /\ r.to = "none"
        <3>1. Chosen = ChosenByEnv
            BY <1>6, <2>2 DEF Chosen
        <3> QED
            BY <1>4, <1>6, <2>1, <2>2, <3>1
    <2>3. CASE r.opt = "Writer" /\ r.to # "none"
        <3>1. Chosen = r.to
            BY <1>6, <2>3 DEF Chosen
        <3>2. o.writer = r.to /\ r.to # "default"
            BY <2>1, <2>3 DEF OptionTypes, Writers, StdStreams, UserWriters
        <3>3. c.writer = o.writer /\ c.filePath = ""
            BY <1>6, <2>3, <3>2, AskedIs DEF Output
        <3> HIDE DEF c
        <3> QED
            BY <1>1, <2>3, <3>1, <3>2, <3>3
    <2>4. CASE r.opt = "File"
        <3>1. o.writer = "none" /\ o.filePath = Val(r.to)
            BY <2>1, <2>4
        <3>2. o.filePath # Unset /\ o.filePath.val = r.to
            BY <3>1, ValuesDiffer
        <3>3. c.writer = "none" /\ c.filePath = r.to
            BY <1>6, <3>1, <3>2, AskedIs DEF Output
        <3>4. r.to # "" => Chosen = "own"
            BY <1>6, <2>4 DEF Chosen
        <3>5. r.to = "" => Chosen = "default"
            BY <1>6, <2>4 DEF Chosen
        <3> HIDE DEF c
        <3> QED
            BY <1>1, <3>3, <3>4, <3>5
    <2> QED
        BY <2>1, <2>2, <2>3, <2>4
<1> QED
    BY <1>3, <1>5, <1>6

(* What strict diagnostics accept is correlated, with the project that was *)
(* asked for.                                                              *)
LEMMA FinalCorrelates ==
    ASSUME EnvTypes, OptionTypes, env["SLOGCP_TARGET"] # Bad,
           ~StrictRefuses(Final), Final.set["TraceDiagnostics"] = "strict"
    PROVE  /\ TraceProject(Final) # "" \/ (TraceAllowAutoformat(Final) /\ runtime.managed)
           /\ o.set["TraceProjectID"].st = "ok" =>
                TraceProject(Final) = (IF o.set["TraceProjectID"].val = NoProject
                                       THEN runtime.project
                                       ELSE o.set["TraceProjectID"].val.id)
           /\ env["SLOGCP_TRACE_PROJECT_ID"].st = "ok"
                 /\ o.set["TraceProjectID"] = Unset
                => TraceProject(Final) = env["SLOGCP_TRACE_PROJECT_ID"].val.id
<1> DEFINE p == Final.set["TraceProjectID"]
<1>1. /\ Final.explicit => p.form # "invalid"
      /\ TraceProject(Final) # "" \/ TraceAllowAutoformat(Final)
    BY DEF StrictRefuses
<1>2. TraceProject(Final) = IF Normalized(p) # "" THEN Normalized(p) ELSE runtime.project
    BY DEF TraceProject
<1>3. /\ p = Or(o.set["TraceProjectID"], ResolveTraceProjectFromEnv)
      /\ Final.explicit <=> \/ ResolveTraceProjectFromEnv # NoProject
                            \/ o.set["TraceProjectID"] # Unset
    BY FinalIs
<1> HIDE DEF p
<1>4. /\ NoProject.form = "empty" /\ Normalized(NoProject) = ""
      /\ Project("", "invalid").form = "invalid"
      /\ LET q == Project("env1", "plain")
         IN  q.form = "plain" /\ q.id = "env1" /\ Normalized(q) = "env1"
    BY DEF NoProject, Project, Normalized
<1>5. ASSUME o.set["TraceProjectID"].st = "ok"
      PROVE  TraceProject(Final) = (IF o.set["TraceProjectID"].val = NoProject
                                    THEN runtime.project
                                    ELSE o.set["TraceProjectID"].val.id)
    <2>1. PICK x \in {Project("opt", "prefixed"), Project("", "invalid"), NoProject} :
             o.set["TraceProjectID"] = Val(x)
        BY <1>5, NamesAre, ValuesDiffer DEF OptionTypes
    <2>2. o.set["TraceProjectID"].val = x /\ o.set["TraceProjectID"] # Unset /\ p = x
        BY <1>3, <2>1, ValuesDiffer
    <2>3. x.form # "invalid"
        BY <1>1, <1>3, <2>2
    <2>4. CASE x = Project("opt", "prefixed")
        <3>1. x.id = "opt" /\ x.form = "prefixed" /\ Normalized(x) = "opt"
            BY <2>4 DEF Project, Normalized
        <3>2. x # NoProject
            BY <1>4, <3>1
        <3> QED
            BY <1>2, <2>2, <3>1, <3>2
    <2>5. CASE x = NoProject
        BY <1>2, <1>4, <2>2, <2>5
    <2> QED
        BY <1>4, <2>3, <2>4, <2>5
<1>6. ASSUME env["SLOGCP_TRACE_PROJECT_ID"].st = "ok", o.set["TraceProjectID"] = Unset
      PROVE  TraceProject(Final) = env["SLOGCP_TRACE_PROJECT_ID"].val.id
    <2>1. PICK x \in {Project("env1", "plain"), Project("", "invalid")} :
             env["SLOGCP_TRACE_PROJECT_ID"] = Val(x)
        <3>1. env["SLOGCP_TRACE_PROJECT_ID"] \in EnvOf("SLOGCP_TRACE_PROJECT_ID")
            BY NamesAre DEF EnvTypes
        <3> QED
            BY <1>6, <3>1, NamesAre, ValuesDiffer DEF EnvOf
    <2>2. env["SLOGCP_TRACE_PROJECT_ID"].val = x /\ ResolveTraceProjectFromEnv = x
        BY <1>6, <2>1, ValuesDiffer, FirstProject
    <2>3. p = x
        BY <1>3, <1>6, <2>2, ValuesDiffer
    <2>4. x = Project("env1", "plain")
        BY <1>1, <1>3, <1>4, <2>2, <2>3
    <2> QED
        BY <1>2, <1>4, <2>2, <2>3, <2>4
<1>7. TraceAllowAutoformat(Final) => runtime.managed
    BY DEF TraceAllowAutoformat
<1> QED
    BY <1>1, <1>5, <1>6, <1>7

-----------------------------------------------------------------------------
(* The pipeline.                                                           *)

(* A configuration of slogcpasync is in range, whatever it was made from.  *)
LEMMA BuildConfigIs ==
    ASSUME NEW e, NEW as
    PROVE  LET b == BuildConfig(e, as)
           IN  b.workers >= 1 /\ b.queue >= 0 /\ b.batch >= 1 /\ b # <<>>
<1> DEFINE a == FoldLeft(LAMBDA b, x : ApplyAsyncOption(e, b, x),
                         DefaultAsyncConfig, as)
           m == IF a.mode \in DOMAIN ModeDefaults THEN a.mode ELSE "block"
           d == ModeDefaults[m]
<1>1. m \in {"block", "drop_newest", "drop_oldest"}
    BY DEF ModeDefaults
<1> HIDE DEF m
<1>2. d.queue \in Nat /\ d.workers = 1 /\ d.batch = 1
    BY <1>1 DEF ModeDefaults
<1>3. BuildConfig(e, as) = [enabled |-> a.enabled, mode |-> a.mode,
                         queue   |-> Clamp(a.queue, d.queue, 0),
                         workers |-> Clamp(a.workers, d.workers, 1),
                         batch   |-> Clamp(a.batch, d.batch, 1)]
    BY DEF BuildConfig, m
<1> HIDE DEF a, d
<1>4. /\ Clamp(a.queue, d.queue, 0) >= 0 /\ Clamp(a.workers, d.workers, 1) >= 1
      /\ Clamp(a.batch, d.batch, 1) >= 1
    BY <1>2 DEF Clamp
<1>5. BuildConfig(e, as) # <<>>
    <2>1. "mode" \in DOMAIN BuildConfig(e, as)
        BY <1>3
    <2>2. <<>> \in Seq(Nat) /\ Len(<<>>) = 0 /\ 1..0 = {}
        OBVIOUS
    <2>3. DOMAIN <<>> = {}
        BY <2>2
    <2> QED
        BY <2>1, <2>3
<1> QED
    BY <1>3, <1>4, <1>5

(* Layers that are put around others.                                      *)
LEMMA AroundIs ==
    ASSUME NEW T, NEW s \in Seq(T), NEW x, NEW y
    PROVE  /\ DOMAIN (<<>> \o s) = 1..(0 + Len(s))
           /\ \A k \in 1..Len(s) : (<<>> \o s)[0 + k] = s[k]
           /\ DOMAIN (<<x>> \o s) = 1..(1 + Len(s)) /\ (<<x>> \o s)[1] = x
           /\ \A k \in 1..Len(s) : (<<x>> \o s)[1 + k] = s[k]
           /\ DOMAIN (<<x>> \o (<<y>> \o s)) = 1..(2 + Len(s))
           /\ (<<x>> \o (<<y>> \o s))[1] = x /\ (<<x>> \o (<<y>> \o s))[2] = y
           /\ \A k \in 1..Len(s) : (<<x>> \o (<<y>> \o s))[2 + k] = s[k]
<1> DEFINE U == T \cup {x, y}
<1>1. s \in Seq(U) /\ <<x>> \in Seq(U) /\ <<y>> \in Seq(U) /\ <<>> \in Seq(U)
    OBVIOUS
<1> HIDE DEF U
<1>2. /\ DOMAIN (<<>> \o s) = 1..(0 + Len(s))
      /\ \A k \in 1..Len(s) : (<<>> \o s)[0 + k] = s[k]
    BY <1>1
<1>3. \A z : <<z>> \in Seq(U) =>
         /\ \A w \in Seq(U) :
              /\ <<z>> \o w \in Seq(U) /\ Len(<<z>> \o w) = 1 + Len(w)
              /\ DOMAIN (<<z>> \o w) = 1..(1 + Len(w)) /\ (<<z>> \o w)[1] = z
              /\ \A k \in 1..Len(w) : (<<z>> \o w)[1 + k] = w[k]
    OBVIOUS
<1> DEFINE v == <<y>> \o s
<1>4. /\ v \in Seq(U) /\ Len(v) = 1 + Len(s) /\ v[1] = y
      /\ \A k \in 1..Len(s) : v[1 + k] = s[k]
    BY <1>1, <1>3
<1> HIDE DEF v
<1>5. /\ DOMAIN (<<x>> \o v) = 1..(1 + Len(v)) /\ (<<x>> \o v)[1] = x
      /\ \A k \in 1..Len(v) : (<<x>> \o v)[1 + k] = v[k]
    BY <1>1, <1>3, <1>4
<1> DEFINE q == <<x>> \o v
<1> HIDE DEF q
<1>6. Len(s) \in Nat
    OBVIOUS
<1>7. DOMAIN q = 1..(2 + Len(s)) /\ q[1] = x /\ q[2] = y
    BY <1>4, <1>5, <1>6 DEF q
<1>8. ASSUME NEW k \in 1..Len(s) PROVE q[2 + k] = s[k]
    <2>1. 1 + k \in 1..Len(v) /\ 1 + (1 + k) = 2 + k
        BY <1>4, <1>6
    <2>2. q[1 + (1 + k)] = v[1 + k]
        BY <1>5, <2>1 DEF q
    <2> QED
        BY <1>4, <2>1, <2>2
<1>9. /\ DOMAIN (<<x>> \o s) = 1..(1 + Len(s)) /\ (<<x>> \o s)[1] = x
      /\ \A k \in 1..Len(s) : (<<x>> \o s)[1 + k] = s[k]
    BY <1>1, <1>3
<1> QED
    BY <1>2, <1>7, <1>8, <1>9 DEF q, v

(* The layers of a pipeline: the wrapper is around every middleware.       *)
LEMMA LayersAre ==
    ASSUME o.mws \in Seq(Nat), NEW source, NEW wrapped
    PROVE  LET ls == (IF source THEN <<SourceLayer>> ELSE <<>>) \o
                     ((IF wrapped THEN <<AsyncLayer>> ELSE <<>>) \o ApplyMiddlewares)
           IN  Stacked(o.mws, ls) /\ (IsQueued(ls) <=> wrapped)
<1> DEFINE M == {Layer(i) : i \in Nat}
           w == o.mws
           n == Len(w)
           s == ApplyMiddlewares
<1>1. /\ n \in Nat /\ s = [k \in 1..n |-> Layer(w[k])]
      /\ \A k \in 1..n : w[k] \in Nat
    BY DEF ApplyMiddlewares
<1>2. s \in Seq(M) /\ Len(s) = n /\ \A k \in 1..n : s[k] = Layer(w[k])
    <2>1. s \in [1..n -> M]
        BY <1>1
    <2> HIDE DEF s, M, n
    <2> QED
        BY <1>1, <2>1
<1>3. \A k \in 1..n : s[k].kind = "middleware" /\ s[k].place = o.mws[k]
    <2>1. \A i : Layer(i).kind = "middleware" /\ Layer(i).place = i
        BY DEF Layer
    <2> QED
        BY <1>2, <2>1
<1> DEFINE x == SourceLayer
           y == AsyncLayer
<1>4. x.kind = "source" /\ y.kind = "async"
    BY DEF SourceLayer, AsyncLayer
<1> HIDE DEF M, s, x, y
<1>5. /\ DOMAIN (<<>> \o s) = 1..(0 + n)
      /\ \A k \in 1..n : (<<>> \o s)[0 + k] = s[k]
    BY <1>2, AroundIs
<1>6. \A z : /\ DOMAIN (<<z>> \o s) = 1..(1 + n) /\ (<<z>> \o s)[1] = z
             /\ \A k \in 1..n : (<<z>> \o s)[1 + k] = s[k]
    BY <1>2, AroundIs
<1>7. /\ DOMAIN (<<x>> \o (<<y>> \o s)) = 1..(2 + n)
      /\ (<<x>> \o (<<y>> \o s))[1] = x /\ (<<x>> \o (<<y>> \o s))[2] = y
      /\ \A k \in 1..n : (<<x>> \o (<<y>> \o s))[2 + k] = s[k]
    BY <1>2, AroundIs
<1> DEFINE all == (IF source THEN <<x>> ELSE <<>>) \o
                  ((IF wrapped THEN <<y>> ELSE <<>>) \o s)
<1>8. <<>> \o s = s
    BY <1>2
<1>13. \A k \in 1..n : s[k].kind # "async"
    BY <1>3
<1>9. CASE ~source /\ ~wrapped
    <2>1. all = <<>> \o s
        BY <1>8, <1>9
    <2> HIDE DEF all
    <2>2. 1..0 = {}
        OBVIOUS
    <2>3. Stacked(o.mws, all)
        BY <1>3, <1>5, <1>9, <2>1, <2>2 DEF Stacked
    <2>5. ASSUME NEW k \in DOMAIN all PROVE all[k].kind # "async"
        <3>1. k \in 1..n /\ 0 + k = k
            BY <1>1, <1>5, <2>1
        <3> QED
            BY <1>5, <1>13, <2>1, <3>1
    <2>4. IsQueued(all) <=> wrapped
        BY <1>9, <2>5 DEF IsQueued
    <2> QED
        BY <2>3, <2>4 DEF all, s, x, y
<1>10. CASE source /\ ~wrapped
    <2>1. all = <<x>> \o s
        BY <1>8, <1>10
    <2> HIDE DEF all
    <2>2. 1..1 = {1}
        OBVIOUS
    <2>3. Stacked(o.mws, all)
        BY <1>3, <1>4, <1>6, <1>10, <2>1, <2>2 DEF Stacked
    <2>5. ASSUME NEW k \in DOMAIN all PROVE all[k].kind # "async"
        <3>1. CASE k = 1
            BY <1>4, <1>6, <2>1, <3>1
        <3>2. CASE k # 1
            <4>1. k - 1 \in 1..n /\ 1 + (k - 1) = k
                BY <1>1, <1>6, <2>1, <3>2
            <4> QED
                BY <1>6, <1>13, <2>1, <4>1
        <3> QED
            BY <3>1, <3>2
    <2>4. IsQueued(all) <=> wrapped
        BY <1>10, <2>5 DEF IsQueued
    <2> QED
        BY <2>3, <2>4 DEF all, s, x, y
<1>11. CASE ~source /\ wrapped
    <2> DEFINE v == <<y>> \o s
    <2>1. all = v
        <3>1. v \in Seq(M \cup {y})
            BY <1>2
        <3> HIDE DEF v
        <3>2. <<>> \o v = v
            BY <3>1
        <3> QED
            BY <1>11, <3>2 DEF v
    <2> HIDE DEF all
    <2>2. 1..1 = {1}
        OBVIOUS
    <2>3. Stacked(o.mws, all)
        BY <1>3, <1>4, <1>6, <1>11, <2>1, <2>2 DEF Stacked
    <2>4. IsQueued(all) <=> wrapped
        BY <1>1, <1>3, <1>4, <1>6, <1>11, <2>1, <2>2 DEF IsQueued
    <2> QED
        BY <2>3, <2>4 DEF all, s, x, y
<1>12. CASE source /\ wrapped
    <2>1. all = <<x>> \o (<<y>> \o s)
        BY <1>12
    <2> HIDE DEF all
    <2>2. 1..2 = {1, 2}
        OBVIOUS
    <2>3. Stacked(o.mws, all)
        BY <1>3, <1>4, <1>7, <1>12, <2>1, <2>2 DEF Stacked
    <2>4. IsQueued(all) <=> wrapped
        BY <1>1, <1>3, <1>4, <1>7, <1>12, <2>1, <2>2 DEF IsQueued
    <2> QED
        BY <2>3, <2>4 DEF all, s, x, y
<1> QED
    BY <1>9, <1>10, <1>11, <1>12

(* The parts of a pipeline.                                                *)
LEMMA PipelineIs ==
    ASSUME OptionTypes, o.mws \in Seq(Nat), NEW c
    PROVE  LET p == BuildPipeline(c)
           IN  /\ DOMAIN p = PipelineFields /\ p.cfg = c
               /\ p.project = TraceProject(c)
               /\ p.autoformat <=> TraceAllowAutoformat(c)
               /\ p.sinks \in Seq(Sinks) /\ p.attrs = o.attrs
               /\ p.async # <<>> <=>
                     ResolveAsync(c) /\ BuildConfig(env, o.asyncOpts).enabled
               /\ p.async # <<>> =>
                     p.async.workers >= 1 /\ p.async.queue >= 0 /\ p.async.batch >= 1
               /\ Stacked(o.mws, p.layers) /\ (IsQueued(p.layers) <=> p.async # <<>>)
<1> DEFINE p == BuildPipeline(c)
           a == BuildConfig(env, o.asyncOpts)
           wrapped == ResolveAsync(c) /\ a.enabled
<1>1. /\ DOMAIN p = PipelineFields /\ p.cfg = c /\ p.project = TraceProject(c)
      /\ p.sinks = ComposeFanout /\ p.attrs = o.attrs
      /\ p.async = IF wrapped THEN a ELSE <<>>
    BY DEF BuildPipeline, PipelineFields
<1>2. p.autoformat <=> TraceAllowAutoformat(c)
    BY DEF BuildPipeline
<1>3. a.workers >= 1 /\ a.queue >= 0 /\ a.batch >= 1 /\ a # <<>>
    BY BuildConfigIs
<1>6. Stacked(o.mws, p.layers) /\ (IsQueued(p.layers) <=> wrapped)
    <2>1. p.layers = (IF c.set["AddSource"] THEN <<SourceLayer>> ELSE <<>>) \o
                     ((IF wrapped THEN <<AsyncLayer>> ELSE <<>>) \o ApplyMiddlewares)
        BY DEF BuildPipeline
    <2> HIDE DEF p, wrapped
    <2> QED
        BY <2>1, LayersAre
<1>4. ComposeFanout \in Seq(Sinks)
    <2> DEFINE one  == [gated |-> TRUE, own |-> LevelDebug]
               more == [i \in DOMAIN o.sinks |-> [gated |-> TRUE, own |-> o.sinks[i]]]
    <2>1. one \in Sinks
        BY DEF Sinks, LevelDebug
    <2>2. o.sinks \in Seq(Int)
        BY DEF OptionTypes
    <2>3. \A i \in DOMAIN o.sinks : [gated |-> TRUE, own |-> o.sinks[i]] \in Sinks
        BY <2>2 DEF Sinks
    <2>4. more \in Seq(Sinks)
        <3> DEFINE n == Len(o.sinks)
        <3>1. n \in Nat /\ DOMAIN o.sinks = 1..n
            BY <2>2
        <3>2. more \in [1..n -> Sinks]
            BY <2>3, <3>1
        <3> HIDE DEF n, more
        <3> QED
            BY <3>1, <3>2
    <2> HIDE DEF one, more
    <2>5. <<one>> \o more \in Seq(Sinks)
        BY <2>1, <2>4
    <2> QED
        BY <2>5 DEF ComposeFanout, one, more
<1> HIDE DEF p, a, wrapped
<1>5. (p.async # <<>> <=> wrapped) /\ (wrapped => p.async = a)
    BY <1>1, <1>3
<1>7. Stacked(o.mws, p.layers) /\ (IsQueued(p.layers) <=> p.async # <<>>)
    BY <1>5, <1>6
<1> QED
    BY <1>1, <1>2, <1>3, <1>4, <1>5, <1>7 DEF p, wrapped, a

-----------------------------------------------------------------------------
(* Options.                                                                *)

(* What an option does to the options struct.                              *)
Effect(opt, new) ==
    /\ opts' = Append(opts, opt) /\ o' = new
    /\ DOMAIN new = OptionFields /\ DOMAIN new.set = Settings
    /\ new.set["TraceProjectID"]
          \in {Unset} \cup {Val(x) : x \in SettingArgs["TraceProjectID"]}
    /\ new.sinks \in Seq(Int)
    /\ \/ /\ opt.opt = "Writer" /\ new.writer = opt.to /\ opt.to \in Writers
          /\ new.filePath = Unset /\ new.external
       \/ /\ opt.opt = "File" /\ new.writer = "none"
          /\ opt.to \in {"opt", ""} /\ new.filePath = Val(opt.to)
       \/ /\ ~IsRedirect(opt) /\ new.writer = o.writer
          /\ new.filePath = o.filePath /\ new.external = o.external
    /\ \/ /\ opt.opt = "Async" /\ new.async
          /\ new.onFile <=> opt.onFile
       \/ /\ ~IsAsync(opt) /\ new.async = o.async
          /\ new.onFile = o.onFile
    /\ new.mws = IF IsMiddleware(opt) THEN Append(o.mws, Len(opts) + 1) ELSE o.mws
    /\ \/ /\ IsGroup(opt) /\ ~IsAttrs(opt) /\ new.attrs = o.attrs
          /\ new.groups = IF opt.name = "" THEN <<>> ELSE Append(o.groups, opt.name)
       \/ /\ IsAttrs(opt) /\ ~IsGroup(opt) /\ new.groups = o.groups
          /\ \E a : new.attrs = Append(o.attrs, [groups |-> o.groups, attr |-> a])
       \/ /\ ~IsGroup(opt) /\ ~IsAttrs(opt)
          /\ new.attrs = o.attrs /\ new.groups = o.groups

(* One more sink.                                                          *)
LEMMA SinksAre ==
    ASSUME o.sinks \in Seq(Int), NEW l \in {LevelDebug, LevelError}
    PROVE  Append(o.sinks, l) \in Seq(Int)
<1>1. LevelDebug \in Int /\ LevelError \in Int
    BY DEF LevelDebug, LevelError
<1>2. l \in Int
    BY <1>1
<1> DEFINE s == o.sinks
<1>3. s \in Seq(Int)
    OBVIOUS
<1> HIDE DEF s
<1>4. Append(s, l) \in Seq(Int)
    BY <1>2, <1>3
<1> QED
    BY <1>4 DEF s

(* Every option has such an effect.                                        *)
LEMMA OptionIs ==
    ASSUME OptionTypes, Collect
    PROVE  \/ UNCHANGED <<opts, o>>
           \/ \E opt, new : Effect(opt, new)
<1> DEFINE E == \E opt, new : Effect(opt, new)
<1> USE DEF OptionTypes, Given
<1>1. ASSUME NEW s \in Settings, NEW x \in SettingArgs[s], WithSetting(s, x) PROVE E
    <2> DEFINE v == Val(x)
               opt == [opt |-> s]
               new == [o EXCEPT !.set[s] = v]
    <2>1. opts' = Append(opts, opt) /\ o' = new
        BY <1>1 DEF WithSetting, OptionFields
    <2>2. s = "TraceProjectID" => v \in {Val(y) : y \in SettingArgs["TraceProjectID"]}
        OBVIOUS
    <2> HIDE DEF v
    <2>3. /\ DOMAIN new = OptionFields /\ DOMAIN new.set = Settings
          /\ new.set["TraceProjectID"]
                \in {Unset} \cup {Val(y) : y \in SettingArgs["TraceProjectID"]}
          /\ new.sinks \in Seq(Int)
        BY <2>2, NamesAre DEF OptionFields
    <2>4. /\ ~IsRedirect(opt) /\ new.writer = o.writer
          /\ new.filePath = o.filePath /\ new.external = o.external
        BY DEF OptionFields, IsRedirect, Settings, SettingArgs
    <2>5. ~IsAsync(opt) /\ new.async = o.async /\ new.onFile = o.onFile
        BY DEF OptionFields, IsAsync, Settings, SettingArgs
    <2>6. /\ ~IsGroup(opt) /\ ~IsAttrs(opt)
          /\ new.attrs = o.attrs /\ new.groups = o.groups
        BY DEF OptionFields, IsGroup, IsAttrs, Settings, SettingArgs
    <2>8. ~IsMiddleware(opt) /\ new.mws = o.mws
        BY DEF OptionFields, IsMiddleware, Settings, SettingArgs
    <2> HIDE DEF opt, new
    <2>7. Effect(opt, new)
        BY <2>1, <2>3, <2>4, <2>5, <2>6, <2>8 DEF Effect
    <2> QED
        BY <2>7
<1>2. ASSUME WithLevelVar PROVE E
    <2> DEFINE v == TRUE
               opt == [opt |-> "LevelVar"]
               new == [o EXCEPT !.levelVar = v]
    <2>1. opts' = Append(opts, opt) /\ o' = new
        BY <1>2 DEF WithLevelVar, OptionFields
    <2> HIDE DEF v
    <2>3. /\ DOMAIN new = OptionFields /\ DOMAIN new.set = Settings
          /\ new.set["TraceProjectID"]
                \in {Unset} \cup {Val(y) : y \in SettingArgs["TraceProjectID"]}
          /\ new.sinks \in Seq(Int)
        BY NamesAre DEF OptionFields
    <2>4. /\ ~IsRedirect(opt) /\ new.writer = o.writer
          /\ new.filePath = o.filePath /\ new.external = o.external
        BY DEF OptionFields, IsRedirect
    <2>5. ~IsAsync(opt) /\ new.async = o.async /\ new.onFile = o.onFile
        BY DEF OptionFields, IsAsync
    <2>6. /\ ~IsGroup(opt) /\ ~IsAttrs(opt)
          /\ new.attrs = o.attrs /\ new.groups = o.groups
        BY DEF OptionFields, IsGroup, IsAttrs
    <2>8. ~IsMiddleware(opt) /\ new.mws = o.mws
        BY DEF OptionFields, IsMiddleware
    <2> HIDE DEF opt, new
    <2>7. Effect(opt, new)
        BY <2>1, <2>3, <2>4, <2>5, <2>6, <2>8 DEF Effect
    <2> QED
        BY <2>7
<1>3. ASSUME NEW w \in Writers, WithRedirectWriter(w) PROVE E
    <2> DEFINE v == Unset
               opt == [opt |-> "Writer", to |-> w]
               new == [o EXCEPT !.writer = w, !.filePath = v, !.external = TRUE]
    <2>1. opts' = Append(opts, opt) /\ o' = new
        BY <1>3 DEF WithRedirectWriter, OptionFields
    <2>3. /\ DOMAIN new = OptionFields /\ DOMAIN new.set = Settings
          /\ new.set["TraceProjectID"]
                \in {Unset} \cup {Val(y) : y \in SettingArgs["TraceProjectID"]}
          /\ new.sinks \in Seq(Int)
        BY NamesAre DEF OptionFields
    <2>4. /\ opt.opt = "Writer" /\ new.writer = opt.to /\ opt.to \in Writers
          /\ new.filePath = Unset /\ new.external
        BY DEF OptionFields
    <2>5. ~IsAsync(opt) /\ new.async = o.async /\ new.onFile = o.onFile
        BY DEF OptionFields, IsAsync
    <2>6. /\ ~IsGroup(opt) /\ ~IsAttrs(opt)
          /\ new.attrs = o.attrs /\ new.groups = o.groups
        BY DEF OptionFields, IsGroup, IsAttrs
    <2>8. ~IsMiddleware(opt) /\ new.mws = o.mws
        BY DEF OptionFields, IsMiddleware
    <2> HIDE DEF opt, new
    <2>7. Effect(opt, new)
        BY <2>1, <2>3, <2>4, <2>5, <2>6, <2>8 DEF Effect
    <2> QED
        BY <2>7
<1>4. ASSUME NEW path \in {"opt", ""}, WithRedirectToFile(path) PROVE E
    <2> DEFINE v == Val(path)
               opt == [opt |-> "File", to |-> path]
               new == [o EXCEPT !.writer = "none", !.filePath = v,
                                !.external = FALSE]
    <2>1. opts' = Append(opts, opt) /\ o' = new
        BY <1>4 DEF WithRedirectToFile, OptionFields
    <2>3. /\ DOMAIN new = OptionFields /\ DOMAIN new.set = Settings
          /\ new.set["TraceProjectID"]
                \in {Unset} \cup {Val(y) : y \in SettingArgs["TraceProjectID"]}
          /\ new.sinks \in Seq(Int)
        BY NamesAre DEF OptionFields
    <2>4. /\ opt.opt = "File" /\ new.writer = "none"
          /\ opt.to \in {"opt", ""} /\ new.filePath = Val(opt.to)
        BY DEF OptionFields
    <2>5. ~IsAsync(opt) /\ new.async = o.async /\ new.onFile = o.onFile
        BY DEF OptionFields, IsAsync
    <2>6. /\ ~IsGroup(opt) /\ ~IsAttrs(opt)
          /\ new.attrs = o.attrs /\ new.groups = o.groups
        BY DEF OptionFields, IsGroup, IsAttrs
    <2>8. ~IsMiddleware(opt) /\ new.mws = o.mws
        BY DEF OptionFields, IsMiddleware
    <2> HIDE DEF opt, new
    <2>7. Effect(opt, new)
        BY <2>1, <2>3, <2>4, <2>5, <2>6, <2>8 DEF Effect
    <2> QED
        BY <2>7
<1>5. ASSUME WithMiddleware PROVE E
    <2> DEFINE v == Append(o.mws, Len(opts) + 1)
               opt == [opt |-> "Middleware"]
               new == [o EXCEPT !.mws = v]
    <2>1. opts' = Append(opts, opt) /\ o' = new
        BY <1>5 DEF WithMiddleware, OptionFields
    <2> HIDE DEF v
    <2>3. /\ DOMAIN new = OptionFields /\ DOMAIN new.set = Settings
          /\ new.set["TraceProjectID"]
                \in {Unset} \cup {Val(y) : y \in SettingArgs["TraceProjectID"]}
          /\ new.sinks \in Seq(Int)
        BY NamesAre DEF OptionFields
    <2>4. /\ ~IsRedirect(opt) /\ new.writer = o.writer
          /\ new.filePath = o.filePath /\ new.external = o.external
        BY DEF OptionFields, IsRedirect
    <2>5. ~IsAsync(opt) /\ new.async = o.async /\ new.onFile = o.onFile
        BY DEF OptionFields, IsAsync
    <2>6. /\ ~IsGroup(opt) /\ ~IsAttrs(opt)
          /\ new.attrs = o.attrs /\ new.groups = o.groups
        BY DEF OptionFields, IsGroup, IsAttrs
    <2>8. IsMiddleware(opt) /\ new.mws = Append(o.mws, Len(opts) + 1)
        BY DEF OptionFields, IsMiddleware, v
    <2> HIDE DEF opt, new
    <2>7. Effect(opt, new)
        BY <2>1, <2>3, <2>4, <2>5, <2>6, <2>8 DEF Effect
    <2> QED
        BY <2>7
<1>6. ASSUME NEW l \in {LevelDebug, LevelError}, WithAdditionalHandler(l) PROVE E
    <2> DEFINE v == Append(o.sinks, l)
               opt == [opt |-> "Sink"]
               new == [o EXCEPT !.sinks = v]
    <2>1. opts' = Append(opts, opt) /\ o' = new
        BY <1>6 DEF WithAdditionalHandler, OptionFields
    <2>2. v \in Seq(Int)
        BY SinksAre
    <2> HIDE DEF v
    <2>3. /\ DOMAIN new = OptionFields /\ DOMAIN new.set = Settings
          /\ new.set["TraceProjectID"]
                \in {Unset} \cup {Val(y) : y \in SettingArgs["TraceProjectID"]}
          /\ new.sinks \in Seq(Int)
        BY <2>2, NamesAre DEF OptionFields
    <2>4. /\ ~IsRedirect(opt) /\ new.writer = o.writer
          /\ new.filePath = o.filePath /\ new.external = o.external
        BY DEF OptionFields, IsRedirect
    <2>5. ~IsAsync(opt) /\ new.async = o.async /\ new.onFile = o.onFile
        BY DEF OptionFields, IsAsync
    <2>6. /\ ~IsGroup(opt) /\ ~IsAttrs(opt)
          /\ new.attrs = o.attrs /\ new.groups = o.groups
        BY DEF OptionFields, IsGroup, IsAttrs
    <2>8. ~IsMiddleware(opt) /\ new.mws = o.mws
        BY DEF OptionFields, IsMiddleware
    <2> HIDE DEF opt, new
    <2>7. Effect(opt, new)
        BY <2>1, <2>3, <2>4, <2>5, <2>6, <2>8 DEF Effect
    <2> QED
        BY <2>7
<1>7. ASSUME NEW onFile \in BOOLEAN, NEW as, WithAsync(onFile, as) PROVE E
    <2> DEFINE v == o.asyncOpts \o as
               opt == [opt |-> "Async", onFile |-> onFile, as |-> as]
               new == [o EXCEPT !.async = TRUE, !.onFile = onFile,
                                !.asyncOpts = v]
    <2>1. opts' = Append(opts, opt) /\ o' = new
        BY <1>7 DEF WithAsync, OptionFields
    <2> HIDE DEF v
    <2>3. /\ DOMAIN new = OptionFields /\ DOMAIN new.set = Settings
          /\ new.set["TraceProjectID"]
                \in {Unset} \cup {Val(y) : y \in SettingArgs["TraceProjectID"]}
          /\ new.sinks \in Seq(Int)
        BY NamesAre DEF OptionFields
    <2>4. /\ ~IsRedirect(opt) /\ new.writer = o.writer
          /\ new.filePath = o.filePath /\ new.external = o.external
        BY DEF OptionFields, IsRedirect
    <2>5. opt.opt = "Async" /\ new.async /\ (new.onFile <=> opt.onFile)
        BY DEF OptionFields
    <2>6. /\ ~IsGroup(opt) /\ ~IsAttrs(opt)
          /\ new.attrs = o.attrs /\ new.groups = o.groups
        BY DEF OptionFields, IsGroup, IsAttrs
    <2>8. ~IsMiddleware(opt) /\ new.mws = o.mws
        BY DEF OptionFields, IsMiddleware
    <2> HIDE DEF opt, new
    <2>7. Effect(opt, new)
        BY <2>1, <2>3, <2>4, <2>5, <2>6, <2>8 DEF Effect
    <2> QED
        BY <2>7
<1>8. ASSUME WithAttrs("a") PROVE E
    <2> DEFINE v == Append(o.attrs, [groups |-> o.groups, attr |-> "a"])
               opt == [opt |-> "Attrs", attr |-> "a"]
               new == [o EXCEPT !.attrs = v]
    <2>1. opts' = Append(opts, opt) /\ o' = new
        BY <1>8 DEF WithAttrs, OptionFields
    <2> HIDE DEF v
    <2>3. /\ DOMAIN new = OptionFields /\ DOMAIN new.set = Settings
          /\ new.set["TraceProjectID"]
                \in {Unset} \cup {Val(y) : y \in SettingArgs["TraceProjectID"]}
          /\ new.sinks \in Seq(Int)
        BY NamesAre DEF OptionFields
    <2>4. /\ ~IsRedirect(opt) /\ new.writer = o.writer
          /\ new.filePath = o.filePath /\ new.external = o.external
        BY DEF OptionFields, IsRedirect
    <2>5. ~IsAsync(opt) /\ new.async = o.async /\ new.onFile = o.onFile
        BY DEF OptionFields, IsAsync
    <2>6. /\ IsAttrs(opt) /\ ~IsGroup(opt) /\ new.groups = o.groups
          /\ \E a : new.attrs = Append(o.attrs, [groups |-> o.groups, attr |-> a])
        BY DEF OptionFields, IsGroup, IsAttrs, v
    <2>8. ~IsMiddleware(opt) /\ new.mws = o.mws
        BY DEF OptionFields, IsMiddleware
    <2> HIDE DEF opt, new
    <2>7. Effect(opt, new)
        BY <2>1, <2>3, <2>4, <2>5, <2>6, <2>8 DEF Effect
    <2> QED
        BY <2>7
<1>9. ASSUME NEW name, WithGroup(name) PROVE E
    <2> DEFINE v == IF name = "" THEN <<>> ELSE Append(o.groups, name)
               opt == [opt |-> "Group", name |-> name]
               new == [o EXCEPT !.groups = v]
    <2>1. opts' = Append(opts, opt) /\ o' = new
        BY <1>9 DEF WithGroup, OptionFields
    <2> HIDE DEF v
    <2>3. /\ DOMAIN new = OptionFields /\ DOMAIN new.set = Settings
          /\ new.set["TraceProjectID"]
                \in {Unset} \cup {Val(y) : y \in SettingArgs["TraceProjectID"]}
          /\ new.sinks \in Seq(Int)
        BY NamesAre DEF OptionFields
    <2>4. /\ ~IsRedirect(opt) /\ new.writer = o.writer
          /\ new.filePath = o.filePath /\ new.external = o.external
        BY DEF OptionFields, IsRedirect
    <2>5. ~IsAsync(opt) /\ new.async = o.async /\ new.onFile = o.onFile
        BY DEF OptionFields, IsAsync
    <2>6. /\ IsGroup(opt) /\ ~IsAttrs(opt) /\ new.attrs = o.attrs
          /\ new.groups = IF opt.name = "" THEN <<>> ELSE Append(o.groups, opt.name)
        BY DEF OptionFields, IsGroup, IsAttrs, v
    <2>8. ~IsMiddleware(opt) /\ new.mws = o.mws
        BY DEF OptionFields, IsMiddleware
    <2> HIDE DEF opt, new
    <2>7. Effect(opt, new)
        BY <2>1, <2>3, <2>4, <2>5, <2>6, <2>8 DEF Effect
    <2> QED
        BY <2>7
<1>10. ASSUME NEW v, NEW e, SetEnv(v, e) PROVE UNCHANGED <<opts, o>>
    BY <1>10 DEF SetEnv
<1> HIDE DEF E
<1> QED
    BY <1>1, <1>2, <1>3, <1>4, <1>5, <1>6, <1>7, <1>8, <1>9, <1>10
       DEF Collect, Writers, E

-----------------------------------------------------------------------------
(* Collecting.                                                             *)

(* The option list with one more option.                                   *)
LEMMA AppendIs ==
    ASSUME NEW s, IsSeq(s), NEW x
    PROVE  /\ IsSeq(Append(s, x)) /\ Len(s) \in Nat
           /\ Len(Append(s, x)) = Len(s) + 1
           /\ Append(s, x)[Len(s) + 1] = x
           /\ \A i \in 1..Len(s) : Append(s, x)[i] = s[i]
<1>1. PICK S : s \in Seq(S)
    BY DEF IsSeq
<1> DEFINE T == S \cup {x}
<1>2. s \in Seq(T) /\ x \in T
    BY <1>1
<1> HIDE DEF T
<1>3. Append(s, x) \in Seq(T)
    BY <1>2
<1> QED
    BY <1>2, <1>3 DEF IsSeq

(* The last element of a kind, with one more element.                      *)
LEMMA LastIs ==
    ASSUME NEW n \in Nat, NEW I \in SUBSET (1..n)
    PROVE  Max(I \cup {n + 1}) = n + 1
<1>1. \A y \in I \cup {n + 1} : n + 1 >= y /\ y \in Int
    OBVIOUS
<1>2. \A m \in I \cup {n + 1} :
          (\A y \in I \cup {n + 1} : m >= y) => m = n + 1
    BY <1>1
<1> QED
    BY <1>1, <1>2 DEF Max

(* The last redirect option, with one more option.                         *)
LEMMA LastRedirectIs ==
    ASSUME IsSeq(opts), NEW x, opts' = Append(opts, x)
    PROVE  LastRedirect' = IF IsRedirect(x) THEN Len(opts) + 1 ELSE LastRedirect
<1> DEFINE I  == {i \in 1..Len(opts) : IsRedirect(opts[i])}
           n  == Len(opts)
           J  == {i \in 1..Len(opts') : IsRedirect(opts'[i])}
<1>1. /\ n \in Nat /\ Len(opts') = n + 1 /\ opts'[n + 1] = x
      /\ \A i \in 1..n : opts'[i] = opts[i]
    BY AppendIs
<1>2. I \in SUBSET (1..n)
    OBVIOUS
<1>3. LastRedirect = IF I # {} THEN Max(I) ELSE 0
    BY DEF LastRedirect, SelectLastInSeq
<1>4. LastRedirect' = IF J # {} THEN Max(J) ELSE 0
    BY DEF LastRedirect, SelectLastInSeq, IsRedirect
<1>5. 1..(n + 1) = (1..n) \cup {n + 1}
    BY <1>1
<1>6. J = IF IsRedirect(x) THEN I \cup {n + 1} ELSE I
    BY <1>1, <1>5
<1> HIDE DEF I, J, n
<1>7. Max(I \cup {n + 1}) = n + 1
    BY <1>1, <1>2, LastIs
<1> QED
    BY <1>3, <1>4, <1>6, <1>7 DEF n

(* The last asynchronous option, with one more option.                     *)
LEMMA LastAsyncIs ==
    ASSUME IsSeq(opts), NEW x, opts' = Append(opts, x)
    PROVE  LastAsync' = IF IsAsync(x) THEN Len(opts) + 1 ELSE LastAsync
<1> DEFINE I  == {i \in 1..Len(opts) : IsAsync(opts[i])}
           n  == Len(opts)
           J  == {i \in 1..Len(opts') : IsAsync(opts'[i])}
<1>1. /\ n \in Nat /\ Len(opts') = n + 1 /\ opts'[n + 1] = x
      /\ \A i \in 1..n : opts'[i] = opts[i]
    BY AppendIs
<1>2. I \in SUBSET (1..n)
    OBVIOUS
<1>3. LastAsync = IF I # {} THEN Max(I) ELSE 0
    BY DEF LastAsync, SelectLastInSeq
<1>4. LastAsync' = IF J # {} THEN Max(J) ELSE 0
    BY DEF LastAsync, SelectLastInSeq, IsAsync
<1>5. 1..(n + 1) = (1..n) \cup {n + 1}
    BY <1>1
<1>6. J = IF IsAsync(x) THEN I \cup {n + 1} ELSE I
    BY <1>1, <1>5
<1> HIDE DEF I, J, n
<1>7. Max(I \cup {n + 1}) = n + 1
    BY <1>1, <1>2, LastIs
<1> QED
    BY <1>3, <1>4, <1>6, <1>7 DEF n

(* Collecting leaves the outside and the construction alone.               *)
LEMMA CollectIs ==
    ASSUME Collect
    PROVE  /\ phase = "options"
           /\ UNCHANGED <<runtime, exporter, defaultW, phase, file, levelVar, h,
                          queued, delivery>>
    BY DEF Collect, SetEnv, Given, Setting, WithSetting, WithLevelVar, WithRedirectWriter,
           WithRedirectToFile, WithMiddleware, WithAdditionalHandler, WithAsync, WithAttrs,
           WithGroup

(* A variable holds what its parser was given.                             *)
LEMMA EnvStep ==
    ASSUME EnvTypes, Collect
    PROVE  EnvTypes'
<1> USE DEF EnvTypes
<1>1. UNCHANGED <<runtime, exporter, defaultW>>
    BY CollectIs
<1>2. ASSUME NEW v \in EnvVars, NEW e \in EnvOf(v),
             v = "SLOGCP_TRACE_PROJECT_ID" => e # Bad, SetEnv(v, e)
      PROVE  EnvTypes'
    <2>1. env' = [env EXCEPT ![v] = e]
        BY <1>2 DEF SetEnv
    <2>2. DOMAIN env' = EnvVars /\ \A w \in EnvVars : env'[w] \in EnvOf(w)
        BY <2>1, <1>2
    <2>3. env'["SLOGCP_TRACE_PROJECT_ID"] # Bad
        BY <2>1, <1>2, NamesAre
    <2> QED
        BY <1>1, <2>2, <2>3
<1>3. ASSUME UNCHANGED env PROVE EnvTypes'
    BY <1>1, <1>3
<1>4. ASSUME NEW v \in EnvVars, NEW x \in EnvArgs[v], SetEnv(v, Val(x)) PROVE EnvTypes'
    <2>1. Val(x) \in EnvOf(v) /\ Val(x) # Bad
        BY ValuesDiffer DEF EnvOf
    <2> QED
        BY <1>2, <1>4, <2>1
<1>5. ASSUME NEW v \in EnvVars \ ToSet(ProjectVars), SetEnv(v, Bad) PROVE EnvTypes'
    <2>1. "SLOGCP_TRACE_PROJECT_ID" \in ToSet(ProjectVars)
        <3>1. 1 \in DOMAIN ProjectVars /\ ProjectVars[1] = "SLOGCP_TRACE_PROJECT_ID"
            BY DEF ProjectVars
        <3> QED
            BY <3>1 DEF ToSet
    <2>2. Bad \in EnvOf(v)
        BY DEF EnvOf
    <2> QED
        BY <1>2, <1>5, <2>1, <2>2
<1>6. \/ UNCHANGED env
      \/ \E v \in EnvVars : \E x \in EnvArgs[v] : SetEnv(v, Val(x))
      \/ \E v \in EnvVars \ ToSet(ProjectVars) : SetEnv(v, Bad)
    BY DEF Collect, Given, WithSetting, WithLevelVar, WithRedirectWriter, WithRedirectToFile,
           WithMiddleware, WithAdditionalHandler, WithAsync, WithAttrs, WithGroup
<1> QED
    BY <1>3, <1>4, <1>5, <1>6

(* Places in the option list, and one more place.                          *)
LEMMA RankIs ==
    ASSUME NEW n \in Nat, NEW S \in SUBSET (1..n)
    PROVE  /\ Cardinality(S) \in Nat
           /\ Cardinality(S \cup {n + 1}) = Cardinality(S) + 1
           /\ Rank(S \cup {n + 1}, n + 1) = Cardinality(S) + 1
           /\ \A i \in S : /\ Rank(S \cup {n + 1}, i) = Rank(S, i)
                           /\ Rank(S, i) \in 1..Cardinality(S)
<1>1. IsFiniteSet(1..n)
    BY FS_Interval
<1>2. IsFiniteSet(S)
    BY <1>1, FS_Subset
<1>3. Cardinality(S) \in Nat
    BY <1>2, FS_CardinalityType
<1>4. n + 1 \notin S
    OBVIOUS
<1>5. Cardinality(S \cup {n + 1}) = Cardinality(S) + 1
    BY <1>2, <1>4, FS_AddElement
<1>6. {j \in S \cup {n + 1} : j <= n + 1} = S \cup {n + 1}
    <2>1. \A j \in S \cup {n + 1} : j <= n + 1
        OBVIOUS
    <2> QED
        BY <2>1
<1>7. Rank(S \cup {n + 1}, n + 1) = Cardinality(S) + 1
    BY <1>5, <1>6 DEF Rank
<1>8. ASSUME NEW i \in S
      PROVE  /\ Rank(S \cup {n + 1}, i) = Rank(S, i)
             /\ Rank(S, i) \in 1..Cardinality(S)
    <2> DEFINE T == {j \in S : j <= i}
    <2>1. {j \in S \cup {n + 1} : j <= i} = T
        OBVIOUS
    <2>2. T \subseteq S /\ i \in T
        OBVIOUS
    <2> HIDE DEF T
    <2>3. IsFiniteSet(T) /\ Cardinality(T) <= Cardinality(S)
        BY <1>2, <2>2, FS_Subset
    <2>4. Cardinality(T) \in Nat
        BY <2>3, FS_CardinalityType
    <2>5. Cardinality(T) # 0
        BY <2>2, <2>3, FS_EmptySet
    <2>6. Cardinality(T) \in 1..Cardinality(S)
        BY <1>3, <2>3, <2>4, <2>5
    <2> QED
        BY <2>1, <2>6 DEF Rank, T
<1> QED
    BY <1>3, <1>5, <1>7, <1>8

(* names are those of the options at the places S, in order.               *)
ListsAt(names, S, os) ==
    /\ Len(names) = Cardinality(S)
    /\ \A i \in S : names[Rank(S, i)] = os[i].name

(* The groups that are open, and the attributes, with one more option.     *)
LEMMA OpenIs ==
    ASSUME IsSeq(opts), NEW n, n = Len(opts), NEW x, opts' = Append(opts, x)
    PROVE  /\ \A k \in 1..n : Open(k)' = Open(k)
           /\ Open(n + 1)' = IF ~IsGroup(x) THEN Open(n)
                             ELSE IF x.name = "" THEN {} ELSE Open(n) \cup {n + 1}
           /\ Places' = IF IsAttrs(x) THEN Places \cup {n + 1} ELSE Places
<1>1. /\ n \in Nat /\ Len(opts') = n + 1 /\ opts'[n + 1] = x
      /\ \A i \in 1..n : opts'[i] = opts[i]
    BY AppendIs
<1>2. \A k \in 1..n : Open(k)' = Open(k)
    <2> SUFFICES ASSUME NEW k \in 1..n PROVE Open(k)' = Open(k)
        OBVIOUS
    <2>1. \A i \in 1..k : i \in 1..n /\ \A j \in i..k : j \in 1..n
        BY <1>1
    <2> QED
        BY <1>1, <2>1 DEF Open, IsGroup
<1>3. /\ \A i \in 1..n : i \in 1..(n + 1) /\ i..(n + 1) = (i..n) \cup {n + 1}
      /\ \A i \in 1..n : \A j \in i..n : j \in 1..n
      /\ 1..(n + 1) = (1..n) \cup {n + 1} /\ (n + 1)..(n + 1) = {n + 1}
      /\ n + 1 \notin 1..n
    BY <1>1
<1>4. ASSUME NEW i \in 1..n
      PROVE  i \in Open(n + 1)' <=> i \in Open(n) /\ (IsGroup(x) => x.name # "")
    <2>1. i \in Open(n + 1)' <=>
              /\ IsGroup(opts'[i])
              /\ \A j \in i..(n + 1) : IsGroup(opts'[j]) => opts'[j].name # ""
        BY <1>3 DEF Open, IsGroup
    <2>2. i \in Open(n) <=>
              /\ IsGroup(opts[i])
              /\ \A j \in i..n : IsGroup(opts[j]) => opts[j].name # ""
        BY DEF Open
    <2>3. opts'[i] = opts[i] /\ \A j \in i..n : opts'[j] = opts[j]
        BY <1>1, <1>3
    <2>4. (\A j \in i..(n + 1) : IsGroup(opts'[j]) => opts'[j].name # "")
          <=> /\ \A j \in i..n : IsGroup(opts[j]) => opts[j].name # ""
              /\ IsGroup(x) => x.name # ""
        <3>1. i..(n + 1) = (i..n) \cup {n + 1}
            BY <1>3
        <3>2. opts'[n + 1] = x
            BY <1>1
        <3> QED
            BY <2>3, <3>1, <3>2
    <2> QED
        BY <2>1, <2>2, <2>3, <2>4
<1>5. n + 1 \in Open(n + 1)' <=> IsGroup(x) /\ x.name # ""
    <2>1. n + 1 \in Open(n + 1)' <=>
              /\ IsGroup(opts'[n + 1])
              /\ \A j \in (n + 1)..(n + 1) : IsGroup(opts'[j]) => opts'[j].name # ""
        BY <1>3 DEF Open, IsGroup
    <2> QED
        BY <1>1, <1>3, <2>1
<1>6. Open(n + 1)' \subseteq (1..n) \cup {n + 1} /\ Open(n) \subseteq 1..n
    BY <1>3 DEF Open
<1>7. Open(n + 1)' = IF ~IsGroup(x) THEN Open(n)
                    ELSE IF x.name = "" THEN {} ELSE Open(n) \cup {n + 1}
    <2>1. CASE ~IsGroup(x)
        <3>1. \A i \in (1..n) \cup {n + 1} : i \in Open(n + 1)' <=> i \in Open(n)
            BY <1>3, <1>4, <1>5, <1>6, <2>1
        <3> QED
            BY <1>6, <2>1, <3>1
    <2>2. CASE IsGroup(x) /\ x.name = ""
        BY <1>4, <1>5, <1>6, <2>2
    <2>3. CASE IsGroup(x) /\ x.name # ""
        BY <1>4, <1>5, <1>6, <2>3
    <2> QED
        BY <2>1, <2>2, <2>3
<1>8. Places' = IF IsAttrs(x) THEN Places \cup {n + 1} ELSE Places
    BY <1>1, <1>3 DEF Places, IsAttrs
<1> QED
    BY <1>2, <1>7, <1>8

(* Attributes keep the groups of their places.                             *)
LEMMA GroupStep ==
    ASSUME IsSeq(opts), GroupsInv, PlacesInv, NEW opt, NEW new, Effect(opt, new)
    PROVE  GroupsInv' /\ PlacesInv'
<1>1. PICK n : n = Len(opts)
    OBVIOUS
<1> DEFINE S == Open(n)
           P == Places
           g == o.groups
           a == o.attrs
<1>2. opts' = Append(opts, opt) /\ o' = new
    BY DEF Effect
<1>3. /\ n \in Nat /\ Len(opts') = n + 1 /\ opts'[n + 1] = opt
      /\ \A i \in 1..n : opts'[i] = opts[i]
    BY <1>1, <1>2, AppendIs
<1>4. /\ \A k \in 1..n : Open(k)' = Open(k)
      /\ Open(n + 1)' = IF ~IsGroup(opt) THEN S
                        ELSE IF opt.name = "" THEN {} ELSE S \cup {n + 1}
      /\ Places' = IF IsAttrs(opt) THEN P \cup {n + 1} ELSE P
    BY <1>1, <1>2, OpenIs
<1>5. \/ /\ IsGroup(opt) /\ ~IsAttrs(opt) /\ new.attrs = a
         /\ new.groups = IF opt.name = "" THEN <<>> ELSE Append(g, opt.name)
      \/ /\ IsAttrs(opt) /\ ~IsGroup(opt) /\ new.groups = g
         /\ \E x : new.attrs = Append(a, [groups |-> g, attr |-> x])
      \/ /\ ~IsGroup(opt) /\ ~IsAttrs(opt)
         /\ new.attrs = a /\ new.groups = g
    BY DEF Effect
<1>6. IsSeq(g) /\ ListsAt(g, S, opts)
    BY <1>1 DEF GroupsInv, ListsOpen, ListsAt
<1>7. /\ IsSeq(a) /\ Len(a) = Cardinality(P)
      /\ \A i \in P : ListsAt(a[Rank(P, i)].groups, Open(i), opts)
    BY DEF PlacesInv, ListsOpen, ListsAt
<1>8. S \in SUBSET (1..n) /\ P \in SUBSET (1..n)
    BY <1>1 DEF Open, Places
<1>9. \A k \in 1..n : Open(k) \in SUBSET (1..n)
    <2>1. \A k \in 1..n : 1..k \subseteq 1..n
        BY <1>3
    <2>2. \A k : Open(k) \subseteq 1..k
        BY DEF Open
    <2> QED
        BY <2>1, <2>2
<1>10. (IsSeq(new.groups) /\ ListsAt(new.groups, Open(n + 1)', opts')) => GroupsInv'
    BY <1>2, <1>3 DEF GroupsInv, ListsOpen, ListsAt
<1>11. (/\ IsSeq(new.attrs) /\ Len(new.attrs) = Cardinality(Places')
        /\ \A i \in Places' :
              ListsAt(new.attrs[Rank(Places', i)].groups, Open(i)', opts'))
       => PlacesInv'
    BY <1>2 DEF PlacesInv, ListsOpen, ListsAt
<1> HIDE DEF S, P, g, a
<1>12. ASSUME NEW names, NEW T \in SUBSET (1..n), ListsAt(names, T, opts)
       PROVE  ListsAt(names, T, opts')
    BY <1>3, <1>12 DEF ListsAt
<1>13. ListsAt(g, S, opts')
    BY <1>6, <1>8, <1>12
<1>14. \A i \in P : ListsAt(a[Rank(P, i)].groups, Open(i)', opts')
    BY <1>4, <1>7, <1>8, <1>9, <1>12
<1>15. CASE IsGroup(opt) /\ ~IsAttrs(opt) /\ new.attrs = a
            /\ new.groups = IF opt.name = "" THEN <<>> ELSE Append(g, opt.name)
    <2>1. PlacesInv'
        BY <1>4, <1>7, <1>11, <1>14, <1>15
    <2>2. CASE opt.name = ""
        <3>1. Open(n + 1)' = {} /\ new.groups = <<>>
            BY <1>4, <1>15, <2>2
        <3>2. ListsAt(<<>>, {}, opts')
            BY FS_EmptySet DEF ListsAt
        <3>3. IsSeq(<<>>)
            <4>1. <<>> \in Seq(Int)
                OBVIOUS
            <4> QED
                BY <4>1 DEF IsSeq
        <3> QED
            BY <1>10, <2>1, <3>1, <3>2, <3>3
    <2>3. CASE opt.name # ""
        <3> DEFINE r == Append(g, opt.name)
        <3>1. Open(n + 1)' = S \cup {n + 1} /\ new.groups = r
            BY <1>4, <1>15, <2>3
        <3>2. /\ IsSeq(r) /\ Len(g) \in Nat /\ Len(r) = Len(g) + 1
              /\ r[Len(g) + 1] = opt.name
              /\ \A i \in 1..Len(g) : r[i] = g[i]
            BY <1>6, AppendIs
        <3> HIDE DEF r
        <3>3. /\ Cardinality(S \cup {n + 1}) = Cardinality(S) + 1
              /\ Rank(S \cup {n + 1}, n + 1) = Cardinality(S) + 1
              /\ \A i \in S : /\ Rank(S \cup {n + 1}, i) = Rank(S, i)
                              /\ Rank(S, i) \in 1..Cardinality(S)
            BY <1>3, <1>8, RankIs
        <3>4. Len(g) = Cardinality(S)
            BY <1>6 DEF ListsAt
        <3>5. \A i \in S : r[Rank(S \cup {n + 1}, i)] = opts'[i].name
            BY <1>13, <3>2, <3>3, <3>4 DEF ListsAt
        <3>6. r[Rank(S \cup {n + 1}, n + 1)] = opts'[n + 1].name
            BY <1>3, <3>2, <3>3, <3>4
        <3>7. ListsAt(r, S \cup {n + 1}, opts')
            BY <3>2, <3>3, <3>4, <3>5, <3>6 DEF ListsAt
        <3> QED
            BY <1>10, <2>1, <3>1, <3>2, <3>7
    <2> QED
        BY <2>2, <2>3
<1>16. CASE IsAttrs(opt) /\ ~IsGroup(opt) /\ new.groups = g
            /\ \E x : new.attrs = Append(a, [groups |-> g, attr |-> x])
    <2>1. GroupsInv'
        BY <1>4, <1>6, <1>10, <1>13, <1>16
    <2>2. PICK x : new.attrs = Append(a, [groups |-> g, attr |-> x])
        BY <1>16
    <2> DEFINE e == [groups |-> g, attr |-> x]
               r == Append(a, e)
    <2>3. e.groups = g
        OBVIOUS
    <2> HIDE DEF e
    <2>4. /\ IsSeq(r) /\ Len(a) \in Nat /\ Len(r) = Len(a) + 1
          /\ r[Len(a) + 1] = e
          /\ \A i \in 1..Len(a) : r[i] = a[i]
        BY <1>7, AppendIs
    <2>5. new.attrs = r
        BY <2>2 DEF e
    <2> HIDE DEF r
    <2>6. /\ Cardinality(P \cup {n + 1}) = Cardinality(P) + 1
          /\ Rank(P \cup {n + 1}, n + 1) = Cardinality(P) + 1
          /\ \A i \in P : /\ Rank(P \cup {n + 1}, i) = Rank(P, i)
                          /\ Rank(P, i) \in 1..Cardinality(P)
        BY <1>3, <1>8, RankIs
    <2>7. Places' = P \cup {n + 1} /\ Open(n + 1)' = S
        BY <1>4, <1>16
    <2>8. \A i \in P : r[Rank(P \cup {n + 1}, i)] = a[Rank(P, i)]
        BY <1>7, <2>4, <2>6
    <2>9. r[Rank(P \cup {n + 1}, n + 1)].groups = g
        BY <1>7, <2>3, <2>4, <2>6
    <2>10. \A i \in P \cup {n + 1} :
              ListsAt(r[Rank(P \cup {n + 1}, i)].groups, Open(i)', opts')
        BY <1>13, <1>14, <2>7, <2>8, <2>9
    <2>11. PlacesInv'
        BY <1>7, <1>11, <2>4, <2>5, <2>6, <2>7, <2>10
    <2> QED
        BY <2>1, <2>11
<1>17. CASE ~IsGroup(opt) /\ ~IsAttrs(opt) /\ new.attrs = a /\ new.groups = g
    <2>1. GroupsInv'
        BY <1>4, <1>6, <1>10, <1>13, <1>17
    <2>2. PlacesInv'
        BY <1>4, <1>7, <1>11, <1>14, <1>17
    <2> QED
        BY <2>1, <2>2
<1> QED
    BY <1>5, <1>15, <1>16, <1>17

(* One more middleware goes to the end of the others.                      *)
LEMMA MwsStep ==
    ASSUME IsSeq(opts), MwsInv, NEW opt, NEW new, Effect(opt, new)
    PROVE  MwsInv'
<1> DEFINE n == Len(opts)
           w == o.mws
           m == Len(w)
<1>1. /\ opts' = Append(opts, opt) /\ o' = new
      /\ new.mws = IF IsMiddleware(opt) THEN Append(w, n + 1) ELSE w
    BY DEF Effect
<1>2. /\ n \in Nat /\ Len(opts') = n + 1 /\ opts'[n + 1] = opt
      /\ \A i \in 1..n : opts'[i] = opts[i]
    BY <1>1, AppendIs
<1>a. w \in Seq(Nat)
    BY DEF MwsInv
<1>b. /\ \A j, k \in 1..m : j < k => w[j] < w[k]
      /\ \A k \in 1..m : w[k] \in 1..n
    BY DEF MwsInv
<1>c. \A i \in 1..n : IsMiddleware(opts[i]) <=> \E k \in 1..m : w[k] = i
    BY DEF MwsInv
<1>3. /\ w \in Seq(Nat) /\ m \in Nat
      /\ \A j, k \in 1..m : j < k => w[j] < w[k]
      /\ \A k \in 1..m : w[k] \in 1..n
      /\ \A i \in 1..n : IsMiddleware(opts[i]) <=> \E k \in 1..m : w[k] = i
    BY <1>a, <1>b, <1>c
<1>4. \A i \in 1..n : IsMiddleware(opts'[i]) <=> IsMiddleware(opts[i])
    BY <1>2
<1> DEFINE q == new.mws
<1> HIDE DEF n, w, m, q
<1>5. CASE IsMiddleware(opt)
    <2>1. q = Append(w, n + 1)
        BY <1>1, <1>5 DEF q
    <2>2. /\ q \in Seq(Nat) /\ Len(q) = m + 1 /\ q[m + 1] = n + 1
          /\ \A k \in 1..m : q[k] = w[k]
        BY <1>2, <1>3, <2>1 DEF m
    <2>3. ASSUME NEW j \in 1..Len(q), NEW k \in 1..Len(q), j < k PROVE q[j] < q[k]
        <3>1. j \in 1..m
            BY <1>3, <2>2, <2>3
        <3>2. CASE k = m + 1
            BY <1>2, <1>3, <2>2, <3>1, <3>2
        <3>3. CASE k # m + 1
            <4>1. k \in 1..m
                BY <1>3, <2>2, <3>3
            <4> QED
                BY <1>3, <2>2, <2>3, <3>1, <4>1
        <3> QED
            BY <3>2, <3>3
    <2>4. ASSUME NEW k \in 1..Len(q) PROVE q[k] \in 1..(n + 1)
        <3>1. CASE k = m + 1
            BY <1>2, <2>2, <3>1
        <3>2. CASE k # m + 1
            <4>1. k \in 1..m
                BY <1>3, <2>2, <3>2
            <4>2. w[k] \in 1..n /\ q[k] = w[k]
                BY <1>3, <2>2, <4>1
            <4> QED
                BY <1>2, <4>2
        <3> QED
            BY <3>1, <3>2
    <2>5. ASSUME NEW i \in 1..(n + 1)
          PROVE  IsMiddleware(opts'[i]) <=> \E k \in 1..Len(q) : q[k] = i
        <3>1. CASE i = n + 1
            <4>1. m + 1 \in 1..Len(q)
                BY <1>3, <2>2
            <4> QED
                BY <1>2, <1>5, <2>2, <3>1, <4>1
        <3>2. CASE i # n + 1
            <4>1. i \in 1..n
                BY <1>2, <3>2
            <4>3. \A k \in 1..Len(q) : q[k] = i => k \in 1..m /\ w[k] = i
                BY <1>3, <2>2, <3>2
            <4>4. \A k \in 1..m : k \in 1..Len(q) /\ q[k] = w[k]
                BY <1>3, <2>2
            <4>2. (\E k \in 1..Len(q) : q[k] = i) <=> \E k \in 1..m : w[k] = i
                BY <4>3, <4>4
            <4> QED
                BY <1>3, <1>4, <4>1, <4>2
        <3> QED
            BY <3>1, <3>2
    <2> QED
        BY <1>1, <1>2, <2>2, <2>3, <2>4, <2>5 DEF MwsInv, q
<1>6. CASE ~IsMiddleware(opt)
    <2>1. q = w
        BY <1>1, <1>6 DEF q
    <2>2. \A k \in 1..m : q[k] \in 1..(n + 1)
        BY <1>2, <1>3, <2>1
    <2>3. ASSUME NEW i \in 1..(n + 1)
          PROVE  IsMiddleware(opts'[i]) <=> \E k \in 1..m : q[k] = i
        <3>1. CASE i = n + 1
            BY <1>2, <1>3, <1>6, <2>1, <3>1
        <3>2. CASE i # n + 1
            <4>1. i \in 1..n
                BY <1>2, <3>2
            <4> QED
                BY <1>3, <1>4, <2>1, <4>1
        <3> QED
            BY <3>1, <3>2
    <2> QED
        BY <1>1, <1>2, <1>3, <2>1, <2>2, <2>3 DEF MwsInv, q, m
<1> QED
    BY <1>5, <1>6

(* Nothing that the properties of the options speak of has changed.        *)
LEMMA OptionsKept ==
    ASSUME OptionTypes, OptionsInv, UNCHANGED <<opts, o>>
    PROVE  OptionTypes' /\ OptionsInv'
<1> USE DEF OptionsInv
<1>1. LastRedirect' = LastRedirect /\ LastAsync' = LastAsync
    BY DEF LastRedirect, LastAsync, SelectLastInSeq, IsRedirect, IsAsync
<1>2. OptionTypes'
    BY DEF OptionTypes, IsSeq
<1>3. RedirectInv'
    BY <1>1 DEF RedirectInv
<1>4. AsyncInv'
    BY <1>1 DEF AsyncInv
<1>5. Places' = Places /\ \A k : Open(k)' = Open(k)
    BY DEF Places, Open, IsAttrs, IsGroup
<1>6. GroupsInv' /\ PlacesInv'
    BY <1>5 DEF GroupsInv, PlacesInv, ListsOpen, IsSeq
<1>7. MwsInv'
    BY DEF MwsInv, IsMiddleware
<1> QED
    BY <1>2, <1>3, <1>4, <1>6, <1>7

(* The options struct follows the list.                                    *)
LEMMA OptionStep ==
    ASSUME OptionTypes, OptionsInv, Collect
    PROVE  OptionTypes' /\ OptionsInv'
<1> USE DEF OptionsInv
<1>1. CASE UNCHANGED <<opts, o>>
    BY <1>1, OptionsKept
<1>2. CASE \E opt, new : Effect(opt, new)
    <2>1. PICK opt, new : Effect(opt, new)
        BY <1>2
    <2> DEFINE n == Len(opts)
    <2>2. opts' = Append(opts, opt) /\ o' = new
        BY <2>1 DEF Effect
    <2>3. IsSeq(opts)
        BY DEF OptionTypes
    <2>4. /\ IsSeq(opts') /\ n \in Nat /\ Len(opts') = n + 1 /\ opts'[n + 1] = opt
          /\ \A i \in 1..n : opts'[i] = opts[i]
        BY <2>2, <2>3, AppendIs
    <2>5. LastRedirect' = IF IsRedirect(opt) THEN n + 1 ELSE LastRedirect
        BY <2>2, <2>3, LastRedirectIs
    <2>6. LastAsync' = IF IsAsync(opt) THEN n + 1 ELSE LastAsync
        BY <2>2, <2>3, LastAsyncIs
    <2>7. /\ DOMAIN new = OptionFields /\ DOMAIN new.set = Settings
          /\ new.set["TraceProjectID"]
                \in {Unset} \cup {Val(x) : x \in SettingArgs["TraceProjectID"]}
          /\ new.sinks \in Seq(Int)
        BY <2>1 DEF Effect
    <2>8. \/ /\ opt.opt = "Writer" /\ new.writer = opt.to /\ opt.to \in Writers
             /\ new.filePath = Unset /\ new.external
          \/ /\ opt.opt = "File" /\ new.writer = "none"
             /\ opt.to \in {"opt", ""} /\ new.filePath = Val(opt.to)
          \/ /\ ~IsRedirect(opt) /\ new.writer = o.writer
             /\ new.filePath = o.filePath /\ new.external = o.external
        BY <2>1 DEF Effect
    <2>9. \/ opt.opt = "Async" /\ new.async /\ (new.onFile <=> opt.onFile)
          \/ ~IsAsync(opt) /\ new.async = o.async /\ new.onFile = o.onFile
        BY <2>1 DEF Effect
    <2> HIDE DEF n
    <2>10. /\ new.writer \in Writers
           /\ new.filePath \in {Unset, Val("opt"), Val("")}
           /\ new.writer # "none" => new.filePath = Unset /\ new.external
        BY <2>8 DEF OptionTypes, Writers
    <2>11. OptionTypes'
        BY <2>2, <2>4, <2>7, <2>10 DEF OptionTypes
    <2>12. RedirectInv'
        <3>1. CASE IsRedirect(opt)
            <4>1. LastRedirect' = n + 1 /\ n + 1 # 0 /\ n + 1 \in 1..Len(opts')
                BY <2>4, <2>5, <3>1
            <4>2. \/ opt.opt = "Writer" /\ new.writer = opt.to /\ new.filePath = Unset
                  \/ opt.opt = "File" /\ new.writer = "none" /\ new.filePath = Val(opt.to)
                BY <2>8, <3>1
            <4> QED
                BY <2>2, <2>4, <4>1, <4>2 DEF RedirectInv
        <3>2. CASE ~IsRedirect(opt)
            <4>1. LastRedirect' = LastRedirect
                BY <2>5, <3>2
            <4>2. new.writer = o.writer /\ new.filePath = o.filePath
                BY <2>8, <3>2 DEF IsRedirect
            <4>3. LastRedirect # 0 => LastRedirect \in 1..Len(opts')
                BY <2>4 DEF RedirectInv, n
            <4>4. LastRedirect # 0 => opts'[LastRedirect] = opts[LastRedirect]
                BY <2>4 DEF RedirectInv, n
            <4> QED
                BY <2>2, <4>1, <4>2, <4>3, <4>4 DEF RedirectInv
        <3> QED
            BY <3>1, <3>2
    <2>13. AsyncInv'
        <3>1. CASE IsAsync(opt)
            <4>1. LastAsync' = n + 1 /\ n + 1 # 0 /\ n + 1 \in 1..Len(opts')
                BY <2>4, <2>6, <3>1
            <4>2. new.async /\ (new.onFile <=> opt.onFile)
                BY <2>9, <3>1
            <4> QED
                BY <2>2, <2>4, <4>1, <4>2 DEF AsyncInv
        <3>2. CASE ~IsAsync(opt)
            <4>1. LastAsync' = LastAsync
                BY <2>6, <3>2
            <4>2. new.async = o.async /\ new.onFile = o.onFile
                BY <2>9, <3>2 DEF IsAsync
            <4>3. LastAsync # 0 => LastAsync \in 1..Len(opts')
                BY <2>4 DEF AsyncInv, n
            <4>4. LastAsync # 0 => opts'[LastAsync] = opts[LastAsync]
                BY <2>4 DEF AsyncInv, n
            <4> QED
                BY <2>2, <4>1, <4>2, <4>3, <4>4 DEF AsyncInv
        <3> QED
            BY <3>1, <3>2
    <2>14. GroupsInv' /\ PlacesInv'
        BY <2>1, <2>3, GroupStep
    <2>15. MwsInv'
        BY <2>1, <2>3, MwsStep
    <2> QED
        BY <2>11, <2>12, <2>13, <2>14, <2>15
<1> QED
    BY <1>1, <1>2, OptionIs

-----------------------------------------------------------------------------
(* The construction and the finished handler.                              *)

(* What the properties compare with depends on the call alone.             *)
LEMMA CallIs ==
    ASSUME UNCHANGED <<env, exporter, defaultW, opts>>
    PROVE  /\ LastRedirect' = LastRedirect /\ LastAsync' = LastAsync
           /\ Chosen' = Chosen /\ AskedOutput' = AskedOutput
           /\ UNCHANGED o => (AsyncAsked' <=> AsyncAsked)
<1>1. LastRedirect' = LastRedirect /\ LastAsync' = LastAsync
    BY DEF LastRedirect, LastAsync, SelectLastInSeq, IsRedirect, IsAsync
<1>2. ChosenByEnv' = ChosenByEnv
    BY DEF ChosenByEnv, Or, Val
<1>3. Chosen' = Chosen
    BY <1>1, <1>2 DEF Chosen
<1>4. AskedOutput' = AskedOutput
    BY <1>3 DEF AskedOutput
<1>5. UNCHANGED o => (AsyncAsked' <=> AsyncAsked)
    BY <1>1, <1>4 DEF AsyncAsked, Or
<1> QED
    BY <1>1, <1>3, <1>4, <1>5

(* Before the construction ends, no property asks anything.                *)
LEMMA NothingYet ==
    ASSUME phase' # "built", delivery' = <<>>, queued' = <<>>,
           phase' = "failed" => file' = "none" /\ levelVar' = LevelWarn
    PROVE  /\ PipelineInv' /\ OutputIsRight' /\ RefusalsAreRight' /\ AsyncIsRight'
           /\ QueuedInv' /\ DeliveryInv'
<1>1. PipelineInv'
    BY DEF PipelineInv, Built
<1>2. OutputIsRight'
    BY DEF OutputIsRight, OutputAsAsked, ClosesOnlyItsOwn, Built
<1>3. RefusalsAreRight'
    BY DEF RefusalsAreRight, FailureIsCleanUnlessStrict, StrictIsCorrelated, Built, LevelWarn
<1>4. AsyncIsRight'
    BY DEF AsyncIsRight, AsyncAsAsked, AsyncConfigIsUsable, Built
<1>5. QueuedInv' /\ DeliveryInv'
    BY DEF QueuedInv, DeliveryInv, SharedLevelGates, FailuresAreTold, MiddlewaresInOrder
<1> QED
    BY <1>1, <1>2, <1>3, <1>4, <1>5

(* Collecting options and variables.                                       *)
LEMMA CollectStep ==
    ASSUME IInv, Collect
    PROVE  IInv'
<1>1. EnvTypes'
    BY EnvStep DEF IInv
<1>2. OptionTypes' /\ OptionsInv'
    BY OptionStep DEF IInv
<1>3. /\ phase' = "options" /\ file' = "none" /\ levelVar' = LevelWarn
      /\ delivery' = <<>> /\ queued' = <<>>
    BY CollectIs DEF IInv, FreshInv
<1>4. FreshInv'
    BY <1>3 DEF FreshInv, LevelWarn
<1> QED
    BY <1>1, <1>2, <1>3, <1>4, NothingYet DEF IInv

(* The early returns of the construction.                                  *)
LEMMA FailStep ==
    ASSUME IInv, InvalidTarget \/ OpenFails
    PROVE  IInv'
<1>1. /\ phase' = "failed"
      /\ UNCHANGED <<env, runtime, exporter, defaultW, opts, o, file, levelVar,
                     queued, delivery>>
      /\ phase = "options"
    BY DEF InvalidTarget, OpenFails, Failed
<1>2. EnvTypes'
    BY <1>1 DEF IInv, EnvTypes, EnvOf
<1>3. OptionTypes' /\ OptionsInv'
    BY <1>1, OptionsKept DEF IInv
<1>4. file' = "none" /\ levelVar' = LevelWarn /\ delivery' = <<>> /\ queued' = <<>>
    BY <1>1 DEF IInv, FreshInv
<1>5. FreshInv'
    BY <1>1, <1>4 DEF FreshInv
<1> QED
    BY <1>1, <1>2, <1>3, <1>4, <1>5, NothingYet DEF IInv

(* The end of the construction.                                            *)
LEMMA BuildStep ==
    ASSUME IInv, NewHandler
    PROVE  IInv'
<1>1. /\ phase = "options" /\ env["SLOGCP_TARGET"] # Bad
      /\ UNCHANGED <<env, runtime, exporter, defaultW, opts, o, queued, delivery>>
      /\ file' = IF Final.filePath # "" THEN "open" ELSE "none"
      /\ \/ phase' = "failed" /\ h' = [err |-> "strict"]
         \/ ~StrictRefuses(Final) /\ phase' = "built" /\ h' = BuildPipeline(Final)
    BY DEF NewHandler, Failed, Final
<1>2. EnvTypes /\ OptionTypes /\ OptionsInv /\ RedirectInv /\ AsyncInv /\ MwsInv /\ FreshInv
    BY DEF IInv, OptionsInv
<1>3. EnvTypes'
    BY <1>1, <1>2 DEF EnvTypes, EnvOf
<1>4. OptionTypes' /\ OptionsInv'
    BY <1>1, <1>2, OptionsKept
<1>5. delivery' = <<>> /\ queued' = <<>>
    BY <1>1, <1>2 DEF FreshInv
<1>6. FreshInv'
    BY <1>1, <1>5 DEF FreshInv
<1>7. QueuedInv' /\ DeliveryInv'
    BY <1>5 DEF QueuedInv, DeliveryInv, SharedLevelGates, FailuresAreTold, MiddlewaresInOrder
<1>8. CASE phase' = "failed" /\ h' = [err |-> "strict"]
    <2>1. PipelineInv'
        BY <1>8 DEF PipelineInv, Built
    <2>2. OutputIsRight'
        BY <1>8 DEF OutputIsRight, OutputAsAsked, ClosesOnlyItsOwn, Built
    <2>3. RefusalsAreRight'
        BY <1>8 DEF RefusalsAreRight, FailureIsCleanUnlessStrict, StrictIsCorrelated, Built
    <2>4. AsyncIsRight'
        BY <1>8 DEF AsyncIsRight, AsyncAsAsked, AsyncConfigIsUsable, Built
    <2> QED
        BY <1>3, <1>4, <1>6, <1>7, <2>1, <2>2, <2>3, <2>4 DEF IInv
<1>9. CASE ~StrictRefuses(Final) /\ phase' = "built" /\ h' = BuildPipeline(Final)
    <2> DEFINE c == Final
               p == BuildPipeline(Final)
    <2>1. /\ DOMAIN p = PipelineFields /\ p.cfg = c
          /\ p.project = TraceProject(c) /\ (p.autoformat <=> TraceAllowAutoformat(c))
          /\ p.sinks \in Seq(Sinks) /\ p.attrs = o.attrs
          /\ p.async # <<>> <=>
                ResolveAsync(c) /\ BuildConfig(env, o.asyncOpts).enabled
          /\ p.async # <<>> =>
                p.async.workers >= 1 /\ p.async.queue >= 0 /\ p.async.batch >= 1
          /\ Stacked(o.mws, p.layers) /\ (IsQueued(p.layers) <=> p.async # <<>>)
        BY <1>2, PipelineIs DEF MwsInv
    <2>2. h' = p /\ Built'
        BY <1>9 DEF Built
    <2> HIDE DEF p, c
    <2>3. PipelineInv'
        <3>1. h' = p /\ o' = o
            BY <1>1, <2>2
        <3>2. Stacked(o.mws, h.layers)' /\ (IsQueued(h.layers)' <=> p.async # <<>>)
            BY <2>1, <3>1 DEF Stacked, IsQueued
        <3> QED
            BY <2>1, <3>1, <3>2 DEF PipelineInv, PipelineFields, Sinks
    <2>4. OutputIsRight'
        <3>1. c.writer = AskedOutput
            BY <1>1, <1>2, FinalOutput DEF c
        <3>2. OutputAsAsked'
            BY <1>1, <2>1, <2>2, <3>1, CallIs DEF OutputAsAsked
        <3>3. c.closable = IF c.filePath # "" THEN "own" ELSE "none"
            BY <1>1, <1>2, FinalIs DEF c
        <3>4. ClosesOnlyItsOwn'
            BY <1>1, <2>1, <2>2, <3>3 DEF ClosesOnlyItsOwn, c
        <3> QED
            BY <3>2, <3>4 DEF OutputIsRight
    <2>5. RefusalsAreRight'
        <3>1. FailureIsCleanUnlessStrict'
            BY <1>9 DEF FailureIsCleanUnlessStrict
        <3>2. CASE c.set["TraceDiagnostics"] = "strict"
            <4>1. /\ p.project # "" \/ (p.autoformat /\ runtime.managed)
                  /\ o.set["TraceProjectID"].st = "ok" =>
                        p.project = (IF o.set["TraceProjectID"].val = NoProject
                                     THEN runtime.project
                                     ELSE o.set["TraceProjectID"].val.id)
                  /\ env["SLOGCP_TRACE_PROJECT_ID"].st = "ok"
                        /\ o.set["TraceProjectID"] = Unset
                       => p.project = env["SLOGCP_TRACE_PROJECT_ID"].val.id
                BY <1>1, <1>2, <1>9, <2>1, <3>2, FinalCorrelates DEF c
            <4>2. o' = o /\ env' = env /\ runtime' = runtime /\ h' = p
                BY <1>1, <2>2
            <4>3. StrictIsCorrelated'
                BY <4>1, <4>2 DEF StrictIsCorrelated
            <4> QED
                BY <3>1, <4>3 DEF RefusalsAreRight
        <3>3. CASE c.set["TraceDiagnostics"] # "strict"
            <4>1. StrictIsCorrelated'
                BY <2>1, <2>2, <3>3 DEF StrictIsCorrelated
            <4> QED
                BY <3>1, <4>1 DEF RefusalsAreRight
        <3> QED
            BY <3>2, <3>3
    <2>6. AsyncIsRight'
        <3>1. AsyncConfigIsUsable'
            BY <2>1, <2>2 DEF AsyncConfigIsUsable
        <3>2. c.writer = AskedOutput
            BY <1>1, <1>2, FinalOutput DEF c
        <3>3. HasFileTarget(c) <=> AskedOutput \in Files
            <4>1. c.filePath # "" => c.writer = "own"
                BY <1>1, <1>2, FinalIs DEF c, Output
            <4> QED
                BY <3>2, <4>1 DEF HasFileTarget, Files
        <3>4. p.async # <<>> <=> AsyncAsked
            BY <1>2, <2>1, <3>3 DEF ResolveAsync, AsyncAsked, AsyncInv
        <3>5. AsyncAsAsked'
            BY <1>1, <2>2, <3>4, CallIs DEF AsyncAsAsked
        <3> QED
            BY <3>1, <3>5 DEF AsyncIsRight
    <2> QED
        BY <1>3, <1>4, <1>6, <1>7, <2>3, <2>4, <2>5, <2>6 DEF IInv
<1> QED
    BY <1>1, <1>8, <1>9

(* A step that changes neither the call nor the configuration of the       *)
(* handler keeps what depends on them.                                     *)
LEMMA UseKeeps ==
    ASSUME IInv, UNCHANGED <<env, runtime, exporter, defaultW, opts, o, phase, file>>,
           UNCHANGED <<h.cfg, h.project, h.autoformat, h.async>>,
           Built \/ UNCHANGED <<levelVar, h>>
    PROVE  /\ EnvTypes' /\ OptionTypes' /\ OptionsInv'
           /\ OutputIsRight' /\ RefusalsAreRight' /\ AsyncIsRight'
<1>1. EnvTypes'
    BY DEF IInv, EnvTypes, EnvOf
<1>2. OptionTypes' /\ OptionsInv'
    BY OptionsKept DEF IInv
<1>3. AskedOutput' = AskedOutput /\ (AsyncAsked' <=> AsyncAsked)
    BY CallIs
<1>4. OutputIsRight'
    <2>1. OutputAsAsked'
        BY <1>3 DEF IInv, OutputIsRight, OutputAsAsked, Built
    <2>2. ClosesOnlyItsOwn'
        BY DEF IInv, OutputIsRight, ClosesOnlyItsOwn, Built
    <2> QED
        BY <2>1, <2>2 DEF OutputIsRight
<1>5. RefusalsAreRight'
    <2>1. FailureIsCleanUnlessStrict'
        BY DEF IInv, RefusalsAreRight, FailureIsCleanUnlessStrict, Built, LevelWarn
    <2>2. StrictIsCorrelated'
        BY DEF IInv, RefusalsAreRight, StrictIsCorrelated, Built
    <2> QED
        BY <2>1, <2>2 DEF RefusalsAreRight
<1>6. AsyncIsRight'
    <2>1. AsyncConfigIsUsable'
        BY DEF IInv, AsyncIsRight, AsyncConfigIsUsable, Built
    <2>2. AsyncAsAsked'
        BY <1>3 DEF IInv, AsyncIsRight, AsyncAsAsked, Built
    <2> QED
        BY <2>1, <2>2 DEF AsyncIsRight
<1> QED
    BY <1>1, <1>2, <1>4, <1>5, <1>6

(* What a use of the finished handler leaves alone.                        *)
LEMMA UseIs ==
    ASSUME Use, IInv
    PROVE  /\ UNCHANGED <<env, runtime, exporter, defaultW, opts, o, phase, file>>
           /\ Built /\ Built' /\ phase = "built" /\ phase' = "built"
           /\ DOMAIN h = PipelineFields /\ h.sinks \in Seq(Sinks) /\ h.attrs = o.attrs
           /\ Stacked(o.mws, h.layers) /\ (IsQueued(h.layers) <=> h.async # <<>>)
<1>1. /\ UNCHANGED <<env, runtime, exporter, defaultW, opts, o, phase, file>>
      /\ phase = "built"
    BY DEF Use
<1>2. Built /\ Built'
    BY <1>1 DEF Built
<1> QED
    BY <1>1, <1>2 DEF IInv, PipelineInv

(* What one delivery shows: the sinks of the record are behind the shared  *)
(* level, and its layers are those of the option list.                     *)
LEMMA DeliverIs ==
    ASSUME MwsInv, UNCHANGED <<opts, h.async>>, NEW r, r.sinks \in Seq(Sinks),
           Stacked(o.mws, r.layers), IsQueued(r.layers) <=> h.async # <<>>,
           NEW failing, NEW who,
           who = (IF h.async = <<>> THEN "caller" ELSE "errorWriter"),
           Deliver(r, failing, who)
    PROVE  DeliveryInv'
<1> DEFINE to == {i \in DOMAIN r.sinks : Enabled(r.sinks[i], r.level)}
           m == Level
           c == Cut(r.layers)
           told == IF failing = {} THEN "nobody" ELSE who
<1>1. delivery' = [rec |-> r, min |-> m, to |-> to, failing |-> failing, cut |-> c,
                   told |-> told]
    BY DEF Deliver
<1>2. \A i \in DOMAIN r.sinks : r.sinks[i].gated
    <2>1. \A i \in DOMAIN r.sinks : r.sinks[i] \in Sinks
        OBVIOUS
    <2>2. \A x \in Sinks : x.gated
        BY DEF Sinks
    <2> QED
        BY <2>1, <2>2
<1>3. \A i \in to : r.level >= m
    BY <1>2 DEF Enabled
<1>4. r.level >= m => \A i \in DOMAIN r.sinks : r.level >= r.sinks[i].own => i \in to
    BY DEF Enabled
<1> HIDE DEF to, m
<1>5. /\ delivery'.rec = r /\ delivery'.min = m /\ delivery'.to = to
      /\ delivery'.failing = failing /\ delivery'.cut = c /\ delivery'.told = told
    BY <1>1
<1>6. SharedLevelGates'
    BY <1>3, <1>4, <1>5 DEF SharedLevelGates
<1>7. PICK ls : ls = r.layers
    OBVIOUS
<1>a. Stacked(o.mws, ls)
    BY <1>7
<1>8. PICK d \in 0..2 :
        /\ DOMAIN ls = 1..(d + Len(o.mws))
        /\ \A k \in 1..d : ls[k].kind \in {"source", "async"}
        /\ \A k \in 1..Len(o.mws) : /\ ls[d + k].kind = "middleware"
                                    /\ ls[d + k].place = o.mws[k]
    BY <1>a DEF Stacked
<1> DEFINE w == o.mws
           n == Len(w)
<1>9. /\ n \in Nat
      /\ \A j, k \in 1..n : j < k => w[j] < w[k]
      /\ \A k \in 1..n : w[k] \in 1..Len(opts)
      /\ \A i \in 1..Len(opts) : IsMiddleware(opts[i]) <=> \E k \in 1..n : w[k] = i
    BY DEF MwsInv
<1>10. /\ DOMAIN ls = 1..(d + n)
       /\ \A k \in 1..d : ls[k].kind \in {"source", "async"}
       /\ \A k \in 1..n : ls[d + k].kind = "middleware" /\ ls[d + k].place = w[k]
    BY <1>8
<1> HIDE DEF w, n, c, told
<1>11. \A k \in DOMAIN ls : ls[k].kind = "middleware" => k - d \in 1..n
    BY <1>9, <1>10
<1>12. FailuresAreTold'
    <2>1. failing # {} => told = IF h.async = <<>> THEN "caller" ELSE "errorWriter"
        BY DEF told
    <2>2. ASSUME h.async # <<>> PROVE \A k \in 1..c : ls[k].kind # "middleware"
        <3>1. PICK a \in DOMAIN ls : ls[a].kind = "async"
            BY <1>7, <2>2 DEF IsQueued
        <3>2. \A k \in DOMAIN ls : ls[k].kind = "async" => k \in 1..d
            <4>1. ASSUME NEW k \in DOMAIN ls, ls[k].kind = "async" PROVE k \in 1..d
                <5>1. k \in 1..(d + n)
                    BY <4>1, <1>10
                <5>2. k \notin 1..d => k - d \in 1..n /\ d + (k - d) = k
                    BY <1>9, <5>1
                <5>3. k \notin 1..d => ls[k].kind = "middleware"
                    BY <1>10, <5>2
                <5> QED
                    BY <4>1, <5>3
            <4> QED
                BY <4>1
        <3>4. c = CHOOSE k \in DOMAIN ls : ls[k].kind = "async"
            BY <1>7, <3>1 DEF c, Cut
        <3>5. c \in 1..d
            BY <3>1, <3>2, <3>4
        <3> QED
            BY <1>10, <3>5
    <2> QED
        BY <1>5, <1>7, <2>1, <2>2 DEF FailuresAreTold
<1>13. MiddlewaresInOrder'
    <2> DEFINE M == {k \in DOMAIN ls : ls[k].kind = "middleware"}
    <2>1. \A j \in M : \A k \in M : j < k => ls[j].place < ls[k].place
        <3>1. \A k \in M : k - d \in 1..n /\ d + (k - d) = k
            BY <1>9, <1>10, <1>11
        <3>2. \A k \in M : ls[k].place = w[k - d]
            BY <1>10, <3>1
        <3>3. ASSUME NEW j \in M, NEW k \in M, j < k PROVE ls[j].place < ls[k].place
            <4>1. j - d < k - d
                BY <1>10, <3>3
            <4>2. w[j - d] < w[k - d]
                BY <1>9, <3>1, <4>1
            <4> QED
                BY <3>2, <4>2
        <3> QED
            BY <3>3
    <2>2. ASSUME NEW i \in 1..Len(opts)
          PROVE  IsMiddleware(opts[i]) <=> \E k \in M : ls[k].place = i
        <3>1. ASSUME NEW k \in 1..n, w[k] = i PROVE \E a \in M : ls[a].place = i
            <4>1. d + k \in M /\ ls[d + k].place = i
                BY <1>9, <1>10, <3>1
            <4> QED
                BY <4>1
        <3>2. ASSUME NEW k \in M, ls[k].place = i PROVE \E a \in 1..n : w[a] = i
            <4>1. k - d \in 1..n /\ d + (k - d) = k
                BY <1>9, <1>10, <1>11
            <4>2. ls[k].place = w[k - d]
                BY <1>10, <4>1
            <4> QED
                BY <3>2, <4>1, <4>2
        <3> QED
            BY <1>9, <3>1, <3>2
    <2> HIDE DEF M
    <2>3. delivery'.rec.layers = ls /\ opts' = opts
        BY <1>5, <1>7
    <2> QED
        BY <2>1, <2>2, <2>3 DEF MiddlewaresInOrder, M, IsMiddleware
<1> QED
    BY <1>6, <1>12, <1>13 DEF DeliveryInv

(* The layers stay, and with them the pipeline.                            *)
LEMMA LayersKept ==
    ASSUME UNCHANGED <<o, h.layers>>
    PROVE  /\ Stacked(o.mws, h.layers)' <=> Stacked(o.mws, h.layers)
           /\ IsQueued(h.layers)' <=> IsQueued(h.layers)
<1>1. Stacked(o.mws, h.layers)' <=> Stacked(o.mws, h.layers)
    OBVIOUS
<1>2. IsQueued(h.layers)' <=> IsQueued(h.layers)
    BY DEF IsQueued
<1> QED
    BY <1>1, <1>2

LEMMA PipelineKept ==
    ASSUME PipelineInv, UNCHANGED <<o, phase, h>>
    PROVE  PipelineInv'
<1>1. Built' <=> Built
    BY DEF Built
<1> QED
    BY <1>1, LayersKept DEF PipelineInv, Sinks, PipelineFields

(* What waits stays, and what was delivered.                               *)
LEMMA WaitingKeeps ==
    ASSUME QueuedInv, UNCHANGED <<o, queued, h.async>>
    PROVE  QueuedInv'
BY DEF QueuedInv, Stacked, IsQueued, Sinks

LEMMA DeliveredKeeps ==
    ASSUME DeliveryInv, UNCHANGED <<opts, delivery, h.async>>
    PROVE  DeliveryInv'
<1>1. SharedLevelGates'
    BY DEF DeliveryInv, SharedLevelGates
<1>2. FailuresAreTold'
    BY DEF DeliveryInv, FailuresAreTold
<1>3. MiddlewaresInOrder'
    BY DEF DeliveryInv, MiddlewaresInOrder, IsMiddleware
<1> QED
    BY <1>1, <1>2, <1>3 DEF DeliveryInv

(* SetLevel changes the level of the handler or the shared variable.       *)
LEMMA SetLevelStep ==
    ASSUME IInv, NEW l, SetLevel(l)
    PROVE  IInv'
<1>1. /\ UNCHANGED <<env, runtime, exporter, defaultW, opts, o, phase, file>>
      /\ Built /\ Built' /\ phase' = "built"
      /\ DOMAIN h = PipelineFields /\ h.sinks \in Seq(Sinks) /\ h.attrs = o.attrs
      /\ Stacked(o.mws, h.layers) /\ (IsQueued(h.layers) <=> h.async # <<>>)
    BY UseIs DEF SetLevel
<1>2. /\ h' = h \/ h' = [h EXCEPT !.level = l]
      /\ delivery' = delivery /\ queued' = queued
    BY DEF SetLevel
<1>3. /\ DOMAIN h' = PipelineFields /\ h'.sinks = h.sinks /\ h'.attrs = h.attrs
      /\ h'.layers = h.layers
      /\ UNCHANGED <<h.cfg, h.project, h.autoformat, h.async>>
    BY <1>1, <1>2 DEF PipelineFields
<1>4. PipelineInv'
    <2>1. Stacked(o.mws, h.layers)' /\ (IsQueued(h.layers)' <=> h'.async # <<>>)
        BY <1>1, <1>3, LayersKept
    <2> QED
        BY <1>1, <1>3, <2>1 DEF PipelineInv, Sinks, PipelineFields
<1>5. FreshInv'
    BY <1>1 DEF FreshInv
<1>6. QueuedInv' /\ DeliveryInv'
    BY <1>1, <1>2, <1>3, WaitingKeeps, DeliveredKeeps DEF IInv
<1> QED
    BY <1>1, <1>3, <1>4, <1>5, <1>6, UseKeeps DEF IInv

(* A derived handler has the sinks of its parent, with their levels, and   *)
(* its layers.                                                             *)
LEMMA DeriveStep ==
    ASSUME IInv, Derive
    PROVE  IInv'
<1>1. /\ UNCHANGED <<env, runtime, exporter, defaultW, opts, o, phase, file>>
      /\ Built /\ Built' /\ phase' = "built"
      /\ DOMAIN h = PipelineFields /\ h.sinks \in Seq(Sinks) /\ h.attrs = o.attrs
      /\ Stacked(o.mws, h.layers) /\ (IsQueued(h.layers) <=> h.async # <<>>)
    BY UseIs DEF Derive
<1> DEFINE s == h.sinks
           r == Rewrap(s)
           ls == RewrapLayers(h.layers)
           g == Append(h.groups, "derived")
<1>2. /\ h' = [h EXCEPT !.sinks = r, !.layers = ls, !.groups = g]
      /\ delivery' = delivery /\ queued' = queued
    BY <1>1 DEF Derive, PipelineFields
<1>3. s \in Seq(Sinks)
    BY <1>1
<1>4. r \in Seq(Sinks)
    <2>1. \A i \in DOMAIN s : s[i] \in Sinks
        BY <1>3
    <2>2. /\ DOMAIN r = DOMAIN s
          /\ \A i \in DOMAIN s : r[i] = [gated |-> s[i].gated, own |-> s[i].own]
        BY DEF Rewrap
    <2>3. \A i \in DOMAIN s : r[i] \in Sinks
        BY <2>1, <2>2 DEF Sinks
    <2>4. Len(s) \in Nat /\ DOMAIN s = 1..Len(s)
        BY <1>3
    <2>5. r \in [DOMAIN s -> Sinks]
        <3>1. r = [i \in DOMAIN s |-> [gated |-> s[i].gated, own |-> s[i].own]]
            BY DEF Rewrap
        <3>2. \A i \in DOMAIN s : [gated |-> s[i].gated, own |-> s[i].own] \in Sinks
            BY <2>1 DEF Sinks
        <3> HIDE DEF r
        <3> QED
            BY <3>1, <3>2
    <2> HIDE DEF r, s
    <2> QED
        BY <2>4, <2>5
<1>5. /\ DOMAIN ls = DOMAIN h.layers
      /\ \A k \in DOMAIN h.layers : /\ ls[k].kind = h.layers[k].kind
                                    /\ ls[k].place = h.layers[k].place
    BY DEF RewrapLayers
<1> HIDE DEF s, r, ls, g
<1>6. /\ DOMAIN h' = PipelineFields /\ h'.sinks = r /\ h'.attrs = h.attrs
      /\ h'.layers = ls
      /\ UNCHANGED <<h.cfg, h.project, h.autoformat, h.async>>
    BY <1>1, <1>2 DEF PipelineFields
<1>7. PipelineInv'
    <2> DEFINE n == Len(o.mws)
               hl == h.layers
    <2>1. n \in Nat
        BY DEF IInv, OptionsInv, MwsInv
    <2>2. PICK d \in 0..2 :
            /\ DOMAIN hl = 1..(d + n)
            /\ \A k \in 1..d : hl[k].kind \in {"source", "async"}
            /\ \A k \in 1..n : hl[d + k].kind = "middleware" /\ hl[d + k].place = o.mws[k]
        BY <1>1 DEF Stacked
    <2>3. /\ DOMAIN ls = DOMAIN hl
          /\ \A k \in DOMAIN hl : ls[k].kind = hl[k].kind /\ ls[k].place = hl[k].place
        BY <1>5
    <2>4. h'.layers = ls /\ o' = o
        BY <1>1, <1>6
    <2>7. IsQueued(h.layers)' <=> IsQueued(hl)
        BY <2>3, <2>4 DEF IsQueued
    <2> HIDE DEF n, hl
    <2>5. /\ DOMAIN ls = 1..(d + n)
          /\ \A k \in 1..d : ls[k].kind \in {"source", "async"}
          /\ \A k \in 1..n : ls[d + k].kind = "middleware" /\ ls[d + k].place = o.mws[k]
        <3>1. \A k \in 1..d : k \in DOMAIN hl
            BY <2>1, <2>2
        <3>2. \A k \in 1..n : d + k \in DOMAIN hl
            BY <2>1, <2>2
        <3> QED
            BY <2>2, <2>3, <3>1, <3>2
    <2>9. Stacked(o.mws, ls)
        BY <2>5 DEF Stacked, n
    <2>6. Stacked(o.mws, h.layers)'
        BY <2>4, <2>9
    <2>8. (IsQueued(h.layers) <=> h.async # <<>>)'
        BY <1>1, <1>6, <2>7 DEF hl
    <2> QED
        BY <1>1, <1>4, <1>6, <2>6, <2>8 DEF PipelineInv, Sinks, PipelineFields
<1>8. FreshInv'
    BY <1>1 DEF FreshInv
<1>9. QueuedInv' /\ DeliveryInv'
    BY <1>1, <1>2, <1>6, WaitingKeeps, DeliveredKeeps DEF IInv
<1> QED
    BY <1>1, <1>6, <1>7, <1>8, <1>9, UseKeeps DEF IInv

(* A record that is logged without the wrapper goes where the levels say.  *)
LEMMA LogStep ==
    ASSUME IInv, NEW l \in {LevelDebug, LevelInfo, LevelError}, NEW failing,
           Log(l, failing)
    PROVE  IInv'
<1>1. /\ UNCHANGED <<env, runtime, exporter, defaultW, opts, o, phase, file>>
      /\ Built /\ Built' /\ phase' = "built"
      /\ DOMAIN h = PipelineFields /\ h.sinks \in Seq(Sinks) /\ h.attrs = o.attrs
      /\ Stacked(o.mws, h.layers) /\ (IsQueued(h.layers) <=> h.async # <<>>)
    BY UseIs DEF Log
<1>2. /\ h' = h /\ levelVar' = levelVar /\ queued' = queued
      /\ ~IsQueued(h.layers) /\ Deliver(Through(l), failing, "caller")
    BY DEF Log
<1>3. PipelineInv'
    BY <1>1, <1>2, PipelineKept DEF IInv
<1>4. FreshInv'
    BY <1>1 DEF FreshInv
<1>5. UNCHANGED <<h.cfg, h.project, h.autoformat, h.async>>
    BY <1>2
<1>6. MwsInv /\ QueuedInv
    BY DEF IInv, OptionsInv
<1>7. ~(h.async # <<>>)
    BY <1>1, <1>2
<1>8. PICK r : r = Through(l)
    OBVIOUS
<1>9. r.sinks \in Seq(Sinks) /\ Stacked(o.mws, r.layers) /\ ~IsQueued(r.layers)
    <2>1. r.sinks = h.sinks /\ r.layers = h.layers
        BY <1>8 DEF Through
    <2> QED
        BY <1>1, <1>2, <2>1
<1>10. DeliveryInv'
    <2>1. Deliver(r, failing, "caller")
        BY <1>2, <1>8
    <2>2. UNCHANGED <<opts, h.async>>
        BY <1>1, <1>5
    <2> QED
        BY <1>6, <1>7, <1>9, <2>1, <2>2, DeliverIs
<1>11. QueuedInv'
    BY <1>1, <1>2, <1>5, <1>6, WaitingKeeps
<1> QED
    BY <1>1, <1>3, <1>4, <1>5, <1>10, <1>11, UseKeeps DEF IInv

(* One that is queued goes with the sinks and the layers of its handler.   *)
LEMMA EnqueueStep ==
    ASSUME IInv, NEW l, Enqueue(l)
    PROVE  IInv'
<1>1. /\ UNCHANGED <<env, runtime, exporter, defaultW, opts, o, phase, file>>
      /\ Built /\ Built' /\ phase' = "built"
      /\ DOMAIN h = PipelineFields /\ h.sinks \in Seq(Sinks) /\ h.attrs = o.attrs
      /\ Stacked(o.mws, h.layers) /\ (IsQueued(h.layers) <=> h.async # <<>>)
    BY UseIs DEF Enqueue
<1>2. /\ h' = h /\ levelVar' = levelVar /\ delivery' = delivery
      /\ IsQueued(h.layers) /\ queued' = <<Through(l)>>
    BY DEF Enqueue
<1>3. PipelineInv'
    BY <1>1, <1>2, PipelineKept DEF IInv
<1>4. FreshInv'
    BY <1>1 DEF FreshInv
<1>5. UNCHANGED <<h.cfg, h.project, h.autoformat, h.async>>
    BY <1>2
<1>6. h.async # <<>>
    BY <1>1, <1>2
<1>7. QueuedInv'
    <2>1. queued'[1].sinks = h.sinks /\ queued'[1].layers = h.layers
        BY <1>2 DEF Through
    <2>3. Stacked(o.mws, queued[1].layers)'
        BY <1>1, <1>2, <2>1
    <2>4. IsQueued(queued[1].layers)'
        BY <1>2, <2>1 DEF IsQueued
    <2>2. Stacked(o.mws, queued[1].layers)' /\ IsQueued(queued[1].layers)'
        BY <2>3, <2>4
    <2> QED
        BY <1>1, <1>2, <1>6, <2>1, <2>2 DEF QueuedInv, Sinks
<1>8. DeliveryInv'
    BY <1>1, <1>2, <1>5, DeliveredKeeps DEF IInv
<1> QED
    BY <1>1, <1>3, <1>4, <1>5, <1>7, <1>8, UseKeeps DEF IInv

(* A worker delivers it, whatever the levels are by then.                  *)
LEMMA HandleItemStep ==
    ASSUME IInv, NEW failing, HandleItem(failing)
    PROVE  IInv'
<1>1. /\ UNCHANGED <<env, runtime, exporter, defaultW, opts, o, phase, file, levelVar, h>>
      /\ queued # <<>> /\ queued' = <<>> /\ Deliver(queued[1], failing, "errorWriter")
    BY DEF HandleItem
<1>2. /\ phase = "built" /\ Built /\ Built'
      /\ DOMAIN h = PipelineFields /\ h.sinks \in Seq(Sinks) /\ h.attrs = o.attrs
      /\ Stacked(o.mws, h.layers) /\ (IsQueued(h.layers) <=> h.async # <<>>)
    BY <1>1 DEF IInv, FreshInv, PipelineInv, Built
<1>3. PipelineInv'
    BY <1>1, <1>2, PipelineKept DEF IInv
<1>4. FreshInv'
    BY <1>1, <1>2 DEF FreshInv
<1>5. UNCHANGED <<h.cfg, h.project, h.autoformat, h.async>>
    BY <1>1
<1>6. PICK r : r = queued[1]
    OBVIOUS
<1>7. /\ MwsInv /\ h.async # <<>>
      /\ r.sinks \in Seq(Sinks) /\ Stacked(o.mws, r.layers) /\ IsQueued(r.layers)
    BY <1>1, <1>6 DEF IInv, OptionsInv, QueuedInv
<1>8. DeliveryInv'
    <2>1. Deliver(r, failing, "errorWriter")
        BY <1>1, <1>6
    <2>2. UNCHANGED <<opts, h.async>>
        BY <1>1, <1>5
    <2> QED
        BY <1>7, <2>1, <2>2, DeliverIs
<1>9. QueuedInv'
    BY <1>1 DEF QueuedInv
<1> QED
    BY <1>1, <1>2, <1>3, <1>4, <1>5, <1>8, <1>9, UseKeeps DEF IInv

-----------------------------------------------------------------------------
(* The theorems.                                                           *)

(* Before any option the invariant holds.                                  *)
LEMMA InvInit == Init => IInv
<1> SUFFICES ASSUME Init PROVE IInv
    OBVIOUS
<1>1. EnvTypes
    <2>1. env = [v \in EnvVars |-> Unset]
        BY DEF Init
    <2>2. DOMAIN env = EnvVars /\ \A v \in EnvVars : env[v] = Unset
        BY <2>1
    <2>3. env["SLOGCP_TRACE_PROJECT_ID"] # Bad
        BY <2>2, NamesAre, ValuesDiffer
    <2>4. runtime \in Runtimes /\ exporter \in BOOLEAN /\ defaultW \in {"none", "osfile"}
        BY DEF Init
    <2> QED
        BY <2>2, <2>3, <2>4 DEF EnvTypes, EnvOf
<1>2. opts = <<>> /\ o = NoOptions /\ phase = "options" /\ file = "none"
      /\ levelVar = LevelWarn /\ delivery = <<>> /\ queued = <<>>
    BY DEF Init
<1>3. OptionTypes
    <2>1. DOMAIN o = OptionFields
        BY <1>2 DEF NoOptions, OptionFields
    <2>2. o.set = [s \in Settings |-> Unset]
        BY <1>2 DEF NoOptions
    <2>3. o.writer = "none" /\ o.filePath = Unset /\ o.sinks = <<>>
        BY <1>2 DEF NoOptions
    <2>4. IsSeq(opts) /\ o.sinks \in Seq(Int)
        <3>1. <<>> \in Seq(Int)
            OBVIOUS
        <3> QED
            BY <1>2, <2>3, <3>1 DEF IsSeq
    <2> QED
        BY <2>1, <2>2, <2>3, <2>4, NamesAre DEF OptionTypes, Writers
<1>4. LastRedirect = 0 /\ LastAsync = 0
    <2>1. 1..Len(opts) = {}
        BY <1>2
    <2> QED
        BY <2>1 DEF LastRedirect, LastAsync, SelectLastInSeq
<1>5. RedirectInv /\ AsyncInv
    BY <1>2, <1>4 DEF RedirectInv, AsyncInv, NoOptions
<1>6. GroupsInv /\ PlacesInv
    <2>1. o.groups = <<>> /\ o.attrs = <<>> /\ Len(opts) = 0 /\ Len(<<>>) = 0
        BY <1>2 DEF NoOptions
    <2>2. 1..0 = {}
        OBVIOUS
    <2>3. Places = {} /\ Open(0) = {}
        BY <2>1, <2>2 DEF Places, Open
    <2>4. IsSeq(<<>>)
        <3>1. <<>> \in Seq(Int)
            OBVIOUS
        <3> QED
            BY <3>1 DEF IsSeq
    <2> QED
        BY <2>1, <2>3, <2>4, FS_EmptySet DEF GroupsInv, PlacesInv, ListsOpen
<1>7. FreshInv /\ PipelineInv
    BY <1>2 DEF FreshInv, PipelineInv, Built
<1>10. MwsInv
    <2>1. o.mws = <<>> /\ Len(<<>>) = 0 /\ <<>> \in Seq(Nat)
        BY <1>2 DEF NoOptions
    <2>2. 1..0 = {} /\ Len(opts) = 0
        BY <1>2
    <2> QED
        BY <2>1, <2>2 DEF MwsInv
<1>8. OutputIsRight /\ RefusalsAreRight
    BY <1>2 DEF OutputIsRight, OutputAsAsked, ClosesOnlyItsOwn, RefusalsAreRight,
                FailureIsCleanUnlessStrict, StrictIsCorrelated, Built
<1>9. AsyncIsRight /\ QueuedInv /\ DeliveryInv
    BY <1>2 DEF AsyncIsRight, AsyncAsAsked, AsyncConfigIsUsable, QueuedInv, DeliveryInv,
                SharedLevelGates, FailuresAreTold, MiddlewaresInOrder, Built
<1> QED
    BY <1>1, <1>3, <1>5, <1>6, <1>7, <1>8, <1>9, <1>10 DEF IInv, OptionsInv

(* Every step keeps it.                                                    *)
LEMMA InvStep == IInv /\ [Next]_vars => IInv'
<1> SUFFICES ASSUME IInv, [Next]_vars PROVE IInv'
    OBVIOUS
<1>1. CASE Collect
    BY <1>1, CollectStep
<1>2. CASE InvalidTarget \/ OpenFails
    BY <1>2, FailStep
<1>3. CASE NewHandler
    BY <1>3, BuildStep
<1>4. ASSUME NEW l, SetLevel(l) PROVE IInv'
    BY <1>4, SetLevelStep
<1>5. CASE Derive
    BY <1>5, DeriveStep
<1>6. ASSUME NEW l \in {LevelDebug, LevelInfo, LevelError}, NEW failing,
             Log(l, failing)
      PROVE  IInv'
    BY <1>6, LogStep
<1>8. ASSUME NEW l, Enqueue(l) PROVE IInv'
    BY <1>8, EnqueueStep
<1>9. ASSUME NEW failing, HandleItem(failing) PROVE IInv'
    BY <1>9, HandleItemStep
<1>7. CASE UNCHANGED vars
    <2>1. UNCHANGED <<h.cfg, h.project, h.autoformat, h.async>>
        BY <1>7
    <2>2. /\ EnvTypes' /\ OptionTypes' /\ OptionsInv'
          /\ OutputIsRight' /\ RefusalsAreRight' /\ AsyncIsRight'
        BY <1>7, <2>1, UseKeeps
    <2>3. FreshInv'
        BY <1>7 DEF IInv, FreshInv, LevelWarn
    <2>4. PipelineInv'
        BY <1>7, PipelineKept DEF IInv
    <2>5. QueuedInv' /\ DeliveryInv'
        BY <1>7 DEF IInv, QueuedInv, Stacked, IsQueued, DeliveryInv, SharedLevelGates, FailuresAreTold,
                    MiddlewaresInOrder, Sinks, IsMiddleware
    <2> QED
        BY <2>2, <2>3, <2>4, <2>5 DEF IInv
<1> QED
    BY <1>1, <1>2, <1>3, <1>4, <1>5, <1>6, <1>7, <1>8, <1>9 DEF Next

(* The options struct, the environment and the handler stay consistent     *)
(* with the option list through every construction and use.                *)
THEOREM ConfigInvariance == Spec => []IInv
    BY InvInit, InvStep, PTL DEF Spec

(* The output of a finished handler is the one that the last redirect, the *)
(* exporter or SLOGCP_TARGET asked for, and Close closes it only if the    *)
(* handler opened it (applyWriterOptions, ensureClosableWriter).           *)
THEOREM OutputsAreRight == Spec => []OutputIsRight
<1>1. IInv => OutputIsRight
    BY DEF IInv
<1> QED
    BY <1>1, ConfigInvariance, PTL

(* Only strict diagnostics refuse a configuration after the file is open   *)
(* and the level is set, and what they accept is correlated with the       *)
(* project that was asked for (prepareRuntimeConfig).                      *)
THEOREM RefusalsAreJustified == Spec => []RefusalsAreRight
<1>1. IInv => RefusalsAreRight
    BY DEF IInv
<1> QED
    BY <1>1, ConfigInvariance, PTL

(* The asynchronous wrapper is around a finished handler if and only if    *)
(* the options, the environment and the output ask for it, and every queue *)
(* has workers, a size and a batch that slogcpasync can run with           *)
(* (resolveAsyncConfig, buildConfig).                                      *)
THEOREM AsyncIsAsAsked == Spec => []AsyncIsRight
<1>1. IInv => AsyncIsRight
    BY DEF IInv
<1> QED
    BY <1>1, ConfigInvariance, PTL

(* An attribute stays in the groups that were open at its place in the     *)
(* option list (WithAttrs, WithGroup); no record below the shared level    *)
(* reaches a sink, through the handler, one derived from it or its queue,  *)
(* while every sink that accepts a record above it gets it, whichever of   *)
(* them fail; the failure is told to the caller or, with the wrapper, to   *)
(* the ErrorWriter; and a record passes the middlewares once, in their     *)
(* order, with the wrapper on the worker's side (sharedLevelHandler,       *)
(* composeFanout, applyMiddlewares, slogcpasync.Handler.Handle).           *)
THEOREM DerivationsKeep == Spec => []DerivationKeeps
<1>1. IInv => DerivationKeeps
    <2> SUFFICES ASSUME IInv PROVE DerivationKeeps
        OBVIOUS
    <2>1. Built => h.attrs = o.attrs
        BY DEF IInv, PipelineInv
    <2>2. AttrsKeepTheirGroups
        BY <2>1 DEF IInv, OptionsInv, PlacesInv, AttrsKeepTheirGroups
    <2> QED
        BY <2>2 DEF IInv, DeliveryInv, DerivationKeeps
<1> QED
    BY <1>1, ConfigInvariance, PTL

-----------------------------------------------------------------------------
(* The JSON handler.  Its constants and variables are its own.             *)

CONSTANTS Procs, Records, Configs, Loggers, Inputs, MaxStackFrames
VARIABLES cfg, heap, ps, pool, bufs, bufPool, mu, hreq, call, fate, out,
          warned, crashed
J == INSTANCE JSONHandler

USE DEF J!vars

(* The places of a call, and what it holds there.                          *)
Writing == {"write", "tail"}
Staging == Writing \cup {"retry"}
CallPlaces == Staging \cup {"idle", "prepare", "load", "detach", "emit", "export",
                        "encode", "return"}
Results == {"nil", "error", "encode error", "panic"}
CallFields == {"at", "rec", "in", "h", "st", "buf", "req", "err", "result"}
JTypes ==
    /\ DOMAIN call = Procs
    /\ \A p \in Procs :
          /\ DOMAIN call[p] = CallFields
          /\ call[p].at \in CallPlaces /\ call[p].result \in Results
          /\ call[p].h.mu = 0
          /\ call[p].buf \in {0} \cup J!States
          /\ call[p].at \in Staging => call[p].buf # 0
          /\ call[p].at # "idle" => call[p].rec \in Records /\ call[p].st \in J!States
    /\ DOMAIN fate = Records
    /\ pool \subseteq J!States /\ bufPool \subseteq J!States
    /\ DOMAIN bufs = J!States /\ DOMAIN mu = 0..3

(* Every call has a record, a state and a buffer of its own.               *)
OwnInv ==
    /\ \A p \in Procs : call[p].at # "idle" =>
          /\ fate[call[p].rec] = "active"
          /\ call[p].st \notin pool /\ call[p].buf \notin bufPool
    /\ \A p, q \in Procs : p # q /\ call[p].at # "idle" /\ call[q].at # "idle" =>
          /\ call[p].rec # call[q].rec /\ call[p].st # call[q].st
          /\ call[p].buf = call[q].buf => call[p].buf = 0

(* What a call is about to write is one entry, of its own record.          *)
StagedInv ==
    \A p \in Procs : call[p].at \in Writing =>
        LET b == bufs[call[p].buf] IN Len(b) = 1 /\ b = <<b[1]>> /\ b[1].rec = call[p].rec

(* A handler exports or writes; who is in the middle of a line has the     *)
(* mutex, and the beginning of that line is what came out last.            *)
LineInv ==
    /\ out \in Seq(J!Range(out))
    /\ \A p \in Procs :
          /\ call[p].at = "export" => cfg.exporter
          /\ call[p].at \in Staging \cup {"encode"} => ~cfg.exporter
          /\ call[p].at = "tail" =>
                /\ mu[0] = call[p].rec
                /\ Len(out) > 0 /\ out[Len(out)].part = "head"
                /\ out[Len(out)].staged = bufs[call[p].buf]

(* The entries of a record that came out, and how many there should be.    *)
Came(parts, r, i) ==
    /\ parts[i].part # "head"
    /\ \E l \in J!ToSet(parts[i].staged) : l.rec = r
NoneCame(parts, r) == \A i \in DOMAIN parts : ~Came(parts, r, i)
OneCame(parts, r) ==
    \E i \in DOMAIN parts :
        Came(parts, r, i) /\ \A j \in DOMAIN parts : Came(parts, r, j) => j = i
CameInv ==
    /\ \A r \in Records :
          /\ fate[r] = "nil" => OneCame(out, r)
          /\ fate[r] \notin {"nil", "active"} => NoneCame(out, r)
    /\ \A p \in Procs : call[p].at # "idle" =>
          IF call[p].at = "return" /\ call[p].result = "nil"
          THEN OneCame(out, call[p].rec) ELSE NoneCame(out, call[p].rec)

(* What JSONHandler assumes of its constants: records are numbers, and the *)
(* loggers, however derived, share one mutex.                              *)
Assumed == J!WellFormed /\ J!MutexIsShared

JInv == /\ Assumed /\ JTypes /\ OwnInv /\ StagedInv /\ LineInv
        /\ J!LinesNotTorn /\ CameInv

LEMMA StatesAre == J!States \subseteq Nat \ {0}
    BY DEF J!States

(* Each of the two steps of a derivation keeps the mutex.                  *)
LEMMA StepsKeepMutex ==
    ASSUME NEW hd, "mu" \in DOMAIN hd, NEW as, NEW name
    PROVE  J!WithAttrs(hd, as).mu = hd.mu /\ J!WithGroup(hd, name).mu = hd.mu
<1>1. J!WithGroup(hd, name).mu = hd.mu
    BY DEF J!WithGroup
<1>2. \A xx : [hd EXCEPT !.attrs = xx].mu = hd.mu
    OBVIOUS
<1> QED
    BY <1>1, <1>2 DEF J!WithAttrs

LEMMA AssumedStays == Assumed => Assumed'
    BY DEF Assumed, J!WellFormed, J!MutexIsShared

LEMMA JInit == Assumed /\ J!Init => JInv
<1> SUFFICES ASSUME Assumed, J!Init PROVE JInv
    OBVIOUS
<1>1. \A p \in Procs : call[p].at = "idle" /\ call[p].result = "nil"
                       /\ call[p].h.mu = 0 /\ call[p].buf = 0
                       /\ DOMAIN call[p] = CallFields
    BY DEF J!Init, J!NoCall, J!RootHandler, CallFields
<1>2. JTypes
    BY <1>1, StatesAre DEF J!Init, JTypes, CallPlaces, Results, Staging, Writing
<1>3. out = <<>> /\ DOMAIN out = {}
    BY DEF J!Init
<1>4. OwnInv /\ StagedInv
    BY <1>1 DEF OwnInv, StagedInv, Writing
<1>5. LineInv /\ J!LinesNotTorn
    BY <1>1, <1>3 DEF LineInv, J!LinesNotTorn, Staging, Writing, J!Range
<1>6. CameInv
    BY <1>1, <1>3 DEF CameInv, NoneCame, J!Init
<1> QED
    BY <1>2, <1>4, <1>5, <1>6, AssumedStays DEF JInv

(* The next state of a call that goes on, and of the others.               *)
Moved(p) ==
    /\ DOMAIN call' = Procs /\ DOMAIN call'[p] = CallFields
    /\ \A q \in Procs \ {p} : call'[q] = call[q]
    /\ call'[p].rec = call[p].rec /\ call'[p].h = call[p].h
    /\ call'[p].st = call[p].st

LEMMA GotoIs ==
    ASSUME JTypes, NEW p \in Procs, NEW where, J!Goto(p, where)
    PROVE  /\ Moved(p) /\ call'[p].at = where
           /\ call'[p].result = call[p].result /\ call'[p].buf = call[p].buf
    BY DEF JTypes, CallFields, J!Goto, Moved

LEMMA ReturnIs ==
    ASSUME JTypes, NEW p \in Procs, NEW result, J!Return(p, result)
    PROVE  /\ Moved(p) /\ call'[p].at = "return"
           /\ call'[p].result = result /\ call'[p].buf = call[p].buf
    BY DEF JTypes, CallFields, J!Return, Moved

(* A step that takes a call on, short of its buffer, and leaves pools,     *)
(* mutex and output alone.                                                 *)
Before == {"prepare", "load", "detach", "emit", "export", "encode"}
LEMMA GoesOn ==
    ASSUME JInv, NEW p \in Procs, call[p].at \in Before, Moved(p),
           call'[p].buf = call[p].buf, call'[p].result \in Results,
           call'[p].at \in Before \cup {"return"},
           call'[p].at = "export" => cfg.exporter,
           call'[p].at = "encode" => ~cfg.exporter,
           call'[p].at = "return" => call'[p].result # "nil",
           UNCHANGED <<cfg, pool, bufs, bufPool, mu, fate, out>>
    PROVE  JInv'
<1>1. call[p].at # "idle" /\ call[p].at # "return" /\ call'[p].at # "idle"
      /\ call'[p].at \notin Staging /\ call'[p].at \in CallPlaces
    BY DEF Before, Staging, Writing, CallPlaces
<1>2. JTypes'
    BY <1>1 DEF JInv, JTypes, Moved
<1>3. OwnInv'
    BY <1>1 DEF JInv, OwnInv, Moved
<1>4. StagedInv'
    BY <1>1 DEF JInv, StagedInv, Moved, Staging
<1>5. LineInv'
    BY <1>1 DEF JInv, LineInv, Moved, Staging, Writing
<1>6. J!LinesNotTorn'
    BY DEF JInv, J!LinesNotTorn
<1>7. CameInv'
    BY <1>1 DEF JInv, CameInv, Moved
<1> QED
    BY <1>2, <1>3, <1>4, <1>5, <1>6, <1>7, AssumedStays DEF JInv

LEMMA PrepareSteps ==
    ASSUME JInv, NEW p \in Procs,
           J!PrepareTest(p) \/ J!PrepareCopy(p) \/ J!PrepareDetach(p) \/ J!Emit(p)
    PROVE  JInv'
<1> USE DEF J!At
<1>0. JTypes
    BY DEF JInv
<1>1. UNCHANGED <<cfg, pool, bufs, bufPool, mu, fate, out>>
    BY DEF J!PrepareTest, J!PrepareCopy, J!PrepareDetach, J!Emit
<1>2. call[p].at \in Before
    BY DEF J!PrepareTest, J!PrepareCopy, J!PrepareDetach, J!Emit, Before
<1>3. \/ \E where \in {"load", "detach", "emit"} : J!Goto(p, where)
      \/ cfg.exporter /\ J!Goto(p, "export")
      \/ ~cfg.exporter /\ J!Goto(p, "encode")
      \/ \E result \in {"error", "panic"} : J!Return(p, result)
    <2>1. CASE J!PrepareTest(p)
        BY <2>1 DEF J!PrepareTest
    <2>2. CASE J!PrepareCopy(p)
        BY <2>2 DEF J!PrepareCopy
    <2>3. CASE J!PrepareDetach(p)
        BY <2>3 DEF J!PrepareDetach
    <2>4. CASE J!Emit(p)
        BY <2>4 DEF J!Emit
    <2> QED
        BY <2>1, <2>2, <2>3, <2>4
<1>4. CASE \E where \in {"load", "detach", "emit"} : J!Goto(p, where)
    <2>1. PICK where \in {"load", "detach", "emit"} : J!Goto(p, where)
        BY <1>4
    <2> QED
        BY <1>0, <1>1, <1>2, <2>1, GotoIs, GoesOn DEF JInv, JTypes, Before
<1>5. CASE cfg.exporter /\ J!Goto(p, "export")
    BY <1>0, <1>1, <1>2, <1>5, GotoIs, GoesOn DEF JInv, JTypes, Before
<1>6. CASE ~cfg.exporter /\ J!Goto(p, "encode")
    BY <1>0, <1>1, <1>2, <1>6, GotoIs, GoesOn DEF JInv, JTypes, Before
<1>7. CASE \E result \in {"error", "panic"} : J!Return(p, result)
    <2>1. PICK result \in {"error", "panic"} : J!Return(p, result)
        BY <1>7
    <2> QED
        BY <1>0, <1>1, <1>2, <2>1, ReturnIs, GoesOn DEF Before, Results
<1> QED
    BY <1>3, <1>4, <1>5, <1>6, <1>7

LEMMA DisabledStep ==
    ASSUME JInv, NEW p \in Procs, NEW r \in Records, NEW in, J!Disabled(p, r, in)
    PROVE  JInv'
<1>1. /\ fate[r] = "new" /\ fate' = [fate EXCEPT ![r] = "disabled"]
      /\ UNCHANGED <<cfg, pool, bufs, bufPool, mu, call, out>>
    BY DEF J!Disabled
<1>2. JTypes' /\ StagedInv'
    BY <1>1 DEF JInv, JTypes, StagedInv
<1>3. OwnInv'
    BY <1>1 DEF JInv, JTypes, OwnInv
<1>4. LineInv' /\ J!LinesNotTorn'
    BY <1>1 DEF JInv, LineInv, J!LinesNotTorn
<1>5. CameInv'
    BY <1>1 DEF JInv, JTypes, CameInv
<1> QED
    BY <1>2, <1>3, <1>4, <1>5, AssumedStays DEF JInv

LEMMA HandleStep ==
    ASSUME JInv, NEW p \in Procs, NEW r \in Records, NEW in, NEW l \in Loggers,
           NEW s \in pool, J!Handle(p, r, in, J!Derive(l), s)
    PROVE  JInv'
<1>1. /\ call[p].at = "idle" /\ fate[r] = "new"
      /\ fate' = [fate EXCEPT ![r] = "active"] /\ pool' = pool \ {s}
      /\ UNCHANGED <<cfg, bufs, bufPool, mu, out>>
    BY DEF J!Handle, J!At, J!Borrow
<1>2. /\ DOMAIN call' = Procs /\ DOMAIN call'[p] = CallFields
      /\ \A q \in Procs \ {p} : call'[q] = call[q]
      /\ call'[p].rec = r /\ call'[p].st = s /\ call'[p].buf = 0
      /\ call'[p].h = J!Derive(l) /\ call'[p].result = "nil"
      /\ call'[p].at \in {"emit", "prepare"}
    <2>1. PICK req, err : call' = [call EXCEPT ![p] =
                [J!NoCall EXCEPT !.rec = r, !.in = in, !.h = J!Derive(l), !.st = s,
                   !.req = req, !.err = err,
                   !.at = IF req = -1 THEN "emit" ELSE "prepare"]]
        BY DEF J!Handle
    <2> QED
        BY <2>1 DEF JInv, JTypes, J!NoCall, CallFields
<1>3. call'[p].h.mu = 0
    BY <1>2 DEF JInv, Assumed, J!MutexIsShared, J!RootHandler
<1>4. call'[p].at \in CallPlaces /\ call'[p].at \notin Staging /\ "nil" \in Results
    BY <1>2 DEF CallPlaces, Staging, Writing, Results
<1>5. JTypes'
    BY <1>1, <1>2, <1>3, <1>4 DEF JInv, JTypes
<1>6. OwnInv'
    BY <1>1, <1>2, StatesAre DEF JInv, JTypes, OwnInv
<1>7. StagedInv'
    BY <1>1, <1>2, <1>4 DEF JInv, StagedInv, Staging
<1>8. LineInv' /\ J!LinesNotTorn'
    BY <1>1, <1>2, <1>4 DEF JInv, LineInv, J!LinesNotTorn, Staging, Writing
<1>9. CameInv'
    BY <1>1, <1>2 DEF JInv, JTypes, OwnInv, CameInv
<1> QED
    BY <1>5, <1>6, <1>7, <1>8, <1>9, AssumedStays DEF JInv

(* What one more part of the output changes.                               *)
LEMMA OutputGrows ==
    ASSUME NEW e, out \in Seq(J!Range(out)), out' = Append(out, e)
    PROVE  /\ out' \in Seq(J!Range(out')) /\ Len(out) \in Nat
           /\ Len(out') = Len(out) + 1 /\ out'[Len(out')] = e
           /\ DOMAIN out = 1..Len(out) /\ DOMAIN out' = 1..(Len(out) + 1)
           /\ \A i \in DOMAIN out : out'[i] = out[i]
           /\ \A i \in DOMAIN out' : i = Len(out') \/ i \in DOMAIN out
<1>1. /\ Len(out) \in Nat /\ Len(out') = Len(out) + 1 /\ out'[Len(out')] = e
      /\ DOMAIN out = 1..Len(out) /\ DOMAIN out' = 1..(Len(out) + 1)
      /\ \A i \in DOMAIN out : out'[i] = out[i]
    OBVIOUS
<1>2. J!Range(out) \subseteq J!Range(out') /\ e \in J!Range(out')
    BY <1>1 DEF J!Range
<1>3. out \in Seq(J!Range(out'))
    BY <1>2, <1>1
<1>4. Append(out, e) \in Seq(J!Range(out'))
    BY <1>2, <1>3, AppendProperties
<1> QED
    BY <1>1, <1>4

(* A record's entry comes out for the first time, or the beginning of a    *)
(* line does.                                                              *)
LEMMA ComesOut ==
    ASSUME NEW e, out \in Seq(J!Range(out)), out' = Append(out, e)
    PROVE  /\ e.part = "head" => \A q \in Records :
                 (NoneCame(out, q) => NoneCame(out', q)) /\ (OneCame(out, q) => OneCame(out', q))
           /\ \A q \in Records : (\A l \in J!ToSet(e.staged) : l.rec # q) =>
                 (NoneCame(out, q) => NoneCame(out', q)) /\ (OneCame(out, q) => OneCame(out', q))
           /\ \A q \in Records :
                 /\ NoneCame(out, q) /\ e.part # "head"
                 /\ \E l \in J!ToSet(e.staged) : l.rec = q
                 => OneCame(out', q)
<1>1. /\ Len(out') \in DOMAIN out' /\ Len(out') \notin DOMAIN out
      /\ out'[Len(out')] = e
      /\ \A i \in DOMAIN out : i \in DOMAIN out' /\ out'[i] = out[i]
      /\ \A i \in DOMAIN out' : i = Len(out') \/ i \in DOMAIN out
    BY OutputGrows
<1>2. \A q \in Records : \A i \in DOMAIN out : Came(out', q, i) <=> Came(out, q, i)
    BY <1>1 DEF Came
<1>3. \A q \in Records : Came(out', q, Len(out')) <=>
            e.part # "head" /\ \E l \in J!ToSet(e.staged) : l.rec = q
    BY <1>1 DEF Came
<1> QED
    BY <1>1, <1>2, <1>3 DEF NoneCame, OneCame

LEMMA ExportStep ==
    ASSUME JInv, NEW p \in Procs, NEW result \in {"nil", "error"},
           J!Export(p, result)
    PROVE  JInv'
<1> PICK r : r = call[p].rec
    OBVIOUS
<1> DEFINE e == [part |-> "entry", staged |-> <<J!Line(p, heap)>>,
                 meta |-> {k \in DOMAIN heap[J!Root(call[p].st)] :
                             J!Promoted(k, heap[J!Root(call[p].st)][k])}]
<1>1. /\ call[p].at = "export" /\ J!Return(p, result)
      /\ out' = IF result = "nil" THEN Append(out, e) ELSE out
      /\ UNCHANGED <<cfg, pool, bufs, bufPool, mu, fate>>
    BY DEF J!Export, J!At
<1>2. /\ Moved(p) /\ call'[p].at = "return" /\ call'[p].result = result
      /\ call'[p].buf = call[p].buf
    BY <1>1, ReturnIs DEF JInv
<1>3. CASE result = "error"
    <2>1. "error" \in Results /\ "export" \in Before
        BY DEF Results, Before
    <2> QED
        BY <1>1, <1>2, <1>3, <2>1, GoesOn
<1>4. CASE result = "nil"
    <2>1. e.part = "entry" /\ e.staged = <<J!Line(p, heap)>>
        OBVIOUS
    <2>2. J!ToSet(e.staged) = {J!Line(p, heap)} /\ J!Line(p, heap).rec = r
        BY <2>1 DEF J!ToSet, J!Line
    <2> HIDE DEF e
    <2>3. out \in Seq(J!Range(out)) /\ out' = Append(out, e)
        BY <1>1, <1>4 DEF JInv, LineInv
    <2>4. JTypes'
        BY <1>1, <1>2 DEF JInv, JTypes, Moved, CallPlaces, Results, Staging, Writing
    <2>5. OwnInv'
        BY <1>1, <1>2 DEF JInv, OwnInv, Moved
    <2>6. StagedInv'
        BY <1>1, <1>2 DEF JInv, StagedInv, Moved, Writing
    <2>7. LineInv'
        <3>1. cfg.exporter /\ cfg' = cfg
            BY <1>1 DEF JInv, LineInv
        <3>2. \A q \in Procs : call'[q].at \notin Staging \cup {"encode"}
            BY <1>2, <3>1 DEF JInv, LineInv, Moved, Staging, Writing
        <3>3. out' \in Seq(J!Range(out'))
            BY <2>3, OutputGrows
        <3> QED
            BY <3>1, <3>2, <3>3 DEF LineInv, Staging, Writing
    <2>8. J!LinesNotTorn'
        BY <2>1, <2>3, OutputGrows DEF JInv, J!LinesNotTorn
    <2>9. CameInv'
        <3>1. r \in Records /\ NoneCame(out, r) /\ fate[r] = "active"
            BY <1>1 DEF JInv, JTypes, CameInv, OwnInv
        <3>2. OneCame(out', r)
            BY <2>1, <2>2, <2>3, <3>1, ComesOut
        <3>3. \A q \in Records \ {r} :
                 (NoneCame(out, q) => NoneCame(out', q)) /\ (OneCame(out, q) => OneCame(out', q))
            BY <2>2, <2>3, ComesOut
        <3>4. \A q \in Procs \ {p} : call[q].at # "idle" =>
                 call[q].rec \in Records \ {r}
            BY <1>1 DEF JInv, JTypes, OwnInv
        <3> QED
            BY <1>1, <1>2, <1>4, <3>1, <3>2, <3>3, <3>4
               DEF JInv, CameInv, Moved
    <2> QED
        BY <2>4, <2>5, <2>6, <2>7, <2>8, <2>9, AssumedStays DEF JInv
<1> QED
    BY <1>3, <1>4

LEMMA EncodeStep ==
    ASSUME JInv, NEW p \in Procs, NEW b \in bufPool, NEW ok \in BOOLEAN,
           J!Encode(p, b, ok)
    PROVE  JInv'
<1>1. /\ call[p].at = "encode" /\ bufPool' = bufPool \ {b}
      /\ call' = [call EXCEPT ![p].buf = b, ![p].at = IF ok THEN "write" ELSE "retry"]
      /\ UNCHANGED <<cfg, pool, mu, fate, out>>
    BY DEF J!Encode, J!At
<1>2. PICK l : bufs' = [bufs EXCEPT ![b] = <<l>>] /\ (ok => l = J!Line(p, heap))
    BY DEF J!Encode
<1>3. /\ Moved(p) /\ call'[p].at = (IF ok THEN "write" ELSE "retry")
      /\ call'[p].buf = b /\ call'[p].result = call[p].result
    BY <1>1 DEF JInv, JTypes, CallFields, Moved
<1>4. b \in J!States /\ b # 0
    BY StatesAre DEF JInv, JTypes
<1>5. \A q \in Procs : call[q].at # "idle" => call[q].buf # b
    BY DEF JInv, OwnInv
<1>6. JTypes'
    BY <1>1, <1>2, <1>3, <1>4 DEF JInv, JTypes, Moved, CallPlaces, Staging, Writing
<1>7. OwnInv'
    BY <1>1, <1>3, <1>4, <1>5 DEF JInv, OwnInv, Moved
<1>8. StagedInv'
    <2>1. ok => bufs'[b][1].rec = call[p].rec /\ Len(bufs'[b]) = 1
                /\ bufs'[b] = <<bufs'[b][1]>>
        BY <1>2, <1>4 DEF JInv, JTypes, J!Line
    <2>2. \A q \in Procs \ {p} : call[q].at \in Writing =>
             bufs'[call[q].buf] = bufs[call[q].buf]
        BY <1>2, <1>5 DEF JInv, JTypes, Writing, Staging
    <2> QED
        BY <1>1, <1>3, <2>1, <2>2 DEF JInv, StagedInv, Moved, Writing
<1>9. LineInv'
    <2>1. \A q \in Procs \ {p} : call[q].at = "tail" =>
             bufs'[call[q].buf] = bufs[call[q].buf]
        BY <1>2, <1>5 DEF JInv, JTypes, Writing, Staging
    <2> QED
        BY <1>1, <1>3, <2>1 DEF JInv, LineInv, Moved, Staging, Writing
<1>10. J!LinesNotTorn'
    BY <1>1 DEF JInv, J!LinesNotTorn
<1>11. CameInv'
    BY <1>1, <1>3 DEF JInv, CameInv, Moved
<1> QED
    BY <1>6, <1>7, <1>8, <1>9, <1>10, <1>11, AssumedStays DEF JInv

LEMMA RetryStep ==
    ASSUME JInv, NEW p \in Procs, NEW probed, NEW ok \in BOOLEAN,
           J!Retry(p, probed, ok)
    PROVE  JInv'
<1>a. PICK b : b = call[p].buf
    OBVIOUS
<1>0. IF ok THEN J!Goto(p, "write") ELSE J!Return(p, "encode error")
    BY <1>a DEF J!Retry, J!RetryWith
<1>1. /\ call[p].at = "retry"
      /\ UNCHANGED <<cfg, pool, bufPool, mu, fate, out>>
    BY DEF J!Retry, J!RetryWith, J!At
<1>2. PICK hp : bufs' = [bufs EXCEPT ![b] =
                           IF ok THEN Append(<<>>, J!Line(p, hp)) ELSE @]
    BY <1>a DEF J!Retry, J!RetryWith
<1>3. /\ Moved(p) /\ call'[p].at = (IF ok THEN "write" ELSE "return")
      /\ call'[p].buf = b
      /\ call'[p].result \in Results /\ (~ok => call'[p].result = "encode error")
    <2>1. CASE ok
        BY <1>a, <1>0, <2>1, GotoIs DEF JInv, JTypes
    <2>2. CASE ~ok
        BY <1>a, <1>0, <2>2, ReturnIs DEF JInv, Results
    <2> QED
        BY <2>1, <2>2
<1>4. b \in J!States /\ b # 0
    BY <1>1, <1>a DEF JInv, JTypes, Staging
<1>5. \A q \in Procs \ {p} : call[q].at # "idle" => call[q].buf # b
    BY <1>1, <1>4, <1>a DEF JInv, OwnInv
<1>6. JTypes'
    BY <1>a, <1>1, <1>2, <1>3, <1>4 DEF JInv, JTypes, Moved, CallPlaces, Staging, Writing
<1>12. /\ Moved(p) /\ call'[p].buf = call[p].buf
       /\ call'[p].at \in {"write", "return"} /\ (call'[p].at = "write" => ok)
    BY <1>a, <1>3
<1>7. OwnInv'
    BY <1>1, <1>12 DEF JInv, OwnInv, Moved
<1>8. StagedInv'
    <2>1. ok => bufs'[b][1].rec = call[p].rec /\ Len(bufs'[b]) = 1
                /\ bufs'[b] = <<bufs'[b][1]>>
        <3>1. Append(<<>>, J!Line(p, hp)) = <<J!Line(p, hp)>>
            OBVIOUS
        <3> QED
            BY <1>a, <1>2, <1>4, <3>1 DEF JInv, JTypes, J!Line
    <2>2. \A q \in Procs \ {p} : call[q].at \in Writing =>
             bufs'[call[q].buf] = bufs[call[q].buf]
        BY <1>2, <1>5 DEF JInv, JTypes, Writing, Staging
    <2> QED
        BY <1>a, <1>1, <1>12, <2>1, <2>2 DEF JInv, StagedInv, Moved, Writing
<1>9. LineInv'
    <2>1. \A q \in Procs \ {p} : call[q].at = "tail" =>
             bufs'[call[q].buf] = bufs[call[q].buf]
        BY <1>2, <1>5 DEF JInv, JTypes, Writing, Staging
    <2> QED
        BY <1>1, <1>12, <2>1 DEF JInv, LineInv, Moved, Staging, Writing
<1>10. J!LinesNotTorn'
    BY <1>1 DEF JInv, J!LinesNotTorn
<1>11. CameInv'
    BY <1>a, <1>1, <1>3 DEF JInv, CameInv, Moved
<1> QED
    BY <1>6, <1>7, <1>8, <1>9, <1>10, <1>11, AssumedStays DEF JInv

LEMMA WriteHeadStep ==
    ASSUME JInv, NEW p \in Procs, NEW ok \in BOOLEAN, J!WriteHead(p, ok)
    PROVE  JInv'
<1> DEFINE e == [part |-> "head", staged |-> bufs[call[p].buf], meta |-> {}]
<1>1. /\ call[p].at = "write" /\ mu[0] = 0
      /\ UNCHANGED <<cfg, pool, bufs, bufPool, fate>>
    BY DEF J!WriteHead, J!At, JInv, JTypes
<1>2. CASE ~ok
    <2>1. J!Return(p, "error") /\ UNCHANGED <<mu, out>>
        BY <1>2 DEF J!WriteHead
    <2>2. /\ Moved(p) /\ call'[p].at = "return" /\ call'[p].result = "error"
          /\ call'[p].buf = call[p].buf
        BY <2>1, ReturnIs DEF JInv
    <2>3. JTypes'
        BY <1>1, <2>1, <2>2
           DEF JInv, JTypes, Moved, CallPlaces, Results, Staging, Writing
    <2>4. OwnInv' /\ StagedInv'
        BY <1>1, <2>2 DEF JInv, OwnInv, StagedInv, Moved, Writing
    <2>5. LineInv' /\ J!LinesNotTorn'
        BY <1>1, <2>1, <2>2
           DEF JInv, LineInv, J!LinesNotTorn, Moved, Staging, Writing
    <2>6. CameInv'
        BY <1>1, <2>1, <2>2 DEF JInv, CameInv, Moved
    <2> QED
        BY <2>3, <2>4, <2>5, <2>6, AssumedStays DEF JInv
<1>3. CASE ok
    <2>1. /\ J!Goto(p, "tail") /\ mu' = [mu EXCEPT ![0] = call[p].rec]
          /\ out' = Append(out, e)
        BY <1>3 DEF J!WriteHead, JInv, JTypes
    <2>2. e.part = "head" /\ e.staged = bufs[call[p].buf]
        OBVIOUS
    <2> HIDE DEF e
    <2>3. /\ Moved(p) /\ call'[p].at = "tail" /\ call'[p].result = call[p].result
          /\ call'[p].buf = call[p].buf
        BY <2>1, GotoIs DEF JInv
    <2>4. out \in Seq(J!Range(out))
        BY DEF JInv, LineInv
    <2>5. JTypes'
        BY <1>1, <2>1, <2>3 DEF JInv, JTypes, Moved, CallPlaces, Staging, Writing
    <2>6. OwnInv' /\ StagedInv'
        BY <1>1, <2>3 DEF JInv, OwnInv, StagedInv, Moved, Writing
    <2>7. LineInv'
        <3>1. \A q \in Procs : call[q].at # "tail"
            BY <1>1 DEF JInv, Assumed, J!WellFormed, JTypes, LineInv
        <3>2. mu'[0] = call'[p].rec
            BY <2>1, <2>3 DEF JInv, JTypes, Moved
        <3>3. /\ out' \in Seq(J!Range(out')) /\ Len(out') > 0
              /\ out'[Len(out')].part = "head"
              /\ out'[Len(out')].staged = bufs'[call'[p].buf]
            BY <1>1, <2>1, <2>2, <2>3, <2>4, OutputGrows
        <3> QED
            BY <1>1, <2>3, <3>1, <3>2, <3>3
               DEF JInv, LineInv, Moved, Staging, Writing
    <2>8. J!LinesNotTorn'
        BY <2>1, <2>2, <2>4, OutputGrows DEF JInv, J!LinesNotTorn
    <2>9. CameInv'
        <3>1. \A q \in Records :
                 (NoneCame(out, q) => NoneCame(out', q)) /\ (OneCame(out, q) => OneCame(out', q))
            BY <2>1, <2>2, <2>4, ComesOut
        <3> QED
            BY <1>1, <2>3, <3>1 DEF JInv, JTypes, CameInv, Moved
    <2> QED
        BY <2>5, <2>6, <2>7, <2>8, <2>9, AssumedStays DEF JInv
<1> QED
    BY <1>2, <1>3

LEMMA WriteTailStep ==
    ASSUME JInv, NEW p \in Procs, NEW ok \in BOOLEAN, J!WriteTail(p, ok)
    PROVE  JInv'
<1> DEFINE e == [part |-> "tail", meta |-> {}, staged |-> bufs[call[p].buf]]
<1> PICK r : r = call[p].rec
    OBVIOUS
<1>1. /\ call[p].at = "tail" /\ mu' = [mu EXCEPT ![0] = 0]
      /\ out' = (IF ok THEN Append(out, e) ELSE out)
      /\ UNCHANGED <<cfg, pool, bufs, bufPool, fate>>
    BY DEF J!WriteTail, J!At, JInv, JTypes
<1>2. /\ Moved(p) /\ call'[p].at = "return" /\ call'[p].buf = call[p].buf
      /\ call'[p].result = (IF ok THEN "nil" ELSE "error")
    BY ReturnIs DEF JInv, J!WriteTail
<1>3. e.part = "tail" /\ e.staged = bufs[call[p].buf]
    OBVIOUS
<1> HIDE DEF e
<1>4. JTypes'
    <2>1. /\ call'[p].at \in CallPlaces /\ call'[p].at \notin Staging
          /\ call'[p].result \in Results
        BY <1>2 DEF CallPlaces, Results, Staging, Writing
    <2> QED
        BY <1>1, <1>2, <2>1 DEF JInv, JTypes, Moved
<1>5. OwnInv' /\ StagedInv'
    BY <1>1, <1>2 DEF JInv, OwnInv, StagedInv, Moved, Writing
<1>6. out \in Seq(J!Range(out))
    BY DEF JInv, LineInv
<1>7. \A q \in Procs \ {p} : call[q].at # "tail"
    BY <1>1 DEF JInv, OwnInv, LineInv
<1>8. LineInv'
    <2>1. out' \in Seq(J!Range(out'))
        BY <1>1, <1>6, OutputGrows
    <2> QED
        BY <1>1, <1>2, <1>7, <2>1 DEF JInv, LineInv, Moved, Staging, Writing
<1>9. J!LinesNotTorn'
    <2>1. Len(out) > 0 /\ out[Len(out)].part = "head" /\ out[Len(out)].staged = e.staged
        BY <1>1, <1>3 DEF JInv, LineInv
    <2>2. CASE ok
        BY <1>1, <1>6, <2>1, <2>2, OutputGrows DEF JInv, J!LinesNotTorn
    <2>3. CASE ~ok
        BY <1>1, <2>3 DEF JInv, J!LinesNotTorn
    <2> QED
        BY <2>2, <2>3
<1>10. CameInv'
    <2>1. r \in Records /\ NoneCame(out, r) /\ fate[r] = "active"
        BY <1>1 DEF JInv, JTypes, CameInv, OwnInv
    <2>2. \A q \in Procs \ {p} : call[q].at # "idle" => call[q].rec \in Records \ {r}
        BY <1>1 DEF JInv, JTypes, OwnInv
    <2>3. CASE ok
        <3>1. \E l : J!ToSet(e.staged) = {l} /\ l.rec = r
            <4> PICK b : b = e.staged
                OBVIOUS
            <4>1. Len(b) = 1 /\ b = <<b[1]>> /\ b[1].rec = r
                BY <1>1, <1>3 DEF JInv, StagedInv, Writing
            <4>2. J!ToSet(b) = {b[1]}
                BY <4>1 DEF J!ToSet
            <4> QED
                BY <4>1, <4>2
        <3>2. OneCame(out', r)
            BY <1>1, <1>3, <1>6, <2>1, <2>3, <3>1, ComesOut
        <3>3. \A q \in Records \ {r} :
                 (NoneCame(out, q) => NoneCame(out', q)) /\ (OneCame(out, q) => OneCame(out', q))
            BY <1>1, <1>6, <2>3, <3>1, ComesOut
        <3> QED
            BY <1>1, <1>2, <2>1, <2>2, <2>3, <3>2, <3>3
               DEF JInv, CameInv, Moved
    <2>4. CASE ~ok
        BY <1>1, <1>2, <2>4 DEF JInv, CameInv, Moved
    <2> QED
        BY <2>3, <2>4
<1> QED
    BY <1>4, <1>5, <1>8, <1>9, <1>10, AssumedStays DEF JInv

LEMMA FinishStep ==
    ASSUME JInv, NEW p \in Procs, J!Finish(p)
    PROVE  JInv'
<1>1. /\ call[p].at = "return"
      /\ fate' = [fate EXCEPT ![call[p].rec] = call[p].result]
      /\ bufs' = (IF call[p].buf = 0 THEN bufs ELSE [bufs EXCEPT ![call[p].buf] = <<>>])
      /\ bufPool' = bufPool \cup ({call[p].buf} \ {0})
      /\ pool' = pool \cup {call[p].st}
      /\ call' = [call EXCEPT ![p] = J!NoCall]
      /\ UNCHANGED <<cfg, mu, out>>
    BY DEF J!Finish, J!At
<1>2. /\ call[p].rec \in Records /\ call[p].st \in J!States
      /\ call[p].buf \in {0} \cup J!States /\ call[p].result \in Results
    BY <1>1 DEF JInv, JTypes
<1>3. /\ DOMAIN call' = Procs /\ \A q \in Procs \ {p} : call'[q] = call[q]
      /\ call'[p].at = "idle" /\ call'[p].result = "nil" /\ call'[p].buf = 0
      /\ call'[p].h.mu = 0 /\ DOMAIN call'[p] = CallFields
    BY <1>1 DEF JInv, JTypes, J!NoCall, J!RootHandler, CallFields
<1>4. \A q \in Procs \ {p} : call[q].at # "idle" =>
         /\ call[q].rec # call[p].rec /\ call[q].st # call[p].st
         /\ call[q].buf = call[p].buf => call[p].buf = 0
    BY <1>1 DEF JInv, OwnInv
<1>5. \A q \in Procs \ {p} : call[q].at \in Writing =>
         bufs'[call[q].buf] = bufs[call[q].buf]
    BY <1>1, <1>4 DEF JInv, JTypes, Staging, Writing
<1>6. JTypes'
    <2>1. DOMAIN fate' = Records /\ DOMAIN bufs' = J!States /\ DOMAIN mu' = 0..3
        BY <1>1 DEF JInv, JTypes
    <2>2. pool' \subseteq J!States /\ bufPool' \subseteq J!States
        BY <1>1, <1>2 DEF JInv, JTypes
    <2>3. "idle" \in CallPlaces /\ "idle" \notin Staging /\ "nil" \in Results
        BY DEF CallPlaces, Staging, Writing, Results
    <2> QED
        BY <1>3, <2>1, <2>2, <2>3 DEF JInv, JTypes
<1>7. OwnInv'
    BY <1>1, <1>2, <1>3, <1>4 DEF JInv, JTypes, OwnInv
<1>8. StagedInv'
    BY <1>3, <1>5 DEF JInv, StagedInv, Writing
<1>9. LineInv'
    BY <1>1, <1>3, <1>5 DEF JInv, LineInv, Staging, Writing
<1>10. J!LinesNotTorn'
    BY <1>1 DEF JInv, J!LinesNotTorn
<1>11. CameInv'
    <2>1. /\ call[p].result = "nil" => OneCame(out, call[p].rec)
          /\ call[p].result # "nil" => NoneCame(out, call[p].rec)
        BY <1>1 DEF JInv, CameInv
    <2> QED
        BY <1>1, <1>2, <1>3, <1>4, <2>1 DEF JInv, JTypes, CameInv, Results
<1> QED
    BY <1>6, <1>7, <1>8, <1>9, <1>10, <1>11, AssumedStays DEF JInv

LEMMA JStep == JInv /\ [J!Next]_J!vars => JInv'
<1> SUFFICES ASSUME JInv, [J!Next]_J!vars PROVE JInv'
    OBVIOUS
<1>1. CASE UNCHANGED J!vars
    BY <1>1, AssumedStays
       DEF JInv, JTypes, OwnInv, StagedInv, LineInv, J!LinesNotTorn, CameInv
<1>2. ASSUME NEW p \in Procs, J!Step(p) PROVE JInv'
    <2>1. ASSUME NEW r \in J!Upcoming, NEW in \in Inputs, J!Disabled(p, r, in)
          PROVE  JInv'
        BY <2>1, DisabledStep DEF J!Upcoming
    <2>2. ASSUME NEW r \in J!Upcoming, NEW in \in Inputs, NEW l \in Loggers,
                 NEW s \in pool, J!Handle(p, r, in, J!Derive(l), s)
          PROVE  JInv'
        BY <2>2, HandleStep DEF J!Upcoming
    <2>3. CASE J!PrepareTest(p) \/ J!PrepareCopy(p) \/ J!PrepareDetach(p) \/ J!Emit(p)
        BY <2>3, PrepareSteps
    <2>4. ASSUME NEW result \in {"nil", "error"}, J!Export(p, result) PROVE JInv'
        BY <2>4, ExportStep
    <2>5. ASSUME NEW b \in J!Blank, NEW ok \in BOOLEAN, J!Encode(p, b, ok) PROVE JInv'
        BY <2>5, EncodeStep DEF J!Blank
    <2>6. ASSUME NEW probed, NEW ok \in BOOLEAN, J!Retry(p, probed, ok) PROVE JInv'
        BY <2>6, RetryStep
    <2>7. ASSUME NEW ok \in BOOLEAN, J!WriteHead(p, ok) \/ J!WriteTail(p, ok) PROVE JInv'
        BY <2>7, WriteHeadStep, WriteTailStep
    <2>8. CASE J!Finish(p)
        BY <2>8, FinishStep
    <2> QED
        BY <1>2, <2>1, <2>2, <2>3, <2>4, <2>5, <2>6, <2>7, <2>8 DEF J!Step
<1> QED
    BY <1>1, <1>2 DEF J!Next

LEMMA JImplies == JInv => J!CallsStayApart
<1> SUFFICES ASSUME JInv PROVE J!CallsStayApart
    OBVIOUS
<1>1. J!PoolsExclusive
    BY DEF JInv, JTypes, OwnInv, J!PoolsExclusive
<1>2. J!NilMeansWritten
    BY DEF JInv, CameInv, J!NilMeansWritten, NoneCame, OneCame, Came
<1> QED
    BY <1>1, <1>2 DEF JInv, J!CallsStayApart

(* Calls of Handle, records, pools, mutex and output agree in every        *)
(* reachable state, for any number of goroutines and records.              *)
THEOREM LoggingInvariance == Assumed /\ J!Spec => []JInv
    BY JInit, JStep, PTL DEF J!Spec

(* Goroutines that log at once stay out of each other's way: a pooled      *)
(* state or buffer serves one call at a time, lines come out in one piece, *)
(* and nil is returned for a record that came out, exactly once            *)
(* (jsonHandler.Handle, writeJSONPayload, the deferred calls).             *)
THEOREM CallsKeepApart == J!WellFormed /\ J!MutexIsShared /\ J!Spec => []J!CallsStayApart
    BY JImplies, LoggingInvariance, PTL DEF Assumed
=============================================================================
