---------------------------- MODULE RuntimeInfo ----------------------------
(***************************************************************************)
(* runtime_info.go: DetectRuntimeInfo finds out once per process, from     *)
(* environment variables and from the metadata server, on which platform   *)
(* the program runs and which project it belongs to.  The lookup of        *)
(* metadata caches every answer, probes the server once, and gives up on   *)
(* it at the first network error.                                          *)
(***************************************************************************)
EXTENDS Integers, Sequences, FiniteSets, Functions

CONSTANTS
    Callers,    \* goroutines that call DetectRuntimeInfo
    Envs,       \* the sets of variables the process may have been given
    EnvProjects,\* the values its project variables may have
    Servers     \* the metadata servers it may meet

(* A project id as it is written: "" unset, "bad" not a valid id.          *)
ProjectKeys ==
    <<"SLOGCP_TRACE_PROJECT_ID", "SLOGCP_PROJECT_ID", "SLOGCP_GCP_PROJECT",
      "GOOGLE_CLOUD_PROJECT", "GCLOUD_PROJECT", "GCP_PROJECT", "PROJECT_ID">>
ServiceProjectKeys == SubSeq(ProjectKeys, 3, 6)

Paths == {"region", "zone", "id", "cluster", "location", "project"}

(* What the server has for a path: a value, one that is no valid project   *)
(* id, nothing (not defined, blank, or another error of the server), or no *)
(* answer at all (a network error, a deadline).                            *)
Answers == {"value", "bad", "nothing", "neterr"}

ASSUME RuntimeAssumption ==
    /\ EnvProjects \subseteq [Range(ProjectKeys) -> STRING]
    /\ Servers \subseteq [onGCE : BOOLEAN, answer : [Paths -> Answers]]

VARIABLES
    env,        \* the variables that are set
    projects,   \* the project variables
    server,     \* the metadata server this detection talks to
    once,       \* sync.OnceValue: "new", "running" or "done"
    stage,      \* which detector runs next
    md,         \* the metadataLookup
    info,       \* the RuntimeInfo
    pc,         \* "idle", "waiting" or "returned", for each caller
    got         \* what DetectRuntimeInfo returned to each caller

vars == <<env, projects, server, once, stage, md, info, pc, got>>

NoInfo == [platform |-> "Unknown", project |-> "", labels |-> {},
           context |-> {}]

Init ==
    /\ env \in Envs
    /\ projects \in EnvProjects
    /\ server = CHOOSE s \in Servers : TRUE
    /\ once = "new"
    /\ stage = "none"
    /\ md = [probed |-> FALSE, available |-> FALSE,
             cache |-> [p \in Paths |-> "none"], gets |-> <<>>]
    /\ info = NoInfo
    /\ pc = [c \in Callers |-> "idle"]
    /\ got = [c \in Callers |-> NoInfo]

-----------------------------------------------------------------------------
(* metadataLookup.                                                         *)

(* isAvailable: the server is probed at the first lookup.                  *)
Probe(m) ==
    IF m.probed THEN m
    ELSE [m EXCEPT !.probed = TRUE, !.available = server.onGCE]

(* Mutant of Get: a network error does not turn the server off.            *)
GetNoLatch(m, p) ==
    LET l == Probe(m) IN
    IF ~l.available \/ l.cache[p] # "none" THEN l
    ELSE [l EXCEPT !.gets = Append(@, p), !.cache[p] = server.answer[p]]

(* get: an unavailable server is not asked, a cached path not again.       *)
Get(m, p) ==
    LET l == Probe(m) IN
    IF ~l.available \/ l.cache[p] # "none" THEN l
    ELSE [l EXCEPT !.gets = Append(@, p),
                   !.cache[p] = server.answer[p],
                   !.available = server.answer[p] # "neterr"]

(* Whether the get that led to m had a value: the cache is not read any    *)
(* more once the server is unavailable.                                    *)
Has(m, p) == m.available /\ m.cache[p] \in {"value", "bad"}

(* projectID.                                                              *)
MetadataProject(m) ==
    IF m.available /\ m.cache["project"] = "value" THEN "metadata" ELSE ""

-----------------------------------------------------------------------------
(* resolveProjectIDFromEnv: the project given, or the first valid one.     *)
Valid(p) == p \notin {"", "bad"}

FirstValid(keys) ==
    {i \in DOMAIN keys : /\ Valid(projects[keys[i]])
                         /\ \A j \in 1..(i - 1) : ~Valid(projects[keys[j]])}

ResolveProjectIDFromEnv(current, keys) ==
    LET first == FirstValid(keys)
    IN  IF Valid(current) THEN current
        ELSE IF first # {} THEN projects[keys[CHOOSE i \in first : TRUE]]
        ELSE ""

(* The platforms that are told from their variables alone, in the order    *)
(* they are tried.                                                         *)
Managed ==
    <<[name    |-> "CloudFunctions",
       needs   |-> {"K_SERVICE", "FUNCTION_TARGET",
                    "FUNCTION_SIGNATURE_TYPE"},
       regions |-> {"FUNCTION_REGION", "GOOGLE_CLOUD_REGION",
                    "CLOUD_RUN_REGION"},
       path    |-> "region"],
      [name    |-> "CloudRunService",
       needs   |-> {"K_SERVICE", "K_REVISION", "K_CONFIGURATION"},
       regions |-> {"CLOUD_RUN_REGION", "GOOGLE_CLOUD_REGION"},
       path    |-> "region"],
      [name    |-> "CloudRunJob",
       needs   |-> {"CLOUD_RUN_JOB", "CLOUD_RUN_EXECUTION",
                    "CLOUD_RUN_TASK_INDEX", "CLOUD_RUN_TASK_ATTEMPT"},
       regions |-> {"CLOUD_RUN_REGION", "GOOGLE_CLOUD_REGION"},
       path    |-> "region"],
      [name    |-> "AppEngine",
       needs   |-> {"GAE_SERVICE", "GAE_VERSION", "GAE_INSTANCE"},
       regions |-> {},
       path    |-> "zone"]>>
ManagedNames == {Managed[i].name : i \in DOMAIN Managed}

(* The environment a detector reports, wherever it is located.             *)
Platform(p) ==
    IF p.name = "AppEngine" /\ "GAE_ENV" \in env
    THEN "AppEngineFlexible" ELSE p.name

(* A project found so far, else the metadata server's: the end of every    *)
(* detector.                                                               *)
WithProject(m, project) ==
    IF project # "" THEN [md |-> m, project |-> project]
    ELSE LET asked == Get(m, "project")
         IN [md |-> asked, project |-> MetadataProject(asked)]

Leave(to) ==
    /\ once = "running"
    /\ stage' = to
    /\ UNCHANGED <<env, projects, server, once, pc, got>>

(* detectCloudFunction, detectCloudRunService, detectCloudRunJob,          *)
(* detectAppEngine, each with the lookup of its region or zone and of its  *)
(* project.                                                                *)
DetectManaged(i) ==
    LET p       == Managed[i]
        located == env \cap p.regions # {}
        m       == IF located THEN md ELSE Get(md, p.path)
        byEnv   == ResolveProjectIDFromEnv(info.project, ServiceProjectKeys)
        byApp   == IF byEnv = "" /\ p.name = "AppEngine"
                         /\ "GAE_APPLICATION" \in env
                   THEN "application" ELSE byEnv
        found   == WithProject(m, byApp)
    IN /\ stage = p.name
       /\ p.needs \subseteq env
       /\ Leave("ensureProjectID")
       /\ md' = found.md
       /\ info' = [platform |-> Platform(p),
                   project  |-> found.project,
                   labels   |-> p.needs \cup
                                IF located \/ Has(m, p.path)
                                THEN {p.path} ELSE {},
                   context  |-> {"service"} \cup
                                IF p.name # "CloudFunctions"
                                     \/ "K_REVISION" \in env
                                THEN {"version"} ELSE {}]

(* One of them finds a variable missing.                                   *)
NotManaged(i) ==
    /\ stage = Managed[i].name
    /\ ~(Managed[i].needs \subseteq env)
    /\ Leave(IF i < Len(Managed) THEN Managed[i + 1].name ELSE "Kubernetes")
    /\ UNCHANGED <<md, info>>

(* detectKubernetes: in a pod, but the platform is settled only when the   *)
(* cluster has a name.                                                     *)
DetectKubernetes ==
    LET named   == Get(md, "cluster")
        cluster == Has(named, "cluster") \/ "CLUSTER_NAME" \in env
        located == "CLUSTER_LOCATION" \in env
        m       == IF located THEN named ELSE Get(named, "location")
        found   == WithProject(m, ResolveProjectIDFromEnv(info.project,
                                                         ServiceProjectKeys))
    IN /\ stage = "Kubernetes"
       /\ "KUBERNETES_SERVICE_HOST" \in env
       /\ IF cluster
          THEN /\ md' = found.md
               /\ info' = [info EXCEPT
                             !.platform = "Kubernetes",
                             !.project  = found.project,
                             !.labels   = {"cluster"} \cup
                                IF located \/ Has(m, "location")
                                THEN {"location"} ELSE {}]
               /\ Leave("ensureProjectID")
          ELSE /\ md' = named
               /\ info' = [info EXCEPT !.platform = "Kubernetes"]
               /\ Leave("ComputeEngine")

NotKubernetes ==
    /\ stage = "Kubernetes"
    /\ "KUBERNETES_SERVICE_HOST" \notin env
    /\ Leave("ComputeEngine")
    /\ UNCHANGED <<md, info>>

(* detectComputeEngine: the project of the metadata server goes before the *)
(* one of the environment.                                                 *)
DetectComputeEngine ==
    LET named   == Get(md, "id")
        zoned   == Get(named, "zone")
        m       == Get(zoned, "project")
        project == MetadataProject(m)
    IN /\ stage = "ComputeEngine"
       /\ Leave("ensureProjectID")
       /\ IF Has(named, "id")
          THEN /\ md' = m
               /\ info' = [info EXCEPT
                             !.platform = "ComputeEngine",
                             !.project  = IF project # "" THEN project ELSE @,
                             !.labels   = {"id"} \cup
                                IF Has(zoned, "zone") THEN {"zone"} ELSE {}]
          ELSE /\ md' = named
               /\ UNCHANGED info

(* Mutant of EnsureProjectID: what the detectors left open stays open.     *)
EnsureProjectIDMissed ==
    /\ stage = "ensureProjectID"
    /\ once = "running"
    /\ once' = "done"
    /\ stage' = "none"
    /\ UNCHANGED <<env, projects, server, md, info, pc, got>>

(* ensureProjectID, and the end of the detection.                          *)
EnsureProjectID ==
    LET found == WithProject(md, info.project) IN
    /\ stage = "ensureProjectID"
    /\ once = "running"
    /\ once' = "done"
    /\ stage' = "none"
    /\ md' = found.md
    /\ info' = [info EXCEPT !.project = found.project]
    /\ UNCHANGED <<env, projects, server, pc, got>>

-----------------------------------------------------------------------------
(* DetectRuntimeInfo.                                                      *)

(* The first caller runs detectRuntimeInfo, which begins with the project  *)
(* variables; the others wait for it.                                      *)
BeginDetection(s) ==
    /\ server' = s
    /\ once' = "running"
    /\ stage' = Managed[1].name
    /\ md' = [probed |-> FALSE, available |-> FALSE,
              cache |-> [p \in Paths |-> "none"], gets |-> <<>>]
    /\ info' = [NoInfo EXCEPT
                  !.project = ResolveProjectIDFromEnv("", ProjectKeys)]

Call(c, s) ==
    /\ pc[c] = "idle"
    /\ pc' = [pc EXCEPT ![c] = "waiting"]
    /\ IF once = "new"
       THEN BeginDetection(s)
       ELSE s = server /\ UNCHANGED <<server, once, stage, md, info>>
    /\ UNCHANGED <<env, projects, got>>

Return(c) ==
    /\ pc[c] = "waiting"
    /\ once = "done"
    /\ pc' = [pc EXCEPT ![c] = "returned"]
    /\ got' = [got EXCEPT ![c] = info]
    /\ UNCHANGED <<env, projects, server, once, stage, md, info>>

Detect ==
    \/ \E i \in DOMAIN Managed : DetectManaged(i) \/ NotManaged(i)
    \/ DetectKubernetes \/ NotKubernetes
    \/ DetectComputeEngine \/ EnsureProjectID

Done == (\A c \in Callers : pc[c] = "returned") /\ UNCHANGED vars

Next ==
    \/ \E c \in Callers : Return(c) \/ \E s \in Servers : Call(c, s)
    \/ Detect
    \/ Done

Spec == Init /\ [][Next]_vars

-----------------------------------------------------------------------------
(* Properties.                                                             *)

Finished == once = "done"
EnvProject == ResolveProjectIDFromEnv("", ProjectKeys)

(* Every caller sees the same platform and project, even when the metadata *)
(* server answers differently later (sync.OnceValue).                      *)
OneAnswer ==
    \A c, d \in Callers :
        pc[c] = "returned" /\ pc[d] = "returned" => got[c] = got[d]

(* No path is requested twice in one detection, and after a network error  *)
(* nothing is requested any more: at most one request waits for a server   *)
(* that does not answer.                                                   *)
AtMostOneTimeout ==
    /\ IsInjective(md.gets)
    /\ \A i \in 1 .. Len(md.gets) - 1 : server.answer[md.gets[i]] # "neterr"

(* Whether the defaults of a managed platform apply is decided by the      *)
(* variables, however the metadata server behaves.                         *)
ManagedByEnvAlone ==
    Finished =>
        ((info.platform \in ManagedNames \cup {"AppEngineFlexible"})
           <=> \E i \in DOMAIN Managed : Managed[i].needs \subseteq env)

(* A valid project in the environment is kept on every platform but        *)
(* Compute Engine, where the metadata server's goes first.                 *)
EnvProjectKept ==
    Finished /\ EnvProject # "" =>
        \/ info.project = EnvProject
        \/ info.platform = "ComputeEngine" /\ info.project = "metadata"

(* No project means that there was none to be had: no valid variable, and  *)
(* a metadata server that is absent, failed, or does not know a valid one. *)
NoProjectMeansNoSource ==
    Finished /\ info.project = "" =>
        /\ EnvProject = ""
        /\ \/ ~server.onGCE
           \/ \E i \in DOMAIN md.gets : server.answer[md.gets[i]] = "neterr"
           \/ server.answer["project"] # "value"

(* The answer is the same for everybody, and right: the platform by its    *)
(* variables, the project by the best source there is.                     *)
AnswerIsRight ==
    OneAnswer /\ ManagedByEnvAlone /\ EnvProjectKept /\ NoProjectMeansNoSource
=============================================================================
