------------------------- MODULE RuntimeInfo_proofs -------------------------
(***************************************************************************)
(* Proofs about RuntimeInfo, for any number of callers, any environment    *)
(* and any metadata server: no path is asked for twice and at most one     *)
(* request waits for a server that does not answer; everybody gets the     *)
(* same answer, and it is the right one.                                   *)
(***************************************************************************)
EXTENDS RuntimeInfo, TLAPS

USE DEF vars

ServerSet == [onGCE : BOOLEAN, answer : [Paths -> Answers]]
Lookups   == [probed : BOOLEAN, available : BOOLEAN,
              cache : [Paths -> Answers \cup {"none"}], gets : Seq(Paths)]
Platforms == {"Unknown", "Kubernetes", "ComputeEngine", "AppEngineFlexible"}
             \cup ManagedNames
Names     == {"", "metadata", "application"}
             \cup UNION {{p[k] : k \in Range(ProjectKeys)} : p \in EnvProjects}
Labels    == Paths \cup UNION {Managed[i].needs : i \in DOMAIN Managed}
Infos     == [platform : Platforms, project : Names,
              labels : SUBSET Labels, context : SUBSET {"service", "version"}]
Ending    == "ensureProjectID"
Open      == ManagedNames \cup {"Kubernetes", "ComputeEngine"}

(* The types of the process, of the detection and of its callers.          *)
RuntimeTypes ==
    /\ env \in Envs /\ projects \in EnvProjects
    /\ once \in {"new", "running", "done"}
    /\ once = "running" => stage \in Open \cup {Ending}
    /\ once # "new" => server \in ServerSet
    /\ info \in Infos
    /\ pc \in [Callers -> {"idle", "waiting", "returned"}]
    /\ got \in [Callers -> Infos]

(* A network error among the answers that m has been given by s.           *)
Failed(m, s) == \E i \in DOMAIN m.gets : s.answer[m.gets[i]] = "neterr"

(* A lookup that has talked to the server s alone: what it asked for it    *)
(* has cached, it asked for nothing twice, and it is unavailable for a     *)
(* reason.                                                                 *)
Sound(m, s) ==
    /\ m \in Lookups
    /\ \A p \in Paths : m.cache[p] \in {"none", s.answer[p]}
    /\ \A i \in DOMAIN m.gets : m.cache[m.gets[i]] # "none"
    /\ IsInjective(m.gets)
    /\ \A i \in 1 .. Len(m.gets) - 1 : s.answer[m.gets[i]] # "neterr"
    /\ ~m.probed => ~m.available /\ m.gets = <<>>
    /\ m.available => ~Failed(m, s)
    /\ m.probed /\ s.onGCE /\ ~m.available => Failed(m, s)

(* The lookup asks one server from its first request to its last.          *)
LookupInv ==
    IF once = "new" THEN md.gets = <<>> ELSE Sound(md, server)

(* The answers that were returned are the one that is kept.                *)
AnswerInv ==
    \A c \in Callers : pc[c] = "returned" => once = "done" /\ got[c] = info

(* A detector runs after those before it have found a variable missing,    *)
(* and the one that finds all of them ends the search.                     *)
Missing(i) == ~(Managed[i].needs \subseteq env)
Settled    == once = "done" \/ (once = "running" /\ stage = Ending)
StageInv ==
    /\ once = "running" =>
        /\ \A i \in DOMAIN Managed :
              stage = Managed[i].name => \A j \in 1..(i - 1) : Missing(j)
        /\ stage \in {"Kubernetes", "ComputeEngine"} =>
              \A i \in DOMAIN Managed : Missing(i)
        /\ stage \in Open => info.platform \in {"Unknown", "Kubernetes"}
    /\ Settled =>
        (info.platform \in ManagedNames \cup {"AppEngineFlexible"}
           <=> \E i \in DOMAIN Managed : ~Missing(i))

(* A project of the environment is found first, and only the metadata      *)
(* server of a Compute Engine instance goes before it.                     *)
ProjectInv ==
    once # "new" /\ EnvProject # "" =>
        \/ info.project = EnvProject
        \/ Settled /\ info.platform = "ComputeEngine" /\ info.project = "metadata"

(* Why a lookup has no project.                                            *)
NoSource(m) ==
    ~server.onGCE \/ Failed(m, server) \/ server.answer["project"] # "value"

(* A detection that ends without a project had no source for one.          *)
NoSourceInv == Finished /\ info.project = "" => NoSource(md)

(* The inductive invariant.                                                *)
IInv == /\ RuntimeTypes /\ LookupInv /\ AnswerInv /\ StageInv /\ ProjectInv
        /\ NoSourceInv

-----------------------------------------------------------------------------
(* Operators.                                                              *)

(* The four platforms that are told from their variables.                  *)
LEMMA ManagedIs ==
    /\ DOMAIN Managed = 1..4 /\ Len(Managed) = 4
    /\ Managed[1].name = "CloudFunctions" /\ Managed[2].name = "CloudRunService"
    /\ Managed[3].name = "CloudRunJob" /\ Managed[4].name = "AppEngine"
    /\ \A i \in 1..4 : Managed[i].path \in Paths
<1>1. /\ DOMAIN Managed = 1..4 /\ Len(Managed) = 4
      /\ Managed[1].name = "CloudFunctions" /\ Managed[2].name = "CloudRunService"
      /\ Managed[3].name = "CloudRunJob" /\ Managed[4].name = "AppEngine"
    BY DEF Managed
<1>2. /\ Managed[1].path \in Paths /\ Managed[2].path \in Paths
      /\ Managed[3].path \in Paths /\ Managed[4].path \in Paths
    BY DEF Managed, Paths
<1>3. \A i \in 1..4 : i = 1 \/ i = 2 \/ i = 3 \/ i = 4
    OBVIOUS
<1> QED
    BY <1>1, <1>2, <1>3

(* Their names.                                                            *)
LEMMA ManagedNamesAre ==
    ManagedNames = {"CloudFunctions", "CloudRunService", "CloudRunJob", "AppEngine"}
<1>1. \A i \in 1..4 : i = 1 \/ i = 2 \/ i = 3 \/ i = 4
    OBVIOUS
<1>2. 1 \in 1..4 /\ 2 \in 1..4 /\ 3 \in 1..4 /\ 4 \in 1..4
    OBVIOUS
<1> QED
    BY <1>1, <1>2, ManagedIs DEF ManagedNames

(* What a project may be called.                                           *)
LEMMA NamesAre ==
    /\ "" \in Names /\ "metadata" \in Names /\ "application" \in Names
    /\ \A p \in EnvProjects, k \in Range(ProjectKeys) : p[k] \in Names
<1>1. "" \in Names /\ "metadata" \in Names /\ "application" \in Names
    BY DEF Names
<1>2. ASSUME NEW p \in EnvProjects, NEW k \in Range(ProjectKeys)
      PROVE  p[k] \in Names
    <2> DEFINE V(q) == {q[j] : j \in Range(ProjectKeys)}
    <2>1. p[k] \in V(p)
        OBVIOUS
    <2> HIDE DEF V
    <2>2. p[k] \in UNION {V(q) : q \in EnvProjects}
        BY <2>1
    <2> QED
        BY <2>2 DEF Names, V
<1> QED
    BY <1>1, <1>2

(* The first lookup probes the server.                                     *)
LEMMA ProbeIs ==
    ASSUME NEW m, server \in ServerSet, Sound(m, server)
    PROVE  /\ Sound(Probe(m), server) /\ Probe(m).probed
           /\ Probe(m).gets = m.gets
<1>1. CASE m.probed
    BY <1>1 DEF Probe
<1>2. CASE ~m.probed
    <2> DEFINE l == [m EXCEPT !.probed = TRUE, !.available = server.onGCE]
    <2>1. /\ l \in Lookups /\ l.probed /\ l.available = server.onGCE
          /\ l.cache = m.cache /\ l.gets = m.gets
        BY DEF Sound, Lookups, ServerSet
    <2>2. Probe(m) = l
        BY <1>2 DEF Probe
    <2> HIDE DEF l
    <2>3. m.gets = <<>>
        BY <1>2 DEF Sound
    <2>4. ~Failed(l, server)
        BY <2>1, <2>3 DEF Failed
    <2> QED
        BY <2>1, <2>2, <2>3, <2>4 DEF Sound
<1> QED
    BY <1>1, <1>2

(* A request leaves the lookup sound, and an answer in the cache unless    *)
(* the server is unavailable.                                              *)
LEMMA GetIs ==
    ASSUME NEW m, server \in ServerSet, Sound(m, server), NEW p \in Paths
    PROVE  LET after == Get(m, p)
           IN  /\ Sound(after, server) /\ after.probed
               /\ after.available => after.cache[p] = server.answer[p]
<1> DEFINE l == Probe(m)
<1>1. Sound(l, server) /\ l.probed
    BY ProbeIs
<1>2. server.answer[p] \in Answers
    BY DEF ServerSet
<1> HIDE DEF l
<1>3. CASE ~l.available \/ l.cache[p] # "none"
    BY <1>1, <1>3 DEF Get, l, Sound
<1>4. CASE l.available /\ l.cache[p] = "none"
    <2> DEFINE a == [l EXCEPT !.gets = Append(@, p),
                              !.cache[p] = server.answer[p],
                              !.available = server.answer[p] # "neterr"]
    <2>1. Get(m, p) = a
        BY <1>4 DEF Get, l
    <2>2. /\ l \in Lookups /\ l.gets \in Seq(Paths)
          /\ l.cache \in [Paths -> Answers \cup {"none"}]
        BY <1>1 DEF Sound, Lookups
    <2>3. /\ a \in Lookups /\ a.probed /\ a.gets = Append(l.gets, p)
          /\ a.available = (server.answer[p] # "neterr")
          /\ a.cache = [l.cache EXCEPT ![p] = server.answer[p]]
        <3>1. /\ Append(l.gets, p) \in Seq(Paths)
              /\ [l.cache EXCEPT ![p] = server.answer[p]]
                 \in [Paths -> Answers \cup {"none"}]
            BY <1>2, <2>2
        <3> QED
            BY <1>1, <2>2, <3>1 DEF Lookups
    <2> HIDE DEF a
    <2> DEFINE n == Len(l.gets)
    <2>4. /\ n \in Nat /\ DOMAIN l.gets = 1..n /\ DOMAIN a.gets = 1..(n + 1)
          /\ Len(a.gets) = n + 1
          /\ \A i \in 1..n : a.gets[i] = l.gets[i] /\ a.gets[i] \in Paths
          /\ a.gets[n + 1] = p
        BY <2>2, <2>3
    <2> HIDE DEF n
    <2>5. \A i \in 1..n : /\ l.cache[l.gets[i]] # "none"
                          /\ server.answer[l.gets[i]] # "neterr"
        BY <1>1, <1>4, <2>4 DEF Sound, Failed
    <2>6. \A q \in Paths : a.cache[q] \in {"none", server.answer[q]}
        BY <1>1, <1>2, <2>2, <2>3 DEF Sound
    <2>7. \A i \in 1..(n + 1) : i \in 1..n \/ i = n + 1
        BY <2>4
    <2>8. \A i \in 1..(n + 1) : a.cache[a.gets[i]] # "none"
        <3>1. server.answer[p] # "none"
            BY <1>2 DEF Answers
        <3> QED
            BY <2>2, <2>3, <2>4, <2>5, <2>7, <3>1
    <2>9. IsInjective(a.gets)
        <3>1. \A i \in 1..n : a.gets[i] # p
            BY <1>4, <2>4, <2>5
        <3>2. \A i, j \in 1..n : l.gets[i] = l.gets[j] => i = j
            BY <1>1, <2>4 DEF Sound, IsInjective
        <3>3. \A i, j \in 1..(n + 1) : a.gets[i] = a.gets[j] => i = j
            BY <2>4, <2>7, <3>1, <3>2
        <3> QED
            BY <2>4, <3>3 DEF IsInjective
    <2>10. \A i \in 1 .. Len(a.gets) - 1 : server.answer[a.gets[i]] # "neterr"
        <3>1. 1 .. Len(a.gets) - 1 = 1..n
            BY <2>4
        <3> QED
            BY <2>4, <2>5, <3>1
    <2>11. a.available <=> ~Failed(a, server)
        <3>1. n + 1 \in 1..(n + 1)
            BY <2>4
        <3> QED
            BY <2>3, <2>4, <2>5, <2>7, <3>1 DEF Failed
    <2>12. a.cache[p] = server.answer[p]
        BY <2>2, <2>3
    <2>13. Sound(a, server)
        BY <2>3, <2>4, <2>6, <2>8, <2>9, <2>10, <2>11 DEF Sound
    <2> QED
        BY <2>1, <2>3, <2>12, <2>13
<1> QED
    BY <1>3, <1>4

(* The end of every detector.                                              *)
LEMMA WithProjectIs ==
    ASSUME NEW m, server \in ServerSet, Sound(m, server), NEW project \in Names
    PROVE  LET found == WithProject(m, project)
           IN  /\ Sound(found.md, server) /\ found.project \in Names
               /\ project # "" => found.project = project
               /\ found.project = "" => NoSource(found.md)
<1>1. CASE project # ""
    BY <1>1 DEF WithProject
<1>2. CASE project = ""
    <2> DEFINE asked == Get(m, "project")
    <2>1. /\ Sound(asked, server) /\ asked.probed
          /\ asked.available => asked.cache["project"] = server.answer["project"]
        BY GetIs DEF Paths
    <2>2. WithProject(m, project) = [md |-> asked, project |-> MetadataProject(asked)]
        BY <1>2 DEF WithProject
    <2> HIDE DEF asked
    <2>3. MetadataProject(asked) = "" => NoSource(asked)
        BY <2>1 DEF MetadataProject, NoSource, Sound
    <2>4. MetadataProject(asked) \in Names
        BY NamesAre DEF MetadataProject
    <2> QED
        <3> DEFINE found == WithProject(m, project)
        <3>1. found.md = asked /\ found.project = MetadataProject(asked)
            BY <2>2
        <3> HIDE DEF found
        <3>2. /\ Sound(found.md, server) /\ found.project \in Names
              /\ found.project = "" => NoSource(found.md)
            BY <2>1, <2>3, <2>4, <3>1
        <3> QED
            BY <1>2, <3>2 DEF found
<1> QED
    BY <1>1, <1>2

(* A resolved project is a valid one, and a valid one is not replaced.     *)
LEMMA ResolveIs ==
    ASSUME NEW current \in Names, NEW keys,
           projects \in EnvProjects,
           \A i \in DOMAIN keys : keys[i] \in Range(ProjectKeys)
    PROVE  LET found == ResolveProjectIDFromEnv(current, keys)
           IN  /\ found \in Names
               /\ found # "" => Valid(found)
               /\ Valid(current) => found = current
<1> DEFINE first == FirstValid(keys)
           f     == CHOOSE i \in first : TRUE
<1>1. CASE Valid(current)
    BY <1>1 DEF ResolveProjectIDFromEnv, Valid
<1>2. CASE ~Valid(current) /\ first = {}
    BY <1>2, NamesAre DEF ResolveProjectIDFromEnv
<1>3. CASE ~Valid(current) /\ first # {}
    <2>1. f \in first
        BY <1>3
    <2>2. f \in DOMAIN keys /\ Valid(projects[keys[f]])
        BY <2>1 DEF FirstValid
    <2>3. ResolveProjectIDFromEnv(current, keys) = projects[keys[f]]
        BY <1>3 DEF ResolveProjectIDFromEnv
    <2> HIDE DEF f
    <2> QED
        BY <1>3, <2>2, <2>3, NamesAre
<1> QED
    BY <1>1, <1>2, <1>3

-----------------------------------------------------------------------------
(* The detectors, each as a whole.                                         *)

(* What the resolver makes of the environment, for the keys it is given.   *)
LEMMA ServiceKeys ==
    /\ \A i \in DOMAIN ProjectKeys : ProjectKeys[i] \in Range(ProjectKeys)
    /\ \A i \in DOMAIN ServiceProjectKeys :
          ServiceProjectKeys[i] \in Range(ProjectKeys)
<1>1. \A i \in DOMAIN ProjectKeys : ProjectKeys[i] \in Range(ProjectKeys)
    BY DEF Range
<1>2. DOMAIN ProjectKeys = 1..7 /\ Len(ProjectKeys) = 7
      /\ \E T : ProjectKeys \in Seq(T)
    <2> DEFINE T == {"SLOGCP_TRACE_PROJECT_ID", "SLOGCP_PROJECT_ID",
                     "SLOGCP_GCP_PROJECT", "GOOGLE_CLOUD_PROJECT",
                     "GCLOUD_PROJECT", "GCP_PROJECT", "PROJECT_ID"}
    <2>1. ProjectKeys \in Seq(T)
        BY DEF ProjectKeys
    <2>2. DOMAIN ProjectKeys = 1..7 /\ Len(ProjectKeys) = 7
        BY DEF ProjectKeys
    <2> QED
        BY <2>1, <2>2
<1>3. /\ DOMAIN ServiceProjectKeys = 1..4
      /\ \A i \in 1..4 : ServiceProjectKeys[i] = ProjectKeys[i + 2]
    BY <1>2 DEF ServiceProjectKeys
<1>4. \A i \in 1..4 : i + 2 \in 1..7
    OBVIOUS
<1> QED
    BY <1>1, <1>2, <1>3, <1>4

(* The project that a detector goes on with.                               *)
LEMMA ByEnvIs ==
    ASSUME RuntimeTypes
    PROVE  LET byEnv == ResolveProjectIDFromEnv(info.project, ServiceProjectKeys)
           IN  byEnv \in Names /\ (Valid(info.project) => byEnv = info.project)
<1>1. info.project \in Names /\ projects \in EnvProjects
    BY DEF RuntimeTypes, Infos
<1> QED
    BY <1>1, ServiceKeys, ResolveIs

(* What every detector leaves as it is.                                    *)
Frame == /\ once = "running" /\ once' = "running"
         /\ UNCHANGED <<env, projects, server, pc, got>>

(* A managed platform is found.                                            *)
LEMMA DetectManagedIs ==
    ASSUME RuntimeTypes, LookupInv, NEW i \in DOMAIN Managed, DetectManaged(i)
    PROVE  /\ Frame /\ stage = Managed[i].name /\ stage' = Ending
           /\ ~Missing(i) /\ Sound(md', server) /\ info' \in Infos
           /\ info'.platform \in ManagedNames \cup {"AppEngineFlexible"}
           /\ Valid(info.project) => info'.project = info.project
<1> DEFINE p       == Managed[i]
           located == env \cap p.regions # {}
           m       == IF located THEN md ELSE Get(md, p.path)
           byEnv   == ResolveProjectIDFromEnv(info.project, ServiceProjectKeys)
           byApp   == IF byEnv = "" /\ p.name = "AppEngine"
                            /\ "GAE_APPLICATION" \in env
                      THEN "application" ELSE byEnv
           found   == WithProject(m, byApp)
           labels  == p.needs \cup IF located \/ Has(m, p.path)
                                   THEN {p.path} ELSE {}
           context == {"service"} \cup IF p.name # "CloudFunctions"
                                            \/ "K_REVISION" \in env
                                       THEN {"version"} ELSE {}
<1>1. /\ Frame /\ stage = p.name /\ stage' = Ending /\ p.needs \subseteq env
    BY DEF DetectManaged, Leave, Frame, Ending
<1>2. /\ md' = found.md
      /\ info' = [platform |-> Platform(p), project |-> found.project,
                  labels |-> labels, context |-> context]
    BY DEF DetectManaged
<1>3. server \in ServerSet /\ Sound(md, server)
    BY <1>1 DEF RuntimeTypes, LookupInv, Frame
<1>4. p.path \in Paths
    BY ManagedIs
<1>5. Sound(m, server)
    BY <1>3, <1>4, GetIs
<1>6. byApp \in Names /\ (Valid(info.project) => byApp = info.project)
    BY ByEnvIs, NamesAre DEF Valid
<1>7. labels \in SUBSET Labels /\ context \in SUBSET {"service", "version"}
    BY <1>4 DEF Labels
<1>8. /\ Platform(p) \in ManagedNames \cup {"AppEngineFlexible"}
    BY DEF Platform, ManagedNames
<1> HIDE DEF m, byEnv, byApp, labels, context
<1>9. /\ Sound(found.md, server) /\ found.project \in Names
      /\ byApp # "" => found.project = byApp
    BY <1>3, <1>5, <1>6, WithProjectIs
<1> HIDE DEF found
<1>10. info' \in Infos
    BY <1>2, <1>7, <1>8, <1>9 DEF Infos, Platforms
<1>11. info'.platform = Platform(p) /\ info'.project = found.project
    BY <1>2
<1> QED
    BY <1>1, <1>2, <1>6, <1>8, <1>9, <1>10, <1>11 DEF Missing, Valid

(* A pod is found, and perhaps its cluster.                                *)
LEMMA DetectKubernetesIs ==
    ASSUME RuntimeTypes, LookupInv, DetectKubernetes
    PROVE  /\ Frame /\ stage = "Kubernetes" /\ stage' \in {Ending, "ComputeEngine"}
           /\ Sound(md', server) /\ info' \in Infos
           /\ info'.platform = "Kubernetes"
           /\ Valid(info.project) => info'.project = info.project
<1> DEFINE named   == Get(md, "cluster")
           cluster == Has(named, "cluster") \/ "CLUSTER_NAME" \in env
           located == "CLUSTER_LOCATION" \in env
           m       == IF located THEN named ELSE Get(named, "location")
           byEnv   == ResolveProjectIDFromEnv(info.project, ServiceProjectKeys)
           found   == WithProject(m, byEnv)
           labels  == {"cluster"} \cup IF located \/ Has(m, "location")
                                       THEN {"location"} ELSE {}
<1>1. /\ Frame /\ stage = "Kubernetes" /\ stage' \in {Ending, "ComputeEngine"}
    BY DEF DetectKubernetes, Leave, Frame, Ending
<1>2. /\ cluster => /\ md' = found.md
                    /\ info' = [info EXCEPT !.platform = "Kubernetes",
                                            !.project  = found.project,
                                            !.labels   = labels]
      /\ ~cluster => /\ md' = named
                     /\ info' = [info EXCEPT !.platform = "Kubernetes"]
    BY DEF DetectKubernetes
<1>3. server \in ServerSet /\ Sound(md, server) /\ info \in Infos
    BY <1>1 DEF RuntimeTypes, LookupInv, Frame
<1>4. "cluster" \in Paths /\ "location" \in Paths
    BY DEF Paths
<1>5. Sound(named, server)
    BY <1>3, <1>4, GetIs
<1> HIDE DEF named
<1>6. Sound(m, server)
    BY <1>3, <1>4, <1>5, GetIs
<1>7. byEnv \in Names /\ (Valid(info.project) => byEnv = info.project)
    BY ByEnvIs
<1>8. labels \in SUBSET Labels
    BY <1>4 DEF Labels
<1> HIDE DEF m, byEnv, labels, cluster
<1>9. /\ Sound(found.md, server) /\ found.project \in Names
      /\ byEnv # "" => found.project = byEnv
    BY <1>3, <1>6, <1>7, WithProjectIs
<1> HIDE DEF found
<1>10. CASE cluster
    <2>1. /\ info' \in Infos /\ info'.platform = "Kubernetes"
          /\ info'.project = found.project
        BY <1>2, <1>3, <1>8, <1>9, <1>10 DEF Infos, Platforms
    <2> QED
        BY <1>1, <1>2, <1>7, <1>9, <1>10, <2>1 DEF Valid
<1>11. CASE ~cluster
    <2>1. /\ info' \in Infos /\ info'.platform = "Kubernetes"
          /\ info'.project = info.project
        BY <1>2, <1>3, <1>11 DEF Infos, Platforms
    <2> QED
        BY <1>1, <1>2, <1>5, <1>11, <2>1
<1> QED
    BY <1>10, <1>11

(* An instance is found, or nothing.                                       *)
LEMMA DetectComputeEngineIs ==
    ASSUME RuntimeTypes, LookupInv, DetectComputeEngine
    PROVE  /\ Frame /\ stage = "ComputeEngine" /\ stage' = Ending
           /\ Sound(md', server) /\ info' \in Infos
           /\ info'.platform \in {"ComputeEngine", info.platform}
           /\ \/ info'.project = info.project
              \/ info'.project = "metadata" /\ info'.platform = "ComputeEngine"
<1> DEFINE named   == Get(md, "id")
           zoned   == Get(named, "zone")
           m       == Get(zoned, "project")
           project == MetadataProject(m)
           new     == IF project # "" THEN project ELSE info.project
           labels  == {"id"} \cup IF Has(zoned, "zone") THEN {"zone"} ELSE {}
<1>1. /\ Frame /\ stage = "ComputeEngine" /\ stage' = Ending
    BY DEF DetectComputeEngine, Leave, Frame, Ending
<1>2. \/ /\ md' = m
         /\ info' = [info EXCEPT !.platform = "ComputeEngine",
                                 !.project  = new,
                                 !.labels   = labels]
      \/ md' = named /\ info' = info
    BY DEF DetectComputeEngine
<1>3. server \in ServerSet /\ Sound(md, server) /\ info \in Infos
    BY <1>1 DEF RuntimeTypes, LookupInv, Frame
<1>4. "id" \in Paths /\ "zone" \in Paths /\ "project" \in Paths
    BY DEF Paths
<1>5. Sound(named, server)
    BY <1>3, <1>4, GetIs
<1> HIDE DEF named
<1>6. Sound(zoned, server)
    BY <1>3, <1>4, <1>5, GetIs
<1>7. labels \in SUBSET Labels
    BY <1>4 DEF Labels
<1> HIDE DEF zoned, labels
<1>8. Sound(m, server)
    BY <1>3, <1>4, <1>6, GetIs
<1>9. /\ new \in {"metadata", info.project} /\ new \in Names
    BY <1>3, NamesAre DEF MetadataProject, Infos
<1> HIDE DEF m, new
<1>10. CASE /\ md' = m
            /\ info' = [info EXCEPT !.platform = "ComputeEngine",
                                    !.project  = new, !.labels = labels]
    <2>1. /\ info' \in Infos /\ info'.platform = "ComputeEngine"
          /\ info'.project = new
        BY <1>3, <1>7, <1>9, <1>10 DEF Infos, Platforms
    <2> QED
        BY <1>1, <1>8, <1>9, <1>10, <2>1
<1>11. CASE md' = named /\ info' = info
    BY <1>1, <1>3, <1>5, <1>11
<1> QED
    BY <1>2, <1>10, <1>11

(* The last resort for a project.                                          *)
LEMMA EnsureProjectIDIs ==
    ASSUME RuntimeTypes, LookupInv, EnsureProjectID
    PROVE  /\ once = "running" /\ once' = "done" /\ stage = Ending
           /\ UNCHANGED <<env, projects, server, pc, got>>
           /\ Sound(md', server) /\ info' \in Infos
           /\ info'.platform = info.platform
           /\ info.project # "" => info'.project = info.project
           /\ info'.project = "" => NoSource(md')
<1> DEFINE found == WithProject(md, info.project)
<1>1. /\ once = "running" /\ once' = "done" /\ stage = Ending
      /\ UNCHANGED <<env, projects, server, pc, got>>
      /\ md' = found.md /\ info' = [info EXCEPT !.project = found.project]
    BY DEF EnsureProjectID, Ending
<1>2. server \in ServerSet /\ Sound(md, server) /\ info \in Infos
    BY <1>1 DEF RuntimeTypes, LookupInv
<1>3. /\ Sound(found.md, server) /\ found.project \in Names
      /\ info.project # "" => found.project = info.project
      /\ found.project = "" => NoSource(found.md)
    <2>1. info.project \in Names
        BY <1>2 DEF Infos
    <2> QED
        BY <1>2, <2>1, WithProjectIs
<1> HIDE DEF found
<1>4. /\ info' \in Infos /\ info'.platform = info.platform
      /\ info'.project = found.project
    BY <1>1, <1>2, <1>3 DEF Infos
<1> QED
    BY <1>1, <1>3, <1>4

(* A call that begins the detection, or finds it begun.                    *)
LEMMA CallIs ==
    ASSUME RuntimeTypes, LookupInv, NEW c \in Callers, NEW s \in Servers, Call(c, s)
    PROVE  /\ UNCHANGED <<env, projects, got>>
           /\ pc[c] = "idle" /\ pc' = [pc EXCEPT ![c] = "waiting"]
           /\ \/ /\ once = "new" /\ once' = "running" /\ server' = s
                 /\ s \in ServerSet /\ Sound(md', s)
                 /\ stage' = Managed[1].name
                 /\ info' \in Infos /\ info'.platform = "Unknown"
                 /\ info'.project = EnvProject
              \/ /\ once # "new"
                 /\ UNCHANGED <<server, once, stage, md, info>>
<1>1. /\ UNCHANGED <<env, projects, got>>
      /\ pc[c] = "idle" /\ pc' = [pc EXCEPT ![c] = "waiting"]
    BY DEF Call
<1>2. CASE once = "new"
    <2>1. BeginDetection(s)
        BY <1>2 DEF Call
    <2>2. /\ once' = "running" /\ server' = s /\ stage' = Managed[1].name
          /\ md' = [probed |-> FALSE, available |-> FALSE,
                    cache |-> [p \in Paths |-> "none"], gets |-> <<>>]
          /\ info' = [NoInfo EXCEPT !.project = EnvProject]
        BY <2>1 DEF BeginDetection, EnvProject
    <2>3. s \in ServerSet
        BY RuntimeAssumption DEF ServerSet
    <2>4. Sound(md', s)
        <3>1. /\ md'.gets = <<>> /\ ~md'.probed /\ ~md'.available
              /\ md'.cache = [p \in Paths |-> "none"] /\ md' \in Lookups
            BY <2>2 DEF Lookups
        <3>2. IsInjective(md'.gets)
            BY <3>1 DEF IsInjective
        <3> QED
            BY <3>1, <3>2 DEF Sound
    <2>5. EnvProject \in Names
        <3>1. "" \in Names /\ projects \in EnvProjects
            BY NamesAre DEF RuntimeTypes
        <3> QED
            BY <3>1, ServiceKeys, ResolveIs DEF EnvProject
    <2>6. /\ info' \in Infos /\ info'.platform = "Unknown"
          /\ info'.project = EnvProject
        BY <2>2, <2>5 DEF NoInfo, Infos, Platforms
    <2> QED
        BY <1>1, <1>2, <2>2, <2>3, <2>4, <2>6
<1>3. CASE once # "new"
    BY <1>1, <1>3 DEF Call
<1> QED
    BY <1>2, <1>3

-----------------------------------------------------------------------------
(* The invariant, step by step.                                            *)

(* Every step keeps the types.                                             *)
LEMMA TypesStep == RuntimeTypes /\ LookupInv /\ [Next]_vars => RuntimeTypes'
<1> SUFFICES ASSUME RuntimeTypes, LookupInv, [Next]_vars PROVE RuntimeTypes'
    OBVIOUS
<1> USE DEF RuntimeTypes, Open, Ending
<1>1. ASSUME NEW c \in Callers, Return(c) PROVE RuntimeTypes'
    BY <1>1 DEF Return
<1>2. ASSUME NEW c \in Callers, NEW s \in Servers, Call(c, s) PROVE RuntimeTypes'
    <2>1. Managed[1].name \in Open
        BY ManagedIs, ManagedNamesAre DEF Open
    <2> QED
        BY <1>2, <2>1, CallIs
<1>3. ASSUME NEW i \in DOMAIN Managed, DetectManaged(i) PROVE RuntimeTypes'
    BY <1>3, DetectManagedIs DEF Frame
<1>4. ASSUME NEW i \in DOMAIN Managed, NotManaged(i) PROVE RuntimeTypes'
    <2>1. /\ once = "running" /\ stage' \in Open
          /\ UNCHANGED <<env, projects, server, once, info, pc, got>>
        <3>1. i < Len(Managed) => i + 1 \in DOMAIN Managed
            BY ManagedIs
        <3> QED
            BY <1>4, <3>1 DEF NotManaged, Leave, Open, ManagedNames
    <2> QED
        BY <1>4, <2>1
<1>5. CASE DetectKubernetes
    BY <1>5, DetectKubernetesIs DEF Frame
<1>6. CASE NotKubernetes
    BY <1>6 DEF NotKubernetes, Leave
<1>7. CASE DetectComputeEngine
    BY <1>7, DetectComputeEngineIs DEF Frame
<1>8. CASE EnsureProjectID
    BY <1>8, EnsureProjectIDIs
<1>9. CASE UNCHANGED vars
    BY <1>9
<1> QED
    BY <1>1, <1>2, <1>3, <1>4, <1>5, <1>6, <1>7, <1>8, <1>9
       DEF Next, Detect, Done

(* Only the detectors look anything up, all of them at one server.         *)
LEMMA LookupStep == RuntimeTypes /\ LookupInv /\ [Next]_vars => LookupInv'
<1> SUFFICES ASSUME RuntimeTypes, LookupInv, [Next]_vars PROVE LookupInv'
    OBVIOUS
<1> USE DEF LookupInv
<1>1. ASSUME NEW c \in Callers, Return(c) PROVE LookupInv'
    BY <1>1 DEF Return
<1>2. ASSUME NEW c \in Callers, NEW s \in Servers, Call(c, s) PROVE LookupInv'
    BY <1>2, CallIs
<1>3. ASSUME NEW i \in DOMAIN Managed, DetectManaged(i) PROVE LookupInv'
    BY <1>3, DetectManagedIs DEF Frame
<1>4. ASSUME NEW i \in DOMAIN Managed, NotManaged(i) PROVE LookupInv'
    BY <1>4 DEF NotManaged, Leave
<1>5. CASE DetectKubernetes
    BY <1>5, DetectKubernetesIs DEF Frame
<1>6. CASE NotKubernetes
    BY <1>6 DEF NotKubernetes, Leave
<1>7. CASE DetectComputeEngine
    BY <1>7, DetectComputeEngineIs DEF Frame
<1>8. CASE EnsureProjectID
    BY <1>8, EnsureProjectIDIs
<1>9. CASE UNCHANGED vars
    BY <1>9
<1> QED
    BY <1>1, <1>2, <1>3, <1>4, <1>5, <1>6, <1>7, <1>8, <1>9
       DEF Next, Detect, Done

(* What has been returned does not change.                                 *)
LEMMA AnswerStep ==
    RuntimeTypes /\ LookupInv /\ AnswerInv /\ [Next]_vars
    => AnswerInv'
<1> SUFFICES ASSUME RuntimeTypes, LookupInv, AnswerInv, [Next]_vars
             PROVE  AnswerInv'
    OBVIOUS
<1> USE DEF AnswerInv
<1>1. ASSUME NEW c \in Callers, Return(c) PROVE AnswerInv'
    BY <1>1 DEF Return, RuntimeTypes
<1>2. ASSUME NEW c \in Callers, NEW s \in Servers, Call(c, s) PROVE AnswerInv'
    BY <1>2, CallIs DEF RuntimeTypes
<1>3. ASSUME NEW i \in DOMAIN Managed, DetectManaged(i) PROVE AnswerInv'
    BY <1>3, DetectManagedIs DEF Frame
<1>4. ASSUME NEW i \in DOMAIN Managed, NotManaged(i) PROVE AnswerInv'
    BY <1>4 DEF NotManaged, Leave
<1>5. CASE DetectKubernetes
    BY <1>5, DetectKubernetesIs DEF Frame
<1>6. CASE NotKubernetes
    BY <1>6 DEF NotKubernetes, Leave
<1>7. CASE DetectComputeEngine
    BY <1>7, DetectComputeEngineIs DEF Frame
<1>8. CASE EnsureProjectID
    BY <1>8, EnsureProjectIDIs
<1>9. CASE UNCHANGED vars
    BY <1>9
<1> QED
    BY <1>1, <1>2, <1>3, <1>4, <1>5, <1>6, <1>7, <1>8, <1>9
       DEF Next, Detect, Done

(* The detectors run in order, and the first that fits is the answer.      *)
LEMMA StageStep ==
    RuntimeTypes /\ LookupInv /\ StageInv /\ [Next]_vars
    => StageInv'
<1> SUFFICES ASSUME RuntimeTypes, LookupInv, StageInv, [Next]_vars
             PROVE  StageInv'
    OBVIOUS
<1> USE DEF StageInv, Settled, Missing, Open, Ending
<1>1. ASSUME NEW c \in Callers, Return(c) PROVE StageInv'
    BY <1>1 DEF Return
<1>2. ASSUME NEW c \in Callers, NEW s \in Servers, Call(c, s) PROVE StageInv'
    <2>1. CASE once = "new"
        <3>1. /\ once' = "running" /\ stage' = "CloudFunctions"
              /\ info'.platform = "Unknown"
            BY <1>2, <2>1, CallIs, ManagedIs
        <3>2. \A k \in 1..4 : stage' = Managed[k].name => k = 1
            BY <3>1, ManagedIs
        <3> QED
            BY <3>1, <3>2, ManagedIs
    <2>2. CASE once # "new"
        BY <1>2, <2>2, CallIs
    <2> QED
        BY <2>1, <2>2
<1>3. ASSUME NEW i \in DOMAIN Managed, DetectManaged(i) PROVE StageInv'
    <2>1. info'.platform \in ManagedNames \cup {"AppEngineFlexible"}
        BY <1>3, DetectManagedIs
    <2>2. /\ ~Missing(i) /\ env' = env /\ stage' = Ending /\ once' = "running"
        BY <1>3, DetectManagedIs DEF Frame
    <2>3. Missing(i)' = Missing(i)
        BY <2>2
    <2>4. /\ stage' \notin Open
          /\ \A k \in DOMAIN Managed : stage' # Managed[k].name
        BY <2>2, ManagedNamesAre DEF ManagedNames
    <2> HIDE DEF Missing, Open
    <2> QED
        BY <2>1, <2>2, <2>3, <2>4
<1>4. ASSUME NEW i \in DOMAIN Managed, NotManaged(i) PROVE StageInv'
    <2>1. /\ once = "running" /\ stage = Managed[i].name /\ Missing(i)
          /\ stage' = IF i < 4 THEN Managed[i + 1].name ELSE "Kubernetes"
          /\ UNCHANGED <<env, once, info>>
        BY <1>4, ManagedIs DEF NotManaged, Leave
    <2>2. \A j \in 1..i : Missing(j)
        <3>1. \A j \in 1..i : j \in 1..(i - 1) \/ j = i
            BY ManagedIs
        <3> QED
            BY <2>1, <3>1
    <2>3. stage \in Open
        BY <2>1, ManagedIs DEF ManagedNames
    <2>4. stage' = "Kubernetes" => \A j \in 1..4 : Missing(j)
        BY <2>1, <2>2, ManagedIs
    <2>5. \A k \in 1..4 : stage' = Managed[k].name => k = i + 1
        BY <2>1, ManagedIs
    <2> QED
        BY <2>1, <2>2, <2>3, <2>4, <2>5, ManagedIs, ManagedNamesAre
<1>5. CASE DetectKubernetes
    <2>1. /\ Frame /\ stage = "Kubernetes" /\ stage' \in {Ending, "ComputeEngine"}
          /\ info'.platform \in {"Unknown", "Kubernetes"}
        BY <1>5, DetectKubernetesIs
    <2>2. \A j \in DOMAIN Managed : Missing(j)
        BY <2>1 DEF Frame
    <2> QED
        BY <2>1, <2>2, ManagedIs, ManagedNamesAre DEF Frame
<1>6. CASE NotKubernetes
    <2>1. /\ Frame /\ stage = "Kubernetes" /\ stage' \in {Ending, "ComputeEngine"}
          /\ info'.platform \in {"Unknown", "Kubernetes"}
        BY <1>6, ManagedNamesAre DEF NotKubernetes, Leave, Frame
    <2>2. \A j \in DOMAIN Managed : Missing(j)
        BY <2>1 DEF Frame
    <2> QED
        BY <2>1, <2>2, ManagedIs, ManagedNamesAre DEF Frame
<1>7. CASE DetectComputeEngine
    <2>1. /\ Frame /\ stage = "ComputeEngine" /\ stage' = Ending
          /\ info'.platform \in {"ComputeEngine", info.platform}
        BY <1>7, DetectComputeEngineIs
    <2>2. /\ \A j \in DOMAIN Managed : Missing(j)
          /\ info.platform \in {"Unknown", "Kubernetes"}
        BY <2>1 DEF Frame
    <2>3. \A k \in DOMAIN Managed : Missing(k)' = Missing(k)
        BY <2>1 DEF Frame
    <2>4. /\ stage' \notin Open
          /\ \A k \in DOMAIN Managed : stage' # Managed[k].name
        BY <2>1, ManagedNamesAre DEF ManagedNames
    <2>5. info'.platform \notin ManagedNames \cup {"AppEngineFlexible"}
        BY <2>1, <2>2, ManagedNamesAre
    <2> HIDE DEF Missing, Open
    <2> QED
        BY <2>1, <2>2, <2>3, <2>4, <2>5 DEF Frame
<1>8. CASE EnsureProjectID
    BY <1>8, EnsureProjectIDIs
<1>9. CASE UNCHANGED vars
    BY <1>9
<1> QED
    BY <1>1, <1>2, <1>3, <1>4, <1>5, <1>6, <1>7, <1>8, <1>9
       DEF Next, Detect, Done

(* A project of the environment is a valid one.                            *)
LEMMA EnvProjectIs ==
    ASSUME RuntimeTypes
    PROVE  EnvProject # "" => Valid(EnvProject)
<1>1. "" \in Names /\ projects \in EnvProjects
    BY NamesAre DEF RuntimeTypes
<1> QED
    BY <1>1, ServiceKeys, ResolveIs DEF EnvProject

(* It depends on the variables alone.                                      *)
LEMMA EnvProjectStays ==
    ASSUME projects' = projects
    PROVE  EnvProject' = EnvProject
    BY DEF EnvProject, ResolveProjectIDFromEnv, FirstValid

(* A project of the environment gives way to the metadata server of        *)
(* Compute Engine alone.                                                   *)
LEMMA ProjectStep ==
    RuntimeTypes /\ LookupInv /\ ProjectInv /\ [Next]_vars
    => ProjectInv'
<1> SUFFICES ASSUME RuntimeTypes, LookupInv, ProjectInv, [Next]_vars
             PROVE  ProjectInv'
    OBVIOUS
<1> USE DEF ProjectInv, Settled
<1>1. ASSUME NEW c \in Callers, Return(c) PROVE ProjectInv'
    <2>1. EnvProject' = EnvProject
        BY <1>1, EnvProjectStays DEF Return
    <2> QED
        BY <1>1, <2>1 DEF Return
<1>2. ASSUME NEW c \in Callers, NEW s \in Servers, Call(c, s) PROVE ProjectInv'
    <2>1. EnvProject' = EnvProject
        BY <1>2, CallIs, EnvProjectStays
    <2> QED
        BY <1>2, <2>1, CallIs
<1>3. ASSUME NEW i \in DOMAIN Managed, DetectManaged(i) PROVE ProjectInv'
    <2>1. /\ once = "running" /\ once' = "running" /\ stage # Ending
          /\ Valid(info.project) => info'.project = info.project
        BY <1>3, DetectManagedIs, ManagedIs, ManagedNamesAre
           DEF Frame, Ending, ManagedNames
    <2>2. EnvProject' = EnvProject
        BY <1>3, DetectManagedIs, EnvProjectStays DEF Frame
    <2> QED
        BY <2>1, <2>2, EnvProjectIs
<1>4. ASSUME NEW i \in DOMAIN Managed, NotManaged(i) PROVE ProjectInv'
    <2>1. EnvProject' = EnvProject
        BY <1>4, EnvProjectStays DEF NotManaged, Leave
    <2>2. /\ once = "running" /\ once' = "running" /\ stage # Ending
          /\ info' = info
        BY <1>4, ManagedIs, ManagedNamesAre
           DEF NotManaged, Leave, Ending, ManagedNames
    <2> QED
        BY <2>1, <2>2
<1>5. CASE DetectKubernetes
    <2>1. /\ once = "running" /\ once' = "running" /\ stage # Ending
          /\ Valid(info.project) => info'.project = info.project
        BY <1>5, DetectKubernetesIs, ManagedIs, ManagedNamesAre
           DEF Frame, Ending, ManagedNames
    <2>2. EnvProject' = EnvProject
        BY <1>5, DetectKubernetesIs, EnvProjectStays DEF Frame
    <2> QED
        BY <2>1, <2>2, EnvProjectIs
<1>6. CASE NotKubernetes
    <2>1. EnvProject' = EnvProject
        BY <1>6, EnvProjectStays DEF NotKubernetes, Leave
    <2>2. /\ once = "running" /\ once' = "running" /\ stage # Ending
          /\ info' = info
        BY <1>6, ManagedIs, ManagedNamesAre
           DEF NotKubernetes, Leave, Ending, ManagedNames
    <2> QED
        BY <2>1, <2>2
<1>7. CASE DetectComputeEngine
    <2>1. /\ once = "running" /\ once' = "running" /\ stage # Ending /\ stage' = Ending
          /\ \/ info'.project = info.project
             \/ info'.project = "metadata" /\ info'.platform = "ComputeEngine"
        BY <1>7, DetectComputeEngineIs DEF Frame, Ending
    <2>2. EnvProject' = EnvProject
        BY <1>7, DetectComputeEngineIs, EnvProjectStays DEF Frame
    <2> QED
        BY <2>1, <2>2
<1>8. CASE EnsureProjectID
    <2>1. EnvProject' = EnvProject
        BY <1>8, EnsureProjectIDIs, EnvProjectStays
    <2> QED
        BY <1>8, <2>1, EnsureProjectIDIs
<1>9. CASE UNCHANGED vars
    <2>1. EnvProject' = EnvProject
        BY <1>9, EnvProjectStays
    <2> QED
        BY <1>9, <2>1
<1> QED
    BY <1>1, <1>2, <1>3, <1>4, <1>5, <1>6, <1>7, <1>8, <1>9
       DEF Next, Detect, Done

(* The last lookup of the project is the last resort.                      *)
LEMMA NoSourceStep ==
    RuntimeTypes /\ LookupInv /\ NoSourceInv /\ [Next]_vars
    => NoSourceInv'
<1> SUFFICES ASSUME RuntimeTypes, LookupInv, NoSourceInv, [Next]_vars
             PROVE  NoSourceInv'
    OBVIOUS
<1> USE DEF NoSourceInv, Finished
<1>1. ASSUME NEW c \in Callers, Return(c) PROVE NoSourceInv'
    <2>1. NoSource(md)' <=> NoSource(md)
        BY <1>1 DEF Return, NoSource, Failed
    <2> QED
        BY <1>1, <2>1 DEF Return
<1>2. ASSUME NEW c \in Callers, NEW s \in Servers, Call(c, s) PROVE NoSourceInv'
    <2>1. CASE once = "new"
        BY <1>2, <2>1, CallIs
    <2>2. CASE once # "new"
        <3>1. NoSource(md)' <=> NoSource(md)
            BY <1>2, <2>2, CallIs DEF NoSource, Failed
        <3> QED
            BY <1>2, <2>2, <3>1, CallIs
    <2> QED
        BY <2>1, <2>2
<1>3. ASSUME NEW i \in DOMAIN Managed, DetectManaged(i) PROVE NoSourceInv'
    BY <1>3, DetectManagedIs DEF Frame
<1>4. ASSUME NEW i \in DOMAIN Managed, NotManaged(i) PROVE NoSourceInv'
    BY <1>4 DEF NotManaged, Leave
<1>5. CASE DetectKubernetes
    BY <1>5, DetectKubernetesIs DEF Frame
<1>6. CASE NotKubernetes
    BY <1>6 DEF NotKubernetes, Leave
<1>7. CASE DetectComputeEngine
    BY <1>7, DetectComputeEngineIs DEF Frame
<1>8. CASE EnsureProjectID
    <2>1. NoSource(md') <=> NoSource(md)'
        BY <1>8, EnsureProjectIDIs DEF NoSource, Failed
    <2> QED
        BY <1>8, <2>1, EnsureProjectIDIs
<1>9. CASE UNCHANGED vars
    <2>1. NoSource(md)' <=> NoSource(md)
        BY <1>9 DEF NoSource, Failed
    <2> QED
        BY <1>9, <2>1
<1> QED
    BY <1>1, <1>2, <1>3, <1>4, <1>5, <1>6, <1>7, <1>8, <1>9
       DEF Next, Detect, Done

-----------------------------------------------------------------------------
(* The invariant, and what follows from it.                                *)

(* A process that has not called DetectRuntimeInfo yet satisfies it.       *)
LEMMA InvInit == Init => IInv
<1> SUFFICES ASSUME Init PROVE IInv
    OBVIOUS
<1>1. NoInfo \in Infos
    BY NamesAre DEF NoInfo, Infos, Platforms
<1>2. RuntimeTypes /\ AnswerInv
    BY <1>1 DEF Init, RuntimeTypes, AnswerInv
<1>3. LookupInv /\ StageInv /\ ProjectInv /\ NoSourceInv
    BY DEF Init, LookupInv, StageInv, ProjectInv, NoSourceInv, Settled, Finished
<1> QED
    BY <1>2, <1>3 DEF IInv

(* Every step keeps the invariant.                                         *)
LEMMA InvStep == IInv /\ [Next]_vars => IInv'
    BY TypesStep, LookupStep, AnswerStep, StageStep, ProjectStep, NoSourceStep
       DEF IInv

(* The inductive invariant holds of every detection.                       *)
THEOREM DetectionInvariance == Spec => []IInv
    BY InvInit, InvStep, PTL DEF Spec

(* However the metadata server fails, metadataLookup asks it for no path   *)
(* twice and for nothing after the first network error.                    *)
THEOREM TimeoutsAreBounded == Spec => []AtMostOneTimeout
<1>1. ASSUME IInv PROVE AtMostOneTimeout
    <2>1. CASE once = "new"
        <3>1. md.gets = <<>>
            BY <1>1, <2>1 DEF IInv, LookupInv
        <3> QED
            BY <3>1 DEF AtMostOneTimeout, IsInjective
    <2>2. CASE once # "new"
        <3>1. Sound(md, server)
            BY <1>1, <2>2 DEF IInv, LookupInv
        <3> QED
            BY <3>1 DEF AtMostOneTimeout, Sound
    <2> QED
        BY <2>1, <2>2
<1> QED
    BY <1>1, DetectionInvariance, PTL

(* Every caller of DetectRuntimeInfo gets one answer; its platform is the  *)
(* one of the variables, a valid project of the environment is in it, and  *)
(* it has no project only when no source had one.                          *)
THEOREM AnswersAreRight == Spec => []AnswerIsRight
<1>1. ASSUME IInv PROVE AnswerIsRight
    <2>1. OneAnswer
        BY <1>1 DEF IInv, AnswerInv, OneAnswer
    <2>2. ManagedByEnvAlone
        BY <1>1 DEF IInv, StageInv, Settled, Missing, ManagedByEnvAlone, Finished
    <2>3. EnvProjectKept
        BY <1>1 DEF IInv, ProjectInv, EnvProjectKept, Finished
    <2>4. NoProjectMeansNoSource
        <3>1. SUFFICES ASSUME Finished, info.project = ""
                       PROVE  EnvProject = "" /\ NoSource(md)
            BY DEF NoProjectMeansNoSource, NoSource, Failed
        <3>2. EnvProject = ""
            BY <1>1, <3>1 DEF IInv, ProjectInv, Finished
        <3> QED
            BY <1>1, <3>1, <3>2 DEF IInv, NoSourceInv
    <2> QED
        BY <2>1, <2>2, <2>3, <2>4 DEF AnswerIsRight
<1> QED
    BY <1>1, DetectionInvariance, PTL

=============================================================================
