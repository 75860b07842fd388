--------------------------- MODULE MCRuntimeInfo ---------------------------
(* RuntimeInfo for TLC.                                                    *)
EXTENDS RuntimeInfo

Function == {"K_SERVICE", "FUNCTION_TARGET", "FUNCTION_SIGNATURE_TYPE"}
Service  == {"K_SERVICE", "K_REVISION", "K_CONFIGURATION"}
Job      == {"CLOUD_RUN_JOB", "CLOUD_RUN_EXECUTION", "CLOUD_RUN_TASK_INDEX",
             "CLOUD_RUN_TASK_ATTEMPT"}
App      == {"GAE_SERVICE", "GAE_VERSION", "GAE_INSTANCE"}
Pod      == {"KUBERNETES_SERVICE_HOST"}

(* Every platform, with and without its optional variables, overlapping    *)
(* platforms, incomplete ones, and none.                                   *)
MCEnvs ==
    {{}, Function, Function \cup Service, Service, Service \cup Pod,
     Service \cup {"CLOUD_RUN_REGION"}, {"K_SERVICE"}, Job,
     App, App \cup {"GAE_ENV", "GAE_APPLICATION"},
     Pod, Pod \cup {"CLUSTER_NAME"},
     Pod \cup {"CLUSTER_NAME", "CLUSTER_LOCATION"}}

NoProjects == [k \in Range(ProjectKeys) |-> ""]
MCEnvProjects ==
    {NoProjects,
     [NoProjects EXCEPT !["PROJECT_ID"] = "p7"],
     [NoProjects EXCEPT !["SLOGCP_TRACE_PROJECT_ID"] = "bad",
                        !["GOOGLE_CLOUD_PROJECT"] = "p4"],
     [NoProjects EXCEPT !["SLOGCP_PROJECT_ID"] = "p2",
                        !["GCP_PROJECT"] = "p6"]}

(* Servers that are absent, or know everything except for up to two paths. *)
MCServers ==
    {[onGCE |-> FALSE, answer |-> [p \in Paths |-> "nothing"]],
     [onGCE |-> TRUE, answer |-> [p \in Paths |->
                          IF p = "project" THEN "bad" ELSE "value"]]}
    \cup {[onGCE |-> TRUE,
           answer |-> [p \in Paths |-> IF p \in {q, r} THEN a ELSE "value"]] :
             q \in Paths, r \in Paths, a \in {"nothing", "neterr"}}
=============================================================================
