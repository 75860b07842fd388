-------------------------- MODULE MCHandlerConfig --------------------------
(* HandlerConfig for TLC: combinations of up to three settings and uses.   *)
EXTENDS HandlerConfig

PlainSettings ==
    {"AddSource", "StackTraceEnabled", "StackTraceLevel",
     "UseShortSeverityNames", "CloseTimeoutPolicy",
     "LOG_LEVEL", "SLOGCP_SOURCE_LOCATION", "SLOGCP_STACK_TRACES",
     "SLOGCP_STACK_TRACE_LEVEL", "SLOGCP_SEVERITY_ALIASES", "SLOGCP_ASYNC",
     "SLOGCP_ASYNC_WORKERS", "SLOGCP_ASYNC_QUEUE_SIZE",
     "SLOGCP_ASYNC_DROP_MODE", "SLOGCP_PROJECT_ID", "SLOGCP_GCP_PROJECT"}
=============================================================================
