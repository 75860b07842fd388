CONSTANTS
    MaxHops = 2
    MaxTries = 2
    OutsideHeaders <- MCOutsideHeaders
    HTTPServerOptions <- MCHTTPServers
    GRPCServerOptions <- MCServers
    HTTPClientOptions <- MCHTTPClients
    GRPCClientOptions <- MCGRPCClients
    Foreign = {"T", "s", "L", "d", "M", "B", "b"}
    TrustEnv = {"none", "true", "bad"}
SPECIFICATION Spec
CHECK_DEADLOCK FALSE
INVARIANTS
    SpanIsOwn
    OnlyAllowedTraces
    TraceContinues
    HeadersAreCurrent
