SPECIFICATION Spec
CONSTANTS
    Callers = {c1, c2}
    Envs <- MCEnvs
    EnvProjects <- MCEnvProjects
    Servers <- MCServers
INVARIANTS
    AtMostOneTimeout
    AnswerIsRight
