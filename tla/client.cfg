SPECIFICATION Spec
CONSTANTS
    Callers = {c1, c2}
    Nil = Nil
    Fields <- MCFields
    Objects <- MCObjects
    Kinds <- MCKinds
    Groups <- MCGroups
    FastMapperAllowedAPIGroups <- MCAllowed
    FastDiscovery = {c1}
    MaxFaults = 1
    Calls <- MCCalls
    MaxCalls = 4
CHECK_DEADLOCK FALSE
INVARIANTS TypeOK SchemeStable MapperComplete ListsSynced ShutdownFinal CacheUntouched BuiltAsAsked EveryFieldApplied OrderlyWithoutErrors
PROPERTIES CallersFinish ClientSideKeepsFields
