CONSTANTS
    c1 = c1  c2 = c2  c3 = c3  Off = Off
SPECIFICATION FairSpec
INVARIANTS
    RecordsAreReal ReplayAgreesWithLive CompileIsClean LinesParse ScriptsCompileWhole
    OneWaitPerTimeout
PROPERTIES HistorySurvives WorkflowsEnd CompileReturns QueueRecovers
CHECK_DEADLOCK FALSE
