CONSTANTS
    Text <- MCText
    Site <- MCSite
    RemoveSmall = TRUE
    ProcMaps <- MCProcMaps
    debugFunction <- MCdebugFunction
    debugFile <- MCdebugFile
    dynamicSymbol <- MCdynamicSymbol
SPECIFICATION Spec
INVARIANT NamesPaired
