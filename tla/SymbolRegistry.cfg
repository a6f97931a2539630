CONSTANTS
    Text <- MCText
    Site <- MCSite
    RemoveSmall = FALSE
    ProcMaps <- MCProcMaps
    debugFunction <- MCdebugFunction
    debugFile <- MCdebugFile
    dynamicSymbol <- MCdynamicSymbol
SPECIFICATION Spec
INVARIANTS TypeOK NamesPaired EverySiteIsNamed BinaryIsOwn NamesOnce
