SPECIFICATION AreaSpec
CONSTANTS
    v1 = v1
    v2 = v2
    main = main
    child = child
    Names = {v1, v2}
    Processes = {main, child}
    Adapter = main
    Platforms = {"linux", "windows"}
    IOFails = TRUE
SYMMETRY Interchangeable
INVARIANTS
    SourcesIntact
    ReadableIsReported
    HandedIsWhole
