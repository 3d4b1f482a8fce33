CONSTANTS
    PAGE_SIZE = 64
    MAX_PAGES = 10
    KernelEnd = 100
    MemoryMaps <- SomeMaps
    HEAP_INITIAL_PAGES = 5
    ClusBytes = 50
    AppendSizes <- SomeSizes
    ElfMax = 60
    LoadSizes <- SomeSizes
SPECIFICATION Spec
INVARIANTS PagesCounted HeapOnOwnPages Tiled BuffersApart FreeIsWhole
