SPECIFICATION MCSpec
INVARIANT EveryFamilyIsReported
CONSTANTS
    Parts = {"families"}
    PathNames = {here, there, elsewhere}
    Dirs = {inode1, inode2}
    Texts = {"t1", "t2"}
    MaxJournals = 2
    RoutedProjects <- MCRoutedProjects
    MaxBytes = 1
    MaxFiles = 2
    FailOver = 0
    MinimumScore = 2
    FullScore = 2
    MaxDependencies = 1
    ForbiddenEdges <- MCForbiddenEdges
    Layer <- MCLayer
    MaxItems = 1
    Packages = {ui, core, util}
    TopMetric <- MCTopMetric
    Filters <- MCFilters
    Mutants = 2
    Caps = {1, 2}
    PackageEdges <- MCEdges
    ItemNames = {"i", "j"}
    PackageCount = 3
    OtherPairs <- MCOtherPairs
    FunctionCount = 4
    Shapes <- MCShapes
    CloneFiles = {1, 2}
    Threshold = 40
    Whole = 60
    OccurrenceLimits = {2, 4}
    Tokens = {1, 2}
    CloneSources <- MCSources
    MinTokens = 2
    WindowCaps = {2, 9}
    WindowFingerprint <- MCFingerprint
    TokensPerLine = 2
    ColumnsPerLine = 2
    Layouts <- MCLayouts
    CoverageReports <- MCReports
    MaxLines = 3
    RustEdits <- MCRust
    OtherEdits <- MCOthers
    EditedFunctions <- MCFunctions
    EditNames = {0, 1, 2, 3, 4, 5, 6, 7, 8}
    NormalPath <- MCNormal
    ModuleSymbol <- MCModule
    OperatorName <- MCOperatorOf
    EditSeeds <- MCEditSeeds
    EditOperators <- MCEditOperators
    MaxFoundEdits = 4
    Disks <- MCDisks
    Base = 1
    Changes <- MCChanges
    Growths <- MCGrowths
    MaxChanges = 1
    Options <- MCDiscoveryOptions
    ExtensionOf <- MCExtensionOf
    IsTest <- MCIsTest
    IsGenerated <- MCIsTest
    Order <- MCPathOrder
    Headers = {"c", "cpp"}
    Limits <- MCWalkLimits
    Absent = Absent
    ui = ui
    core = core
    util = util
    here = here
    there = there
    elsewhere = elsewhere
    inode1 = inode1
    inode2 = inode2
CHECK_DEADLOCK FALSE
