SPECIFICATION Spec
CONSTANTS
    Nodes = {1, 2, 3, 4}
    Entry = 1
    Exit = 4
    Virtual = 0
    Vars = {"a", "a.f"}
    Below <- Fields
    Functions <- FlowFunctions
    Routines = {1, 2, 3, 4, 5}
    CallGraphs <- Graphs
    TargetSets <- Sinks
    Source = 1
    MaxDepth = 3
    MaxVariants = 2
    MaxStates = 7
    Names = {"p", "x"}
    Vals = {0, 1}
    Unknown = 9
    AnyName = "none"
    Queries <- Asked
    MaxVisits = 2
    EntryOp = 1
    Variables = {"i", "j"}
    AnyConstant = AnyConstant
    MaxValues = 2
    MaxUpdates = 6
    MaxEntries = 15
    NoPoint = "none"
    NoSite = "none"
    CallDepth = 2
    FlowVariants = 2
    FlowStates = 8
    MaxCandidates = 5
    SourceWindow = 2
    SinkWindow = 2
    MaxQueries = 3
    NoFlow = 0
    Bodies <- IndexBodies
    ValueQueries <- AskedValues
    Programs <- RoutePrograms
    Scans <- SomeScans
    NoOrder = NoOrder
    NoName = "-"
    NoSymbol = "none"
    MaxVirtualTargets = 1
    Builtins = {"print"}
    BuiltinObjects = {"console"}
    TypeMethods = {"append"}
    Projects <- SomeProjects
    Bindings <- SomeBindings
    BoundVariables = {"x", "y"}
    SomeKeys = {"a", "b"}
    MaxPatternDepth = 4
    MaxProjections = 4
    Operations <- SomeOperations
    SourceFunctions <- SomeFunctions
    RunLength = 7
    Sources <- SomeSources
INVARIANTS
  AnnotationsAreExact
  SearchIsHonest
  PathsAreReal
  MeaningIsExact
  VerdictsAreTrue
CHECK_DEADLOCK FALSE
