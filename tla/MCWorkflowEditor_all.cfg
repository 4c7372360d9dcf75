SPECIFICATION MCSpec
CONSTANTS
    tab1 = tab1
    tab2 = tab2
    call1 = call1
    call2 = call2
    NodeIds = {a, b, c}
    PhaseChoices <- AllPhases
    MaxNodes = 3
    ExportedNames = {"x", "y"}
    MaxEdges = 3
    MaxReads = 1
    CanvasIds = {a, b, c}
    NotSelected = NotSelected
    DefaultName = "variable_name"
    OtherNames = {"id"}
    MaxDrawn = 3
    MaxWorkflows = 1
    Tabs = {tab1, tab2}
    NoPageTab = NoPageTab
    EditorCalls = {call1, call2}
    MaxEdits = 2
    InspectedIds = {tab1, tab2}
    NoNode = NoNode
    MaxInspected = 4
    Steps = 3
    Names = {"x", "y"}
    Secrets = TRUE
    Plans <- MCPlans
    MaxDeliveries = 2
SYMMETRY EditorSymmetry
INVARIANTS
    EditorTypeOK
    AcceptsExactlyDags
    PhasedOrderIsTopological
    SearchesAreReachability
    ProducersRunFirst
    CanvasBuildsValid
    TemplatesStayWithTheirNode
    StepsSendWhatWasProduced
PROPERTIES
    SavesBuildOnLatest
CHECK_DEADLOCK FALSE
