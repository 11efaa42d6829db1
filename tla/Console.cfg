SPECIFICATION Spec
CONSTANTS
    Tab = {"t1"}
    Window = {"t1", "t2"}
    MaxCalls = 2
    ToolCalls = 1
    MaxSession = 2
    MaxPrompt = 2
    Tool = {"i"}
    Loop = "loop"
    MaxDesc = 2
    MaxHook = 2
    MaxForm = 2
    Provider = {"p", "q"}
    Workflow = {"w"}
    User = {"u", "v"}
    NoUser = "nobody"
    MaxOrg = 3
    Slug = {"b"}
    MaxText = 1
INVARIANTS
    TypeOK LocksAreTrue FiledWhereAsked ModelOfProvider ShownOrgIsTheirs
    DraftsStayHidden
PROPERTIES ControlsReturn DescriptionsSent RemovedForGood
