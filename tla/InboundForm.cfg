SPECIFICATION Spec
CONSTANTS
    None = None
    MaxChanges = 4
    MaxAsks = 2
    MaxPosts = 1
INVARIANTS
    TypeOK
    FlowFits
    ReopenKeeps
    PanelConnects
    SubscriptionConnects
CHECK_DEADLOCK FALSE
