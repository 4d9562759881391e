SPECIFICATION Spec
CONSTANTS
    note = note
    look = look
    pay = pay
    odd = odd
    late = late
    NoSession = NoSession
    Turns <- TwoTurns
    Plan <- TwoPlans
    Tools = {note, look, pay, odd, late}
    Shape <- Shapes
    NameClass <- Names
    Override <- Overrides
    HasCompensation = {note, odd}
    MaxInvocations = 3
    Plugins <- TwoPlugins
    PluginOf <- PluginNumbers
CHECK_DEADLOCK FALSE
INVARIANTS RetryReplays  
PROPERTIES PreparedWhole
