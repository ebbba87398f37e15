SPECIFICATION SettingsSpec
CONSTANTS
    Changes = {g1, g2}
    Gadgets = {b1}
    Choices = {"theme", "language"}
    Payees = {p1}
    Tokens = {z1}
INVARIANT ChoicesAreKept
CHECK_DEADLOCK FALSE
