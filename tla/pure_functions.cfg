SPECIFICATION Spec
CONSTANTS
    Characters = {"w", "-", "*", "/", "'", "|", "sp", "nl", "cr"}
    MaxSql = 5
    Compound <- CompoundOperators
    MaxEntries = 3
    NoValue = NoValue
    Blank = Blank
    Text = Text
    Places = {p1, p2}
    Unparsable = Unparsable
INVARIANTS KeyKeepsMeaning WhitespaceIgnored QueryUntouched
    AcceptedLoads LoadedAsGiven DenialsReworded
CHECK_DEADLOCK FALSE
