SPECIFICATION Spec
CONSTANTS
    MAX_AT_RESPONSE = 3
    Chars = {"a", ">", " ", "CR"}
    MaxInput = 8
INVARIANTS
    CursorInData
    Faithful
CHECK_DEADLOCK FALSE
