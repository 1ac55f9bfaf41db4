CONSTANTS
    House = {1, 2}
    Label = {"x", "y"}
    Name = {"a", "b"}
    Value = {"v"}
    Row = {}
    Capture <- MCCapture
    MaxId = 4
SPECIFICATION Spec
INVARIANTS StoreTypeOK
PROPERTIES StoreIsCompiled UnmovedIsUntouched
\* The bound on the numbers stops the builds.
CHECK_DEADLOCK FALSE
