CONSTANTS
    House = {1, 2}
    Label = {"x", "y"}
    Name = {"a", "b"}
    Value = {"v"}
    Row = {"q"}
    Capture <- MCCapture
    MaxId = 4
SPECIFICATION Spec
PROPERTIES QuarantineIsKept
\* The bound on the numbers stops the builds.
CHECK_DEADLOCK FALSE
