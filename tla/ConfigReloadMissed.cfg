SPECIFICATION Spec
CONSTANTS
    Valid = {"r1", "r2"}
    Invalid = {"bad"}
    Enabled = {"r1"}
    MaxEdits = 1
    MaxRequests = 1
    MaxFailures = 0
PROPERTIES
    EditsAdopted
CHECK_DEADLOCK FALSE
