SPECIFICATION Spec
CONSTANTS
    Instances = {"h", "i", "j", "t"}
    Scoped = {"h", "i", "j"}
    Untagged = {"t"}
    Home <- MCHome
    Environment <- MCEnvironment
    Hub = "hub"
    Members = {"a"}
    Regions = {"r1", "r2"}
    NoEnvironment = "unknown"
INVARIANTS
    ComplianceIsSummed
CHECK_DEADLOCK FALSE
