SPECIFICATION Spec
CONSTANTS
    None = None
    Users = {ada, bea}
    Legacy = {ada}
    Provisioned = {ada}
    Configured = {ada}
    Requests = {r1, r2}
    Limits = {2}
    MaxMigrated = 1
    MaxTenants = 1
    MaxCompanies = 3
    MaxChanges = 2
    MaxGrants = 2
    Grants = {"owner", "viewer"}
SYMMETRY Symmetry
CONSTRAINT AtMostThree
INVARIANTS
    SessionsEnd
    PlanHolds
CHECK_DEADLOCK FALSE
