SPECIFICATION Spec
CONSTANTS
    None = None
    Users = {ada, bea}
    Legacy = {ada}
    Provisioned = {ada}
    Configured = {ada}
    Requests = {r1}
    Limits = {2}
    MaxMigrated = 0
    MaxTenants = 1
    MaxCompanies = 2
    MaxChanges = 1
    MaxGrants = 2
    Grants = {"owner", "viewer"}
INVARIANTS
    OneCompanyPerAccess
CHECK_DEADLOCK FALSE
