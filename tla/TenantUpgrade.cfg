CONSTANTS
    Adapters = {"postgres", "mysql", "sqlite"}
    Runs = {1}
    TenantIds = {"a", "b"}
    Identities = {"x", "y"}
    NULL = NULL
    MaxRows = 2
    MaxCrashes = 2
SPECIFICATION UpgradeSpec
INVARIANTS
    IdentityHeld
    SchemaExact
    Resumable
PROPERTIES
    NeverUndone
    Activated
