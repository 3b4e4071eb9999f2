\* Audit events of two tenants; a tenant that is created, retried and switched off and on.
SPECIFICATION PartsSpec
CONSTANTS
    Tenants = {t1, t2}
    Capacity = 1
    SecurityCapacity = 1
    AuditBatch = 2
    AuditRetries = 2
    MaxEvents = 3
    MaxOutages = 2
    Hosts = {h1, h2}
    Operators = {o1, o2}
    Steps <- TwoSteps
    MaxCommands = 3
    JobAttempts = 2
    MaxMishaps = 1
    DefaultPassword = TRUE
INVARIANTS AuditTells ProvisioningTells
PROPERTIES WorkSettles
\* The requests about the tenant are bounded.
CHECK_DEADLOCK FALSE
