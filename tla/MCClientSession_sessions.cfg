\* Two users, two sign-ins, two acting sessions; the console in one tab, the dashboard in two.
SPECIFICATION Spec
CONSTANTS
    Users = {u1, u2}
    Apps <- BothApps
    MaxLogins = 2
    MaxGrants = 1
    MaxTroubles = 1
    MaxInFlight <- PerApp
SYMMETRY Swapped
INVARIANTS IdentitiesAgree NoSelfRefusal NobodyWaitsForNothing
CHECK_DEADLOCK FALSE
