SPECIFICATION Spec
CONSTANTS
    Supers = {} Admins = {} Accountants = {} Drivers = {}
    b1 = b1 b2 = b2 b3 = b3
    Browsers = {b1, b2, b3}
    People = {"cautious", "curious"}
    Uses <- TheirBrowsers
    MayHold <- TheirRoles
    LooksAt <- TheirPages
    Attempts = 2
    MaxSecrets = 2
    MaxEvents = 2
SYMMETRY SameBrowsers
CHECK_DEADLOCK FALSE
INVARIANTS
    PrivilegedHasMfa
    OldSignInsAreOver
    LinksOpen
