SPECIFICATION Spec
CONSTANTS
    l1 = l1
    l2 = l2
    gmail = gmail
    calendar = calendar
    a1 = a1
    a2 = a2
    v1 = v1
    v2 = v2
    Links <- MCLinks
    Providers <- MCProviders
    ProviderOf <- MCProviderOf
    Consents <- MCConsents
    Visits <- MCVisits
    LinkTTL = 1
    ConsentTTL = 2
    MaxTime = 3
    MaxFaults = 1
    None = None
SYMMETRY MCSymmetry
INVARIANTS
    LinkWorksOnce
    ConsentIsHonoured
PROPERTIES
    NewerAccountStays
CHECK_DEADLOCK FALSE
