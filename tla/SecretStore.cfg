SPECIFICATION Spec
CONSTANTS
    u1 = u1
    u2 = u2
    p1 = p1
    p2 = p2
    old1 = old1
    None = None
    Torn = Torn
    Uuids = {u1, u2}
    Secrets <- MCSecrets
    Passes = {p1, p2}
    Strays = {old1}
    RawFiles <- MCRawFiles
    AddressOf <- MCAddressOf
    Faults = {"open", "remove"}
    MaxRestarts = 2
INVARIANTS
    TypeOK
    KeyIdentity
    KeyHasGoodFile
    SaveSyncs
    DamageBounded
PROPERTIES
    CopiesPersist
    SaveTerminates
