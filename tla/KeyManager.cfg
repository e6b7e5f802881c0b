SPECIFICATION KMSpec
CONSTANTS
    u1 = u1
    u2 = u2
    p1 = p1
    p2 = p2
    old1 = old1
    s1 = s1
    s2 = s2
    s3 = s3
    d1 = d1
    None = None
    Torn = Torn
    UnknownPassword = UnknownPassword
    Secrets <- MCSecrets
    Passes = {p1, p2}
    AddressOf <- MCAddressOf
    Uuids = {u1, u2}
    Strays = {old1}
    RawFiles <- MCRawFiles
    Faults = {"open", "remove"}
    MaxRestarts = 1
    Salts = {s1, s2, s3}
    Defaults = {d1}
    MaxFailures = 1
    Orderly = TRUE
    Honest = TRUE
SYMMETRY MCSymmetry
INVARIANTS
    KMTypeOK
    KeysFileOpens
    
    PasswordRecorded
PROPERTIES
    InfoKept
