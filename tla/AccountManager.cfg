SPECIFICATION AMSpec
CONSTANTS
    u1 = u1
    u2 = u2
    p1 = p1
    p2 = p2
    old1 = old1
    t1 = t1
    None = None
    Torn = Torn
    Secrets <- MCSecrets
    Passes = {p1, p2}
    AddressOf <- MCAddressOf
    Uuids = {u1, u2}
    Strays = {old1}
    RawFiles <- MCAddressedFiles
    Importable <- MCSecrets
    Faults = {"open", "remove"}
    MaxRestarts = 1
    Threads = {t1}
INVARIANTS
    AMTypeOK
    ListedAccountsExist
    AccountsOnDisk
PROPERTIES
    ImplementsBook
