SPECIFICATION ClientSpec
CONSTANTS
    t1 = t1
    k1 = k1
    k2 = k2
    a1 = a1
    Stranger = Stranger
    Invalid = Invalid
    None = None
    Txs = {t1}
    Nulls = {t1}
    Creations = {}
    Keys = {k1}
    KeyOf <- MCNoKeys
    BadKeys = {}
    Rekeys <- MCRightKey
    Receivers = {a1}
    Setters <- MCPriceAndSize
    Deployed = {t1}
    ChainId = 1
    GasPrices <- MCGasPrices
    Estimates <- MCEstimates
    MaxEpoch = 1
    Window = 0
    MaxWait = 1
INVARIANTS
    AtMostOnce
    NothingMissing
    SuccessIsReal
PROPERTIES
    FetchedBesideGiven
    WaitReturns
