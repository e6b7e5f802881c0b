SPECIFICATION ClientSpec
CONSTANTS
    t1 = t1
    k1 = k1
    k2 = k2
    a1 = a1
    Stranger = Stranger
    Invalid = Invalid
    None = None
    Txs = {t1}
    Nulls = {t1}
    Creations = {}
    Keys = {k1, k2}
    KeyOf <- MCNoKeys
    BadKeys = {k2}
    Rekeys <- MCRightKey
    Receivers = {a1}
    Setters <- MCSize
    Deployed = {}
    ChainId = 1
    GasPrices <- MCGasPrices
    Estimates <- MCEstimates
    MaxEpoch = 0
    Window = 0
    MaxWait = 2
INVARIANT
    CallerFieldsKept
