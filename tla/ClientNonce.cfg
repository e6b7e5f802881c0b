SPECIFICATION ClientSpec
CONSTANTS
    t1 = t1
    k1 = k1
    k2 = k2
    a1 = a1
    Stranger = Stranger
    Invalid = Invalid
    None = None
    Txs = {t1}
    Nulls = {}
    Creations = {}
    Keys = {k1}
    KeyOf <- MCNoKeys
    BadKeys = {}
    Rekeys <- MCRightKey
    Receivers = {a1}
    Setters = {}
    Deployed = {}
    ChainId = 1
    GasPrices <- MCGasPrices
    Estimates <- MCEstimates
    MaxEpoch = 0
    Window = 1
    MaxWait = 1
INVARIANT
    NonceOfSender
