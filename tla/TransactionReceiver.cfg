SPECIFICATION BaseSpec
CONSTANTS
    t1 = t1
    k1 = k1
    k2 = k2
    a1 = a1
    a2 = a2
    Stranger = Stranger
    Invalid = Invalid
    None = None
    Txs = {t1}
    Nulls = {}
    Creations = {}
    Keys = {k1, k2}
    KeyOf <- MCKeyOf
    BadKeys = {}
    Rekeys = {}
    Receivers = {a1, a2}
    Setters <- MCSetters
INVARIANT
    ReceiverHonoured
