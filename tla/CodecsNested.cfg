SPECIFICATION CodecsSpec
CONSTANTS
    c1 = c1
    h1 = h1
    h2 = h2
    Caller = c1
    Helpers = {h1, h2}
    RandomKeys = {1, 2, 3}
    Wanted = {2, 3}
    HexAddresses <- MCHexAddresses
    NetworkIDs <- MCNetworkIDs
    TypoSymbols = {0, 32}
    MaxTypos = 0
    KnownTexts <- MCKnownTexts
    DataItems <- MCDataItems
    Hashes <- MCHashes
    Ints = {0, 127, 256}
    ListSizes = {1, 2}
    MaxItems = 1
    Inputs <- MCFixedInFixed
    Outputs <- MCOutputs
    MaxCalls = 3
INVARIANTS
    CallDataRight
CHECK_DEADLOCK FALSE
