SPECIFICATION Spec
CONSTANTS
    Lowest <- MCLowest
    Highest <- MCHighest
    RoundTo64 <- MCRoundTo64
    RoundTo32 <- MCRoundTo32
    Infinity <- MCInfinity
    NaN <- MCNaN
    Strings <- MCStrings
    Names <- MCNames
    Depth = 2
    AddressText <- MCAddressText
    Keys = {"t", "v"}
    Natives <- MCNatives
    NewInts = {15}
    Payloads <- MCPayloads
    DefaultsFiles <- MCDefaultsFiles
    Missing = Missing
INVARIANT DataTypeOK
INVARIANT ReadBack
INVARIANT TypedReadBack
INVARIANT NoSilentNarrowing
INVARIANT MockAgrees
