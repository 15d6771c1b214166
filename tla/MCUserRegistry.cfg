SPECIFICATION RegistrySpec
CONSTANTS
    Addresses = {a1, a2, a3}
    InitialOwner = a1
    Profiles = {profile1, profile2}
    BlankProfile = BlankProfile
    NoOwner = NoOwner
    MaxUint = 8
    PageSize = 2
INVARIANTS
    ListMatchesMapping
    PagesArePrefix
PROPERTIES
    DeactivationIsFinal
    ReaderCatchesUp
