\* Two discoveries at a time, deletions, resets and one run.
SPECIFICATION Spec
CONSTANTS
    Url = {"u1", "u2", "u3", "u4"}
    Id = {"i1", "i3", "i4"}
    IdOf <- Ids
    Handler = {h1, h2}
    Run = {r1}
    Offers <- ServiceOffers
    Account = {"a", "b"}
    Fees <- RoundFees
    Checks <- CheckAccounts
    Buyer = "buyer"
    Supplier = "supplier"
    FeePayer = "feePayer"
    OrderTotal = 10
    Balance = 16
    MAX_GROUP_SIZE = 7
    Network = "algorand"
    Asset = "usdc"
    NotAtomic = NotAtomic
    None = None
SYMMETRY HandlerSymmetry
INVARIANTS
    TypeOK
    OvershootBounded
    EachServiceHasItsTransfer
    GroupIsFunded
    AcceptedArePaidInFull
PROPERTIES
    OnlyStaleDiscoveryBreaksSlots
