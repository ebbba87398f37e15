SPECIFICATION Spec
CONSTANTS
    k1 = k1  k2 = k2  k3 = k3  p3 = p3
    Requests = {r1, r2}
    MaxIdentities = 1
    MaxFaults = 1
    Transfers = {d1}
    Jobs = {j1, j2}
    Gross = 3
    BankFees = 1
    FeeBearer = "recipient"
    Webhooks = {"Completed", "Reversed"}
    MaxLost = 1
    PremiumOrders = {p1, p2}
    CreditOrders = {pack}
    Replicas = {j1, j2}
    Months = 2
    Price = 1
    PlanCredits = 2
    PackCredits = 1
    Funds = 2
    TopUps = 1
    Identities = {i1, i2}
    Catalogs = {c1, c2}
    Admins = {a1}
    MaxVersion = 3
    MaxRules = 2
    MaxCandidates = 1
    Keys = {k1, k2, k3}
    Proofs = {p1, p2, p3}
    Requested <- MCRequested
    Fee = 1
    Balance = 5
    StandardLimit = 1
    RuledLimit = 1
    PremiumLimit = 3
    Posters <- MCPosters
    AccountKeys <- MCAccountKeys
    OwnedKeys <- MCOwnedKeys
    ReferenceOf <- MCReferenceOf
    CustomerOf <- MCCustomerOf
    LinesOf <- MCLinesOf
    Purchases <- MCPurchases
    AmountOf <- MCAmountOf
    UsageLimits = {1, 2, 3}
    Budgets = {4, 5}
    MaxSpendLimit = 4
    MaxChanges = 2
    MaxReads = 2
    MaxRowChanges = 2
SYMMETRY MCSymmetry
INVARIANTS
    ProvisionedOnce
    DepositCreditedOnce
    ChargedOncePerPeriod
    OneProofOneOperation
    OneActionPerCard
    BalancesAreEntries
    AlertsAreExact
    UsedUpIsRetired
    OffersAreHonoured
    PageIsHonest
PROPERTIES
    RenewalNeedsAMandate
    BindingsAreCurrent
    ImplementsAtomicLedger
    ImplementsPayin
CHECK_DEADLOCK FALSE
