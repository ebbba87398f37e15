SPECIFICATION MCSpec
CONSTANTS
    a0 = a0  a1 = a1  a2 = a2  a3 = a3  a4 = a4  m1 = m1  m2 = m2
    c1 = c1  c2 = c2  c3 = c3  r1 = r1  r2 = r2  d1 = d1  z1 = z1
    x1 = x1  x2 = x2
    Auths = {a0, a1, a2, a3, a4}
    Merchants = {m1, m2}
    Txns = {c1, c2, c3, r1, d1, z1}
    Runs = {x1, x2}
    Verification = {a0}
    Permitted = {a0, a1, a2, a3}
    Amount <- MCAmount
    Merchant <- MCMerchant
    Kind <- MCKind
    Auth <- MCAuth
    Value <- MCValue
    Rules <- MCRules
    Lot = 2
    Deposit = 4
SYMMETRY MCSymmetry
INVARIANTS
    MoneyStaysWhole
    LimitsHoldOut
    RetiredStaysEmpty
    RowsAreJournals
    ApprovalsAreSpent
PROPERTIES
    ImplementsEnvelope
CHECK_DEADLOCK FALSE
