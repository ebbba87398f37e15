------------------------------- MODULE MCFinance -------------------------------
(***************************************************************************)
(* Eight parts of the money system that touch each other only through rows *)
(* the instance leaves apart.  scene names the part that moves, so their   *)
(* states add up instead of multiplying.                                   *)
(***************************************************************************)
EXTENDS CustomerSetup, Deposits, Billing, Merchants, Commands, Ledger, CardRules,
        Listings, TLC

CONSTANTS k1, k2, k3, p3

VARIABLE scene

vars == <<setupVars, depositVars, billingVars, merchantVars, commandVars, ledgerVars, ruleVars,
          listingVars, scene>>

\* No definition names or chooses one of the runs of the jobs, or one of the orders and the proofs
\* but the last.
MCSymmetry == Permutations(Jobs) \cup Permutations(Proofs \ {p3})

\* Every command on the card of the first key, and the ISSUE commands that make cards.
MCRequested ==
    {[kind |-> kind, card |-> {k1}, ruled |-> TRUE] : kind \in CardKinds}
    \cup {[kind |-> "ISSUE", card |-> {}, ruled |-> ruled] : ruled \in BOOLEAN}
    \cup {[kind |-> kind, card |-> {}, ruled |-> FALSE] : kind \in {"WITHDRAW", "THRESHOLDS"}}

\* A deposit that two rows report, one withdrawal of its customer from reservation to payout
\* below the quoted fee, a second customer's deposit and its subscription: they meet on
\* bank-clearing.
MCAccountKeys == <<"hold:1", "system:bank", "system:revenue", "wallet:1", "wallet:2">>
MCOwnedKeys == {"hold:1", "wallet:1", "wallet:2"}
MCReferenceOf ==
    [deposit |-> "deposit:1", again |-> "deposit:1", reserve |-> "reserve:1",
     payout |-> "payout:1", other |-> "deposit:2", premium |-> "billing:2"]
MCPosters == DOMAIN MCReferenceOf
MCCustomerOf == [p \in MCPosters |-> IF p \in {"other", "premium"} THEN 2 ELSE 1]
MCLine(key, amount) == [key |-> key, amount |-> amount]
MCLinesOf ==
    LET deposited == <<MCLine("system:bank", -4), MCLine("wallet:1", 4)>> IN
    [deposit |-> deposited, again |-> deposited,
     reserve |-> <<MCLine("wallet:1", -3), MCLine("hold:1", 3)>>,
     payout  |-> <<MCLine("hold:1", -3), MCLine("system:bank", 2), MCLine("wallet:1", 1)>>,
     other   |-> <<MCLine("system:bank", -3), MCLine("wallet:2", 3)>>,
     premium |-> <<MCLine("wallet:2", -2), MCLine("system:revenue", 2)>>]

\* Purchases that meet a boundary of the budgets 4 and 5 exactly, and pass two at once.
MCAmountOf == [u1 |-> 2, u2 |-> 2, u3 |-> 1]
MCPurchases == DOMAIN MCAmountOf

PartOf == [setup |-> 1, deposits |-> 2, billing |-> 3, merchants |-> 4, commands |-> 5, ledger |-> 6,
           rules |-> 7, listings |-> 8]

\* A part that does not move starts in the first of its initial states.
Init ==
    /\ scene \in DOMAIN PartOf
    /\ SetupInit /\ DepositInit /\ BillingInit /\ MerchantInit /\ CommandInit /\ LedgerInit
    /\ CardRulesInit
    /\ scene # "billing" => ~plan.premium
    /\ scene # "commands" => premium = "FREE"
    /\ scene # "rules" => rule = [usageLimit |-> 2, monthlyLimit |-> 4, notify |-> Boundaries]
    /\ IF scene = "listings" THEN ListingInit
       ELSE listed = "chats" /\ row = [userId |-> "this", text |-> "this"] /\ page = NoPage /\ rowChanges = 0

\* One row of the catalog is reviewed again and published; the other stays the draft of its first
\* review, until a revocation hits it as well.
OneRowGrows == \E c \in Catalogs : catalog'[c].version <= IF catalog'[c].status = "REVOKED" THEN 2 ELSE 1

\* One proof waits at a time.  The last one, and with it the third operation, is for a second
\* lasting command on the card of the first key, while the first such command is unfinished.
LastProofIsForTheCard ==
    /\ Cardinality({p \in Proofs : proof'[p].state \in {"fresh", "expired"}}) <= 1
    /\ operation'[k3].status # "none" => operation'[k3].proof = {p3}
    /\ proof'[p3].state # "none" =>
         /\ \A p \in Proofs \ {p3} : proof'[p].state = "consumed"
         /\ operation'[k1].status = "SUCCEEDED" /\ \A c \in operation'[k2].command : c.card = {k1}
         /\ \A c \in proof'[p3].command : c.kind \in {"PAUSE", "RESUME", "RETIRE", "CANCEL"}
    /\ proof'[p3].state = "fresh" => operation'[k2].status \in Unfinished

\* One scene moves and the other parts stay.
Others(part) == /\ part # 1 => UNCHANGED setupVars
                /\ part # 2 => UNCHANGED depositVars
                /\ part # 3 => UNCHANGED billingVars
                /\ part # 4 => UNCHANGED merchantVars
                /\ part # 5 => UNCHANGED commandVars
                /\ part # 6 => UNCHANGED ledgerVars
                /\ part # 7 => UNCHANGED ruleVars
                /\ part # 8 => UNCHANGED listingVars

Next ==
    /\ \/ scene = "setup" /\ SetupNext
       \/ scene = "deposits" /\ DepositNext
       \/ scene = "billing" /\ BillingNext
       \/ scene = "merchants" /\ MerchantNext /\ OneRowGrows
       \/ scene = "commands" /\ CommandNext /\ LastProofIsForTheCard
       \/ scene = "ledger" /\ LedgerNext
       \/ scene = "rules" /\ CardRulesNext
       \/ scene = "listings" /\ ListingNext
    /\ Others(PartOf[scene])
    /\ UNCHANGED scene

Spec == Init /\ [][Next]_vars

\* Every variable of the parts holds a value of its kind.
TypeOK == SetupTypeOK /\ DepositTypeOK /\ BillingTypeOK /\ MerchantTypeOK
          /\ CommandTypeOK /\ LedgerTypeOK /\ CardRulesTypeOK /\ ListingTypeOK
===============================================================================
