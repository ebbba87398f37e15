---------------------------- MODULE FinanceProofs ----------------------------
(***************************************************************************)
(* Theorems of five parts of the money system: the setup of a customer at  *)
(* the providers, billing, the merchants of a card, the money commands and *)
(* the paged lists.                                                        *)
(***************************************************************************)
EXTENDS CustomerSetup, Billing, Merchants, Commands, Listings, FiniteSetTheorems, TLAPS

(***************************************************************************)
(* CustomerSetup: provisioning happens once.  The argument: between the    *)
(* claim of a kind and its refusal the row says PROCESSING, so one request *)
(* at most is about to POST, and nothing has been created before it.       *)
(***************************************************************************)
Holders == cardholders[0] + cardholders[1]

BankInv ==
    /\ safeHaven.accounts <= 1
    /\ customer.bank = "PENDING" => safeHaven.accounts = 0
    /\ customer.account => safeHaven.accounts = 1

HolderInv ==
    /\ Holders <= 1
    /\ customer.sudo = "PENDING" => Holders = 0
    /\ customer.holder => Holders = 1

ReadyInv == customer.status = "READY" => customer.account /\ customer.holder

\* A request that may still POST, or that was refused, holds the claim and nothing exists.
ClaimsBank(r)   == request[r].pc \in {"openAccount", "bankRefused"}
ClaimsHolder(r) == request[r].pc \in {"createHolder", "holderRefused"}

RequestInv(r) ==
    /\ ClaimsBank(r) => customer.bank = "PROCESSING" /\ safeHaven.accounts = 0
    /\ ClaimsHolder(r) => customer.sudo = "PROCESSING" /\ Holders = 0
    /\ request[r].pc = "accountOpened" => safeHaven.accounts = 1
    /\ request[r].pc = "holderCreated" => Holders = 1
    /\ request[r].foundAccount => safeHaven.accounts = 1
    /\ request[r].foundHolder => Holders = 1
    /\ request[r].read.account => customer.account
    /\ request[r].read.holder => customer.holder
    /\ request[r].pc = "idle" => ~request[r].foundAccount /\ ~request[r].foundHolder
    /\ request[r].foundAccount => request[r].pc = "reconcile"
    /\ request[r].foundHolder => request[r].pc \in {"listAccounts", "reconcile"}

ClaimsApart(r, q) ==
    /\ ClaimsBank(r) /\ ClaimsBank(q) => r = q
    /\ ClaimsHolder(r) /\ ClaimsHolder(q) => r = q

SetupInv ==
    /\ SetupTypeOK /\ BankInv /\ HolderInv /\ ReadyInv
    /\ \A r \in Requests : RequestInv(r)
    /\ \A r, q \in Requests : ClaimsApart(r, q)

\* What a step makes of a request and of the customer's row.
RequestIs(r, pc, read, bankFound, sudoFound) ==
    /\ request' \in [Requests -> RequestState]
    /\ request'[r].pc = pc /\ request'[r].read = read
    /\ request'[r].foundAccount = bankFound /\ request'[r].foundHolder = sudoFound
    /\ \A q \in Requests : q # r => request'[q] = request[q]

Moves(r, pc) == RequestIs(r, pc, request[r].read, request[r].foundAccount, request[r].foundHolder)

CustomerIs(bank, sudo, bankId, sudoId, status) ==
    /\ customer' \in Rows
    /\ customer'.bank = bank /\ customer'.sudo = sudo /\ customer'.account = bankId
    /\ customer'.holder = sudoId /\ customer'.status = status

LEMMA Begins ==
    ASSUME SetupInv, NEW r \in Requests, NEW pc \in RequestPcs, Begin(r, pc)
    PROVE  RequestIs(r, pc, customer, FALSE, FALSE)
<1>1. request \in [Requests -> RequestState] /\ customer \in Rows /\ email \in 0..1
  BY DEF SetupInv, SetupTypeOK
<1> DEFINE begun == [IdleRequest EXCEPT !.pc = pc, !.read = customer, !.email = email]
<1>2. IdleRequest \in RequestState
  BY SetupAssumption DEF IdleRequest, NoRow, RequestState, RequestPcs, Rows, Progress
<1>3. begun \in RequestState
  BY <1>1, <1>2 DEF RequestState
<1>4. /\ begun.pc = pc /\ begun.read = customer
      /\ begun.foundAccount = FALSE /\ begun.foundHolder = FALSE
  BY <1>2 DEF IdleRequest, RequestState
<1>5. request' = [request EXCEPT ![r] = begun]
  BY DEF Begin
<1> QED BY <1>1, <1>3, <1>4, <1>5 DEF RequestIs

LEMMA Steps ==
    ASSUME SetupInv, NEW r \in Requests, NEW from, NEW to \in RequestPcs, Step(r, from, to)
    PROVE  Moves(r, to) /\ request[r].pc = from
  BY DEF Step, SetupInv, SetupTypeOK, RequestState, Moves, RequestIs

LEMMA Leaves ==
    ASSUME SetupInv, NEW r \in Requests, request' = [request EXCEPT ![r] = IdleRequest]
    PROVE  RequestIs(r, "idle", NoRow, FALSE, FALSE)
  BY SetupAssumption DEF SetupInv, SetupTypeOK, RequestState, RequestPcs, IdleRequest, NoRow, Rows,
     Progress, RequestIs

LEMMA SetupStarts == SetupInit => SetupInv
  BY SetupAssumption DEF SetupInit, SetupInv, SetupTypeOK, BankInv, HolderInv, ReadyInv,
     RequestInv, ClaimsApart, ClaimsBank, ClaimsHolder, Holders, RequestState, RequestPcs,
     IdleRequest, NoRow, Rows, Progress

LEMMA InitiateKeeps ==
    ASSUME SetupInv, NEW r \in Requests, Initiate(r)
    PROVE  SetupInv'
<1>1. /\ SetupTypeOK /\ BankInv /\ HolderInv /\ ReadyInv /\ RequestInv(r)
      /\ request \in [Requests -> RequestState] /\ request[r] \in RequestState
  BY DEF SetupInv, SetupTypeOK
<1>2. /\ RequestIs(r, "identify", customer, FALSE, FALSE)
      /\ UNCHANGED <<customer, kyc, email>> /\ ProvidersUnchanged /\ NoFault
  BY <1>1, Begins DEF Initiate, RequestPcs
<1>3. SetupTypeOK'
  BY <1>1, <1>2, SetupAssumption DEF SetupTypeOK, RequestIs, ProvidersUnchanged, NoFault
<1>4. (BankInv /\ HolderInv /\ ReadyInv)'
  BY <1>1, <1>2 DEF BankInv, HolderInv, ReadyInv, RequestInv, ClaimsBank, ClaimsHolder, Holders,
     ProvidersUnchanged, SetupTypeOK, Rows
<1>5. ASSUME NEW q \in Requests PROVE RequestInv(q)'
  <2>1. RequestInv(q) /\ ClaimsApart(r, q)
    BY DEF SetupInv
  <2>2. CASE q = r
    BY <1>1, <1>2, <2>2 DEF RequestInv, BankInv, HolderInv, ClaimsBank, ClaimsHolder, Holders,
       RequestIs, ProvidersUnchanged, SetupTypeOK
  <2>3. CASE q # r
    BY <1>1, <1>2, <2>1, <2>3 DEF RequestInv, BankInv, HolderInv, ClaimsApart, ClaimsBank,
       ClaimsHolder, Holders, RequestIs, ProvidersUnchanged, SetupTypeOK
  <2> QED BY <2>2, <2>3
<1>6. (\A p, q \in Requests : ClaimsApart(p, q))'
  <2>1. /\ \A p, q \in Requests : ClaimsApart(p, q)
        /\ \A q \in Requests : RequestInv(q)
    BY DEF SetupInv
  <2> QED BY <1>1, <1>2, <2>1 DEF ClaimsApart, RequestInv, ClaimsBank, ClaimsHolder, RequestIs
<1> QED BY <1>3, <1>4, <1>5, <1>6 DEF SetupInv

LEMMA StoreIdentityKeeps ==
    ASSUME SetupInv, NEW r \in Requests, StoreIdentity(r)
    PROVE  SetupInv'
<1>1. /\ SetupTypeOK /\ BankInv /\ HolderInv /\ ReadyInv /\ RequestInv(r)
      /\ request \in [Requests -> RequestState] /\ request[r] \in RequestState
  BY DEF SetupInv, SetupTypeOK
<1>2. /\ RequestIs(r, "idle", NoRow, FALSE, FALSE)
      /\ CustomerIs(customer.bank, customer.sudo, customer.account, customer.holder,
                 customer.status)
      /\ safeHaven' \in [identities : 0..MaxIdentities, accounts : Nat]
      /\ safeHaven'.accounts = safeHaven.accounts
      /\ UNCHANGED <<kyc, email, cardholders>> /\ NoFault
  <2>1. /\ safeHaven' \in [identities : 0..MaxIdentities, accounts : Nat]
        /\ safeHaven'.accounts = safeHaven.accounts
    BY <1>1, SetupAssumption DEF StoreIdentity, SetupTypeOK
  <2>2. safeHaven.identities + 1 \in 0..MaxIdentities
    BY <1>1, SetupAssumption DEF StoreIdentity, SetupTypeOK
  <2>3. CustomerIs(customer.bank, customer.sudo, customer.account, customer.holder, customer.status)
    BY <1>1, <2>2 DEF StoreIdentity, SetupTypeOK, Rows, CustomerIs
  <2> QED BY <1>1, <2>1, <2>3, Leaves DEF StoreIdentity, Finish
<1>3. SetupTypeOK'
  BY <1>1, <1>2, SetupAssumption DEF SetupTypeOK, RequestIs, CustomerIs, NoFault
<1>4. (BankInv /\ HolderInv /\ ReadyInv)'
  BY <1>1, <1>2 DEF BankInv, HolderInv, ReadyInv, RequestInv, ClaimsBank, ClaimsHolder, Holders,
     CustomerIs, SetupTypeOK, Rows
<1>5. ASSUME NEW q \in Requests PROVE RequestInv(q)'
  <2>1. RequestInv(q) /\ ClaimsApart(r, q)
    BY DEF SetupInv
  <2>2. CASE q = r
    BY <1>1, <1>2, <2>2 DEF RequestInv, BankInv, HolderInv, ClaimsBank, ClaimsHolder, Holders,
       RequestIs, CustomerIs, NoRow, SetupTypeOK
  <2>3. CASE q # r
    BY <1>1, <1>2, <2>1, <2>3 DEF RequestInv, BankInv, HolderInv, ClaimsApart, ClaimsBank,
       ClaimsHolder, Holders, RequestIs, CustomerIs, SetupTypeOK
  <2> QED BY <2>2, <2>3
<1>6. (\A p, q \in Requests : ClaimsApart(p, q))'
  <2>1. /\ \A p, q \in Requests : ClaimsApart(p, q)
        /\ \A q \in Requests : RequestInv(q)
    BY DEF SetupInv
  <2> QED BY <1>1, <1>2, <2>1 DEF ClaimsApart, RequestInv, ClaimsBank, ClaimsHolder, RequestIs
<1> QED BY <1>3, <1>4, <1>5, <1>6 DEF SetupInv

LEMMA IdentityFailsKeeps ==
    ASSUME SetupInv, NEW r \in Requests, IdentityFails(r)
    PROVE  SetupInv'
<1>1. /\ SetupTypeOK /\ BankInv /\ HolderInv /\ ReadyInv /\ RequestInv(r)
      /\ request \in [Requests -> RequestState] /\ request[r] \in RequestState
  BY DEF SetupInv, SetupTypeOK
<1>2. /\ RequestIs(r, "idle", NoRow, FALSE, FALSE)
      /\ UNCHANGED <<customer, kyc, email>> /\ ProvidersUnchanged /\ NoFault
  BY <1>1, Leaves DEF IdentityFails, Finish
<1>3. SetupTypeOK'
  BY <1>1, <1>2, SetupAssumption DEF SetupTypeOK, RequestIs, ProvidersUnchanged, NoFault
<1>4. (BankInv /\ HolderInv /\ ReadyInv)'
  BY <1>1, <1>2 DEF BankInv, HolderInv, ReadyInv, RequestInv, ClaimsBank, ClaimsHolder, Holders,
     ProvidersUnchanged, SetupTypeOK, Rows
<1>5. ASSUME NEW q \in Requests PROVE RequestInv(q)'
  <2>1. RequestInv(q) /\ ClaimsApart(r, q)
    BY DEF SetupInv
  <2>2. CASE q = r
    BY <1>1, <1>2, <2>2 DEF RequestInv, BankInv, HolderInv, ClaimsBank, ClaimsHolder, Holders,
       RequestIs, ProvidersUnchanged, NoRow, SetupTypeOK
  <2>3. CASE q # r
    BY <1>1, <1>2, <2>1, <2>3 DEF RequestInv, BankInv, HolderInv, ClaimsApart, ClaimsBank,
       ClaimsHolder, Holders, RequestIs, ProvidersUnchanged, SetupTypeOK
  <2> QED BY <2>2, <2>3
<1>6. (\A p, q \in Requests : ClaimsApart(p, q))'
  <2>1. /\ \A p, q \in Requests : ClaimsApart(p, q)
        /\ \A q \in Requests : RequestInv(q)
    BY DEF SetupInv
  <2> QED BY <1>1, <1>2, <2>1 DEF ClaimsApart, RequestInv, ClaimsBank, ClaimsHolder, RequestIs
<1> QED BY <1>3, <1>4, <1>5, <1>6 DEF SetupInv

LEMMA CompleteBankKeeps ==
    ASSUME SetupInv, NEW r \in Requests, CompleteBank(r)
    PROVE  SetupInv'
<1>1. /\ SetupTypeOK /\ BankInv /\ HolderInv /\ ReadyInv /\ RequestInv(r)
      /\ request \in [Requests -> RequestState] /\ request[r] \in RequestState
  BY DEF SetupInv, SetupTypeOK
<1>2. /\ RequestIs(r, "claimBank", customer, FALSE, FALSE)
      /\ UNCHANGED <<customer, kyc, email>> /\ ProvidersUnchanged /\ NoFault
  BY <1>1, Begins DEF CompleteBank, RequestPcs
<1>3. SetupTypeOK'
  BY <1>1, <1>2, SetupAssumption DEF SetupTypeOK, RequestIs, ProvidersUnchanged, NoFault
<1>4. (BankInv /\ HolderInv /\ ReadyInv)'
  BY <1>1, <1>2 DEF BankInv, HolderInv, ReadyInv, RequestInv, ClaimsBank, ClaimsHolder, Holders,
     ProvidersUnchanged, SetupTypeOK, Rows
<1>5. ASSUME NEW q \in Requests PROVE RequestInv(q)'
  <2>1. RequestInv(q) /\ ClaimsApart(r, q)
    BY DEF SetupInv
  <2>2. CASE q = r
    BY <1>1, <1>2, <2>2 DEF RequestInv, BankInv, HolderInv, ClaimsBank, ClaimsHolder, Holders,
       RequestIs, ProvidersUnchanged, SetupTypeOK
  <2>3. CASE q # r
    BY <1>1, <1>2, <2>1, <2>3 DEF RequestInv, BankInv, HolderInv, ClaimsApart, ClaimsBank,
       ClaimsHolder, Holders, RequestIs, ProvidersUnchanged, SetupTypeOK
  <2> QED BY <2>2, <2>3
<1>6. (\A p, q \in Requests : ClaimsApart(p, q))'
  <2>1. /\ \A p, q \in Requests : ClaimsApart(p, q)
        /\ \A q \in Requests : RequestInv(q)
    BY DEF SetupInv
  <2> QED BY <1>1, <1>2, <2>1 DEF ClaimsApart, RequestInv, ClaimsBank, ClaimsHolder, RequestIs
<1> QED BY <1>3, <1>4, <1>5, <1>6 DEF SetupInv

LEMMA ClaimBankKeeps ==
    ASSUME SetupInv, NEW r \in Requests, ClaimBank(r)
    PROVE  SetupInv'
<1>1. /\ SetupTypeOK /\ BankInv /\ HolderInv /\ ReadyInv /\ RequestInv(r)
      /\ request \in [Requests -> RequestState] /\ request[r] \in RequestState
  BY DEF SetupInv, SetupTypeOK
<1>2. /\ \/ /\ request[r].pc = "claimBank" /\ customer.bank = "PENDING" /\ Moves(r, "openAccount")
            /\ CustomerIs("PROCESSING", customer.sudo, customer.account, customer.holder,
                          customer.status)
         \/ RequestIs(r, "idle", NoRow, FALSE, FALSE) /\ UNCHANGED customer
      /\ UNCHANGED <<kyc, email>> /\ ProvidersUnchanged /\ NoFault
  <2>1. CASE customer.bank = "PENDING"
    <3>1. customer' = [customer EXCEPT !.bank = "PROCESSING"]
          /\ Step(r, "claimBank", "openAccount")
      BY <2>1 DEF ClaimBank
    <3> QED BY <1>1, <2>1, <3>1, Steps DEF ClaimBank, RequestPcs, SetupTypeOK, Rows, Progress,
       CustomerIs
  <2>2. CASE customer.bank # "PENDING"
    BY <1>1, <2>2, Leaves DEF ClaimBank, Finish
  <2> QED BY <2>1, <2>2
<1>3. SetupTypeOK'
  BY <1>1, <1>2, SetupAssumption DEF SetupTypeOK, RequestIs, Moves, CustomerIs, ProvidersUnchanged,
     NoFault
<1>4. (BankInv /\ HolderInv /\ ReadyInv)'
  BY <1>1, <1>2 DEF BankInv, HolderInv, ReadyInv, RequestInv, ClaimsBank, ClaimsHolder, Holders,
     CustomerIs, ProvidersUnchanged, SetupTypeOK, Rows
<1>5. ASSUME NEW q \in Requests PROVE RequestInv(q)'
  <2>1. RequestInv(q) /\ ClaimsApart(r, q)
    BY DEF SetupInv
  <2>2. CASE q = r
    BY <1>1, <1>2, <2>2 DEF RequestInv, BankInv, HolderInv, ClaimsBank, ClaimsHolder, Holders,
       Moves, RequestIs, CustomerIs, ProvidersUnchanged, NoRow, SetupTypeOK
  <2>3. CASE q # r
    BY <1>1, <1>2, <2>1, <2>3 DEF RequestInv, BankInv, HolderInv, ClaimsApart, ClaimsBank,
       ClaimsHolder, Holders, Moves, RequestIs, CustomerIs, ProvidersUnchanged, SetupTypeOK
  <2> QED BY <2>2, <2>3
<1>6. (\A p, q \in Requests : ClaimsApart(p, q))'
  <2>1. /\ \A p, q \in Requests : ClaimsApart(p, q)
        /\ \A q \in Requests : RequestInv(q)
    BY DEF SetupInv
  <2> QED BY <1>1, <1>2, <2>1 DEF ClaimsApart, RequestInv, ClaimsBank, ClaimsHolder, Moves,
     RequestIs
<1> QED BY <1>3, <1>4, <1>5, <1>6 DEF SetupInv

LEMMA OpenAccountKeeps ==
    ASSUME SetupInv, NEW r \in Requests, OpenAccount(r)
    PROVE  SetupInv'
<1>1. /\ SetupTypeOK /\ BankInv /\ HolderInv /\ ReadyInv /\ RequestInv(r)
      /\ request \in [Requests -> RequestState] /\ request[r] \in RequestState
  BY DEF SetupInv, SetupTypeOK
<1>2. /\ request[r].pc = "openAccount" /\ Moves(r, "accountOpened")
      /\ safeHaven' \in [identities : 0..MaxIdentities, accounts : Nat]
      /\ safeHaven'.accounts = safeHaven.accounts + 1
      /\ UNCHANGED <<customer, kyc, email, cardholders>> /\ NoFault
  BY <1>1, Steps DEF OpenAccount, RequestPcs, SetupTypeOK
<1>3. SetupTypeOK'
  BY <1>1, <1>2, SetupAssumption DEF SetupTypeOK, RequestIs, Moves, NoFault
<1>4. (BankInv /\ HolderInv /\ ReadyInv)'
  BY <1>1, <1>2 DEF BankInv, HolderInv, ReadyInv, RequestInv, ClaimsBank, ClaimsHolder, Holders,
     SetupTypeOK, Rows
<1>5. ASSUME NEW q \in Requests PROVE RequestInv(q)'
  <2>1. RequestInv(q) /\ ClaimsApart(r, q)
    BY DEF SetupInv
  <2>2. CASE q = r
    BY <1>1, <1>2, <2>2 DEF RequestInv, BankInv, HolderInv, ClaimsBank, ClaimsHolder, Holders,
       Moves, RequestIs, SetupTypeOK
  <2>3. CASE q # r
    BY <1>1, <1>2, <2>1, <2>3 DEF RequestInv, BankInv, HolderInv, ClaimsApart, ClaimsBank,
       ClaimsHolder, Holders, Moves, RequestIs, SetupTypeOK
  <2> QED BY <2>2, <2>3
<1>6. (\A p, q \in Requests : ClaimsApart(p, q))'
  <2>1. /\ \A p, q \in Requests : ClaimsApart(p, q)
        /\ \A q \in Requests : RequestInv(q)
    BY DEF SetupInv
  <2> QED BY <1>1, <1>2, <2>1 DEF ClaimsApart, RequestInv, ClaimsBank, ClaimsHolder, Moves,
     RequestIs
<1> QED BY <1>3, <1>4, <1>5, <1>6 DEF SetupInv

LEMMA RefuseAccountKeeps ==
    ASSUME SetupInv, NEW r \in Requests, RefuseAccount(r)
    PROVE  SetupInv'
<1>1. /\ SetupTypeOK /\ BankInv /\ HolderInv /\ ReadyInv /\ RequestInv(r)
      /\ request \in [Requests -> RequestState] /\ request[r] \in RequestState
  BY DEF SetupInv, SetupTypeOK
<1>2. /\ request[r].pc = "openAccount" /\ Moves(r, "bankRefused")
      /\ UNCHANGED <<customer, kyc, email>> /\ ProvidersUnchanged /\ NoFault
  BY <1>1, Steps DEF RefuseAccount, RequestPcs
<1>3. SetupTypeOK'
  BY <1>1, <1>2, SetupAssumption DEF SetupTypeOK, RequestIs, Moves, ProvidersUnchanged, NoFault
<1>4. (BankInv /\ HolderInv /\ ReadyInv)'
  BY <1>1, <1>2 DEF BankInv, HolderInv, ReadyInv, RequestInv, ClaimsBank, ClaimsHolder, Holders,
     ProvidersUnchanged, SetupTypeOK, Rows
<1>5. ASSUME NEW q \in Requests PROVE RequestInv(q)'
  <2>1. RequestInv(q) /\ ClaimsApart(r, q)
    BY DEF SetupInv
  <2>2. CASE q = r
    BY <1>1, <1>2, <2>2 DEF RequestInv, BankInv, HolderInv, ClaimsBank, ClaimsHolder, Holders,
       Moves, RequestIs, ProvidersUnchanged, SetupTypeOK
  <2>3. CASE q # r
    BY <1>1, <1>2, <2>1, <2>3 DEF RequestInv, BankInv, HolderInv, ClaimsApart, ClaimsBank,
       ClaimsHolder, Holders, Moves, RequestIs, ProvidersUnchanged, SetupTypeOK
  <2> QED BY <2>2, <2>3
<1>6. (\A p, q \in Requests : ClaimsApart(p, q))'
  <2>1. /\ \A p, q \in Requests : ClaimsApart(p, q)
        /\ \A q \in Requests : RequestInv(q)
    BY DEF SetupInv
  <2> QED BY <1>1, <1>2, <2>1 DEF ClaimsApart, RequestInv, ClaimsBank, ClaimsHolder, Moves,
     RequestIs
<1> QED BY <1>3, <1>4, <1>5, <1>6 DEF SetupInv

LEMMA RecordAccountKeeps ==
    ASSUME SetupInv, NEW r \in Requests, RecordAccount(r)
    PROVE  SetupInv'
<1>1. /\ SetupTypeOK /\ BankInv /\ HolderInv /\ ReadyInv /\ RequestInv(r)
      /\ request \in [Requests -> RequestState] /\ request[r] \in RequestState
  BY DEF SetupInv, SetupTypeOK
<1>2. /\ request[r].pc = "accountOpened"
      /\ RequestIs(r, "idle", NoRow, FALSE, FALSE)
      /\ CustomerIs("READY", customer.sudo, TRUE, customer.holder,
                 IF request[r].read.holder THEN "READY" ELSE "PENDING")
      /\ kyc' \in 0..MaxIdentities
      /\ UNCHANGED email /\ ProvidersUnchanged /\ NoFault
  BY <1>1, Leaves DEF RecordAccount, Finish, RequestPcs, SetupTypeOK, Rows, Progress, CustomerIs,
     RequestState
<1>3. SetupTypeOK'
  BY <1>1, <1>2, SetupAssumption DEF SetupTypeOK, RequestIs, CustomerIs, ProvidersUnchanged,
     NoFault
<1>4. (BankInv /\ HolderInv /\ ReadyInv)'
  BY <1>1, <1>2 DEF BankInv, HolderInv, ReadyInv, RequestInv, ClaimsBank, ClaimsHolder, Holders,
     CustomerIs, ProvidersUnchanged, SetupTypeOK, Rows
<1>5. ASSUME NEW q \in Requests PROVE RequestInv(q)'
  <2>1. RequestInv(q) /\ ClaimsApart(r, q)
    BY DEF SetupInv
  <2>2. CASE q = r
    BY <1>1, <1>2, <2>2 DEF RequestInv, BankInv, HolderInv, ClaimsBank, ClaimsHolder, Holders,
       RequestIs, CustomerIs, ProvidersUnchanged, NoRow, SetupTypeOK
  <2>3. CASE q # r
    BY <1>1, <1>2, <2>1, <2>3 DEF RequestInv, BankInv, HolderInv, ClaimsApart, ClaimsBank,
       ClaimsHolder, Holders, RequestIs, CustomerIs, ProvidersUnchanged, SetupTypeOK
  <2> QED BY <2>2, <2>3
<1>6. (\A p, q \in Requests : ClaimsApart(p, q))'
  <2>1. /\ \A p, q \in Requests : ClaimsApart(p, q)
        /\ \A q \in Requests : RequestInv(q)
    BY DEF SetupInv
  <2> QED BY <1>1, <1>2, <2>1 DEF ClaimsApart, RequestInv, ClaimsBank, ClaimsHolder, RequestIs
<1> QED BY <1>3, <1>4, <1>5, <1>6 DEF SetupInv

LEMMA BankRefusedKeeps ==
    ASSUME SetupInv, NEW r \in Requests, BankRefused(r)
    PROVE  SetupInv'
<1>1. /\ SetupTypeOK /\ BankInv /\ HolderInv /\ ReadyInv /\ RequestInv(r)
      /\ request \in [Requests -> RequestState] /\ request[r] \in RequestState
  BY DEF SetupInv, SetupTypeOK
<1>2. /\ request[r].pc = "bankRefused"
      /\ RequestIs(r, "idle", NoRow, FALSE, FALSE)
      /\ CustomerIs("PENDING", customer.sudo, customer.account, customer.holder, customer.status)
      /\ UNCHANGED <<kyc, email>> /\ ProvidersUnchanged /\ NoFault
  BY <1>1, Leaves DEF BankRefused, Finish, SetupTypeOK, Rows, Progress, CustomerIs
<1>3. SetupTypeOK'
  BY <1>1, <1>2, SetupAssumption DEF SetupTypeOK, RequestIs, CustomerIs, ProvidersUnchanged,
     NoFault
<1>4. (BankInv /\ HolderInv /\ ReadyInv)'
  BY <1>1, <1>2 DEF BankInv, HolderInv, ReadyInv, RequestInv, ClaimsBank, ClaimsHolder, Holders,
     CustomerIs, ProvidersUnchanged, SetupTypeOK, Rows
<1>5. ASSUME NEW q \in Requests PROVE RequestInv(q)'
  <2>1. RequestInv(q) /\ ClaimsApart(r, q)
    BY DEF SetupInv
  <2>2. CASE q = r
    BY <1>1, <1>2, <2>2 DEF RequestInv, BankInv, HolderInv, ClaimsBank, ClaimsHolder, Holders,
       RequestIs, CustomerIs, ProvidersUnchanged, NoRow, SetupTypeOK
  <2>3. CASE q # r
    BY <1>1, <1>2, <2>1, <2>3 DEF RequestInv, BankInv, HolderInv, ClaimsApart, ClaimsBank,
       ClaimsHolder, Holders, RequestIs, CustomerIs, ProvidersUnchanged, SetupTypeOK
  <2> QED BY <2>2, <2>3
<1>6. (\A p, q \in Requests : ClaimsApart(p, q))'
  <2>1. /\ \A p, q \in Requests : ClaimsApart(p, q)
        /\ \A q \in Requests : RequestInv(q)
    BY DEF SetupInv
  <2> QED BY <1>1, <1>2, <2>1 DEF ClaimsApart, RequestInv, ClaimsBank, ClaimsHolder, RequestIs
<1> QED BY <1>3, <1>4, <1>5, <1>6 DEF SetupInv

LEMMA CardholderKeeps ==
    ASSUME SetupInv, NEW r \in Requests, Cardholder(r)
    PROVE  SetupInv'
<1>1. /\ SetupTypeOK /\ BankInv /\ HolderInv /\ ReadyInv /\ RequestInv(r)
      /\ request \in [Requests -> RequestState] /\ request[r] \in RequestState
  BY DEF SetupInv, SetupTypeOK
<1>2. /\ RequestIs(r, "claimHolder", customer, FALSE, FALSE)
      /\ CustomerIs(customer.bank, customer.sudo, customer.account, customer.holder,
                 customer.status)
      /\ UNCHANGED <<kyc, email>> /\ ProvidersUnchanged /\ NoFault
  BY <1>1, Begins DEF Cardholder, RequestPcs, SetupTypeOK, Rows, Progress, CustomerIs
<1>3. SetupTypeOK'
  BY <1>1, <1>2, SetupAssumption DEF SetupTypeOK, RequestIs, CustomerIs, ProvidersUnchanged,
     NoFault
<1>4. (BankInv /\ HolderInv /\ ReadyInv)'
  BY <1>1, <1>2 DEF BankInv, HolderInv, ReadyInv, RequestInv, ClaimsBank, ClaimsHolder, Holders,
     CustomerIs, ProvidersUnchanged, SetupTypeOK, Rows
<1>5. ASSUME NEW q \in Requests PROVE RequestInv(q)'
  <2>1. RequestInv(q) /\ ClaimsApart(r, q)
    BY DEF SetupInv
  <2>2. CASE q = r
    BY <1>1, <1>2, <2>2 DEF RequestInv, BankInv, HolderInv, ClaimsBank, ClaimsHolder, Holders,
       RequestIs, CustomerIs, ProvidersUnchanged, SetupTypeOK
  <2>3. CASE q # r
    BY <1>1, <1>2, <2>1, <2>3 DEF RequestInv, BankInv, HolderInv, ClaimsApart, ClaimsBank,
       ClaimsHolder, Holders, RequestIs, CustomerIs, ProvidersUnchanged, SetupTypeOK
  <2> QED BY <2>2, <2>3
<1>6. (\A p, q \in Requests : ClaimsApart(p, q))'
  <2>1. /\ \A p, q \in Requests : ClaimsApart(p, q)
        /\ \A q \in Requests : RequestInv(q)
    BY DEF SetupInv
  <2> QED BY <1>1, <1>2, <2>1 DEF ClaimsApart, RequestInv, ClaimsBank, ClaimsHolder, RequestIs
<1> QED BY <1>3, <1>4, <1>5, <1>6 DEF SetupInv

LEMMA ClaimHolderKeeps ==
    ASSUME SetupInv, NEW r \in Requests, ClaimHolder(r)
    PROVE  SetupInv'
<1>1. /\ SetupTypeOK /\ BankInv /\ HolderInv /\ ReadyInv /\ RequestInv(r)
      /\ request \in [Requests -> RequestState] /\ request[r] \in RequestState
  BY DEF SetupInv, SetupTypeOK
<1>2. /\ \/ /\ request[r].pc = "claimHolder" /\ customer.sudo = "PENDING"
            /\ Moves(r, "createHolder")
            /\ CustomerIs(customer.bank, "PROCESSING", customer.account, customer.holder,
                          customer.status)
         \/ RequestIs(r, "idle", NoRow, FALSE, FALSE) /\ UNCHANGED customer
      /\ UNCHANGED <<kyc, email>> /\ ProvidersUnchanged /\ NoFault
  <2>1. CASE customer.sudo = "PENDING"
    <3>1. customer' = [customer EXCEPT !.sudo = "PROCESSING"]
          /\ Step(r, "claimHolder", "createHolder")
      BY <2>1 DEF ClaimHolder
    <3> QED BY <1>1, <2>1, <3>1, Steps DEF ClaimHolder, RequestPcs, SetupTypeOK, Rows, Progress,
       CustomerIs
  <2>2. CASE customer.sudo # "PENDING"
    BY <1>1, <2>2, Leaves DEF ClaimHolder, Finish
  <2> QED BY <2>1, <2>2
<1>3. SetupTypeOK'
  BY <1>1, <1>2, SetupAssumption DEF SetupTypeOK, RequestIs, Moves, CustomerIs, ProvidersUnchanged,
     NoFault
<1>4. (BankInv /\ HolderInv /\ ReadyInv)'
  BY <1>1, <1>2 DEF BankInv, HolderInv, ReadyInv, RequestInv, ClaimsBank, ClaimsHolder, Holders,
     CustomerIs, ProvidersUnchanged, SetupTypeOK, Rows
<1>5. ASSUME NEW q \in Requests PROVE RequestInv(q)'
  <2>1. RequestInv(q) /\ ClaimsApart(r, q)
    BY DEF SetupInv
  <2>2. CASE q = r
    BY <1>1, <1>2, <2>2 DEF RequestInv, BankInv, HolderInv, ClaimsBank, ClaimsHolder, Holders,
       Moves, RequestIs, CustomerIs, ProvidersUnchanged, NoRow, SetupTypeOK
  <2>3. CASE q # r
    BY <1>1, <1>2, <2>1, <2>3 DEF RequestInv, BankInv, HolderInv, ClaimsApart, ClaimsBank,
       ClaimsHolder, Holders, Moves, RequestIs, CustomerIs, ProvidersUnchanged, SetupTypeOK
  <2> QED BY <2>2, <2>3
<1>6. (\A p, q \in Requests : ClaimsApart(p, q))'
  <2>1. /\ \A p, q \in Requests : ClaimsApart(p, q)
        /\ \A q \in Requests : RequestInv(q)
    BY DEF SetupInv
  <2> QED BY <1>1, <1>2, <2>1 DEF ClaimsApart, RequestInv, ClaimsBank, ClaimsHolder, Moves,
     RequestIs
<1> QED BY <1>3, <1>4, <1>5, <1>6 DEF SetupInv

LEMMA CreateHolderKeeps ==
    ASSUME SetupInv, NEW r \in Requests, CreateHolder(r)
    PROVE  SetupInv'
<1>1. /\ SetupTypeOK /\ BankInv /\ HolderInv /\ ReadyInv /\ RequestInv(r)
      /\ request \in [Requests -> RequestState] /\ request[r] \in RequestState
  BY DEF SetupInv, SetupTypeOK
<1>2. /\ request[r].pc = "createHolder" /\ Moves(r, "holderCreated")
      /\ cardholders' \in [0..1 -> Nat]
      /\ Holders' = Holders + 1
      /\ UNCHANGED <<customer, kyc, email, safeHaven>> /\ NoFault
  <2>1. request[r].pc = "createHolder" /\ Moves(r, "holderCreated")
    BY Steps DEF CreateHolder, RequestPcs
  <2>2. request[r].email \in 0..1 /\ cardholders \in [0..1 -> Nat]
    BY <1>1 DEF SetupTypeOK, RequestState
  <2>3. cardholders' \in [0..1 -> Nat]
    BY <2>2 DEF CreateHolder
  <2>4. Holders' = Holders + 1
    <3>1. CASE request[r].email = 0
      BY <2>2, <3>1 DEF CreateHolder, Holders
    <3>2. CASE request[r].email = 1
      BY <2>2, <3>2 DEF CreateHolder, Holders
    <3> QED BY <2>2, <3>1, <3>2
  <2> QED BY <2>1, <2>3, <2>4 DEF CreateHolder
<1>3. SetupTypeOK'
  BY <1>1, <1>2, SetupAssumption DEF SetupTypeOK, RequestIs, Moves, NoFault
<1>4. (BankInv /\ HolderInv /\ ReadyInv)'
  BY <1>1, <1>2 DEF BankInv, HolderInv, ReadyInv, RequestInv, ClaimsBank, ClaimsHolder, Holders,
     SetupTypeOK, Rows
<1>5. ASSUME NEW q \in Requests PROVE RequestInv(q)'
  <2>1. RequestInv(q) /\ ClaimsApart(r, q)
    BY DEF SetupInv
  <2>2. CASE q = r
    BY <1>1, <1>2, <2>2 DEF RequestInv, BankInv, HolderInv, ClaimsBank, ClaimsHolder, Holders,
       Moves, RequestIs, SetupTypeOK
  <2>3. CASE q # r
    BY <1>1, <1>2, <2>1, <2>3 DEF RequestInv, BankInv, HolderInv, ClaimsApart, ClaimsBank,
       ClaimsHolder, Holders, Moves, RequestIs, SetupTypeOK
  <2> QED BY <2>2, <2>3
<1>6. (\A p, q \in Requests : ClaimsApart(p, q))'
  <2>1. /\ \A p, q \in Requests : ClaimsApart(p, q)
        /\ \A q \in Requests : RequestInv(q)
    BY DEF SetupInv
  <2> QED BY <1>1, <1>2, <2>1 DEF ClaimsApart, RequestInv, ClaimsBank, ClaimsHolder, Moves,
     RequestIs
<1> QED BY <1>3, <1>4, <1>5, <1>6 DEF SetupInv

LEMMA RefuseHolderKeeps ==
    ASSUME SetupInv, NEW r \in Requests, RefuseHolder(r)
    PROVE  SetupInv'
<1>1. /\ SetupTypeOK /\ BankInv /\ HolderInv /\ ReadyInv /\ RequestInv(r)
      /\ request \in [Requests -> RequestState] /\ request[r] \in RequestState
  BY DEF SetupInv, SetupTypeOK
<1>2. /\ request[r].pc = "createHolder" /\ Moves(r, "holderRefused")
      /\ UNCHANGED <<customer, kyc, email>> /\ ProvidersUnchanged /\ NoFault
  BY <1>1, Steps DEF RefuseHolder, RequestPcs
<1>3. SetupTypeOK'
  BY <1>1, <1>2, SetupAssumption DEF SetupTypeOK, RequestIs, Moves, ProvidersUnchanged, NoFault
<1>4. (BankInv /\ HolderInv /\ ReadyInv)'
  BY <1>1, <1>2 DEF BankInv, HolderInv, ReadyInv, RequestInv, ClaimsBank, ClaimsHolder, Holders,
     ProvidersUnchanged, SetupTypeOK, Rows
<1>5. ASSUME NEW q \in Requests PROVE RequestInv(q)'
  <2>1. RequestInv(q) /\ ClaimsApart(r, q)
    BY DEF SetupInv
  <2>2. CASE q = r
    BY <1>1, <1>2, <2>2 DEF RequestInv, BankInv, HolderInv, ClaimsBank, ClaimsHolder, Holders,
       Moves, RequestIs, ProvidersUnchanged, SetupTypeOK
  <2>3. CASE q # r
    BY <1>1, <1>2, <2>1, <2>3 DEF RequestInv, BankInv, HolderInv, ClaimsApart, ClaimsBank,
       ClaimsHolder, Holders, Moves, RequestIs, ProvidersUnchanged, SetupTypeOK
  <2> QED BY <2>2, <2>3
<1>6. (\A p, q \in Requests : ClaimsApart(p, q))'
  <2>1. /\ \A p, q \in Requests : ClaimsApart(p, q)
        /\ \A q \in Requests : RequestInv(q)
    BY DEF SetupInv
  <2> QED BY <1>1, <1>2, <2>1 DEF ClaimsApart, RequestInv, ClaimsBank, ClaimsHolder, Moves,
     RequestIs
<1> QED BY <1>3, <1>4, <1>5, <1>6 DEF SetupInv

LEMMA RecordHolderKeeps ==
    ASSUME SetupInv, NEW r \in Requests, RecordHolder(r)
    PROVE  SetupInv'
<1>1. /\ SetupTypeOK /\ BankInv /\ HolderInv /\ ReadyInv /\ RequestInv(r)
      /\ request \in [Requests -> RequestState] /\ request[r] \in RequestState
  BY DEF SetupInv, SetupTypeOK
<1>2. /\ request[r].pc = "holderCreated"
      /\ RequestIs(r, "idle", NoRow, FALSE, FALSE)
      /\ CustomerIs(customer.bank, "READY", customer.account, TRUE,
                 IF request[r].read.account THEN "READY" ELSE "PENDING")
      /\ UNCHANGED <<kyc, email>> /\ ProvidersUnchanged /\ NoFault
  BY <1>1, Leaves DEF RecordHolder, Finish, SetupTypeOK, Rows, Progress, CustomerIs
<1>3. SetupTypeOK'
  BY <1>1, <1>2, SetupAssumption DEF SetupTypeOK, RequestIs, CustomerIs, ProvidersUnchanged,
     NoFault
<1>4. (BankInv /\ HolderInv /\ ReadyInv)'
  BY <1>1, <1>2 DEF BankInv, HolderInv, ReadyInv, RequestInv, ClaimsBank, ClaimsHolder, Holders,
     CustomerIs, ProvidersUnchanged, SetupTypeOK, Rows
<1>5. ASSUME NEW q \in Requests PROVE RequestInv(q)'
  <2>1. RequestInv(q) /\ ClaimsApart(r, q)
    BY DEF SetupInv
  <2>2. CASE q = r
    BY <1>1, <1>2, <2>2 DEF RequestInv, BankInv, HolderInv, ClaimsBank, ClaimsHolder, Holders,
       RequestIs, CustomerIs, ProvidersUnchanged, NoRow, SetupTypeOK
  <2>3. CASE q # r
    BY <1>1, <1>2, <2>1, <2>3 DEF RequestInv, BankInv, HolderInv, ClaimsApart, ClaimsBank,
       ClaimsHolder, Holders, RequestIs, CustomerIs, ProvidersUnchanged, SetupTypeOK
  <2> QED BY <2>2, <2>3
<1>6. (\A p, q \in Requests : ClaimsApart(p, q))'
  <2>1. /\ \A p, q \in Requests : ClaimsApart(p, q)
        /\ \A q \in Requests : RequestInv(q)
    BY DEF SetupInv
  <2> QED BY <1>1, <1>2, <2>1 DEF ClaimsApart, RequestInv, ClaimsBank, ClaimsHolder, RequestIs
<1> QED BY <1>3, <1>4, <1>5, <1>6 DEF SetupInv

LEMMA HolderRefusedKeeps ==
    ASSUME SetupInv, NEW r \in Requests, HolderRefused(r)
    PROVE  SetupInv'
<1>1. /\ SetupTypeOK /\ BankInv /\ HolderInv /\ ReadyInv /\ RequestInv(r)
      /\ request \in [Requests -> RequestState] /\ request[r] \in RequestState
  BY DEF SetupInv, SetupTypeOK
<1>2. /\ request[r].pc = "holderRefused"
      /\ RequestIs(r, "idle", NoRow, FALSE, FALSE)
      /\ CustomerIs(customer.bank, "PENDING", customer.account, customer.holder, customer.status)
      /\ UNCHANGED <<kyc, email>> /\ ProvidersUnchanged /\ NoFault
  BY <1>1, Leaves DEF HolderRefused, Finish, SetupTypeOK, Rows, Progress, CustomerIs
<1>3. SetupTypeOK'
  BY <1>1, <1>2, SetupAssumption DEF SetupTypeOK, RequestIs, CustomerIs, ProvidersUnchanged,
     NoFault
<1>4. (BankInv /\ HolderInv /\ ReadyInv)'
  BY <1>1, <1>2 DEF BankInv, HolderInv, ReadyInv, RequestInv, ClaimsBank, ClaimsHolder, Holders,
     CustomerIs, ProvidersUnchanged, SetupTypeOK, Rows
<1>5. ASSUME NEW q \in Requests PROVE RequestInv(q)'
  <2>1. RequestInv(q) /\ ClaimsApart(r, q)
    BY DEF SetupInv
  <2>2. CASE q = r
    BY <1>1, <1>2, <2>2 DEF RequestInv, BankInv, HolderInv, ClaimsBank, ClaimsHolder, Holders,
       RequestIs, CustomerIs, ProvidersUnchanged, NoRow, SetupTypeOK
  <2>3. CASE q # r
    BY <1>1, <1>2, <2>1, <2>3 DEF RequestInv, BankInv, HolderInv, ClaimsApart, ClaimsBank,
       ClaimsHolder, Holders, RequestIs, CustomerIs, ProvidersUnchanged, SetupTypeOK
  <2> QED BY <2>2, <2>3
<1>6. (\A p, q \in Requests : ClaimsApart(p, q))'
  <2>1. /\ \A p, q \in Requests : ClaimsApart(p, q)
        /\ \A q \in Requests : RequestInv(q)
    BY DEF SetupInv
  <2> QED BY <1>1, <1>2, <2>1 DEF ClaimsApart, RequestInv, ClaimsBank, ClaimsHolder, RequestIs
<1> QED BY <1>3, <1>4, <1>5, <1>6 DEF SetupInv

LEMMA ReconcileKeeps ==
    ASSUME SetupInv, NEW r \in Requests, Reconcile(r)
    PROVE  SetupInv'
<1>1. /\ SetupTypeOK /\ BankInv /\ HolderInv /\ ReadyInv /\ RequestInv(r)
      /\ request \in [Requests -> RequestState] /\ request[r] \in RequestState
  BY DEF SetupInv, SetupTypeOK
<1>2. /\ RequestIs(r, "listHolders", customer, FALSE, FALSE)
      /\ UNCHANGED <<customer, kyc, email>> /\ ProvidersUnchanged /\ NoFault
  BY <1>1, Begins DEF Reconcile, RequestPcs
<1>3. SetupTypeOK'
  BY <1>1, <1>2, SetupAssumption DEF SetupTypeOK, RequestIs, ProvidersUnchanged, NoFault
<1>4. (BankInv /\ HolderInv /\ ReadyInv)'
  BY <1>1, <1>2 DEF BankInv, HolderInv, ReadyInv, RequestInv, ClaimsBank, ClaimsHolder, Holders,
     ProvidersUnchanged, SetupTypeOK, Rows
<1>5. ASSUME NEW q \in Requests PROVE RequestInv(q)'
  <2>1. RequestInv(q) /\ ClaimsApart(r, q)
    BY DEF SetupInv
  <2>2. CASE q = r
    BY <1>1, <1>2, <2>2 DEF RequestInv, BankInv, HolderInv, ClaimsBank, ClaimsHolder, Holders,
       RequestIs, ProvidersUnchanged, SetupTypeOK
  <2>3. CASE q # r
    BY <1>1, <1>2, <2>1, <2>3 DEF RequestInv, BankInv, HolderInv, ClaimsApart, ClaimsBank,
       ClaimsHolder, Holders, RequestIs, ProvidersUnchanged, SetupTypeOK
  <2> QED BY <2>2, <2>3
<1>6. (\A p, q \in Requests : ClaimsApart(p, q))'
  <2>1. /\ \A p, q \in Requests : ClaimsApart(p, q)
        /\ \A q \in Requests : RequestInv(q)
    BY DEF SetupInv
  <2> QED BY <1>1, <1>2, <2>1 DEF ClaimsApart, RequestInv, ClaimsBank, ClaimsHolder, RequestIs
<1> QED BY <1>3, <1>4, <1>5, <1>6 DEF SetupInv

LEMMA ListHoldersKeeps ==
    ASSUME SetupInv, NEW r \in Requests, ListHolders(r)
    PROVE  SetupInv'
<1>1. /\ SetupTypeOK /\ BankInv /\ HolderInv /\ ReadyInv /\ RequestInv(r)
      /\ request \in [Requests -> RequestState] /\ request[r] \in RequestState
  BY DEF SetupInv, SetupTypeOK
<1>2. /\ request[r].pc = "listHolders"
      /\ RequestIs(r, "listAccounts", request[r].read, request[r].foundAccount,
                request'[r].foundHolder)
      /\ request'[r].foundHolder => \E e \in 0..1 : cardholders[e] = 1
      /\ UNCHANGED <<customer, kyc, email>> /\ ProvidersUnchanged /\ NoFault
  BY <1>1 DEF ListHolders, RequestPcs, SetupTypeOK, RequestState, RequestIs
<1>3. SetupTypeOK'
  BY <1>1, <1>2, SetupAssumption DEF SetupTypeOK, RequestIs, ProvidersUnchanged, NoFault
<1>4. (BankInv /\ HolderInv /\ ReadyInv)'
  BY <1>1, <1>2 DEF BankInv, HolderInv, ReadyInv, RequestInv, ClaimsBank, ClaimsHolder, Holders,
     ProvidersUnchanged, SetupTypeOK, Rows
<1>5. ASSUME NEW q \in Requests PROVE RequestInv(q)'
  <2>1. RequestInv(q) /\ ClaimsApart(r, q)
    BY DEF SetupInv
  <2>2. CASE q = r
    BY <1>1, <1>2, <2>2 DEF RequestInv, BankInv, HolderInv, ClaimsBank, ClaimsHolder, Holders,
       RequestIs, ProvidersUnchanged, SetupTypeOK
  <2>3. CASE q # r
    BY <1>1, <1>2, <2>1, <2>3 DEF RequestInv, BankInv, HolderInv, ClaimsApart, ClaimsBank,
       ClaimsHolder, Holders, RequestIs, ProvidersUnchanged, SetupTypeOK
  <2> QED BY <2>2, <2>3
<1>6. (\A p, q \in Requests : ClaimsApart(p, q))'
  <2>1. /\ \A p, q \in Requests : ClaimsApart(p, q)
        /\ \A q \in Requests : RequestInv(q)
    BY DEF SetupInv
  <2> QED BY <1>1, <1>2, <2>1 DEF ClaimsApart, RequestInv, ClaimsBank, ClaimsHolder, RequestIs
<1> QED BY <1>3, <1>4, <1>5, <1>6 DEF SetupInv

LEMMA ListAccountsKeeps ==
    ASSUME SetupInv, NEW r \in Requests, ListAccounts(r)
    PROVE  SetupInv'
<1>1. /\ SetupTypeOK /\ BankInv /\ HolderInv /\ ReadyInv /\ RequestInv(r)
      /\ request \in [Requests -> RequestState] /\ request[r] \in RequestState
  BY DEF SetupInv, SetupTypeOK
<1>2. /\ request[r].pc = "listAccounts"
      /\ RequestIs(r, "reconcile", request[r].read, request'[r].foundAccount,
                request[r].foundHolder)
      /\ request'[r].foundAccount => safeHaven.accounts = 1
      /\ UNCHANGED <<customer, kyc, email>> /\ ProvidersUnchanged /\ NoFault
  BY <1>1 DEF ListAccounts, RequestPcs, SetupTypeOK, RequestState, RequestIs
<1>3. SetupTypeOK'
  BY <1>1, <1>2, SetupAssumption DEF SetupTypeOK, RequestIs, ProvidersUnchanged, NoFault
<1>4. (BankInv /\ HolderInv /\ ReadyInv)'
  BY <1>1, <1>2 DEF BankInv, HolderInv, ReadyInv, RequestInv, ClaimsBank, ClaimsHolder, Holders,
     ProvidersUnchanged, SetupTypeOK, Rows
<1>5. ASSUME NEW q \in Requests PROVE RequestInv(q)'
  <2>1. RequestInv(q) /\ ClaimsApart(r, q)
    BY DEF SetupInv
  <2>2. CASE q = r
    BY <1>1, <1>2, <2>2 DEF RequestInv, BankInv, HolderInv, ClaimsBank, ClaimsHolder, Holders,
       RequestIs, ProvidersUnchanged, SetupTypeOK
  <2>3. CASE q # r
    BY <1>1, <1>2, <2>1, <2>3 DEF RequestInv, BankInv, HolderInv, ClaimsApart, ClaimsBank,
       ClaimsHolder, Holders, RequestIs, ProvidersUnchanged, SetupTypeOK
  <2> QED BY <2>2, <2>3
<1>6. (\A p, q \in Requests : ClaimsApart(p, q))'
  <2>1. /\ \A p, q \in Requests : ClaimsApart(p, q)
        /\ \A q \in Requests : RequestInv(q)
    BY DEF SetupInv
  <2> QED BY <1>1, <1>2, <2>1 DEF ClaimsApart, RequestInv, ClaimsBank, ClaimsHolder, RequestIs
<1> QED BY <1>3, <1>4, <1>5, <1>6 DEF SetupInv

LEMMA RecordReconciliationKeeps ==
    ASSUME SetupInv, NEW r \in Requests, RecordReconciliation(r)
    PROVE  SetupInv'
<1>1. /\ SetupTypeOK /\ BankInv /\ HolderInv /\ ReadyInv /\ RequestInv(r)
      /\ request \in [Requests -> RequestState] /\ request[r] \in RequestState
  BY DEF SetupInv, SetupTypeOK
<1>2. /\ RequestIs(r, "idle", NoRow, FALSE, FALSE)
      /\ CustomerIs(IF request[r].foundAccount THEN "READY" ELSE customer.bank,
                 IF request[r].foundHolder THEN "READY" ELSE customer.sudo,
                 IF request[r].foundAccount THEN TRUE ELSE customer.account,
                 IF request[r].foundHolder THEN TRUE ELSE customer.holder,
                 IF /\ request[r].read.holder \/ request[r].foundHolder
                    /\ request[r].read.account \/ request[r].foundAccount
                 THEN "READY" ELSE "PENDING")
      /\ UNCHANGED <<kyc, email>> /\ ProvidersUnchanged /\ NoFault
  <2>1. customer' \in Rows
    <3> DEFINE status == IF /\ request[r].read.holder \/ request[r].foundHolder
                            /\ request[r].read.account \/ request[r].foundAccount
                         THEN "READY" ELSE "PENDING"
    <3> HIDE DEF status
    <3>1. status \in {"PENDING", "READY"}
      BY DEF status
    <3>2. customer' = [customer EXCEPT
             !.holder = IF request[r].foundHolder THEN TRUE ELSE @,
             !.sudo = IF request[r].foundHolder THEN "READY" ELSE @,
             !.account = IF request[r].foundAccount THEN TRUE ELSE @,
             !.bank = IF request[r].foundAccount THEN "READY" ELSE @, !.status = status]
      BY DEF RecordReconciliation, status
    <3>3. CASE request[r].foundHolder
      BY <1>1, <3>1, <3>2, <3>3 DEF SetupTypeOK, Rows, Progress
    <3>4. CASE ~request[r].foundHolder
      BY <1>1, <3>1, <3>2, <3>4 DEF SetupTypeOK, Rows, Progress
    <3> QED BY <3>3, <3>4
  <2> QED BY ZenonT(30), <1>1, <2>1, Leaves DEF RecordReconciliation, Finish, SetupTypeOK, Rows, CustomerIs,
     RequestState
<1>3. SetupTypeOK'
  BY <1>1, <1>2, SetupAssumption DEF SetupTypeOK, RequestIs, CustomerIs, ProvidersUnchanged,
     NoFault
<1>4. (BankInv /\ HolderInv /\ ReadyInv)'
  BY <1>1, <1>2 DEF BankInv, HolderInv, ReadyInv, RequestInv, ClaimsBank, ClaimsHolder, Holders,
     CustomerIs, ProvidersUnchanged, SetupTypeOK, Rows
<1>5. ASSUME NEW q \in Requests PROVE RequestInv(q)'
  <2>1. RequestInv(q) /\ ClaimsApart(r, q)
    BY DEF SetupInv
  <2>2. CASE q = r
    BY <1>1, <1>2, <2>2 DEF RequestInv, BankInv, HolderInv, ClaimsBank, ClaimsHolder, Holders,
       RequestIs, CustomerIs, ProvidersUnchanged, NoRow, SetupTypeOK
  <2>3. CASE q # r
    BY <1>1, <1>2, <2>1, <2>3 DEF RequestInv, BankInv, HolderInv, ClaimsApart, ClaimsBank,
       ClaimsHolder, Holders, RequestIs, CustomerIs, ProvidersUnchanged, SetupTypeOK
  <2> QED BY <2>2, <2>3
<1>6. (\A p, q \in Requests : ClaimsApart(p, q))'
  <2>1. /\ \A p, q \in Requests : ClaimsApart(p, q)
        /\ \A q \in Requests : RequestInv(q)
    BY DEF SetupInv
  <2> QED BY <1>1, <1>2, <2>1 DEF ClaimsApart, RequestInv, ClaimsBank, ClaimsHolder, RequestIs
<1> QED BY <1>3, <1>4, <1>5, <1>6 DEF SetupInv

LEMMA StopKeeps ==
    ASSUME SetupInv, NEW r \in Requests, Stop(r)
    PROVE  SetupInv'
<1>1. /\ SetupTypeOK /\ BankInv /\ HolderInv /\ ReadyInv /\ RequestInv(r)
      /\ request \in [Requests -> RequestState] /\ request[r] \in RequestState
  BY DEF SetupInv, SetupTypeOK
<1>2. /\ RequestIs(r, "idle", NoRow, FALSE, FALSE)
      /\ UNCHANGED <<customer, kyc, email>> /\ ProvidersUnchanged /\ Fault
  BY <1>1, Leaves DEF Stop
<1>3. SetupTypeOK'
  BY <1>1, <1>2, SetupAssumption DEF SetupTypeOK, RequestIs, ProvidersUnchanged, Fault
<1>4. (BankInv /\ HolderInv /\ ReadyInv)'
  BY <1>1, <1>2 DEF BankInv, HolderInv, ReadyInv, RequestInv, ClaimsBank, ClaimsHolder, Holders,
     ProvidersUnchanged, SetupTypeOK, Rows
<1>5. ASSUME NEW q \in Requests PROVE RequestInv(q)'
  <2>1. RequestInv(q) /\ ClaimsApart(r, q)
    BY DEF SetupInv
  <2>2. CASE q = r
    BY <1>1, <1>2, <2>2 DEF RequestInv, BankInv, HolderInv, ClaimsBank, ClaimsHolder, Holders,
       RequestIs, ProvidersUnchanged, NoRow, SetupTypeOK
  <2>3. CASE q # r
    BY <1>1, <1>2, <2>1, <2>3 DEF RequestInv, BankInv, HolderInv, ClaimsApart, ClaimsBank,
       ClaimsHolder, Holders, RequestIs, ProvidersUnchanged, SetupTypeOK
  <2> QED BY <2>2, <2>3
<1>6. (\A p, q \in Requests : ClaimsApart(p, q))'
  <2>1. /\ \A p, q \in Requests : ClaimsApart(p, q)
        /\ \A q \in Requests : RequestInv(q)
    BY DEF SetupInv
  <2> QED BY <1>1, <1>2, <2>1 DEF ClaimsApart, RequestInv, ClaimsBank, ClaimsHolder, RequestIs
<1> QED BY <1>3, <1>4, <1>5, <1>6 DEF SetupInv

LEMMA ChangeEmailKeeps == SetupInv /\ ChangeEmail => SetupInv'
  BY DEF ChangeEmail, SetupInv, SetupTypeOK, BankInv, HolderInv, ReadyInv, RequestInv, ClaimsApart,
     ClaimsBank, ClaimsHolder, Holders, NoFault, ProvidersUnchanged

LEMMA SetupStays == SetupInv /\ UNCHANGED setupVars => SetupInv'
  BY DEF setupVars, SetupInv, SetupTypeOK, BankInv, HolderInv, ReadyInv, RequestInv, ClaimsApart,
     ClaimsBank, ClaimsHolder, Holders

LEMMA RequestStepKeeps ==
    ASSUME SetupInv, NEW r \in Requests, RequestStep(r)
    PROVE  SetupInv'
  BY InitiateKeeps, StoreIdentityKeeps, IdentityFailsKeeps, CompleteBankKeeps, ClaimBankKeeps,
     OpenAccountKeeps, RefuseAccountKeeps, RecordAccountKeeps, BankRefusedKeeps, CardholderKeeps,
     ClaimHolderKeeps, CreateHolderKeeps, RefuseHolderKeeps, RecordHolderKeeps, HolderRefusedKeeps,
     ReconcileKeeps, ListHoldersKeeps, ListAccountsKeeps, RecordReconciliationKeeps, StopKeeps DEF
     RequestStep

\* FinanceIdentityService and FinanceReconciliationService.customer never repeat a provisioning
\* POST: whatever requests overlap, whatever is lost, one subaccount and one cardholder.
THEOREM ProvisioningHappensOnce == SetupSpec => []ProvisionedOnce
<1>1. SetupInv /\ [SetupNext]_setupVars => SetupInv'
  BY RequestStepKeeps, ChangeEmailKeeps, SetupStays DEF SetupNext
<1>2. SetupInv => ProvisionedOnce
  BY DEF SetupInv, SetupTypeOK, BankInv, HolderInv, ReadyInv, Holders, ProvisionedOnce, Rows
<1> QED BY <1>1, <1>2, SetupStarts, PTL DEF SetupSpec

\* Type correctness of the customer's setup: its row, its requests and what the providers have.
THEOREM SetupTypes == SetupSpec => []SetupTypeOK
<1>1. SetupInv /\ [SetupNext]_setupVars => SetupInv'
  BY RequestStepKeeps, ChangeEmailKeeps, SetupStays DEF SetupNext
<1>2. SetupInv => SetupTypeOK
  BY DEF SetupInv
<1> QED BY <1>1, <1>2, SetupStarts, PTL DEF SetupSpec

(***************************************************************************)
(* Billing: a month is paid once, and the renewal job has a mandate.  The  *)
(* argument: a paid month leaves the plan ending after it, and the job     *)
(* charges only for an end that has passed.                                *)
(***************************************************************************)
Paid == {o \in Orders : order[o] = "SUCCESS"}
Mandate == \E o \in PremiumOrders : order[o] = "SUCCESS"

RevenueInv ==
    /\ account.revenue = Price * Cardinality(Paid)
    /\ aiCredits.purchased = PackCredits * Cardinality(Paid \cap CreditOrders)

MonthInv ==
    /\ \A m \in 0..Months : charged[m] <= 1 /\ (charged[m] > 0 => m <= month)
    /\ charged[month] > 0 => plan.premium /\ plan.expires = month + 1

\* A renewal order was made for a user who had paid before.
MandateInv == \A o \in RenewalOrders : order[o] # "none" => Mandate

DueInv(j) ==
    /\ renewal[j].pc # "idle" => renewal[j].due \in 0..Months /\ renewal[j].due <= month
    /\ renewal[j].pc = "settle" => Mandate

BillingInv ==
    /\ BillingTypeOK /\ RevenueInv /\ MonthInv /\ MandateInv
    /\ \A j \in Replicas : DueInv(j)

LEMMA BillingNumbers ==
    /\ Months \in Nat /\ Price \in Nat /\ Price > 0 /\ PlanCredits \in Nat /\ PackCredits \in Nat
    /\ Funds \in Nat /\ TopUps \in Nat
  BY BillingAssumption

\* There are finitely many orders, so what was paid can be counted.
LEMMA PaidIsFinite ==
    /\ IsFiniteSet(Paid) /\ Cardinality(Paid) \in Nat
    /\ IsFiniteSet(Paid \cap CreditOrders) /\ Cardinality(Paid \cap CreditOrders) \in Nat
<1>1. IsFiniteSet(0..Months)
  BY FS_Interval, BillingNumbers
<1>2. IsFiniteSet(RenewalOrders)
  <2>1. IsFiniteSet({"renewal"})
    BY FS_Singleton
  <2> QED BY <1>1, <2>1, FS_Product DEF RenewalOrders
<1>3. IsFiniteSet(Orders)
  BY <1>2, FS_Union, BillingAssumption DEF Orders
<1>4. IsFiniteSet(Paid) /\ IsFiniteSet(Paid \cap CreditOrders)
  BY <1>3, FS_Subset DEF Paid
<1> QED BY <1>4, FS_CardinalityType

LEMMA BillingStarts == BillingInit => BillingInv
<1> SUFFICES ASSUME BillingInit PROVE BillingInv
  OBVIOUS
<1>1. BillingTypeOK
  <2>1. plan \in PlanRow
    <3>1. 1 \in Expiries /\ NoExpiry \in Expiries
      BY BillingNumbers DEF Expiries
    <3>2. plan \in [premium : {FALSE, TRUE}, expires : {NoExpiry, 1}, cancel : {FALSE}]
      BY DEF BillingInit
    <3> QED BY <3>1, <3>2 DEF PlanRow
  <2>2. renewal \in [Replicas -> RenewalState]
    BY DEF BillingInit, RenewalState, IdleRenewal
  <2>3. aiCredits \in CreditsRow
    BY DEF BillingInit, CreditsRow, Expiries
  <2> QED BY <2>1, <2>2, <2>3, BillingNumbers DEF BillingInit, BillingTypeOK
<1>2. Paid = {} /\ Paid \cap CreditOrders = {}
  BY DEF BillingInit, Paid
<1>3. RevenueInv
  BY <1>2, FS_EmptySet, BillingNumbers DEF BillingInit, RevenueInv
<1>4. MonthInv /\ MandateInv /\ \A j \in Replicas : DueInv(j)
  BY BillingNumbers DEF BillingInit, MonthInv, MandateInv, DueInv, IdleRenewal, Orders
<1> QED BY <1>1, <1>3, <1>4 DEF BillingInv

\* The settlement of an order with or without a charge, as the user or the job asks for it.
LEMMA SettlementKeeps ==
    ASSUME BillingInv, NEW o \in Orders, NEW due, SettleOrder(o, due), UNCHANGED month,
           due # NoExpiry => due \in 0..Months /\ due <= month
    PROVE  /\ plan' \in PlanRow /\ aiCredits' \in CreditsRow
           /\ order' \in [Orders -> {"none", "PENDING", "SUCCESS", "FAIL", "CANCELLED"}]
           /\ account' \in [wallet : Nat, revenue : Nat] /\ charged' \in [0..Months -> Nat]
           /\ RevenueInv' /\ MonthInv' /\ MandateInv' /\ (Mandate => Mandate')
           /\ account'.revenue > account.revenue =>
                ~Stale(due) /\ (due # NoExpiry => plan.expires = due /\ ~plan.cancel)
<1>1. /\ BillingTypeOK /\ RevenueInv /\ MonthInv /\ MandateInv
      /\ plan \in PlanRow /\ aiCredits \in CreditsRow /\ month \in 0..Months
      /\ order \in [Orders -> {"none", "PENDING", "SUCCESS", "FAIL", "CANCELLED"}]
      /\ account \in [wallet : Nat, revenue : Nat] /\ charged \in [0..Months -> Nat]
  BY DEF BillingInv, BillingTypeOK
<1>2. order[o] = "PENDING"
  BY DEF SettleOrder
<1>3. ASSUME NEW status \in {"FAIL", "CANCELLED"}, SetOrder(o, status), NoCharge
      PROVE  /\ order' \in [Orders -> {"none", "PENDING", "SUCCESS", "FAIL", "CANCELLED"}]
             /\ UNCHANGED <<aiCredits, account, charged>>
             /\ RevenueInv' /\ MandateInv' /\ (Mandate => Mandate')
  <2>1. order' = [order EXCEPT ![o] = status] /\ UNCHANGED <<aiCredits, account, charged>>
    BY <1>3 DEF SetOrder, NoCharge
  <2>2. Paid' = Paid /\ (Mandate => Mandate')
    BY <1>1, <1>2, <2>1 DEF Paid, Mandate, Orders
  <2>3. MandateInv'
    BY <1>1, <1>2, <2>1, <2>2 DEF MandateInv, Orders
  <2> QED BY <1>1, <2>1, <2>2, <2>3 DEF RevenueInv
<1>4. CASE Stale(due) /\ SetOrder(o, "CANCELLED") /\ NoCharge /\ UNCHANGED plan
  BY <1>1, <1>3, <1>4 DEF MonthInv
<1>5. CASE /\ plan' = [plan EXCEPT !.cancel = @ \/ due # NoExpiry]
           /\ SetOrder(o, "FAIL") /\ NoCharge
  <2>1. /\ plan' \in PlanRow /\ plan'.premium = plan.premium /\ plan'.expires = plan.expires
    BY <1>1, <1>5 DEF PlanRow
  <2>2. MonthInv'
    BY <1>1, <1>3, <1>5, <2>1 DEF MonthInv
  <2> QED BY <1>1, <1>3, <1>5, <2>1, <2>2
<1>6. CASE /\ ~Stale(due) /\ (due = NoExpiry => ~(IsPremium(o) /\ Active))
           /\ account.wallet >= Price /\ Pay(o)
  <2>1. order' = [order EXCEPT ![o] = "SUCCESS"]
    BY <1>6 DEF Pay, SetOrder
  <2>2. Paid' = Paid \cup {o} /\ o \notin Paid
    BY <1>1, <1>2, <2>1 DEF Paid
  <2>3. Cardinality(Paid') = Cardinality(Paid) + 1
    BY <2>2, PaidIsFinite, FS_AddElement
  <2>4. account' \in [wallet : Nat, revenue : Nat] /\ account'.revenue = account.revenue + Price
    BY SMTT(30), <1>1, <1>6, BillingNumbers DEF Pay
  <2>5. aiCredits' \in CreditsRow
    <3>1. month + 1 \in Expiries
      BY <1>1, BillingNumbers DEF Expiries
    <3>2. CASE IsPremium(o)
      BY <1>1, <1>6, <3>1, <3>2 DEF Pay, Granted, CreditsRow
    <3>3. CASE ~IsPremium(o)
      BY SMTT(30), <1>1, <1>6, <3>3, BillingNumbers DEF Pay, Granted, CreditsRow
    <3> QED BY <3>2, <3>3
  <2>6. account'.revenue = Price * Cardinality(Paid')
    BY <1>1, <2>3, <2>4, PaidIsFinite, BillingNumbers DEF RevenueInv
  <2>7. aiCredits'.purchased = PackCredits * Cardinality((Paid \cap CreditOrders)')
    <3>1. CASE o \in CreditOrders
      <4>1. (Paid \cap CreditOrders)' = (Paid \cap CreditOrders) \cup {o}
        BY <2>2, <3>1
      <4>2. Cardinality((Paid \cap CreditOrders)') = Cardinality(Paid \cap CreditOrders) + 1
        BY <2>2, <4>1, PaidIsFinite, FS_AddElement
      <4>3. aiCredits'.purchased = aiCredits.purchased + PackCredits
        BY <1>1, <1>6, <3>1 DEF Pay, Granted, IsPremium, CreditsRow
      <4> QED BY <1>1, <4>2, <4>3, PaidIsFinite, BillingNumbers DEF RevenueInv
    <3>2. CASE o \notin CreditOrders
      <4>1. (Paid \cap CreditOrders)' = Paid \cap CreditOrders
        BY <2>2, <3>2
      <4>2. aiCredits'.purchased = aiCredits.purchased
        BY <1>1, <1>6, <3>2 DEF Pay, Granted, IsPremium, CreditsRow
      <4> QED BY <1>1, <4>1, <4>2 DEF RevenueInv
    <3> QED BY <3>1, <3>2
  <2>8. Mandate => Mandate'
    BY <1>1, <2>1 DEF Mandate, Orders
  <2>9. MandateInv'
    BY <1>1, <1>2, <2>1, <2>8 DEF MandateInv, Orders
  <2>10. CASE IsPremium(o)
    <3>1. /\ plan' = [premium |-> TRUE, expires |-> month + 1, cancel |-> FALSE]
          /\ charged' = [charged EXCEPT ![month] = @ + 1]
      BY <1>6, <2>10 DEF Pay
    <3>2. charged[month] = 0
      BY <1>1, <1>6, <2>10 DEF MonthInv, Stale, Active, NoExpiry
    <3>3. plan' \in PlanRow /\ charged' \in [0..Months -> Nat]
      BY <1>1, <3>1, BillingNumbers DEF PlanRow, Expiries
    <3>4. MonthInv'
      BY <1>1, <3>1, <3>2, BillingNumbers DEF MonthInv
    <3> QED BY <1>1, <1>6, <2>1, <2>4, <2>5, <2>6, <2>7, <2>8, <2>9, <3>3, <3>4 DEF RevenueInv,
       Stale
  <2>11. CASE ~IsPremium(o)
    <3>1. UNCHANGED <<plan, charged>>
      BY <1>6, <2>11 DEF Pay
    <3>2. MonthInv'
      BY <1>1, <3>1 DEF MonthInv
    <3> QED BY <1>1, <1>6, <2>1, <2>4, <2>5, <2>6, <2>7, <2>8, <2>9, <3>1, <3>2 DEF RevenueInv,
       Stale
  <2> QED BY <2>10, <2>11
<1> QED BY <1>4, <1>5, <1>6 DEF SettleOrder

\* Without a charge and without a paid order that is lost, the counts stay.
LEMMA OrdersMove ==
    ASSUME BillingInv, UNCHANGED <<account, aiCredits>>, Paid' = Paid
    PROVE  RevenueInv' /\ (Mandate => Mandate')
  BY DEF BillingInv, RevenueInv, Mandate, Paid, Orders

LEMMA UserStepKeeps ==
    ASSUME BillingInv,
           \/ \E o \in Orders : CreateOrder(o) \/ Confirm(o) \/ CancelOrder(o)
           \/ Cancel \/ Summary \/ NextMonth \/ TopUp
    PROVE  BillingInv'
<1>1. /\ BillingTypeOK /\ RevenueInv /\ MonthInv /\ MandateInv /\ \A j \in Replicas : DueInv(j)
  BY DEF BillingInv
<1>2. ASSUME NEW o \in Orders, CreateOrder(o) PROVE BillingInv'
  <2>1. BillingTypeOK' /\ UNCHANGED <<aiCredits, account, charged, month, plan, renewal>>
    BY <1>1, <1>2 DEF CreateOrder, SetOrder, NoCharge, BillingTypeOK
  <2>2. Paid' = Paid
    BY <1>1, <1>2 DEF CreateOrder, SetOrder, Paid, BillingTypeOK
  <2>3. RevenueInv' /\ (Mandate => Mandate')
    BY <2>1, <2>2, OrdersMove
  <2>4. MandateInv'
    BY <1>1, <1>2, <2>3 DEF CreateOrder, SetOrder, MandateInv, BillingTypeOK
  <2> QED BY <1>1, <2>1, <2>3, <2>4 DEF BillingInv, MonthInv, DueInv
<1>3. ASSUME NEW o \in Orders, Confirm(o) PROVE BillingInv'
  <2>1. SettleOrder(o, NoExpiry) /\ UNCHANGED <<month, renewal, topUps>>
    BY <1>3 DEF Confirm
  <2>2. /\ plan' \in PlanRow /\ aiCredits' \in CreditsRow
        /\ order' \in [Orders -> {"none", "PENDING", "SUCCESS", "FAIL", "CANCELLED"}]
        /\ account' \in [wallet : Nat, revenue : Nat] /\ charged' \in [0..Months -> Nat]
        /\ RevenueInv' /\ MonthInv' /\ MandateInv' /\ (Mandate => Mandate')
    BY <2>1, SettlementKeeps
  <2> QED BY <1>1, <2>1, <2>2 DEF BillingInv, BillingTypeOK, DueInv
<1>4. ASSUME NEW o \in Orders, CancelOrder(o) PROVE BillingInv'
  <2>1. BillingTypeOK' /\ UNCHANGED <<aiCredits, account, charged, month, plan, renewal>>
    BY <1>1, <1>4 DEF CancelOrder, SetOrder, NoCharge, BillingTypeOK
  <2>2. Paid' = Paid
    BY <1>1, <1>4 DEF CancelOrder, SetOrder, Paid, BillingTypeOK
  <2>3. RevenueInv' /\ (Mandate => Mandate')
    BY <2>1, <2>2, OrdersMove
  <2>4. MandateInv'
    BY <1>1, <1>4, <2>3 DEF CancelOrder, SetOrder, MandateInv, BillingTypeOK
  <2> QED BY <1>1, <2>1, <2>3, <2>4 DEF BillingInv, MonthInv, DueInv
<1>5. CASE Cancel
  <2>1. /\ plan' \in PlanRow /\ plan'.premium = plan.premium /\ plan'.expires = plan.expires
        /\ UNCHANGED <<aiCredits, account, charged, month, order, renewal, topUps>>
    BY <1>1, <1>5 DEF Cancel, NoCharge, BillingTypeOK, PlanRow
  <2> QED BY <1>1, <2>1 DEF BillingInv, BillingTypeOK, RevenueInv, MonthInv, MandateInv, DueInv,
     Mandate, Paid
<1>6. CASE Summary
  <2>1. /\ aiCredits' \in CreditsRow /\ aiCredits'.purchased = aiCredits.purchased
        /\ UNCHANGED <<month, plan, order, account, renewal, charged, topUps>>
    BY <1>1, <1>6 DEF Summary, BillingTypeOK, CreditsRow
  <2> QED BY <1>1, <2>1 DEF BillingInv, BillingTypeOK, RevenueInv, MonthInv, MandateInv, DueInv,
     Mandate, Paid
<1>7. CASE NextMonth
  <2>1. /\ month' = month + 1 /\ month' \in 0..Months /\ month \in 0..Months
        /\ UNCHANGED <<aiCredits, account, charged, plan, order, renewal, topUps>>
    BY <1>1, <1>7, BillingNumbers DEF NextMonth, NoCharge, BillingTypeOK
  <2>2. MonthInv'
    BY <1>1, <2>1 DEF MonthInv, BillingTypeOK
  <2>3. ASSUME NEW j \in Replicas PROVE DueInv(j)'
    BY <1>1, <2>1, BillingNumbers DEF DueInv, Mandate, BillingTypeOK
  <2> QED BY <1>1, <2>1, <2>2, <2>3 DEF BillingInv, BillingTypeOK, RevenueInv, MandateInv, Mandate,
     Paid
<1>8. CASE TopUp
  <2>1. /\ account' \in [wallet : Nat, revenue : Nat] /\ account'.revenue = account.revenue
        /\ topUps' \in 0..TopUps
        /\ UNCHANGED <<month, plan, order, aiCredits, renewal, charged>>
    BY SMTT(30), <1>1, <1>8, BillingNumbers DEF TopUp, BillingTypeOK
  <2> QED BY <1>1, <2>1 DEF BillingInv, BillingTypeOK, RevenueInv, MonthInv, MandateInv, DueInv,
     Mandate, Paid
<1> QED BY <1>2, <1>3, <1>4, <1>5, <1>6, <1>7, <1>8

LEMMA ListDueKeeps == ASSUME BillingInv, NEW j \in Replicas, ListDue(j) PROVE BillingInv'
<1>1. /\ BillingTypeOK /\ RevenueInv /\ MonthInv /\ MandateInv /\ \A k \in Replicas : DueInv(k)
  BY DEF BillingInv
<1>2. /\ plan.expires \in 0..Months /\ plan.expires <= month
      /\ renewal' = [renewal EXCEPT ![j] = [pc |-> "due", due |-> plan.expires]]
      /\ UNCHANGED <<aiCredits, account, charged, month, plan, order, topUps>>
  BY <1>1, BillingNumbers DEF ListDue, NoCharge, BillingTypeOK, PlanRow, Expiries, NoExpiry
<1>3. renewal' \in [Replicas -> RenewalState] /\ renewal \in [Replicas -> RenewalState]
  BY <1>1, <1>2 DEF BillingTypeOK, RenewalState
<1>4. ASSUME NEW k \in Replicas PROVE DueInv(k)'
  BY <1>1, <1>2, <1>3 DEF DueInv, Mandate
<1> QED BY <1>1, <1>2, <1>3, <1>4 DEF BillingInv, BillingTypeOK, RevenueInv, MonthInv, MandateInv,
   Mandate, Paid

LEMMA UpsertRenewalKeeps ==
    ASSUME BillingInv, NEW j \in Replicas, UpsertRenewal(j)
    PROVE  BillingInv'
<1> DEFINE o == <<"renewal", renewal[j].due>>
           mandate == \E p \in Orders : IsPremium(p) /\ order[p] = "SUCCESS"
<1>1. /\ BillingTypeOK /\ RevenueInv /\ MonthInv /\ MandateInv /\ \A k \in Replicas : DueInv(k)
      /\ renewal \in [Replicas -> RenewalState]
      /\ order \in [Orders -> {"none", "PENDING", "SUCCESS", "FAIL", "CANCELLED"}]
  BY DEF BillingInv, BillingTypeOK
<1>2. renewal[j].due \in 0..Months /\ renewal[j].due <= month
  BY <1>1 DEF UpsertRenewal, DueInv
<1>3. o \in RenewalOrders /\ o \in Orders
  BY <1>2 DEF RenewalOrders, Orders
<1>4. mandate => Mandate
  BY <1>1 DEF MandateInv, Mandate, Orders, IsPremium
<1>5. /\ \/ order' = order
         \/ mandate /\ order[o] = "none" /\ order' = [order EXCEPT ![o] = "PENDING"]
      /\ UNCHANGED <<aiCredits, account, charged, month, plan, topUps>>
  BY <1>1, <1>3 DEF UpsertRenewal, SetOrder, NoCharge
<1>6. Paid' = Paid /\ order' \in [Orders -> {"none", "PENDING", "SUCCESS", "FAIL", "CANCELLED"}]
  BY <1>1, <1>3, <1>5 DEF Paid
<1>7. RevenueInv' /\ (Mandate => Mandate')
  BY <1>5, <1>6, OrdersMove
<1>8. MandateInv'
  BY <1>1, <1>3, <1>4, <1>5, <1>7 DEF MandateInv, Orders
<1>9. /\ \/ mandate /\ renewal' = [renewal EXCEPT ![j] = [@ EXCEPT !.pc = "settle"]]
         \/ renewal' = [renewal EXCEPT ![j] = IdleRenewal]
  BY DEF UpsertRenewal
<1>10. renewal' \in [Replicas -> RenewalState]
  BY <1>1, <1>9 DEF RenewalState, IdleRenewal
<1>11. ASSUME NEW k \in Replicas PROVE DueInv(k)'
  BY <1>1, <1>2, <1>4, <1>5, <1>7, <1>9 DEF DueInv, IdleRenewal, RenewalState
<1> QED BY <1>1, <1>5, <1>6, <1>7, <1>8, <1>10, <1>11 DEF BillingInv, BillingTypeOK, MonthInv

LEMMA SettleRenewalKeeps ==
    ASSUME BillingInv, NEW j \in Replicas, SettleRenewal(j)
    PROVE  /\ BillingInv'
           /\ account'.revenue > account.revenue =>
                ~plan.cancel /\ plan.expires <= month /\ Mandate
<1> DEFINE o == <<"renewal", renewal[j].due>>
<1>1. /\ BillingTypeOK /\ RevenueInv /\ MonthInv /\ MandateInv /\ \A k \in Replicas : DueInv(k)
      /\ renewal \in [Replicas -> RenewalState] /\ account.revenue \in Nat
  BY DEF BillingInv, BillingTypeOK
<1>2. renewal[j].due \in 0..Months /\ renewal[j].due <= month /\ Mandate
  BY <1>1 DEF SettleRenewal, DueInv
<1>3. o \in Orders /\ renewal[j].due # NoExpiry
  BY <1>2, BillingNumbers DEF RenewalOrders, Orders, NoExpiry
<1>4. /\ renewal' = [renewal EXCEPT ![j] = IdleRenewal] /\ UNCHANGED <<month, topUps>>
      /\ IF order[o] = "PENDING" THEN SettleOrder(o, renewal[j].due)
         ELSE NoCharge /\ UNCHANGED <<plan, order>>
  BY DEF SettleRenewal
<1>5. renewal' \in [Replicas -> RenewalState]
  BY <1>1, <1>4 DEF RenewalState, IdleRenewal
<1>6. CASE order[o] = "PENDING"
  <2>1. /\ plan' \in PlanRow /\ aiCredits' \in CreditsRow
        /\ order' \in [Orders -> {"none", "PENDING", "SUCCESS", "FAIL", "CANCELLED"}]
        /\ account' \in [wallet : Nat, revenue : Nat] /\ charged' \in [0..Months -> Nat]
        /\ RevenueInv' /\ MonthInv' /\ MandateInv' /\ (Mandate => Mandate')
        /\ account'.revenue > account.revenue => plan.expires = renewal[j].due /\ ~plan.cancel
    BY <1>2, <1>3, <1>4, <1>6, SettlementKeeps
  <2>2. ASSUME NEW k \in Replicas PROVE DueInv(k)'
    BY <1>1, <1>4, <2>1 DEF DueInv, IdleRenewal
  <2> QED BY <1>1, <1>2, <1>4, <1>5, <2>1, <2>2 DEF BillingInv, BillingTypeOK
<1>7. CASE order[o] # "PENDING"
  <2>1. UNCHANGED <<aiCredits, account, charged, plan, order>>
    BY <1>4, <1>7 DEF NoCharge
  <2>2. ASSUME NEW k \in Replicas PROVE DueInv(k)'
    BY <1>1, <1>4, <2>1 DEF DueInv, IdleRenewal, Mandate
  <2> QED BY <1>1, <1>4, <1>5, <2>1, <2>2 DEF BillingInv, BillingTypeOK, RevenueInv, MonthInv,
     MandateInv, Mandate, Paid
<1> QED BY <1>6, <1>7

LEMMA RenewalStopsKeeps == ASSUME BillingInv, NEW j \in Replicas, RenewalStops(j) PROVE BillingInv'
<1>1. /\ BillingTypeOK /\ RevenueInv /\ MonthInv /\ MandateInv /\ \A k \in Replicas : DueInv(k)
  BY DEF BillingInv
<1>2. /\ renewal' = [renewal EXCEPT ![j] = IdleRenewal]
      /\ UNCHANGED <<aiCredits, account, charged, month, plan, order, topUps>>
  BY DEF RenewalStops, NoCharge
<1>3. renewal' \in [Replicas -> RenewalState] /\ renewal \in [Replicas -> RenewalState]
  BY <1>1, <1>2 DEF BillingTypeOK, RenewalState, IdleRenewal
<1>4. ASSUME NEW k \in Replicas PROVE DueInv(k)'
  BY <1>1, <1>2, <1>3 DEF DueInv, Mandate, IdleRenewal
<1> QED BY <1>1, <1>2, <1>3, <1>4 DEF BillingInv, BillingTypeOK, RevenueInv, MonthInv, MandateInv,
   Mandate, Paid

LEMMA BillingStays == BillingInv /\ UNCHANGED billingVars => BillingInv'
  BY DEF billingVars, BillingInv, BillingTypeOK, RevenueInv, MonthInv, MandateInv, DueInv, Mandate,
     Paid

LEMMA BillingInvariant == BillingSpec => []BillingInv
<1>1. BillingInv /\ [BillingNext]_billingVars => BillingInv'
  BY UserStepKeeps, ListDueKeeps, UpsertRenewalKeeps, SettleRenewalKeeps, RenewalStopsKeeps,
     BillingStays DEF BillingNext
<1> QED BY <1>1, BillingStarts, PTL DEF BillingSpec

\* Type correctness of Premium: its plan, orders, credits and the runs of the renewal job.
THEOREM BillingTypes == BillingSpec => []BillingTypeOK
<1>1. BillingInv => BillingTypeOK
  BY DEF BillingInv
<1> QED BY <1>1, BillingInvariant, PTL

\* BillingService.settle and BillingRenewalService: however replicas, retries and the user's own
\* purchases meet, a month of Premium is paid once and every payment bought one order.
THEOREM MonthsArePaidOnce == BillingSpec => []ChargedOncePerPeriod
<1>1. BillingInv => ChargedOncePerPeriod
  BY DEF BillingInv, RevenueInv, MonthInv, Paid, ChargedOncePerPeriod
<1> QED BY <1>1, BillingInvariant, PTL

\* The renewal job charges only a user who once paid, whose Premium has ended and who has not
\* cancelled, though it read its list in an earlier step.
THEOREM RenewalHasAMandate == BillingSpec => RenewalNeedsAMandate
<1>1. ASSUME BillingInv, BillingNext, NEW j \in Replicas, renewal[j].pc = "settle",
             renewal'[j].pc = "idle", account'.revenue > account.revenue
      PROVE  ~plan.cancel /\ plan.expires <= month /\ Mandate
  <2>1. /\ account.revenue \in Nat /\ account \in [wallet : Nat, revenue : Nat]
        /\ renewal \in [Replicas -> RenewalState]
    BY <1>1 DEF BillingInv, BillingTypeOK
  <2>2. account' # account /\ renewal' # renewal
    BY <1>1, <2>1
  <2>3. PICK k \in Replicas : SettleRenewal(k)
    BY <1>1, <2>1, <2>2 DEF BillingNext, CreateOrder, Confirm, CancelOrder, Cancel, Summary,
       NextMonth, TopUp, ListDue, UpsertRenewal, RenewalStops, NoCharge
  <2> QED BY <1>1, <2>3, SettleRenewalKeeps
<1>2. BillingInv /\ [BillingNext]_billingVars =>
        [\A j \in Replicas :
           renewal[j].pc = "settle" /\ renewal'[j].pc = "idle" /\ account'.revenue > account.revenue
           => /\ ~plan.cancel /\ plan.expires <= month
              /\ \E o \in PremiumOrders : order[o] = "SUCCESS"]_billingVars
  BY <1>1 DEF Mandate
<1> QED BY <1>2, BillingInvariant, PTL DEF BillingSpec, RenewalNeedsAMandate

(***************************************************************************)
(* Merchants: what a command relies on when it commits.  The argument: the *)
(* rows it read are share-locked until then, so no administrator's step    *)
(* changes them in between.                                                *)
(***************************************************************************)
CatalogRow == [status : {"none", "DRAFT", "PUBLISHED", "REVOKED"}, version : Versions,
               ids : SUBSET Identities]
CommandState == [pc : {"idle", "choose", "rules", "bind"}, cat : SUBSET Catalogs,
                 version : Versions, ids : SUBSET Identities, locked : SUBSET Identities]

LockInv ==
    /\ command.pc = "idle" => command.cat = {}
    /\ command.pc = "choose" => \E c \in Catalogs : command.cat = {c}
    /\ \A c \in command.cat : /\ catalog[c].status = "PUBLISHED"
                              /\ catalog[c].version = command.version
                              /\ command.pc = "rules" => catalog[c].ids = command.ids
    /\ command.pc \in {"rules", "bind"} => /\ command.ids \cap revoked = {}
                                           /\ command.locked = command.ids

MerchantInv ==
    /\ catalog \in [Catalogs -> CatalogRow] /\ command \in CommandState
    /\ LockInv

LEMMA IdleCommands ==
    IdleCommand \in CommandState /\ IdleCommand.pc = "idle" /\ IdleCommand.cat = {}
  BY MerchantAssumption DEF IdleCommand, CommandState, Versions

LEMMA MerchantStarts == MerchantInit => MerchantInv
<1> SUFFICES ASSUME MerchantInit PROVE MerchantInv
  OBVIOUS
<1>1. catalog \in [Catalogs -> CatalogRow]
  BY MerchantAssumption DEF MerchantInit, NoCatalog, CatalogRow, Versions
<1> QED BY <1>1, IdleCommands DEF MerchantInit, MerchantInv, LockInv

\* Administrators change only rows that no command has locked.
LEMMA AdministratorsKeep ==
    ASSUME MerchantInv, catalog' \in [Catalogs -> CatalogRow], command' = command,
           \A c \in command.cat : catalog'[c] = catalog[c],
           command.locked \cap (revoked' \ revoked) = {}
    PROVE  MerchantInv'
  BY DEF MerchantInv, LockInv, CommandState

LEMMA CommandsKeep ==
    ASSUME MerchantInv, UNCHANGED <<revoked, catalog>>,
           \/ UNCHANGED command
           \/ command' = IdleCommand
    PROVE  MerchantInv'
<1>1. CASE UNCHANGED command
  BY <1>1 DEF MerchantInv, LockInv
<1>2. CASE command' = IdleCommand
  <2>1. command' \in CommandState /\ command'.pc = "idle" /\ command'.cat = {}
    BY <1>2, IdleCommands
  <2> QED BY <2>1 DEF MerchantInv, LockInv
<1> QED BY <1>1, <1>2

LEMMA MerchantStepKeeps == MerchantInv /\ [MerchantNext]_merchantVars => MerchantInv'
<1> SUFFICES ASSUME MerchantInv, [MerchantNext]_merchantVars PROVE MerchantInv'
  OBVIOUS
<1> USE DEF CardUnchanged
<1>1. catalog \in [Catalogs -> CatalogRow] /\ command \in CommandState /\ LockInv
  BY DEF MerchantInv
<1>2. ASSUME NEW c \in Catalogs, NEW ids \in SUBSET Identities, Review(c, ids)
      PROVE  MerchantInv'
  <2>1. catalog' \in [Catalogs -> CatalogRow]
    BY <1>1, <1>2, MerchantAssumption DEF Review, CatalogRow, Versions
  <2>2. \A d \in command.cat : catalog'[d] = catalog[d]
    BY <1>1, <1>2 DEF Review, CatalogUnlocked, CommandState
  <2> QED BY <1>2, <2>1, <2>2, AdministratorsKeep DEF Review
<1>3. ASSUME NEW a \in Admins, PublishWrites(a) PROVE MerchantInv'
  <2>1. catalog' \in [Catalogs -> CatalogRow]
    <3> DEFINE c == admin[a].cat
    <3>1. catalog' = [catalog EXCEPT ![c].status = "PUBLISHED", ![c].version = @ + 1]
          /\ catalog[c].version < MaxVersion
      BY <1>3 DEF PublishWrites
    <3>2. CASE c \in Catalogs
      <4> DEFINE v == catalog[c].version + 1
      <4>1. catalog[c] \in CatalogRow /\ catalog[c].version \in Versions
        BY <1>1, <3>2 DEF CatalogRow
      <4>2. v \in Versions
        BY <3>1, <4>1, MerchantAssumption DEF Versions
      <4>3. catalog' = [catalog EXCEPT ![c].status = "PUBLISHED", ![c].version = v]
        BY <3>1
      <4> HIDE DEF v
      <4> QED BY <1>1, <3>2, <4>2, <4>3 DEF CatalogRow
    <3>3. CASE c \notin Catalogs
      BY <1>1, <3>1, <3>3
    <3> QED BY <3>2, <3>3
  <2>2. \A d \in command.cat : catalog'[d] = catalog[d]
    BY <1>1, <1>3 DEF PublishWrites, CatalogUnlocked, CommandState
  <2> QED BY <1>3, <2>1, <2>2, AdministratorsKeep DEF PublishWrites
<1>4. ASSUME NEW a \in Admins, Revoke(a) PROVE MerchantInv'
  <2> DEFINE hit == {admin[a].cat} \cup {c \in Catalogs : catalog[c].ids \cap admin[a].ids # {}}
  <2>1. /\ \A c \in hit : CatalogUnlocked(c) /\ catalog[c].version < MaxVersion
        /\ catalog' = [c \in Catalogs |-> IF c \in hit
                         THEN [catalog[c] EXCEPT !.status = "REVOKED", !.version = @ + 1]
                         ELSE catalog[c]]
        /\ revoked' = revoked \cup admin[a].ids /\ command' = command
        /\ IdentitiesUnlocked(admin[a].ids)
    BY <1>4 DEF Revoke
  <2> HIDE DEF hit
  <2>2. catalog' \in [Catalogs -> CatalogRow]
    <3>1. ASSUME NEW c \in Catalogs PROVE catalog'[c] \in CatalogRow
      <4>1. catalog[c] \in CatalogRow /\ catalog[c].version \in Versions
        BY <1>1 DEF CatalogRow
      <4>2. c \in hit => catalog[c].version + 1 \in Versions
        <5>1. c \in hit => catalog[c].version < MaxVersion
          BY <2>1
        <5>2. \A n \in Versions : n < MaxVersion => n + 1 \in Versions
          BY MerchantAssumption DEF Versions
        <5> QED BY <4>1, <5>1, <5>2
      <4> QED BY <2>1, <4>1, <4>2 DEF CatalogRow
    <3> QED BY <2>1, <3>1
  <2>3. \A d \in command.cat : catalog'[d] = catalog[d]
    BY <1>1, <2>1 DEF CatalogUnlocked, CommandState
  <2> QED BY <2>1, <2>2, <2>3, AdministratorsKeep DEF IdentitiesUnlocked
<1>5. ASSUME NEW c \in Catalogs, NEW version \in Versions, ChooseCatalog(c, version)
      PROVE  MerchantInv'
  <2>1. /\ command' \in CommandState /\ command'.pc = "choose"
        /\ command'.cat = {c} /\ command'.version = version
    BY <1>5, IdleCommands DEF ChooseCatalog, IdleCommand, CommandState
  <2> QED BY <1>1, <1>5, <2>1 DEF ChooseCatalog, MerchantInv, LockInv
<1>6. CASE CheckCatalog
  <2> DEFINE ids == UNION {catalog[c].ids : c \in command.cat}
  <2>1. CASE command' = IdleCommand
    BY <1>6, <2>1, CommandsKeep DEF CheckCatalog
  <2>2. CASE ids \cap revoked = {} /\ LockChoice(ids)
    <3>1. PICK c \in Catalogs : command.cat = {c}
      BY <1>1, <1>6 DEF CheckCatalog, LockInv
    <3>2. ids = catalog[c].ids /\ ids \in SUBSET Identities
      BY <1>1, <3>1 DEF CatalogRow
    <3>3. /\ command' \in CommandState /\ command'.pc = "rules" /\ command'.cat = command.cat
          /\ command'.version = command.version /\ command'.ids = ids /\ command'.locked = ids
      BY <1>1, <2>2, <3>2 DEF LockChoice, CommandState
    <3>4. UNCHANGED <<revoked, catalog>>
      BY <1>6 DEF CheckCatalog
    <3> QED BY <1>1, <2>2, <3>1, <3>2, <3>3, <3>4 DEF MerchantInv, LockInv
  <2> QED BY <1>6, <2>1, <2>2 DEF CheckCatalog
<1>7. ASSUME NEW i \in Identities, ChooseIdentity(i) PROVE MerchantInv'
  <2>1. /\ command' \in CommandState /\ command'.pc = "rules" /\ command'.cat = {}
        /\ command'.ids = {i} /\ command'.locked = {i}
    BY <1>1, <1>7 DEF ChooseIdentity, LockChoice, OwnerLockFree, LockInv, CommandState
  <2>2. i \notin revoked /\ UNCHANGED <<revoked, catalog>>
    BY <1>7 DEF ChooseIdentity, Choosable
  <2> QED BY <1>1, <2>1, <2>2 DEF MerchantInv, LockInv
<1>8. ASSUME NEW i \in Identities, ChooseCandidate(i) PROVE MerchantInv'
  <2>1. /\ command' \in CommandState /\ command'.pc = "bind" /\ command'.cat = {}
        /\ command'.ids = {i} /\ command'.locked = {i}
    BY <1>8, IdleCommands DEF ChooseCandidate, IdleCommand, CommandState
  <2>2. i \notin revoked /\ UNCHANGED <<revoked, catalog>>
    BY <1>8 DEF ChooseCandidate
  <2> QED BY <1>1, <2>1, <2>2 DEF MerchantInv, LockInv
<1>9. ASSUME UNCHANGED <<revoked, catalog>>, UNCHANGED command \/ command' = IdleCommand
      PROVE  MerchantInv'
  BY <1>9, CommandsKeep
<1> QED
  BY <1>2, <1>3, <1>4, <1>5, <1>6, <1>7, <1>8, <1>9 DEF MerchantNext, merchantVars, PublishReads,
     PublishCounts, CommitRules, Enroll, TenMinutesPass, Authorize, Bind

\* resolveRules and bind of FinanceMerchantService: when a command commits, no identity that it
\* adds is revoked, and a catalog choice is still the published row that it looked at.
THEOREM BindingsStayCurrent == MerchantSpec => BindingsAreCurrent
<1>1. MerchantSpec => []MerchantInv
  BY MerchantStarts, MerchantStepKeeps, PTL DEF MerchantSpec
<1>2. ASSUME MerchantInv, MerchantNext
      PROVE  /\ (allowed' \ allowed) \cap revoked' = {}
             /\ command.pc = "rules" /\ command.cat # {} /\ command'.pc = "idle" =>
                  \A c \in command.cat : /\ catalog[c].status = "PUBLISHED"
                                         /\ catalog[c].version = command.version
                                         /\ catalog[c].ids = allowed'
  <2>1. LockInv
    BY <1>2 DEF MerchantInv
  <2>2. CASE CommitRules \/ Bind
    BY <2>1, <2>2 DEF CommitRules, Bind, LockInv
  <2>3. CASE allowed' = allowed /\ (command' = command \/ command.pc # "rules")
    BY <2>3
  <2> QED
    BY <1>2, <2>2, <2>3 DEF MerchantNext, Review, PublishReads, PublishCounts, PublishWrites,
       Revoke, ChooseCatalog, CheckCatalog, ChooseIdentity, Enroll, TenMinutesPass, Authorize,
       ChooseCandidate, CardUnchanged, OwnerLockFree
<1>3. MerchantInv /\ [MerchantNext]_merchantVars =>
        [/\ (allowed' \ allowed) \cap revoked' = {}
         /\ command.pc = "rules" /\ command.cat # {} /\ command'.pc = "idle" =>
              \A c \in command.cat : /\ catalog[c].status = "PUBLISHED"
                                     /\ catalog[c].version = command.version
                                     /\ catalog[c].ids = allowed']_merchantVars
  BY <1>2
<1> QED BY <1>1, <1>3, PTL DEF MerchantSpec, BindingsAreCurrent

(***************************************************************************)
(* Commands: a proof is used by one operation, and what the app offers to  *)
(* create there is room for.                                               *)
(***************************************************************************)
ProofRow == [state : {"none", "fresh", "consumed", "expired"}, command : SUBSET Requested]
OperationRow == [status : {"none", "SUCCEEDED", "FAILED", "SUPERSEDED"} \cup Unfinished,
                 command : SUBSET Requested, proof : SUBSET Proofs]

\* The proof of an operation is consumed, so it is never fresh again for another one.
ProofsInv ==
    /\ proof \in [Proofs -> ProofRow] /\ operation \in [Keys -> OperationRow]
    /\ \A k \in Keys : operation[k].status = "none" => operation[k].proof = {}
    /\ \A k \in Keys : \A c, d \in operation[k].command : c = d
    /\ OperationsHaveProofs

LEMMA ProofsStart == CommandInit => ProofsInv
  BY DEF CommandInit, ProofsInv, NoOperation, ProofRow, OperationRow, OperationsHaveProofs

\* A step of the worker changes the status of an operation that there is.
LEMMA WorkerKeeps ==
    ASSUME ProofsInv, NEW k \in Keys, NEW status \in {"SUCCEEDED", "FAILED", "SUPERSEDED"} \cup Unfinished,
           operation[k].status # "none", UNCHANGED proof,
           operation' = [operation EXCEPT ![k].status = status]
    PROVE  ProofsInv'
<1>1. /\ operation' \in [Keys -> OperationRow]
      /\ \A l \in Keys : /\ operation'[l].proof = operation[l].proof
                         /\ operation'[l].command = operation[l].command
                         /\ operation'[l].status = "none" <=> operation[l].status = "none"
  <2>1. operation \in [Keys -> OperationRow] /\ operation[k] \in OperationRow
    BY DEF ProofsInv
  <2>2. operation' \in [Keys -> OperationRow]
    BY <2>1 DEF OperationRow
  <2>3. status # "none"
    BY DEF Unfinished, InHand
  <2>4. ASSUME NEW l \in Keys
        PROVE  /\ operation'[l].proof = operation[l].proof
               /\ operation'[l].command = operation[l].command
               /\ operation'[l].status = "none" <=> operation[l].status = "none"
    <3>1. operation[l] \in OperationRow
      BY <2>1
    <3>2. CASE l = k
      BY <2>1, <2>3, <3>2 DEF OperationRow
    <3>3. CASE l # k
      BY <2>1, <3>3
    <3> QED BY <3>2, <3>3
  <2> QED BY <2>2, <2>4
<1> QED BY <1>1 DEF ProofsInv, OperationsHaveProofs

LEMMA ExecuteKeeps ==
    ASSUME ProofsInv, NEW k \in Keys, NEW c \in Requested, NEW p \in Proofs, Execute(k, c, p)
    PROVE  ProofsInv'
<1>1. proof \in [Proofs -> ProofRow] /\ operation \in [Keys -> OperationRow] /\ OperationsHaveProofs
  BY DEF ProofsInv
<1>2. /\ proof' \in [Proofs -> ProofRow] /\ proof'[p] = [state |-> "consumed", command |-> {c}]
      /\ \A q \in Proofs : q # p => proof'[q] = proof[q]
  <2>1. proof[p] = [state |-> "fresh", command |-> {c}]
    BY DEF Valid, Execute
  <2>2. [proof[p] EXCEPT !.state = "consumed"] = [state |-> "consumed", command |-> {c}]
    BY <2>1
  <2>3. proof' = [proof EXCEPT ![p] = [state |-> "consumed", command |-> {c}]]
    BY <2>2 DEF Execute
  <2> QED BY <1>1, <2>3 DEF ProofRow
<1>3. /\ operation' \in [Keys -> OperationRow] /\ operation'[k].status # "none"
      /\ operation'[k].proof = {p} /\ operation'[k].command = {c}
      /\ \A l \in Keys : l # k => operation'[l] = operation[l]
  BY <1>1 DEF Execute, OperationRow, Unfinished, InHand
<1>4. ASSUME NEW l \in Keys, l # k
      PROVE  /\ p \notin operation[l].proof
             /\ operation[l].status # "none" =>
                  \E q \in Proofs :
                     /\ operation[l].proof = {q} /\ q # p
                     /\ proof[q] = [state |-> "consumed", command |-> operation[l].command]
  <2>1. proof[p].state = "fresh"
    BY DEF Valid, Execute
  <2>2. CASE operation[l].status = "none"
    BY <2>2 DEF ProofsInv
  <2>3. CASE operation[l].status # "none"
    <3>1. PICK q \in Proofs :
                  /\ operation[l].proof = {q}
                  /\ proof[q] = [state |-> "consumed", command |-> operation[l].command]
      BY <1>1, <2>3 DEF OperationsHaveProofs
    <3>2. q # p
      BY <2>1, <3>1
    <3> QED BY <3>1, <3>2
  <2> QED BY <2>2, <2>3
<1>5. ASSUME NEW l \in Keys, operation'[l].status # "none"
      PROVE  \E q \in Proofs :
                /\ operation'[l].proof = {q}
                /\ proof'[q] = [state |-> "consumed", command |-> operation'[l].command]
  <2>1. CASE l = k
    BY <1>2, <1>3, <2>1
  <2>2. CASE l # k
    BY <1>2, <1>3, <1>4, <1>5, <2>2
  <2> QED BY <2>1, <2>2
<1>6. ASSUME NEW l \in Keys, NEW m \in Keys, l # m
      PROVE  operation'[l].proof \cap operation'[m].proof = {}
  <2>1. operation[l].proof \cap operation[m].proof = {}
    BY <1>1, <1>6 DEF OperationsHaveProofs
  <2>2. CASE l = k
    BY <1>3, <1>4, <1>6, <2>2
  <2>3. CASE m = k
    BY <1>3, <1>4, <1>6, <2>3
  <2> QED BY <1>3, <2>1, <2>2, <2>3
<1>7. ASSUME NEW l \in Keys, operation'[l].status = "none" PROVE operation'[l].proof = {}
  BY <1>3, <1>7 DEF ProofsInv
<1>8. ASSUME NEW l \in Keys, NEW d \in operation'[l].command, NEW e \in operation'[l].command
      PROVE  d = e
  BY <1>3, <1>8 DEF ProofsInv
<1> QED BY <1>2, <1>3, <1>5, <1>6, <1>7, <1>8 DEF ProofsInv, OperationsHaveProofs

LEMMA ProofsStay == ProofsInv /\ [CommandNext]_commandVars => ProofsInv'
<1> SUFFICES ASSUME ProofsInv, [CommandNext]_commandVars PROVE ProofsInv'
  OBVIOUS
<1>1. proof \in [Proofs -> ProofRow] /\ operation \in [Keys -> OperationRow]
  BY DEF ProofsInv
<1>2. ASSUME NEW p \in Proofs, NEW c \in Requested, IssueProof(p, c) PROVE ProofsInv'
  <2>1. /\ proof' \in [Proofs -> ProofRow] /\ proof[p].state = "none" /\ UNCHANGED operation
        /\ \A q \in Proofs : q # p => proof'[q] = proof[q]
    BY <1>1, <1>2 DEF IssueProof, ProofRow
  <2> QED BY <2>1 DEF ProofsInv, OperationsHaveProofs
<1>3. ASSUME NEW p \in Proofs, ProofExpires(p) PROVE ProofsInv'
  <2>1. /\ proof' \in [Proofs -> ProofRow] /\ proof[p].state = "fresh" /\ UNCHANGED operation
        /\ \A q \in Proofs : q # p => proof'[q] = proof[q]
    BY <1>1, <1>3 DEF ProofExpires, ProofRow
  <2> QED BY <2>1 DEF ProofsInv, OperationsHaveProofs
<1>4. ASSUME NEW k \in Keys, NEW c \in Requested, NEW p \in Proofs, Execute(k, c, p)
      PROVE  ProofsInv'
  BY <1>4, ExecuteKeeps
<1>5. ASSUME NEW k \in Keys, Work(k) \/ Succeed(k) \/ SwitchedOn(k) \/ Fail(k) PROVE ProofsInv'
  <2>1. \E status \in {"SUCCEEDED", "FAILED", "SUPERSEDED"} \cup Unfinished :
          operation' = [operation EXCEPT ![k].status = status]
    <3>1. CASE Work(k)
      <4>1. PICK status \in StatusAfter(k) : operation' = [operation EXCEPT ![k].status = status]
        BY <3>1 DEF Work
      <4>2. status \in {"PROCESSING", "UNKNOWN", "PENDING"}
        BY <4>1 DEF StatusAfter
      <4> QED BY <4>1, <4>2 DEF Unfinished, InHand
    <3>2. CASE Succeed(k)
      <4>1. \E status \in {"PENDING", "SUPERSEDED", "SUCCEEDED"} :
              operation' = [operation EXCEPT ![k].status = status]
        BY <3>2 DEF Succeed
      <4> QED BY <4>1 DEF Unfinished
    <3>3. CASE SwitchedOn(k)
      BY <3>3 DEF SwitchedOn
    <3>4. CASE Fail(k)
      BY <3>4 DEF Fail
    <3> QED BY <1>5, <3>1, <3>2, <3>3, <3>4
  <2>2. operation[k].status # "none" /\ UNCHANGED proof
    BY <1>5 DEF Work, StatusAfter, Succeed, SwitchedOn, Fail, Ends
  <2> QED BY <2>1, <2>2, WorkerKeeps
<1>6. CASE UNCHANGED <<proof, operation>>
  BY <1>6 DEF ProofsInv, OperationsHaveProofs
<1> QED BY <1>2, <1>3, <1>4, <1>5, <1>6 DEF CommandNext, commandVars, EnsureDue, RetiresItself, PlanEnds

\* FinanceService.execute: every operation has a proof of its own, issued for exactly its
\* command, whatever requests are repeated or sent twice at once.
THEOREM ProofsAreUsedOnce == CommandSpec => []OperationsHaveProofs
<1>1. ProofsInv => OperationsHaveProofs
  BY DEF ProofsInv
<1> QED BY <1>1, ProofsStart, ProofsStay, PTL DEF CommandSpec

(***************************************************************************)
(* Offers: cards with a rule and cards without one are all the live cards. *)
(***************************************************************************)
CardRow == [status : {"none", "ACTIVE", "PAUSED", "CANCELLED"}, ruled : BOOLEAN,
            retirement : {"none", "RETIRING", "RETIRED", "CLOSED"}, version : Nat, funds : Nat,
            retires : {"none", "QUEUED", "PENDING"}]

CardsInv == card \in [Keys -> CardRow]

LEMMA FundsAreNatural ==
    ASSUME NEW c \in CardRow, NEW n \in Nat
    PROVE  /\ [c EXCEPT !.funds = n] \in CardRow
           /\ [c EXCEPT !.funds = n, !.status = "ACTIVE"] \in CardRow
           /\ [c EXCEPT !.funds = n, !.status = "PAUSED"] \in CardRow
           /\ [c EXCEPT !.funds = n, !.retirement = "RETIRED"] \in CardRow
           /\ [c EXCEPT !.funds = n, !.retirement = "CLOSED"] \in CardRow
           /\ [c EXCEPT !.retires = "none", !.funds = n, !.retirement = "RETIRED"] \in CardRow
           /\ [c EXCEPT !.retires = "none", !.funds = n, !.retirement = "CLOSED"] \in CardRow
           /\ [c EXCEPT !.retirement = "CLOSED", !.funds = n, !.status = "CANCELLED"] \in CardRow
  BY DEF CardRow

LEMMA CardsAreCards == CommandSpec => []CardsInv
<1>1. CommandInit => card \in [Keys -> CardRow]
  BY DEF CommandInit, NoCard, CardRow
<1>2. ASSUME card \in [Keys -> CardRow], [CommandNext]_commandVars
      PROVE  card' \in [Keys -> CardRow]
  <2>1. ASSUME NEW k \in Keys, NEW c \in Requested, NEW p \in Proofs, Execute(k, c, p)
        PROVE  card' \in [Keys -> CardRow]
    <3>1. ASSUME NEW t \in Keys PROVE card'[t] \in CardRow
      <4>1. card[t] \in CardRow /\ c.ruled \in BOOLEAN
        BY <1>2, CommandAssumption DEF Validated
      <4>2. t \in c.card /\ c.kind = "RETURN" => card[t].funds >= 1
        BY <2>1 DEF Execute, Acceptable
      <4>3. CASE c.kind = "ISSUE" /\ t = k
        BY <2>1, <4>1, <4>3 DEF Execute, Apply, CardRow, NoCard
      <4>4. CASE ~(c.kind = "ISSUE" /\ t = k) /\ t \notin c.card
        BY <2>1, <4>1, <4>4 DEF Execute, Apply
      <4>5. CASE ~(c.kind = "ISSUE" /\ t = k) /\ t \in c.card
        <5>1. \/ card'[t] = card[t]
              \/ card'[t] = [card[t] EXCEPT !.funds = @ + 1]
              \/ c.kind = "RETURN" /\ card'[t] = [card[t] EXCEPT !.funds = @ - 1]
              \/ card'[t] = [card[t] EXCEPT !.version = @ + 1]
              \/ card'[t] = [card[t] EXCEPT
                                !.retirement = IF @ = "none" THEN "RETIRING" ELSE @]
          BY <2>1, <4>5 DEF Execute, Apply
        <5> QED BY <4>1, <4>2, <4>5, <5>1 DEF CardRow
      <4> QED BY <4>3, <4>4, <4>5
    <3>2. card' = [t \in Keys |-> card'[t]]
      BY <2>1 DEF Execute, Apply
    <3> QED BY <3>1, <3>2
  <2>2. ASSUME NEW k \in Keys, Succeed(k) PROVE card' \in [Keys -> CardRow]
    <3>1. ASSUME NEW t \in Keys PROVE card'[t] \in CardRow
      <4>1. card[t] \in CardRow
        BY <1>2
      <4>2. \/ card'[t] = [card[t] EXCEPT !.funds = 1, !.status = "ACTIVE"]
            \/ card'[t] = [card[t] EXCEPT !.funds = 1, !.status = "PAUSED"]
            \/ card'[t] = card[t]
            \/ card'[t] = [card[t] EXCEPT !.funds = 0, !.retirement = "RETIRED"]
            \/ card'[t] = [card[t] EXCEPT !.funds = 0, !.retirement = "CLOSED"]
            \/ card'[t] = [card[t] EXCEPT !.retirement = "CLOSED", !.funds = 0,
                                          !.status = "CANCELLED"]
            \/ card'[t] = [card[t] EXCEPT !.status = "PAUSED"]
            \/ card'[t] = [card[t] EXCEPT !.status = "ACTIVE"]
        BY <2>2 DEF Succeed, Retired, Shown
      <4>3. /\ [card[t] EXCEPT !.funds = 1, !.status = "ACTIVE"] \in CardRow
            /\ [card[t] EXCEPT !.funds = 1, !.status = "PAUSED"] \in CardRow
            /\ [card[t] EXCEPT !.funds = 0, !.retirement = "RETIRED"] \in CardRow
            /\ [card[t] EXCEPT !.funds = 0, !.retirement = "CLOSED"] \in CardRow
            /\ [card[t] EXCEPT !.retirement = "CLOSED", !.funds = 0,
                               !.status = "CANCELLED"] \in CardRow
        <5> DEFINE one == 1
                   none == 0
        <5>1. one \in Nat /\ none \in Nat
          OBVIOUS
        <5> HIDE DEF one, none
        <5>2. /\ [card[t] EXCEPT !.funds = one, !.status = "ACTIVE"] \in CardRow
              /\ [card[t] EXCEPT !.funds = one, !.status = "PAUSED"] \in CardRow
              /\ [card[t] EXCEPT !.funds = none, !.retirement = "RETIRED"] \in CardRow
              /\ [card[t] EXCEPT !.funds = none, !.retirement = "CLOSED"] \in CardRow
              /\ [card[t] EXCEPT !.retirement = "CLOSED", !.funds = none,
                                 !.status = "CANCELLED"] \in CardRow
          BY <4>1, <5>1, FundsAreNatural
        <5> QED BY <5>2 DEF one, none
      <4>4. CASE card'[t] = [card[t] EXCEPT !.status = "PAUSED"]
        BY <4>1, <4>4 DEF CardRow
      <4>5. CASE card'[t] = [card[t] EXCEPT !.status = "ACTIVE"]
        BY <4>1, <4>5 DEF CardRow
      <4> QED BY <4>1, <4>2, <4>3, <4>4, <4>5
    <3>2. card' = [t \in Keys |-> card'[t]]
      BY <2>2 DEF Succeed
    <3> QED BY <3>1, <3>2
  <2>3. ASSUME NEW k \in Keys, Fail(k) PROVE card' \in [Keys -> CardRow]
    BY <1>2, <2>3 DEF Fail, CardRow
  <2>4. CASE UNCHANGED card
    BY <1>2, <2>4
  <2>7. ASSUME NEW k \in Keys, SwitchedOn(k) PROVE card' \in [Keys -> CardRow]
    <3>1. Shown(k, TRUE) \in {"ACTIVE", "PAUSED"}
      BY DEF Shown
    <3> QED BY <1>2, <2>7, <3>1 DEF SwitchedOn, CardRow
  <2>5. ASSUME NEW t \in Keys, EnsureDue(t) PROVE card' \in [Keys -> CardRow]
    <3>1. \/ card' = [card EXCEPT ![t].retirement = "RETIRING", ![t].retires = "QUEUED"]
          \/ card' = [card EXCEPT ![t].retirement = "RETIRING", ![t].retires = card[t].retires]
      BY <2>5 DEF EnsureDue
    <3> QED BY <1>2, <3>1 DEF CardRow
  <2>6. ASSUME NEW t \in Keys, RetiresItself(t) PROVE card' \in [Keys -> CardRow]
    <3>1. card[t] \in CardRow
      BY <1>2
    <3>2. CASE card' = [card EXCEPT ![t].retires = IF @ = "QUEUED" THEN "PENDING" ELSE "QUEUED"]
      BY <1>2, <3>2 DEF CardRow
    <3>3. CASE card' = [card EXCEPT ![t].retires = "none", ![t].funds = 0,
                                    ![t].retirement = Retired(card[t])]
      <4> DEFINE none == 0
      <4>1. \/ card' = [card EXCEPT ![t] =
                  [card[t] EXCEPT !.retires = "none", !.funds = none, !.retirement = "RETIRED"]]
            \/ card' = [card EXCEPT ![t] =
                  [card[t] EXCEPT !.retires = "none", !.funds = none, !.retirement = "CLOSED"]]
        BY <1>2, <3>3 DEF Retired
      <4>2. none \in Nat
        OBVIOUS
      <4> HIDE DEF none
      <4>3. /\ [card[t] EXCEPT !.retires = "none", !.funds = none, !.retirement = "RETIRED"] \in CardRow
            /\ [card[t] EXCEPT !.retires = "none", !.funds = none, !.retirement = "CLOSED"] \in CardRow
        BY <3>1, <4>2, FundsAreNatural
      <4> QED BY <1>2, <4>1, <4>3
    <3> QED BY <2>6, <3>2, <3>3 DEF RetiresItself
  <2> QED BY <1>2, <2>1, <2>2, <2>3, <2>4, <2>5, <2>6, <2>7 DEF CommandNext, commandVars, IssueProof,
     ProofExpires, Work, PlanEnds
<1>3. (CommandInit => CardsInv) /\ (CardsInv /\ [CommandNext]_commandVars => CardsInv')
  BY <1>1, <1>2 DEF CardsInv
<1> QED BY <1>3, PTL DEF CommandSpec

LEMMA LiveCardsAddUp ==
    ASSUME card \in [Keys -> CardRow]
    PROVE  /\ LiveCards({TRUE}) \in Nat /\ LiveCards({FALSE}) \in Nat
           /\ LiveCards(BOOLEAN) = LiveCards({TRUE}) + LiveCards({FALSE})
<1> DEFINE All == {k \in Keys : Live(k) /\ card[k].ruled \in BOOLEAN}
           Ruled == {k \in Keys : Live(k) /\ card[k].ruled \in {TRUE}}
           Plain == {k \in Keys : Live(k) /\ card[k].ruled \in {FALSE}}
<1>1. IsFiniteSet(Ruled) /\ IsFiniteSet(Plain)
  BY CommandAssumption, FS_Subset
<1>2. All = Ruled \cup Plain /\ Ruled \cap Plain = {}
  BY DEF CardRow
<1>3. Cardinality(All) = Cardinality(Ruled) + Cardinality(Plain)
  <2>1. Cardinality(Ruled \cap Plain) = 0
    BY <1>2, FS_EmptySet
  <2> HIDE DEF All, Ruled, Plain
  <2>2. Cardinality(Ruled \cup Plain) =
          Cardinality(Ruled) + Cardinality(Plain) - Cardinality(Ruled \cap Plain)
    BY <1>1, FS_Union
  <2> QED BY <1>1, <1>2, <2>1, <2>2, FS_CardinalityType
<1> QED BY <1>1, <1>3, FS_CardinalityType DEF LiveCards

\* CardAccessService.summary offers no card that ISSUE has no room for.
THEOREM OffersHold == CommandSpec => []OffersAreHonoured
<1>1. ASSUME card \in [Keys -> CardRow] PROVE OffersAreHonoured
  <2>1. /\ StandardLimit \in Nat /\ RuledLimit \in Nat
    BY CommandAssumption
  <2>2. ASSUME NEW ruled \in BOOLEAN, Offered(ruled) PROVE HasCapacity([ruled |-> ruled])
    <3>1. /\ LiveCards({TRUE}) \in Nat /\ LiveCards({FALSE}) \in Nat
          /\ LiveCards(BOOLEAN) = LiveCards({TRUE}) + LiveCards({FALSE})
      BY <1>1, LiveCardsAddUp
    <3>2. CASE premium = "PREMIUM"
      BY <2>2, <3>2 DEF Offered, HasCapacity
    <3>3. CASE premium # "PREMIUM" /\ ruled
      <4>1. LiveCards({TRUE}) < RuledLimit /\ LiveCards({FALSE}) <= StandardLimit
        BY <2>2, <3>3 DEF Offered
      <4>2. [ruled |-> ruled].ruled = TRUE
        BY <3>3
      <4> QED BY <2>1, <3>1, <3>3, <4>1, <4>2 DEF HasCapacity
    <3>4. CASE premium # "PREMIUM" /\ ~ruled
      <4>1. LiveCards({FALSE}) < StandardLimit /\ LiveCards({TRUE}) <= RuledLimit
        BY <2>2, <3>4 DEF Offered
      <4>2. [ruled |-> ruled].ruled = FALSE
        BY <3>4
      <4>3. /\ LiveCards(BOOLEAN) < StandardLimit + RuledLimit
            /\ LiveCards({FALSE}) < StandardLimit
        BY <2>1, <3>1, <4>1
      <4> QED BY <3>4, <4>2, <4>3 DEF HasCapacity
    <3> QED BY <3>2, <3>3, <3>4
  <2> QED BY <2>2 DEF OffersAreHonoured
<1>2. CardsInv => OffersAreHonoured
  BY <1>1 DEF CardsInv
<1> QED BY <1>2, CardsAreCards, PTL

(***************************************************************************)
(* Listings: a page shows what was asked for.  The argument: a where made  *)
(* of spread objects asks for what its parts ask for, apart from the keys  *)
(* that a later part takes over (WhereTells), and for each list the where  *)
(* of a badge and the badge of a view are one condition of the row         *)
(* (BadgesAgree).  Between query and view the row may change, the page     *)
(* keeps the copy.                                                         *)
(***************************************************************************)
\* What every column of a list may hold.
RowKind ==
    CASE listed = "cards" -> [userId : Either, cardType : {"this"}, expirationType : {"this"}, text : Either,
                              status : {"ACTIVE", "PAUSED", "CANCELLED"}, retired : BOOLEAN, due : BOOLEAN,
                              usedUp : BOOLEAN, valid : BOOLEAN, bound : BOOLEAN, reserved : BOOLEAN,
                              overspent : BOOLEAN]
      [] listed = "approvals" -> [userId : Either, text : Either, lapsed : BOOLEAN,
                                  status : {"HELD", "AWAITING_APPROVAL", "DECLINED", "RETRY_APPROVED",
                                            "APPROVAL_USED"}]
      [] listed = "payments" -> [type : {"this"}, isRecurring : {"this"}, text : Either,
                                 status : {"PENDING", "SUCCESS", "FAIL"}, thresholdWarning : BOOLEAN,
                                 approvalStatus : {"PENDING", "APPROVED", "DECLINED"}]
      [] listed = "tickets" -> [text : Either, status : TicketStatuses]
      [] listed = "users" -> [text : Either, emailVerified : BOOLEAN, phoneVerified : BOOLEAN,
                              onboarded : BOOLEAN, account : BOOLEAN, active : BOOLEAN]
      [] OTHER -> [ColumnsOf(Lists[listed]) -> Either]

\* A card that is used up was marked in the same transaction.
RowInv ==
    /\ listed \in DOMAIN Lists /\ row \in RowKind
    /\ listed = "cards" /\ row.usedUp => row.retired

Passes(where) == \A key \in DOMAIN where : where[key]

LEMMA SpreadHolds ==
    ASSUME NEW left, NEW right
    PROVE  /\ DOMAIN Spread(left, right) = DOMAIN left \cup DOMAIN right
           /\ Passes(Spread(left, right)) <=>
                Passes(right) /\ \A key \in DOMAIN left \ DOMAIN right : left[key]
  BY DEF Spread, Passes

\* What the parts of a where name and ask for.
LEMMA FilterHolds ==
    ASSUME NEW req
    PROVE  /\ DOMAIN FilterWhere(req) = {req.field} \ {"none"}
           /\ \A key \in DOMAIN FilterWhere(req) : FilterWhere(req)[key] = (row[req.field] = req.value)
  BY DEF FilterWhere, Only, Nothing

LEMMA SearchHolds ==
    ASSUME NEW req, req.text \in BOOLEAN
    PROVE  /\ DOMAIN SearchWhere(req) =
                IF req.text THEN {IF listed = "approvals" THEN "merchantName" ELSE "OR"} ELSE {}
           /\ Passes(SearchWhere(req)) <=> (req.text => row.text = "this")
  BY DEF SearchWhere, Only, Nothing, Passes

LEMMA OwnHolds ==
    ASSUME NEW l
    PROVE  DOMAIN Own(l) = l.scope /\ \A key \in l.scope : Own(l)[key] = (row[key] = "this")
  BY DEF Own

\* The columns of a scope, of a filter and of a badge meet only where a badge overrules a filter.
Columns == {"userId", "live", "cardId", "chatId", "status", "type", "approvalStatus", "currency", "frequency",
            "isRecurring", "thresholdWarning", "role", "action", "entityType", "biometricType", "isActive",
            "thresholdType", "cardType", "expirationType", "emailVerified", "phoneVerified"}
LEMMA ListsApart ==
    ASSUME listed \in DOMAIN Lists
    PROVE LET l == Lists[listed] IN
       /\ l.scope \subseteq {"userId", "live", "cardId", "chatId"}
       /\ l.fields \subseteq Columns \ {"userId", "live", "cardId", "chatId"}
  BY DEF Lists, Listing, TransactionList, CardTransactionList, ChatList, MessageList,
     NotificationList, AuditList, DeviceList, ThresholdList, CardList, ApprovalList, PaymentList,
     TicketList, UserList, Columns

LEMMA BadgeKeys ==
    ASSUME listed \in DOMAIN Lists, NEW b \in BadgesOf(listed)
    PROVE  /\ DOMAIN BadgeWhere(b) \subseteq {"OR", "AND", "status", "thresholdWarning", "approvalStatus"}
           /\ listed # "cards" /\ listed # "approvals" => "OR" \notin DOMAIN BadgeWhere(b)
  BY DEF BadgeWhere, CardStateWhere, ApprovalWhere, UiStatusWhere, UserStatusWhere, TicketStatusWhere,
     Only, Nothing, Spread, BadgesOf

\* The conditions of a badge, and what the view shows.  A condition of the badge may be overruled
\* by the search only on the cards.
BadgeIsShown(b) == Passes(BadgeWhere(b)) => Fits(b, Badge(row, row))
ShownIsFound(b) ==
    /\ b # "none" => Badge(row, row) = b
    /\ listed = "approvals" => row.status # "HELD"
    => Passes(BadgeWhere(b))

LEMMA CardsAgree ==
    ASSUME RowInv, listed = "cards", NEW b \in BadgesOf(listed)
    PROVE  BadgeIsShown(b) /\ ShownIsFound(b)
<1>1. /\ row.status \in {"ACTIVE", "PAUSED", "CANCELLED"} /\ (row.usedUp => row.retired)
      /\ b \in {"none", "ACTIVE", "PAUSED", "RETIRED", "EXPIRED"}
  BY DEF RowInv, RowKind, BadgesOf
<1>2. BadgeWhere(b) = CardStateWhere(b) /\ Badge(row, row) = CardBadge(row, row)
  BY DEF BadgeWhere, Badge
<1>3. BadgeIsShown(b)
  BY <1>1, <1>2 DEF BadgeIsShown, Fits, Passes, CardStateWhere, CardBadge, Only, Nothing
<1>4. ShownIsFound(b)
  BY <1>1, <1>2 DEF ShownIsFound, Passes, CardStateWhere, CardBadge, Only, Nothing
<1> QED BY <1>3, <1>4

LEMMA ApprovalsAgree ==
    ASSUME RowInv, listed = "approvals", NEW b \in BadgesOf(listed)
    PROVE  BadgeIsShown(b) /\ ShownIsFound(b)
<1>1. /\ row.status \in {"HELD", "AWAITING_APPROVAL", "DECLINED", "RETRY_APPROVED", "APPROVAL_USED"}
      /\ b \in {"none", "PENDING", "APPROVED", "DECLINED"}
  BY DEF RowInv, RowKind, BadgesOf
<1>2. BadgeWhere(b) = ApprovalWhere(b) /\ Badge(row, row) = ApprovalBadge(row, row)
  BY DEF BadgeWhere, Badge
<1>3. BadgeIsShown(b)
  BY <1>1, <1>2 DEF BadgeIsShown, Fits, Passes, ApprovalWhere, ApprovalBadge, Only, Nothing
<1>4. ShownIsFound(b)
  BY <1>1, <1>2 DEF ShownIsFound, Passes, ApprovalWhere, ApprovalBadge, Only, Nothing
<1> QED BY <1>3, <1>4

\* A derived status of a transaction is a conjunction of columns, so every badge has its own keys.
LEMMA PaymentsAgree ==
    ASSUME RowInv, listed = "payments", NEW b \in BadgesOf(listed)
    PROVE  BadgeIsShown(b) /\ ShownIsFound(b)
<1>1. /\ row.status \in {"PENDING", "SUCCESS", "FAIL"} /\ row.thresholdWarning \in BOOLEAN
      /\ row.approvalStatus \in {"PENDING", "APPROVED", "DECLINED"}
      /\ b \in {"none", "completed", "processing", "pending", "failed", "flagged"}
  BY DEF RowInv, RowKind, BadgesOf
<1>2. BadgeWhere(b) = UiStatusWhere(b) /\ Badge(row, row) = DeriveTxStatus(row)
  BY DEF BadgeWhere, Badge
<1>3. BadgeIsShown(b)
  <2> USE <1>1, <1>2 DEF BadgeIsShown, Fits, Passes, UiStatusWhere, DeriveTxStatus
  <2>1. CASE b \in {"none", "failed", "flagged"}
    BY <2>1 DEF Only, Nothing
  <2>2. CASE b = "completed"
    <3>1. /\ {"thresholdWarning", "status"} \subseteq DOMAIN BadgeWhere(b)
          /\ BadgeWhere(b)["thresholdWarning"] = ~row.thresholdWarning
          /\ BadgeWhere(b)["status"] = (row.status = "SUCCESS")
      BY <2>2 DEF Only, Spread
    <3> QED BY <2>2, <3>1
  <2>3. CASE b \in {"processing", "pending"}
    <3>1. /\ {"thresholdWarning", "status", "approvalStatus"} \subseteq DOMAIN BadgeWhere(b)
          /\ BadgeWhere(b)["thresholdWarning"] = ~row.thresholdWarning
          /\ BadgeWhere(b)["status"] = (row.status = "PENDING")
          /\ BadgeWhere(b)["approvalStatus"] =
               (row.approvalStatus = IF b = "pending" THEN "APPROVED" ELSE "PENDING")
      BY <2>3 DEF Only, Spread
    <3> QED BY <2>3, <3>1
  <2> QED BY <2>1, <2>2, <2>3
<1>4. ShownIsFound(b)
  BY <1>1, <1>2 DEF ShownIsFound, Passes, UiStatusWhere, DeriveTxStatus, Only, Nothing, Spread
<1> QED BY <1>3, <1>4

LEMMA UsersAgree ==
    ASSUME RowInv, listed = "users", NEW b \in BadgesOf(listed)
    PROVE  BadgeIsShown(b) /\ ShownIsFound(b)
<1>1. /\ row.emailVerified \in BOOLEAN /\ row.onboarded \in BOOLEAN /\ row.account \in BOOLEAN
      /\ row.active \in BOOLEAN /\ b \in {"none", "active", "suspended", "pending"}
  BY DEF RowInv, RowKind, BadgesOf
<1>2. BadgeWhere(b) = UserStatusWhere(b) /\ Badge(row, row) = UserBadge(row)
  BY DEF BadgeWhere, Badge
<1>3. BadgeIsShown(b)
  BY <1>1, <1>2 DEF BadgeIsShown, Fits, Passes, UserStatusWhere, UserBadge, Only, Nothing
<1>4. ShownIsFound(b)
  BY <1>1, <1>2 DEF ShownIsFound, Passes, UserStatusWhere, UserBadge, Only, Nothing
<1> QED BY <1>3, <1>4

LEMMA OthersAgree ==
    ASSUME RowInv, listed \notin {"cards", "approvals", "payments", "users"}, NEW b \in BadgesOf(listed)
    PROVE  BadgeIsShown(b) /\ ShownIsFound(b)
<1>1. CASE listed = "tickets"
  <2>1. /\ b \in {"none"} \cup TicketStatuses /\ Badge(row, row) = row.status
        /\ BadgeWhere(b) = TicketStatusWhere(b)
    BY <1>1 DEF BadgesOf, BadgeWhere, Badge
  <2> QED BY <1>1, <2>1 DEF BadgeIsShown, ShownIsFound, Fits, Passes, TicketStatusWhere, Only,
         Nothing, TicketStatuses
<1>2. CASE listed # "tickets"
  <2>1. b = "none" /\ BadgeWhere(b) = Nothing
    BY <1>2 DEF BadgesOf, BadgeWhere
  <2> QED BY <2>1 DEF BadgeIsShown, ShownIsFound, Fits, Passes, Nothing
<1> QED BY <1>1, <1>2

LEMMA BadgesAgree ==
    ASSUME RowInv, NEW b \in BadgesOf(listed)
    PROVE  BadgeIsShown(b) /\ ShownIsFound(b)
  BY CardsAgree, ApprovalsAgree, PaymentsAgree, UsersAgree, OthersAgree

\* What a row shows depends on the list only.
LEMMA BadgesStay ==
    ASSUME NEW b, NEW c, listed' = listed
    PROVE  /\ Badge(c, c)' = Badge(c, c)
           /\ Fits(b, Badge(c, c))' <=> Fits(b, Badge(c, c))
<1>1. Badge(c, c)' = Badge(c, c)
  BY DEF Badge, CardBadge, ApprovalBadge, DeriveTxStatus, UserBadge
<1> QED BY <1>1 DEF Fits

\* What the query finds: the where of a request says no less and no more than its parts, since a
\* column that two parts name is named by the badge, and by the search over the badge of a card.
LEMMA WhereTells ==
    ASSUME listed \in DOMAIN Lists, NEW req, req.text \in BOOLEAN, req.badge \in BadgesOf(listed),
           Accepted(req)
    PROVE  LET own == \A column \in Lists[listed].scope : row[column] = "this"
               keys == DOMAIN BadgeWhere(req.badge)
               filter == req.field \notin keys \cup {"none"} => row[req.field] = req.value
               search == req.text => row.text = "this"
           IN /\ Passes(Where(req)) =>
                   /\ own /\ filter /\ search
                   /\ ~(req.text /\ "OR" \in keys /\ listed = "cards") => Passes(BadgeWhere(req.badge))
              /\ own /\ filter /\ search /\ Passes(BadgeWhere(req.badge)) => Passes(Where(req))
<1> DEFINE O == Own(Lists[listed])
           F == FilterWhere(req)
           B == BadgeWhere(req.badge)
           S == SearchWhere(req)
           OF == Spread(O, F)
           OFB == Spread(OF, B)
           scope == Lists[listed].scope
           searchKeys == IF req.text THEN {IF listed = "approvals" THEN "merchantName" ELSE "OR"} ELSE {}
<1>1. DOMAIN O = scope /\ \A key \in scope : O[key] <=> (row[key] = "this")
  BY OwnHolds
<1>10. /\ DOMAIN F = {req.field} \ {"none"}
       /\ \A key \in {req.field} \ {"none"} : F[key] <=> (row[req.field] = req.value)
  BY FilterHolds
<1>11. DOMAIN S = searchKeys /\ (Passes(S) <=> (req.text => row.text = "this"))
  BY SearchHolds
<1>2. /\ scope \subseteq {"userId", "live", "cardId", "chatId"}
      /\ req.field \in (Columns \ {"userId", "live", "cardId", "chatId"}) \cup {"none"}
  BY ListsApart DEF Accepted
<1>3. /\ DOMAIN B \subseteq {"OR", "AND", "status", "thresholdWarning", "approvalStatus"}
      /\ listed # "cards" /\ listed # "approvals" => "OR" \notin DOMAIN B
  BY BadgeKeys
<1>4. /\ scope \cap ({req.field} \cup DOMAIN B \cup searchKeys) = {}
      /\ req.field \notin searchKeys
      /\ ~(req.text /\ "OR" \in DOMAIN B /\ listed = "cards") => DOMAIN B \cap searchKeys = {}
  BY <1>2, <1>3 DEF Columns
<1> HIDE DEF O, F, B, S, OF, OFB, scope, searchKeys
<1>5. /\ DOMAIN OF = scope \cup ({req.field} \ {"none"})
      /\ \A key \in scope : OF[key] <=> (row[key] = "this")
      /\ req.field # "none" => (OF[req.field] <=> (row[req.field] = req.value))
  BY <1>1, <1>10, <1>4 DEF OF, Spread
<1>6. /\ DOMAIN OFB = DOMAIN OF \cup DOMAIN B
      /\ \A key \in DOMAIN B : OFB[key] = B[key]
      /\ \A key \in DOMAIN OF \ DOMAIN B : OFB[key] = OF[key]
  BY DEF OFB, Spread
<1>7. Passes(Where(req)) <=> Passes(S) /\ \A key \in DOMAIN OFB \ searchKeys : OFB[key]
  BY <1>11, SpreadHolds DEF Where, OFB, OF, O, F, B, S
<1>8. /\ \A key \in scope : key \in DOMAIN OFB \ searchKeys /\ (OFB[key] <=> (row[key] = "this"))
      /\ req.field \notin DOMAIN B \cup {"none"} =>
           req.field \in DOMAIN OFB \ searchKeys /\ (OFB[req.field] <=> (row[req.field] = req.value))
      /\ \A key \in DOMAIN OFB \ searchKeys :
           \/ key \in scope \/ (key = req.field /\ key \notin DOMAIN B \cup {"none"})
           \/ key \in DOMAIN B \ searchKeys
  BY <1>4, <1>5, <1>6
<1>9. (\A key \in DOMAIN OFB \ searchKeys : OFB[key]) <=>
        /\ \A key \in scope : row[key] = "this"
        /\ req.field \notin DOMAIN B \cup {"none"} => row[req.field] = req.value
        /\ \A key \in DOMAIN B \ searchKeys : B[key]
  BY <1>6, <1>8
<1> QED BY <1>11, <1>4, <1>7, <1>9 DEF Passes, B, scope

\* What PageIsHonest says of one request and of the row that its query met.
Honest(req, c) ==
    LET l == Lists[listed]
        keys == DOMAIN BadgeWhere(req.badge)
        badgeKept == ~(req.text /\ "OR" \in keys /\ listed = "cards")
        inScope == (\A column \in l.scope : c[column] = "this") /\ (l.parent => req.parent)
        wanted == /\ req.field \notin keys \cup {"none"} => c[req.field] = req.value
                  /\ req.text => c.text = "this"
    IN /\ page.pc \in {"found", "shown"} =>
            inScope /\ wanted /\ (badgeKept => Fits(req.badge, Badge(c, c)))
       /\ page.pc = "missed" =>
            ~(/\ inScope /\ wanted
              /\ req.badge # "none" => Badge(c, c) = req.badge
              /\ listed = "approvals" => c.status # "HELD")
       /\ page.pc = "shown" => page.badge = Badge(c, c) \/ row # c

PageInv ==
    /\ page = [pc |-> page.pc, req |-> page.req, copy |-> page.copy, badge |-> page.badge]
    /\ page.pc \in {"none", "refused", "missed", "found", "shown"}
    /\ page.pc = "none" => page = NoPage
    /\ page.pc = "found" => \E c : page.copy = {c}
    /\ \A req \in page.req : req.badge \in BadgesOf(listed)
    /\ \A req \in page.req, c \in page.copy : Honest(req, c)

ListingInv == RowInv /\ PageInv /\ rowChanges \in 0 .. MaxRowChanges

\* A row's list, its badge and its availability tell the same.
LEMMA RowTells ==
    ASSUME RowInv
    PROVE  /\ listed = "cards" => /\ (CardBadge(row, row) = "RETIRED") = (Availability(row) = "RETIRED")
                                  /\ Availability(row) = "NONE" => CardBadge(row, row) = row.status
           /\ listed = "approvals" =>
                OpenApproval(row) = (ApprovalBadge(row, row) # "DECLINED" /\ row.status # "APPROVAL_USED")
<1>1. CASE listed = "cards"
  <2>1. row.status \in {"ACTIVE", "PAUSED", "CANCELLED"}
    BY <1>1 DEF RowInv, RowKind
  <2> QED BY <1>1, <2>1 DEF CardBadge, Availability
<1>2. CASE listed = "approvals"
  <2>1. row.status \in {"HELD", "AWAITING_APPROVAL", "DECLINED", "RETRY_APPROVED", "APPROVAL_USED"}
    BY <1>2 DEF RowInv, RowKind
  <2> QED BY <1>2, <2>1 DEF ApprovalBadge, OpenApproval
<1> QED BY <1>1, <1>2

LEMMA InvIsHonest == ListingInv => PageIsHonest
  BY RowTells DEF ListingInv, PageInv, Honest, PageIsHonest

\* The keys of a badge's where do not depend on the row.
LEMMA KeysStay ==
    ASSUME listed \in DOMAIN Lists, NEW b \in BadgesOf(listed), listed' = listed
    PROVE  DOMAIN BadgeWhere(b)' = DOMAIN BadgeWhere(b)
<1>1. CASE listed = "cards"
  BY <1>1 DEF BadgesOf, BadgeWhere, CardStateWhere, Only, Nothing
<1>2. CASE listed = "approvals"
  BY <1>2 DEF BadgesOf, BadgeWhere, ApprovalWhere, Only, Nothing
<1>3. CASE listed = "payments"
  BY <1>3 DEF BadgesOf, BadgeWhere, UiStatusWhere, Spread, Only, Nothing
<1>4. CASE listed = "users"
  BY <1>4 DEF BadgesOf, BadgeWhere, UserStatusWhere, Only, Nothing
<1>5. CASE listed = "tickets"
  BY <1>5 DEF BadgesOf, BadgeWhere, TicketStatusWhere, Only, Nothing
<1>6. CASE listed \notin {"cards", "approvals", "payments", "users", "tickets"}
  BY <1>6 DEF BadgesOf, BadgeWhere, Nothing
<1> QED BY <1>1, <1>2, <1>3, <1>4, <1>5, <1>6

\* The query meets the row as it is, so what WhereTells says of the row holds of the copy.
LEMMA FindKeeps ==
    ASSUME ListingInv, NEW req, req.badge \in BadgesOf(listed), req.text \in BOOLEAN, Find(req)
    PROVE  ListingInv'
<1>1. RowInv' /\ UNCHANGED <<listed, row, rowChanges>>
  BY DEF ListingInv, RowInv, Find, RowKind
<1>2. CASE ~Accepted(req)
  <2>1. page' = [pc |-> "refused", req |-> {}, copy |-> {}, badge |-> "none"]
    BY <1>2 DEF Find, NoPage
  <2> QED BY <1>1, <2>1 DEF ListingInv, PageInv
<1>3. CASE Accepted(req)
  <2>1. /\ page'.req = {req} /\ page'.copy = {row}
        /\ page' = [pc |-> page'.pc, req |-> page'.req, copy |-> page'.copy, badge |-> page'.badge]
        /\ page'.pc = IF Passes(Where(req)) THEN "found" ELSE "missed"
    BY <1>3 DEF Find, NoPage, Passes
  <2>2. Honest(req, row)'
    <3>1. listed \in DOMAIN Lists /\ BadgeIsShown(req.badge) /\ ShownIsFound(req.badge)
      BY BadgesAgree DEF ListingInv, RowInv
    <3>2. /\ page'.pc # "shown" /\ (page'.pc = "found" <=> Passes(Where(req)))
          /\ page'.pc = "missed" <=> ~Passes(Where(req))
      BY <2>1
    <3>3. Lists[listed].parent => req.parent
      BY <1>3 DEF Accepted
    <3>4. /\ Fits(req.badge, Badge(row, row))' <=> Fits(req.badge, Badge(row, row))
          /\ Badge(row, row)' = Badge(row, row) /\ BadgeWhere(req.badge)' = BadgeWhere(req.badge)
      BY <1>1 DEF Fits, Badge, CardBadge, ApprovalBadge, DeriveTxStatus, UserBadge, BadgeWhere,
         CardStateWhere, ApprovalWhere, UiStatusWhere, UserStatusWhere, TicketStatusWhere
    <3> QED BY <1>1, <1>3, <3>1, <3>2, <3>3, <3>4, WhereTells DEF Honest, BadgeIsShown, ShownIsFound
  <2> QED BY <1>1, <2>1, <2>2 DEF ListingInv, PageInv
<1> QED BY <1>2, <1>3

LEMMA ShowKeeps == ASSUME ListingInv, Show PROVE ListingInv'
<1>1. RowInv' /\ UNCHANGED <<listed, row, rowChanges>>
  BY DEF ListingInv, RowInv, Show, RowKind
<1>2. PICK c : page.copy = {c}
  BY DEF ListingInv, PageInv, Show
<1>3. /\ page'.req = page.req /\ page'.copy = {c} /\ page'.pc = "shown"
      /\ page' = [pc |-> page'.pc, req |-> page'.req, copy |-> page'.copy, badge |-> page'.badge]
      /\ page'.badge = Badge(c, row)
  BY <1>2 DEF ListingInv, PageInv, Show
<1>4. ASSUME NEW req \in page.req PROVE Honest(req, c)'
  <2>1. Honest(req, c) /\ page.pc = "found"
    BY <1>2, <1>4 DEF ListingInv, PageInv, Show
  <2>2. /\ BadgeWhere(req.badge)' = BadgeWhere(req.badge)
        /\ Badge(c, c)' = Badge(c, c) /\ (Fits(req.badge, Badge(c, c))' <=> Fits(req.badge, Badge(c, c)))
    BY <1>1, BadgesStay DEF BadgeWhere, CardStateWhere, ApprovalWhere, UiStatusWhere, UserStatusWhere,
       TicketStatusWhere
  <2> QED BY <1>1, <1>3, <2>1, <2>2 DEF Honest
<1> QED BY <1>1, <1>3, <1>4 DEF ListingInv, PageInv

\* A change of the row leaves the page alone, which was not shown yet.
LEMMA RowChangeKeeps ==
    ASSUME ListingInv, RowInv', NEW name, NEW next, Becomes(name, next)
    PROVE  ListingInv'
<1>1. /\ UNCHANGED <<listed, page>> /\ page.pc \in {"none", "found"}
      /\ rowChanges' \in 0 .. MaxRowChanges
  BY ListingAssumption DEF Becomes, ListingInv
<1>2. ASSUME NEW req \in page.req, NEW c \in page.copy PROVE Honest(req, c)'
  <2>1. DOMAIN BadgeWhere(req.badge)' = DOMAIN BadgeWhere(req.badge)
    BY <1>1, KeysStay DEF ListingInv, PageInv, RowInv
  <2>2. Honest(req, c)
    BY DEF ListingInv, PageInv
  <2>3. /\ Badge(c, c)' = Badge(c, c)
        /\ Fits(req.badge, Badge(c, c))' <=> Fits(req.badge, Badge(c, c))
    BY <1>1, BadgesStay
  <2> QED BY <1>1, <2>1, <2>2, <2>3 DEF Honest
<1>3. PageInv'
  BY <1>1, <1>2 DEF ListingInv, PageInv
<1> QED BY <1>1, <1>3 DEF ListingInv

\* Every change of a row leaves it a row of its list.
LEMMA CardChangesKeep == ASSUME ListingInv, listed = "cards", CardChanges PROVE ListingInv'
<1>1. /\ row.status \in {"ACTIVE", "PAUSED", "CANCELLED"} /\ (row.usedUp => row.retired)
      /\ row \in RowKind
  BY DEF ListingInv, RowInv, RowKind
<1>2. RowInv'
  <2>1. listed' = listed
    BY DEF CardChanges, SwitchCard, MarkRetired, DeadlinePasses, CorrectRules, UseCard, Becomes
  <2>2. row' \in RowKind /\ (row'.usedUp => row'.retired)
    <3> USE <1>1 DEF RowKind, Becomes
    <3>1. ASSUME NEW status \in {"ACTIVE", "PAUSED", "CANCELLED"}, SwitchCard(status)
          PROVE  row' \in RowKind /\ (row'.usedUp => row'.retired)
      BY <3>1 DEF SwitchCard
    <3>2. ASSUME NEW used \in BOOLEAN, MarkRetired(used)
          PROVE  row' \in RowKind /\ (row'.usedUp => row'.retired)
      BY <3>2 DEF MarkRetired
    <3>3. ASSUME DeadlinePasses
          PROVE  row' \in RowKind /\ (row'.usedUp => row'.retired)
      BY <3>3 DEF DeadlinePasses
    <3>4. ASSUME CorrectRules
          PROVE  row' \in RowKind /\ (row'.usedUp => row'.retired)
      BY <3>4 DEF CorrectRules
    <3>5. ASSUME NEW reserved \in BOOLEAN, NEW overspent \in BOOLEAN, UseCard(reserved, overspent)
          PROVE  row' \in RowKind /\ (row'.usedUp => row'.retired)
      BY <3>5 DEF UseCard
    <3> QED BY <3>1, <3>2, <3>3, <3>4, <3>5 DEF CardChanges
  <2> QED BY <2>1, <2>2 DEF ListingInv, RowInv, RowKind
<1> QED BY <1>2, RowChangeKeeps DEF CardChanges, SwitchCard, MarkRetired, DeadlinePasses,
       CorrectRules, UseCard

LEMMA ApprovalChangesKeep == ASSUME ListingInv, listed = "approvals", ApprovalChanges PROVE ListingInv'
<1>1. row \in RowKind
  BY DEF ListingInv, RowInv
<1>2. listed' = listed /\ row' \in RowKind
  <2> USE <1>1 DEF RowKind, Becomes
  <2>1. ASSUME NEW status \in {"RETRY_APPROVED", "DECLINED"}, DecideApproval(status)
        PROVE  listed' = listed /\ row' \in RowKind
    BY <2>1 DEF DecideApproval
  <2>2. ASSUME SpendApproval PROVE listed' = listed /\ row' \in RowKind
    BY <2>2 DEF SpendApproval
  <2>3. ASSUME ApprovalLapses PROVE listed' = listed /\ row' \in RowKind
    BY <2>3 DEF ApprovalLapses
  <2> QED BY <2>1, <2>2, <2>3 DEF ApprovalChanges
<1>3. RowInv'
  BY <1>2 DEF ListingInv, RowInv, RowKind
<1> QED BY <1>3, RowChangeKeeps DEF ApprovalChanges, DecideApproval, SpendApproval, ApprovalLapses

LEMMA PaymentChangesKeep ==
    ASSUME ListingInv, listed = "payments", NEW status \in {"SUCCESS", "FAIL"}, SettlePayment(status)
    PROVE  ListingInv'
<1>1. listed' = listed /\ row' \in RowKind
  BY DEF ListingInv, RowInv, RowKind, SettlePayment, Becomes
<1>2. RowInv'
  BY <1>1 DEF ListingInv, RowInv, RowKind
<1> QED BY <1>2, RowChangeKeeps DEF SettlePayment

LEMMA TicketChangesKeep ==
    ASSUME ListingInv, listed = "tickets", NEW status \in TicketStatuses, ChangeTicket(status)
    PROVE  ListingInv'
<1>1. listed' = listed /\ row' \in RowKind
  BY DEF ListingInv, RowInv, RowKind, ChangeTicket, Becomes
<1>2. RowInv'
  BY <1>1 DEF ListingInv, RowInv, RowKind
<1> QED BY <1>2, RowChangeKeeps DEF ChangeTicket

LEMMA UserChangesKeep ==
    ASSUME ListingInv, listed = "users", OpenUser \/ OnboardUser \/ ToggleUser
    PROVE  ListingInv'
<1>1. row \in RowKind
  BY DEF ListingInv, RowInv
<1>2. listed' = listed /\ row' \in RowKind
  <2> USE <1>1 DEF RowKind, Becomes
  <2>1. ASSUME OpenUser PROVE listed' = listed /\ row' \in RowKind
    BY <2>1 DEF OpenUser
  <2>2. ASSUME OnboardUser PROVE listed' = listed /\ row' \in RowKind
    BY <2>2 DEF OnboardUser
  <2>3. ASSUME ToggleUser PROVE listed' = listed /\ row' \in RowKind
    BY <2>3 DEF ToggleUser
  <2> QED BY <2>1, <2>2, <2>3
<1>3. RowInv'
  BY <1>2 DEF ListingInv, RowInv, RowKind
<1> QED BY <1>3, RowChangeKeeps DEF OpenUser, OnboardUser, ToggleUser

LEMMA ListingStarts == ListingInit => ListingInv
<1> SUFFICES ASSUME ListingInit PROVE ListingInv
  OBVIOUS
<1>1. RowInv
  <2>1. listed \in DOMAIN Lists /\ row \in RowsOf(listed)
    BY DEF ListingInit
  <2>2. CASE listed = "cards"
    BY <2>1, <2>2 DEF RowsOf, RowInv, RowKind
  <2>3. CASE listed = "approvals"
    BY <2>1, <2>3 DEF RowsOf, RowInv, RowKind
  <2>4. CASE listed = "payments"
    BY <2>1, <2>4 DEF RowsOf, RowInv, RowKind
  <2>5. CASE listed = "tickets"
    BY <2>1, <2>5 DEF RowsOf, RowInv, RowKind, TicketStatuses
  <2>6. CASE listed = "users"
    BY <2>1, <2>6 DEF RowsOf, RowInv, RowKind
  <2>7. CASE listed \notin {"cards", "approvals", "payments", "users", "tickets"}
    <3>1. row \in [ColumnsOf(Lists[listed]) -> Either]
      BY <2>1, <2>7 DEF RowsOf
    <3> QED BY <2>1, <2>7, <3>1 DEF RowInv, RowKind
  <2> QED BY <2>2, <2>3, <2>4, <2>5, <2>6, <2>7
<1>2. PageInv
  BY DEF ListingInit, NoPage, PageInv
<1> QED BY <1>1, <1>2, ListingAssumption DEF ListingInit, ListingInv

LEMMA ListingKeeps == ListingInv /\ [ListingNext]_listingVars => ListingInv'
<1>1. ASSUME ListingInv, UNCHANGED listingVars PROVE ListingInv'
  <2>1. RowInv'
    BY <1>1 DEF listingVars, ListingInv, RowInv, RowKind
  <2>2. ASSUME NEW req \in page.req, NEW c \in page.copy PROVE Honest(req, c)'
    <3>1. /\ Badge(c, c)' = Badge(c, c)
          /\ Fits(req.badge, Badge(c, c))' <=> Fits(req.badge, Badge(c, c))
      BY <1>1, BadgesStay DEF listingVars
    <3>2. DOMAIN BadgeWhere(req.badge)' = DOMAIN BadgeWhere(req.badge)
      BY <1>1, KeysStay DEF listingVars, ListingInv, PageInv, RowInv
    <3>3. Honest(req, c)
      BY <1>1 DEF ListingInv, PageInv
    <3> QED BY <1>1, <3>1, <3>2, <3>3 DEF Honest, listingVars
  <2>3. PageInv'
    BY <1>1, <2>2 DEF listingVars, ListingInv, PageInv, BadgesOf
  <2> QED BY <1>1, <2>1, <2>3 DEF listingVars, ListingInv
<1>2. ASSUME ListingInv, NEW req, req.badge \in BadgesOf(listed), req.text \in BOOLEAN, Find(req)
      PROVE  ListingInv'
  BY <1>2, FindKeeps
<1> QED BY <1>1, <1>2, ShowKeeps, CardChangesKeep, ApprovalChangesKeep, PaymentChangesKeep,
       TicketChangesKeep, UserChangesKeep DEF ListingNext

\* Type correctness of the paged lists: a row keeps every column its list shows or searches.
THEOREM ListingTypes == ListingSpec => []ListingTypeOK
<1>1. ListingSpec => []ListingInv
  BY ListingStarts, ListingKeeps, PTL DEF ListingSpec
<1>2. ASSUME ListingInv PROVE ListingTypeOK
  <2>1. ColumnsOf(Lists[listed]) \subseteq DOMAIN row
    <3> row \in RowKind /\ listed \in DOMAIN Lists
      BY <1>2 DEF ListingInv, RowInv
    <3>1. CASE listed = "cards"
      <4>1. DOMAIN row = {"userId", "cardType", "expirationType", "text", "status",
              "retired", "due", "usedUp", "valid", "bound", "reserved", "overspent"}
        BY <3>1 DEF RowKind
      <4> QED BY <3>1, <4>1 DEF ColumnsOf, Lists, Listing, CardList
    <3>2. CASE listed = "approvals"
      <4>1. DOMAIN row = {"userId", "text", "lapsed", "status"}
        BY <3>2 DEF RowKind
      <4> QED BY <3>2, <4>1 DEF ColumnsOf, Lists, Listing, ApprovalList
    <3>3. CASE listed = "payments"
      <4>1. DOMAIN row = {"type", "isRecurring", "text", "status", "thresholdWarning", "approvalStatus"}
        BY <3>3 DEF RowKind
      <4> QED BY <3>3, <4>1 DEF ColumnsOf, Lists, Listing, PaymentList
    <3>4. CASE listed = "tickets"
      <4>1. DOMAIN row = {"text", "status"}
        BY <3>4 DEF RowKind
      <4> QED BY <3>4, <4>1 DEF ColumnsOf, Lists, Listing, TicketList
    <3>5. CASE listed = "users"
      <4>1. DOMAIN row = {"text", "emailVerified", "phoneVerified", "onboarded", "account", "active"}
        BY <3>5 DEF RowKind
      <4> QED BY <3>5, <4>1 DEF ColumnsOf, Lists, Listing, UserList
    <3>6. CASE listed \notin {"cards", "approvals", "payments", "tickets", "users"}
      <4>1. row \in [ColumnsOf(Lists[listed]) -> Either]
        BY <3>6 DEF RowKind
      <4> QED BY <4>1
    <3> QED BY <3>1, <3>2, <3>3, <3>4, <3>5, <3>6
  <2> QED BY <1>2, <2>1 DEF ListingInv, RowInv, PageInv, ListingTypeOK
<1> QED BY <1>1, <1>2, PTL

\* The lists of cards, approvals, transactions, users, tickets and the others: whatever filter, badge
\* and search are asked for together, a page has the caller's rows that fit, misses none, and shows
\* the badge asked for unless the row has changed since the query.
THEOREM PagesAreHonest == ListingSpec => []PageIsHonest
<1>1. ListingSpec => []ListingInv
  BY ListingStarts, ListingKeeps, PTL DEF ListingSpec
<1> QED BY <1>1, InvIsHonest, PTL
===============================================================================
