---------------------------- MODULE CustomerSetup ----------------------------
(***************************************************************************)
(* How one user's finance_customers row gets its Safe Haven subaccount and *)
(* its Sudo cardholder: initiate, completeBank and cardholder of           *)
(* FinanceIdentityService and the administrator's reconciliation, when     *)
(* requests overlap, a provider refuses, an answer is lost or the server   *)
(* stops while it waits.  None of these handlers takes the owner's row     *)
(* lock: what a request read before an await may be old when it writes.    *)
(***************************************************************************)
EXTENDS Integers

CONSTANTS
    Requests,       \* requests that can be in progress at once
    MaxIdentities,  \* identity checks started at Safe Haven
    MaxFaults       \* lost answers, POSTs that never arrive, server stops

ASSUME SetupAssumption == MaxIdentities \in Nat /\ MaxFaults \in Nat

VARIABLES
    customer,  \* the finance_customers row
    kyc,       \* kyc_verifications.providerRef: the identity check, 0 without a row
    email,     \* profiles.email, as the number of changes to it
    request,   \* request[r]: where a handler is, the rows it read, what it found
    safeHaven, \* Safe Haven: identity checks started, subaccounts opened
    cardholders, \* Sudo: the e-mail each customer record was created with
    setupFaults

setupVars == <<customer, kyc, email, request, safeHaven, cardholders, setupFaults>>

Progress == {"PENDING", "PROCESSING", "READY"}

\* Rows: ref is identityRef, account and holder say that the providers' ids are stored.
Rows == [exists : BOOLEAN, ref : 0..MaxIdentities, bank : Progress, sudo : Progress,
         account : BOOLEAN, holder : BOOLEAN, status : {"PENDING", "READY"}]
NoRow == [exists |-> FALSE, ref |-> 0, bank |-> "PENDING", sudo |-> "PENDING",
          account |-> FALSE, holder |-> FALSE, status |-> "PENDING"]
IdleRequest == [pc |-> "idle", read |-> NoRow, email |-> 0, foundAccount |-> FALSE, foundHolder |-> FALSE]

RequestPcs == {"idle", "identify", "claimBank", "openAccount", "accountOpened", "bankRefused",
               "claimHolder", "createHolder", "holderCreated", "holderRefused", "listHolders",
               "listAccounts", "reconcile"}
RequestState == [pc : RequestPcs, read : Rows, email : 0..1,
                 foundAccount : BOOLEAN, foundHolder : BOOLEAN]

SetupTypeOK ==
    /\ customer \in Rows /\ kyc \in 0..MaxIdentities /\ email \in 0..1
    /\ request \in [Requests -> RequestState]
    /\ safeHaven \in [identities : 0..MaxIdentities, accounts : Nat]
    /\ cardholders \in [0..1 -> Nat] /\ setupFaults \in 0..MaxFaults

SetupInit ==
    /\ customer = NoRow /\ kyc = 0 /\ email = 0
    /\ request = [r \in Requests |-> IdleRequest]
    /\ safeHaven = [identities |-> 0, accounts |-> 0]
    /\ cardholders = [e \in 0..1 |-> 0] /\ setupFaults = 0

Begin(r, pc) == /\ request[r].pc = "idle"
                /\ request' = [request EXCEPT ![r] =
                     [IdleRequest EXCEPT !.pc = pc, !.read = customer, !.email = email]]
Step(r, from, to) == /\ request[r].pc = from
                     /\ request' = [request EXCEPT ![r].pc = to]
Finish(r, from) == request[r].pc = from /\ request' = [request EXCEPT ![r] = IdleRequest]
Fault == setupFaults < MaxFaults /\ setupFaults' = setupFaults + 1
NoFault == UNCHANGED setupFaults
ProvidersUnchanged == UNCHANGED <<safeHaven, cardholders>>

(***************************************************************************)
(* initiate: Safe Haven sends the user an OTP for a new identity check.    *)
(***************************************************************************)
Initiate(r) ==
    /\ customer.bank = "PENDING" /\ Begin(r, "identify")
    /\ NoFault /\ ProvidersUnchanged /\ UNCHANGED <<customer, kyc, email>>

StoreIdentity(r) ==
    /\ Finish(r, "identify") /\ safeHaven.identities < MaxIdentities
    /\ safeHaven' = [safeHaven EXCEPT !.identities = @ + 1]
    /\ customer' = [customer EXCEPT !.exists = TRUE, !.ref = safeHaven.identities + 1]
    /\ NoFault /\ UNCHANGED <<kyc, email, cardholders>>

IdentityFails(r) ==
    /\ Finish(r, "identify")
    /\ NoFault /\ ProvidersUnchanged /\ UNCHANGED <<customer, kyc, email>>

(***************************************************************************)
(* completeBank.  The caller names the identity check it has the OTP of.   *)
(***************************************************************************)
CompleteBank(r) ==
    /\ customer.exists /\ customer.ref > 0 /\ ~customer.account /\ Begin(r, "claimBank")
    /\ NoFault /\ ProvidersUnchanged /\ UNCHANGED <<customer, kyc, email>>

ClaimBank(r) ==
    /\ IF customer.bank = "PENDING"
       THEN /\ Step(r, "claimBank", "openAccount")
            /\ customer' = [customer EXCEPT !.bank = "PROCESSING"]
       ELSE Finish(r, "claimBank") /\ UNCHANGED customer
    /\ NoFault /\ ProvidersUnchanged /\ UNCHANGED <<kyc, email>>

\* POST /accounts/v2/subaccount: an answer, a refusal, or neither.
OpenAccount(r) ==
    /\ Step(r, "openAccount", "accountOpened")
    /\ safeHaven' = [safeHaven EXCEPT !.accounts = @ + 1]
    /\ NoFault /\ UNCHANGED <<customer, kyc, email, cardholders>>
RefuseAccount(r) ==
    /\ Step(r, "openAccount", "bankRefused")
    /\ NoFault /\ ProvidersUnchanged /\ UNCHANGED <<customer, kyc, email>>

RecordAccount(r) ==
    /\ Finish(r, "accountOpened")
    /\ customer' = [customer EXCEPT !.account = TRUE, !.bank = "READY",
                       !.status = IF request[r].read.holder THEN "READY" ELSE "PENDING"]
    /\ kyc' = request[r].read.ref
    /\ NoFault /\ ProvidersUnchanged /\ UNCHANGED email

BankRefused(r) ==
    /\ Finish(r, "bankRefused") /\ customer' = [customer EXCEPT !.bank = "PENDING"]
    /\ NoFault /\ ProvidersUnchanged /\ UNCHANGED <<kyc, email>>

(***************************************************************************)
(* cardholder.                                                             *)
(***************************************************************************)
Cardholder(r) ==
    /\ ~customer.holder /\ Begin(r, "claimHolder")
    /\ customer' = [customer EXCEPT !.exists = TRUE]
    /\ NoFault /\ ProvidersUnchanged /\ UNCHANGED <<kyc, email>>

ClaimHolder(r) ==
    /\ IF customer.sudo = "PENDING"
       THEN /\ Step(r, "claimHolder", "createHolder")
            /\ customer' = [customer EXCEPT !.sudo = "PROCESSING"]
       ELSE Finish(r, "claimHolder") /\ UNCHANGED customer
    /\ NoFault /\ ProvidersUnchanged /\ UNCHANGED <<kyc, email>>

\* POST /customers of Sudo.
CreateHolder(r) ==
    /\ Step(r, "createHolder", "holderCreated")
    /\ cardholders' = [cardholders EXCEPT ![request[r].email] = @ + 1]
    /\ NoFault /\ UNCHANGED <<customer, kyc, email, safeHaven>>
RefuseHolder(r) ==
    /\ Step(r, "createHolder", "holderRefused")
    /\ NoFault /\ ProvidersUnchanged /\ UNCHANGED <<customer, kyc, email>>

RecordHolder(r) ==
    /\ Finish(r, "holderCreated")
    /\ customer' = [customer EXCEPT !.holder = TRUE, !.sudo = "READY",
                       !.status = IF request[r].read.account THEN "READY" ELSE "PENDING"]
    /\ NoFault /\ ProvidersUnchanged /\ UNCHANGED <<kyc, email>>

HolderRefused(r) ==
    /\ Finish(r, "holderRefused") /\ customer' = [customer EXCEPT !.sudo = "PENDING"]
    /\ NoFault /\ ProvidersUnchanged /\ UNCHANGED <<kyc, email>>

(***************************************************************************)
(* An answer is lost after the provider did its part, the POST never       *)
(* arrives, or the server stops: the claim stays PROCESSING.               *)
(***************************************************************************)
\* Mutant: an unknown outcome gives the claim up like a refusal.
StopForgets(r) ==
    /\ request[r].pc # "idle" /\ request' = [request EXCEPT ![r] = IdleRequest]
    /\ customer' = CASE request[r].pc \in {"openAccount", "accountOpened"} ->
                          [customer EXCEPT !.bank = "PENDING"]
                     [] OTHER -> customer
    /\ Fault /\ ProvidersUnchanged /\ UNCHANGED <<kyc, email>>

Stop(r) ==
    /\ request[r].pc # "idle" /\ request' = [request EXCEPT ![r] = IdleRequest]
    /\ Fault /\ ProvidersUnchanged /\ UNCHANGED <<customer, kyc, email>>

(***************************************************************************)
(* FinanceReconciliation.customer: an administrator reads both providers   *)
(* back.  Sudo's records are found by the profile's present e-mail.        *)
(***************************************************************************)
Reconcile(r) ==
    /\ customer.exists /\ Begin(r, "listHolders")
    /\ NoFault /\ ProvidersUnchanged /\ UNCHANGED <<customer, kyc, email>>

ListHolders(r) ==
    LET read == request[r].read IN
    /\ request[r].pc = "listHolders"
    /\ request' = [request EXCEPT ![r].pc = "listAccounts",
          ![r].foundHolder = read.sudo = "PROCESSING" /\ ~read.holder
                           /\ cardholders[request[r].email] = 1]
    /\ NoFault /\ ProvidersUnchanged /\ UNCHANGED <<customer, kyc, email>>

ListAccounts(r) ==
    LET read == request[r].read IN
    /\ request[r].pc = "listAccounts"
    /\ request' = [request EXCEPT ![r].pc = "reconcile",
          ![r].foundAccount = read.bank = "PROCESSING" /\ ~read.account /\ safeHaven.accounts = 1]
    /\ NoFault /\ ProvidersUnchanged /\ UNCHANGED <<customer, kyc, email>>

RecordReconciliation(r) ==
    LET q == request[r] IN
    /\ Finish(r, "reconcile")
    /\ customer' = [customer EXCEPT
          !.holder = IF q.foundHolder THEN TRUE ELSE @,
          !.sudo = IF q.foundHolder THEN "READY" ELSE @,
          !.account = IF q.foundAccount THEN TRUE ELSE @,
          !.bank = IF q.foundAccount THEN "READY" ELSE @,
          !.status = IF (q.read.holder \/ q.foundHolder) /\ (q.read.account \/ q.foundAccount)
                     THEN "READY" ELSE "PENDING"]
    /\ NoFault /\ ProvidersUnchanged /\ UNCHANGED <<kyc, email>>

\* The user confirms a new e-mail address in the profile hub.
ChangeEmail ==
    /\ email = 0 /\ email' = 1
    /\ NoFault /\ ProvidersUnchanged /\ UNCHANGED <<customer, kyc, request>>

RequestStep(r) ==
    \/ Initiate(r) \/ StoreIdentity(r) \/ IdentityFails(r)
    \/ CompleteBank(r) \/ ClaimBank(r) \/ OpenAccount(r) \/ RefuseAccount(r)
    \/ RecordAccount(r) \/ BankRefused(r)
    \/ Cardholder(r) \/ ClaimHolder(r) \/ CreateHolder(r) \/ RefuseHolder(r)
    \/ RecordHolder(r) \/ HolderRefused(r)
    \/ Reconcile(r) \/ ListHolders(r) \/ ListAccounts(r) \/ RecordReconciliation(r)
    \/ Stop(r)

SetupNext == ChangeEmail \/ \E r \in Requests : RequestStep(r)

SetupSpec == SetupInit /\ [][SetupNext]_setupVars

(***************************************************************************)
(* Properties.                                                             *)
(***************************************************************************)
\* "Never repeat provisioning POSTs" (finance-reconciliation.service.ts:8): whatever
\* overlaps or is lost, the providers hold at most one subaccount and one cardholder of
\* the user, and a customer who may be issued cards has both, each on record.
ProvisionedOnce ==
    /\ safeHaven.accounts <= 1 /\ cardholders[0] + cardholders[1] <= 1
    /\ customer.account => safeHaven.accounts = 1
    /\ customer.holder => cardholders[0] + cardholders[1] = 1
    /\ customer.status = "READY" => customer.account /\ customer.holder

\* ISSUE refuses a customer whose status is not READY with "Complete banking and card
\* identity verification first" (finance.service.ts:215-217): once both are complete and
\* no request is in progress, the customer is READY.
ReadyWhenComplete ==
    customer.account /\ customer.holder /\ (\A r \in Requests : request[r].pc = "idle")
        => customer.status = "READY"
===============================================================================
