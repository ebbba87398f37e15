------------------------------ MODULE Merchants ------------------------------
(***************************************************************************)
(* Verified merchants of one user's MERCHANT card: identities observed at  *)
(* checkouts, the reviewed catalog, and the three ways a card's allowlist  *)
(* is written or used: RULES (resolveRules), MERCHANT_BIND (bind) and an   *)
(* authorization.  The user's commands and authorizations run one at a     *)
(* time under the owner's row lock; administrators take no lock of theirs, *)
(* so the rows a command relies on are share-locked until it commits.      *)
(***************************************************************************)
EXTENDS Integers, FiniteSets

CONSTANTS
    Identities,     \* finance_merchant_identities
    Catalogs,       \* finance_merchant_catalog
    Admins,         \* administrators' requests in progress
    MaxVersion,     \* bound: versions of a catalog row
    MaxRules,       \* bound: versions of the card's rules
    MaxCandidates   \* candidates of one enrollment

ASSUME MerchantAssumption == MaxVersion \in Nat /\ MaxRules \in Nat /\ MaxCandidates \in Nat

VARIABLES
    revoked,    \* identities with revokedAt
    access,     \* identities the user has met (finance_merchant_access)
    catalog,    \* catalog[c]: status ("none" without a row), version, identityIds
    admin,      \* admin[a]: a publication or revocation and the row it read
    allowed,    \* merchantIds of the card's MERCHANT lock
    rules,      \* cards.rulesVersion
    enrollment, \* the newest enrollment and its candidates
    command     \* the user's transaction in progress and its share locks

merchantVars == <<revoked, access, catalog, admin, allowed, rules, enrollment, command>>

Versions == 0..MaxVersion
NoCatalog == [status |-> "none", version |-> 0, ids |-> {}]
IdleAdmin == [pc |-> "idle", cat |-> CHOOSE c \in Catalogs : TRUE, ids |-> {}]
IdleCommand == [pc |-> "idle", cat |-> {}, version |-> 0, ids |-> {}, locked |-> {}]

MerchantTypeOK ==
    /\ revoked \subseteq Identities /\ access \subseteq Identities
    /\ catalog \in [Catalogs -> [status : {"none", "DRAFT", "PUBLISHED", "REVOKED"},
                                 version : Versions, ids : SUBSET Identities]]
    /\ admin \in [Admins -> [pc : {"idle", "publish", "write", "revoke"}, cat : Catalogs,
                             ids : SUBSET Identities]]
    /\ allowed \subseteq Identities /\ rules \in 1..MaxRules
    /\ enrollment \in [status : {"NONE", "PENDING", "EXPIRED", "BOUND"}, version : 0..MaxRules,
                       late : BOOLEAN, candidates : SUBSET Identities]
    /\ command \in [pc : {"idle", "choose", "rules", "bind"}, cat : SUBSET Catalogs,
                    version : Versions, ids : SUBSET Identities, locked : SUBSET Identities]

MerchantInit ==
    /\ revoked = {} /\ access = {} /\ catalog = [c \in Catalogs |-> NoCatalog]
    /\ admin = [a \in Admins |-> IdleAdmin]
    /\ allowed = {} /\ rules = 1
    /\ enrollment = [status |-> "NONE", version |-> 0, late |-> FALSE, candidates |-> {}]
    /\ command = IdleCommand

OwnerLockFree == command.pc = "idle"
CatalogUnlocked(c) == c \notin command.cat
IdentitiesUnlocked(ids) == ids \cap command.locked = {}
AdminIdle(a) == admin[a].pc = "idle"
CardUnchanged == UNCHANGED <<allowed, rules, enrollment, command>>

(***************************************************************************)
(* Administrators: reviewCatalog and publish, whose revoke arm is a        *)
(* transaction that read its catalog row earlier.                          *)
(***************************************************************************)
Review(c, ids) ==
    /\ CatalogUnlocked(c) /\ ids # {} /\ catalog[c].version < MaxVersion
    /\ catalog' = [catalog EXCEPT ![c] =
                     [status |-> "DRAFT", version |-> @.version + 1, ids |-> ids]]
    /\ access' = access \cup ids
    /\ CardUnchanged /\ UNCHANGED <<revoked, admin>>

\* The version the administrator inspected is the row's, when it is read.
PublishReads(a, c, pc) ==
    /\ AdminIdle(a) /\ catalog[c].status # "none"
    /\ admin' = [admin EXCEPT ![a] = [pc |-> pc, cat |-> c, ids |-> catalog[c].ids]]
    /\ CardUnchanged /\ UNCHANGED <<revoked, access, catalog>>

PublishCounts(a) ==
    /\ admin[a].pc = "publish"
    /\ admin' = [admin EXCEPT ![a] = IF @.ids \cap revoked = {} THEN [@ EXCEPT !.pc = "write"]
                                     ELSE IdleAdmin]
    /\ CardUnchanged /\ UNCHANGED <<revoked, access, catalog>>

PublishWrites(a) ==
    LET c == admin[a].cat IN
    /\ admin[a].pc = "write" /\ CatalogUnlocked(c) /\ catalog[c].version < MaxVersion
    /\ catalog' = [catalog EXCEPT ![c].status = "PUBLISHED", ![c].version = @ + 1]
    /\ admin' = [admin EXCEPT ![a] = IdleAdmin]
    /\ CardUnchanged /\ UNCHANGED <<revoked, access>>

\* One commit: its row locks wait for the share locks of a command.
Revoke(a) ==
    LET ids == admin[a].ids
        hit == {admin[a].cat} \cup {c \in Catalogs : catalog[c].ids \cap ids # {}}
    IN  /\ admin[a].pc = "revoke" /\ IdentitiesUnlocked(ids)
        /\ \A c \in hit : CatalogUnlocked(c) /\ catalog[c].version < MaxVersion
        /\ revoked' = revoked \cup ids
        /\ catalog' = [c \in Catalogs |-> IF c \in hit
                         THEN [catalog[c] EXCEPT !.status = "REVOKED", !.version = @ + 1]
                         ELSE catalog[c]]
        /\ admin' = [admin EXCEPT ![a] = IdleAdmin]
        /\ CardUnchanged /\ UNCHANGED access

(***************************************************************************)
(* RULES with a catalog choice and its version, or with an identity.       *)
(***************************************************************************)
\* An identity the user has met, or one a card of the user already allows.
Choosable(i) == i \notin revoked /\ (i \in access \/ i \in allowed)

\* Mutant: the identities of a choice are read without FOR SHARE.
ShareChoice(ids) == command' = [command EXCEPT !.pc = "rules", !.ids = ids]
LockChoice(ids) == command' = [command EXCEPT !.pc = "rules", !.ids = ids, !.locked = ids]

ChooseCatalog(c, version) ==
    /\ OwnerLockFree /\ rules < MaxRules
    /\ catalog[c].status = "PUBLISHED" /\ catalog[c].version = version
    /\ command' = [IdleCommand EXCEPT !.pc = "choose", !.cat = {c}, !.version = version]
    /\ UNCHANGED <<revoked, access, catalog, admin, allowed, rules, enrollment>>

\* resolveRules locks the identities of the row and then counts the valid ones.
CheckCatalog ==
    /\ command.pc = "choose"
    /\ LET ids == UNION {catalog[c].ids : c \in command.cat} IN
       IF ids # {} /\ ids \cap revoked = {} THEN LockChoice(ids) ELSE command' = IdleCommand
    /\ UNCHANGED <<revoked, access, catalog, admin, allowed, rules, enrollment>>

ChooseIdentity(i) ==
    /\ OwnerLockFree /\ rules < MaxRules /\ Choosable(i)
    /\ LockChoice({i})
    /\ UNCHANGED <<revoked, access, catalog, admin, allowed, rules, enrollment>>

\* The rest of the command: a new allowlist, and a pending enrollment ends.
CommitRules ==
    /\ command.pc = "rules" /\ command' = IdleCommand
    /\ allowed' = command.ids /\ rules' = rules + 1
    /\ enrollment' = [enrollment EXCEPT !.status = IF @ = "PENDING" THEN "EXPIRED" ELSE @]
    /\ UNCHANGED <<revoked, access, catalog, admin>>

(***************************************************************************)
(* Enrollment: start, the candidate of a declined checkout, bind.          *)
(***************************************************************************)
Enroll ==
    /\ OwnerLockFree
    /\ enrollment' = [status |-> "PENDING", version |-> rules, late |-> FALSE, candidates |-> {}]
    /\ UNCHANGED <<revoked, access, catalog, admin, allowed, rules, command>>

TenMinutesPass ==
    /\ enrollment.status = "PENDING" /\ ~enrollment.late
    /\ enrollment' = [enrollment EXCEPT !.late = TRUE]
    /\ UNCHANGED <<revoked, access, catalog, admin, allowed, rules, command>>

Enrolling == enrollment.status = "PENDING" /\ enrollment.version = rules /\ ~enrollment.late

\* observe and the merchant checks of an authorization, in one transaction.
Authorize(i) ==
    /\ OwnerLockFree /\ access' = access \cup {i}
    /\ enrollment' = [enrollment EXCEPT !.candidates =
         IF Enrolling /\ i \notin allowed \cup revoked /\ Cardinality(@) < MaxCandidates
         THEN @ \cup {i} ELSE @]
    /\ UNCHANGED <<revoked, catalog, admin, allowed, rules, command>>

ChooseCandidate(i) ==
    /\ OwnerLockFree /\ rules < MaxRules
    /\ Enrolling /\ i \in enrollment.candidates /\ i \notin revoked
    /\ command' = [IdleCommand EXCEPT !.pc = "bind", !.ids = {i}, !.locked = {i}]
    /\ UNCHANGED <<revoked, access, catalog, admin, allowed, rules, enrollment>>

\* Its expiry was checked by the transaction's own clock when it looked the candidate up.
Bind ==
    /\ command.pc = "bind" /\ command' = IdleCommand
    /\ allowed' = allowed \cup command.ids /\ rules' = rules + 1
    /\ enrollment' = [enrollment EXCEPT !.status = "BOUND"]
    /\ UNCHANGED <<revoked, access, catalog, admin>>

MerchantNext ==
    \/ \E c \in Catalogs :
         \/ \E ids \in SUBSET Identities : Review(c, ids)
         \/ \E a \in Admins, pc \in {"publish", "revoke"} : PublishReads(a, c, pc)
         \/ \E version \in Versions : ChooseCatalog(c, version)
    \/ \E a \in Admins : PublishCounts(a) \/ PublishWrites(a) \/ Revoke(a)
    \/ \E i \in Identities : ChooseIdentity(i) \/ Authorize(i) \/ ChooseCandidate(i)
    \/ CheckCatalog \/ CommitRules \/ Enroll \/ TenMinutesPass \/ Bind

MerchantSpec == MerchantInit /\ [][MerchantNext]_merchantVars

(***************************************************************************)
(* Properties.                                                             *)
(***************************************************************************)
\* "Revocation blocks the identities on existing cards immediately", choices name a catalog
\* version and a candidate is confirmed within its enrollment (docs/sudo-safehaven.md:150-167).
\* When a command commits, whatever administrators did since it looked: no identity that
\* it adds is revoked, and a catalog choice is still published, in that version and with
\* exactly those identities.
BindingsAreCurrent ==
    [][/\ (allowed' \ allowed) \cap revoked' = {}
       /\ command.pc = "rules" /\ command.cat # {} /\ command'.pc = "idle" =>
            \A c \in command.cat : /\ catalog[c].status = "PUBLISHED"
                                   /\ catalog[c].version = command.version
                                   /\ catalog[c].ids = allowed']_merchantVars
===============================================================================
