----------------------------- MODULE Administration -----------------------------
(***************************************************************************)
(* What administrators change: the flags of a user's account and wallet,   *)
(* broadcasts to every verified profile, and rows of the tables that the   *)
(* data-grid's registry opens.  Each request writes first and is audited   *)
(* afterwards; requests overlap and may stop anywhere.                     *)
(*                                                                         *)
(* A grid row is its table, the columns it was given and the row it refers *)
(* to.  Values are well-formed or not; paging and sorting are left out.    *)
(***************************************************************************)
EXTENDS Integers, FiniteSets

CONSTANTS
    Members,      \* profiles
    Orders,       \* requests of administrators, each made once
    ChunkSize     \* INSERT_CHUNK

ASSUME ChunkAssumption == ChunkSize \in Nat \ {0} /\ IsFiniteSet(Members)

VARIABLES
    member,       \* profiles with their account and wallet
    order,        \* where each request is
    copies,       \* notifications of broadcasts that are committed: <<order, member>>
    broadcasts,   \* Broadcast.recipientCount of each broadcast sent
    gridRows,     \* rows made through the grid
    incomplete,   \* the database missed a column that the registry did not ask for
    logged        \* requests with their AuditLog row

administrationVars == <<member, order, copies, broadcasts, gridRows, incomplete, logged>>

(***************************************************************************)
(* The registry, and what the schema demands.                              *)
(***************************************************************************)
Table(methods, required, optional, server, searchable) ==
    [methods |-> methods, required |-> required, optional |-> optional,
     server |-> server \cup {"id", "createdAt"}, searchable |-> searchable]
ReadOnly == {"list", "get"}
Grid == ReadOnly \cup {"create", "update", "delete"}

Registry ==
    [cardLocks |-> Table(ReadOnly, {"cardId", "lockType"}, {"config", "isActive"}, {}, {}),
     cardCategories |-> Table(ReadOnly, {"cardId", "category"}, {"isAllowed"}, {}, {}),
     chats |-> Table(Grid, {"userId"}, {"title"}, {"updatedAt"}, {"title"}),
     messages |-> Table(Grid \ {"update"}, {"chatId", "role", "content"}, {}, {}, {"content"}),
     thresholds |-> Table(ReadOnly, {"userId", "thresholdType", "thresholdValue"}, {"isActive"}, {"updatedAt"}, {}),
     biometricDevices |-> Table(Grid, {"userId", "deviceId", "deviceName", "biometricType", "publicKey"},
                                {"isActive"}, {"lastUsedAt", "updatedAt"}, {"deviceId", "deviceName"}),
     notifications |-> Table(Grid, {"userId", "title", "content"}, {"status", "type", "metadata"},
                             {"readAt"}, {"title", "content"}),
     cardProviders |-> Table(Grid, {"name", "baseUrl"}, {"isActive"}, {"updatedAt"}, {"name", "baseUrl"}),
     auditLogs |-> Table(ReadOnly, {}, {}, {"userId", "action", "entityType", "entityId", "metadata",
                                            "ipAddress", "userAgent"}, {"action", "entityType"}),
     waitlist |-> Table(ReadOnly \cup {"delete"}, {}, {}, {"email", "name", "firstName", "lastName", "phone", "source"},
                        {"email", "name", "firstName", "lastName", "phone"}),
     contacts |-> Table(ReadOnly, {}, {}, {"name", "email", "subject", "message"}, {"name", "email", "subject"})]
Resources == DOMAIN Registry
Visible(res) == Registry[res].required \cup Registry[res].optional \cup Registry[res].server

\* Columns of the tables that may be created which are not null and have no default.
Mandatory ==
    [chats |-> {"userId"}, messages |-> {"chatId", "role", "content"},
     biometricDevices |-> {"userId", "deviceId", "deviceName", "biometricType"},
     notifications |-> {"userId", "title", "content"}, cardProviders |-> {"name", "baseUrl"}]

FieldKind(field) ==
    CASE field \in {"id", "cardId", "userId", "chatId", "entityId"} -> "uuid"
      [] field \in {"lockType", "category", "role", "thresholdType", "biometricType", "status", "type"} -> "enum"
      [] field \in {"config", "metadata"} -> "json"
      [] field \in {"isActive", "isAllowed"} -> "boolean"
      [] field = "thresholdValue" -> "decimal"
      [] field \in {"createdAt", "updatedAt", "lastUsedAt", "readAt"} -> "datetime"
      [] OTHER -> "string"

FilterOperators == {"eq", "contains", "startsWith", "endsWith", "gt", "gte", "lt", "lte"}
OpsFor(kind) ==
    CASE kind = "string" -> {"eq", "contains", "startsWith", "endsWith"}
      [] kind \in {"decimal", "datetime"} -> {"eq", "gt", "gte", "lt", "lte"}
      [] kind = "json" -> {}
      [] OTHER -> {"eq"}
DefaultOp(kind) == IF kind = "string" THEN "contains" ELSE "eq"

\* coerce: a filter's value is a string, and the grid takes a boolean only as a boolean.
CoercedFromString(kind) == kind # "boolean"

\* An entry is field:value, which "" stands for, or field:op:value.
EntryOp(op, kind) == IF op \in FilterOperators THEN op ELSE DefaultOp(kind)
FilterAccepted(res, field, op) ==
    LET kind == FieldKind(field) IN
    field \in Visible(res) /\ CoercedFromString(kind) /\ EntryOp(op, kind) \in OpsFor(kind)

\* assertCrudRegistryInvariants, at the start of the process.
RegistryIsConsistent ==
    \A res \in Resources :
        LET def == Registry[res] IN
        /\ def.methods # {} /\ def.required \cap def.server = {}
        /\ \A f \in def.searchable : f \in Visible(res) /\ FieldKind(f) = "string"
ASSUME ProcessStarts == RegistryIsConsistent

(***************************************************************************)
(* State.                                                                  *)
(***************************************************************************)
NewOrder == [pc |-> "new", kind |-> "none", about |-> {}, draft |-> {}]
Running == {"decided", "sending", "audit"}

AdministrationTypeOK ==
    /\ member \in [Members -> [emailVerified : BOOLEAN, onboarded : BOOLEAN, account : BOOLEAN,
                               accountActive : BOOLEAN, walletActive : BOOLEAN]]
    /\ \A o \in Orders : order[o].pc \in Running \cup {"new", "done", "refused", "stopped"}
    /\ copies \subseteq Orders \X Members /\ broadcasts \subseteq Orders \X Nat
    /\ \A row \in gridRows : row.table \in Resources
    /\ incomplete \in BOOLEAN /\ logged \subseteq Orders

\* by: the request that made the row, {} for a user.
UsersChat == [by |-> {}, table |-> "chats", columns |-> {"userId"}, ref |-> {}]

\* A profile starts without account; account and wallet come together.
AdministrationInit ==
    /\ member = [m \in Members |-> [emailVerified |-> FALSE, onboarded |-> FALSE, account |-> FALSE,
                                    accountActive |-> FALSE, walletActive |-> FALSE]]
    /\ order = [o \in Orders |-> NewOrder]
    /\ copies = {} /\ broadcasts = {} /\ gridRows \in {{}, {UsersChat}} /\ incomplete = FALSE /\ logged = {}

Advance(o, pc) == order' = [order EXCEPT ![o].pc = pc]
Order(o, pc, kind, about) == /\ order[o].pc = "new"
                             /\ order' = [order EXCEPT ![o] = [pc |-> pc, kind |-> kind, about |-> about, draft |-> {}]]

\* An invited user's profile starts verified, and is provisioned after that.
VerifyMember(m) ==
    /\ ~member[m].emailVerified /\ member' = [member EXCEPT ![m].emailVerified = TRUE]
    /\ UNCHANGED <<order, copies, broadcasts, gridRows, incomplete, logged>>

\* One transaction verifies the address and makes both rows.
ProvisionMember(m) ==
    /\ ~member[m].account
    /\ member' = [member EXCEPT ![m] = [@ EXCEPT !.emailVerified = TRUE, !.account = TRUE,
                                                 !.accountActive = TRUE, !.walletActive = TRUE]]
    /\ UNCHANGED <<order, copies, broadcasts, gridRows, incomplete, logged>>

\* Whoever can sign in may complete the profile, provisioned or not.
CompleteOnboarding(m) ==
    /\ member[m].emailVerified /\ ~member[m].onboarded /\ member' = [member EXCEPT ![m].onboarded = TRUE]
    /\ UNCHANGED <<order, copies, broadcasts, gridRows, incomplete, logged>>

(***************************************************************************)
(* AdminConsoleUsersService.                                               *)
(***************************************************************************)
DeriveStatus(m) ==
    IF m.account /\ (~m.accountActive \/ ~m.walletActive) THEN "suspended"
    ELSE IF ~m.account \/ ~m.emailVerified \/ ~m.onboarded THEN "pending" ELSE "active"

StatusWhere(status) ==
    {m \in Members :
        CASE status = "active" -> /\ member[m].emailVerified /\ member[m].onboarded
                                  /\ member[m].account /\ member[m].accountActive /\ member[m].walletActive
          [] status = "suspended" -> member[m].account /\ ~(member[m].accountActive /\ member[m].walletActive)
          [] status = "pending" -> ~member[m].emailVerified \/ ~member[m].onboarded \/ ~member[m].account}

Already(m, active) == IF active THEN m.accountActive /\ m.walletActive
                      ELSE ~m.accountActive \/ ~m.walletActive

\* toggleActive decides on what it reads; a user without account is refused.
ToggleActive(o, m, active) ==
    /\ Order(o, IF ~member[m].account THEN "refused"
                ELSE IF Already(member[m], active) THEN "done" ELSE "decided",
             IF active THEN "restore" ELSE "suspend", {m})
    /\ UNCHANGED <<member, copies, broadcasts, gridRows, incomplete, logged>>

\* One transaction writes both flags.
WriteFlags(o) ==
    /\ order[o].pc = "decided" /\ Advance(o, "audit")
    /\ LET active == order[o].kind = "restore" IN
       member' = [m \in Members |-> IF m \notin order[o].about THEN member[m]
                                    ELSE [member[m] EXCEPT !.accountActive = active, !.walletActive = active]]
    /\ UNCHANGED <<copies, broadcasts, gridRows, incomplete, logged>>

(***************************************************************************)
(* BroadcastsService.send.                                                 *)
(***************************************************************************)
ReadRecipients(o) ==
    LET recipients == {m \in Members : member[m].emailVerified} IN
    /\ Order(o, IF recipients = {} THEN "refused" ELSE "sending", "broadcast", recipients)
    /\ UNCHANGED <<member, copies, broadcasts, gridRows, incomplete, logged>>

Unsent(o) == order[o].about \ order[o].draft
Chunks(o) ==
    LET left == Cardinality(Unsent(o))
    IN {chunk \in SUBSET Unsent(o) : Cardinality(chunk) = IF left < ChunkSize THEN left ELSE ChunkSize}

\* Mutant: each chunk is a transaction of its own.
InsertChunkAlone(o) ==
    /\ order[o].pc = "sending" /\ Unsent(o) # {}
    /\ \E chunk \in Chunks(o) : /\ order' = [order EXCEPT ![o].draft = @ \cup chunk]
                                /\ copies' = copies \cup ({o} \X chunk)
    /\ UNCHANGED <<member, broadcasts, gridRows, incomplete, logged>>
\* A chunk is written, inside the transaction.
InsertChunk(o) ==
    /\ order[o].pc = "sending" /\ Unsent(o) # {}
    /\ \E chunk \in Chunks(o) : order' = [order EXCEPT ![o].draft = @ \cup chunk]
    /\ UNCHANGED <<member, copies, broadcasts, gridRows, incomplete, logged>>

\* The send record comes last, and the transaction commits.
CommitBroadcast(o) ==
    /\ order[o].pc = "sending" /\ Unsent(o) = {} /\ Advance(o, "audit")
    /\ copies' = copies \cup ({o} \X order[o].draft)
    /\ broadcasts' = broadcasts \cup {<<o, Cardinality(order[o].about)>>}
    /\ UNCHANGED <<member, gridRows, incomplete, logged>>

(***************************************************************************)
(* CrudService.                                                            *)
(***************************************************************************)
\* validatePayload: known and writable fields with values of their kind, and on create all that is required.
Validated(res, payload, flaw, forCreate) ==
    /\ flaw # "malformed" /\ payload \subseteq Registry[res].required \cup Registry[res].optional
    /\ forCreate => Registry[res].required \subseteq payload

Flaws == {"none", "malformed", "clash"}
\* Payloads that miss, or have beside the required fields, at most one.
Payloads(res) ==
    LET all == Registry[res].required IN
    {all} \cup {all \ {f} : f \in all} \cup {all \cup {f} : f \in Visible(res)}

\* P2002: the names of providers and the devices of a user are unique; P2003: a message needs its chat.
Conflicts(res, flaw) == flaw = "clash" /\ res \in {"cardProviders", "biometricDevices"}
Refers(res, ref) == res = "messages" => \E row \in gridRows : row.by = ref /\ row.table = "chats"

CreateRow(o, res, payload, flaw, ref) ==
    LET valid == "create" \in Registry[res].methods /\ Validated(res, payload, flaw, TRUE)
        missing == valid /\ ~(Mandatory[res] \subseteq payload)
        made == valid /\ ~missing /\ ~Conflicts(res, flaw) /\ Refers(res, ref)
    IN /\ Order(o, IF made THEN "audit" ELSE "refused", "create", {})
       /\ incomplete' = (incomplete \/ missing)
       /\ gridRows' = IF made THEN gridRows \cup {[by |-> {o}, table |-> res, columns |-> payload, ref |-> ref]}
                      ELSE gridRows
       /\ UNCHANGED <<member, copies, broadcasts, logged>>

UpdateRow(o, row, payload, flaw) ==
    LET made == /\ "update" \in Registry[row.table].methods /\ Validated(row.table, payload, flaw, FALSE)
                /\ ~Conflicts(row.table, flaw)
    IN /\ Order(o, IF made THEN "audit" ELSE "refused", "update", {})
       /\ gridRows' = IF made THEN (gridRows \ {row}) \cup {[row EXCEPT !.columns = @ \cup payload]} ELSE gridRows
       /\ UNCHANGED <<member, copies, broadcasts, incomplete, logged>>

\* The messages of a chat go with it.
DeleteRow(o, row) ==
    LET made == "delete" \in Registry[row.table].methods IN
    /\ Order(o, IF made THEN "audit" ELSE "refused", "delete", {})
    /\ gridRows' = IF made THEN {other \in gridRows : other # row /\ ~(other.table = "messages" /\ other.ref = row.by)}
                   ELSE gridRows
    /\ UNCHANGED <<member, copies, broadcasts, incomplete, logged>>

ListRows(o, res, field, op) ==
    /\ Order(o, IF FilterAccepted(res, field, op) THEN "done" ELSE "refused", "list", {})
    /\ UNCHANGED <<member, copies, broadcasts, gridRows, incomplete, logged>>

(***************************************************************************)
(* Every request ends with its audit row, unless the process stops.        *)
(***************************************************************************)
LogOrder(o) ==
    /\ order[o].pc = "audit" /\ Advance(o, "done") /\ logged' = logged \cup {o}
    /\ UNCHANGED <<member, copies, broadcasts, gridRows, incomplete>>

StopOrder(o) ==
    /\ order[o].pc \in Running /\ Advance(o, "stopped")
    /\ UNCHANGED <<member, copies, broadcasts, gridRows, incomplete, logged>>

\* People and grid share nothing but the way requests end.
EndsNext == \E o \in Orders : LogOrder(o) \/ StopOrder(o)

PeopleNext ==
    \/ EndsNext
    \/ \E m \in Members : VerifyMember(m) \/ ProvisionMember(m) \/ CompleteOnboarding(m)
    \/ \E o \in Orders :
         \/ WriteFlags(o) \/ ReadRecipients(o) \/ InsertChunk(o) \/ CommitBroadcast(o)
         \/ \E m \in Members, active \in BOOLEAN : ToggleActive(o, m, active)

GridNext ==
    \/ EndsNext
    \/ \E o \in Orders :
         \/ \E res \in Resources :
              \/ \E payload \in Payloads(res), flaw \in Flaws,
                    ref \in IF res = "messages" THEN {row.by : row \in gridRows} \cup {{}} ELSE {{}} :
                    CreateRow(o, res, payload, flaw, ref)
              \/ \E field \in Visible(res), op \in FilterOperators \cup {""} : ListRows(o, res, field, op)
         \/ \E row \in gridRows :
              \/ DeleteRow(o, row)
              \/ \E payload \in Payloads(row.table), flaw \in Flaws : UpdateRow(o, row, payload, flaw)

AdministrationSpec == AdministrationInit /\ [][PeopleNext \/ GridNext]_administrationVars

(***************************************************************************)
(* Properties.                                                             *)
(***************************************************************************)
\* Whatever requests overlap or stop: account and wallet are active or suspended together, and a user
\* is found under the status it is shown with (admin-console-users.service.ts); "a broadcast is never
\* half-delivered, and the send record lands with the copies" (broadcasts.service.ts:57-58); and what
\* the grid accepts the database has all columns for, with nothing written that the server manages.
AdministrationIsWhole ==
    /\ \A m \in Members : /\ member[m].accountActive = member[m].walletActive
                          /\ m \in StatusWhere(DeriveStatus(member[m]))
    /\ \A o \in Orders :
         LET n == Cardinality({m \in Members : <<o, m>> \in copies})
         IN IF n = 0 THEN \A k \in 0 .. Cardinality(Members) : <<o, k>> \notin broadcasts ELSE <<o, n>> \in broadcasts
    /\ ~incomplete
    /\ \A row \in gridRows :
         /\ row.columns \cap Registry[row.table].server = {}
         /\ row.table = "messages" => \E chat \in gridRows : chat.by = row.ref /\ chat.table = "chats"
===============================================================================
