-------------------------------- MODULE Settings --------------------------------
(***************************************************************************)
(* What a user keeps with the API: preferences, biometric enrolments, the  *)
(* bank accounts to withdraw to, address, budget and avatar, and the       *)
(* devices that pushes go to.  Most changes are recorded by                *)
(* ActivityService: an audit row, then an alert in the feed, then pushes.  *)
(* Requests overlap between any two statements and may stop anywhere.      *)
(*                                                                         *)
(* pushAllowed is TRUE for every action that reaches it here (those of the *)
(* profile, the passcode and biometrics): no preference silences them.     *)
(***************************************************************************)
EXTENDS Integers, FiniteSets

CONSTANTS
    Changes,       \* requests of the user, each made once
    Gadgets,       \* deviceIds of biometric enrolments
    Choices,       \* names of preferences: the fields of PreferencesDto; each is "on" by default
    Payees,        \* bank accounts at the provider
    Tokens         \* FCM tokens

VARIABLES
    preferences,   \* profiles.preferences: a partial function, <<>> for null
    rowLock,       \* who holds the lock of the profile's row
    wanted,        \* for each preference ever set, the value of the patch committed last
    biometric,     \* BiometricDevice by gadget: row (who made it), publicKey, isActive
    keyed,         \* gadgets enrolled with a key and not removed since
    payees,        \* WithdrawalBankAccount rows
    details,       \* who wrote address, budget and avatar last
    pushDevice,        \* PushDevice: who has the token
    pushOn,        \* Firebase is configured
    change,        \* where each request is
    audited, feed, \* its AuditLog row; its Notification's status
    pushed         \* <<request, token>> given to Firebase

settingsVars == <<preferences, rowLock, wanted, biometric, keyed, payees, details, pushDevice,
                  pushOn, change, audited, feed, pushed>>
enrolments == <<biometric, keyed>>
records    == <<audited, feed, pushed>>
wishes     == <<preferences, rowLock, wanted>>

Settled == {"on", "off"}
Details == {"address", "budget", "avatar"}
NoRow == [row |-> {}, publicKey |-> FALSE, isActive |-> FALSE]
NotMade == [pc |-> "new", kind |-> "none", on |-> {}, row |-> {}, values |-> <<>>]
Open == {"patching", "found", "resolved", "audit", "alert", "devices", "push"}

SettingsTypeOK ==
    /\ {preferences, wanted} \subseteq UNION {[S -> Settled] : S \in SUBSET Choices}
    /\ Cardinality(rowLock) <= 1 /\ rowLock \subseteq Changes
    /\ \A g \in Gadgets : biometric[g].publicKey \in BOOLEAN /\ biometric[g].isActive \in BOOLEAN
    /\ keyed \subseteq Gadgets /\ payees \subseteq Payees /\ pushOn \in BOOLEAN
    /\ pushDevice \in [Tokens -> {"nobody", "user", "another"}]
    /\ \A c \in Changes : change[c].pc \in Open \cup {"new", "done", "refused", "failed", "stopped"}
    /\ audited \subseteq Changes /\ feed \in [Changes -> {"none", "UNREAD", "READ"}]
    /\ pushed \subseteq Changes \X Tokens

SettingsInit ==
    /\ preferences = <<>> /\ rowLock = {} /\ wanted = <<>>
    /\ biometric = [g \in Gadgets |-> NoRow] /\ keyed = {} /\ payees = {}
    /\ details = [d \in Details |-> {}] /\ pushDevice = [t \in Tokens |-> "nobody"]
    /\ pushOn \in BOOLEAN /\ change = [c \in Changes |-> NotMade]
    /\ audited = {} /\ feed = [c \in Changes |-> "none"] /\ pushed = {}

Enters(c, pc) == change' = [change EXCEPT ![c].pc = pc]
Begins(c, kind, on, pc) == /\ change[c].pc = "new"
                           /\ change' = [change EXCEPT ![c] = [NotMade EXCEPT !.pc = pc, !.kind = kind, !.on = {on}]]

(***************************************************************************)
(* ProfileHubService.updatePreferences.                                    *)
(***************************************************************************)
RowIsFree == rowLock = {}

\* What f says, and g where f says nothing: a spread of both.
Over(f, g) == [p \in DOMAIN f \cup DOMAIN g |-> IF p \in DOMAIN f THEN f[p] ELSE g[p]]
Defaults == [p \in Choices |-> "on"]

\* The body as the ValidationPipe makes it, an instance of PreferencesDto: a class field is defined
\* by the instance itself, so a preference that the body does not name is there and undefined.
Instance(patch) == [p \in Choices |-> IF p \in DOMAIN patch THEN patch[p] ELSE "undefined"]

\* What is left of a value in the JSON column, and in the reply.
AsJson(f) == [p \in {q \in DOMAIN f : f[q] # "undefined"} |-> f[p]]

\* Mutant: what is stored is spread over the patch.
MergedLast(patch, known) == AsJson(Over(known, Instance(patch)))
Merged(patch, known) == AsJson(Over(Instance(patch), Over(known, Defaults)))

\* Lock the row and merge the patch into what is there.
ReadPreferences(c, patch) ==
    /\ change[c].pc = "new" /\ RowIsFree /\ rowLock' = {c}
    /\ change' = [change EXCEPT ![c] = [pc |-> "patching", kind |-> "patch", on |-> patch,
                                        row |-> {}, values |-> Merged(patch, preferences)]]
    /\ UNCHANGED <<preferences, wanted, enrolments, payees, details, pushDevice, pushOn, records>>

WritePreferences(c) ==
    /\ change[c].pc = "patching" /\ Enters(c, "done")
    /\ preferences' = change[c].values /\ wanted' = Over(change[c].on, wanted) /\ rowLock' = {}
    /\ UNCHANGED <<enrolments, payees, details, pushDevice, pushOn, records>>

(***************************************************************************)
(* BiometricsService; each change is recorded with an alert.               *)
(***************************************************************************)
\* A user enrols a deviceId once.
CreateEnrolment(c, g) ==
    /\ IF biometric[g] = NoRow
       THEN /\ Begins(c, "create", g, "audit") /\ keyed' = keyed \cup {g}
            /\ biometric' = [biometric EXCEPT ![g] = [row |-> {c}, publicKey |-> TRUE, isActive |-> TRUE]]
       ELSE Begins(c, "create", g, "refused") /\ UNCHANGED enrolments
    /\ UNCHANGED <<wishes, payees, details, pushDevice, pushOn, records>>

\* The upsert of recordLocal: a row of its own has no key, another keeps its own.
RecordLocal(c, g, active) ==
    /\ Begins(c, "local", g, "audit")
    /\ biometric' = [biometric EXCEPT ![g] =
                       IF @ = NoRow THEN [row |-> {c}, publicKey |-> FALSE, isActive |-> active]
                       ELSE [@ EXCEPT !.isActive = active]]
    /\ UNCHANGED <<keyed, wishes, payees, details, pushDevice, pushOn, records>>

\* update and remove look for the row first and then write it by its id.
FindEnrolment(c, g, kind) ==
    /\ IF biometric[g] = NoRow THEN Begins(c, kind, g, "refused")
       ELSE /\ change[c].pc = "new"
            /\ change' = [change EXCEPT ![c] = [NotMade EXCEPT !.pc = "found", !.kind = kind, !.on = {g},
                                                               !.row = biometric[g].row]]
    /\ UNCHANGED <<wishes, enrolments, payees, details, pushDevice, pushOn, records>>

\* P2025: the row is gone, even if the device was enrolled again.
WriteEnrolment(c, g, active) ==
    /\ change[c].pc = "found" /\ change[c].on = {g}
    /\ IF biometric[g].row # change[c].row THEN Enters(c, "failed") /\ UNCHANGED enrolments
       ELSE /\ Enters(c, "audit")
            /\ IF change[c].kind = "remove"
               THEN biometric' = [biometric EXCEPT ![g] = NoRow] /\ keyed' = keyed \ {g}
               ELSE biometric' = [biometric EXCEPT ![g].isActive = active] /\ UNCHANGED keyed
    /\ UNCHANGED <<wishes, payees, details, pushDevice, pushOn, records>>

(***************************************************************************)
(* Bank accounts, address, budget and avatar.                              *)
(***************************************************************************)
\* The provider lists the bank and resolves the number, or does not.
ResolvePayee(c, p, resolved) ==
    /\ Begins(c, "payee", p, IF resolved THEN "resolved" ELSE "failed")
    /\ UNCHANGED <<wishes, enrolments, payees, details, pushDevice, pushOn, records>>

SavePayee(c) ==
    /\ change[c].pc = "resolved" /\ Enters(c, "done") /\ payees' = payees \cup change[c].on
    /\ UNCHANGED <<wishes, enrolments, details, pushDevice, pushOn, records>>

RemovePayee(c, p) ==
    /\ Begins(c, "payee", p, IF p \in payees THEN "done" ELSE "refused") /\ payees' = payees \ {p}
    /\ UNCHANGED <<wishes, enrolments, details, pushDevice, pushOn, records>>

\* The last one stays.
SaveDetail(c, d) ==
    /\ Begins(c, d, d, "audit") /\ details' = [details EXCEPT ![d] = {c}]
    /\ UNCHANGED <<wishes, enrolments, payees, pushDevice, pushOn, records>>

SaveAddress(c)  == SaveDetail(c, "address")
UpdateBudget(c) == SaveDetail(c, "budget")
UpdateAvatar(c) == SaveDetail(c, "avatar")

(***************************************************************************)
(* ActivityService.record and NotificationsService.create.                 *)
(***************************************************************************)
\* Every handler of biometrics, address and avatar gives record an alert; the budget's does not.
Alerted == {"create", "local", "update", "remove", "address", "avatar"}

RecordAudit(c) ==
    /\ change[c].pc = "audit" /\ audited' = audited \cup {c}
    /\ Enters(c, IF change[c].kind \in Alerted THEN "alert" ELSE "done")
    /\ UNCHANGED <<wishes, enrolments, payees, details, pushDevice, pushOn, feed, pushed>>

CreateAlert(c) ==
    /\ change[c].pc = "alert" /\ feed' = [feed EXCEPT ![c] = "UNREAD"]
    /\ Enters(c, IF pushOn THEN "devices" ELSE "done")
    /\ UNCHANGED <<wishes, enrolments, payees, details, pushDevice, pushOn, audited, pushed>>

\* The devices are read outside any try: when that fails the request fails.
ReadDevices(c, fails) ==
    /\ change[c].pc = "devices"
    /\ change' = [change EXCEPT ![c].pc = IF fails THEN "failed" ELSE "push",
                                ![c].on = {t \in Tokens : pushDevice[t] = "user"}]
    /\ UNCHANGED <<wishes, enrolments, payees, details, pushDevice, pushOn, records>>

\* Firebase takes a message or refuses it; neither concerns the request.
SendPushes(c) ==
    /\ change[c].pc = "push" /\ Enters(c, "done")
    /\ \E taken \in SUBSET change[c].on : pushed' = pushed \cup ({c} \X taken)
    /\ UNCHANGED <<wishes, enrolments, payees, details, pushDevice, pushOn, audited, feed>>

\* A token goes to whoever registers it last, and only its owner gives it up.
RegisterDevice(t, u) ==
    /\ pushDevice[t] # u /\ pushDevice' = [pushDevice EXCEPT ![t] = u]
    /\ UNCHANGED <<wishes, enrolments, payees, details, pushOn, change, records>>

UnregisterDevice(t, u) ==
    /\ pushDevice[t] = u /\ pushDevice' = [pushDevice EXCEPT ![t] = "nobody"]
    /\ UNCHANGED <<wishes, enrolments, payees, details, pushOn, change, records>>

MarkRead(c) ==
    /\ feed[c] = "UNREAD" /\ feed' = [feed EXCEPT ![c] = "READ"]
    /\ UNCHANGED <<wishes, enrolments, payees, details, pushDevice, pushOn, change, audited, pushed>>

MarkAllRead ==
    /\ \E c \in Changes : feed[c] = "UNREAD"
    /\ feed' = [c \in Changes |-> IF feed[c] = "UNREAD" THEN "READ" ELSE feed[c]]
    /\ UNCHANGED <<wishes, enrolments, payees, details, pushDevice, pushOn, change, audited, pushed>>

\* The process stops, and an open transaction with it.
StopChange(c) ==
    /\ change[c].pc \in Open /\ Enters(c, "stopped") /\ rowLock' = rowLock \ {c}
    /\ UNCHANGED <<preferences, wanted, enrolments, payees, details, pushDevice, pushOn, records>>

\* A body may name no preference at all.
Patches == UNION {[S -> Settled] : S \in SUBSET Choices}

SettingsNext ==
    \/ MarkAllRead
    \/ \E c \in Changes :
         \/ WritePreferences(c) \/ SavePayee(c) \/ RecordAudit(c) \/ CreateAlert(c)
         \/ SendPushes(c) \/ MarkRead(c) \/ StopChange(c)
         \/ \E patch \in Patches : ReadPreferences(c, patch)
         \/ SaveAddress(c) \/ UpdateBudget(c) \/ UpdateAvatar(c)
         \/ \E fails \in BOOLEAN : ReadDevices(c, fails)
         \/ \E p \in Payees : RemovePayee(c, p) \/ \E resolved \in BOOLEAN : ResolvePayee(c, p, resolved)
         \/ \E g \in Gadgets :
              \/ CreateEnrolment(c, g)
              \/ \E kind \in {"update", "remove"} : FindEnrolment(c, g, kind)
              \/ \E active \in BOOLEAN : RecordLocal(c, g, active) \/ WriteEnrolment(c, g, active)
    \/ \E t \in Tokens, u \in {"user", "another"} : RegisterDevice(t, u) \/ UnregisterDevice(t, u)

SettingsSpec == SettingsInit /\ [][SettingsNext]_settingsVars

(***************************************************************************)
(* Properties.                                                             *)
(***************************************************************************)
\* What is stored for a preference is what the last committed patch that named it says, however the
\* patches overlap, and the stored preferences are those of one patch that was answered
\* (profile-hub.service.ts, updatePreferences): a choice may get lost (ChoicesAreKept), but never comes
\* back.  An enrolment keeps its key through local updates until it is removed (biometrics.service.ts).
\* A change whose kind is alerted and that was answered with success is in the feed and in the audit
\* log.
SettingsAreKept ==
    /\ \A p \in DOMAIN preferences : p \in DOMAIN wanted /\ preferences[p] = wanted[p]
    /\ wanted # <<>> => \E c \in Changes : change[c].pc = "done" /\ change[c].kind = "patch"
                                          /\ preferences = change[c].on
    /\ keyed = {g \in Gadgets : biometric[g].publicKey}
    /\ \A c \in Changes :
         /\ feed[c] # "none" => c \in audited
         /\ change[c].pc = "done" /\ change[c].kind \in Alerted => feed[c] # "none"

\* What the unit test of updatePreferences says it does: 'merges account preferences without dropping
\* earlier choices' (profile-hub.service.spec.ts:33).  The test hands over a plain object; the
\* controller hands over an instance, whose undefined fields are spread over what is stored.
ChoicesAreKept == \A p \in DOMAIN wanted : p \in DOMAIN preferences /\ preferences[p] = wanted[p]
===============================================================================
