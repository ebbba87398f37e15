-------------------------------- MODULE Contact --------------------------------
(***************************************************************************)
(* The telephone number and the e-mail address of a profile.  A number is  *)
(* saved by the profile's update and proved with a code; an address is     *)
(* changed at Supabase, which confirms it, and then read back.  Requests   *)
(* overlap between any two of their statements.                            *)
(*                                                                         *)
(* Codes are those of the PHONE channel: a row belongs to a user, not to a *)
(* number.  Names, avatars and Supabase's copy of them are left out.       *)
(***************************************************************************)
EXTENDS Integers, FiniteSets, Sequences

CONSTANTS
    Users,
    Numbers,      \* telephone numbers
    Addresses,    \* e-mail addresses
    Requests,     \* requests under way, each of one kind
    MaxSent       \* bound on the codes generated

\* The address of a profile is the one it registered with; which one does not matter.
Registrations == {f \in [Users -> Addresses] : \A u, w \in Users : f[u] = f[w] => u = w}
Registered == CHOOSE f \in Registrations : TRUE

ASSUME ContactAssumption == Users # {} /\ MaxSent \in Nat /\ Registrations # {}

VARIABLES
    person,     \* profiles: phone ({} for none), phoneVerified, email
    supabase,   \* Supabase: email, pending (asked for), and confirmed: all that ever were
    otpRows,    \* otp_codes: user, live (unused and in time), sentTo (where it was delivered)
    request,    \* where each request is and what it read
    proved      \* numbers whose code came back, by user: what phoneVerified claims

contactVars == <<person, supabase, otpRows, request, proved>>

IdleRequest == [pc |-> "idle", user |-> CHOOSE u \in Users : TRUE, number |-> {},
                address |-> {}, changed |-> FALSE, code |-> 0]
Emails == {{e} : e \in Addresses}
MaybeNumber == {{}} \cup {{n} : n \in Numbers}

ContactTypeOK ==
    /\ person \in [Users -> [phone : MaybeNumber, phoneVerified : BOOLEAN, email : Emails]]
    /\ \A u \in Users : supabase[u].email \in Emails /\ supabase[u].pending \in Emails \cup {{}}
    /\ \A i \in DOMAIN otpRows : otpRows[i] \in [user : Users, live : BOOLEAN, sentTo : MaybeNumber]
    /\ \A r \in Requests : request[r].pc \in {"idle", "compare", "write", "send", "deliver", "verify", "consume",
                                            "mark", "marking", "sync"}
    /\ proved \subseteq Users \X Numbers

ContactInit ==
    /\ person = [u \in Users |-> [phone |-> {}, phoneVerified |-> FALSE, email |-> {Registered[u]}]]
    /\ supabase = [u \in Users |-> [email |-> {Registered[u]}, pending |-> {}, confirmed |-> {Registered[u]}]]
    /\ otpRows = <<>> /\ proved = {} /\ request = [r \in Requests |-> IdleRequest]

Held(u, n) == \E w \in Users \ {u} : person[w].phone = {n}
Closes(r) == request' = [request EXCEPT ![r] = IdleRequest]

(***************************************************************************)
(* ProfilesService.update with a number.                                   *)
(***************************************************************************)
AssertPhoneAvailable(r, u, n) ==
    /\ request[r].pc = "idle" /\ ~Held(u, n)
    /\ request' = [request EXCEPT ![r] = [IdleRequest EXCEPT !.pc = "compare", !.user = u, !.number = {n}]]
    /\ UNCHANGED <<person, supabase, otpRows, proved>>

PhoneChanged(r) ==
    /\ request[r].pc = "compare"
    /\ request' = [request EXCEPT ![r].pc = "write", ![r].changed = person[request[r].user].phone # request[r].number]
    /\ UNCHANGED <<person, supabase, otpRows, proved>>

\* phone is unique: the statement fails when somebody else took the number meanwhile.
UpdatePhone(r) ==
    LET u == request[r].user IN
    /\ request[r].pc = "write" /\ Closes(r)
    /\ person' = IF \A n \in request[r].number : ~Held(u, n)
                 THEN [person EXCEPT ![u].phone = request[r].number,
                                     ![u].phoneVerified = @ /\ ~request[r].changed]
                 ELSE person
    /\ UNCHANGED <<supabase, otpRows, proved>>

(***************************************************************************)
(* OtpService.send and verify for the number of the profile.               *)
(***************************************************************************)
Voided(rows, u) == [i \in DOMAIN rows |-> [rows[i] EXCEPT !.live = @ /\ rows[i].user # u]]

\* Both begin with the target: it is the number of the profile.
AssertOwnTarget(r, u, pc) ==
    /\ request[r].pc = "idle" /\ person[u].phone # {}
    /\ request' = [request EXCEPT ![r] = [IdleRequest EXCEPT !.pc = pc, !.user = u, !.number = person[u].phone]]
    /\ UNCHANGED <<person, supabase, otpRows, proved>>

\* One transaction voids the older codes and makes the new one.
Send(r) ==
    LET u == request[r].user IN
    /\ request[r].pc = "send" /\ Len(otpRows) < MaxSent
    /\ otpRows' = Append(Voided(otpRows, u), [user |-> u, live |-> TRUE, sentTo |-> {}])
    /\ request' = [request EXCEPT ![r].pc = "deliver", ![r].code = Len(otpRows) + 1]
    /\ UNCHANGED <<person, supabase, proved>>

\* The message is delivered, or the sender refuses it and every unused code is voided.
Deliver(r, delivered) ==
    /\ request[r].pc = "deliver" /\ Closes(r)
    /\ otpRows' = IF delivered THEN [otpRows EXCEPT ![request[r].code].sentTo = request[r].number]
                  ELSE Voided(otpRows, request[r].user)
    /\ UNCHANGED <<person, supabase, proved>>

CodeExpires(i) ==
    /\ otpRows[i].live /\ otpRows' = [otpRows EXCEPT ![i].live = FALSE]
    /\ UNCHANGED <<person, supabase, request, proved>>

\* The newest live code of the user, which the user gives.
FindCode(r, i) ==
    LET u == request[r].user IN
    /\ request[r].pc = "verify"
    /\ otpRows[i].user = u /\ otpRows[i].live /\ otpRows[i].sentTo # {}
    /\ \A j \in i + 1 .. Len(otpRows) : otpRows[j].user = u => ~otpRows[j].live
    /\ proved' = proved \cup {<<u, n>> : n \in otpRows[i].sentTo}
    /\ request' = [request EXCEPT ![r].pc = "consume", ![r].code = i]
    /\ UNCHANGED <<person, supabase, otpRows>>

\* There is none, or another was given.
RefuseCode(r) ==
    /\ request[r].pc = "verify" /\ Closes(r)
    /\ UNCHANGED <<person, supabase, otpRows, proved>>

UseCode(r) ==
    /\ request[r].pc = "consume" /\ request' = [request EXCEPT ![r].pc = "mark"]
    /\ otpRows' = [otpRows EXCEPT ![request[r].code].live = FALSE]
    /\ UNCHANGED <<person, supabase, proved>>

CompareTarget(r) ==
    /\ request[r].pc = "mark"
    /\ IF person[request[r].user].phone = request[r].number
       THEN request' = [request EXCEPT ![r].pc = "marking"] ELSE Closes(r)
    /\ UNCHANGED <<person, supabase, otpRows, proved>>

MarkVerified(r) ==
    /\ request[r].pc = "marking" /\ Closes(r)
    /\ person' = [person EXCEPT ![request[r].user].phoneVerified = TRUE]
    /\ UNCHANGED <<supabase, otpRows, proved>>

(***************************************************************************)
(* EmailChangeService, and Supabase, which holds an address once.          *)
(***************************************************************************)
RequestEmailChange(u, e) ==
    /\ \A w \in Users \ {u} : person[w].email # {e} /\ supabase[w].email # {e}
    /\ supabase[u].email # {e} /\ supabase[u].pending # {e}
    /\ supabase' = [supabase EXCEPT ![u].pending = {e}]
    /\ UNCHANGED <<person, otpRows, request, proved>>

ConfirmChange(u) ==
    /\ supabase[u].pending # {} /\ \A w \in Users \ {u} : supabase[w].email # supabase[u].pending
    /\ supabase' = [supabase EXCEPT ![u] = [email |-> @.pending, pending |-> {},
                                            confirmed |-> @.confirmed \cup @.pending]]
    /\ UNCHANGED <<person, otpRows, request, proved>>

\* Mutant: the address that was asked for is taken before it is confirmed.
NewestEmail(u) == IF supabase[u].pending # {} THEN supabase[u].pending ELSE supabase[u].email
ConfirmedEmail(u) == supabase[u].email

GetUser(r, u) ==
    /\ request[r].pc = "idle"
    /\ request' = [request EXCEPT ![r] = [IdleRequest EXCEPT !.pc = "sync", !.user = u, !.address = ConfirmedEmail(u)]]
    /\ UNCHANGED <<person, supabase, otpRows, proved>>

\* email is unique: the statement fails when another profile has the address.
SyncEmail(r) ==
    LET u == request[r].user IN
    /\ request[r].pc = "sync" /\ Closes(r)
    /\ person' = IF \E w \in Users \ {u} : person[w].email = request[r].address THEN person
                 ELSE [person EXCEPT ![u].email = request[r].address]
    /\ UNCHANGED <<supabase, otpRows, proved>>

\* The two halves share nothing but the row, of which each writes its own columns.
PhoneNext ==
    \/ \E r \in Requests :
         \/ PhoneChanged(r) \/ UpdatePhone(r) \/ Send(r) \/ RefuseCode(r) \/ UseCode(r)
         \/ CompareTarget(r) \/ MarkVerified(r)
         \/ \E delivered \in BOOLEAN : Deliver(r, delivered)
         \/ \E i \in DOMAIN otpRows : FindCode(r, i)
         \/ \E u \in Users : \/ \E pc \in {"send", "verify"} : AssertOwnTarget(r, u, pc)
                             \/ \E n \in Numbers : AssertPhoneAvailable(r, u, n)
    \/ \E i \in DOMAIN otpRows : CodeExpires(i)

EmailNext ==
    \/ \E r \in Requests : SyncEmail(r) \/ \E u \in Users : GetUser(r, u)
    \/ \E u \in Users : ConfirmChange(u) \/ \E e \in Addresses : RequestEmailChange(u, e)

ContactSpec == ContactInit /\ [][PhoneNext \/ EmailNext]_contactVars

(***************************************************************************)
(* Properties.                                                             *)
(***************************************************************************)
\* Whatever overlaps, an address or a number is one profile's, a profile's address was confirmed
\* by its owner at Supabase, and no number is verified for somebody who never sent a code back.
ContactsAreOwned ==
    /\ \A u \in Users :
         /\ person[u].email \subseteq supabase[u].confirmed
         /\ person[u].phoneVerified => \E n \in Numbers : <<u, n>> \in proved
    /\ \A u, w \in Users : u # w => /\ person[u].email # person[w].email
                                    /\ person[u].phone # {} => person[u].phone # person[w].phone
===============================================================================
