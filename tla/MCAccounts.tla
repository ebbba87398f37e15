------------------------------ MODULE MCAccounts ------------------------------
(***************************************************************************)
(* The parts around the user that share no row here: how people join the   *)
(* waiting list, come in, sign in, talk to the agent and to the helpdesk,  *)
(* prove their telephone number and e-mail address, keep their settings,   *)
(* how a client's requests are counted, and what administrators change.    *)
(* scene names the part that moves, so their states add up instead of      *)
(* multiplying.                                                            *)
(***************************************************************************)
EXTENDS Onboarding, Signin, Conversations, Helpdesk, Waitlist, Throttling, Contact,
        Settings, Administration, TLC

VARIABLE scene

parts == <<onboardingVars, signinVars, conversationVars, helpdeskVars, waitlistVars,
           throttlingVars, contactVars, settingsVars, administrationVars>>
vars == <<parts, scene>>

\* The part whose variables each scene moves.
PartOf == [onboarding |-> 1, signin |-> 2, reset |-> 2, conversations |-> 3, helpdesk |-> 4, waitlist |-> 5,
           throttling |-> 6, telephone |-> 7, email |-> 7, settings |-> 8, people |-> 9, grid |-> 9]

Init ==
    /\ scene \in DOMAIN PartOf
    /\ OnboardingInit /\ SigninInit /\ ConversationInit /\ HelpdeskInit /\ WaitlistInit
    /\ ThrottlingInit /\ ContactInit /\ SettingsInit /\ AdministrationInit
    /\ scene # "helpdesk" => clear
    /\ scene # "waitlist" => saved = "none"
    /\ scene # "settings" => ~pushOn
    /\ scene # "grid" => gridRows = {}

\* One scene moves and the other parts stay.
Others(part) == /\ part # 1 => UNCHANGED onboardingVars
                /\ part # 2 => UNCHANGED signinVars
                /\ part # 3 => UNCHANGED conversationVars
                /\ part # 4 => UNCHANGED helpdeskVars
                /\ part # 5 => UNCHANGED waitlistVars
                /\ part # 6 => UNCHANGED throttlingVars
                /\ part # 7 => UNCHANGED contactVars
                /\ part # 8 => UNCHANGED settingsVars
                /\ part # 9 => UNCHANGED administrationVars

Next ==
    /\ \/ scene = "onboarding" /\ OnboardingNext
       \/ scene = "signin" /\ SessionNext
       \/ scene = "reset" /\ ResetNext
       \/ scene = "conversations" /\ ConversationNext
       \/ scene = "helpdesk" /\ HelpdeskNext
       \/ scene = "waitlist" /\ WaitlistNext
       \/ scene = "throttling" /\ ThrottlingNext
       \/ scene = "telephone" /\ PhoneNext
       \/ scene = "email" /\ EmailNext
       \/ scene = "settings" /\ SettingsNext
       \/ scene = "people" /\ PeopleNext
       \/ scene = "grid" /\ GridNext
    /\ Others(PartOf[scene])
    /\ UNCHANGED scene

Spec == Init /\ [][Next]_vars

\* Every variable of every part holds a value of its kind.
TypeOK == OnboardingTypeOK /\ SigninTypeOK /\ ConversationTypeOK
          /\ HelpdeskTypeOK /\ WaitlistTypeOK /\ ThrottlingTypeOK
          /\ ContactTypeOK /\ SettingsTypeOK /\ AdministrationTypeOK
===============================================================================
