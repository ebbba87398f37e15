-------------------------- MODULE MCCardAuthorizations --------------------------
(***************************************************************************)
(* A card in three scenes, told apart by its rules.  In Captures two event *)
(* runs are at work on captures and a refund; only its owner and its last  *)
(* use retire the card, the deadline passes in the other scenes.  In       *)
(* Approvals requests need the owner's approval: a2 and a3 are large.  In  *)
(* Verifications a0 asks for no amount and a4 is not permitted.            *)
(***************************************************************************)
EXTENDS CardAuthorizations, TLC

LOCAL INSTANCE FiniteSetsExt

CONSTANTS a0, a1, a2, a3, a4, m1, m2, c1, c2, c3, r1, r2, d1, z1, x1, x2

\* The purchases are of 2 and at one merchant.
MCAmount   == [a \in Auths |-> IF a = a0 THEN 0 ELSE 2]
MCMerchant == [a \in Auths |-> IF a = a0 THEN m2 ELSE m1]

\* c1 and c2 capture a1 in two parts, c3 captures a2; r1 and r2 give half of
\* a1 and all of a2 back; Sudo declines a2 with d1; z1 belongs to a0.
MCKind  == [t \in Txns |-> IF t \in {r1, r2} THEN "refund"
                           ELSE IF t = d1 THEN "declined" ELSE "capture"]
MCAuth  == [t \in Txns |-> IF t \in {c1, c2, r1} THEN a1 ELSE IF t = z1 THEN a0 ELSE a2]
MCValue == [t \in Txns |-> IF t \in {c3, r2} THEN 2 ELSE IF t \in {d1, z1} THEN 0 ELSE 1]

Captures == [usageLimit |-> 1, monthlyLimit |-> 4, firstTime |-> FALSE, large |-> {}]
Approvals == [usageLimit |-> 2, monthlyLimit |-> 3, firstTime |-> TRUE, large |-> {a2, a3}]
Verifications == [usageLimit |-> 2, monthlyLimit |-> 3, firstTime |-> TRUE, large |-> {a4}]
MCRules == {Captures, Approvals, Verifications}

\* One rule, for the run in which a refund overtakes its capture.
OneRule == {[usageLimit |-> 1, monthlyLimit |-> 3, firstTime |-> FALSE, large |-> {}]}

\* Who plays in a scene: authorizations, transactions and how many event runs.
Cast == CASE rules = Captures -> [auths |-> {a1, a2}, txns |-> {c1, c2, r1}, runs |-> 2]
          [] rules = Approvals -> [auths |-> {a1, a2, a3}, txns |-> {c3, d1}, runs |-> 1]
          [] rules = Verifications -> [auths |-> {a0, a4}, txns |-> {z1}, runs |-> 1]
          [] OTHER -> [auths |-> Auths, txns |-> Txns, runs |-> Cardinality(Runs)]

MCNext ==
    /\ CardStep(Cast.auths, Cast.txns, Runs) /\ UNCHANGED rules
    /\ Cardinality({r \in Runs : run'[r] # Free}) <= Cast.runs
    /\ rules = Captures => ~due'

MCSpec == Init /\ [][MCNext]_vars

\* Event runs are interchangeable, and so are the two halves of a1.
MCSymmetry == Permutations({x1, x2}) \cup Permutations({c1, c2})

\* Sums are what the library's fold computes.
ASSUME SumsAreFolds ==
    \A w \in [1 .. 3 -> 0 .. 2] : \A S \in SUBSET (1 .. 3) :
        Sum(w, S) = MapThenSumSet(LAMBDA i : w[i], S)
===============================================================================
