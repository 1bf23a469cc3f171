-------------------------------- MODULE MCOnce --------------------------------
(* What is done once although the nodes doing it die: a message leaves, a  *)
(* payment is settled whatever its notices, and two subscriptions of one   *)
(* account pay a once-per-user credit.  The three share no row, so a       *)
(* behaviour is that of one of them while the others rest.                 *)
EXTENDS Delivery, Commerce, EmailQueue, TLC

CONSTANTS s1, s2, b1, b2, h1, n1, n2, u1, p1, o1, m1, m2, a1

VARIABLE under

TwoSubs == b1 :> s1 @@ b2 :> s2
AllPromised == [p \in Plan |-> Benefit]
Credits == [b \in Benefit |-> "CREDIT"]
OncePer == [b \in Benefit |-> "ONCE_PER_USER"]
Activating == [b \in Benefit |-> TRUE]
CatchUp == [b \in Benefit |-> "CATCH_UP"]
OneBuyer == [o \in Purchase |-> u1]
OneAddress == [m \in Msg |-> a1]

onceVars == <<under, vars, commerceVars, mailVars>>

OnceInit == under \in {"benefits", "payments", "mail"} /\ Init /\ CommerceInit /\ MailInit

OnceNext ==
  /\ UNCHANGED under
  /\ \/ under = "benefits" /\ Next /\ UNCHANGED <<commerceVars, mailVars>>
     \/ under = "payments" /\ CommerceNext /\ UNCHANGED <<vars, mailVars>>
     \/ under = "mail" /\ MailNext /\ UNCHANGED <<vars, commerceVars>>

OnceFairness ==
  /\ \A n \in MailNode : WF_mailVars(under = "mail" /\ Pass(n))
  /\ \A m \in Msg : WF_mailVars(under = "mail" /\ queue(m)) /\ WF_mailVars(under = "mail" /\ MailAbandoned(m))

OnceSpec == OnceInit /\ [][OnceNext]_onceVars /\ OnceFairness
=============================================================================
