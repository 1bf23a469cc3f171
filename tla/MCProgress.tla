------------------------------ MODULE MCProgress ------------------------------
(* Three parts whose work is done by passes of the cron: benefits, payment *)
(* notices and app events.  They share no row, so a behaviour is that of   *)
(* one of them while the others rest.                                      *)
EXTENDS Delivery, Commerce, AppEvents, TLC

CONSTANTS n1, s1, b1, u1, p1, h1, h2, o1, o2, e1, r1, r2

VARIABLE part

OneSub == [b \in Benefit |-> s1]
AllPromised == [p \in Plan |-> Benefit]
Credits == [b \in Benefit |-> "CREDIT"]
Recurring == [b \in Benefit |-> "RECURRING"]
Activating == [b \in Benefit |-> TRUE]
LatestOnly == [b \in Benefit |-> "LATEST_ONLY"]
OneBuyer == [o \in Purchase |-> u1]
Batch == [r \in Report |-> IF r = r1 THEN <<e1, e1>> ELSE <<e1>>]

Parts == {"benefits", "payments", "events"}

progressVars == <<part, vars, commerceVars, eventVars>>

ProgressInit == part \in Parts /\ Init /\ CommerceInit /\ EventsInit

ProgressNext ==
  /\ UNCHANGED part
  /\ \/ part = "benefits" /\ Next /\ UNCHANGED <<commerceVars, eventVars>>
     \/ part = "payments" /\ CommerceNext /\ UNCHANGED <<vars, eventVars>>
     \/ part = "events" /\ EventsNext /\ UNCHANGED <<vars, commerceVars>>

\* What each part is given by the cron and by time, as its module states it.
ProgressFairness ==
  /\ \A n \in Node :
       /\ WF_vars(part = "benefits" /\ Work(n) /\ UNCHANGED <<calls, crashes>>)
       /\ SF_vars(part = "benefits" /\ StartRetry(n) /\ UNCHANGED <<calls, crashes>>)
       /\ SF_vars(part = "benefits" /\ StartDue(n) /\ UNCHANGED <<calls, crashes>>)
  /\ WF_vars(part = "benefits" /\ (\E g \in DOMAIN grants : Abandon(g)) /\ UNCHANGED <<calls, crashes>>)
  /\ \A n \in PaymentNode : WF_commerceVars(part = "payments" /\ SessionWorks(n)) /\ SF_commerceVars(part = "payments" /\ retry_failed(n))
  /\ \A e \in Notice : WF_commerceVars(part = "payments" /\ close_exhausted_notices(e)) /\ WF_commerceVars(part = "payments" /\ NoticeAbandoned(e))
  /\ \A p \in EventPass : WF_eventVars(part = "events" /\ PassStep(p))
  /\ \A u \in Uuid : WF_eventVars(part = "events" /\ EventAgesOut(u))

ProgressSpec == ProgressInit /\ [][ProgressNext]_progressVars /\ ProgressFairness
=============================================================================
