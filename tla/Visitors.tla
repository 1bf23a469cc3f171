------------------------------ MODULE Visitors ------------------------------
(***************************************************************************)
(* What a browser carries for this site and what it is counted by: the     *)
(* answer about cookies (helpers/consent.py), the name a reader is counted *)
(* by (helpers/visitor.py), the preference cookies, and the counting of    *)
(* one banner (BannerService.count).                                       *)
(*                                                                         *)
(* One browser.  A form is posted with the cookies of that moment and what *)
(* its answer writes lands when it arrives, one form at a time; views of   *)
(* the banner travel beside it, several at once.  A signed value is what   *)
(* this side wrote, so forged ones are left out.                           *)
(***************************************************************************)
EXTENDS Integers, FiniteSets

CONSTANTS
  View,          \* requests that count a view of the banner
  MaxForms,      \* bound on the forms posted
  MaxVersions,   \* bound on the versions of the question
  MaxDays        \* bound on the days

ASSUME VisitorsAssumption == MaxForms \in Nat /\ MaxVersions \in Nat \ {0} /\ MaxDays \in Nat \ {0}

VARIABLES
  version,      \* settings.site.consent.version
  answer,       \* the consent cookie, NoConsent while the browser has none
  visitorName,  \* the name in the visitor cookie, 0 while there is none
  preference,   \* the language or palette cookie: "none", "session" or "lasting"
  minted,       \* names handed out
  form,         \* the form in flight: what it will write when its answer arrives, NoForm while there is none
  forms,        \* forms posted
  view,         \* [View -> where the request is and the name it carries]
  today,
  impressions,  \* banner_impression rows
  total,        \* banner.views
  dropped       \* rows the retention trimmed

visitorVars == <<version, answer, visitorName, preference, minted, form, forms, view, today, impressions, total, dropped>>

ConsentCategory == {"preferences", "analytics"}
NoConsent == [version |-> 0, allowed |-> {}]
NoForm == [writes |-> {}]

VisitorsInit ==
  /\ version = 1 /\ answer = NoConsent /\ visitorName = 0 /\ preference = "none" /\ minted = 0
  /\ form = NoForm /\ forms = 0
  /\ view = [v \in View |-> [at |-> "new", name |-> 0, day |-> 0]]
  /\ today = 1 /\ impressions = {} /\ total = 0 /\ dropped = {}

\* What the answer of this browser allows now: one about another version of the question is none.
given == IF answer.version = version THEN answer.allowed ELSE {}

remember_preference(allowed) == IF "preferences" \in allowed THEN "lasting" ELSE "session"

-----------------------------------------------------------------------------
(* Forms.                                                                  *)

Posts(f) ==
  /\ form = NoForm /\ forms < MaxForms
  /\ form' = f /\ forms' = forms + 1

\* Variant: the preference cookies already written keep the life they had.
settle_cookies_KeepsPreference(allowed) ==
  LET carried == IF visitorName # 0 THEN visitorName ELSE minted + 1
  IN /\ Posts([writes |-> {"answer", "name"},
               answer |-> [version |-> version, allowed |-> allowed],
               name |-> IF "analytics" \in allowed THEN carried ELSE 0,
               preference |-> preference])
     /\ minted' = IF "analytics" \in allowed /\ visitorName = 0 THEN minted + 1 ELSE minted
     /\ UNCHANGED <<version, answer, visitorName, preference, view, today, impressions, total, dropped>>

\* The answer is written, the preference cookies that are there are rewritten under it, and the name is kept or taken away.
settle_cookies(allowed) ==
  LET carried == IF visitorName # 0 THEN visitorName ELSE minted + 1
  IN /\ Posts([writes |-> {"answer", "name", "preference"},
               answer |-> [version |-> version, allowed |-> allowed],
               name |-> IF "analytics" \in allowed THEN carried ELSE 0,
               preference |-> IF preference = "none" THEN "none" ELSE remember_preference(allowed)])
     /\ minted' = IF "analytics" \in allowed /\ visitorName = 0 THEN minted + 1 ELSE minted
     /\ UNCHANGED <<version, answer, visitorName, preference, view, today, impressions, total, dropped>>

\* choose_language and choose_theme: the cookie lives as long as the answer carried now allows.
choose_language ==
  /\ Posts([writes |-> {"preference"}, answer |-> answer, name |-> visitorName, preference |-> remember_preference(given)])
  /\ UNCHANGED <<version, answer, visitorName, preference, minted, view, today, impressions, total, dropped>>

FormArrives ==
  /\ form # NoForm
  /\ answer' = IF "answer" \in form.writes THEN form.answer ELSE answer
  /\ visitorName' = IF "name" \in form.writes THEN form.name ELSE visitorName
  /\ preference' = IF "preference" \in form.writes THEN form.preference ELSE preference
  /\ form' = NoForm
  /\ UNCHANGED <<version, minted, forms, view, today, impressions, total, dropped>>

\* The answer and the name were written together for the same time, and go together.
AnswerExpires ==
  /\ form = NoForm /\ answer # NoConsent
  /\ answer' = NoConsent /\ visitorName' = 0
  /\ UNCHANGED <<version, preference, minted, form, forms, view, today, impressions, total, dropped>>

\* The question changes with a deploy.
QuestionChanges ==
  /\ version < MaxVersions
  /\ version' = version + 1
  /\ UNCHANGED <<answer, visitorName, preference, minted, form, forms, view, today, impressions, total, dropped>>

-----------------------------------------------------------------------------
(* Counting.                                                               *)

ViewAt(v, at) == view[v].at = at

counted == IF "analytics" \in given THEN visitorName ELSE 0

\* A view nobody may be named for is answered and not counted.
settle_count(v) ==
  /\ ViewAt(v, "new")
  /\ view' = [view EXCEPT ![v] = IF counted = 0 THEN [at |-> "done", name |-> 0, day |-> 0] ELSE [at |-> "look", name |-> counted, day |-> today]]
  /\ UNCHANGED <<version, answer, visitorName, preference, minted, form, forms, today, impressions, total, dropped>>

Impression(v) == [name |-> view[v].name, day |-> view[v].day]

\* insert_or_read looks for the row of the day.
CountLooks(v) ==
  /\ ViewAt(v, "look")
  /\ view' = [view EXCEPT ![v].at = IF Impression(v) \in impressions THEN "done" ELSE "write"]
  /\ UNCHANGED <<version, answer, visitorName, preference, minted, form, forms, today, impressions, total, dropped>>

\* Variant: the loser of the race raises the total too.
CountWrites_Loser(v) ==
  /\ ViewAt(v, "write")
  /\ impressions' = impressions \cup {Impression(v)}
  /\ total' = total + 1
  /\ view' = [view EXCEPT ![v].at = "done"]
  /\ UNCHANGED <<version, answer, visitorName, preference, minted, form, forms, today, dropped>>

\* The row and the total in one commit, and only for whoever wrote the row.
CountWrites(v) ==
  /\ ViewAt(v, "write")
  /\ impressions' = impressions \cup {Impression(v)}
  /\ total' = IF Impression(v) \in impressions THEN total ELSE total + 1
  /\ view' = [view EXCEPT ![v].at = "done"]
  /\ UNCHANGED <<version, answer, visitorName, preference, minted, form, forms, today, dropped>>

\* The request dies, or MySQL picks it out of a deadlock on the row of the banner, and what it wrote is rolled back.
CountFails(v) ==
  /\ ViewAt(v, "write")
  /\ view' = [view EXCEPT ![v].at = "done"]
  /\ UNCHANGED <<version, answer, visitorName, preference, minted, form, forms, today, impressions, total, dropped>>

\* Variant: the retention drops rows of today.
TrimsImpressions_Today ==
  /\ impressions # {}
  /\ dropped' = dropped \cup impressions
  /\ impressions' = {}
  /\ UNCHANGED <<version, answer, visitorName, preference, minted, form, forms, view, today, total>>

\* The retention drops rows older than its window, which is a day or more, so no view of that day is still being counted.
TrimsImpressions ==
  LET old == {i \in impressions : i.day < today}
  IN /\ old # {}
     /\ \A v \in View : view[v].at \in {"look", "write"} => view[v].day = today
     /\ impressions' = impressions \ old
     /\ dropped' = dropped \cup old
     /\ UNCHANGED <<version, answer, visitorName, preference, minted, form, forms, view, today, total>>

DayPasses ==
  /\ today < MaxDays
  /\ today' = today + 1
  /\ UNCHANGED <<version, answer, visitorName, preference, minted, form, forms, view, impressions, total, dropped>>

VisitorsNext ==
  \/ \E allowed \in SUBSET ConsentCategory : settle_cookies(allowed)
  \/ choose_language \/ FormArrives \/ AnswerExpires \/ QuestionChanges
  \/ \E v \in View : settle_count(v) \/ CountLooks(v) \/ CountWrites(v) \/ CountFails(v)
  \/ TrimsImpressions \/ DayPasses

VisitorsSpec == VisitorsInit /\ [][VisitorsNext]_visitorVars

-----------------------------------------------------------------------------
(* What must hold.                                                         *)

\* The cookies, the requests and the rows have the shape the code gives them.
VisitorsTypeOK ==
  /\ version \in 1..MaxVersions /\ today \in 1..MaxDays /\ visitorName \in 0..minted
  /\ answer.version \in 0..version /\ answer.allowed \subseteq ConsentCategory
  /\ preference \in {"none", "session", "lasting"}
  /\ \A v \in View : view[v].at \in {"new", "look", "write", "done"}

\* A browser carries a name only beside an answer that allowed it, and a cookie of preference outlives the visit only where the answer it carries allowed that.
CarriedIsAllowed ==
  /\ visitorName # 0 => "analytics" \in answer.allowed
  /\ (answer # NoConsent /\ preference = "lasting") => "preferences" \in answer.allowed

\* The total of a banner is what its rows explain: one for each reader and day, those the retention dropped included, however many views arrived at once.
TotalIsExplained == total = Cardinality(impressions \cup dropped)

\* A browser carries what its visitor allows, however late an answer lands, and a total counts every visitor of a day once.
VisitorsInv == VisitorsTypeOK /\ CarriedIsAllowed /\ TotalIsExplained
=============================================================================
