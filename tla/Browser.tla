------------------------------- MODULE Browser -------------------------------
(***************************************************************************)
(* A person walks the account pages of the site in one tab: the cookies    *)
(* the pages keep, where each page sends the person next, and what it      *)
(* draws (routes/site/account.py, authentication.py, checkout.py, base.py  *)
(* and helpers/site.py).  Between two requests anything happens elsewhere: *)
(* another device, the gateway, the clock.                                 *)
(*                                                                         *)
(* A form is filled in well or badly; what the services behind it do in    *)
(* detail is modelled in Accounts, Commerce and Files.  Of an address the  *)
(* page is kept, with the destination and the record it names.             *)
(***************************************************************************)
EXTENDS Integers, FiniteSets

CONSTANTS
  MaxVisits,   \* bound on what the person does before following where a page leads
  MaxClicks,   \* bound on what the person does
  MaxTurns     \* bound on what happens elsewhere

ASSUME BrowserAssumption == MaxVisits \in Nat /\ MaxClicks \in Nat /\ MaxTurns \in Nat

VARIABLES
  asksProof,   \* settings.confirm_sign_up
  me,          \* the account of the person
  sale,        \* status of the purchase of the person
  jar,         \* cookies: session, flash and the token of the forms
  tab,         \* the page drawn, or the request under way
  mailbox,     \* external: letters that arrived
  goal,        \* history: the page the person was stopped on the way to
  told,        \* history: the last notice handed over, until a page draws it
  clicks, turns

browserVars == <<asksProof, me, sale, jar, tab, mailbox, goal, told, clicks, turns>>

Nowhere == "nowhere"
Outside == "outside"     \* an address of another host, of the API or of the panel
Silent == "silent"
NoCookie == 0            \* epochs and form tokens are counted from 1

AUTH_PAGES == {"login", "signup", "recovery", "email-login", "email-code"}
PrivatePages == {"account", "profile", "password", "address", "subscriptions", "subscription", "purchases", "purchase", "owned", "credits", "delete", "connections"}
SitePages == AUTH_PAGES \cup PrivatePages \cup {"home", "confirmation", "confirm", "reset", "product", "plans", "success", "error"}

\* Records an address may name: one of the person's, one of somebody else's.
Record == {"mine", "theirs"}
Url(page, next, id) == [page |-> page, next |-> next, id |-> id]
To(page) == Url(page, Nowhere, Nowhere)

\* Where a page says to go next is a page of this site, however the value arrived.
inside(wanted, default) == IF wanted \in {Nowhere, Outside} THEN default ELSE wanted

\* A page of signing in is never where signing in puts somebody.
landing(wanted) == IF inside(wanted, "account") \in AUTH_PAGES THEN "account" ELSE inside(wanted, "account")

\* The account the session cookie names, when it still answers.
account_of == jar.session # NoCookie /\ me.status = "ACTIVE" /\ jar.session = me.epoch

-----------------------------------------------------------------------------
(* What a handler answers.  A page drawn carries the destination its form  *)
(* sends back; a redirect may leave a notice, and either sets the session. *)

Answer == [kind |-> "drawn", url |-> tab.url, field |-> Nowhere, notice |-> Silent, session |-> jar.session,
           me |-> me, sale |-> sale, mails |-> {}, shows |-> {}, stopped |-> Nowhere, token |-> 0]

render(field, shows) == [Answer EXCEPT !.field = field, !.shows = shows]
redirect(url, notice) == [Answer EXCEPT !.kind = "sent", !.url = url, !.notice = notice]
PageNotFound == [Answer EXCEPT !.kind = "missing"]

\* The session is minted out of the row as it is now.
sign_in_as(answer, row) == [answer EXCEPT !.me = row, !.session = row.epoch]
sign_out_of(answer, row) == [answer EXCEPT !.me = row, !.session = NoCookie]

\* A refused form is drawn again under its own path, with the destination it carried.
again(page) == [Answer EXCEPT !.url = To(page), !.field = landing(tab.field)]

\* The sign in is told where the person was going; coming back is a GET, so a form names the page it was drawn on.
SignInRequired ==
  LET wanted == inside(IF tab.method = "GET" THEN tab.url.page ELSE tab.from.page, "home")
  IN [redirect(Url("login", wanted, Nowhere), Silent) EXCEPT !.stopped = wanted]

\* The form goes back to the page it was drawn on, whose address holds the token of a letter.
PageExpired == [redirect(tab.from, "expired") EXCEPT !.token = tab.token]

\* The token of the form is the one of the cookie.
guard == jar.csrf # NoCookie /\ tab.csrf = jar.csrf

-----------------------------------------------------------------------------
(* Pages opened.                                                           *)

\* Somebody signed in is sent where they were going, and on their account when they were going nowhere.
login == IF account_of THEN redirect(To(landing(tab.url.next)), Silent) ELSE render(landing(tab.url.next), {})

signup == IF account_of THEN redirect(To(landing(tab.url.next)), Silent) ELSE render(landing(tab.url.next), {})
confirmation_page == render(Nowhere, {})
password_recovery == render(landing(tab.url.next), {})
email_login == render(landing(tab.url.next), {})
email_code == render(landing(tab.url.next), {})

Waiting(token) == me.status = "PENDING" /\ me.confirmation = token
recoverable(token) == me.recovery = token /\ token # 0

\* The link asks, and only the answer sent from the page opens the account.
confirmation_question ==
  IF Waiting(tab.token) THEN render(tab.url.next, {}) ELSE redirect(To("login"), "confirmation-token-invalid")

reset_password ==
  IF recoverable(tab.token) THEN render(landing(tab.url.next), {}) ELSE redirect(To("recovery"), "recovery-token-invalid")

\* What an account lists is its own.
list_for_user == {"mine"}

\* The record of this account and no other.
find_for_user(id) == {id} \cap {"mine"}

account == render(Nowhere, list_for_user)
edit_profile == render(Nowhere, {"mine"})
password == render(Nowhere, {})
address == render(Nowhere, {"mine"})
subscriptions == render(Nowhere, list_for_user)
subscription_page == IF find_for_user(tab.url.id) = {} THEN PageNotFound ELSE render(Nowhere, find_for_user(tab.url.id))
purchases == render(Nowhere, list_for_user)
purchase == IF find_for_user(tab.url.id) = {} THEN PageNotFound ELSE render(Nowhere, find_for_user(tab.url.id))
owned == render(Nowhere, list_for_user)
credits == render(Nowhere, list_for_user)
delete_account == render(Nowhere, {})
social_connections == render(Nowhere, list_for_user)

\* The purchase the gateway sent the buyer back about, when it is this account's.
mine(id) == IF id = Nowhere \/ ~account_of THEN {} ELSE find_for_user(id)

\* A subscription writes no purchase to read, and a purchase is drawn as what its row says.
paid == [render(Nowhere, mine(tab.url.id)) EXCEPT !.field = IF mine(tab.url.id) = {} THEN "paid" ELSE IF sale = "PENDING" THEN "pending" ELSE IF sale = "PAID" THEN "paid" ELSE "refused"]
cancelled == [render(Nowhere, mine(tab.url.id)) EXCEPT !.field = "refused"]

Opened(page) ==
  CASE page = "login" -> login [] page = "signup" -> signup [] page = "confirmation" -> confirmation_page
    [] page = "recovery" -> password_recovery [] page = "email-login" -> email_login [] page = "email-code" -> email_code
    [] page = "confirm" -> confirmation_question [] page = "reset" -> reset_password
    [] page = "account" -> account [] page = "profile" -> edit_profile [] page = "password" -> password
    [] page = "address" -> address [] page = "subscriptions" -> subscriptions [] page = "subscription" -> subscription_page
    [] page = "purchases" -> purchases [] page = "purchase" -> purchase [] page = "owned" -> owned
    [] page = "credits" -> credits [] page = "delete" -> delete_account [] page = "connections" -> social_connections
    [] page = "success" -> paid [] page = "error" -> cancelled [] OTHER -> render(Nowhere, {})

-----------------------------------------------------------------------------
(* Forms sent.                                                             *)

Good == tab.form = "good"
NewToken == me.drawn + 1
Letter(kind, wanted) == {[kind |-> kind, token |-> NewToken, next |-> wanted, goal |-> goal]}

sign_in_page ==
  IF Good /\ me.status = "ACTIVE" THEN sign_in_as(redirect(To(landing(tab.field)), "signed-in"), me) ELSE again("login")

logout == sign_out_of(redirect(To("home"), Silent), me)

\* An account still waiting on its address has nothing to be signed in to, and its letter carries where the person was going.
register_page ==
  IF ~Good \/ me.status # "none" THEN again("signup")
  ELSE IF asksProof
  THEN [redirect(To("login"), "sign-up-confirmation-sent") EXCEPT
          !.me = [me EXCEPT !.status = "PENDING", !.confirmation = NewToken, !.held = @ \cup {"confirmation"}, !.drawn = NewToken],
          !.mails = Letter("confirm", landing(tab.field))]
  ELSE sign_in_as(redirect(To(landing(tab.field)), "signed-up"), [me EXCEPT !.status = "ACTIVE"])

confirm_sign_up_page ==
  IF Waiting(tab.token)
  THEN sign_in_as(redirect(To(landing(tab.field)), "sign-up-confirmed"), [me EXCEPT !.status = "ACTIVE", !.confirmation = 0, !.held = @ \ {"confirmation"}])
  ELSE redirect(To("login"), "confirmation-token-invalid")

\* Asked for again, the letter carries no destination, and the window may hold it back.
resend_confirmation_page ==
  IF ~Good THEN again("confirmation")
  ELSE IF me.status = "PENDING" /\ "confirmation" \notin me.held
  THEN [redirect(To("login"), "confirmation-resent") EXCEPT
          !.me = [me EXCEPT !.confirmation = NewToken, !.held = @ \cup {"confirmation"}, !.drawn = NewToken],
          !.mails = {[l EXCEPT !.goal = Nowhere] : l \in Letter("confirm", Nowhere)}]
  ELSE redirect(To("login"), "confirmation-resent")

start_recovery ==
  IF ~Good THEN again("recovery")
  ELSE IF me.status \in {"PENDING", "ACTIVE"} /\ "recovery" \notin me.held
  THEN [redirect(To("recovery"), "recovery-sent") EXCEPT
          !.me = [me EXCEPT !.recovery = NewToken, !.held = @ \cup {"recovery"}, !.drawn = NewToken],
          !.mails = Letter("reset", landing(tab.field))]
  ELSE redirect(To("recovery"), "recovery-sent")

\* Variant: the new password is the end of the way.
confirm_reset_Forgets ==
  IF ~Good THEN again("reset")
  ELSE IF recoverable(tab.token)
  THEN [redirect(To("login"), "password-changed") EXCEPT !.me = [me EXCEPT !.status = "ACTIVE", !.epoch = @ + 1, !.recovery = 0, !.confirmation = 0, !.held = {}]]
  ELSE redirect(To("recovery"), "recovery-token-invalid")

\* The recovery ends every session, and the sign in that follows is told where the person was going.
confirm_reset ==
  IF ~Good THEN again("reset")
  ELSE IF recoverable(tab.token)
  THEN [redirect(Url("login", landing(tab.field), Nowhere), "password-changed") EXCEPT
          !.me = [me EXCEPT !.status = "ACTIVE", !.epoch = @ + 1, !.recovery = 0, !.confirmation = 0, !.held = {}]]
  ELSE redirect(To("recovery"), "recovery-token-invalid")

request_email_code ==
  IF Good THEN redirect(Url("email-code", landing(tab.field), Nowhere), "sign-in-code-sent") ELSE again("email-login")

\* A code opens the account of the mailbox, a new one, or the one still waiting on it, whose password goes.
confirm_email_code ==
  IF Good /\ me.status # "ERASED"
  THEN sign_in_as(redirect(To(landing(tab.field)), "signed-in"),
                  IF me.status = "PENDING" THEN [me EXCEPT !.status = "ACTIVE", !.epoch = @ + 1, !.confirmation = 0, !.recovery = 0, !.held = {}]
                  ELSE [me EXCEPT !.status = "ACTIVE"])
  ELSE again("email-code")

Saved(page, notice) == IF Good THEN redirect(To(page), notice) ELSE [Answer EXCEPT !.url = To(page)]

save_profile == Saved("profile", "profile-saved")
save_avatar == redirect(To("profile"), IF Good THEN "avatar-saved" ELSE "avatar-refused")
remove_avatar == redirect(To("profile"), "avatar-removed")
save_address == Saved("address", "address-saved")
remove_social == redirect(To("connections"), IF Good THEN "social-disconnected" ELSE "last-sign-in-method")

\* Every other session ended, and this one is handed the token that replaces the one it arrived with.
change_password_page ==
  IF Good THEN sign_in_as(redirect(To("account"), "password-changed"), [me EXCEPT !.epoch = @ + 1, !.recovery = 0, !.held = @ \ {"recovery"}])
  ELSE [Answer EXCEPT !.url = To("password")]

confirm_delete ==
  IF Good THEN sign_out_of(redirect(To("home"), "account-erased"), [me EXCEPT !.status = "ERASED", !.confirmation = 0, !.recovery = 0])
  ELSE [Answer EXCEPT !.url = To("delete")]

\* The purchase is written before the buyer leaves, and closed when no session opens.
buy_product ==
  IF Good THEN [Answer EXCEPT !.kind = "left", !.sale = "PENDING"] ELSE [redirect(To("product"), "checkout-refused") EXCEPT !.sale = "FAILED"]
subscribe_page == IF Good THEN [Answer EXCEPT !.kind = "left"] ELSE redirect(To("plans"), "plan-already-subscribed")

\* The forms a page draws, and what each is sent to.
FormsOf(page) ==
  CASE page = "profile" -> {"save_profile", "save_avatar", "remove_avatar"}
    [] page \in AUTH_PAGES \cup {"confirmation", "confirm", "reset", "password", "address", "delete", "connections", "product", "plans"} -> {page}
    [] OTHER -> {}

Sent(f) ==
  CASE f = "login" -> sign_in_page [] f = "signup" -> register_page [] f = "confirmation" -> resend_confirmation_page
    [] f = "confirm" -> confirm_sign_up_page [] f = "recovery" -> start_recovery [] f = "reset" -> confirm_reset
    [] f = "email-login" -> request_email_code [] f = "email-code" -> confirm_email_code [] f = "logout" -> logout
    [] f = "save_profile" -> save_profile [] f = "save_avatar" -> save_avatar [] f = "remove_avatar" -> remove_avatar
    [] f = "password" -> change_password_page [] f = "address" -> save_address [] f = "delete" -> confirm_delete
    [] f = "connections" -> remove_social [] f = "product" -> buy_product [] f = "plans" -> subscribe_page

\* The session is asked for before the form is read.
PrivateForm(f) == f \in {"save_profile", "save_avatar", "remove_avatar", "password", "address", "delete", "connections", "product", "plans"}

-----------------------------------------------------------------------------
(* The tab.                                                                *)

Handled ==
  IF tab.method = "GET" THEN IF tab.url.page \in PrivatePages /\ ~account_of THEN SignInRequired ELSE Opened(tab.url.page)
  ELSE IF PrivateForm(tab.action) /\ ~account_of THEN SignInRequired
  ELSE IF ~guard THEN PageExpired ELSE Sent(tab.action)

Asking(url, hops) ==
  [at |-> "asks", method |-> "GET", url |-> url, from |-> To("home"), field |-> Nowhere, action |-> Nowhere, form |-> Nowhere, csrf |-> NoCookie,
   token |-> 0, hops |-> hops, shows |-> {}, flashes |-> Silent, due |-> Silent, landed |-> {}]

\* A redirect leaves its notice, and a page that draws the notice takes it.
LeftFlash(answer) == IF answer.notice # Silent THEN answer.notice ELSE IF answer.kind \in {"drawn", "missing"} THEN Silent ELSE jar.flash

\* The pages on the way to a session, and what is told of a letter that was sent or was spent.
EntryPages == AUTH_PAGES \cup {"confirm", "reset"}
LetterNotices == {"sign-up-confirmation-sent", "confirmation-resent", "recovery-sent", "confirmation-token-invalid", "recovery-token-invalid"}

\* The answers after which no page says where the person was going: those about a letter, and a stale form of a page whose own address does not say.
Forgets(answer) ==
  /\ answer.kind = "sent" /\ answer.url.page \in EntryPages /\ answer.url.next = Nowhere
  /\ answer.notice \in LetterNotices \/ (answer.notice = "expired" /\ tab.from.next = Nowhere)

\* A session opened by this answer lands somewhere.
Lands(answer) == answer.kind = "sent" /\ ~account_of /\ answer.session = answer.me.epoch /\ answer.me.status = "ACTIVE"

\* The answer reaches the browser: its cookies are kept, a redirect is followed and a page is drawn.
Answers ==
  LET answer == Handled
  IN /\ tab.at = "asks"
     /\ me' = answer.me /\ sale' = answer.sale
     /\ mailbox' = mailbox \cup answer.mails
     /\ jar' = [session |-> answer.session, flash |-> LeftFlash(answer),
                csrf |-> IF answer.kind \in {"drawn", "missing"} /\ jar.csrf = NoCookie THEN 1 ELSE jar.csrf]
     /\ told' = IF answer.notice # Silent THEN answer.notice ELSE IF answer.kind \in {"drawn", "missing"} THEN Silent ELSE told
     /\ goal' = IF answer.stopped # Nowhere THEN answer.stopped
                ELSE IF Lands(answer) \/ Forgets(answer) THEN Nowhere ELSE goal
     /\ tab' = CASE answer.kind = "sent" ->
                      [Asking(answer.url, tab.hops + 1) EXCEPT
                         !.token = answer.token,
                         !.landed = IF Lands(answer) /\ goal # Nowhere THEN {<<goal, answer.url.page>>} ELSE {}]
                 [] answer.kind = "left" -> [tab EXCEPT !.at = "gateway", !.hops = 0]
                 [] OTHER -> [tab EXCEPT !.at = "drawn", !.url = answer.url, !.field = answer.field, !.hops = 0, !.shows = answer.shows,
                                         !.flashes = jar.flash, !.due = told, !.csrf = IF jar.csrf = NoCookie THEN 1 ELSE jar.csrf, !.landed = {}]
     /\ UNCHANGED <<asksProof, clicks, turns>>

Clicked == tab.at = "drawn" /\ clicks < MaxClicks /\ clicks' = clicks + 1

\* The person opens a page of their own choice.
Opens_page(url) ==
  /\ Clicked /\ clicks < MaxVisits /\ goal' = Nowhere
  /\ tab' = Asking(url, 0)
  /\ UNCHANGED <<asksProof, me, sale, jar, mailbox, told, turns>>

\* The sign-in pages link to one another, and the link carries the destination.
FollowsLink(page) ==
  /\ Clicked
  /\ page \in CASE tab.url.page = "login" -> {"email-login", "signup", "recovery"} [] tab.url.page = "signup" -> {"login"} [] tab.url.page = "email-code" -> {"email-login"} [] OTHER -> {}
  /\ tab' = Asking(Url(page, tab.field, Nowhere), 0)
  /\ UNCHANGED <<asksProof, me, sale, jar, mailbox, goal, told, turns>>

SendsForm(f, how) ==
  /\ Clicked
  /\ f \in FormsOf(tab.url.page) \cup {"logout"}
  /\ tab' = [Asking(tab.url, 0) EXCEPT !.method = "POST", !.from = tab.url, !.field = tab.field, !.action = f, !.form = how, !.csrf = tab.csrf, !.token = tab.token]
  /\ goal' = IF f = "logout" THEN Nowhere ELSE goal
  /\ UNCHANGED <<asksProof, me, sale, jar, mailbox, told, turns>>

\* A letter is opened in this tab.
OpensLetter(l) ==
  /\ Clicked /\ l \in mailbox
  /\ goal' = l.goal
  /\ tab' = [Asking(Url(l.kind, l.next, Nowhere), 0) EXCEPT !.token = l.token]
  /\ UNCHANGED <<asksProof, me, sale, jar, mailbox, told, turns>>

\* External: the gateway sends the buyer back.
GatewayReturns(page, id) ==
  /\ tab.at = "gateway"
  /\ tab' = Asking(Url(page, Nowhere, id), 0)
  /\ UNCHANGED <<asksProof, me, sale, jar, mailbox, goal, told, clicks, turns>>

Turned == turns < MaxTurns /\ turns' = turns + 1 /\ UNCHANGED <<asksProof, tab, mailbox, goal, clicks>>

\* The password is changed, or the account erased, on another device.
MovesElsewhere(row) ==
  /\ Turned /\ me.status = "ACTIVE" /\ me' = row
  /\ UNCHANGED <<sale, jar, told>>
Moved == {[me EXCEPT !.epoch = @ + 1, !.recovery = 0], [me EXCEPT !.status = "ERASED", !.confirmation = 0, !.recovery = 0]}

\* External: the gateway reports the payment.
PaymentSettles(status) ==
  /\ Turned /\ sale = "PENDING" /\ sale' = status
  /\ UNCHANGED <<me, jar, told>>

\* External: a cookie or a window lapses.
Lapses(what) ==
  /\ Turned /\ UNCHANGED sale
  /\ CASE what = "flash" -> jar' = [jar EXCEPT !.flash = Silent] /\ told' = Silent /\ UNCHANGED me
       [] what = "csrf" -> jar' = [jar EXCEPT !.csrf = NoCookie] /\ UNCHANGED <<told, me>>
       [] what = "session" -> jar' = [jar EXCEPT !.session = NoCookie] /\ UNCHANGED <<told, me>>
       [] what = "window" -> me' = [me EXCEPT !.held = {}] /\ UNCHANGED <<jar, told>>

BrowserInit ==
  /\ asksProof \in BOOLEAN
  /\ me \in {[status |-> s, epoch |-> 1, confirmation |-> 0, recovery |-> 0, held |-> {}, drawn |-> 0] : s \in {"none", "ACTIVE"}}
  /\ sale = "none" /\ mailbox = {} /\ goal = Nowhere /\ told = Silent /\ clicks = 0 /\ turns = 0
  /\ jar \in {[session |-> s, flash |-> Silent, csrf |-> 1] : s \in {NoCookie} \cup (IF me.status = "ACTIVE" THEN {1} ELSE {})}
  /\ tab = [Asking(To("home"), 0) EXCEPT !.at = "drawn", !.csrf = 1]

\* Addresses a person may open: any page with any destination, and the record pages with any number.
Asked_url == {To(p) : p \in SitePages \ {"confirm", "reset", "email-code", "subscription", "purchase"}}
             \cup {Url(p, Nowhere, id) : p \in {"subscription", "purchase", "success", "error"}, id \in Record}
             \cup {Url("login", next, Nowhere) : next \in {Outside, "login", "email-code", "purchases"}}

BrowserNext ==
  \/ Answers
  \/ \E url \in Asked_url : Opens_page(url)
  \/ \E page \in {"login", "signup", "recovery", "email-login"} : FollowsLink(page)
  \/ \E f \in UNION {FormsOf(p) : p \in SitePages} \cup {"logout"}, how \in {"good", "bad"} : SendsForm(f, how)
  \/ \E l \in mailbox : OpensLetter(l)
  \/ \E page \in {"success", "error"}, id \in {"mine", Nowhere} : GatewayReturns(page, id)
  \/ \E row \in Moved : MovesElsewhere(row)
  \/ \E status \in {"PAID", "FAILED"} : PaymentSettles(status)
  \/ \E what \in {"flash", "csrf", "session", "window"} : Lapses(what)

-----------------------------------------------------------------------------
(* What must hold.                                                         *)

\* The account, the cookies and the tab have the shape the code gives them.
BrowserTypeOK ==
  /\ me.status \in {"none", "PENDING", "ACTIVE", "ERASED"} /\ me.epoch \in Nat /\ sale \in {"none", "PENDING", "PAID", "FAILED"}
  /\ jar.session \in Nat /\ jar.csrf \in {NoCookie, 1}
  /\ tab.at \in {"asks", "drawn", "gateway"} /\ tab.url.page \in SitePages /\ tab.hops \in Nat

\* Whatever happens to the session on the way, the pages never send a person round: two redirects on, and one more for what happened elsewhere meanwhile, a page is drawn.
RedirectsEnd == tab.hops <= 2 + turns

\* A person stopped to sign in lands where they were going, through a wrong password, the other sign-in pages, a sign-up letter or a recovered password,
\* unless an answer about a letter, or a stale form, sent them to a page whose address does not say where.
LandsWhereWanted == \A pair \in tab.landed : pair[1] = pair[2]

\* The notice of what was done is on the next page drawn, however many redirects lie between, and on no page after it.
NoticeDrawnOnce == tab.at = "drawn" => tab.flashes = tab.due

\* A page draws records of the account the session names and of nobody else, whatever number its address carries.
DrawnIsOwn == tab.at = "drawn" => tab.shows \subseteq {"mine"}

\* Through redirects, letters and what happens elsewhere, a person gets where they were going, is told once what was done, and sees what is theirs.
BrowserInv == BrowserTypeOK /\ RedirectsEnd /\ LandsWhereWanted /\ NoticeDrawnOnce /\ DrawnIsOwn
=============================================================================
