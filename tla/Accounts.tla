------------------------------- MODULE Accounts -------------------------------
(***************************************************************************)
(* Accounts of one brand and everything that turns a person into a         *)
(* session: passwords, letters that prove an address or recover a          *)
(* password, codes by mail, social identities and the tickets of the       *)
(* panel (services/auth_service.py, user_service.py, email_login_service,  *)
(* social_login_service, login_ticket_service and their routes).           *)
(*                                                                         *)
(* A step is what a request does up to a commit.  Between two steps it     *)
(* holds a copy of the row, and hashing or a call to a provider lets every *)
(* other request in.  user_service.hold locks a row up to the commit.      *)
(***************************************************************************)
EXTENDS Integers, FiniteSets

CONSTANTS
  Request,        \* requests at work at the same time
  Account,        \* primary keys of the user table
  Operator,       \* accounts whose role works in the panel; they exist from the start
  Mailbox, Password, Subject,   \* mailboxes, passwords, people at a social provider
  None,
  Attempts,       \* settings.security.sign_in_attempts
  CodeAttempts,   \* settings.authentication.email.max_attempts
  MaxRequests     \* bound on the requests of a behaviour

UserStatus == {"PENDING", "ACTIVE", "BLOCKED", "ERASED"}

\* Letters the interval still holds back are in `held`.  `blocked` is "over" once the cooldown passed.  `wrong` and `changed` are history: wrong passwords since the last right one or reset, and how often the password was replaced.
UserRow == [status : UserStatus, email : Mailbox \cup {None}, pending : Mailbox \cup {None}, named : BOOLEAN,
            confirmation : Nat \cup {None}, recovery : Nat \cup {None}, held : SUBSET {"confirmation", "recovery"},
            password : Password \cup {None}, epoch : Nat, changed : Nat, fails : Nat, blocked : {"no", "yes", "over"}, wrong : Nat]

ASSUME AccountsAssumption ==
  /\ Account \subseteq Nat /\ IsFiniteSet(Account) /\ Operator \subseteq Account
  /\ {Attempts, CodeAttempts, MaxRequests} \subseteq Nat \ {0}
  /\ None \notin Account \cup Mailbox \cup Password \cup Subject \cup Nat \cup UserRow

VARIABLES
  confirming,  \* settings.confirm_sign_up
  users,       \* [Account -> a row, None before it is inserted]
  identities,  \* [Subject -> the account it signs in to, or None]
  codes,       \* [Address -> the challenge of the mailbox, or None]
  attempts,    \* social attempts not consumed
  tickets,     \* login tickets not consumed
  letters,     \* external: letters that reached a mailbox
  sessions,    \* tokens handed out
  requests,    \* [Request -> what it keeps between two steps]
  proved,      \* history: who an address, an operator or a provider vouched for
  opened,      \* history: sessions opened per letter, code, attempt or ticket
  drawn, begun

vars == <<confirming, users, identities, codes, attempts, tickets, letters, sessions, requests, proved, opened, drawn, begun>>
history == <<proved, opened>>

Blank == [status |-> "ACTIVE", email |-> None, pending |-> None, named |-> FALSE, confirmation |-> None, recovery |-> None, held |-> {},
          password |-> None, epoch |-> 0, changed |-> 0, fails |-> 0, blocked |-> "no", wrong |-> 0]

Challenge == [token : Nat, attempts : 0 .. CodeAttempts, live : BOOLEAN, resend : BOOLEAN]

Idle == [at |-> "idle", a |-> None, row |-> None, arg |-> None, token |-> None, by |-> None, panel |-> FALSE]

Init ==
  /\ confirming \in BOOLEAN
  /\ \E p \in Password : users = [a \in Account |-> IF a \in Operator THEN [Blank EXCEPT !.named = TRUE, !.password = p] ELSE None]
  /\ identities \in {f \in [Subject -> Operator \cup {None}] : \A s, r \in Subject : f[s] = f[r] /\ f[s] # None => s = r}
  /\ codes = [m \in Mailbox |-> None]
  /\ attempts = {} /\ tickets = {} /\ letters = {} /\ sessions = {}
  /\ requests = [q \in Request |-> Idle]
  /\ proved = {} /\ opened = [t \in 1 .. 3 * MaxRequests |-> 0]
  /\ drawn = 0 /\ begun = 0

-----------------------------------------------------------------------------
(* Rows, requests and sessions.                                            *)

Registered == {a \in Account : users[a] # None}
Of(m) == {a \in Registered : users[a].email = m}
Next_id(a) == a \in Account \ Registered /\ \A o \in Account \ Registered : a <= o

Put(a, row) == users' = [users EXCEPT ![a] = row]
Keep(q, new) == requests' = [requests EXCEPT ![q] = new]
Begin(q) == requests[q].at = "idle" /\ begun < MaxRequests /\ begun' = begun + 1 /\ UNCHANGED confirming
At(q, place) == requests[q].at = place

\* A token nobody drew before.
Draws == drawn' = drawn + 1

awaiting(row) == row.status = "PENDING" \/ row.pending # None

\* create_token: the epoch of the row it is minted from.  `under` is history: the password the account had when the credential was accepted.
Session == [a : Account, epoch : Nat, under : Nat, by : {"password", "signup", "letter", "code", "social", "ticket"}]
Mint(a, epoch, under, by) == sessions' = sessions \cup {[a |-> a, epoch |-> epoch, under |-> under, by |-> by]}

\* load_user: the token is of an account that may answer, and of no earlier epoch.
load_user(s) == users[s.a].status = "ACTIVE" /\ users[s.a].epoch = s.epoch

\* A letter, a code, an attempt or a ticket opened one more session.
Opens(t) == opened' = [opened EXCEPT ![t] = @ + 1]

\* Something else of the account still signs it in.
Connected(a) == \E s \in Subject : identities[s] = a

-----------------------------------------------------------------------------
(* Signing in by password.                                                 *)

\* authenticate, and authenticate_for_panel: the account is read and the hash is verified on a thread.
sign_in(q, a, p, panel) ==
  /\ Begin(q) /\ a \in Registered
  /\ Keep(q, [Idle EXCEPT !.at = "verify", !.a = a, !.row = users[a], !.arg = p, !.panel = panel])
  /\ UNCHANGED <<users, identities, codes, attempts, tickets, letters, sessions, history, drawn>>

Settled(q) == requests[q].row.password # None /\ requests[q].row.password = requests[q].arg

\* The row is the one the password was verified against.
Claimed(q) ==
  LET row == users[requests[q].a]
  IN row.status = "ACTIVE" /\ row.password = requests[q].row.password /\ row.epoch = requests[q].row.epoch

Reset(row) == [row EXCEPT !.fails = 0, !.blocked = "no", !.wrong = 0]

\* One conditioned write, and a commit.
settle_sign_in(q) ==
  LET a == requests[q].a
      row == requests[q].row
      allowed == row.blocked # "yes" /\ row.status \in {"ACTIVE", "ERASED"} /\ Claimed(q)
  IN /\ At(q, "verify") /\ Settled(q)
     /\ IF allowed
        THEN Put(a, Reset(users[a])) /\ Keep(q, [requests[q] EXCEPT !.at = "claimed"])
        ELSE UNCHANGED users /\ Keep(q, Idle)
     /\ UNCHANGED <<identities, codes, attempts, tickets, letters, sessions, history, drawn, begun, confirming>>

\* The account may answer, and is still of the epoch that was read.
MayAnswer(q) ==
  LET a == requests[q].a
  IN users[a].status = "ACTIVE" /\ users[a].epoch = requests[q].row.epoch /\ (requests[q].panel => a \in Operator)

\* Variant: the row read back is not asked again.
Answers_Unasked(q) == TRUE

\* The row read back may still answer, and whoever came by password still has the one that was verified.
Answers(q) == MayAnswer(q) /\ (At(q, "claimed") => users[requests[q].a].password = requests[q].row.password)

\* What was claimed is read back before a session is minted from it.
PasswordSession(q) ==
  LET row == requests[q].row
  IN /\ At(q, "claimed")
     /\ IF Answers(q) THEN Mint(requests[q].a, row.epoch, row.changed, "password") ELSE UNCHANGED sessions
     /\ Keep(q, Idle)
     /\ UNCHANGED <<users, identities, codes, attempts, tickets, letters, history, drawn, begun, confirming>>

\* Variant: the count is raised from what was read.
Raised_Read(q) == requests[q].row.fails + 1

\* The count is raised by the database.
Raised(q) == users[requests[q].a].fails + 1

count_failure(q) ==
  /\ At(q, "verify") /\ ~Settled(q)
  /\ Put(requests[q].a, [users[requests[q].a] EXCEPT !.fails = Raised(q), !.wrong = @ + 1])
  /\ Keep(q, [requests[q] EXCEPT !.at = "count"])
  /\ UNCHANGED <<identities, codes, attempts, tickets, letters, sessions, history, drawn, begun, confirming>>

\* The count is read back, and only one past the allowance goes on to block.
ReadCount(q) ==
  /\ At(q, "count")
  /\ Keep(q, IF users[requests[q].a].fails < Attempts THEN Idle ELSE [requests[q] EXCEPT !.at = "block"])
  /\ UNCHANGED <<users, identities, codes, attempts, tickets, letters, sessions, history, drawn, begun, confirming>>

Block(q) ==
  /\ At(q, "block")
  /\ Put(requests[q].a, [users[requests[q].a] EXCEPT !.blocked = "yes"])
  /\ Keep(q, Idle)
  /\ UNCHANGED <<identities, codes, attempts, tickets, letters, sessions, history, drawn, begun, confirming>>

-----------------------------------------------------------------------------
(* Signing up, and the letter that proves an address.                      *)

\* confirmation_is_asked_of
Asked(m) == confirming /\ m # None

\* The unique index lets one of two sign-ups through.
register(q, m, p) ==
  /\ Begin(q)
  /\ \E a \in Account :
       /\ Next_id(a)
       /\ IF Of(m) # {} THEN UNCHANGED <<users, sessions>> /\ Keep(q, Idle)
          ELSE /\ Put(a, [Blank EXCEPT !.email = m, !.password = p, !.status = IF Asked(m) THEN "PENDING" ELSE "ACTIVE"])
               /\ IF Asked(m) THEN UNCHANGED sessions /\ Keep(q, [Idle EXCEPT !.at = "claim confirmation", !.a = a])
                  ELSE Mint(a, 0, 0, "signup") /\ Keep(q, Idle)
  /\ UNCHANGED <<identities, codes, attempts, tickets, letters, history, drawn>>

\* A letter is asked for again.
resend_confirmation(q, a) ==
  /\ Begin(q) /\ a \in Registered
  /\ (users[a].status = "PENDING" /\ users[a].email # None) \/ users[a].pending # None
  /\ Keep(q, [Idle EXCEPT !.at = "claim confirmation", !.a = a])
  /\ UNCHANGED <<users, identities, codes, attempts, tickets, letters, sessions, history, drawn>>

\* The window is taken and the token drawn by one conditioned write.
claim_confirmation(q) ==
  LET a == requests[q].a
  IN /\ At(q, "claim confirmation")
     /\ IF awaiting(users[a]) /\ "confirmation" \notin users[a].held
        THEN /\ Put(a, [users[a] EXCEPT !.confirmation = drawn + 1, !.held = @ \cup {"confirmation"}])
             /\ Draws /\ Keep(q, [requests[q] EXCEPT !.at = "mail confirmation"])
        ELSE UNCHANGED <<users, drawn>> /\ Keep(q, Idle)
     /\ UNCHANGED <<identities, codes, attempts, tickets, letters, sessions, history, begun, confirming>>

\* The row is read back, and the letter carries its token to the address it is to prove.
mail_confirmation(q) ==
  LET a == requests[q].a
      row == users[a]
      to == IF row.pending # None THEN row.pending ELSE row.email
  IN /\ At(q, "mail confirmation")
     /\ letters' = IF to = None THEN letters ELSE letters \cup {[kind |-> "confirmation", to |-> to, token |-> row.confirmation, a |-> a]}
     /\ Keep(q, Idle)
     /\ UNCHANGED <<users, identities, codes, attempts, tickets, sessions, history, drawn, begun, confirming>>

\* The letter is answered: the account it still opens is read.
confirm_sign_up(q, l) ==
  /\ Begin(q) /\ l.kind = "confirmation"
  /\ \E a \in Registered :
       /\ l.token # None /\ users[a].confirmation = l.token /\ awaiting(users[a])
       /\ Keep(q, [Idle EXCEPT !.at = "confirm", !.a = a, !.row = users[a], !.token = l.token, !.arg = l.to])
  /\ UNCHANGED <<users, identities, codes, attempts, tickets, letters, sessions, history, drawn>>

StillAnswers(q) == awaiting(users[requests[q].a]) /\ users[requests[q].a].confirmation = requests[q].token

\* One write conditioned on the token; an address somebody else proved first is refused by the index.
SettleConfirmation(q) ==
  LET a == requests[q].a
      row == users[a]
      email == IF row.pending # None THEN row.pending ELSE row.email
      lands == StillAnswers(q) /\ Of(email) \subseteq {a}
      opens == requests[q].row.status = "PENDING"
  IN /\ At(q, "confirm")
     /\ IF lands
        THEN /\ Put(a, [row EXCEPT !.status = IF @ = "PENDING" THEN "ACTIVE" ELSE @, !.email = email, !.pending = None,
                                   !.confirmation = None, !.held = @ \ (IF requests[q].row.pending # None THEN {"confirmation", "recovery"} ELSE {"confirmation"}),
                                   !.recovery = IF requests[q].row.pending # None THEN None ELSE @])
             /\ proved' = proved \cup {<<a, requests[q].arg>>}
             /\ Keep(q, IF opens THEN [requests[q] EXCEPT !.at = "letter session", !.row = row] ELSE Idle)
        ELSE UNCHANGED <<users, proved>> /\ Keep(q, Idle)
     /\ UNCHANGED <<identities, codes, attempts, tickets, letters, sessions, opened, drawn, begun, confirming>>

\* The row is read back and the session minted from it.
LetterSession(q) ==
  LET a == requests[q].a
  IN /\ At(q, "letter session")
     /\ Mint(a, users[a].epoch, requests[q].row.changed, "letter") /\ Opens(requests[q].token)
     /\ Keep(q, Idle)
     /\ UNCHANGED <<users, identities, codes, attempts, tickets, letters, proved, drawn, begun, confirming>>

-----------------------------------------------------------------------------
(* What an account writes about itself.                                    *)

\* An account keeps one way in: user_service.validate and social disconnect.
ensure_identity(row, email) == email # None \/ row.named
KeepsWayIn(a, row, email) == row.password # None \/ email # None \/ Connected(a)

\* An address an operator writes, or one nobody has to prove, is the address.
prepare(row, email) ==
  IF email = row.email THEN row
  ELSE [row EXCEPT !.email = email, !.pending = None, !.confirmation = None, !.recovery = None, !.held = {}]

\* Variant: the letter already out keeps answering.
WaitingLink_Kept(row, m) == [row EXCEPT !.pending = m]

\* A new address waits for its letter, and the letter already out stops answering.
WaitingLink(row, m) == [row EXCEPT !.pending = m, !.confirmation = None]

\* The session is read before the handler runs, and the row is held only when it writes.
load(q, s, place, arg) ==
  /\ Begin(q) /\ load_user(s)
  /\ Keep(q, [Idle EXCEPT !.at = place, !.a = s.a, !.row = users[s.a], !.arg = arg])
  /\ UNCHANGED <<users, identities, codes, attempts, tickets, letters, sessions, history, drawn>>

\* A new address waits for its letter; one that needs none, or is already the account's, is written as it is.
settle_account(q) ==
  LET a == requests[q].a
      row == users[a]
      m == requests[q].arg
      moved == Asked(m) /\ m \notin {requests[q].row.email, requests[q].row.pending}
      free == m = None \/ Of(m) \subseteq {a}
      popped == m # None /\ m = requests[q].row.pending
  IN /\ At(q, "settle account")
     /\ IF row.status = "ERASED" \/ ~free \/ popped THEN UNCHANGED <<users, proved>> /\ Keep(q, Idle)
        ELSE IF moved
        THEN Put(a, WaitingLink(row, m)) /\ UNCHANGED proved /\ Keep(q, [Idle EXCEPT !.at = "claim confirmation", !.a = a])
        ELSE /\ IF ensure_identity(row, m) /\ KeepsWayIn(a, row, m) THEN Put(a, prepare(row, m)) ELSE UNCHANGED users
             /\ proved' = IF confirming THEN proved ELSE proved \cup {<<a, m>>}
             /\ Keep(q, Idle)
     /\ UNCHANGED <<identities, codes, attempts, tickets, letters, sessions, opened, drawn, begun, confirming>>

\* Variant: the sessions of the old password stay.
password_changes_SameEpoch(row, p) == [row EXCEPT !.password = p, !.changed = @ + 1, !.recovery = None, !.held = @ \ {"recovery"}]

password_changes(row, p) == [row EXCEPT !.password = p, !.changed = @ + 1, !.epoch = @ + 1, !.recovery = None, !.held = @ \ {"recovery"}]

\* The current password is verified, and the new one hashed, on a thread.
change_password(q, s, old, new) ==
  /\ Begin(q) /\ load_user(s) /\ users[s.a].password = old
  /\ Keep(q, [Idle EXCEPT !.at = "change password", !.a = s.a, !.row = users[s.a], !.arg = new])
  /\ UNCHANGED <<users, identities, codes, attempts, tickets, letters, sessions, history, drawn>>

settle_password(q) ==
  /\ At(q, "change password")
  /\ IF Claimed(q)
     THEN Put(requests[q].a, password_changes(users[requests[q].a], requests[q].arg)) /\ Keep(q, [requests[q] EXCEPT !.at = "new session"])
     ELSE UNCHANGED users /\ Keep(q, Idle)
  /\ UNCHANGED <<identities, codes, attempts, tickets, letters, sessions, history, drawn, begun, confirming>>

\* The caller mints out of the row read back, unless somebody moved it on meanwhile.
NewSession(q) ==
  LET a == requests[q].a
      same == users[a].password = requests[q].arg /\ users[a].epoch = requests[q].row.epoch + 1 /\ users[a].status = "ACTIVE"
  IN /\ At(q, "new session")
     /\ IF same THEN Mint(a, users[a].epoch, requests[q].row.changed + 1, "password") ELSE UNCHANGED sessions
     /\ Keep(q, Idle)
     /\ UNCHANGED <<users, identities, codes, attempts, tickets, letters, history, drawn, begun, confirming>>

\* forget_behaviour
Forgotten(a) == [t \in Subject |-> IF identities[t] = a THEN None ELSE identities[t]]

\* Nothing of the person stays: identities, attempts, tickets and the challenge of the address go with it.
erase(q) ==
  LET a == requests[q].a
  IN /\ At(q, "erase") /\ Keep(q, Idle)
     /\ IF users[a].status = "ERASED" THEN UNCHANGED <<users, identities, attempts, tickets, codes>>
        ELSE /\ Put(a, [users[a] EXCEPT !.status = "ERASED", !.email = None, !.pending = None, !.password = None, !.confirmation = None, !.recovery = None, !.held = {}])
             /\ identities' = Forgotten(a)
             /\ attempts' = {t \in attempts : t.a # a} /\ tickets' = {t \in tickets : t.a # a}
             /\ codes' = [m \in Mailbox |-> IF m = users[a].email THEN None ELSE codes[m]]
     /\ UNCHANGED <<letters, sessions, history, drawn, begun, confirming>>

-----------------------------------------------------------------------------
(* A password forgotten.                                                   *)

start_password_reset(q, a) ==
  /\ Begin(q) /\ a \in Registered /\ users[a].email # None
  /\ Keep(q, [Idle EXCEPT !.at = "claim recovery", !.a = a])
  /\ UNCHANGED <<users, identities, codes, attempts, tickets, letters, sessions, history, drawn>>

claim_recovery(q) ==
  LET a == requests[q].a
  IN /\ At(q, "claim recovery")
     /\ IF "recovery" \notin users[a].held
        THEN /\ Put(a, [users[a] EXCEPT !.recovery = drawn + 1, !.held = @ \cup {"recovery"}])
             /\ Draws /\ Keep(q, [requests[q] EXCEPT !.at = "mail recovery"])
        ELSE UNCHANGED <<users, drawn>> /\ Keep(q, Idle)
     /\ UNCHANGED <<identities, codes, attempts, tickets, letters, sessions, history, begun, confirming>>

mail_recovery(q) ==
  LET a == requests[q].a
  IN /\ At(q, "mail recovery")
     /\ letters' = IF users[a].email = None THEN letters ELSE letters \cup {[kind |-> "recovery", to |-> users[a].email, token |-> users[a].recovery, a |-> a]}
     /\ Keep(q, Idle)
     /\ UNCHANGED <<users, identities, codes, attempts, tickets, sessions, history, drawn, begun, confirming>>

\* recoverable: a link that was spent, replaced or left to expire opens nothing.
confirm_password_reset(q, l, p) ==
  /\ Begin(q) /\ l.kind = "recovery"
  /\ \E a \in Registered :
       /\ l.token # None /\ users[a].recovery = l.token
       /\ Keep(q, [Idle EXCEPT !.at = "reset", !.a = a, !.token = l.token, !.arg = p, !.row = users[a], !.by = l.to])
  /\ UNCHANGED <<users, identities, codes, attempts, tickets, letters, sessions, history, drawn>>

\* Spending the token and replacing the password are one write, and answering the letter proves the address.
SpendRecovery(q) ==
  LET a == requests[q].a
      row == password_changes(users[a], requests[q].arg)
  IN /\ At(q, "reset")
     /\ IF users[a].recovery = requests[q].token
        THEN /\ Put(a, Reset([row EXCEPT !.status = IF @ = "PENDING" THEN "ACTIVE" ELSE @, !.confirmation = None, !.held = @ \ {"confirmation"}]))
             /\ proved' = proved \cup {<<a, requests[q].by>>}
        ELSE UNCHANGED <<users, proved>>
     /\ Keep(q, Idle)
     /\ UNCHANGED <<identities, codes, attempts, tickets, letters, sessions, opened, drawn, begun, confirming>>

-----------------------------------------------------------------------------
(* A code by mail.                                                         *)

\* A challenge is drawn, or drawn again once the last may be resent; a live one inside its cooldown is answered as it is.
request_code(q, m) ==
  /\ Begin(q) /\ UNCHANGED requests
  /\ IF (IF codes[m] = None THEN TRUE ELSE codes[m].resend)
     THEN codes' = [codes EXCEPT ![m] = [token |-> drawn + 1, attempts |-> 0, live |-> TRUE, resend |-> FALSE]] /\ Draws
     ELSE UNCHANGED <<codes, drawn>>
  /\ UNCHANGED <<users, identities, attempts, tickets, letters, sessions, history>>

Live(m) == IF codes[m] = None THEN FALSE ELSE codes[m].live /\ codes[m].attempts < CodeAttempts

WrongCode(q, m) ==
  /\ Begin(q) /\ UNCHANGED requests
  /\ Live(m) /\ codes' = [codes EXCEPT ![m].attempts = @ + 1]
  /\ UNCHANGED <<users, identities, attempts, tickets, letters, sessions, history, drawn>>

\* A mailbox that answers opens the account waiting on it, and whoever signed it up without proving it loses the password.
Proven(row) == [row EXCEPT !.status = "ACTIVE", !.password = None, !.changed = @ + 1, !.epoch = @ + 1, !.confirmation = None, !.recovery = None, !.held = {}]

Consumed(m) == [codes EXCEPT ![m].live = FALSE]

\* The code is consumed with what it opens: the account of the mailbox, or a new one.
confirm_code(q, m) ==
  /\ Begin(q) /\ Live(m)
  /\ codes' = Consumed(m)
  /\ \E a \in Account :
       /\ IF Of(m) # {} THEN a \in Of(m) ELSE Next_id(a)
       /\ LET row == IF Of(m) = {} THEN [Blank EXCEPT !.email = m]
                     ELSE IF users[a].status = "PENDING" THEN Proven(users[a]) ELSE users[a]
          IN /\ Put(a, row) /\ Keep(q, [Idle EXCEPT !.at = "signed in", !.a = a, !.row = row, !.by = "code", !.token = codes[m].token])
             /\ proved' = proved \cup {<<a, m>>}
  /\ UNCHANGED <<identities, attempts, tickets, letters, sessions, opened, drawn>>

\* One conditioned write, and a commit that lets go of the row.
signed_in(q) ==
  LET a == requests[q].a
      allowed == requests[q].row.status = "ACTIVE" /\ MayAnswer(q)
  IN /\ At(q, "signed in")
     /\ IF allowed
        THEN Put(a, Reset(users[a])) /\ Keep(q, [requests[q] EXCEPT !.at = "read back"])
        ELSE UNCHANGED users /\ Keep(q, Idle)
     /\ UNCHANGED <<identities, codes, attempts, tickets, letters, sessions, history, drawn, begun, confirming>>

\* The callback of the panel hands out a ticket instead of a session.
Ticketed(q) == requests[q].panel /\ requests[q].by = "social"

\* The row is read back and asked again, and the session is minted from it.
read_back(q) ==
  LET row == requests[q].row
  IN /\ At(q, "read back")
     /\ IF Answers(q) /\ ~Ticketed(q)
        THEN Mint(requests[q].a, row.epoch, row.changed, requests[q].by) /\ Opens(requests[q].token)
        ELSE UNCHANGED <<sessions, opened>>
     /\ Keep(q, IF Answers(q) /\ Ticketed(q) THEN [requests[q] EXCEPT !.at = "ticket"] ELSE Idle)
     /\ UNCHANGED <<users, identities, codes, attempts, tickets, letters, proved, drawn, begun, confirming>>

\* login_ticket_service.create: the ticket is inserted at a commit of its own, the account neither held nor read again.
create_ticket(q) ==
  LET row == requests[q].row
  IN /\ At(q, "ticket")
     /\ tickets' = tickets \cup {[token |-> drawn + 1, a |-> requests[q].a, epoch |-> row.epoch, changed |-> row.changed]}
     /\ Draws /\ Keep(q, Idle)
     /\ UNCHANGED <<users, identities, codes, attempts, letters, sessions, history, begun, confirming>>

-----------------------------------------------------------------------------
(* A social identity.                                                      *)

\* start: an attempt of nobody signs in, one of a session connects.
start_social(q, s, panel) ==
  /\ Begin(q)
  /\ s # None => load_user(s) /\ (panel => s.a \in Operator)
  /\ Keep(q, [Idle EXCEPT !.at = "start", !.a = IF s = None THEN None ELSE s.a, !.row = IF s = None THEN Blank ELSE users[s.a], !.panel = panel])
  /\ UNCHANGED <<users, identities, codes, attempts, tickets, letters, sessions, history, drawn>>

\* The provider was asked where to send the browser, and the attempt is inserted as the session was read.
create_attempt(q) ==
  /\ At(q, "start")
  /\ attempts' = attempts \cup {[token |-> drawn + 1, panel |-> requests[q].panel, a |-> requests[q].a, epoch |-> requests[q].row.epoch]}
  /\ Draws /\ Keep(q, Idle)
  /\ UNCHANGED <<users, identities, codes, tickets, letters, sessions, history, begun, confirming>>

\* social_callback: the attempt is consumed, and the provider asked who this is.
social_callback(q, t) ==
  /\ Begin(q)
  /\ attempts' = attempts \ {t}
  /\ \/ \E s \in Subject : Keep(q, [Idle EXCEPT !.at = IF t.a = None THEN "social" ELSE "connect", !.a = t.a, !.arg = s, !.token = t.token,
                                                !.row = [Blank EXCEPT !.epoch = t.epoch], !.by = "social", !.panel = t.panel])
     \* The person declined, or the provider did not answer.
     \/ UNCHANGED requests
  /\ UNCHANGED <<users, identities, codes, tickets, letters, sessions, history, drawn>>

\* The identity signs in to its account; a new one opens an account unless its address has one, or it is the panel.
social_sign_in(q, m) ==
  LET s == requests[q].arg
  IN /\ At(q, "social")
     /\ IF identities[s] # None
        THEN /\ Keep(q, [requests[q] EXCEPT !.at = "signed in", !.a = identities[s], !.row = users[identities[s]]])
             /\ UNCHANGED <<users, identities, proved>>
        ELSE IF requests[q].panel \/ (m # None /\ Of(m) # {}) THEN Keep(q, Idle) /\ UNCHANGED <<users, identities, proved>>
        ELSE \E a \in Account :
               /\ Next_id(a)
               /\ LET row == [Blank EXCEPT !.email = m, !.named = m = None]
                  IN Put(a, row) /\ Keep(q, [requests[q] EXCEPT !.at = "signed in", !.a = a, !.row = row])
               /\ identities' = [identities EXCEPT ![s] = a]
               /\ proved' = IF m = None THEN proved ELSE proved \cup {<<a, m>>}
     /\ UNCHANGED <<codes, attempts, tickets, letters, sessions, opened, drawn, begun, confirming>>

\* The account is held and read again: it may answer, and it is of the epoch the attempt began in.
MayConnect(q) == users[requests[q].a].status = "ACTIVE" /\ users[requests[q].a].epoch = requests[q].row.epoch

connect(q) ==
  LET a == requests[q].a
      s == requests[q].arg
  IN /\ At(q, "connect")
     /\ IF MayConnect(q) /\ identities[s] = None /\ ~Connected(a) THEN identities' = [identities EXCEPT ![s] = a] ELSE UNCHANGED identities
     /\ Keep(q, Idle)
     /\ UNCHANGED <<users, codes, attempts, tickets, letters, sessions, history, drawn, begun, confirming>>

\* Variant: a connection goes without asking what else signs in.
MayDisconnect_Any(a) == users[a].status = "ACTIVE"

MayDisconnect(a) == users[a].status = "ACTIVE" /\ (users[a].password # None \/ users[a].email # None)

disconnect(q) ==
  /\ At(q, "disconnect") /\ Keep(q, Idle)
  /\ identities' = IF MayDisconnect(requests[q].a) THEN Forgotten(requests[q].a) ELSE identities
  /\ UNCHANGED <<users, codes, attempts, tickets, letters, sessions, history, drawn, begun, confirming>>

\* redeem: the ticket is consumed, and opens the panel only to the epoch it was drawn in.
redeem(q, t) ==
  /\ Begin(q)
  /\ tickets' = tickets \ {t}
  /\ Keep(q, IF users[t.a].epoch = t.epoch THEN [Idle EXCEPT !.at = "signed in", !.a = t.a, !.row = [users[t.a] EXCEPT !.changed = t.changed], !.by = "ticket", !.token = t.token, !.panel = TRUE] ELSE Idle)
  /\ UNCHANGED <<users, identities, codes, attempts, letters, sessions, history, drawn>>

-----------------------------------------------------------------------------
(* The panel and the clock.                                                *)

\* hold refuses the row of somebody who was forgotten.
MayManage(row) == row.status # "ERASED"

\* An operator blocks or opens an account, or writes its address or its password; an erased one is out of reach.
OperatorWrites(q, a) ==
  /\ Begin(q) /\ a \in Registered /\ UNCHANGED requests
  /\ MayManage(users[a])
  /\ \/ \E status \in {"ACTIVE", "BLOCKED"} :
          /\ status # users[a].status
          /\ Put(a, [users[a] EXCEPT !.status = status])
          /\ proved' = proved \cup {<<a, users[a].email>>}
     \/ \E p \in Password : Put(a, password_changes(users[a], p)) /\ UNCHANGED proved
     \/ \E m \in Mailbox :
          /\ Of(m) = {}
          /\ Put(a, prepare(users[a], m))
          /\ proved' = proved \cup {<<a, m>>}
  /\ UNCHANGED <<identities, codes, attempts, tickets, letters, sessions, opened, drawn>>

\* The interval between two letters passes, and so does the cooldown of a guessed account.
TimePasses(a) ==
  /\ a \in Registered /\ begun < MaxRequests
  /\ \/ users[a].held # {} /\ Put(a, [users[a] EXCEPT !.held = {}])
     \/ users[a].blocked = "yes" /\ Put(a, [users[a] EXCEPT !.blocked = "over"])
  /\ UNCHANGED <<identities, codes, attempts, tickets, letters, sessions, requests, history, drawn, begun, confirming>>

CodeAges(m) ==
  /\ codes[m] # None /\ begun < MaxRequests
  /\ \/ ~codes[m].resend /\ codes' = [codes EXCEPT ![m].resend = TRUE]
     \/ codes[m].live /\ codes' = [codes EXCEPT ![m].live = FALSE]
  /\ UNCHANGED <<users, identities, attempts, tickets, letters, sessions, requests, history, drawn, begun, confirming>>

Handle(q) ==
  \/ settle_sign_in(q) \/ PasswordSession(q) \/ count_failure(q) \/ ReadCount(q) \/ Block(q)
  \/ claim_confirmation(q) \/ mail_confirmation(q) \/ SettleConfirmation(q) \/ LetterSession(q)
  \/ settle_password(q) \/ NewSession(q) \/ claim_recovery(q) \/ mail_recovery(q) \/ SpendRecovery(q)
  \/ settle_account(q) \/ erase(q) \/ disconnect(q) \/ signed_in(q) \/ read_back(q) \/ create_ticket(q) \/ create_attempt(q) \/ connect(q) \/ (\E m \in Mailbox \cup {None} : social_sign_in(q, m))

Receive(q) ==
  \/ \E a \in Account : (\E p \in Password, panel \in BOOLEAN : sign_in(q, a, p, panel)) \/ resend_confirmation(q, a) \/ start_password_reset(q, a) \/ OperatorWrites(q, a)
  \/ \E m \in Mailbox : (\E p \in Password : register(q, m, p)) \/ request_code(q, m) \/ WrongCode(q, m) \/ confirm_code(q, m)
  \/ \E l \in letters : confirm_sign_up(q, l) \/ \E p \in Password : confirm_password_reset(q, l, p)
  \/ \E s \in sessions : \/ (\E m \in Mailbox \cup {None} : load(q, s, "settle account", m)) \/ load(q, s, "erase", None) \/ load(q, s, "disconnect", None)
                         \/ \E old, new \in Password : change_password(q, s, old, new)
  \/ \E s \in sessions \cup {None}, panel \in BOOLEAN : start_social(q, s, panel)
  \/ \E t \in attempts : social_callback(q, t)
  \/ \E t \in tickets : redeem(q, t)

Next ==
  \/ \E q \in Request : Handle(q) \/ Receive(q)
  \/ \E a \in Account : TimePasses(a)
  \/ \E m \in Mailbox : CodeAges(m)

Spec == Init /\ [][Next]_vars

-----------------------------------------------------------------------------
(* What must hold.                                                         *)

\* Rows, challenges and sessions have the shape the tables give them; a code is guessed at most CodeAttempts times.
AccountsTypeOK ==
  /\ users \in [Account -> UserRow \cup {None}]
  /\ identities \in [Subject -> Account \cup {None}]
  /\ codes \in [Mailbox -> Challenge \cup {None}]
  /\ sessions \subseteq Session
  /\ opened \in [1 .. 3 * MaxRequests -> Nat]

\* Whoever holds a letter that still answers owns the address it answers for: confirm_sign_up and confirm_password_reset act on what the token alone names.
LettersReachOwner ==
  \A l \in letters : \A a \in Registered :
    LET row == users[a]
    IN /\ (l.kind = "confirmation" /\ l.token # None /\ row.confirmation = l.token /\ awaiting(row)) => l.to = (IF row.pending # None THEN row.pending ELSE row.email)
       /\ (l.kind = "recovery" /\ l.token # None /\ row.recovery = l.token) => l.to = row.email

\* With confirm_sign_up on, the address of an open account is one somebody vouched for: its mailbox answered, an operator wrote it or a provider named it.
AddressIsProved == confirming => \A a \in Registered : (users[a].status = "ACTIVE" /\ users[a].email # None) => <<a, users[a].email>> \in proved

\* A new password ends every session opened before it, whatever the session was opened with and however late it was minted.  The letter of a sign-up mints from the row it reads back, and is left out.
OldSessionsEnd == \A s \in sessions : (load_user(s) /\ s.by # "letter") => s.under = users[s.a].changed

\* A letter, a code, an attempt and a ticket open one session each, however often they are sent.
OpensOnce == \A t \in DOMAIN opened : opened[t] <= 1

\* An open account can be signed in to: by its password, by its mailbox or by an identity.
HasWayIn == \A a \in Registered : users[a].status = "ACTIVE" => KeepsWayIn(a, users[a], users[a].email)

\* An erased account keeps nothing that signs its person in again, whatever was under way when it was erased.
ErasedIsEmpty ==
  \A a \in Registered : users[a].status = "ERASED" =>
    users[a].email = None /\ users[a].pending = None /\ users[a].password = None /\ ~Connected(a)

\* No session is opened for an erased account, whatever proof of it was accepted before.  The letter of a sign-up mints from the row it reads back without asking, and is left out.
ErasedOpensNothing == \A s \in sessions' \ sessions : s.by # "letter" => users'[s.a].status # "ERASED"

\* As many wrong passwords as allowed, however they arrive together, leave the account blocked until its cooldown is over.
GuessingBlocks ==
  \A a \in Registered : (users[a].wrong >= Attempts /\ ~\E q \in Request : requests[q].a = a /\ requests[q].at \in {"count", "block"}) => users[a].blocked # "no"

\* An erased account is not opened again.
ErasedStays == \A a \in Registered : users[a].status = "ERASED" => users'[a].status = "ERASED"

\* Every open account has a way in, however ways are connected, disconnected and replaced at once, and the rows keep their shape.
AccountsInv == AccountsTypeOK /\ HasWayIn

\* What proves an address, and the letters under way to it, belong to whoever holds that mailbox.
ProofsReachOwner == LettersReachOwner /\ AddressIsProved

\* A session is opened by something that was spent on it, and none outlives the password it was opened under.
SessionsAreEarned == OldSessionsEnd /\ OpensOnce

\* Erasing is final: no request under way when it happened writes the person back, and none signs them in.
ErasedForGood == [][ErasedStays /\ ErasedIsEmpty' /\ ErasedOpensNothing]_vars
=============================================================================
