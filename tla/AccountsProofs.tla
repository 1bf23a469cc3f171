---------------------------- MODULE AccountsProofs ----------------------------
(***************************************************************************)
(* Theorems about Accounts, for any number of accounts, mailboxes, people  *)
(* and requests at work: what answers a letter owns the address, an open   *)
(* account has a way in, and an erased one stays erased and empty.         *)
(***************************************************************************)
EXTENDS Accounts, TLAPS

-----------------------------------------------------------------------------
(* The inductive invariant of rows, requests and letters.                  *)

Places == {"idle", "verify", "claimed", "count", "block", "claim confirmation", "mail confirmation", "confirm", "letter session", "settle account", "change password", "new session",
           "erase", "disconnect", "claim recovery", "mail recovery", "reset", "signed in", "read back", "ticket", "social", "connect", "start"}

RequestRow == [at : Places, a : Account \cup {None}, row : UserRow \cup {None}, arg : Mailbox \cup Password \cup Subject \cup {None},
               token : Nat \cup {None}, by : Mailbox \cup {None, "code", "social", "ticket"}, panel : BOOLEAN]
LetterRow == [kind : {"confirmation", "recovery"}, to : Mailbox, token : Nat \cup {None}, a : Account]
AttemptRow == [token : Nat, panel : BOOLEAN, a : Account \cup {None}, epoch : Nat]
TicketRow == [token : Nat, a : Account, epoch : Nat, changed : Nat]

\* The address a confirmation letter is to prove.
Target(row) == IF row.pending # None THEN row.pending ELSE row.email

Given(t, last) == t = None \/ t \in 1 .. last

\* Whose address is vouched for: where nobody asks, everybody's is.
Vouched == IF confirming THEN proved ELSE Account \X Mailbox

\* What every row is, while `said` is who vouched for what and `last` the last token drawn.
RowOK(a, row, said, last) ==
  /\ Given(row.confirmation, last) /\ Given(row.recovery, last)
  /\ row.status = "PENDING" => row.email # None
  /\ row.status = "ERASED" => row.email = None /\ row.pending = None /\ row.password = None
  /\ (row.status = "ACTIVE" /\ row.email # None) => <<a, row.email>> \in said

\* What a request keeps between two steps, `row` being the row its account has now.
RequestOK(r, row, said, last) ==
  /\ Given(r.token, last)
  /\ r.at \in {"verify", "claimed", "change password", "new session", "confirm", "letter session", "settle account", "signed in", "read back", "ticket", "social", "connect", "start"} => r.row \in UserRow
  /\ r.at \in {"change password", "new session", "reset"} => r.arg \in Password
  /\ r.at \in {"social", "connect"} => r.arg \in Subject
  /\ r.at \in {"social", "signed in", "read back"} => r.by \in {"code", "social", "ticket"}
  /\ r.at \in {"social", "signed in", "read back", "letter session", "confirm", "reset"} => r.token # None
  /\ r.at = "settle account" => /\ r.arg \in Mailbox \cup {None} /\ row.status # "PENDING"
                                /\ r.row.email # None => <<r.a, r.row.email>> \in said
  /\ r.at = "confirm" => /\ r.arg \in Mailbox
                         /\ row.confirmation = r.token => row.pending = r.row.pending /\ (awaiting(row) => r.arg = Target(row))
  /\ r.at = "reset" => r.by \in Mailbox /\ (row.recovery = r.token => row.email = r.by)

\* A letter that still answers an account went to the address it answers for.
AnswersOwner(l, row) ==
  /\ (l.kind = "confirmation" /\ l.token # None /\ row.confirmation = l.token /\ awaiting(row)) => l.to = Target(row)
  /\ (l.kind = "recovery" /\ l.token # None /\ row.recovery = l.token) => l.to = row.email

Rows == \A a \in Registered : RowOK(a, users[a], Vouched, drawn)

\* Whoever was not forgotten can still come in, blocked or not.
WaysIn == \A a \in Registered : users[a].status # "ERASED" => KeepsWayIn(a, users[a], users[a].email)

Requests ==
  \A q \in Request :
    /\ requests[q].at \notin {"idle", "social"} => (requests[q].a \in Registered \/ (requests[q].at = "start" /\ requests[q].a = None))
    /\ RequestOK(requests[q], users[requests[q].a], Vouched, drawn)
Letters == \A l \in letters : Given(l.token, drawn) /\ \A a \in Registered : AnswersOwner(l, users[a])

\* No two accounts wait on one token.
OwnTokens ==
  \A a, b \in Registered :
    /\ (users[a].confirmation # None /\ users[a].confirmation = users[b].confirmation) => a = b
    /\ (users[a].recovery # None /\ users[a].recovery = users[b].recovery) => a = b

\* What is kept beside the rows is of accounts that are there.
IdentitiesKept == identities \in [Subject -> Account \cup {None}] /\ \A s \in Subject : identities[s] # None => identities[s] \in Registered
AttemptsKept == attempts \subseteq AttemptRow /\ \A t \in attempts : (t.a # None => t.a \in Registered) /\ Given(t.token, drawn)
TicketsKept == tickets \subseteq TicketRow /\ \A t \in tickets : t.a \in Registered /\ Given(t.token, drawn)
SessionsKept == sessions \subseteq Session /\ \A s \in sessions : s.a \in Registered
CodesKept == codes \in [Mailbox -> Challenge \cup {None}] /\ \A m \in Mailbox : codes[m] # None => Given(codes[m].token, drawn)
OpenedKept == opened \in [1 .. 3 * MaxRequests -> Nat]

\* No identity leads to whom was forgotten.
Loose == \A a \in Registered : users[a].status = "ERASED" => ~Connected(a)

Shape ==
  /\ confirming \in BOOLEAN /\ drawn \in Nat
  /\ users \in [Account -> UserRow \cup {None}]
  /\ requests \in [Request -> RequestRow] /\ letters \subseteq LetterRow

AccountsIInv == Shape /\ Rows /\ WaysIn /\ Requests /\ Letters /\ OwnTokens /\ Loose
                /\ IdentitiesKept /\ AttemptsKept /\ TicketsKept /\ SessionsKept /\ CodesKept /\ OpenedKept

\* What a write does to what letters and requests rely on: a token goes, is drawn anew, or stays with the address it was drawn for.
Changes(old, new, last) ==
  /\ old.status = "ERASED" <=> new.status = "ERASED"
  /\ new.status = "PENDING" => old.status = "PENDING"
  /\ \/ new.confirmation \in {None, last + 1}
     \/ new.confirmation = old.confirmation /\ new.pending = old.pending /\ new.email = old.email /\ (awaiting(new) => awaiting(old))
  /\ \/ new.recovery \in {None, last + 1}
     \/ new.recovery = old.recovery /\ new.email = old.email

-----------------------------------------------------------------------------
(* What a write on one row, and a step of one request, leave.              *)

LEMMA Nothing == None \notin Nat /\ None \notin Account /\ None \notin Mailbox /\ None \notin Password /\ None \notin Subject /\ None \notin UserRow
BY AccountsAssumption DEF AccountsAssumption

LEMMA IdleRequest == Idle \in RequestRow /\ Idle.at = "idle" /\ \A row, said, last : RequestOK(Idle, row, said, last)
BY DEF Idle, RequestRow, Places, RequestOK, Given

LEMMA PutRow ==
  ASSUME users \in [Account -> UserRow \cup {None}], NEW a \in Account, NEW new \in UserRow, Put(a, new)
  PROVE  /\ users' \in [Account -> UserRow \cup {None}] /\ users'[a] = new /\ Registered' = Registered \cup {a}
         /\ \A b \in Account : b # a => users'[b] = users[b]
BY Nothing DEF Put, Registered

\* What requests keep is what they kept, or `r`.
Moves(r) == requests' \in [Request -> RequestRow] /\ \A p \in Request : requests'[p] = requests[p] \/ requests'[p] = r

LEMMA KeepRequest ==
  ASSUME Shape, NEW q \in Request, NEW r \in RequestRow, Keep(q, r)
  PROVE  Moves(r)
BY DEF Keep, Moves, Shape

LEMMA RegisteredRow ==
  ASSUME Shape
  PROVE  Registered \subseteq Account /\ \A a \in Registered : users[a] \in UserRow
BY DEF Shape, Registered

\* Drawing one more token, or vouching for more, takes nothing away.
LEMMA GivenStays ==
  ASSUME NEW last \in Nat, NEW next \in Nat, last <= next, NEW t, Given(t, last)
  PROVE  Given(t, next)
BY DEF Given

\* The next token is nobody's yet.
LEMMA Undrawn ==
  ASSUME NEW last \in Nat, NEW t, Given(t, last)
  PROVE  t # last + 1
<1>1. last + 1 \in Nat /\ last + 1 \notin 1 .. last  OBVIOUS
<1>2. CASE t = None  BY <1>1, <1>2, Nothing
<1>3. CASE t \in 1 .. last  BY <1>1, <1>3
<1> QED  BY <1>2, <1>3 DEF Given

LEMMA RowStays ==
  ASSUME NEW last \in Nat, NEW next \in Nat, last <= next, NEW said, NEW more, said \subseteq more, NEW a, NEW row, RowOK(a, row, said, last)
  PROVE  RowOK(a, row, more, next)
BY DEF RowOK, Given

LEMMA RequestStays ==
  ASSUME NEW last \in Nat, NEW next \in Nat, last <= next, NEW said, NEW more, said \subseteq more, NEW r, NEW row, RequestOK(r, row, said, last)
  PROVE  RequestOK(r, row, more, next)
<1>1. Given(r.token, next)  BY GivenStays DEF RequestOK
<1>2. r.at = "settle account" => /\ r.arg \in Mailbox \cup {None} /\ row.status # "PENDING"
                                 /\ r.row.email # None => <<r.a, r.row.email>> \in more
  BY DEF RequestOK
<1> QED  BY <1>1, <1>2 DEF RequestOK

\* A request whose row somebody else writes keeps what it may rely on.
LEMMA RequestKeeps ==
  ASSUME NEW last \in Nat, NEW next \in Nat, last <= next, NEW said, NEW more, said \subseteq more, NEW r, NEW old, NEW new,
         Changes(old, new, last), RequestOK(r, old, said, last)
  PROVE  RequestOK(r, new, more, next)
<1>1. Given(r.token, last) /\ Given(r.token, next) /\ r.token # last + 1
  <2>1. Given(r.token, last)  BY DEF RequestOK
  <2>2. Given(r.token, next)  BY <2>1, GivenStays
  <2> QED  BY <2>1, <2>2, Undrawn
<1>2. r.at = "confirm" => r.token # None /\ (new.confirmation = r.token => new.confirmation = old.confirmation /\ new.pending = old.pending /\ new.email = old.email /\ (awaiting(new) => awaiting(old)))
  BY <1>1 DEF Changes, RequestOK
<1>3. r.at = "reset" => r.token # None /\ (new.recovery = r.token => new.recovery = old.recovery /\ new.email = old.email)
  BY <1>1 DEF Changes, RequestOK
<1>4. r.at = "confirm" => /\ r.arg \in Mailbox
                          /\ new.confirmation = r.token => new.pending = r.row.pending /\ (awaiting(new) => r.arg = Target(new))
  BY <1>2 DEF RequestOK, Target
<1>5. r.at = "reset" => r.by \in Mailbox /\ (new.recovery = r.token => new.email = r.by)  BY <1>3 DEF RequestOK
<1>6. r.at = "settle account" => /\ r.arg \in Mailbox \cup {None} /\ new.status # "PENDING"
                                 /\ r.row.email # None => <<r.a, r.row.email>> \in more
  BY DEF RequestOK, Changes
<1> QED  BY <1>1, <1>4, <1>5, <1>6 DEF RequestOK

\* What a letter or a page of settings was about to write on somebody forgotten lands on nothing.
LEMMA RequestForgets ==
  ASSUME NEW last \in Nat, NEW next \in Nat, last <= next, NEW said, NEW more, said \subseteq more, NEW r, NEW old, NEW new,
         new.status = "ERASED", new.confirmation = None, new.recovery = None, RequestOK(r, old, said, last)
  PROVE  RequestOK(r, new, more, next)
<1>1. Given(r.token, next)  BY GivenStays DEF RequestOK
<1>2. r.at = "settle account" => /\ r.arg \in Mailbox \cup {None} /\ new.status # "PENDING"
                                 /\ r.row.email # None => <<r.a, r.row.email>> \in more
  BY DEF RequestOK
<1> QED  BY <1>1, <1>2 DEF RequestOK

LEMMA LetterKeeps ==
  ASSUME NEW last \in Nat, NEW l, Given(l.token, last), NEW old, NEW new, Changes(old, new, last), AnswersOwner(l, old)
  PROVE  AnswersOwner(l, new)
<1>1. l.token # last + 1  BY Undrawn
<1> QED  BY <1>1 DEF AnswersOwner, Changes, Target

LEMMA VouchedStays ==
  ASSUME UNCHANGED confirming, proved \subseteq proved'
  PROVE  Vouched \subseteq Vouched'
BY DEF Vouched

\* A letter sent now goes to the address it answers for.
Mails == \A l \in letters' : l \in letters \/ (l \in LetterRow /\ Given(l.token, drawn) /\ \A a \in Registered : AnswersOwner(l, users[a]))

\* A step of one request that writes no row.
LEMMA RequestMoves ==
  ASSUME AccountsIInv, UNCHANGED <<confirming, users>>, Mails, drawn' \in {drawn, drawn + 1}, proved \subseteq proved',
         NEW r \in RequestRow, Moves(r),
         r.at \notin {"idle", "social"} => (r.a \in Registered \/ (r.at = "start" /\ r.a = None)), RequestOK(r, users[r.a], Vouched', drawn')
  PROVE  Shape' /\ Rows' /\ Requests' /\ Letters' /\ OwnTokens' /\ ErasedStays /\ Registered' = Registered
<1> USE DEF AccountsIInv
<1>1. drawn \in Nat /\ drawn' \in Nat /\ drawn <= drawn' /\ Vouched \subseteq Vouched'  BY VouchedStays DEF Shape
<1>2. Registered' = Registered  BY DEF Registered
<1>3. requests' \in [Request -> RequestRow] /\ \A p \in Request : requests'[p] = requests[p] \/ requests'[p] = r  BY DEF Moves
<1>4. Shape'  BY <1>1, <1>3 DEF Shape, Mails
<1>5. Rows'
  <2>1. SUFFICES ASSUME NEW a \in Registered PROVE RowOK(a, users[a], Vouched', drawn')  BY <1>2 DEF Rows
  <2> QED  BY <1>1, <2>1, RowStays DEF Rows
<1>6. Requests'
  <2>1. SUFFICES ASSUME NEW p \in Request
                 PROVE  /\ requests'[p].at \notin {"idle", "social"} => (requests'[p].a \in Registered \/ (requests'[p].at = "start" /\ requests'[p].a = None))
                        /\ RequestOK(requests'[p], users[requests'[p].a], Vouched', drawn')
    BY <1>2 DEF Requests
  <2>2. CASE requests'[p] = r  BY <1>3, <2>2
  <2>3. CASE requests'[p] = requests[p]
    <3>1. requests'[p] = requests[p] /\ RequestOK(requests[p], users[requests[p].a], Vouched, drawn)  BY <1>3, <2>3 DEF Requests
    <3>2. RequestOK(requests[p], users[requests[p].a], Vouched', drawn')  BY <1>1, <3>1, RequestStays
    <3> QED  BY <3>1, <3>2 DEF Requests
  <2> QED  BY <1>3, <2>2, <2>3
<1>7. Letters'
  <2>1. SUFFICES ASSUME NEW l \in letters' PROVE Given(l.token, drawn') /\ \A a \in Registered : AnswersOwner(l, users[a])
    BY <1>2 DEF Letters
  <2>2. Given(l.token, drawn) /\ \A a \in Registered : AnswersOwner(l, users[a])  BY <2>1 DEF Letters, Mails
  <2> QED  BY <1>1, <2>2, GivenStays
<1>8. OwnTokens'  BY <1>2 DEF OwnTokens
<1>9. ErasedStays  BY DEF ErasedStays
<1> QED  BY <1>2, <1>4, <1>5, <1>6, <1>7, <1>8, <1>9

\* A step of one request that writes the row of an account.
LEMMA RowMoves ==
  ASSUME AccountsIInv, UNCHANGED <<confirming, letters>>, drawn' \in {drawn, drawn + 1}, proved \subseteq proved',
         NEW a \in Registered, NEW new \in UserRow, Put(a, new), RowOK(a, new, Vouched', drawn'),
         Changes(users[a], new, drawn) \/ (new.status = "ERASED" /\ new.confirmation = None /\ new.recovery = None),
         NEW r \in RequestRow, Moves(r),
         r.at \notin {"idle", "social"} => (r.a \in Registered \/ (r.at = "start" /\ r.a = None)), RequestOK(r, users'[r.a], Vouched', drawn')
  PROVE  /\ Shape' /\ Rows' /\ Requests' /\ Letters' /\ OwnTokens' /\ ErasedStays /\ Registered' = Registered
         /\ users'[a] = new /\ \A b \in Account : b # a => users'[b] = users[b]
<1> USE DEF AccountsIInv
<1>1. drawn \in Nat /\ drawn' \in Nat /\ drawn <= drawn' /\ Vouched \subseteq Vouched'  BY VouchedStays DEF Shape
<1>2. /\ users' \in [Account -> UserRow \cup {None}] /\ users'[a] = new /\ Registered' = Registered
      /\ \A b \in Account : b # a => users'[b] = users[b]
      /\ Registered \subseteq Account
  BY PutRow, RegisteredRow DEF Shape
<1>3. requests' \in [Request -> RequestRow] /\ \A p \in Request : requests'[p] = requests[p] \/ requests'[p] = r  BY DEF Moves
<1>4. Shape'  BY <1>1, <1>2, <1>3 DEF Shape
<1>5. Rows'
  <2>1. SUFFICES ASSUME NEW b \in Registered PROVE RowOK(b, users'[b], Vouched', drawn')  BY <1>2 DEF Rows
  <2> QED  BY <1>1, <1>2, <2>1, RowStays DEF Rows
<1>6. Requests'
  <2>1. SUFFICES ASSUME NEW p \in Request
                 PROVE  /\ requests'[p].at \notin {"idle", "social"} => (requests'[p].a \in Registered \/ (requests'[p].at = "start" /\ requests'[p].a = None))
                        /\ RequestOK(requests'[p], users'[requests'[p].a], Vouched', drawn')
    BY <1>2 DEF Requests
  <2>2. CASE requests'[p] = r  BY <1>3, <2>2
  <2>3. CASE requests'[p] = requests[p]
    <3>1. /\ requests'[p] = requests[p] /\ RequestOK(requests[p], users[requests[p].a], Vouched, drawn)
          /\ requests[p].at \notin {"idle", "social"} => (requests[p].a \in Registered \/ (requests[p].at = "start" /\ requests[p].a = None))
      BY <1>3, <2>3 DEF Requests
    <3>2. CASE requests[p].a = a
      <4>1. RequestOK(requests[p], new, Vouched', drawn')  BY <1>1, <3>1, <3>2, RequestKeeps, RequestForgets
      <4> QED  BY <1>2, <3>1, <3>2, <4>1
    <3>3. CASE requests[p].a # a /\ requests[p].a \in Account
      <4>1. RequestOK(requests[p], users[requests[p].a], Vouched', drawn')  BY <1>1, <3>1, RequestStays
      <4> QED  BY <1>2, <3>1, <3>3, <4>1
    <3>4. CASE requests[p].a \notin Account
      <4>1. requests[p].at \in {"idle", "social", "start"}  BY <1>2, <3>1, <3>4
      <4>2. RequestOK(requests[p], users[requests[p].a], Vouched', drawn')  BY <1>1, <3>1, RequestStays
      <4>3. RequestOK(requests[p], users'[requests[p].a], Vouched', drawn')  BY <4>1, <4>2 DEF RequestOK
      <4> QED  BY <3>1, <4>3
    <3> QED  BY <3>2, <3>3, <3>4
  <2> QED  BY <1>3, <2>2, <2>3
<1>7. Letters'
  <2>1. SUFFICES ASSUME NEW l \in letters PROVE Given(l.token, drawn') /\ \A b \in Registered : AnswersOwner(l, users'[b])
    BY <1>2 DEF Letters
  <2>2. Given(l.token, drawn) /\ Given(l.token, drawn')  BY <1>1, <2>1, GivenStays DEF Letters
  <2>3. AnswersOwner(l, new)
    <3>1. AnswersOwner(l, users[a])  BY <2>1 DEF Letters
    <3>2. CASE Changes(users[a], new, drawn)  BY <1>1, <2>2, <3>1, <3>2, LetterKeeps
    <3>3. CASE new.status = "ERASED" /\ new.confirmation = None /\ new.recovery = None  BY <3>3 DEF AnswersOwner
    <3> QED  BY <3>2, <3>3
  <2> QED  BY <1>2, <2>1, <2>2, <2>3 DEF Letters
<1>8. OwnTokens'
  <2>1. \A b \in Registered : users[b].confirmation # drawn + 1 /\ users[b].recovery # drawn + 1
    BY <1>1, Undrawn DEF Rows, RowOK
  <2>2. new.confirmation \in {None, drawn + 1, users[a].confirmation} /\ new.recovery \in {None, drawn + 1, users[a].recovery}
    BY DEF Changes
  <2>3. SUFFICES ASSUME NEW b \in Registered, NEW c \in Registered
                 PROVE  /\ (users'[b].confirmation # None /\ users'[b].confirmation = users'[c].confirmation) => b = c
                        /\ (users'[b].recovery # None /\ users'[b].recovery = users'[c].recovery) => b = c
    BY <1>2 DEF OwnTokens
  <2>4. CASE b # a /\ c # a  BY <1>2, <2>3, <2>4 DEF OwnTokens
  <2>5. CASE b = a /\ c # a  BY <1>2, <2>1, <2>2, <2>3, <2>5 DEF OwnTokens
  <2>6. CASE b # a /\ c = a  BY <1>2, <2>1, <2>2, <2>3, <2>6 DEF OwnTokens
  <2> QED  BY <2>4, <2>5, <2>6
<1>9. ErasedStays
  <2>1. SUFFICES ASSUME NEW b \in Registered, users[b].status = "ERASED" PROVE users'[b].status = "ERASED"  BY DEF ErasedStays
  <2> QED  BY <1>2, <2>1 DEF Changes
<1> QED  BY <1>2, <1>4, <1>5, <1>6, <1>7, <1>8, <1>9

\* What a step leaves where it is, or only takes from, stays of accounts that are there.
LEMMA BesideStays ==
  ASSUME Shape, drawn' \in {drawn, drawn + 1}, Registered \subseteq Registered'
  PROVE  /\ IdentitiesKept /\ UNCHANGED identities => IdentitiesKept'
         /\ AttemptsKept /\ attempts' \subseteq attempts => AttemptsKept'
         /\ TicketsKept /\ tickets' \subseteq tickets => TicketsKept'
         /\ SessionsKept /\ UNCHANGED sessions => SessionsKept'
         /\ CodesKept /\ UNCHANGED codes => CodesKept'
         /\ OpenedKept /\ UNCHANGED opened => OpenedKept'
<1>1. drawn \in Nat /\ drawn' \in Nat /\ drawn <= drawn'  BY DEF Shape
<1>2. \A t : Given(t, drawn) => Given(t, drawn')  BY <1>1, GivenStays
<1>3. IdentitiesKept /\ UNCHANGED identities => IdentitiesKept'  BY DEF IdentitiesKept
<1>4. AttemptsKept /\ attempts' \subseteq attempts => AttemptsKept'  BY <1>2 DEF AttemptsKept
<1>5. TicketsKept /\ tickets' \subseteq tickets => TicketsKept'  BY <1>2 DEF TicketsKept
<1>6. SessionsKept /\ UNCHANGED sessions => SessionsKept'  BY DEF SessionsKept
<1>7. CodesKept /\ UNCHANGED codes => CodesKept'  BY <1>2 DEF CodesKept
<1>8. OpenedKept /\ UNCHANGED opened => OpenedKept'  BY DEF OpenedKept
<1> QED  BY <1>3, <1>4, <1>5, <1>6, <1>7, <1>8

\* A session of an account that is there.
LEMMA Minted ==
  ASSUME SessionsKept, Registered \subseteq Registered', NEW a \in Account, a \in Registered', NEW epoch \in Nat, NEW under \in Nat, NEW by \in {"password", "signup", "letter", "code", "social", "ticket"},
         Mint(a, epoch, under, by)
  PROVE  SessionsKept'
<1>1. [a |-> a, epoch |-> epoch, under |-> under, by |-> by] \in Session  BY DEF Session
<1> QED  BY <1>1 DEF SessionsKept, Mint

\* A step that writes no row and leaves identities alone.
LEMMA RequestSteps ==
  ASSUME AccountsIInv, UNCHANGED <<confirming, users, identities>>, Mails, drawn' \in {drawn, drawn + 1}, proved \subseteq proved',
         NEW r \in RequestRow, Moves(r),
         r.at \notin {"idle", "social"} => (r.a \in Registered \/ (r.at = "start" /\ r.a = None)), RequestOK(r, users[r.a], Vouched', drawn'),
         attempts' \subseteq attempts \/ AttemptsKept', tickets' \subseteq tickets \/ TicketsKept', SessionsKept', CodesKept', OpenedKept'
  PROVE  AccountsIInv' /\ ErasedStays
<1>1. Shape' /\ Rows' /\ Requests' /\ Letters' /\ OwnTokens' /\ ErasedStays /\ Registered' = Registered  BY RequestMoves
<1>2. IdentitiesKept' /\ AttemptsKept' /\ TicketsKept'  BY <1>1, BesideStays DEF AccountsIInv
<1>3. WaysIn'  BY <1>1 DEF AccountsIInv, WaysIn, KeepsWayIn, Connected
<1>4. Loose'  BY <1>1 DEF AccountsIInv, Loose, Connected
<1> QED  BY <1>1, <1>2, <1>3, <1>4 DEF AccountsIInv

\* A step that writes one row, of somebody who may still come in, and leaves identities alone.
LEMMA RowSteps ==
  ASSUME AccountsIInv, UNCHANGED <<confirming, letters, identities>>, drawn' \in {drawn, drawn + 1}, proved \subseteq proved',
         NEW a \in Registered, NEW new \in UserRow, Put(a, new), RowOK(a, new, Vouched', drawn'), Changes(users[a], new, drawn),
         new.status # "ERASED" => KeepsWayIn(a, new, new.email),
         NEW r \in RequestRow, Moves(r),
         r.at \notin {"idle", "social"} => (r.a \in Registered \/ (r.at = "start" /\ r.a = None)), RequestOK(r, users'[r.a], Vouched', drawn'),
         attempts' \subseteq attempts \/ AttemptsKept', tickets' \subseteq tickets \/ TicketsKept', SessionsKept', CodesKept', OpenedKept'
  PROVE  AccountsIInv' /\ ErasedStays
<1>1. /\ Shape' /\ Rows' /\ Requests' /\ Letters' /\ OwnTokens' /\ ErasedStays /\ Registered' = Registered
      /\ users'[a] = new /\ \A b \in Account : b # a => users'[b] = users[b]
  BY RowMoves
<1>2. IdentitiesKept' /\ AttemptsKept' /\ TicketsKept'  BY <1>1, BesideStays DEF AccountsIInv
<1>3. Registered \subseteq Account  BY RegisteredRow DEF AccountsIInv
<1>4. WaysIn'
  <2>1. SUFFICES ASSUME NEW b \in Registered, users'[b].status # "ERASED" PROVE KeepsWayIn(b, users'[b], users'[b].email)
    BY <1>1 DEF WaysIn, KeepsWayIn, Connected
  <2> QED  BY <1>1, <1>3, <2>1 DEF AccountsIInv, WaysIn
<1>5. Loose'
  <2>1. SUFFICES ASSUME NEW b \in Registered, users'[b].status = "ERASED" PROVE ~Connected(b)
    BY <1>1 DEF Loose, Connected
  <2>2. users[b].status = "ERASED"  BY <1>1, <1>3, <2>1 DEF Changes
  <2> QED  BY <2>1, <2>2 DEF AccountsIInv, Loose
<1> QED  BY <1>1, <1>2, <1>4, <1>5 DEF AccountsIInv

\* A step that changes nothing but what its request keeps.
LEMMA RequestOnly ==
  ASSUME AccountsIInv, UNCHANGED <<confirming, users, identities, codes, attempts, tickets, letters, sessions, history, drawn>>,
         NEW q \in Request, NEW r \in RequestRow, Keep(q, r),
         r.at \notin {"idle", "social"} => (r.a \in Registered \/ (r.at = "start" /\ r.a = None)), RequestOK(r, users[r.a], Vouched, drawn)
  PROVE  AccountsIInv' /\ ErasedStays
<1>1. Vouched' = Vouched /\ drawn' = drawn /\ UNCHANGED <<opened, proved>> /\ Registered' = Registered  BY DEF history, Vouched, Registered
<1>2. SessionsKept' /\ CodesKept' /\ OpenedKept'  BY <1>1, BesideStays DEF AccountsIInv
<1>3. Moves(r)  BY KeepRequest DEF AccountsIInv
<1>4. Mails  BY DEF Mails
<1> QED  BY <1>1, <1>2, <1>3, <1>4, RequestSteps

\* A step that writes one row, and what its request keeps, and nothing beside them.
LEMMA RowOnly ==
  ASSUME AccountsIInv, UNCHANGED <<confirming, identities, codes, attempts, tickets, letters, sessions, opened>>,
         drawn' \in {drawn, drawn + 1}, proved \subseteq proved',
         NEW a \in Registered, NEW new \in UserRow, Put(a, new), RowOK(a, new, Vouched', drawn'), Changes(users[a], new, drawn),
         new.status # "ERASED" => KeepsWayIn(a, new, new.email),
         NEW q \in Request, NEW r \in RequestRow, Keep(q, r),
         r.at \notin {"idle", "social"} => (r.a \in Registered \/ (r.at = "start" /\ r.a = None)), RequestOK(r, users'[r.a], Vouched', drawn')
  PROVE  AccountsIInv' /\ ErasedStays
<1>1. Registered' = Registered
  <2>1. a \in Account /\ a \in Registered  BY DEF Registered
  <2> QED  BY <2>1, PutRow DEF AccountsIInv, Shape
<1>2. SessionsKept' /\ CodesKept' /\ OpenedKept'  BY <1>1, BesideStays DEF AccountsIInv
<1>3. Moves(r)  BY KeepRequest DEF AccountsIInv
<1> QED  BY <1>2, <1>3, RowSteps

\* A request that goes back to rest.
LEMMA Rests ==
  ASSUME AccountsIInv, NEW q \in Request, Keep(q, Idle),
         UNCHANGED <<confirming, users, identities, codes, attempts, tickets, letters, sessions, history, drawn>>
  PROVE  AccountsIInv' /\ ErasedStays
BY IdleRequest, RequestOnly

\* What a step finds of its request and of the account the request is about.
LEMMA Finds ==
  ASSUME AccountsIInv, NEW q \in Request
  PROVE  /\ requests[q] \in RequestRow /\ Given(requests[q].token, drawn) /\ drawn \in Nat /\ drawn + 1 \in Nat /\ drawn <= drawn + 1
         /\ RequestOK(requests[q], users[requests[q].a], Vouched, drawn)
         /\ requests[q].at \notin {"idle", "social", "start"} =>
              /\ requests[q].a \in Registered /\ requests[q].a \in Account
              /\ users[requests[q].a] \in UserRow /\ RowOK(requests[q].a, users[requests[q].a], Vouched, drawn)
<1>1. requests[q] \in RequestRow /\ drawn \in Nat /\ RequestOK(requests[q], users[requests[q].a], Vouched, drawn)  BY DEF AccountsIInv, Shape, Requests
<1>2. Given(requests[q].token, drawn)  BY <1>1 DEF RequestOK
<1>3. requests[q].at \notin {"idle", "social", "start"} => requests[q].a \in Registered  BY DEF AccountsIInv, Requests
<1>4. \A a \in Registered : a \in Account /\ users[a] \in UserRow /\ RowOK(a, users[a], Vouched, drawn)  BY RegisteredRow DEF AccountsIInv, Rows
<1> QED  BY <1>1, <1>2, <1>3, <1>4

-----------------------------------------------------------------------------
(* Steps that read.                                                        *)

LEMMA SignsIn == ASSUME AccountsIInv, NEW q \in Request, NEW a \in Account, NEW p \in Password, NEW panel \in BOOLEAN, sign_in(q, a, p, panel) PROVE AccountsIInv' /\ ErasedStays
<1> DEFINE r == [Idle EXCEPT !.at = "verify", !.a = a, !.row = users[a], !.arg = p, !.panel = panel]
<1>1. a \in Registered /\ users[a] \in UserRow  BY RegisteredRow DEF sign_in, AccountsIInv
<1>2. r \in RequestRow /\ r.at = "verify" /\ r.a = a /\ r.row = users[a] /\ r.token = None  BY <1>1 DEF Idle, RequestRow, Places
<1>3. Keep(q, r) /\ UNCHANGED <<confirming, users, identities, codes, attempts, tickets, letters, sessions, history, drawn>>  BY DEF sign_in, Begin
<1> HIDE DEF r
<1>4. RequestOK(r, users[r.a], Vouched, drawn)  BY <1>1, <1>2 DEF RequestOK, Given
<1> QED  BY <1>1, <1>2, <1>3, <1>4, RequestOnly

LEMMA ReadsCount == ASSUME AccountsIInv, NEW q \in Request, ReadCount(q) PROVE AccountsIInv' /\ ErasedStays
<1> DEFINE r == [requests[q] EXCEPT !.at = "block"]
<1>1. requests[q] \in RequestRow /\ requests[q].at = "count" /\ requests[q].a \in Registered /\ Given(requests[q].token, drawn)
  BY DEF ReadCount, At, AccountsIInv, Shape, Requests, RequestOK
<1>2. r \in RequestRow /\ r.at = "block" /\ r.a = requests[q].a /\ r.token = requests[q].token  BY <1>1 DEF RequestRow, Places
<1>3. UNCHANGED <<confirming, users, identities, codes, attempts, tickets, letters, sessions, history, drawn>> /\ (Keep(q, Idle) \/ Keep(q, r))
  BY DEF ReadCount, Keep
<1> HIDE DEF r
<1>4. RequestOK(r, users[r.a], Vouched, drawn)  BY <1>1, <1>2 DEF RequestOK
<1>5. CASE Keep(q, Idle)  BY <1>3, <1>5, Rests
<1>6. CASE Keep(q, r)  BY <1>1, <1>2, <1>3, <1>4, <1>6, RequestOnly
<1> QED  BY <1>3, <1>5, <1>6

\* A letter is asked for: the request keeps nothing but whose it is.
LEMMA AsksLetter ==
  ASSUME AccountsIInv, NEW q \in Request, NEW a \in Registered, NEW place \in {"claim confirmation", "claim recovery"},
         Keep(q, [Idle EXCEPT !.at = place, !.a = a]),
         UNCHANGED <<confirming, users, identities, codes, attempts, tickets, letters, sessions, history, drawn>>
  PROVE  AccountsIInv' /\ ErasedStays
<1> DEFINE r == [Idle EXCEPT !.at = place, !.a = a]
<1>1. a \in Account  BY DEF Registered
<1>2. r \in RequestRow /\ r.at = place /\ r.a = a /\ r.token = None  BY <1>1 DEF Idle, RequestRow, Places
<1>3. Keep(q, r)  OBVIOUS
<1> HIDE DEF r
<1>4. RequestOK(r, users[r.a], Vouched, drawn)  BY <1>2 DEF RequestOK, Given
<1> QED  BY <1>2, <1>3, <1>4, RequestOnly

LEMMA AsksAgain == ASSUME AccountsIInv, NEW q \in Request, NEW a \in Account, resend_confirmation(q, a) PROVE AccountsIInv' /\ ErasedStays
BY AsksLetter DEF resend_confirmation, Begin

LEMMA ForgetsPassword == ASSUME AccountsIInv, NEW q \in Request, NEW a \in Account, start_password_reset(q, a) PROVE AccountsIInv' /\ ErasedStays
BY AsksLetter DEF start_password_reset, Begin

\* What a session loads is of an open account, whose address was vouched for.
LEMMA Loads ==
  ASSUME AccountsIInv, NEW q \in Request, NEW s \in sessions, NEW arg \in Mailbox \cup {None}, NEW place \in {"settle account", "erase", "disconnect"}, load(q, s, place, arg)
  PROVE  AccountsIInv' /\ ErasedStays
<1> DEFINE a == s.a
           r == [Idle EXCEPT !.at = place, !.a = a, !.row = users[a], !.arg = arg]
<1>1. a \in Registered /\ users[a] \in UserRow /\ users[a].status = "ACTIVE" /\ a \in Account
  BY RegisteredRow DEF load, load_user, AccountsIInv, SessionsKept
<1>2. r \in RequestRow /\ r.at = place /\ r.a = a /\ r.row = users[a] /\ r.arg = arg /\ r.token = None  BY <1>1 DEF Idle, RequestRow, Places
<1>3. Keep(q, r) /\ UNCHANGED <<confirming, users, identities, codes, attempts, tickets, letters, sessions, history, drawn>>  BY DEF load, Begin
<1>4. RowOK(a, users[a], Vouched, drawn)  BY <1>1 DEF AccountsIInv, Rows
<1> HIDE DEF r, a
<1>5. RequestOK(r, users[r.a], Vouched, drawn)  BY <1>1, <1>2, <1>4 DEF RequestOK, Given, RowOK
<1> QED  BY <1>1, <1>2, <1>3, <1>5, RequestOnly

LEMMA AsksNewPassword == ASSUME AccountsIInv, NEW q \in Request, NEW s \in sessions, NEW old \in Password, NEW new \in Password, change_password(q, s, old, new) PROVE AccountsIInv' /\ ErasedStays
<1> DEFINE a == s.a
           r == [Idle EXCEPT !.at = "change password", !.a = a, !.row = users[a], !.arg = new]
<1>1. a \in Registered /\ users[a] \in UserRow /\ a \in Account  BY RegisteredRow DEF change_password, load_user, AccountsIInv, SessionsKept
<1>2. r \in RequestRow /\ r.at = "change password" /\ r.a = a /\ r.row = users[a] /\ r.arg = new /\ r.token = None  BY <1>1 DEF Idle, RequestRow, Places
<1>3. Keep(q, r) /\ UNCHANGED <<confirming, users, identities, codes, attempts, tickets, letters, sessions, history, drawn>>  BY DEF change_password, Begin
<1> HIDE DEF r, a
<1>4. RequestOK(r, users[r.a], Vouched, drawn)  BY <1>1, <1>2 DEF RequestOK, Given
<1> QED  BY <1>1, <1>2, <1>3, <1>4, RequestOnly

\* Whoever answers a confirmation letter holds the mailbox of the address it is to prove.
LEMMA AnswersConfirmation == ASSUME AccountsIInv, NEW q \in Request, NEW l \in letters, confirm_sign_up(q, l) PROVE AccountsIInv' /\ ErasedStays
<1>1. PICK a \in Registered :
        /\ l.token # None /\ users[a].confirmation = l.token /\ awaiting(users[a])
        /\ Keep(q, [Idle EXCEPT !.at = "confirm", !.a = a, !.row = users[a], !.token = l.token, !.arg = l.to])
  BY DEF confirm_sign_up
<1> DEFINE r == [Idle EXCEPT !.at = "confirm", !.a = a, !.row = users[a], !.token = l.token, !.arg = l.to]
<1>2. users[a] \in UserRow /\ a \in Account  BY RegisteredRow DEF AccountsIInv
<1>3. l \in LetterRow /\ l.kind = "confirmation" /\ Given(l.token, drawn) /\ AnswersOwner(l, users[a])
  BY DEF confirm_sign_up, AccountsIInv, Shape, Letters
<1>4. l.to \in Mailbox /\ l.token \in Nat \cup {None} /\ l.to = Target(users[a])  BY <1>1, <1>3 DEF LetterRow, AnswersOwner
<1>5. r \in RequestRow /\ r.at = "confirm" /\ r.a = a /\ r.row = users[a] /\ r.arg = l.to /\ r.token = l.token  BY <1>2, <1>4 DEF Idle, RequestRow, Places
<1>6. Keep(q, r) /\ UNCHANGED <<confirming, users, identities, codes, attempts, tickets, letters, sessions, history, drawn>>  BY <1>1 DEF confirm_sign_up, Begin
<1> HIDE DEF r
<1>7. RequestOK(r, users[r.a], Vouched, drawn)  BY <1>1, <1>2, <1>3, <1>4, <1>5 DEF RequestOK
<1> QED  BY <1>5, <1>6, <1>7, RequestOnly

LEMMA AnswersRecovery == ASSUME AccountsIInv, NEW q \in Request, NEW l \in letters, NEW p \in Password, confirm_password_reset(q, l, p) PROVE AccountsIInv' /\ ErasedStays
<1>1. PICK a \in Registered :
        /\ l.token # None /\ users[a].recovery = l.token
        /\ Keep(q, [Idle EXCEPT !.at = "reset", !.a = a, !.token = l.token, !.arg = p, !.row = users[a], !.by = l.to])
  BY DEF confirm_password_reset
<1> DEFINE r == [Idle EXCEPT !.at = "reset", !.a = a, !.token = l.token, !.arg = p, !.row = users[a], !.by = l.to]
<1>2. users[a] \in UserRow /\ a \in Account  BY RegisteredRow DEF AccountsIInv
<1>3. l \in LetterRow /\ l.kind = "recovery" /\ Given(l.token, drawn) /\ AnswersOwner(l, users[a])
  BY DEF confirm_password_reset, AccountsIInv, Shape, Letters
<1>4. l.to \in Mailbox /\ l.token \in Nat \cup {None} /\ l.to = users[a].email  BY <1>1, <1>3 DEF LetterRow, AnswersOwner
<1>5. r \in RequestRow /\ r.at = "reset" /\ r.a = a /\ r.arg = p /\ r.by = l.to /\ r.token = l.token  BY <1>2, <1>4 DEF Idle, RequestRow, Places
<1>6. Keep(q, r) /\ UNCHANGED <<confirming, users, identities, codes, attempts, tickets, letters, sessions, history, drawn>>  BY <1>1 DEF confirm_password_reset, Begin
<1> HIDE DEF r
<1>7. RequestOK(r, users[r.a], Vouched, drawn)  BY <1>1, <1>2, <1>3, <1>4, <1>5 DEF RequestOK
<1> QED  BY <1>5, <1>6, <1>7, RequestOnly

-----------------------------------------------------------------------------
(* Signing in by password, and what the clock does to a row.               *)

\* A write that leaves who may come in, and by what letter, as it was.
LEMMA Untouched ==
  ASSUME AccountsIInv, NEW a \in Registered, NEW new \in UserRow, new.status = users[a].status, new.email = users[a].email, new.pending = users[a].pending,
         new.password = users[a].password, new.named = users[a].named, new.confirmation = users[a].confirmation, new.recovery = users[a].recovery
  PROVE  /\ RowOK(a, new, Vouched, drawn) /\ Changes(users[a], new, drawn)
         /\ new.status # "ERASED" => KeepsWayIn(a, new, new.email)
<1>1. RowOK(a, users[a], Vouched, drawn) /\ (users[a].status # "ERASED" => KeepsWayIn(a, users[a], users[a].email))  BY DEF AccountsIInv, Rows, WaysIn
<1>2. RowOK(a, new, Vouched, drawn)  BY <1>1 DEF RowOK
<1>3. Changes(users[a], new, drawn)  BY DEF Changes, awaiting
<1>4. new.status # "ERASED" => KeepsWayIn(a, new, new.email)  BY <1>1 DEF KeepsWayIn
<1> QED  BY <1>2, <1>3, <1>4

LEMMA ResetRow ==
  ASSUME NEW row \in UserRow
  PROVE  /\ Reset(row) \in UserRow /\ Reset(row).status = row.status /\ Reset(row).email = row.email /\ Reset(row).pending = row.pending
         /\ Reset(row).password = row.password /\ Reset(row).named = row.named /\ Reset(row).confirmation = row.confirmation /\ Reset(row).recovery = row.recovery
BY DEF Reset, UserRow

LEMMA SettlesSignIn == ASSUME AccountsIInv, NEW q \in Request, settle_sign_in(q) PROVE AccountsIInv' /\ ErasedStays
<1> DEFINE a == requests[q].a
           new == Reset(users[a])
           r == [requests[q] EXCEPT !.at = "claimed"]
<1>1. requests[q].at = "verify"  BY DEF settle_sign_in, At
<1>2. /\ requests[q] \in RequestRow /\ drawn \in Nat /\ Given(requests[q].token, drawn) /\ a \in Registered /\ users[a] \in UserRow
      /\ requests[q].row \in UserRow
  BY <1>1, Finds DEF RequestOK
<1>3. /\ (Put(a, new) /\ Keep(q, r)) \/ (UNCHANGED users /\ Keep(q, Idle))
      /\ UNCHANGED <<identities, codes, attempts, tickets, letters, sessions, history, opened, proved, drawn, confirming>>
  BY DEF settle_sign_in, history
<1>4. r \in RequestRow /\ r.at = "claimed" /\ r.a = a /\ r.row = requests[q].row /\ r.token = requests[q].token
  BY <1>2 DEF RequestRow, Places
<1>5. /\ new \in UserRow /\ new.status = users[a].status /\ new.email = users[a].email /\ new.pending = users[a].pending
      /\ new.password = users[a].password /\ new.named = users[a].named /\ new.confirmation = users[a].confirmation /\ new.recovery = users[a].recovery
  BY <1>2, ResetRow
<1> HIDE DEF r, new, a
<1>6. CASE UNCHANGED users /\ Keep(q, Idle)  BY <1>3, <1>6, Rests
<1>7. CASE Put(a, new) /\ Keep(q, r)
  <2>1. Vouched' = Vouched  BY <1>3 DEF Vouched
  <2>2. RowOK(a, new, Vouched, drawn) /\ Changes(users[a], new, drawn) /\ (new.status # "ERASED" => KeepsWayIn(a, new, new.email))
    BY <1>2, <1>5, Untouched
  <2>3. RowOK(a, new, Vouched', drawn') /\ drawn' \in {drawn, drawn + 1} /\ proved \subseteq proved'  BY <1>3, <2>1, <2>2
  <2>4. \A x : RequestOK(r, x, Vouched', drawn')  BY <1>2, <1>3, <1>4, <2>1 DEF RequestOK
  <2> QED  BY <1>2, <1>3, <1>4, <1>5, <1>7, <2>2, <2>3, <2>4, RowOnly
<1> QED  BY <1>3, <1>6, <1>7

LEMMA OpensPasswordSession == ASSUME AccountsIInv, NEW q \in Request, PasswordSession(q) PROVE AccountsIInv' /\ ErasedStays
<1> DEFINE a == requests[q].a
           row == requests[q].row
<1>1. requests[q].at = "claimed"  BY DEF PasswordSession, At
<1>2. a \in Registered /\ a \in Account /\ row \in UserRow  BY <1>1, Finds DEF RequestOK
<1>3. row.epoch \in Nat /\ row.changed \in Nat  BY <1>2 DEF UserRow
<1>4. /\ Mint(a, row.epoch, row.changed, "password") \/ UNCHANGED sessions
      /\ Keep(q, Idle) /\ UNCHANGED <<users, identities, codes, attempts, tickets, letters, opened, proved, drawn, confirming>>
  BY DEF PasswordSession, history
<1> HIDE DEF a, row
<1>5. Registered' = Registered /\ Vouched' = Vouched /\ Mails  BY <1>4 DEF Registered, Vouched, Mails
<1>6. SessionsKept'
  <2>1. CASE Mint(a, row.epoch, row.changed, "password")  BY <1>2, <1>3, <1>5, <2>1, Minted DEF AccountsIInv
  <2>2. CASE UNCHANGED sessions  BY <1>4, <1>5, <2>2, BesideStays DEF AccountsIInv
  <2> QED  BY <1>4, <2>1, <2>2
<1>7. OpenedKept' /\ CodesKept'  BY <1>4, <1>5, BesideStays DEF AccountsIInv
<1>8. Moves(Idle)  BY <1>4, KeepRequest, IdleRequest DEF AccountsIInv
<1> QED  BY <1>4, <1>5, <1>6, <1>7, <1>8, IdleRequest, RequestSteps

LEMMA CountsFailure == ASSUME AccountsIInv, NEW q \in Request, count_failure(q) PROVE AccountsIInv' /\ ErasedStays
<1> DEFINE a == requests[q].a
           fails == users[a].fails + 1
           wrong == users[a].wrong + 1
           new == [users[a] EXCEPT !.fails = fails, !.wrong = wrong]
           r == [requests[q] EXCEPT !.at = "count"]
<1>1. /\ requests[q] \in RequestRow /\ requests[q].at = "verify" /\ a \in Registered /\ users[a] \in UserRow /\ Given(requests[q].token, drawn)
  BY RegisteredRow DEF count_failure, At, AccountsIInv, Requests, RequestOK, Shape
<1>2. Put(a, new) /\ Keep(q, r) /\ UNCHANGED <<identities, codes, attempts, tickets, letters, sessions, opened, proved, drawn, confirming>>
  BY DEF count_failure, history, Raised
<1>3. /\ new \in UserRow /\ new.status = users[a].status /\ new.email = users[a].email /\ new.pending = users[a].pending
      /\ new.password = users[a].password /\ new.named = users[a].named /\ new.confirmation = users[a].confirmation /\ new.recovery = users[a].recovery
  <2>1. fails \in Nat /\ wrong \in Nat  BY <1>1 DEF UserRow
  <2> HIDE DEF fails, wrong
  <2> QED  BY <1>1, <2>1 DEF UserRow
<1>4. r \in RequestRow /\ r.at = "count" /\ r.a = a /\ r.token = requests[q].token  BY <1>1 DEF RequestRow, Places
<1> HIDE DEF a, new, r
<1>5. RowOK(a, new, Vouched, drawn) /\ Changes(users[a], new, drawn) /\ (new.status # "ERASED" => KeepsWayIn(a, new, new.email))  BY <1>1, <1>3, Untouched
<1>6. Vouched' = Vouched /\ drawn' = drawn  BY <1>2 DEF Vouched
<1>7. RequestOK(r, users'[r.a], Vouched', drawn')  BY <1>1, <1>4, <1>6 DEF RequestOK
<1> QED  BY <1>1, <1>2, <1>3, <1>4, <1>5, <1>6, <1>7, RowOnly

LEMMA Blocks == ASSUME AccountsIInv, NEW q \in Request, Block(q) PROVE AccountsIInv' /\ ErasedStays
<1> DEFINE a == requests[q].a
           new == [users[a] EXCEPT !.blocked = "yes"]
<1>1. requests[q].at = "block" /\ a \in Registered /\ users[a] \in UserRow  BY RegisteredRow DEF Block, At, AccountsIInv, Requests
<1>2. Put(a, new) /\ Keep(q, Idle) /\ UNCHANGED <<identities, codes, attempts, tickets, letters, sessions, opened, proved, drawn, confirming>>
  BY DEF Block, history
<1>3. /\ new \in UserRow /\ new.status = users[a].status /\ new.email = users[a].email /\ new.pending = users[a].pending
      /\ new.password = users[a].password /\ new.named = users[a].named /\ new.confirmation = users[a].confirmation /\ new.recovery = users[a].recovery
  BY <1>1 DEF UserRow
<1> HIDE DEF a, new
<1>4. RowOK(a, new, Vouched, drawn) /\ Changes(users[a], new, drawn) /\ (new.status # "ERASED" => KeepsWayIn(a, new, new.email))  BY <1>1, <1>3, Untouched
<1>5. Vouched' = Vouched /\ drawn' = drawn  BY <1>2 DEF Vouched
<1> QED  BY <1>1, <1>2, <1>3, <1>4, <1>5, IdleRequest, RowOnly

LEMMA TimeGoesBy == ASSUME AccountsIInv, NEW a \in Account, TimePasses(a) PROVE AccountsIInv' /\ ErasedStays
<1>1. a \in Registered /\ users[a] \in UserRow  BY RegisteredRow DEF TimePasses, AccountsIInv
<1>2. \E new \in {[users[a] EXCEPT !.held = {}], [users[a] EXCEPT !.blocked = "over"]} : Put(a, new)  BY DEF TimePasses
<1>3. PICK new \in {[users[a] EXCEPT !.held = {}], [users[a] EXCEPT !.blocked = "over"]} : Put(a, new)  BY <1>2
<1>4. /\ new \in UserRow /\ new.status = users[a].status /\ new.email = users[a].email /\ new.pending = users[a].pending
      /\ new.password = users[a].password /\ new.named = users[a].named /\ new.confirmation = users[a].confirmation /\ new.recovery = users[a].recovery
  BY <1>1, <1>3 DEF UserRow
<1>5. RowOK(a, new, Vouched, drawn) /\ Changes(users[a], new, drawn) /\ (new.status # "ERASED" => KeepsWayIn(a, new, new.email))  BY <1>1, <1>4, Untouched
<1>6. UNCHANGED <<identities, codes, attempts, tickets, letters, sessions, requests, opened, proved, drawn, confirming>> /\ Vouched' = Vouched
  BY DEF TimePasses, history, Vouched
<1>7. Registered' = Registered  BY <1>1, <1>3, <1>4, PutRow DEF AccountsIInv, Shape
<1>8. SessionsKept' /\ CodesKept' /\ OpenedKept'  BY <1>6, <1>7, BesideStays DEF AccountsIInv
<1>9. Moves(Idle)  BY <1>6 DEF Moves, AccountsIInv, Shape
<1> QED  BY <1>1, <1>3, <1>4, <1>5, <1>6, <1>8, <1>9, IdleRequest, RowSteps

-----------------------------------------------------------------------------
(* Letters.                                                                *)

\* A fresh token on a row, and nothing else of it.
LEMMA TokenDrawn ==
  ASSUME AccountsIInv, NEW a \in Registered, NEW new \in UserRow, new.status = users[a].status, new.email = users[a].email, new.pending = users[a].pending,
         new.password = users[a].password, new.named = users[a].named,
         new.confirmation = users[a].confirmation \/ new.confirmation = drawn + 1, new.recovery = users[a].recovery \/ new.recovery = drawn + 1
  PROVE  /\ RowOK(a, new, Vouched, drawn + 1) /\ Changes(users[a], new, drawn)
         /\ new.status # "ERASED" => KeepsWayIn(a, new, new.email)
<1>1. RowOK(a, users[a], Vouched, drawn) /\ (users[a].status # "ERASED" => KeepsWayIn(a, users[a], users[a].email))  BY DEF AccountsIInv, Rows, WaysIn
<1>2. drawn \in Nat  BY DEF AccountsIInv, Shape
<1>3. Given(new.confirmation, drawn + 1) /\ Given(new.recovery, drawn + 1)
  <2>1. Given(drawn + 1, drawn + 1)  BY <1>2 DEF Given
  <2>2. Given(users[a].confirmation, drawn + 1) /\ Given(users[a].recovery, drawn + 1)  BY <1>1, <1>2, GivenStays DEF RowOK
  <2> QED  BY <2>1, <2>2
<1>4. RowOK(a, new, Vouched, drawn + 1)  BY <1>1, <1>3 DEF RowOK
<1>5. Changes(users[a], new, drawn)  BY DEF Changes, awaiting
<1>6. new.status # "ERASED" => KeepsWayIn(a, new, new.email)  BY <1>1 DEF KeepsWayIn
<1> QED  BY <1>4, <1>5, <1>6

LEMMA ClaimsConfirmation == ASSUME AccountsIInv, NEW q \in Request, claim_confirmation(q) PROVE AccountsIInv' /\ ErasedStays
<1> DEFINE a == requests[q].a
           next == drawn + 1
           held == users[a].held \cup {"confirmation"}
           new == [users[a] EXCEPT !.confirmation = next, !.held = held]
           r == [requests[q] EXCEPT !.at = "mail confirmation"]
<1>1. /\ requests[q] \in RequestRow /\ requests[q].at = "claim confirmation" /\ a \in Registered /\ users[a] \in UserRow /\ Given(requests[q].token, drawn)
      /\ drawn \in Nat /\ next \in Nat /\ drawn <= next
  BY Finds DEF claim_confirmation, At
<1>2. /\ (Put(a, new) /\ drawn' = next /\ Keep(q, r)) \/ (UNCHANGED <<users, drawn>> /\ Keep(q, Idle))
      /\ UNCHANGED <<identities, codes, attempts, tickets, letters, sessions, history, opened, proved, confirming>>
  BY DEF claim_confirmation, history, Draws
<1>3. CASE UNCHANGED <<users, drawn>> /\ Keep(q, Idle)  BY <1>2, <1>3, Rests
<1>4. CASE Put(a, new) /\ drawn' = next /\ Keep(q, r)
  <2>1. r \in RequestRow /\ r.at = "mail confirmation" /\ r.a = a /\ r.token = requests[q].token  BY <1>1 DEF RequestRow, Places
  <2>2. next = drawn + 1 /\ held \in SUBSET {"confirmation", "recovery"}  BY <1>1 DEF UserRow
  <2> HIDE DEF next, held, a
  <2>3. /\ new \in UserRow /\ new.status = users[a].status /\ new.email = users[a].email /\ new.pending = users[a].pending
        /\ new.password = users[a].password /\ new.named = users[a].named /\ new.confirmation = next /\ new.recovery = users[a].recovery
    BY <1>1, <2>2 DEF UserRow
  <2> HIDE DEF new, r
  <2>4. RowOK(a, new, Vouched, next) /\ Changes(users[a], new, drawn) /\ (new.status # "ERASED" => KeepsWayIn(a, new, new.email))
    BY <1>1, <2>2, <2>3, TokenDrawn
  <2>5. Vouched' = Vouched  BY <1>2 DEF Vouched
  <2>6. RequestOK(r, users'[r.a], Vouched', drawn')  BY <1>1, <1>4, <2>1, GivenStays DEF RequestOK
  <2> QED  BY <1>1, <1>2, <1>4, <2>1, <2>2, <2>3, <2>4, <2>5, <2>6, RowOnly
<1> QED  BY <1>2, <1>3, <1>4

LEMMA ClaimsRecovery == ASSUME AccountsIInv, NEW q \in Request, claim_recovery(q) PROVE AccountsIInv' /\ ErasedStays
<1> DEFINE a == requests[q].a
           next == drawn + 1
           held == users[a].held \cup {"recovery"}
           new == [users[a] EXCEPT !.recovery = next, !.held = held]
           r == [requests[q] EXCEPT !.at = "mail recovery"]
<1>1. /\ requests[q] \in RequestRow /\ requests[q].at = "claim recovery" /\ a \in Registered /\ users[a] \in UserRow /\ Given(requests[q].token, drawn)
      /\ drawn \in Nat /\ next \in Nat /\ drawn <= next
  BY Finds DEF claim_recovery, At
<1>2. /\ (Put(a, new) /\ drawn' = next /\ Keep(q, r)) \/ (UNCHANGED <<users, drawn>> /\ Keep(q, Idle))
      /\ UNCHANGED <<identities, codes, attempts, tickets, letters, sessions, history, opened, proved, confirming>>
  BY DEF claim_recovery, history, Draws
<1>3. CASE UNCHANGED <<users, drawn>> /\ Keep(q, Idle)  BY <1>2, <1>3, Rests
<1>4. CASE Put(a, new) /\ drawn' = next /\ Keep(q, r)
  <2>1. r \in RequestRow /\ r.at = "mail recovery" /\ r.a = a /\ r.token = requests[q].token  BY <1>1 DEF RequestRow, Places
  <2>2. next = drawn + 1 /\ held \in SUBSET {"confirmation", "recovery"}  BY <1>1 DEF UserRow
  <2> HIDE DEF next, held, a
  <2>3. /\ new \in UserRow /\ new.status = users[a].status /\ new.email = users[a].email /\ new.pending = users[a].pending
        /\ new.password = users[a].password /\ new.named = users[a].named /\ new.confirmation = users[a].confirmation /\ new.recovery = next
    BY <1>1, <2>2 DEF UserRow
  <2> HIDE DEF new, r
  <2>4. RowOK(a, new, Vouched, next) /\ Changes(users[a], new, drawn) /\ (new.status # "ERASED" => KeepsWayIn(a, new, new.email))
    BY <1>1, <2>2, <2>3, TokenDrawn
  <2>5. Vouched' = Vouched  BY <1>2 DEF Vouched
  <2>6. RequestOK(r, users'[r.a], Vouched', drawn')  BY <1>1, <1>4, <2>1, GivenStays DEF RequestOK
  <2> QED  BY <1>1, <1>2, <1>4, <2>1, <2>2, <2>3, <2>4, <2>5, <2>6, RowOnly
<1> QED  BY <1>2, <1>3, <1>4

\* A step that may send a letter, to the address its token answers for, and ends its request.
LEMMA SendsLetter ==
  ASSUME AccountsIInv, NEW q \in Request, Keep(q, Idle), Mails,
         UNCHANGED <<confirming, users, identities, codes, attempts, tickets, sessions, history, drawn>>
  PROVE  AccountsIInv' /\ ErasedStays
<1>1. Vouched' = Vouched /\ UNCHANGED <<opened, proved>> /\ Registered' = Registered  BY DEF history, Vouched, Registered
<1>2. SessionsKept' /\ CodesKept' /\ OpenedKept'  BY <1>1, BesideStays DEF AccountsIInv
<1>3. Moves(Idle)  BY KeepRequest, IdleRequest DEF AccountsIInv
<1> QED  BY <1>1, <1>2, <1>3, IdleRequest, RequestSteps

LEMMA MailsConfirmation == ASSUME AccountsIInv, NEW q \in Request, mail_confirmation(q) PROVE AccountsIInv' /\ ErasedStays
<1> DEFINE a == requests[q].a
           row == users[a]
           to == Target(row)
           l == [kind |-> "confirmation", to |-> to, token |-> row.confirmation, a |-> a]
<1>1. a \in Registered /\ row \in UserRow /\ a \in Account  BY RegisteredRow DEF mail_confirmation, At, AccountsIInv, Requests
<1>2. /\ letters' = (IF to = None THEN letters ELSE letters \cup {l}) /\ Keep(q, Idle)
      /\ UNCHANGED <<users, identities, codes, attempts, tickets, sessions, history, drawn, confirming>>
  BY DEF mail_confirmation, Target
<1>3. to \in Mailbox \cup {None}  BY <1>1 DEF Target, UserRow
<1>4. Given(row.confirmation, drawn) /\ row.confirmation \in Nat \cup {None}  BY <1>1 DEF AccountsIInv, Rows, RowOK, UserRow
<1>5. \A b \in Registered : AnswersOwner(l, users[b])
  <2>1. SUFFICES ASSUME NEW b \in Registered, row.confirmation # None, users[b].confirmation = row.confirmation PROVE to = Target(users[b])
    BY DEF AnswersOwner
  <2>2. b = a  BY <1>1, <2>1 DEF AccountsIInv, OwnTokens
  <2> QED  BY <2>2
<1>6. to # None => l \in LetterRow  BY <1>1, <1>3, <1>4 DEF LetterRow
<1>7. l.token = row.confirmation  OBVIOUS
<1> HIDE DEF l, to, row, a
<1>8. Mails  BY <1>2, <1>4, <1>5, <1>6, <1>7 DEF Mails
<1> QED  BY <1>2, <1>8, SendsLetter

LEMMA MailsRecovery == ASSUME AccountsIInv, NEW q \in Request, mail_recovery(q) PROVE AccountsIInv' /\ ErasedStays
<1> DEFINE a == requests[q].a
           row == users[a]
           to == row.email
           l == [kind |-> "recovery", to |-> to, token |-> row.recovery, a |-> a]
<1>1. a \in Registered /\ row \in UserRow /\ a \in Account  BY RegisteredRow DEF mail_recovery, At, AccountsIInv, Requests
<1>2. /\ letters' = (IF to = None THEN letters ELSE letters \cup {l}) /\ Keep(q, Idle)
      /\ UNCHANGED <<users, identities, codes, attempts, tickets, sessions, history, drawn, confirming>>
  BY DEF mail_recovery
<1>3. to \in Mailbox \cup {None}  BY <1>1 DEF UserRow
<1>4. Given(row.recovery, drawn) /\ row.recovery \in Nat \cup {None}  BY <1>1 DEF AccountsIInv, Rows, RowOK, UserRow
<1>5. \A b \in Registered : AnswersOwner(l, users[b])
  <2>1. SUFFICES ASSUME NEW b \in Registered, row.recovery # None, users[b].recovery = row.recovery PROVE to = users[b].email
    BY DEF AnswersOwner
  <2>2. b = a  BY <1>1, <2>1 DEF AccountsIInv, OwnTokens
  <2> QED  BY <2>2
<1>6. to # None => l \in LetterRow  BY <1>1, <1>3, <1>4 DEF LetterRow
<1>7. l.token = row.recovery  OBVIOUS
<1> HIDE DEF l, to, row, a
<1>8. Mails  BY <1>2, <1>4, <1>5, <1>6, <1>7 DEF Mails
<1> QED  BY <1>2, <1>8, SendsLetter

LEMMA VouchedAdds ==
  ASSUME UNCHANGED confirming, NEW a \in Account, NEW m \in Mailbox, <<a, m>> \in proved'
  PROVE  <<a, m>> \in Vouched'
BY DEF Vouched

LEMMA OpenedStays ==
  ASSUME OpenedKept, NEW t, Opens(t)
  PROVE  OpenedKept'
<1>1. opened \in [1 .. 3 * MaxRequests -> Nat] /\ opened' = [opened EXCEPT ![t] = opened[t] + 1]  BY DEF OpenedKept, Opens
<1>2. CASE t \in 1 .. 3 * MaxRequests
  <2>1. opened[t] + 1 \in Nat  BY <1>1, <1>2
  <2> QED  BY <1>1, <2>1 DEF OpenedKept
<1>3. CASE t \notin 1 .. 3 * MaxRequests  BY <1>1, <1>3 DEF OpenedKept
<1> QED  BY <1>2, <1>3

LEMMA SettlesConfirmation == ASSUME AccountsIInv, NEW q \in Request, SettleConfirmation(q) PROVE AccountsIInv' /\ ErasedStays
<1> DEFINE a == requests[q].a
           row == users[a]
           email == Target(row)
           status == IF row.status = "PENDING" THEN "ACTIVE" ELSE row.status
           held == row.held \ (IF requests[q].row.pending # None THEN {"confirmation", "recovery"} ELSE {"confirmation"})
           recovery == IF requests[q].row.pending # None THEN None ELSE row.recovery
           new == [row EXCEPT !.status = status, !.email = email, !.pending = None, !.confirmation = None, !.held = held, !.recovery = recovery]
           r == [requests[q] EXCEPT !.at = "letter session", !.row = row]
           lands == StillAnswers(q) /\ Of(email) \subseteq {a}
<1>1. requests[q].at = "confirm"  BY DEF SettleConfirmation, At
<1>2. /\ requests[q] \in RequestRow /\ drawn \in Nat /\ Given(requests[q].token, drawn) /\ a \in Registered /\ a \in Account /\ row \in UserRow
      /\ RowOK(a, row, Vouched, drawn) /\ requests[q].token # None /\ requests[q].arg \in Mailbox
      /\ row.confirmation = requests[q].token => row.pending = requests[q].row.pending /\ (awaiting(row) => requests[q].arg = Target(row))
  BY <1>1, Finds DEF RequestOK
<1>3. /\ ~lands => UNCHANGED <<users, proved>> /\ Keep(q, Idle)
      /\ lands => /\ Put(a, new) /\ proved' = proved \cup {<<a, requests[q].arg>>} /\ (Keep(q, r) \/ Keep(q, Idle))
      /\ UNCHANGED <<identities, codes, attempts, tickets, letters, sessions, opened, drawn, confirming>>
  BY DEF SettleConfirmation, Target
<1>4. CASE ~lands  BY <1>3, <1>4, Rests DEF history
<1>5. CASE lands
  <2>1. /\ awaiting(row) /\ row.pending = requests[q].row.pending /\ requests[q].arg = email /\ email \in Mailbox /\ email # None
    BY <1>2, <1>5, Nothing DEF StillAnswers
  <2>2. /\ status \in UserStatus /\ status # "PENDING" /\ status # "ERASED" /\ row.status # "ERASED" /\ held \in SUBSET {"confirmation", "recovery"}
        /\ recovery \in Nat \cup {None} /\ Given(recovery, drawn) /\ (recovery = None \/ (recovery = row.recovery /\ email = row.email))
    BY <1>2, <2>1 DEF awaiting, RowOK, UserRow, UserStatus, Given, Target
  <2>3. <<a, email>> \in Vouched' /\ proved \subseteq proved'  BY <1>2, <1>3, <1>5, <2>1, VouchedAdds
  <2>4. r \in RequestRow /\ r.at = "letter session" /\ r.a = a /\ r.row = row /\ r.token = requests[q].token  BY <1>2 DEF RequestRow, Places
  <2> HIDE DEF status, held, recovery, email, r, lands, row
  <2>5. /\ new \in UserRow /\ new.status = status /\ new.email = email /\ new.pending = None /\ new.password = row.password
        /\ new.confirmation = None /\ new.recovery = recovery
    BY <1>2, <2>1, <2>2 DEF UserRow
  <2> HIDE DEF new
  <2>6. RowOK(a, new, Vouched', drawn')  BY <1>3, <2>2, <2>3, <2>5 DEF RowOK, Given
  <2>7. Changes(row, new, drawn)  BY <2>2, <2>5 DEF Changes
  <2>8. KeepsWayIn(a, new, new.email)  BY <2>1, <2>5 DEF KeepsWayIn
  <2>9. \A x : RequestOK(r, x, Vouched', drawn')  BY <1>2, <1>3, <2>4 DEF RequestOK
  <2>10. row = users[a]  BY DEF row
  <2> HIDE DEF a
  <2>11. CASE Keep(q, r)  BY <1>2, <1>3, <1>5, <2>3, <2>4, <2>5, <2>6, <2>7, <2>8, <2>9, <2>10, <2>11, RowOnly
  <2>12. CASE Keep(q, Idle)  BY <1>2, <1>3, <1>5, <2>3, <2>5, <2>6, <2>7, <2>8, <2>10, <2>12, IdleRequest, RowOnly
  <2> QED  BY <1>3, <1>5, <2>11, <2>12
<1> QED  BY <1>4, <1>5

LEMMA OpensLetterSession == ASSUME AccountsIInv, NEW q \in Request, LetterSession(q) PROVE AccountsIInv' /\ ErasedStays
<1> DEFINE a == requests[q].a
<1>1. requests[q].at = "letter session"  BY DEF LetterSession, At
<1>2. a \in Registered /\ users[a] \in UserRow /\ requests[q].row \in UserRow /\ Registered \subseteq Account  BY <1>1, Finds DEF RequestOK, Registered
<1>3. users[a].epoch \in Nat /\ requests[q].row.changed \in Nat  BY <1>2 DEF UserRow
<1>4. /\ Mint(a, users[a].epoch, requests[q].row.changed, "letter") /\ Opens(requests[q].token) /\ Keep(q, Idle)
      /\ UNCHANGED <<users, identities, codes, attempts, tickets, letters, proved, drawn, confirming>>
  BY DEF LetterSession
<1>5. Registered' = Registered /\ Vouched' = Vouched /\ Mails  BY <1>4 DEF Registered, Vouched, Mails
<1>6. SessionsKept'  BY <1>2, <1>3, <1>4, <1>5, Minted DEF AccountsIInv
<1>7. OpenedKept' /\ CodesKept'  BY <1>4, <1>5, OpenedStays, BesideStays DEF AccountsIInv
<1>8. Moves(Idle)  BY <1>4, KeepRequest, IdleRequest DEF AccountsIInv
<1> QED  BY <1>4, <1>5, <1>6, <1>7, <1>8, IdleRequest, RequestSteps

-----------------------------------------------------------------------------
(* Passwords.                                                              *)

LEMMA PasswordRow ==
  ASSUME NEW row \in UserRow, NEW p \in Password
  PROVE  LET new == password_changes(row, p)
         IN /\ new \in UserRow /\ new.status = row.status /\ new.email = row.email /\ new.pending = row.pending /\ new.named = row.named
            /\ new.password = p /\ new.confirmation = row.confirmation /\ new.recovery = None
            /\ new.epoch = row.epoch + 1 /\ new.changed = row.changed + 1 /\ new.held \in SUBSET {"confirmation", "recovery"}
            /\ new.fails = row.fails /\ new.wrong = row.wrong /\ new.blocked = row.blocked
<1> DEFINE changed == row.changed + 1
           epoch == row.epoch + 1
           held == row.held \ {"recovery"}
           new == [row EXCEPT !.password = p, !.changed = changed, !.epoch = epoch, !.recovery = None, !.held = held]
<1>1. changed \in Nat /\ epoch \in Nat /\ held \in SUBSET {"confirmation", "recovery"}  BY DEF UserRow
<1>2. password_changes(row, p) = new  BY DEF password_changes
<1>3. changed = row.changed + 1 /\ epoch = row.epoch + 1  OBVIOUS
<1> HIDE DEF changed, epoch, held
<1>4. /\ new \in UserRow /\ new.status = row.status /\ new.email = row.email /\ new.pending = row.pending /\ new.named = row.named
      /\ new.password = p /\ new.confirmation = row.confirmation /\ new.recovery = None
      /\ new.epoch = epoch /\ new.changed = changed /\ new.held = held
      /\ new.fails = row.fails /\ new.wrong = row.wrong /\ new.blocked = row.blocked
  BY <1>1 DEF UserRow
<1> QED  BY <1>1, <1>2, <1>3, <1>4

\* A password that is replaced leaves an account nobody has forgotten with a way in, and the letters of its address.
LEMMA PasswordReplaced ==
  ASSUME AccountsIInv, NEW a \in Registered, NEW p \in Password, users[a].status # "ERASED"
  PROVE  /\ RowOK(a, password_changes(users[a], p), Vouched, drawn) /\ Changes(users[a], password_changes(users[a], p), drawn)
         /\ KeepsWayIn(a, password_changes(users[a], p), password_changes(users[a], p).email)
<1> DEFINE new == password_changes(users[a], p)
<1>1. RowOK(a, users[a], Vouched, drawn) /\ users[a] \in UserRow /\ p # None  BY RegisteredRow, Nothing DEF AccountsIInv, Rows
<1>2. /\ new \in UserRow /\ new.status = users[a].status /\ new.email = users[a].email /\ new.pending = users[a].pending
      /\ new.password = p /\ new.confirmation = users[a].confirmation /\ new.recovery = None
  BY <1>1, PasswordRow
<1> HIDE DEF new
<1>3. RowOK(a, new, Vouched, drawn)  BY <1>1, <1>2 DEF RowOK, Given
<1>4. Changes(users[a], new, drawn)  BY <1>2 DEF Changes, awaiting
<1>5. KeepsWayIn(a, new, new.email)  BY <1>1, <1>2 DEF KeepsWayIn
<1> QED  BY <1>3, <1>4, <1>5 DEF new

LEMMA SettlesPassword == ASSUME AccountsIInv, NEW q \in Request, settle_password(q) PROVE AccountsIInv' /\ ErasedStays
<1> DEFINE a == requests[q].a
           new == password_changes(users[a], requests[q].arg)
           r == [requests[q] EXCEPT !.at = "new session"]
<1>1. requests[q].at = "change password"  BY DEF settle_password, At
<1>2. /\ requests[q] \in RequestRow /\ Given(requests[q].token, drawn) /\ a \in Registered /\ a \in Account /\ users[a] \in UserRow
      /\ requests[q].row \in UserRow /\ requests[q].arg \in Password
  BY <1>1, Finds DEF RequestOK
<1>3. /\ (Claimed(q) /\ Put(a, new) /\ Keep(q, r)) \/ (UNCHANGED users /\ Keep(q, Idle))
      /\ UNCHANGED <<identities, codes, attempts, tickets, letters, sessions, history, opened, proved, drawn, confirming>>
  BY DEF settle_password, history
<1>4. CASE UNCHANGED users /\ Keep(q, Idle)  BY <1>3, <1>4, Rests
<1>5. CASE Claimed(q) /\ Put(a, new) /\ Keep(q, r)
  <2>1. users[a].status # "ERASED"  BY <1>5 DEF Claimed
  <2>2. new \in UserRow  BY <1>2, PasswordRow
  <2>3. RowOK(a, new, Vouched, drawn) /\ Changes(users[a], new, drawn) /\ KeepsWayIn(a, new, new.email)  BY <1>2, <2>1, PasswordReplaced
  <2>4. r \in RequestRow /\ r.at = "new session" /\ r.a = a /\ r.token = requests[q].token /\ r.row = requests[q].row /\ r.arg = requests[q].arg
    BY <1>2 DEF RequestRow, Places
  <2>5. Vouched' = Vouched /\ drawn' = drawn  BY <1>3 DEF Vouched
  <2> HIDE DEF new, r, a
  <2>6. RequestOK(r, users'[r.a], Vouched', drawn')  BY <1>2, <2>4, <2>5 DEF RequestOK
  <2> QED  BY <1>2, <1>3, <1>5, <2>2, <2>3, <2>4, <2>5, <2>6, RowOnly
<1> QED  BY <1>3, <1>4, <1>5

LEMMA OpensNewSession == ASSUME AccountsIInv, NEW q \in Request, NewSession(q) PROVE AccountsIInv' /\ ErasedStays
<1> DEFINE a == requests[q].a
           under == requests[q].row.changed + 1
<1>1. requests[q].at = "new session"  BY DEF NewSession, At
<1>2. a \in Registered /\ users[a] \in UserRow /\ requests[q].row \in UserRow /\ Registered \subseteq Account  BY <1>1, Finds DEF RequestOK, Registered
<1>3. users[a].epoch \in Nat /\ under \in Nat  BY <1>2 DEF UserRow
<1>4. /\ Mint(a, users[a].epoch, under, "password") \/ UNCHANGED sessions
      /\ Keep(q, Idle) /\ UNCHANGED <<users, identities, codes, attempts, tickets, letters, opened, proved, drawn, confirming>>
  BY DEF NewSession, history
<1> HIDE DEF a, under
<1>5. Registered' = Registered /\ Vouched' = Vouched /\ Mails  BY <1>4 DEF Registered, Vouched, Mails
<1>6. SessionsKept'
  <2>1. CASE Mint(a, users[a].epoch, under, "password")  BY <1>2, <1>3, <1>5, <2>1, Minted DEF AccountsIInv
  <2>2. CASE UNCHANGED sessions  BY <1>4, <1>5, <2>2, BesideStays DEF AccountsIInv
  <2> QED  BY <1>4, <2>1, <2>2
<1>7. OpenedKept' /\ CodesKept'  BY <1>4, <1>5, BesideStays DEF AccountsIInv
<1>8. Moves(Idle)  BY <1>4, KeepRequest, IdleRequest DEF AccountsIInv
<1> QED  BY <1>4, <1>5, <1>6, <1>7, <1>8, IdleRequest, RequestSteps

\* Spending the token of a recovery letter lets in whoever owns the address, and vouches for it.
LEMMA SpendsRecovery == ASSUME AccountsIInv, NEW q \in Request, SpendRecovery(q) PROVE AccountsIInv' /\ ErasedStays
<1> DEFINE a == requests[q].a
           changed == password_changes(users[a], requests[q].arg)
           status == IF changed.status = "PENDING" THEN "ACTIVE" ELSE changed.status
           held == changed.held \ {"confirmation"}
           base == [changed EXCEPT !.status = status, !.confirmation = None, !.held = held]
           new == Reset(base)
<1>1. requests[q].at = "reset"  BY DEF SpendRecovery, At
<1>2. /\ requests[q].token # None /\ a \in Registered /\ a \in Account /\ users[a] \in UserRow /\ RowOK(a, users[a], Vouched, drawn)
      /\ requests[q].arg \in Password /\ requests[q].by \in Mailbox /\ (users[a].recovery = requests[q].token => users[a].email = requests[q].by)
  BY <1>1, Finds DEF RequestOK
<1>3. /\ \/ users[a].recovery = requests[q].token /\ Put(a, new) /\ proved' = proved \cup {<<a, requests[q].by>>}
         \/ UNCHANGED <<users, proved>>
      /\ Keep(q, Idle) /\ UNCHANGED <<identities, codes, attempts, tickets, letters, sessions, opened, drawn, confirming>>
  BY DEF SpendRecovery
<1>4. CASE UNCHANGED <<users, proved>>  BY <1>3, <1>4, Rests DEF history
<1>5. CASE users[a].recovery = requests[q].token /\ Put(a, new) /\ proved' = proved \cup {<<a, requests[q].by>>}
  <2>1. users[a].email = requests[q].by /\ users[a].email # None /\ users[a].status # "ERASED"  BY <1>2, <1>5, Nothing DEF RowOK
  <2>2. /\ changed \in UserRow /\ changed.status = users[a].status /\ changed.email = users[a].email /\ changed.pending = users[a].pending
        /\ changed.recovery = None /\ changed.held \in SUBSET {"confirmation", "recovery"}
    BY <1>2, PasswordRow
  <2>3. status \in UserStatus /\ status # "PENDING" /\ status # "ERASED" /\ held \in SUBSET {"confirmation", "recovery"}  BY <2>1, <2>2 DEF UserRow, UserStatus
  <2>4. <<a, users[a].email>> \in Vouched' /\ proved \subseteq proved'  BY <1>2, <1>3, <1>5, <2>1, VouchedAdds
  <2> HIDE DEF changed, status, held
  <2>5. base \in UserRow /\ base.status = status /\ base.email = users[a].email /\ base.confirmation = None /\ base.recovery = None
    BY <2>2, <2>3 DEF UserRow
  <2> HIDE DEF base
  <2>6. new \in UserRow /\ new.status = status /\ new.email = users[a].email /\ new.confirmation = None /\ new.recovery = None
    BY <2>5, ResetRow
  <2> HIDE DEF new
  <2>7. RowOK(a, new, Vouched', drawn')  BY <2>3, <2>4, <2>6 DEF RowOK, Given
  <2>8. Changes(users[a], new, drawn)  BY <2>1, <2>3, <2>6 DEF Changes
  <2>9. KeepsWayIn(a, new, new.email)  BY <2>1, <2>6 DEF KeepsWayIn
  <2> QED  BY <1>2, <1>3, <1>5, <2>4, <2>6, <2>7, <2>8, <2>9, IdleRequest, RowOnly
<1> QED  BY <1>3, <1>4, <1>5

-----------------------------------------------------------------------------
(* What an account, and an operator, write about it.                       *)

LEMMA PreparedRow ==
  ASSUME NEW row \in UserRow, NEW m \in Mailbox \cup {None}
  PROVE  LET new == prepare(row, m)
         IN /\ new \in UserRow /\ new.status = row.status /\ new.email = m /\ new.password = row.password
            /\ (m = row.email /\ new = row) \/ (new.pending = None /\ new.confirmation = None /\ new.recovery = None)
BY DEF prepare, UserRow

LEMMA WaitingRow ==
  ASSUME NEW row \in UserRow, NEW m \in Mailbox
  PROVE  LET new == WaitingLink(row, m)
         IN /\ new \in UserRow /\ new.status = row.status /\ new.email = row.email /\ new.password = row.password
            /\ new.pending = m /\ new.confirmation = None /\ new.recovery = row.recovery
BY DEF WaitingLink, UserRow

\* The address an account or an operator writes, of whom nobody has forgotten.
LEMMA AddressWritten ==
  ASSUME AccountsIInv, NEW a \in Registered, NEW m \in Mailbox \cup {None}, NEW said, Vouched \subseteq said,
         users[a].status # "ERASED", users[a].status = "PENDING" => m # None, KeepsWayIn(a, users[a], m), m # None => <<a, m>> \in said
  PROVE  /\ prepare(users[a], m) \in UserRow /\ RowOK(a, prepare(users[a], m), said, drawn) /\ Changes(users[a], prepare(users[a], m), drawn)
         /\ KeepsWayIn(a, prepare(users[a], m), prepare(users[a], m).email) /\ prepare(users[a], m).status = users[a].status
<1> DEFINE row == users[a]
           new == prepare(row, m)
<1>1. row \in UserRow /\ RowOK(a, row, Vouched, drawn)  BY RegisteredRow DEF AccountsIInv, Rows
<1>2. /\ new \in UserRow /\ new.status = row.status /\ new.email = m /\ new.password = row.password
      /\ (m = row.email /\ new = row) \/ (new.pending = None /\ new.confirmation = None /\ new.recovery = None)
  BY <1>1, PreparedRow
<1>3. drawn \in Nat  BY DEF AccountsIInv, Shape
<1> HIDE DEF new
<1>4. RowOK(a, new, said, drawn)  BY <1>1, <1>2, <1>3 DEF RowOK, Given
<1>5. Changes(row, new, drawn)  BY <1>2 DEF Changes
<1>6. KeepsWayIn(a, new, new.email)  BY <1>2 DEF KeepsWayIn
<1> QED  BY <1>2, <1>4, <1>5, <1>6 DEF new

LEMMA SettlesAccount == ASSUME AccountsIInv, NEW q \in Request, settle_account(q) PROVE AccountsIInv' /\ ErasedStays
<1> DEFINE a == requests[q].a
           row == users[a]
           m == requests[q].arg
           moved == Asked(m) /\ m \notin {requests[q].row.email, requests[q].row.pending}
           popped == m # None /\ m = requests[q].row.pending
           waiting == WaitingLink(row, m)
           written == prepare(row, m)
           r == [Idle EXCEPT !.at = "claim confirmation", !.a = a]
<1>1. requests[q].at = "settle account"  BY DEF settle_account, At
<1>2. /\ a \in Registered /\ a \in Account /\ row \in UserRow /\ RowOK(a, row, Vouched, drawn) /\ drawn \in Nat
      /\ m \in Mailbox \cup {None} /\ row.status # "PENDING" /\ (requests[q].row.email # None => <<a, requests[q].row.email>> \in Vouched)
  BY <1>1, Finds DEF RequestOK
<1>3. /\ \/ UNCHANGED <<users, proved>> /\ Keep(q, Idle)
         \/ row.status # "ERASED" /\ moved /\ Put(a, waiting) /\ UNCHANGED proved /\ Keep(q, r)
         \/ /\ row.status # "ERASED" /\ ~moved /\ ~popped
            /\ (KeepsWayIn(a, row, m) /\ Put(a, written)) \/ UNCHANGED users
            /\ proved' = (IF confirming THEN proved ELSE proved \cup {<<a, m>>}) /\ Keep(q, Idle)
      /\ UNCHANGED <<identities, codes, attempts, tickets, letters, sessions, opened, drawn, confirming>>
  BY DEF settle_account
<1>4. CASE UNCHANGED <<users, proved>> /\ Keep(q, Idle)  BY <1>3, <1>4, Rests DEF history
<1>5. CASE row.status # "ERASED" /\ moved /\ Put(a, waiting) /\ UNCHANGED proved /\ Keep(q, r)
  <2>1. m \in Mailbox  BY <1>2, <1>5 DEF Asked
  <2>2. /\ waiting \in UserRow /\ waiting.status = row.status /\ waiting.email = row.email /\ waiting.password = row.password
        /\ waiting.pending = m /\ waiting.confirmation = None /\ waiting.recovery = row.recovery
    BY <1>2, <2>1, WaitingRow
  <2>3. r \in RequestRow /\ r.at = "claim confirmation" /\ r.a = a /\ r.token = None  BY <1>2 DEF Idle, RequestRow, Places
  <2>4. KeepsWayIn(a, row, row.email)  BY <1>2, <1>5 DEF AccountsIInv, WaysIn
  <2>5. Vouched' = Vouched /\ drawn' = drawn /\ row = users[a]  BY <1>3, <1>5 DEF Vouched
  <2> HIDE DEF waiting, r, a, row
  <2>6. RowOK(a, waiting, Vouched', drawn')  BY <1>2, <1>5, <2>2, <2>5 DEF RowOK, Given
  <2>7. Changes(row, waiting, drawn)  BY <2>2 DEF Changes
  <2>8. KeepsWayIn(a, waiting, waiting.email)  BY <2>2, <2>4 DEF KeepsWayIn
  <2>9. RequestOK(r, users'[r.a], Vouched', drawn')  BY <2>3 DEF RequestOK, Given
  <2> QED  BY <1>2, <1>3, <1>5, <2>2, <2>3, <2>5, <2>6, <2>7, <2>8, <2>9, RowOnly
<1>6. CASE /\ row.status # "ERASED" /\ ~moved /\ ~popped
           /\ (KeepsWayIn(a, row, m) /\ Put(a, written)) \/ UNCHANGED users
           /\ proved' = (IF confirming THEN proved ELSE proved \cup {<<a, m>>}) /\ Keep(q, Idle)
  <2>1. proved \subseteq proved' /\ Vouched \subseteq Vouched'  BY <1>3, <1>6, VouchedStays
  <2>2. m # None => <<a, m>> \in Vouched'
    <3>1. SUFFICES ASSUME m # None PROVE <<a, m>> \in Vouched'  OBVIOUS
    <3>2. CASE confirming
      <4>1. m = requests[q].row.email  BY <1>6, <3>1, <3>2 DEF Asked
      <4> QED  BY <1>2, <2>1, <3>1, <4>1
    <3>3. CASE ~confirming  BY <1>2, <1>3, <3>1, <3>3 DEF Vouched
    <3> QED  BY <3>2, <3>3
  <2>3. CASE UNCHANGED users
    <3>1. Mails /\ Registered' = Registered  BY <1>3, <2>3 DEF Mails, Registered
    <3>2. SessionsKept' /\ CodesKept' /\ OpenedKept'  BY <1>3, <3>1, BesideStays DEF AccountsIInv
    <3>3. Moves(Idle)  BY <1>6, KeepRequest, IdleRequest DEF AccountsIInv
    <3> QED  BY <1>3, <2>1, <2>3, <3>1, <3>2, <3>3, IdleRequest, RequestSteps
  <2>4. CASE KeepsWayIn(a, row, m) /\ Put(a, written)
    <3>1. /\ written \in UserRow /\ RowOK(a, written, Vouched', drawn) /\ Changes(row, written, drawn)
          /\ KeepsWayIn(a, written, written.email)
      BY <1>2, <1>6, <2>1, <2>2, <2>4, AddressWritten
    <3>2. row = users[a] /\ drawn' = drawn  BY <1>3
    <3> HIDE DEF written, row, a
    <3> QED  BY <1>2, <1>3, <1>6, <2>1, <2>4, <3>1, <3>2, IdleRequest, RowOnly
  <2> QED  BY <1>6, <2>3, <2>4
<1> QED  BY <1>3, <1>4, <1>5, <1>6

LEMMA OperatorActs == ASSUME AccountsIInv, NEW q \in Request, NEW a \in Account, OperatorWrites(q, a) PROVE AccountsIInv' /\ ErasedStays
<1>1. /\ a \in Registered /\ users[a] \in UserRow /\ RowOK(a, users[a], Vouched, drawn) /\ users[a].status # "ERASED" /\ drawn \in Nat
      /\ KeepsWayIn(a, users[a], users[a].email)
  BY RegisteredRow DEF OperatorWrites, MayManage, AccountsIInv, Rows, WaysIn, Shape
<1>2. UNCHANGED <<requests, identities, codes, attempts, tickets, letters, sessions, opened, drawn, confirming>>  BY DEF OperatorWrites, Begin
<1>3. SUFFICES ASSUME NEW new \in UserRow, Put(a, new), proved \subseteq proved', RowOK(a, new, Vouched', drawn), Changes(users[a], new, drawn), KeepsWayIn(a, new, new.email)
               PROVE  AccountsIInv' /\ ErasedStays
  <2>1. CASE \E status \in {"ACTIVE", "BLOCKED"} : Put(a, [users[a] EXCEPT !.status = status]) /\ proved' = proved \cup {<<a, users[a].email>>}
    <3>1. PICK status \in {"ACTIVE", "BLOCKED"} : Put(a, [users[a] EXCEPT !.status = status]) /\ proved' = proved \cup {<<a, users[a].email>>}  BY <2>1
    <3> DEFINE new == [users[a] EXCEPT !.status = status]
    <3>2. /\ new \in UserRow /\ new.status = status /\ new.email = users[a].email /\ new.pending = users[a].pending /\ new.password = users[a].password
          /\ new.confirmation = users[a].confirmation /\ new.recovery = users[a].recovery
      BY <1>1 DEF UserRow, UserStatus
    <3>3. new.email # None => <<a, new.email>> \in Vouched'  BY <1>1, <1>2, <3>1, <3>2, VouchedAdds DEF UserRow
    <3>4. Put(a, new) /\ proved \subseteq proved'  BY <3>1
    <3> HIDE DEF new
    <3>5. RowOK(a, new, Vouched', drawn)  BY <1>1, <3>2, <3>3 DEF RowOK
    <3>6. Changes(users[a], new, drawn)  BY <1>1, <3>2 DEF Changes, awaiting
    <3>7. KeepsWayIn(a, new, new.email)  BY <1>1, <3>2 DEF KeepsWayIn
    <3> QED  BY <1>3, <3>2, <3>4, <3>5, <3>6, <3>7
  <2>2. CASE \E p \in Password : Put(a, password_changes(users[a], p)) /\ UNCHANGED proved
    <3>1. PICK p \in Password : Put(a, password_changes(users[a], p)) /\ UNCHANGED proved  BY <2>2
    <3> DEFINE new == password_changes(users[a], p)
    <3>2. new \in UserRow  BY <1>1, PasswordRow
    <3>3. RowOK(a, new, Vouched, drawn) /\ Changes(users[a], new, drawn) /\ KeepsWayIn(a, new, new.email)  BY <1>1, PasswordReplaced
    <3>4. Put(a, new) /\ proved \subseteq proved' /\ Vouched' = Vouched  BY <1>2, <3>1 DEF Vouched
    <3> HIDE DEF new
    <3> QED  BY <1>3, <3>2, <3>3, <3>4
  <2>3. CASE \E m \in Mailbox : Put(a, prepare(users[a], m)) /\ proved' = proved \cup {<<a, m>>}
    <3>1. PICK m \in Mailbox : Put(a, prepare(users[a], m)) /\ proved' = proved \cup {<<a, m>>}  BY <2>3
    <3> DEFINE new == prepare(users[a], m)
    <3>2. <<a, m>> \in Vouched' /\ Vouched \subseteq Vouched' /\ m # None /\ proved \subseteq proved'  BY <1>2, <3>1, VouchedAdds, VouchedStays, Nothing
    <3>3. KeepsWayIn(a, users[a], m)  BY <3>2 DEF KeepsWayIn
    <3>4. new \in UserRow /\ RowOK(a, new, Vouched', drawn) /\ Changes(users[a], new, drawn) /\ KeepsWayIn(a, new, new.email)
      BY <1>1, <3>2, <3>3, AddressWritten
    <3>5. Put(a, new)  BY <3>1
    <3> HIDE DEF new
    <3> QED  BY <1>3, <3>2, <3>4, <3>5
  <2> QED  BY <2>1, <2>2, <2>3 DEF OperatorWrites
<1>4. Registered' = Registered  BY <1>1, <1>3, PutRow DEF AccountsIInv, Shape
<1>5. SessionsKept' /\ CodesKept' /\ OpenedKept'  BY <1>2, <1>4, BesideStays DEF AccountsIInv
<1>6. Moves(Idle)  BY <1>2 DEF Moves, AccountsIInv, Shape
<1> QED  BY <1>1, <1>2, <1>3, <1>5, <1>6, IdleRequest, RowSteps

-----------------------------------------------------------------------------
(* Identities, and whoever asks to be forgotten.                           *)

LEMMA Forgets ==
  ASSUME IdentitiesKept, NEW a \in Registered, identities' = Forgotten(a), Registered' = Registered, Registered \subseteq Account
  PROVE  /\ IdentitiesKept' /\ \A s \in Subject : identities'[s] # a
         /\ \A b \in Registered : b # a => ((\E s \in Subject : identities'[s] = b) <=> Connected(b))
<1>1. identities' = [t \in Subject |-> IF identities[t] = a THEN None ELSE identities[t]] /\ identities \in [Subject -> Account \cup {None}]
  BY DEF Forgotten, IdentitiesKept
<1>2. \A t \in Subject : identities'[t] = IF identities[t] = a THEN None ELSE identities[t]  BY <1>1
<1>3. \A b \in Registered : b # None  BY Nothing
<1>4. IdentitiesKept'  BY <1>1, <1>2 DEF IdentitiesKept
<1>5. \A b \in Registered : b # a => ((\E s \in Subject : identities'[s] = b) <=> Connected(b))  BY <1>2, <1>3 DEF Connected
<1> QED  BY <1>2, <1>3, <1>4, <1>5

LEMMA Erases == ASSUME AccountsIInv, NEW q \in Request, erase(q) PROVE AccountsIInv' /\ ErasedStays
<1> DEFINE a == requests[q].a
           new == [users[a] EXCEPT !.status = "ERASED", !.email = None, !.pending = None, !.password = None, !.confirmation = None, !.recovery = None, !.held = {}]
<1>1. requests[q].at = "erase"  BY DEF erase, At
<1>2. a \in Registered /\ a \in Account /\ users[a] \in UserRow /\ drawn \in Nat /\ Registered \subseteq Account  BY <1>1, Finds DEF Registered
<1>3. /\ \/ UNCHANGED <<users, identities, attempts, tickets, codes>>
         \/ /\ Put(a, new) /\ identities' = Forgotten(a)
            /\ attempts' = {t \in attempts : t.a # a} /\ tickets' = {t \in tickets : t.a # a}
            /\ codes' = [m \in Mailbox |-> IF m = users[a].email THEN None ELSE codes[m]]
      /\ Keep(q, Idle) /\ UNCHANGED <<letters, sessions, history, opened, proved, drawn, confirming>>
  BY DEF erase, history
<1>4. CASE UNCHANGED <<users, identities, attempts, tickets, codes>>  BY <1>3, <1>4, Rests
<1>5. CASE /\ Put(a, new) /\ identities' = Forgotten(a)
           /\ attempts' = {t \in attempts : t.a # a} /\ tickets' = {t \in tickets : t.a # a}
           /\ codes' = [m \in Mailbox |-> IF m = users[a].email THEN None ELSE codes[m]]
  <2>1. /\ new \in UserRow /\ new.status = "ERASED" /\ new.email = None /\ new.pending = None /\ new.password = None
        /\ new.confirmation = None /\ new.recovery = None
    BY <1>2 DEF UserRow, UserStatus
  <2> HIDE DEF new, a
  <2>2. RowOK(a, new, Vouched', drawn')  BY <2>1 DEF RowOK, Given
  <2>3. Moves(Idle)  BY <1>3, KeepRequest, IdleRequest DEF AccountsIInv
  <2>4. /\ Shape' /\ Rows' /\ Requests' /\ Letters' /\ OwnTokens' /\ ErasedStays /\ Registered' = Registered
        /\ users'[a] = new /\ \A b \in Account : b # a => users'[b] = users[b]
    BY <1>2, <1>3, <1>5, <2>1, <2>2, <2>3, IdleRequest, RowMoves
  <2>5. /\ IdentitiesKept' /\ \A s \in Subject : identities'[s] # a
        /\ \A b \in Registered : b # a => ((\E s \in Subject : identities'[s] = b) <=> Connected(b))
    BY <1>2, <1>5, <2>4, Forgets DEF AccountsIInv
  <2>6. AttemptsKept' /\ TicketsKept' /\ SessionsKept' /\ OpenedKept'  BY <1>3, <1>5, <2>4, BesideStays DEF AccountsIInv
  <2>7. CodesKept'
    <3>1. codes \in [Mailbox -> Challenge \cup {None}] /\ drawn' = drawn  BY <1>3 DEF AccountsIInv, CodesKept
    <3>2. \A m \in Mailbox : codes'[m] \in {codes[m], None}  BY <1>5
    <3> QED  BY <1>5, <3>1, <3>2 DEF AccountsIInv, CodesKept
  <2>8. WaysIn'
    <3>1. SUFFICES ASSUME NEW b \in Registered, users'[b].status # "ERASED"
                   PROVE users'[b].password # None \/ users'[b].email # None \/ \E s \in Subject : identities'[s] = b
      BY <2>4 DEF WaysIn, KeepsWayIn, Connected
    <3>2. b # a /\ users'[b] = users[b]  BY <1>2, <2>1, <2>4, <3>1
    <3>3. KeepsWayIn(b, users[b], users[b].email)  BY <3>1, <3>2 DEF AccountsIInv, WaysIn
    <3> QED  BY <2>5, <3>2, <3>3 DEF KeepsWayIn
  <2>9. Loose'
    <3>1. SUFFICES ASSUME NEW b \in Registered, users'[b].status = "ERASED" PROVE \A s \in Subject : identities'[s] # b
      BY <2>4 DEF Loose, Connected
    <3>2. CASE b = a  BY <1>5, <2>5, <3>2
    <3>3. CASE b # a
      <4>1. users[b].status = "ERASED"  BY <1>2, <2>4, <3>1, <3>3
      <4> QED  BY <1>5, <2>5, <3>3, <4>1 DEF AccountsIInv, Loose
    <3> QED  BY <3>2, <3>3
  <2> QED  BY <2>4, <2>5, <2>6, <2>7, <2>8, <2>9 DEF AccountsIInv
<1> QED  BY <1>3, <1>4, <1>5

LEMMA Disconnects == ASSUME AccountsIInv, NEW q \in Request, disconnect(q) PROVE AccountsIInv' /\ ErasedStays
<1> DEFINE a == requests[q].a
<1>1. requests[q].at = "disconnect"  BY DEF disconnect, At
<1>2. a \in Registered /\ a \in Account /\ users[a] \in UserRow /\ drawn \in Nat /\ Registered \subseteq Account  BY <1>1, Finds DEF Registered
<1>3. /\ (MayDisconnect(a) /\ identities' = Forgotten(a)) \/ UNCHANGED identities
      /\ Keep(q, Idle) /\ UNCHANGED <<users, codes, attempts, tickets, letters, sessions, history, opened, proved, drawn, confirming>>
  BY DEF disconnect, history
<1> HIDE DEF a
<1>4. CASE UNCHANGED identities  BY <1>3, <1>4, Rests
<1>5. CASE MayDisconnect(a) /\ identities' = Forgotten(a)
  <2>1. Moves(Idle) /\ Mails  BY <1>3, KeepRequest, IdleRequest DEF AccountsIInv, Mails
  <2>2. Shape' /\ Rows' /\ Requests' /\ Letters' /\ OwnTokens' /\ ErasedStays /\ Registered' = Registered
    BY <1>3, <2>1, IdleRequest, RequestMoves
  <2>3. /\ IdentitiesKept' /\ \A s \in Subject : identities'[s] # a
        /\ \A b \in Registered : b # a => ((\E s \in Subject : identities'[s] = b) <=> Connected(b))
    BY <1>2, <1>5, <2>2, Forgets DEF AccountsIInv
  <2>4. AttemptsKept' /\ TicketsKept' /\ SessionsKept' /\ CodesKept' /\ OpenedKept'  BY <1>3, <2>2, BesideStays DEF AccountsIInv
  <2>5. WaysIn'
    <3>1. SUFFICES ASSUME NEW b \in Registered, users[b].status # "ERASED"
                   PROVE users[b].password # None \/ users[b].email # None \/ \E s \in Subject : identities'[s] = b
      BY <1>3, <2>2 DEF WaysIn, KeepsWayIn, Connected
    <3>2. CASE b = a  BY <1>5, <3>2 DEF MayDisconnect
    <3>3. CASE b # a  BY <2>3, <3>1, <3>3 DEF AccountsIInv, WaysIn, KeepsWayIn
    <3> QED  BY <3>2, <3>3
  <2>6. Loose'
    <3>1. SUFFICES ASSUME NEW b \in Registered, users[b].status = "ERASED" PROVE \A s \in Subject : identities'[s] # b
      BY <1>3, <2>2 DEF Loose, Connected
    <3> QED  BY <1>5, <2>3, <3>1 DEF AccountsIInv, Loose
  <2> QED  BY <2>2, <2>3, <2>4, <2>5, <2>6 DEF AccountsIInv
<1> QED  BY <1>3, <1>4, <1>5

\* An identity is connected to an account that may answer, so to nobody who was forgotten.
LEMMA Connects == ASSUME AccountsIInv, NEW q \in Request, connect(q) PROVE AccountsIInv' /\ ErasedStays
<1> DEFINE a == requests[q].a
           s == requests[q].arg
<1>1. requests[q].at = "connect"  BY DEF connect, At
<1>2. a \in Registered /\ a \in Account /\ s \in Subject /\ drawn \in Nat /\ Registered \subseteq Account  BY <1>1, Finds DEF RequestOK, Registered
<1>3. /\ (users[a].status = "ACTIVE" /\ identities[s] = None /\ identities' = [identities EXCEPT ![s] = a]) \/ UNCHANGED identities
      /\ Keep(q, Idle) /\ UNCHANGED <<users, codes, attempts, tickets, letters, sessions, history, opened, proved, drawn, confirming>>
  BY DEF connect, MayConnect, history
<1> HIDE DEF a, s
<1>4. CASE UNCHANGED identities  BY <1>3, <1>4, Rests
<1>5. CASE users[a].status = "ACTIVE" /\ identities[s] = None /\ identities' = [identities EXCEPT ![s] = a]
  <2>1. Moves(Idle) /\ Mails  BY <1>3, KeepRequest, IdleRequest DEF AccountsIInv, Mails
  <2>2. Shape' /\ Rows' /\ Requests' /\ Letters' /\ OwnTokens' /\ ErasedStays /\ Registered' = Registered
    BY <1>3, <2>1, IdleRequest, RequestMoves
  <2>3. identities \in [Subject -> Account \cup {None}] /\ \A t \in Subject : t # s => identities'[t] = identities[t]  BY <1>5 DEF AccountsIInv, IdentitiesKept
  <2>4. identities'[s] = a  BY <1>2, <1>5, <2>3
  <2>5. IdentitiesKept'  BY <1>2, <1>5, <2>2, <2>3, <2>4 DEF AccountsIInv, IdentitiesKept
  <2>6. AttemptsKept' /\ TicketsKept' /\ SessionsKept' /\ CodesKept' /\ OpenedKept'  BY <1>3, <2>2, BesideStays DEF AccountsIInv
  <2>7. WaysIn'
    <3>1. SUFFICES ASSUME NEW b \in Registered, users[b].status # "ERASED"
                   PROVE users[b].password # None \/ users[b].email # None \/ \E t \in Subject : identities'[t] = b
      BY <1>3, <2>2 DEF WaysIn, KeepsWayIn, Connected
    <3>2. b # None  BY <1>2, <3>1, Nothing
    <3> QED  BY <1>5, <2>3, <3>1, <3>2 DEF AccountsIInv, WaysIn, KeepsWayIn, Connected
  <2>8. Loose'
    <3>1. SUFFICES ASSUME NEW b \in Registered, users[b].status = "ERASED" PROVE \A t \in Subject : identities'[t] # b
      BY <1>3, <2>2 DEF Loose, Connected
    <3>2. b # a  BY <1>5, <3>1
    <3> QED  BY <1>5, <2>3, <2>4, <3>1, <3>2 DEF AccountsIInv, Loose, Connected
  <2> QED  BY <2>2, <2>5, <2>6, <2>7, <2>8 DEF AccountsIInv
<1> QED  BY <1>3, <1>4, <1>5

-----------------------------------------------------------------------------
(* New accounts.                                                           *)

\* An account that is inserted waits on no letter, and no request or letter is about it yet.
LEMMA Inserts ==
  ASSUME AccountsIInv, UNCHANGED <<confirming, letters, drawn>>, proved \subseteq proved',
         NEW a \in Account, a \notin Registered, NEW new \in UserRow, new.confirmation = None, new.recovery = None, new.status # "ERASED",
         Put(a, new), RowOK(a, new, Vouched', drawn),
         NEW r \in RequestRow, Moves(r), r.at \notin {"idle", "social"} => (r.a \in Registered \cup {a} \/ (r.at = "start" /\ r.a = None)), RequestOK(r, users'[r.a], Vouched', drawn)
  PROVE  /\ Shape' /\ Rows' /\ Requests' /\ Letters' /\ OwnTokens' /\ ErasedStays /\ Registered' = Registered \cup {a}
         /\ users'[a] = new /\ \A b \in Account : b # a => users'[b] = users[b]
<1> USE DEF AccountsIInv
<1>1. drawn \in Nat /\ drawn' = drawn /\ Vouched \subseteq Vouched' /\ drawn <= drawn  BY VouchedStays DEF Shape
<1>2. /\ users' \in [Account -> UserRow \cup {None}] /\ users'[a] = new /\ Registered' = Registered \cup {a}
      /\ \A b \in Account : b # a => users'[b] = users[b]
      /\ Registered \subseteq Account
  BY PutRow, RegisteredRow DEF Shape
<1>3. requests' \in [Request -> RequestRow] /\ \A p \in Request : requests'[p] = requests[p] \/ requests'[p] = r  BY DEF Moves
<1>4. Shape'  BY <1>1, <1>2, <1>3 DEF Shape
<1>5. Rows'
  <2>1. SUFFICES ASSUME NEW b \in Registered \cup {a} PROVE RowOK(b, users'[b], Vouched', drawn)  BY <1>1, <1>2 DEF Rows
  <2>2. CASE b = a  BY <1>2, <2>2
  <2>3. CASE b # a  BY <1>1, <1>2, <2>1, <2>3, RowStays DEF Rows
  <2> QED  BY <2>2, <2>3
<1>6. Requests'
  <2>1. SUFFICES ASSUME NEW p \in Request
                 PROVE  /\ requests'[p].at \notin {"idle", "social"} => (requests'[p].a \in Registered \cup {a} \/ (requests'[p].at = "start" /\ requests'[p].a = None))
                        /\ RequestOK(requests'[p], users'[requests'[p].a], Vouched', drawn)
    BY <1>1, <1>2 DEF Requests
  <2>2. CASE requests'[p] = r  BY <2>2
  <2>3. CASE requests'[p] = requests[p]
    <3>1. /\ RequestOK(requests[p], users[requests[p].a], Vouched', drawn)
          /\ requests[p].at \notin {"idle", "social"} => (requests[p].a \in Registered \/ (requests[p].at = "start" /\ requests[p].a = None))
      BY <1>1, RequestStays DEF Requests
    <3>2. CASE requests[p].a \in Registered
      <4>1. users'[requests[p].a] = users[requests[p].a]  BY <1>2, <3>2
      <4> QED  BY <2>3, <3>1, <4>1
    <3>3. CASE requests[p].a \notin Registered
      <4>1. requests[p].at \in {"idle", "social", "start"}  BY <3>1, <3>3
      <4>2. RequestOK(requests[p], users'[requests[p].a], Vouched', drawn)  BY <3>1, <4>1 DEF RequestOK
      <4> QED  BY <2>3, <3>1, <4>1, <4>2
    <3> QED  BY <3>2, <3>3
  <2> QED  BY <1>3, <2>2, <2>3
<1>7. Letters'
  <2>1. SUFFICES ASSUME NEW l \in letters PROVE Given(l.token, drawn) /\ \A b \in Registered \cup {a} : AnswersOwner(l, users'[b])
    BY <1>1, <1>2 DEF Letters
  <2>2. AnswersOwner(l, new)  BY DEF AnswersOwner
  <2> QED  BY <1>2, <2>1, <2>2 DEF Letters
<1>8. OwnTokens'
  <2>1. SUFFICES ASSUME NEW b \in Registered \cup {a}, NEW c \in Registered \cup {a}
                 PROVE  /\ (users'[b].confirmation # None /\ users'[b].confirmation = users'[c].confirmation) => b = c
                        /\ (users'[b].recovery # None /\ users'[b].recovery = users'[c].recovery) => b = c
    BY <1>2 DEF OwnTokens
  <2> QED  BY <1>2, <2>1 DEF OwnTokens
<1>9. ErasedStays  BY <1>2 DEF ErasedStays
<1> QED  BY <1>2, <1>4, <1>5, <1>6, <1>7, <1>8, <1>9

\* One that is inserted with an address, and connected to nothing.
LEMMA Arrives ==
  ASSUME AccountsIInv, UNCHANGED <<confirming, letters, drawn, identities, attempts, tickets, opened>>, proved \subseteq proved',
         NEW a \in Account, a \notin Registered, NEW new \in UserRow, new.confirmation = None, new.recovery = None, new.status # "ERASED", new.email # None,
         Put(a, new), RowOK(a, new, Vouched', drawn),
         NEW r \in RequestRow, Moves(r), r.at \notin {"idle", "social"} => (r.a \in Registered \cup {a} \/ (r.at = "start" /\ r.a = None)), RequestOK(r, users'[r.a], Vouched', drawn),
         SessionsKept', CodesKept'
  PROVE  AccountsIInv' /\ ErasedStays
<1>1. /\ Shape' /\ Rows' /\ Requests' /\ Letters' /\ OwnTokens' /\ ErasedStays /\ Registered' = Registered \cup {a}
      /\ users'[a] = new /\ \A b \in Account : b # a => users'[b] = users[b]
  BY Inserts
<1>2. IdentitiesKept' /\ AttemptsKept' /\ TicketsKept' /\ OpenedKept'  BY <1>1, BesideStays DEF AccountsIInv
<1>3. WaysIn'
  <2>1. SUFFICES ASSUME NEW b \in Registered \cup {a}, users'[b].status # "ERASED" PROVE KeepsWayIn(b, users'[b], users'[b].email)
    BY <1>1 DEF WaysIn, KeepsWayIn, Connected
  <2>2. CASE b = a  BY <1>1, <2>2 DEF KeepsWayIn
  <2>3. CASE b # a
    <3>1. b \in Registered /\ b \in Account /\ users'[b] = users[b]  BY <1>1, <2>1, <2>3 DEF Registered
    <3> QED  BY <2>1, <3>1 DEF AccountsIInv, WaysIn
  <2> QED  BY <2>2, <2>3
<1>4. Loose'
  <2>1. SUFFICES ASSUME NEW b \in Registered \cup {a}, users'[b].status = "ERASED" PROVE ~Connected(b)
    BY <1>1 DEF Loose, Connected
  <2>2. b \in Registered /\ b \in Account /\ b # a  BY <1>1, <2>1 DEF Registered
  <2> QED  BY <1>1, <2>1, <2>2 DEF AccountsIInv, Loose
<1> QED  BY <1>1, <1>2, <1>3, <1>4 DEF AccountsIInv

LEMMA Registers == ASSUME AccountsIInv, NEW q \in Request, NEW m \in Mailbox, NEW p \in Password, register(q, m, p) PROVE AccountsIInv' /\ ErasedStays
<1>1. UNCHANGED <<identities, codes, attempts, tickets, letters, history, opened, proved, drawn, confirming>>  BY DEF register, Begin, history
<1>2. CASE UNCHANGED <<users, sessions>> /\ Keep(q, Idle)  BY <1>1, <1>2, Rests
<1>3. CASE ~(UNCHANGED <<users, sessions>> /\ Keep(q, Idle))
  <2> DEFINE status == IF Asked(m) THEN "PENDING" ELSE "ACTIVE"
             new == [Blank EXCEPT !.email = m, !.password = p, !.status = status]
  <2>1. PICK a \in Account :
          /\ Next_id(a) /\ Put(a, new)
          /\ IF Asked(m) THEN UNCHANGED sessions /\ Keep(q, [Idle EXCEPT !.at = "claim confirmation", !.a = a])
             ELSE Mint(a, 0, 0, "signup") /\ Keep(q, Idle)
    BY <1>3 DEF register
  <2> DEFINE r == [Idle EXCEPT !.at = "claim confirmation", !.a = a]
  <2>2. a \in Account /\ a \notin Registered /\ status \in UserStatus /\ status # "ERASED"  BY <2>1 DEF Next_id, UserStatus
  <2>3. /\ new \in UserRow /\ new.email = m /\ new.password = p /\ new.status = status /\ new.confirmation = None /\ new.recovery = None
    BY <2>2 DEF Blank, UserRow
  <2>4. m # None /\ Vouched' = Vouched /\ drawn \in Nat  BY <1>1, Nothing DEF Vouched, AccountsIInv, Shape
  <2>5. status = "ACTIVE" => <<a, m>> \in Vouched  BY <2>4 DEF Asked, Vouched
  <2>6. r \in RequestRow /\ r.at = "claim confirmation" /\ r.a = a /\ r.token = None  BY DEF Idle, RequestRow, Places
  <2>7. Put(a, new)  BY <2>1
  <2>8. (UNCHANGED sessions /\ Keep(q, r)) \/ (Mint(a, 0, 0, "signup") /\ Keep(q, Idle))  BY <2>1
  <2> HIDE DEF new, status, r
  <2>9. RowOK(a, new, Vouched', drawn)  BY <2>2, <2>3, <2>4, <2>5 DEF RowOK, Given
  <2>10. Registered' = Registered \cup {a}  BY <2>2, <2>3, <2>7, PutRow DEF AccountsIInv, Shape
  <2>11. CodesKept'  BY <1>1, <2>10, BesideStays DEF AccountsIInv
  <2>12. CASE UNCHANGED sessions /\ Keep(q, r)
    <3>1. SessionsKept'  BY <1>1, <2>10, <2>12, BesideStays DEF AccountsIInv
    <3>2. Moves(r)  BY <2>6, <2>12, KeepRequest DEF AccountsIInv
    <3>3. RequestOK(r, users'[r.a], Vouched', drawn)  BY <2>6 DEF RequestOK, Given
    <3> QED  BY <1>1, <2>2, <2>3, <2>4, <2>6, <2>7, <2>9, <2>11, <3>1, <3>2, <3>3, Arrives
  <2>13. CASE Mint(a, 0, 0, "signup") /\ Keep(q, Idle)
    <3>1. SessionsKept'  BY <2>2, <2>10, <2>13, Minted DEF AccountsIInv
    <3>2. Moves(Idle)  BY <2>13, IdleRequest, KeepRequest DEF AccountsIInv
    <3> QED  BY <1>1, <2>2, <2>3, <2>4, <2>7, <2>9, <2>11, <3>1, <3>2, IdleRequest, Arrives
  <2> QED  BY <2>8, <2>12, <2>13
<1> QED  BY <1>2, <1>3

-----------------------------------------------------------------------------
(* Codes by mail.                                                          *)

\* A step that changes challenges only, and draws at most one token.
LEMMA CodeOnly ==
  ASSUME AccountsIInv, UNCHANGED <<confirming, users, identities, attempts, tickets, letters, sessions, requests, history>>, drawn' \in {drawn, drawn + 1}, CodesKept'
  PROVE  AccountsIInv' /\ ErasedStays
<1>1. Vouched' = Vouched /\ UNCHANGED <<opened, proved>> /\ Registered' = Registered /\ Mails  BY DEF history, Vouched, Registered, Mails
<1>2. SessionsKept' /\ OpenedKept'  BY <1>1, BesideStays DEF AccountsIInv
<1>3. Moves(Idle)  BY DEF Moves, AccountsIInv, Shape
<1> QED  BY <1>1, <1>2, <1>3, IdleRequest, RequestSteps

\* A challenge written over, whose token was drawn.
LEMMA CodeWritten ==
  ASSUME CodesKept, drawn \in Nat, drawn' \in {drawn, drawn + 1}, NEW m \in Mailbox, NEW new \in Challenge, Given(new.token, drawn'), codes' = [codes EXCEPT ![m] = new]
  PROVE  CodesKept'
<1>1. drawn' \in Nat /\ drawn <= drawn'  OBVIOUS
<1>2. codes \in [Mailbox -> Challenge \cup {None}] /\ \A o \in Mailbox : codes[o] # None => Given(codes[o].token, drawn')
  BY <1>1, GivenStays DEF CodesKept
<1> QED  BY <1>2 DEF CodesKept

LEMMA RequestsCode == ASSUME AccountsIInv, NEW q \in Request, NEW m \in Mailbox, request_code(q, m) PROVE AccountsIInv' /\ ErasedStays
<1> DEFINE next == drawn + 1
           new == [token |-> next, attempts |-> 0, live |-> TRUE, resend |-> FALSE]
<1>1. drawn \in Nat /\ next \in Nat /\ CodesKept /\ next = drawn + 1  BY DEF AccountsIInv, Shape
<1>2. /\ (codes' = [codes EXCEPT ![m] = new] /\ drawn' = next) \/ UNCHANGED <<codes, drawn>>
      /\ UNCHANGED <<confirming, users, identities, attempts, tickets, letters, sessions, requests, history>>
  BY DEF request_code, Draws, Begin
<1> HIDE DEF next
<1>3. new \in Challenge /\ new.token = next  BY <1>1, AccountsAssumption DEF Challenge
<1>4. Given(next, next)  BY <1>1 DEF Given
<1> HIDE DEF new
<1>5. Registered' = Registered  BY <1>2 DEF Registered
<1>6. CodesKept'
  <2>1. CASE UNCHANGED <<codes, drawn>>  BY <1>1, <2>1 DEF CodesKept
  <2>2. CASE codes' = [codes EXCEPT ![m] = new] /\ drawn' = next  BY <1>1, <1>3, <1>4, <2>2, CodeWritten
  <2> QED  BY <1>2, <2>1, <2>2
<1> QED  BY <1>1, <1>2, <1>6, CodeOnly

LEMMA MissesCode == ASSUME AccountsIInv, NEW q \in Request, NEW m \in Mailbox, WrongCode(q, m) PROVE AccountsIInv' /\ ErasedStays
<1> DEFINE more == codes[m].attempts + 1
           new == [codes[m] EXCEPT !.attempts = more]
<1>1. /\ codes[m] # None /\ codes[m].attempts < CodeAttempts /\ codes' = [codes EXCEPT ![m] = new]
      /\ UNCHANGED <<confirming, users, identities, attempts, tickets, letters, sessions, requests, history, drawn>>
  BY DEF WrongCode, Live, Begin
<1>2. codes[m] \in Challenge /\ Given(codes[m].token, drawn) /\ drawn \in Nat /\ CodesKept  BY <1>1 DEF AccountsIInv, CodesKept, Shape
<1>3. more \in 0 .. CodeAttempts  BY <1>1, <1>2, AccountsAssumption DEF Challenge
<1> HIDE DEF more
<1>4. new \in Challenge /\ new.token = codes[m].token  BY <1>2, <1>3 DEF Challenge
<1> HIDE DEF new
<1>5. CodesKept'  BY <1>1, <1>2, <1>4, CodeWritten
<1> QED  BY <1>1, <1>5, CodeOnly

LEMMA CodeGetsOld == ASSUME AccountsIInv, NEW m \in Mailbox, CodeAges(m) PROVE AccountsIInv' /\ ErasedStays
<1>1. codes[m] # None /\ UNCHANGED <<confirming, users, identities, attempts, tickets, letters, sessions, requests, history, drawn>>  BY DEF CodeAges
<1>2. codes[m] \in Challenge /\ Given(codes[m].token, drawn) /\ drawn \in Nat /\ CodesKept  BY <1>1 DEF AccountsIInv, CodesKept, Shape
<1>3. PICK new \in {[codes[m] EXCEPT !.resend = TRUE], [codes[m] EXCEPT !.live = FALSE]} : codes' = [codes EXCEPT ![m] = new]  BY DEF CodeAges
<1>4. new \in Challenge /\ new.token = codes[m].token  BY <1>2, <1>3 DEF Challenge
<1>5. CodesKept'  BY <1>1, <1>2, <1>3, <1>4, CodeWritten
<1> QED  BY <1>1, <1>5, CodeOnly

\* A mailbox that answers opens its account, or a new one, and vouches for the address.
LEMMA ConfirmsCode == ASSUME AccountsIInv, NEW q \in Request, NEW m \in Mailbox, confirm_code(q, m) PROVE AccountsIInv' /\ ErasedStays
<1> DEFINE spent == [codes[m] EXCEPT !.live = FALSE]
<1>1. /\ codes[m] # None /\ codes' = [codes EXCEPT ![m] = spent]
      /\ UNCHANGED <<confirming, identities, attempts, tickets, letters, sessions, opened, drawn>>
  BY DEF confirm_code, Live, Begin, Consumed
<1>2. codes[m] \in Challenge /\ Given(codes[m].token, drawn) /\ drawn \in Nat /\ CodesKept  BY <1>1 DEF AccountsIInv, CodesKept, Shape
<1>3. spent \in Challenge /\ spent.token = codes[m].token /\ codes[m].token \in Nat /\ codes[m].token # None  BY <1>2, Nothing DEF Challenge
<1> HIDE DEF spent
<1>4. CodesKept'  BY <1>1, <1>2, <1>3, CodeWritten
<1> DEFINE row(a) == IF Of(m) = {} THEN [Blank EXCEPT !.email = m] ELSE IF users[a].status = "PENDING" THEN Proven(users[a]) ELSE users[a]
<1>5. PICK a \in Account :
        /\ IF Of(m) # {} THEN a \in Of(m) ELSE Next_id(a)
        /\ Put(a, row(a)) /\ Keep(q, [Idle EXCEPT !.at = "signed in", !.a = a, !.row = row(a), !.by = "code", !.token = codes[m].token])
        /\ proved' = proved \cup {<<a, m>>}
  BY DEF confirm_code
<1> DEFINE new == row(a)
           r == [Idle EXCEPT !.at = "signed in", !.a = a, !.row = new, !.by = "code", !.token = codes[m].token]
<1>6. Put(a, new) /\ Keep(q, r)  BY <1>5
<1>7. <<a, m>> \in Vouched' /\ m # None /\ proved \subseteq proved' /\ Vouched \subseteq Vouched'  BY <1>1, <1>5, VouchedAdds, VouchedStays, Nothing
<1>8. new \in UserRow => /\ r \in RequestRow /\ r.at = "signed in" /\ r.a = a /\ r.row = new /\ r.by = "code" /\ r.token = codes[m].token
  BY <1>3 DEF Idle, RequestRow, Places
<1>9. CASE Of(m) = {}
  <2>1. a \notin Registered  BY <1>5, <1>9 DEF Next_id
  <2>2. new \in UserRow /\ new.email = m /\ new.status = "ACTIVE" /\ new.confirmation = None /\ new.recovery = None
    BY <1>9 DEF Blank, UserRow, UserStatus
  <2> HIDE DEF new, r
  <2>3. RowOK(a, new, Vouched', drawn)  BY <1>7, <2>2 DEF RowOK, Given
  <2>4. RequestOK(r, users'[r.a], Vouched', drawn)  BY <1>2, <1>3, <1>8, <2>2 DEF RequestOK
  <2>5. Registered' = Registered \cup {a}  BY <1>5, <1>6, <2>2, PutRow DEF AccountsIInv, Shape
  <2>6. SessionsKept'  BY <1>1, <2>5, BesideStays DEF AccountsIInv
  <2>7. Moves(r)  BY <1>6, <1>8, <2>2, KeepRequest DEF AccountsIInv
  <2> QED  BY <1>1, <1>4, <1>5, <1>6, <1>7, <1>8, <2>1, <2>2, <2>3, <2>4, <2>6, <2>7, Arrives
<1>10. CASE Of(m) # {}
  <2>1. a \in Registered /\ users[a].email = m  BY <1>5, <1>10 DEF Of
  <2>2. users[a] \in UserRow /\ RowOK(a, users[a], Vouched, drawn)  BY <2>1, RegisteredRow DEF AccountsIInv, Rows
  <2>3. users[a].status # "ERASED"  BY <1>7, <2>1, <2>2 DEF RowOK
  <2>4. new \in UserRow /\ new.email = m /\ (new = users[a] \/ (new.status = "ACTIVE" /\ new.confirmation = None /\ new.recovery = None))
        /\ (users[a].status # "PENDING" => new = users[a])
        /\ (users[a].status = "PENDING" => new.status = "ACTIVE" /\ new.confirmation = None /\ new.recovery = None)
    <3>1. CASE users[a].status = "PENDING"
      <4> DEFINE changed == users[a].changed + 1
                 epoch == users[a].epoch + 1
                 opening == [users[a] EXCEPT !.status = "ACTIVE", !.password = None, !.changed = changed, !.epoch = epoch, !.confirmation = None, !.recovery = None, !.held = {}]
      <4>1. new = opening  BY <1>10, <3>1 DEF Proven
      <4>2. changed \in Nat /\ epoch \in Nat  BY <2>2 DEF UserRow
      <4> HIDE DEF changed, epoch
      <4>3. opening \in UserRow /\ opening.email = m /\ opening.status = "ACTIVE" /\ opening.confirmation = None /\ opening.recovery = None
        BY <2>1, <2>2, <4>2 DEF UserRow, UserStatus
      <4> HIDE DEF opening, new
      <4> QED  BY <3>1, <4>1, <4>3
    <3>2. CASE users[a].status # "PENDING"  BY <1>10, <2>1, <2>2, <3>2
    <3> QED  BY <3>1, <3>2
  <2> HIDE DEF new, r
  <2>5. RowOK(a, new, Vouched', drawn)
    <3>1. RowOK(a, users[a], Vouched', drawn)  BY <1>2, <1>7, <2>2, RowStays
    <3> QED  BY <1>7, <2>3, <2>4, <3>1 DEF RowOK, Given
  <2>6. Changes(users[a], new, drawn)  BY <2>3, <2>4 DEF Changes
  <2>7. KeepsWayIn(a, new, new.email)  BY <1>7, <2>4 DEF KeepsWayIn
  <2>8. RequestOK(r, users'[r.a], Vouched', drawn)  BY <1>2, <1>3, <1>8, <2>4 DEF RequestOK
  <2>9. Moves(r)  BY <1>6, <1>8, <2>4, KeepRequest DEF AccountsIInv
  <2>10. Registered' = Registered
    <3>1. Registered' = Registered \cup {a}  BY <1>5, <1>6, <2>4, PutRow DEF AccountsIInv, Shape
    <3> QED  BY <2>1, <3>1
  <2>11. SessionsKept' /\ OpenedKept'  BY <1>1, <2>10, BesideStays DEF AccountsIInv
  <2> QED  BY <1>1, <1>4, <1>6, <1>7, <1>8, <2>1, <2>4, <2>5, <2>6, <2>7, <2>8, <2>9, <2>11, RowSteps
<1> QED  BY <1>9, <1>10

-----------------------------------------------------------------------------
(* Social identities and the tickets of the panel.                         *)

LEMMA StartsSocial == ASSUME AccountsIInv, NEW q \in Request, NEW s \in sessions \cup {None}, NEW panel \in BOOLEAN, start_social(q, s, panel) PROVE AccountsIInv' /\ ErasedStays
<1> DEFINE whose == IF s = None THEN None ELSE s.a
           row == IF s = None THEN Blank ELSE users[s.a]
           r == [Idle EXCEPT !.at = "start", !.a = whose, !.row = row, !.panel = panel]
<1>1. Keep(q, r) /\ UNCHANGED <<confirming, users, identities, codes, attempts, tickets, letters, sessions, history, drawn>>
  BY DEF start_social, Begin
<1>2. whose \in Account \cup {None} /\ (whose # None => whose \in Registered) /\ row \in UserRow
  <2>1. CASE s = None  BY <2>1 DEF Blank, UserRow, UserStatus
  <2>2. CASE s # None
    <3>1. s.a \in Registered  BY <2>2 DEF AccountsIInv, SessionsKept
    <3>2. users[s.a] \in UserRow /\ s.a \in Account  BY <3>1, RegisteredRow DEF AccountsIInv
    <3> QED  BY <2>2, <3>1, <3>2
  <2> QED  BY <2>1, <2>2
<1> HIDE DEF whose, row
<1>3. r \in RequestRow /\ r.at = "start" /\ r.a = whose /\ r.row = row /\ r.token = None  BY <1>2 DEF Idle, RequestRow, Places
<1> HIDE DEF r
<1>4. RequestOK(r, users[r.a], Vouched, drawn)  BY <1>2, <1>3 DEF RequestOK, Given
<1> QED  BY <1>1, <1>2, <1>3, <1>4, RequestOnly

\* The attempt is inserted as the session was read when it began.
LEMMA InsertsAttempt == ASSUME AccountsIInv, NEW q \in Request, create_attempt(q) PROVE AccountsIInv' /\ ErasedStays
<1> DEFINE next == drawn + 1
           t == [token |-> next, panel |-> requests[q].panel, a |-> requests[q].a, epoch |-> requests[q].row.epoch]
<1>1. /\ attempts' = attempts \cup {t} /\ drawn' = next /\ requests[q].at = "start" /\ Keep(q, Idle)
      /\ UNCHANGED <<confirming, users, identities, codes, tickets, letters, sessions, history, opened, proved>>
  BY DEF create_attempt, Draws, At, history
<1>2. drawn \in Nat /\ next \in Nat /\ next = drawn + 1 /\ Given(next, next)  BY DEF AccountsIInv, Shape, Given
<1>3. /\ requests[q] \in RequestRow /\ requests[q].row \in UserRow
      /\ requests[q].a \in Account \cup {None} /\ (requests[q].a # None => requests[q].a \in Registered)
  BY <1>1 DEF AccountsIInv, Shape, Requests, RequestOK, RequestRow
<1>4. requests[q].row.epoch \in Nat /\ requests[q].panel \in BOOLEAN  BY <1>3 DEF RequestRow, UserRow
<1> HIDE DEF next
<1>5. t \in AttemptRow /\ t.a = requests[q].a /\ t.token = next  BY <1>2, <1>3, <1>4 DEF AttemptRow
<1> HIDE DEF t
<1>6. Registered' = Registered /\ Vouched' = Vouched /\ Mails  BY <1>1 DEF Registered, Vouched, Mails
<1>7. SessionsKept' /\ CodesKept' /\ OpenedKept'  BY <1>1, <1>2, <1>6, BesideStays DEF AccountsIInv
<1>8. AttemptsKept'
  <2>1. attempts \subseteq AttemptRow /\ \A o \in attempts : (o.a # None => o.a \in Registered) /\ Given(o.token, drawn)  BY DEF AccountsIInv, AttemptsKept
  <2>2. drawn <= next  BY <1>2
  <2>3. \A o \in attempts : Given(o.token, next)  BY <1>2, <2>1, <2>2, GivenStays
  <2> QED  BY <1>1, <1>2, <1>3, <1>5, <1>6, <2>1, <2>3 DEF AttemptsKept
<1>9. Moves(Idle)  BY <1>1, IdleRequest, KeepRequest DEF AccountsIInv
<1> QED  BY <1>1, <1>2, <1>6, <1>7, <1>8, <1>9, IdleRequest, RequestSteps

LEMMA SocialReturns == ASSUME AccountsIInv, NEW q \in Request, NEW t \in attempts, social_callback(q, t) PROVE AccountsIInv' /\ ErasedStays
<1>1. /\ attempts' = attempts \ {t}
      /\ UNCHANGED <<confirming, users, identities, codes, tickets, letters, sessions, history, opened, proved, drawn>>
  BY DEF social_callback, Begin, history
<1>2. t \in AttemptRow /\ (t.a # None => t.a \in Registered) /\ Given(t.token, drawn)  BY DEF AccountsIInv, AttemptsKept
<1>3. Registered' = Registered /\ Vouched' = Vouched /\ Mails /\ drawn' \in {drawn, drawn + 1}  BY <1>1 DEF Registered, Vouched, Mails
<1>4. SessionsKept' /\ CodesKept' /\ OpenedKept'  BY <1>1, <1>3, BesideStays DEF AccountsIInv
<1>5. CASE UNCHANGED requests
  <2>1. Moves(Idle)  BY <1>5 DEF Moves, AccountsIInv, Shape
  <2> QED  BY <1>1, <1>3, <1>4, <2>1, IdleRequest, RequestSteps
<1>6. CASE ~UNCHANGED requests
  <2> DEFINE place == IF t.a = None THEN "social" ELSE "connect"
             row == [Blank EXCEPT !.epoch = t.epoch]
  <2>1. PICK s \in Subject : Keep(q, [Idle EXCEPT !.at = place, !.a = t.a, !.arg = s, !.token = t.token, !.row = row, !.by = "social", !.panel = t.panel])
    BY <1>6 DEF social_callback
  <2> DEFINE r == [Idle EXCEPT !.at = place, !.a = t.a, !.arg = s, !.token = t.token, !.row = row, !.by = "social", !.panel = t.panel]
  <2>2. row \in UserRow  BY <1>2 DEF Blank, UserRow, UserStatus, AttemptRow
  <2>3. place \in Places /\ place \in {"social", "connect"} /\ (place = "connect" => t.a \in Registered)  BY <1>2 DEF Places
  <2>4. t.a \in Account \cup {None} /\ t.token \in Nat /\ t.token # None /\ t.panel \in BOOLEAN  BY <1>2, Nothing DEF AttemptRow
  <2>5. Keep(q, r)  BY <2>1
  <2> HIDE DEF place, row
  <2>6. r \in RequestRow /\ r.at = place /\ r.a = t.a /\ r.arg = s /\ r.token = t.token /\ r.row = row /\ r.by = "social"
    BY <2>2, <2>3, <2>4 DEF Idle, RequestRow
  <2> HIDE DEF r
  <2>7. RequestOK(r, users[r.a], Vouched', drawn')  BY <1>1, <1>2, <2>2, <2>3, <2>4, <2>6 DEF RequestOK
  <2>8. Moves(r)  BY <2>5, <2>6, KeepRequest DEF AccountsIInv
  <2> QED  BY <1>1, <1>3, <1>4, <2>3, <2>6, <2>7, <2>8, RequestSteps
<1> QED  BY <1>5, <1>6

LEMMA RedeemsTicket == ASSUME AccountsIInv, NEW q \in Request, NEW t \in tickets, redeem(q, t) PROVE AccountsIInv' /\ ErasedStays
<1> DEFINE row == [users[t.a] EXCEPT !.changed = t.changed]
           r == [Idle EXCEPT !.at = "signed in", !.a = t.a, !.row = row, !.by = "ticket", !.token = t.token, !.panel = TRUE]
<1>1. /\ tickets' = tickets \ {t} /\ (Keep(q, r) \/ Keep(q, Idle))
      /\ UNCHANGED <<confirming, users, identities, codes, attempts, letters, sessions, history, opened, proved, drawn>>
  BY DEF redeem, Begin, history
<1>2. t \in TicketRow /\ t.a \in Registered /\ Given(t.token, drawn)  BY DEF AccountsIInv, TicketsKept
<1>3. users[t.a] \in UserRow /\ t.a \in Account /\ t.token \in Nat /\ t.token # None  BY <1>2, RegisteredRow, Nothing DEF AccountsIInv, TicketRow
<1>4. row \in UserRow  BY <1>2, <1>3 DEF UserRow, TicketRow
<1> HIDE DEF row
<1>5. r \in RequestRow /\ r.at = "signed in" /\ r.a = t.a /\ r.row = row /\ r.by = "ticket" /\ r.token = t.token  BY <1>3, <1>4 DEF Idle, RequestRow, Places
<1> HIDE DEF r
<1>6. RequestOK(r, users[r.a], Vouched', drawn')  BY <1>1, <1>2, <1>3, <1>4, <1>5 DEF RequestOK
<1>7. Registered' = Registered /\ Vouched' = Vouched /\ Mails /\ drawn' \in {drawn, drawn + 1}  BY <1>1 DEF Registered, Vouched, Mails
<1>8. SessionsKept' /\ CodesKept' /\ OpenedKept'  BY <1>1, <1>7, BesideStays DEF AccountsIInv
<1>9. CASE Keep(q, r)
  <2>1. Moves(r)  BY <1>5, <1>9, KeepRequest DEF AccountsIInv
  <2> QED  BY <1>1, <1>2, <1>5, <1>6, <1>7, <1>8, <2>1, RequestSteps
<1>10. CASE Keep(q, Idle)
  <2>1. Moves(Idle)  BY <1>10, IdleRequest, KeepRequest DEF AccountsIInv
  <2> QED  BY <1>1, <1>7, <1>8, <2>1, IdleRequest, RequestSteps
<1> QED  BY <1>1, <1>9, <1>10

\* An identity signs in to its account; a new one opens an account it is the way in to.
LEMMA SignsInSocially == ASSUME AccountsIInv, NEW q \in Request, NEW m \in Mailbox \cup {None}, social_sign_in(q, m) PROVE AccountsIInv' /\ ErasedStays
<1> DEFINE s == requests[q].arg
<1>1. requests[q].at = "social"  BY DEF social_sign_in, At
<1>2. /\ requests[q] \in RequestRow /\ drawn \in Nat /\ s \in Subject /\ Given(requests[q].token, drawn) /\ requests[q].token # None
      /\ requests[q].by \in {"code", "social", "ticket"}
  BY <1>1, Finds DEF RequestOK
<1>3. UNCHANGED <<codes, attempts, tickets, letters, sessions, opened, drawn, confirming>>  BY DEF social_sign_in
<1>4. CASE identities[s] # None
  <2> DEFINE a == identities[s]
             r == [requests[q] EXCEPT !.at = "signed in", !.a = a, !.row = users[a]]
  <2>1. Keep(q, r) /\ UNCHANGED <<users, identities, proved>>  BY <1>4 DEF social_sign_in
  <2>2. a \in Registered  BY <1>2, <1>4 DEF AccountsIInv, IdentitiesKept
  <2>3. users[a] \in UserRow /\ a \in Account  BY <2>2, RegisteredRow DEF AccountsIInv
  <2> HIDE DEF a, s
  <2>4. r \in RequestRow /\ r.at = "signed in" /\ r.a = a /\ r.row = users[a] /\ r.by = requests[q].by /\ r.token = requests[q].token
    BY <1>2, <2>3 DEF RequestRow, Places
  <2> HIDE DEF r
  <2>5. RequestOK(r, users[r.a], Vouched, drawn)  BY <1>2, <2>3, <2>4 DEF RequestOK
  <2> QED  BY <1>3, <2>1, <2>2, <2>4, <2>5, RequestOnly DEF history
<1>5. CASE identities[s] = None
  <2>1. CASE Keep(q, Idle) /\ UNCHANGED <<users, identities, proved>>  BY <1>3, <2>1, Rests DEF history
  <2>2. CASE ~(Keep(q, Idle) /\ UNCHANGED <<users, identities, proved>>)
    <3> DEFINE new == [Blank EXCEPT !.email = m, !.named = m = None]
    <3>1. PICK a \in Account :
            /\ Next_id(a) /\ Put(a, new) /\ Keep(q, [requests[q] EXCEPT !.at = "signed in", !.a = a, !.row = new])
            /\ identities' = [identities EXCEPT ![s] = a]
            /\ proved' = IF m = None THEN proved ELSE proved \cup {<<a, m>>}
      BY <1>5, <2>2 DEF social_sign_in
    <3> DEFINE r == [requests[q] EXCEPT !.at = "signed in", !.a = a, !.row = new]
    <3>2. a \notin Registered  BY <3>1 DEF Next_id
    <3>3. new \in UserRow /\ new.email = m /\ new.status = "ACTIVE" /\ new.confirmation = None /\ new.recovery = None
      BY DEF Blank, UserRow, UserStatus
    <3>4. /\ Put(a, new) /\ Keep(q, r) /\ proved \subseteq proved'  BY <3>1
    <3> HIDE DEF new, s
    <3>5. r \in RequestRow /\ r.at = "signed in" /\ r.a = a /\ r.row = new /\ r.by = requests[q].by /\ r.token = requests[q].token
      BY <1>2, <3>3 DEF RequestRow, Places
    <3> HIDE DEF r
    <3>6. m # None => <<a, m>> \in Vouched'  BY <1>3, <3>1, VouchedAdds
    <3>7. RowOK(a, new, Vouched', drawn)  BY <3>3, <3>6 DEF RowOK, Given
    <3>8. RequestOK(r, users'[r.a], Vouched', drawn)  BY <1>2, <3>3, <3>5 DEF RequestOK
    <3>9. Moves(r)  BY <3>4, <3>5, KeepRequest DEF AccountsIInv
    <3>10. /\ Shape' /\ Rows' /\ Requests' /\ Letters' /\ OwnTokens' /\ ErasedStays /\ Registered' = Registered \cup {a}
           /\ users'[a] = new /\ \A b \in Account : b # a => users'[b] = users[b]
      BY <1>3, <3>2, <3>3, <3>4, <3>5, <3>7, <3>8, <3>9, Inserts
    <3>11. /\ identities \in [Subject -> Account \cup {None}] /\ identities'[s] = a
           /\ \A t \in Subject : t # s => identities'[t] = identities[t]
      BY <1>2, <3>1 DEF AccountsIInv, IdentitiesKept
    <3>12. IdentitiesKept'  BY <1>2, <3>1, <3>10, <3>11 DEF AccountsIInv, IdentitiesKept
    <3>13. AttemptsKept' /\ TicketsKept' /\ SessionsKept' /\ CodesKept' /\ OpenedKept'  BY <1>3, <3>10, BesideStays DEF AccountsIInv
    <3>14. \A b \in Registered : b \in Account /\ b # a /\ b # None  BY <3>2, Nothing DEF Registered
    <3>15. WaysIn'
      <4>1. SUFFICES ASSUME NEW b \in Registered \cup {a}, users'[b].status # "ERASED"
                     PROVE users'[b].password # None \/ users'[b].email # None \/ \E t \in Subject : identities'[t] = b
        BY <3>10 DEF WaysIn, KeepsWayIn, Connected
      <4>2. CASE b = a  BY <1>2, <3>11, <4>2
      <4>3. CASE b # a
        <5>1. b \in Registered /\ b # None /\ users'[b] = users[b]  BY <3>10, <3>14, <4>1, <4>3
        <5>2. KeepsWayIn(b, users[b], users[b].email)  BY <4>1, <5>1 DEF AccountsIInv, WaysIn
        <5> QED  BY <1>5, <3>11, <5>1, <5>2 DEF KeepsWayIn, Connected
      <4> QED  BY <4>2, <4>3
    <3>16. Loose'
      <4>1. SUFFICES ASSUME NEW b \in Registered \cup {a}, users'[b].status = "ERASED" PROVE \A t \in Subject : identities'[t] # b
        BY <1>3, <3>10 DEF Loose, Connected
      <4>2. b # a  BY <3>3, <3>10, <4>1
      <4>3. b \in Registered /\ users[b].status = "ERASED"  BY <3>10, <3>14, <4>1, <4>2
      <4> QED  BY <3>11, <4>2, <4>3 DEF AccountsIInv, Loose, Connected
    <3> QED  BY <3>10, <3>12, <3>13, <3>15, <3>16 DEF AccountsIInv
  <2> QED  BY <2>1, <2>2
<1> QED  BY <1>4, <1>5

\* Who proved a mailbox, an identity or a ticket is claimed by one write.
LEMMA SignsThemIn == ASSUME AccountsIInv, NEW q \in Request, signed_in(q) PROVE AccountsIInv' /\ ErasedStays
<1> DEFINE a == requests[q].a
           new == Reset(users[a])
           r == [requests[q] EXCEPT !.at = "read back"]
<1>1. requests[q].at = "signed in"  BY DEF signed_in, At
<1>2. /\ requests[q] \in RequestRow /\ drawn \in Nat /\ Given(requests[q].token, drawn) /\ a \in Registered /\ users[a] \in UserRow
      /\ requests[q].row \in UserRow /\ requests[q].by \in {"code", "social", "ticket"} /\ requests[q].token # None
  BY <1>1, Finds DEF RequestOK
<1>3. /\ (Put(a, new) /\ Keep(q, r)) \/ (UNCHANGED users /\ Keep(q, Idle))
      /\ UNCHANGED <<identities, codes, attempts, tickets, letters, sessions, history, opened, proved, drawn, confirming>>
  BY DEF signed_in, history
<1>4. r \in RequestRow /\ r.at = "read back" /\ r.a = a /\ r.row = requests[q].row /\ r.by = requests[q].by /\ r.token = requests[q].token
  BY <1>2 DEF RequestRow, Places
<1>5. /\ new \in UserRow /\ new.status = users[a].status /\ new.email = users[a].email /\ new.pending = users[a].pending
      /\ new.password = users[a].password /\ new.named = users[a].named /\ new.confirmation = users[a].confirmation /\ new.recovery = users[a].recovery
  BY <1>2, ResetRow
<1> HIDE DEF r, new, a
<1>6. CASE UNCHANGED users /\ Keep(q, Idle)  BY <1>3, <1>6, Rests
<1>7. CASE Put(a, new) /\ Keep(q, r)
  <2>1. Vouched' = Vouched  BY <1>3 DEF Vouched
  <2>2. RowOK(a, new, Vouched, drawn) /\ Changes(users[a], new, drawn) /\ (new.status # "ERASED" => KeepsWayIn(a, new, new.email))
    BY <1>2, <1>5, Untouched
  <2>3. RowOK(a, new, Vouched', drawn') /\ drawn' \in {drawn, drawn + 1} /\ proved \subseteq proved'  BY <1>3, <2>1, <2>2
  <2>4. \A x : RequestOK(r, x, Vouched', drawn')  BY <1>2, <1>3, <1>4, <2>1 DEF RequestOK
  <2> QED  BY <1>2, <1>3, <1>4, <1>5, <1>7, <2>2, <2>3, <2>4, RowOnly
<1> QED  BY <1>3, <1>6, <1>7

\* Read back and asked again, they come in, or go on to a ticket of the panel.
LEMMA ReadsBack == ASSUME AccountsIInv, NEW q \in Request, read_back(q) PROVE AccountsIInv' /\ ErasedStays
<1> DEFINE a == requests[q].a
           row == requests[q].row
           by == requests[q].by
           r == [requests[q] EXCEPT !.at = "ticket"]
<1>1. requests[q].at = "read back"  BY DEF read_back, At
<1>2. /\ requests[q] \in RequestRow /\ drawn \in Nat /\ Given(requests[q].token, drawn) /\ a \in Registered /\ a \in Account
      /\ row \in UserRow /\ by \in {"code", "social", "ticket"}
  BY <1>1, Finds DEF RequestOK
<1>3. row.epoch \in Nat /\ row.changed \in Nat  BY <1>2 DEF UserRow
<1>4. /\ Mint(a, row.epoch, row.changed, by) \/ UNCHANGED sessions
      /\ Opens(requests[q].token) \/ UNCHANGED opened
      /\ Keep(q, Idle) \/ Keep(q, r)
      /\ UNCHANGED <<users, identities, codes, attempts, tickets, letters, proved, drawn, confirming>>
  BY DEF read_back
<1>5. r \in RequestRow /\ r.at = "ticket" /\ r.a = a /\ r.row = row /\ r.token = requests[q].token  BY <1>2 DEF RequestRow, Places
<1> HIDE DEF a, row, by, r
<1>6. Registered' = Registered /\ Vouched' = Vouched /\ Mails /\ drawn' \in {drawn, drawn + 1} /\ proved \subseteq proved'
  BY <1>4 DEF Registered, Vouched, Mails
<1>7. SessionsKept'
  <2>1. CASE UNCHANGED sessions  BY <1>6, <2>1, BesideStays DEF AccountsIInv
  <2>2. CASE Mint(a, row.epoch, row.changed, by)
    <3>1. SessionsKept /\ by \in {"password", "signup", "letter", "code", "social", "ticket"}  BY <1>2 DEF AccountsIInv
    <3> QED  BY <1>2, <1>3, <1>6, <2>2, <3>1, Minted
  <2> QED  BY <1>4, <2>1, <2>2
<1>8. OpenedKept' /\ CodesKept'  BY <1>4, <1>6, OpenedStays, BesideStays DEF AccountsIInv
<1>9. RequestOK(r, users[r.a], Vouched', drawn')  BY <1>2, <1>4, <1>5 DEF RequestOK
<1>10. CASE Keep(q, Idle)
  <2>1. Moves(Idle)  BY <1>10, IdleRequest, KeepRequest DEF AccountsIInv
  <2> QED  BY <1>4, <1>6, <1>7, <1>8, <2>1, IdleRequest, RequestSteps
<1>11. CASE Keep(q, r)
  <2>1. Moves(r)  BY <1>5, <1>11, KeepRequest DEF AccountsIInv
  <2> QED  BY <1>2, <1>4, <1>5, <1>6, <1>7, <1>8, <1>9, <2>1, RequestSteps
<1> QED  BY <1>4, <1>10, <1>11

\* The ticket is of an account that is there, erased meanwhile or not.
LEMMA InsertsTicket == ASSUME AccountsIInv, NEW q \in Request, create_ticket(q) PROVE AccountsIInv' /\ ErasedStays
<1> DEFINE next == drawn + 1
           a == requests[q].a
           t == [token |-> next, a |-> a, epoch |-> requests[q].row.epoch, changed |-> requests[q].row.changed]
<1>1. /\ tickets' = tickets \cup {t} /\ drawn' = next /\ requests[q].at = "ticket" /\ Keep(q, Idle)
      /\ UNCHANGED <<confirming, users, identities, codes, attempts, letters, sessions, history, opened, proved>>
  BY DEF create_ticket, Draws, At, history
<1>2. drawn \in Nat /\ next \in Nat /\ next = drawn + 1 /\ Given(next, next)  BY DEF AccountsIInv, Shape, Given
<1>3. requests[q].row \in UserRow /\ a \in Registered /\ a \in Account  BY <1>1, Finds DEF RequestOK
<1>4. requests[q].row.epoch \in Nat /\ requests[q].row.changed \in Nat  BY <1>3 DEF UserRow
<1> HIDE DEF next, a
<1>5. t \in TicketRow /\ t.a = a /\ t.token = next  BY <1>2, <1>3, <1>4 DEF TicketRow
<1> HIDE DEF t
<1>6. Registered' = Registered /\ Vouched' = Vouched /\ Mails  BY <1>1 DEF Registered, Vouched, Mails
<1>7. SessionsKept' /\ CodesKept' /\ OpenedKept'  BY <1>1, <1>2, <1>6, BesideStays DEF AccountsIInv
<1>8. TicketsKept'
  <2>1. tickets \subseteq TicketRow /\ \A o \in tickets : o.a \in Registered /\ Given(o.token, drawn)  BY DEF AccountsIInv, TicketsKept
  <2>2. drawn <= next  BY <1>2
  <2>3. \A o \in tickets : Given(o.token, next)  BY <1>2, <2>1, <2>2, GivenStays
  <2> QED  BY <1>1, <1>2, <1>3, <1>5, <1>6, <2>1, <2>3 DEF TicketsKept
<1>9. Moves(Idle)  BY <1>1, IdleRequest, KeepRequest DEF AccountsIInv
<1> QED  BY <1>1, <1>2, <1>6, <1>7, <1>8, <1>9, IdleRequest, RequestSteps

-----------------------------------------------------------------------------
(* The invariant holds from the start, and every step keeps it.            *)

LEMMA AccountsStart == ASSUME Init PROVE AccountsIInv
<1>1. PICK p \in Password : users = [a \in Account |-> IF a \in Operator THEN [Blank EXCEPT !.named = TRUE, !.password = p] ELSE None]
  BY DEF Init
<1> DEFINE row == [Blank EXCEPT !.named = TRUE, !.password = p]
<1>2. /\ row \in UserRow /\ row.status = "ACTIVE" /\ row.email = None /\ row.password = p /\ row.confirmation = None /\ row.recovery = None
  BY DEF Blank, UserRow, UserStatus
<1>3. Operator \subseteq Account  BY AccountsAssumption DEF AccountsAssumption
<1>4. users = [a \in Account |-> IF a \in Operator THEN row ELSE None]  BY <1>1
<1> HIDE DEF row
<1>5. Registered = Operator /\ \A a \in Registered : users[a] = row  BY <1>2, <1>3, <1>4, Nothing DEF Registered
<1>6. users \in [Account -> UserRow \cup {None}]  BY <1>2, <1>4
<1>7. /\ confirming \in BOOLEAN /\ drawn = 0 /\ drawn \in Nat /\ letters = {} /\ attempts = {} /\ tickets = {} /\ sessions = {}
      /\ requests = [q \in Request |-> Idle] /\ codes = [m \in Mailbox |-> None]
      /\ opened = [t \in 1 .. 3 * MaxRequests |-> 0]
      /\ identities \in [Subject -> Operator \cup {None}]
  BY DEF Init
<1>8. Shape  BY <1>6, <1>7, IdleRequest DEF Shape
<1>9. Rows
  <2>1. SUFFICES ASSUME NEW a \in Registered PROVE RowOK(a, users[a], Vouched, drawn)  BY DEF Rows
  <2> QED  BY <1>2, <1>5, Nothing DEF RowOK, Given
<1>10. WaysIn  BY <1>2, <1>5, Nothing DEF WaysIn, KeepsWayIn
<1>11. Requests  BY <1>7, IdleRequest DEF Requests
<1>12. Letters  BY <1>7 DEF Letters
<1>13. OwnTokens  BY <1>2, <1>5 DEF OwnTokens
<1>14. Loose  BY <1>2, <1>5 DEF Loose
<1>15. IdentitiesKept  BY <1>3, <1>5, <1>7 DEF IdentitiesKept
<1>16. AttemptsKept /\ TicketsKept /\ SessionsKept  BY <1>7 DEF AttemptsKept, TicketsKept, SessionsKept
<1>17. CodesKept  BY <1>7 DEF CodesKept
<1>18. OpenedKept  BY <1>7 DEF OpenedKept
<1> QED  BY <1>8, <1>9, <1>10, <1>11, <1>12, <1>13, <1>14, <1>15, <1>16, <1>17, <1>18 DEF AccountsIInv

LEMMA HandleKeeps == ASSUME AccountsIInv, NEW q \in Request, Handle(q) PROVE AccountsIInv' /\ ErasedStays
<1>1. CASE settle_sign_in(q) \/ PasswordSession(q) \/ count_failure(q) \/ ReadCount(q) \/ Block(q)
  BY <1>1, SettlesSignIn, OpensPasswordSession, CountsFailure, ReadsCount, Blocks
<1>2. CASE claim_confirmation(q) \/ mail_confirmation(q) \/ SettleConfirmation(q) \/ LetterSession(q)
  BY <1>2, ClaimsConfirmation, MailsConfirmation, SettlesConfirmation, OpensLetterSession
<1>3. CASE settle_password(q) \/ NewSession(q) \/ claim_recovery(q) \/ mail_recovery(q) \/ SpendRecovery(q)
  BY <1>3, SettlesPassword, OpensNewSession, ClaimsRecovery, MailsRecovery, SpendsRecovery
<1>4. CASE settle_account(q) \/ erase(q) \/ disconnect(q) \/ connect(q)  BY <1>4, SettlesAccount, Erases, Disconnects, Connects
<1>5. CASE signed_in(q) \/ read_back(q) \/ create_ticket(q) \/ create_attempt(q)  BY <1>5, SignsThemIn, ReadsBack, InsertsTicket, InsertsAttempt
<1>6. CASE \E m \in Mailbox \cup {None} : social_sign_in(q, m)  BY <1>6, SignsInSocially
<1> QED  BY <1>1, <1>2, <1>3, <1>4, <1>5, <1>6 DEF Handle

LEMMA ReceiveKeeps == ASSUME AccountsIInv, NEW q \in Request, Receive(q) PROVE AccountsIInv' /\ ErasedStays
<1>1. CASE \E a \in Account : (\E p \in Password, panel \in BOOLEAN : sign_in(q, a, p, panel)) \/ resend_confirmation(q, a) \/ start_password_reset(q, a) \/ OperatorWrites(q, a)
  BY <1>1, SignsIn, AsksAgain, ForgetsPassword, OperatorActs
<1>2. CASE \E m \in Mailbox : (\E p \in Password : register(q, m, p)) \/ request_code(q, m) \/ WrongCode(q, m) \/ confirm_code(q, m)
  BY <1>2, Registers, RequestsCode, MissesCode, ConfirmsCode
<1>3. CASE \E l \in letters : confirm_sign_up(q, l) \/ \E p \in Password : confirm_password_reset(q, l, p)
  BY <1>3, AnswersConfirmation, AnswersRecovery
<1>4. CASE \E s \in sessions : \/ (\E m \in Mailbox \cup {None} : load(q, s, "settle account", m)) \/ load(q, s, "erase", None) \/ load(q, s, "disconnect", None)
                               \/ \E old, new \in Password : change_password(q, s, old, new)
  BY <1>4, Loads, AsksNewPassword
<1>5. CASE \E s \in sessions \cup {None}, panel \in BOOLEAN : start_social(q, s, panel)  BY <1>5, StartsSocial
<1>6. CASE \E t \in attempts : social_callback(q, t)  BY <1>6, SocialReturns
<1>7. CASE \E t \in tickets : redeem(q, t)  BY <1>7, RedeemsTicket
<1> QED  BY <1>1, <1>2, <1>3, <1>4, <1>5, <1>6, <1>7 DEF Receive

LEMMA AccountsStep == ASSUME AccountsIInv, [Next]_vars PROVE AccountsIInv' /\ ErasedStays
<1>1. CASE \E q \in Request : Handle(q) \/ Receive(q)  BY <1>1, HandleKeeps, ReceiveKeeps
<1>2. CASE \E a \in Account : TimePasses(a)  BY <1>2, TimeGoesBy
<1>3. CASE \E m \in Mailbox : CodeAges(m)  BY <1>3, CodeGetsOld
<1>4. CASE UNCHANGED vars
  <2>1. /\ UNCHANGED <<confirming, users, identities, codes, attempts, tickets, letters, sessions, requests, proved, opened, drawn>>
        /\ Registered' = Registered /\ Vouched' = Vouched /\ Mails
    BY <1>4 DEF vars, Registered, Vouched, Mails
  <2>2. Moves(Idle)  BY <2>1 DEF Moves, AccountsIInv, Shape
  <2>3. drawn' \in {drawn, drawn + 1} /\ SessionsKept' /\ CodesKept' /\ OpenedKept'  BY <2>1, BesideStays DEF AccountsIInv
  <2> QED  BY <2>1, <2>2, <2>3, IdleRequest, RequestSteps
<1> QED  BY <1>1, <1>2, <1>3, <1>4 DEF Next

\* What Mint adds is the one session it names.
LEMMA MintsOne ==
  ASSUME NEW a, NEW epoch, NEW under, NEW by, Mint(a, epoch, under, by), NEW s, s \in sessions', s \notin sessions
  PROVE  s.a = a /\ s.by = by
BY DEF Mint

LEMMA MintsOpen ==
  ASSUME NEW a, NEW epoch, NEW under, NEW by, Mint(a, epoch, under, by), by = "letter" \/ users'[a].status # "ERASED"
  PROVE  ErasedOpensNothing
<1>1. \A s \in sessions' \ sessions : s.a = a /\ s.by = by  BY MintsOne
<1> QED  BY <1>1 DEF ErasedOpensNothing

\* A session is minted out of a row just inserted, claimed or read back, and only an open one mints.
LEMMA OpenOnesMint == ASSUME AccountsIInv, [Next]_vars PROVE ErasedOpensNothing
<1>1. ASSUME UNCHANGED sessions PROVE ErasedOpensNothing  BY <1>1 DEF ErasedOpensNothing
<1>2. ASSUME NEW q \in Request, Handle(q) PROVE UNCHANGED sessions \/ LetterSession(q) \/ NewSession(q) \/ PasswordSession(q) \/ read_back(q)
  <2>1. CASE settle_sign_in(q) \/ count_failure(q) \/ ReadCount(q) \/ Block(q) \/ claim_confirmation(q) \/ mail_confirmation(q) \/ SettleConfirmation(q)
    BY <2>1 DEF settle_sign_in, count_failure, ReadCount, Block, claim_confirmation, mail_confirmation, SettleConfirmation
  <2>2. CASE settle_password(q) \/ claim_recovery(q) \/ mail_recovery(q) \/ SpendRecovery(q) \/ settle_account(q) \/ erase(q)
    BY <2>2 DEF settle_password, claim_recovery, mail_recovery, SpendRecovery, settle_account, erase
  <2>3. CASE disconnect(q) \/ signed_in(q) \/ create_ticket(q) \/ create_attempt(q) \/ connect(q) \/ \E m \in Mailbox \cup {None} : social_sign_in(q, m)
    BY <2>3 DEF disconnect, signed_in, create_ticket, create_attempt, connect, social_sign_in
  <2> QED  BY <1>2, <2>1, <2>2, <2>3 DEF Handle
<1>3. ASSUME NEW q \in Request, Receive(q) PROVE UNCHANGED sessions \/ \E m \in Mailbox, p \in Password : register(q, m, p)
  BY <1>3 DEF Receive, sign_in, resend_confirmation, start_password_reset, OperatorWrites, request_code, WrongCode, confirm_code, confirm_sign_up,
              confirm_password_reset, load, change_password, start_social, social_callback, redeem
<1>4. ASSUME NEW q \in Request, LetterSession(q) PROVE ErasedOpensNothing  BY <1>4, MintsOpen DEF LetterSession
<1>5. ASSUME NEW q \in Request, NewSession(q) \/ PasswordSession(q) PROVE ErasedOpensNothing
  BY <1>1, <1>5, MintsOpen DEF NewSession, PasswordSession, Answers, MayAnswer
<1>6. ASSUME NEW q \in Request, read_back(q) PROVE ErasedOpensNothing  BY <1>1, <1>6, MintsOpen DEF read_back, Answers, MayAnswer
<1>7. ASSUME NEW q \in Request, NEW m \in Mailbox, NEW p \in Password, register(q, m, p) PROVE ErasedOpensNothing
  <2>1. CASE UNCHANGED sessions  BY <1>1, <2>1
  <2>2. CASE ~UNCHANGED sessions
    <3>1. PICK a \in Account, status \in {"PENDING", "ACTIVE"} : Put(a, [Blank EXCEPT !.email = m, !.password = p, !.status = status]) /\ Mint(a, 0, 0, "signup")
      BY <1>7, <2>2 DEF register
    <3>2. users'[a].status = status  BY <3>1 DEF Put, Blank, AccountsIInv, Shape
    <3> QED  BY <3>1, <3>2, MintsOpen
  <2> QED  BY <2>1, <2>2
<1>8. CASE ~(\E q \in Request : Handle(q) \/ Receive(q))  BY <1>1, <1>8 DEF Next, TimePasses, CodeAges, vars
<1> QED  BY <1>1, <1>2, <1>3, <1>4, <1>5, <1>6, <1>7, <1>8

LEMMA AccountsAlways == Spec => [](AccountsIInv) /\ [][ErasedStays /\ ErasedOpensNothing]_vars
<1>1. Init => AccountsIInv  BY AccountsStart
<1>2. AccountsIInv /\ [Next]_vars => AccountsIInv' /\ [ErasedStays /\ ErasedOpensNothing]_vars  BY AccountsStep, OpenOnesMint
<1> QED  BY <1>1, <1>2, PTL DEF Spec

\* Rows, challenges and sessions keep their shape, and every open account can be signed in to, whatever is connected, disconnected, written and erased at once.
THEOREM AlwaysAWayIn == Spec => []AccountsInv
<1>1. ASSUME AccountsIInv PROVE AccountsInv
  <2>1. AccountsTypeOK  BY <1>1 DEF AccountsIInv, AccountsTypeOK, Shape, IdentitiesKept, CodesKept, SessionsKept, OpenedKept
  <2>2. HasWayIn  BY <1>1 DEF AccountsIInv, WaysIn, HasWayIn
  <2> QED  BY <2>1, <2>2 DEF AccountsInv
<1> QED  BY <1>1, AccountsAlways, PTL

\* Whoever can answer a letter owns the address the answer writes, and with confirm_sign_up on nobody is open under an address nobody vouched for.
THEOREM LettersFindTheirOwner == Spec => []ProofsReachOwner
<1>1. ASSUME AccountsIInv PROVE ProofsReachOwner
  <2>1. LettersReachOwner  BY <1>1 DEF AccountsIInv, Letters, AnswersOwner, LettersReachOwner, Target
  <2>2. AddressIsProved  BY <1>1 DEF AccountsIInv, Rows, RowOK, Vouched, AddressIsProved
  <2> QED  BY <2>1, <2>2 DEF ProofsReachOwner
<1> QED  BY <1>1, AccountsAlways, PTL

\* An erased account stays erased and without address, password or identity, and no request under way when it happened opens a session of it; the letter of a sign-up, which asks nothing again, is the one exception.
THEOREM ErasureIsFinal == Spec => ErasedForGood
<1>1. AccountsIInv' => ErasedIsEmpty'  BY DEF AccountsIInv, Rows, RowOK, Loose, ErasedIsEmpty
<1>2. AccountsIInv' /\ [ErasedStays /\ ErasedOpensNothing]_vars => [ErasedStays /\ ErasedIsEmpty' /\ ErasedOpensNothing]_vars  BY <1>1
<1> QED  BY <1>2, AccountsAlways, PTL DEF ErasedForGood

=============================================================================
