---------------------------- MODULE SessionsProofs ----------------------------
(***************************************************************************)
(* Theorems about what Accounts hands out: as many wrong passwords as      *)
(* allowed block an account, no session outlives the password it was       *)
(* opened under, and a letter, a code, an attempt and a ticket open one    *)
(* session each.  They rest on the invariant of AccountsProofs.            *)
(***************************************************************************)
EXTENDS AccountsProofs

-----------------------------------------------------------------------------
(* What rows, tickets and sessions count.                                  *)

\* Whatever replaces a password moves the epoch with it.
OneEpoch(x) == x.epoch = x.changed

\* The count the database raises misses no wrong password.
Counted(row) == row.fails = row.wrong

\* Requests whose row a session may still be minted from.
Minting == {"verify", "claimed", "change password", "new session", "signed in", "read back", "ticket"}
Judging == {"count", "block"}

\* An account nobody is blocking yet was not guessed at as often as that, or a request that counted is about to block it.
Guarded(a) == (users[a].blocked = "no" /\ users[a].fails >= Attempts) => \E q \in Request : requests[q].a = a /\ requests[q].at \in Judging

Evenly ==
  /\ \A a \in Registered : OneEpoch(users[a]) /\ Counted(users[a]) /\ Guarded(a)
  /\ \A q \in Request : requests[q].at \in Minting => OneEpoch(requests[q].row)
  /\ \A t \in tickets : OneEpoch(t)
  /\ \A s \in sessions : s.by # "letter" => s.epoch = s.under

-----------------------------------------------------------------------------
(* What still opens a session, and under which token.                      *)

Carrying == {"social", "signed in", "read back", "letter session"}

OfLetters == {<<"letter", a, users[a].confirmation>> : a \in {b \in Registered : users[b].confirmation # None}}
OfCodes == {<<"code", m, codes[m].token>> : m \in {n \in Mailbox : codes[n] # None /\ codes[n].live}}
OfAttempts == {<<"attempt", t, t.token>> : t \in attempts}
OfTickets == {<<"ticket", t, t.token>> : t \in tickets}
OfRequests == {<<"request", q, requests[q].token>> : q \in {p \in Request : requests[p].at \in Carrying}}

Openers == OfLetters \cup OfCodes \cup OfAttempts \cup OfTickets \cup OfRequests

\* A token opens at most one thing at a time, and nothing once it opened a session.
SpentOnce ==
  /\ \A h, k \in Openers : h[3] = k[3] => h = k
  /\ \A h \in Openers : h[3] \in DOMAIN opened => opened[h[3]] = 0
  /\ \A t \in DOMAIN opened : opened[t] <= 1 /\ (t > drawn => opened[t] = 0)

SessionsIInv == AccountsIInv /\ Evenly /\ SpentOnce

-----------------------------------------------------------------------------
(* What every step does to the counts.                                     *)

SameCounts(old, new) ==
  new.epoch = old.epoch /\ new.changed = old.changed /\ new.fails = old.fails /\ new.wrong = old.wrong /\ new.blocked = old.blocked

\* What a row that is written may say, when `old` is the row before it.
Unguessed(a, new) ==
  \/ new.fails = 0 \/ new.blocked # "no"
  \/ a \in Registered /\ new.fails = users[a].fails /\ new.blocked = users[a].blocked
  \/ \E p \in Request : requests'[p].a = a /\ requests'[p].at \in Judging

EvenRows == UNCHANGED users \/ \E a \in Account : \E new : Put(a, new) /\ OneEpoch(new) /\ Counted(new) /\ Unguessed(a, new)

EvenRequests ==
  \A p \in Request :
    \/ requests'[p] = requests[p]
    \/ /\ requests'[p].at \in Minting => OneEpoch(requests'[p].row)
       /\ requests[p].at \in Judging =>
            \/ requests'[p].at \in Judging /\ requests'[p].a = requests[p].a
            \/ users'[requests[p].a].blocked # "no" \/ users'[requests[p].a].fails < Attempts

EvenTickets == \A t \in tickets' : t \in tickets \/ OneEpoch(t)
EvenSessions == \A s \in sessions' : s \in sessions \/ s.by = "letter" \/ s.epoch = s.under

Evens == EvenRows /\ EvenRequests /\ EvenTickets /\ EvenSessions

LEMMA EvenStep ==
  ASSUME AccountsIInv, Evenly, Evens
  PROVE  Evenly'
<1>1. Registered \subseteq Account /\ users \in [Account -> UserRow \cup {None}] /\ \A a \in Registered : users[a] \in UserRow
  BY RegisteredRow DEF AccountsIInv, Shape
<1>2. ASSUME NEW b \in Account, b \in Registered'
      PROVE  OneEpoch(users'[b]) /\ Counted(users'[b]) /\ Unguessed(b, users'[b])
  <2>1. CASE UNCHANGED users
    <3>1. b \in Registered  BY <1>2, <2>1 DEF Registered
    <3> QED  BY <2>1, <3>1 DEF Evenly, Unguessed
  <2>2. CASE ~UNCHANGED users
    <3>1. PICK a \in Account : \E new : Put(a, new) /\ OneEpoch(new) /\ Counted(new) /\ Unguessed(a, new)  BY <2>2 DEF Evens, EvenRows
    <3>2. PICK new : Put(a, new) /\ OneEpoch(new) /\ Counted(new) /\ Unguessed(a, new)  BY <3>1
    <3>3. CASE b = a
      <4>1. users'[b] = new  BY <1>1, <3>2, <3>3 DEF Put
      <4> QED  BY <3>2, <3>3, <4>1
    <3>4. CASE b # a
      <4>1. b \in Registered /\ users'[b] = users[b]  BY <1>1, <1>2, <3>2, <3>4 DEF Put, Registered
      <4> QED  BY <4>1 DEF Evenly, Unguessed
    <3> QED  BY <3>3, <3>4
  <2> QED  BY <2>1, <2>2
<1>3. ASSUME NEW b \in Account, b \in Registered', users'[b].blocked = "no", users'[b].fails >= Attempts
      PROVE  \E p \in Request : requests'[p].a = b /\ requests'[p].at \in Judging
  <2>1. Unguessed(b, users'[b])  BY <1>2, <1>3
  <2>2. Attempts \in Nat \ {0}  BY AccountsAssumption DEF AccountsAssumption
  <2>3. users'[b].fails # 0 /\ users'[b].blocked = "no"  BY <1>3, <2>2
  <2>4. CASE \E p \in Request : requests'[p].a = b /\ requests'[p].at \in Judging  BY <2>4
  <2>5. CASE b \in Registered /\ users'[b].fails = users[b].fails /\ users'[b].blocked = users[b].blocked
    <3>1. PICK p \in Request : requests[p].a = b /\ requests[p].at \in Judging  BY <1>3, <2>5 DEF Evenly, Guarded
    <3>2. users'[b].fails \in Nat  BY <1>1, <2>5 DEF UserRow
    <3>3. ~(users'[b].fails < Attempts)  BY <1>3, <2>2, <3>2
    <3>4. requests'[p].a = b /\ requests'[p].at \in Judging  BY <1>3, <3>1, <3>3 DEF Evens, EvenRequests
    <3> QED  BY <3>4
  <2> QED  BY <2>1, <2>3, <2>4, <2>5 DEF Unguessed
<1>4. Registered' \subseteq Account  BY DEF Registered
<1>5. \A a \in Registered' : OneEpoch(users'[a]) /\ Counted(users'[a]) /\ Guarded(a)'  BY <1>2, <1>3, <1>4 DEF Guarded
<1>6. \A q \in Request : requests'[q].at \in Minting => OneEpoch(requests'[q].row)  BY DEF Evens, EvenRequests, Evenly
<1>7. \A t \in tickets' : OneEpoch(t)  BY DEF Evens, EvenTickets, Evenly
<1>8. \A s \in sessions' : s.by # "letter" => s.epoch = s.under  BY DEF Evens, EvenSessions, Evenly
<1> QED  BY <1>5, <1>6, <1>7, <1>8 DEF Evenly

\* A row whose guesses are kept.
LEMMA KeptGuesses ==
  ASSUME Evenly, NEW a \in Registered, a \in Account, NEW new, Put(a, new), OneEpoch(new),
         new.fails = users[a].fails, new.wrong = users[a].wrong, new.blocked = users[a].blocked
  PROVE  EvenRows
BY DEF Evenly, EvenRows, Counted, Unguessed

\* A row that is written with the counts it had.
LEMMA SameRow ==
  ASSUME Evenly, NEW a \in Registered, a \in Account, NEW new, Put(a, new), SameCounts(users[a], new)
  PROVE  EvenRows
BY DEF Evenly, EvenRows, SameCounts, OneEpoch, Counted, Unguessed

\* A row whose guesses are forgotten, or that is new.
LEMMA FreshRow ==
  ASSUME NEW a \in Account, NEW new, Put(a, new), OneEpoch(new), new.fails = 0, new.wrong = 0
  PROVE  EvenRows
BY DEF EvenRows, Counted, Unguessed

\* A request that was not judging a guess moves on.
LEMMA EvenRequest ==
  ASSUME Shape, NEW q \in Request, requests[q].at \notin Judging, NEW r, Keep(q, r), r.at \in Minting => OneEpoch(r.row)
  PROVE  EvenRequests
BY DEF Keep, Shape, EvenRequests

LEMMA EvenRest ==
  ASSUME Shape, NEW q \in Request, requests[q].at \notin Judging, Keep(q, Idle)
  PROVE  EvenRequests
BY IdleRequest, EvenRequest DEF Minting

\* A session minted under the epoch of the password it was opened by.
LEMMA EvenSession ==
  ASSUME NEW a, NEW epoch, NEW under, NEW by, Mint(a, epoch, under, by) \/ UNCHANGED sessions, epoch = under \/ by = "letter"
  PROVE  EvenSessions
<1>1. [a |-> a, epoch |-> epoch, under |-> under, by |-> by].by = by /\ [a |-> a, epoch |-> epoch, under |-> under, by |-> by].epoch = epoch
      /\ [a |-> a, epoch |-> epoch, under |-> under, by |-> by].under = under
  OBVIOUS
<1> QED  BY <1>1 DEF Mint, EvenSessions

LEMMA EvenReset ==
  ASSUME Evenly, NEW a \in Registered, users[a] \in UserRow
  PROVE  OneEpoch(Reset(users[a])) /\ Reset(users[a]).fails = 0 /\ Reset(users[a]).wrong = 0
BY DEF Evenly, OneEpoch, Reset, UserRow

-----------------------------------------------------------------------------
(* Each step keeps the counts.                                             *)

LEMMA EvenAround ==
  ASSUME EvenRows, EvenRequests, tickets' \subseteq tickets, UNCHANGED sessions
  PROVE  Evens
BY DEF Evens, EvenTickets, EvenSessions

\* Steps that write a row, move their request, and drop what they read.
LEMMA EvenWriting ==
  ASSUME AccountsIInv, Evenly, EvenRows, NEW q \in Request, requests[q].at \notin Judging, UNCHANGED sessions, tickets' \subseteq tickets,
         UNCHANGED requests \/ Keep(q, Idle) \/ \E r : Keep(q, r) /\ (r.at \in Minting => OneEpoch(r.row))
  PROVE  Evens
<1>1. EvenRequests
  <2>1. CASE UNCHANGED requests  BY <2>1 DEF EvenRequests, Evenly
  <2>2. CASE Keep(q, Idle)  BY <2>2, EvenRest DEF AccountsIInv
  <2>3. CASE \E r : Keep(q, r) /\ (r.at \in Minting => OneEpoch(r.row))
    <3>1. PICK r : Keep(q, r) /\ (r.at \in Minting => OneEpoch(r.row))  BY <2>3
    <3> QED  BY <3>1, EvenRequest DEF AccountsIInv
  <2> QED  BY <2>1, <2>2, <2>3
<1> QED  BY <1>1, EvenAround

LEMMA EvenReading ==
  ASSUME AccountsIInv, Evenly, NEW q \in Request, requests[q].at \notin Judging, UNCHANGED <<users, sessions>>, tickets' \subseteq tickets,
         UNCHANGED requests \/ Keep(q, Idle) \/ \E r : Keep(q, r) /\ (r.at \in Minting => OneEpoch(r.row))
  PROVE  Evens
BY EvenWriting DEF EvenRows

LEMMA EvenHandlers ==
  ASSUME AccountsIInv, Evenly, NEW q \in Request,
         mail_confirmation(q) \/ mail_recovery(q) \/ connect(q) \/ disconnect(q) \/ create_attempt(q)
  PROVE  Evens
<1>1. requests[q].at \notin Judging  BY DEF mail_confirmation, mail_recovery, connect, disconnect, create_attempt, At, Judging
<1>2. UNCHANGED <<users, sessions, tickets>> /\ Keep(q, Idle)  BY DEF mail_confirmation, mail_recovery, connect, disconnect, create_attempt
<1> QED  BY <1>1, <1>2, EvenReading

\* A request begins with no guess of its own to judge.
LEMMA EvenBegin == ASSUME NEW q \in Request, Begin(q) PROVE requests[q].at \notin Judging
BY DEF Begin, Judging

LEMMA EvenSignsIn == ASSUME AccountsIInv, Evenly, NEW q \in Request, NEW a \in Account, NEW p \in Password, NEW panel \in BOOLEAN, sign_in(q, a, p, panel) PROVE Evens
<1> DEFINE r == [Idle EXCEPT !.at = "verify", !.a = a, !.row = users[a], !.arg = p, !.panel = panel]
<1>1. a \in Registered /\ Keep(q, r) /\ UNCHANGED <<users, sessions, tickets>> /\ requests[q].at \notin Judging  BY EvenBegin DEF sign_in
<1>2. r.row = users[a]  BY DEF Idle
<1> HIDE DEF r
<1>3. OneEpoch(r.row)  BY <1>1, <1>2 DEF Evenly
<1> QED  BY <1>1, <1>3, EvenReading

LEMMA EvenAsksNewPassword == ASSUME AccountsIInv, Evenly, NEW q \in Request, NEW s \in sessions, NEW old \in Password, NEW new \in Password, change_password(q, s, old, new) PROVE Evens
<1> DEFINE r == [Idle EXCEPT !.at = "change password", !.a = s.a, !.row = users[s.a], !.arg = new]
<1>1. Keep(q, r) /\ UNCHANGED <<users, sessions, tickets>> /\ requests[q].at \notin Judging  BY EvenBegin DEF change_password
<1>2. r.row = users[s.a]  BY DEF Idle
<1>3. s.a \in Registered  BY DEF AccountsIInv, SessionsKept
<1> HIDE DEF r
<1>4. OneEpoch(r.row)  BY <1>2, <1>3 DEF Evenly
<1> QED  BY <1>1, <1>4, EvenReading

LEMMA EvenReaders ==
  ASSUME AccountsIInv, Evenly, NEW q \in Request,
         \/ \E a \in Account : resend_confirmation(q, a) \/ start_password_reset(q, a)
         \/ \E m \in Mailbox : request_code(q, m) \/ WrongCode(q, m)
         \/ \E s \in sessions \cup {None}, panel \in BOOLEAN : start_social(q, s, panel)
  PROVE  Evens
<1>1. requests[q].at \notin Judging  BY EvenBegin DEF resend_confirmation, start_password_reset, request_code, WrongCode, start_social
<1>2. UNCHANGED <<users, sessions, tickets>>  BY DEF resend_confirmation, start_password_reset, request_code, WrongCode, start_social
<1>3. ASSUME NEW a \in Account, resend_confirmation(q, a) \/ start_password_reset(q, a) PROVE \E r : Keep(q, r) /\ r.at \notin Minting
  <2> DEFINE r == [Idle EXCEPT !.at = "claim confirmation", !.a = a]
             s == [Idle EXCEPT !.at = "claim recovery", !.a = a]
  <2>1. Keep(q, r) \/ Keep(q, s)  BY <1>3 DEF resend_confirmation, start_password_reset
  <2>2. r.at = "claim confirmation" /\ s.at = "claim recovery"  BY DEF Idle
  <2> HIDE DEF r, s
  <2> QED  BY <2>1, <2>2 DEF Minting
<1>4. ASSUME NEW s \in sessions \cup {None}, NEW panel \in BOOLEAN, start_social(q, s, panel) PROVE \E r : Keep(q, r) /\ r.at \notin Minting
  <2> DEFINE a == IF s = None THEN None ELSE s.a
             row == IF s = None THEN Blank ELSE users[s.a]
             r == [Idle EXCEPT !.at = "start", !.a = a, !.row = row, !.panel = panel]
  <2>1. Keep(q, r)  BY <1>4 DEF start_social
  <2>2. r.at = "start"  BY DEF Idle
  <2> HIDE DEF r
  <2> QED  BY <2>1, <2>2 DEF Minting
<1>5. UNCHANGED requests \/ \E r : Keep(q, r) /\ r.at \notin Minting
  BY <1>3, <1>4 DEF request_code, WrongCode
<1> QED  BY <1>1, <1>2, <1>5, EvenReading

LEMMA EvenLoads == ASSUME AccountsIInv, Evenly, NEW q \in Request, NEW s, NEW place \in {"settle account", "erase", "disconnect"}, NEW arg, load(q, s, place, arg) PROVE Evens
<1> DEFINE r == [Idle EXCEPT !.at = place, !.a = s.a, !.row = users[s.a], !.arg = arg]
<1>1. Keep(q, r) /\ UNCHANGED <<users, sessions, tickets>> /\ requests[q].at \notin Judging  BY EvenBegin DEF load
<1>2. r.at = place  BY DEF Idle
<1> HIDE DEF r
<1> QED  BY <1>1, <1>2, EvenReading DEF Minting

LEMMA EvenAnswers ==
  ASSUME AccountsIInv, Evenly, NEW q \in Request, NEW l \in letters, confirm_sign_up(q, l) \/ \E p \in Password : confirm_password_reset(q, l, p)
  PROVE  Evens
<1>1. requests[q].at \notin Judging /\ UNCHANGED <<users, sessions, tickets>>  BY EvenBegin DEF confirm_sign_up, confirm_password_reset
<1>2. \E r : Keep(q, r) /\ r.at \notin Minting
  <2>1. CASE confirm_sign_up(q, l)
    <3>1. PICK a \in Registered : Keep(q, [Idle EXCEPT !.at = "confirm", !.a = a, !.row = users[a], !.token = l.token, !.arg = l.to])
      BY <2>1 DEF confirm_sign_up
    <3> DEFINE r == [Idle EXCEPT !.at = "confirm", !.a = a, !.row = users[a], !.token = l.token, !.arg = l.to]
    <3>2. r.at = "confirm" /\ Keep(q, r)  BY <3>1 DEF Idle
    <3> HIDE DEF r
    <3> QED  BY <3>2 DEF Minting
  <2>2. CASE \E p \in Password : confirm_password_reset(q, l, p)
    <3>1. PICK p \in Password, a \in Registered : Keep(q, [Idle EXCEPT !.at = "reset", !.a = a, !.token = l.token, !.arg = p, !.row = users[a], !.by = l.to])
      BY <2>2 DEF confirm_password_reset
    <3> DEFINE r == [Idle EXCEPT !.at = "reset", !.a = a, !.token = l.token, !.arg = p, !.row = users[a], !.by = l.to]
    <3>2. r.at = "reset" /\ Keep(q, r)  BY <3>1 DEF Idle
    <3> HIDE DEF r
    <3> QED  BY <3>2 DEF Minting
  <2> QED  BY <2>1, <2>2
<1> QED  BY <1>1, <1>2, EvenReading

LEMMA EvenReturns == ASSUME AccountsIInv, Evenly, NEW q \in Request, NEW t, social_callback(q, t) PROVE Evens
<1>1. requests[q].at \notin Judging /\ UNCHANGED <<users, sessions, tickets>>  BY EvenBegin DEF social_callback
<1>2. UNCHANGED requests \/ \E r : Keep(q, r) /\ r.at \notin Minting
  <2>1. CASE UNCHANGED requests  BY <2>1
  <2>2. CASE ~UNCHANGED requests
    <3> DEFINE place == IF t.a = None THEN "social" ELSE "connect"
    <3>1. PICK s \in Subject : Keep(q, [Idle EXCEPT !.at = place, !.a = t.a, !.arg = s, !.token = t.token, !.row = [Blank EXCEPT !.epoch = t.epoch], !.by = "social", !.panel = t.panel])
      BY <2>2 DEF social_callback
    <3> DEFINE r == [Idle EXCEPT !.at = place, !.a = t.a, !.arg = s, !.token = t.token, !.row = [Blank EXCEPT !.epoch = t.epoch], !.by = "social", !.panel = t.panel]
    <3>2. place \in {"social", "connect"} /\ r.at = place /\ Keep(q, r)  BY <3>1 DEF Idle
    <3> HIDE DEF r, place
    <3> QED  BY <3>2 DEF Minting
  <2> QED  BY <2>1, <2>2
<1> QED  BY <1>1, <1>2, EvenReading

LEMMA EvenRedeems == ASSUME AccountsIInv, Evenly, NEW q \in Request, NEW t \in tickets, redeem(q, t) PROVE Evens
<1> DEFINE row == [users[t.a] EXCEPT !.changed = t.changed]
           r == [Idle EXCEPT !.at = "signed in", !.a = t.a, !.row = row, !.by = "ticket", !.token = t.token, !.panel = TRUE]
<1>1. requests[q].at \notin Judging /\ UNCHANGED <<users, sessions>> /\ tickets' = tickets \ {t}  BY EvenBegin DEF redeem
<1>2. (users[t.a].epoch = t.epoch /\ Keep(q, r)) \/ Keep(q, Idle)  BY DEF redeem
<1>3. users[t.a] \in UserRow /\ t.epoch = t.changed  BY RegisteredRow DEF AccountsIInv, TicketsKept, Evenly, OneEpoch
<1>4. row.epoch = users[t.a].epoch /\ row.changed = t.changed  BY <1>3 DEF UserRow
<1> HIDE DEF row
<1>5. r.row = row  BY DEF Idle
<1> HIDE DEF r
<1>6. Keep(q, Idle) \/ (Keep(q, r) /\ OneEpoch(r.row))  BY <1>2, <1>3, <1>4, <1>5 DEF OneEpoch
<1> QED  BY <1>1, <1>6, EvenReading

-----------------------------------------------------------------------------
(* Steps that write a row.                                                 *)

LEMMA EvenSettlesSignIn == ASSUME AccountsIInv, Evenly, NEW q \in Request, settle_sign_in(q) PROVE Evens
<1> DEFINE a == requests[q].a
           new == Reset(users[a])
           r == [requests[q] EXCEPT !.at = "claimed"]
<1>1. requests[q].at = "verify"  BY DEF settle_sign_in, At
<1>2. requests[q] \in RequestRow /\ a \in Registered /\ a \in Account /\ users[a] \in UserRow  BY <1>1, Finds
<1>3. /\ Put(a, new) \/ UNCHANGED users
      /\ Keep(q, r) \/ Keep(q, Idle)
      /\ UNCHANGED <<sessions, tickets>>
  BY DEF settle_sign_in
<1>4. OneEpoch(requests[q].row)  BY <1>1 DEF Evenly, Minting
<1>5. r.row = requests[q].row  BY <1>2 DEF RequestRow
<1>6. OneEpoch(new) /\ new.fails = 0 /\ new.wrong = 0  BY <1>2, EvenReset
<1> HIDE DEF a, new, r
<1>7. EvenRows
  <2>1. CASE UNCHANGED users  BY <2>1 DEF EvenRows
  <2>2. CASE Put(a, new)  BY <1>2, <1>6, <2>2, FreshRow
  <2> QED  BY <1>3, <2>1, <2>2
<1>8. requests[q].at \notin Judging  BY <1>1 DEF Judging
<1> QED  BY <1>3, <1>4, <1>5, <1>7, <1>8, EvenWriting

LEMMA EvenPasswordSession == ASSUME AccountsIInv, Evenly, NEW q \in Request, PasswordSession(q) PROVE Evens
<1> DEFINE row == requests[q].row
<1>1. requests[q].at = "claimed"  BY DEF PasswordSession, At
<1>2. row.epoch = row.changed  BY <1>1 DEF Evenly, OneEpoch, Minting
<1>3. /\ UNCHANGED <<users, tickets>> /\ Keep(q, Idle)
      /\ UNCHANGED sessions \/ Mint(requests[q].a, row.epoch, row.changed, "password")
  BY DEF PasswordSession
<1> HIDE DEF row
<1>4. EvenSessions  BY <1>2, <1>3, EvenSession
<1>5. EvenRequests  BY <1>1, <1>3, EvenRest DEF AccountsIInv, Judging
<1> QED  BY <1>3, <1>4, <1>5 DEF Evens, EvenRows, EvenTickets

LEMMA EvenCountsFailure == ASSUME AccountsIInv, Evenly, NEW q \in Request, count_failure(q) PROVE Evens
<1> DEFINE a == requests[q].a
           fails == users[a].fails + 1
           wrong == users[a].wrong + 1
           new == [users[a] EXCEPT !.fails = fails, !.wrong = wrong]
           r == [requests[q] EXCEPT !.at = "count"]
<1>1. requests[q].at = "verify"  BY DEF count_failure, At
<1>2. requests[q] \in RequestRow /\ a \in Registered /\ a \in Account /\ users[a] \in UserRow  BY <1>1, Finds
<1>3. Put(a, new) /\ Keep(q, r) /\ UNCHANGED <<sessions, tickets>>  BY DEF count_failure, Raised
<1>4. OneEpoch(users[a]) /\ fails = wrong  BY <1>2 DEF Evenly, Counted
<1> HIDE DEF fails, wrong
<1>5. OneEpoch(new) /\ Counted(new)  BY <1>2, <1>4 DEF UserRow, OneEpoch, Counted
<1>6. r.at = "count" /\ r.a = a  BY <1>2 DEF RequestRow
<1> HIDE DEF new, r, a
<1>7. requests'[q] = r  BY <1>3 DEF Keep, AccountsIInv, Shape
<1>8. EvenRows  BY <1>2, <1>3, <1>5, <1>6, <1>7 DEF EvenRows, Unguessed, Judging
<1>9. EvenRequests  BY <1>1, <1>3, <1>6, EvenRequest DEF AccountsIInv, Judging, Minting
<1> QED  BY <1>3, <1>8, <1>9, EvenAround

LEMMA EvenReadsCount == ASSUME AccountsIInv, Evenly, NEW q \in Request, ReadCount(q) PROVE Evens
<1> DEFINE a == requests[q].a
           r == [requests[q] EXCEPT !.at = "block"]
<1>1. requests[q].at = "count" /\ requests[q] \in RequestRow  BY Finds DEF ReadCount, At
<1>2. UNCHANGED <<users, sessions, tickets>> /\ ((users[a].fails < Attempts /\ Keep(q, Idle)) \/ Keep(q, r))  BY DEF ReadCount
<1>3. r.at = "block" /\ r.a = a  BY <1>1 DEF RequestRow
<1> HIDE DEF r
<1>4. EvenRequests
  <2>1. SUFFICES ASSUME NEW p \in Request, requests'[p] # requests[p]
                 PROVE  /\ requests'[p].at \notin Minting
                        /\ requests[p].at \in Judging => \/ requests'[p].at \in Judging /\ requests'[p].a = requests[p].a
                                                         \/ users'[requests[p].a].fails < Attempts
    BY DEF EvenRequests
  <2>2. p = q  BY <1>2, <2>1 DEF Keep, AccountsIInv, Shape
  <2>3. (requests'[p] = r) \/ (requests'[p] = Idle /\ users[a].fails < Attempts)  BY <1>2, <2>2 DEF Keep, AccountsIInv, Shape
  <2> QED  BY <1>2, <1>3, <2>2, <2>3, IdleRequest DEF Minting, Judging
<1> QED  BY <1>2, <1>4, EvenAround DEF EvenRows

LEMMA EvenBlocks == ASSUME AccountsIInv, Evenly, NEW q \in Request, Block(q) PROVE Evens
<1> DEFINE a == requests[q].a
           new == [users[a] EXCEPT !.blocked = "yes"]
<1>1. requests[q].at = "block"  BY DEF Block, At
<1>2. a \in Registered /\ a \in Account /\ users[a] \in UserRow  BY <1>1, Finds
<1>3. Put(a, new) /\ Keep(q, Idle) /\ UNCHANGED <<sessions, tickets>>  BY DEF Block
<1>4. new.epoch = users[a].epoch /\ new.changed = users[a].changed /\ new.fails = users[a].fails /\ new.wrong = users[a].wrong /\ new.blocked = "yes"
  BY <1>2 DEF UserRow
<1> HIDE DEF new
<1>5. OneEpoch(new) /\ Counted(new)  BY <1>2, <1>4 DEF Evenly, OneEpoch, Counted
<1>6. EvenRows  BY <1>2, <1>3, <1>4, <1>5 DEF EvenRows, Unguessed
<1>7. users'[a] = new  BY <1>2, <1>3 DEF Put, AccountsIInv, Shape
<1>8. EvenRequests
  <2>1. SUFFICES ASSUME NEW p \in Request, requests'[p] # requests[p]
                 PROVE  requests'[p].at \notin Minting /\ users'[requests[p].a].blocked # "no"
    BY DEF EvenRequests
  <2>2. p = q /\ requests'[p] = Idle  BY <1>3, <2>1 DEF Keep, AccountsIInv, Shape
  <2> QED  BY <1>4, <1>7, <2>2, IdleRequest DEF Minting
<1> QED  BY <1>3, <1>6, <1>8, EvenAround

\* A new account was never guessed at.
LEMMA EvenRegisters == ASSUME AccountsIInv, Evenly, NEW q \in Request, NEW m \in Mailbox, NEW p \in Password, register(q, m, p) PROVE Evens
<1>1. requests[q].at \notin Judging /\ UNCHANGED tickets  BY EvenBegin DEF register
<1>2. CASE UNCHANGED <<users, sessions>> /\ Keep(q, Idle)  BY <1>1, <1>2, EvenReading
<1>3. CASE ~(UNCHANGED <<users, sessions>> /\ Keep(q, Idle))
  <2> DEFINE status == IF Asked(m) THEN "PENDING" ELSE "ACTIVE"
             new == [Blank EXCEPT !.email = m, !.password = p, !.status = status]
  <2>1. PICK a \in Account :
          /\ Put(a, new)
          /\ (UNCHANGED sessions /\ Keep(q, [Idle EXCEPT !.at = "claim confirmation", !.a = a])) \/ (Mint(a, 0, 0, "signup") /\ Keep(q, Idle))
    BY <1>3 DEF register
  <2> DEFINE r == [Idle EXCEPT !.at = "claim confirmation", !.a = a]
  <2>2. OneEpoch(new) /\ new.fails = 0 /\ new.wrong = 0  BY DEF Blank, OneEpoch
  <2>3. r.at = "claim confirmation"  BY DEF Idle
  <2>4. Put(a, new) /\ (Keep(q, r) \/ Keep(q, Idle)) /\ (UNCHANGED sessions \/ Mint(a, 0, 0, "signup"))  BY <2>1
  <2> HIDE DEF new, r
  <2>5. EvenRows  BY <2>2, <2>4, FreshRow
  <2>6. EvenRequests
    <3>1. CASE Keep(q, r)  BY <1>1, <2>3, <3>1, EvenRequest DEF AccountsIInv, Minting
    <3>2. CASE Keep(q, Idle)  BY <1>1, <3>2, EvenRest DEF AccountsIInv
    <3> QED  BY <2>4, <3>1, <3>2
  <2>7. EvenSessions  BY <2>4, EvenSession
  <2> QED  BY <1>1, <2>5, <2>6, <2>7 DEF Evens, EvenTickets
<1> QED  BY <1>2, <1>3

LEMMA EvenClaims ==
  ASSUME AccountsIInv, Evenly, NEW q \in Request, claim_confirmation(q) \/ claim_recovery(q)
  PROVE  Evens
<1> DEFINE a == requests[q].a
           next == drawn + 1
           confirms == users[a].held \cup {"confirmation"}
           recovers == users[a].held \cup {"recovery"}
           n == [users[a] EXCEPT !.confirmation = next, !.held = confirms]
           o == [users[a] EXCEPT !.recovery = next, !.held = recovers]
           r == [requests[q] EXCEPT !.at = "mail confirmation"]
           s == [requests[q] EXCEPT !.at = "mail recovery"]
<1>1. requests[q].at \in {"claim confirmation", "claim recovery"}  BY DEF claim_confirmation, claim_recovery, At
<1>2. requests[q] \in RequestRow /\ a \in Registered /\ a \in Account /\ users[a] \in UserRow  BY <1>1, Finds
<1>3. /\ UNCHANGED <<sessions, tickets>>
      /\ (UNCHANGED users /\ Keep(q, Idle)) \/ (Put(a, n) /\ Keep(q, r)) \/ (Put(a, o) /\ Keep(q, s))
  BY DEF claim_confirmation, claim_recovery
<1>4. r.at = "mail confirmation" /\ s.at = "mail recovery"  BY <1>2 DEF RequestRow
<1> HIDE DEF next, confirms, recovers, r, s
<1>5. SameCounts(users[a], n) /\ SameCounts(users[a], o)  BY <1>2 DEF UserRow, SameCounts
<1> HIDE DEF n, o, a
<1>6. EvenRows
  <2>1. CASE UNCHANGED users  BY <2>1 DEF EvenRows
  <2>2. CASE Put(a, n)  BY <1>2, <1>5, <2>2, SameRow
  <2>3. CASE Put(a, o)  BY <1>2, <1>5, <2>3, SameRow
  <2> QED  BY <1>3, <2>1, <2>2, <2>3
<1>7. requests[q].at \notin Judging  BY <1>1 DEF Judging
<1> QED  BY <1>3, <1>4, <1>6, <1>7, EvenWriting DEF Minting

LEMMA EvenSettlesConfirmation == ASSUME AccountsIInv, Evenly, NEW q \in Request, SettleConfirmation(q) PROVE Evens
<1> DEFINE a == requests[q].a
           row == users[a]
           email == Target(row)
           status == IF row.status = "PENDING" THEN "ACTIVE" ELSE row.status
           held == row.held \ (IF requests[q].row.pending # None THEN {"confirmation", "recovery"} ELSE {"confirmation"})
           recovery == IF requests[q].row.pending # None THEN None ELSE row.recovery
           new == [row EXCEPT !.status = status, !.email = email, !.pending = None, !.confirmation = None, !.held = held, !.recovery = recovery]
           r == [requests[q] EXCEPT !.at = "letter session", !.row = row]
<1>1. requests[q].at = "confirm"  BY DEF SettleConfirmation, At
<1>2. requests[q] \in RequestRow /\ a \in Registered /\ a \in Account /\ row \in UserRow  BY <1>1, Finds
<1>3. Put(a, new) \/ UNCHANGED users  BY DEF SettleConfirmation, Target
<1>4. (Keep(q, r) \/ Keep(q, Idle)) /\ UNCHANGED <<sessions, tickets>>  BY DEF SettleConfirmation
<1>5. r.at = "letter session"  BY <1>2 DEF RequestRow
<1> HIDE DEF email, status, held, recovery, r
<1>6. SameCounts(users[a], new)  BY <1>2 DEF UserRow, SameCounts
<1> HIDE DEF new, row, a
<1>7. EvenRows
  <2>1. CASE UNCHANGED users  BY <2>1 DEF EvenRows
  <2>2. CASE Put(a, new)  BY <1>2, <1>6, <2>2, SameRow
  <2> QED  BY <1>3, <2>1, <2>2
<1>8. requests[q].at \notin Judging  BY <1>1 DEF Judging
<1> QED  BY <1>4, <1>5, <1>7, <1>8, EvenWriting DEF Minting

LEMMA EvenLetterSession == ASSUME AccountsIInv, Evenly, NEW q \in Request, LetterSession(q) PROVE Evens
<1> DEFINE a == requests[q].a
<1>1. requests[q].at = "letter session"  BY DEF LetterSession, At
<1>2. Mint(a, users[a].epoch, requests[q].row.changed, "letter") /\ Keep(q, Idle) /\ UNCHANGED <<users, tickets>>  BY DEF LetterSession
<1>3. EvenSessions  BY <1>2, EvenSession
<1>4. EvenRequests  BY <1>1, <1>2, EvenRest DEF AccountsIInv, Judging
<1> QED  BY <1>2, <1>3, <1>4 DEF Evens, EvenRows, EvenTickets

LEMMA EvenSettlesAccount == ASSUME AccountsIInv, Evenly, NEW q \in Request, settle_account(q) PROVE Evens
<1> DEFINE a == requests[q].a
           m == requests[q].arg
           n == WaitingLink(users[a], m)
           o == prepare(users[a], m)
           r == [Idle EXCEPT !.at = "claim confirmation", !.a = a]
<1>1. requests[q].at = "settle account"  BY DEF settle_account, At
<1>2. a \in Registered /\ a \in Account /\ users[a] \in UserRow  BY <1>1, Finds
<1>3. /\ UNCHANGED users \/ Put(a, n) \/ Put(a, o)
      /\ (Keep(q, r) \/ Keep(q, Idle)) /\ UNCHANGED <<sessions, tickets>>
  BY DEF settle_account
<1>4. r.at = "claim confirmation"  BY DEF Idle
<1> HIDE DEF m, r
<1>5. SameCounts(users[a], n) /\ SameCounts(users[a], o)  BY <1>2 DEF UserRow, SameCounts, WaitingLink, prepare
<1> HIDE DEF n, o, a
<1>6. EvenRows
  <2>1. CASE UNCHANGED users  BY <2>1 DEF EvenRows
  <2>2. CASE Put(a, n)  BY <1>2, <1>5, <2>2, SameRow
  <2>3. CASE Put(a, o)  BY <1>2, <1>5, <2>3, SameRow
  <2> QED  BY <1>3, <2>1, <2>2, <2>3
<1>7. requests[q].at \notin Judging  BY <1>1 DEF Judging
<1> QED  BY <1>3, <1>4, <1>6, <1>7, EvenWriting DEF Minting

\* A password that is replaced keeps the count of the guesses.
LEMMA EvenPassword ==
  ASSUME AccountsIInv, Evenly, NEW a \in Registered, NEW p \in Password, Put(a, password_changes(users[a], p))
  PROVE  EvenRows
<1> DEFINE new == password_changes(users[a], p)
<1>1. a \in Account /\ users[a] \in UserRow /\ OneEpoch(users[a])  BY RegisteredRow DEF AccountsIInv, Evenly
<1>2. /\ new.epoch = users[a].epoch + 1 /\ new.changed = users[a].changed + 1
      /\ new.fails = users[a].fails /\ new.wrong = users[a].wrong /\ new.blocked = users[a].blocked
  BY <1>1, PasswordRow
<1>3. Put(a, new)  OBVIOUS
<1> HIDE DEF new
<1>4. OneEpoch(new)  BY <1>1, <1>2 DEF OneEpoch
<1> QED  BY <1>1, <1>2, <1>3, <1>4, KeptGuesses

LEMMA EvenSettlesPassword == ASSUME AccountsIInv, Evenly, NEW q \in Request, settle_password(q) PROVE Evens
<1> DEFINE a == requests[q].a
           r == [requests[q] EXCEPT !.at = "new session"]
<1>1. requests[q].at = "change password"  BY DEF settle_password, At
<1>2. requests[q] \in RequestRow /\ a \in Registered /\ requests[q].arg \in Password /\ OneEpoch(requests[q].row)
  BY <1>1, Finds DEF RequestOK, Evenly, Minting
<1>3. /\ (Put(a, password_changes(users[a], requests[q].arg)) /\ Keep(q, r)) \/ (UNCHANGED users /\ Keep(q, Idle))
      /\ UNCHANGED <<sessions, tickets>>
  BY DEF settle_password
<1>4. r.row = requests[q].row  BY <1>2 DEF RequestRow
<1> HIDE DEF r, a
<1>5. EvenRows
  <2>1. CASE UNCHANGED users  BY <2>1 DEF EvenRows
  <2>2. CASE Put(a, password_changes(users[a], requests[q].arg))  BY <1>2, <2>2, EvenPassword
  <2> QED  BY <1>3, <2>1, <2>2
<1>6. requests[q].at \notin Judging  BY <1>1 DEF Judging
<1> QED  BY <1>2, <1>3, <1>4, <1>5, <1>6, EvenWriting

LEMMA EvenNewSession == ASSUME AccountsIInv, Evenly, NEW q \in Request, NewSession(q) PROVE Evens
<1> DEFINE a == requests[q].a
           under == requests[q].row.changed + 1
<1>1. requests[q].at = "new session"  BY DEF NewSession, At
<1>2. requests[q].row.epoch = requests[q].row.changed  BY <1>1 DEF Evenly, OneEpoch, Minting
<1>3. UNCHANGED <<users, tickets>> /\ Keep(q, Idle)
      /\ (UNCHANGED sessions \/ (users[a].epoch = requests[q].row.epoch + 1 /\ Mint(a, users[a].epoch, under, "password")))
  BY DEF NewSession
<1>4. EvenSessions  BY <1>2, <1>3, EvenSession
<1>5. EvenRequests  BY <1>1, <1>3, EvenRest DEF AccountsIInv, Judging
<1> QED  BY <1>3, <1>4, <1>5 DEF Evens, EvenRows, EvenTickets

LEMMA EvenErases == ASSUME AccountsIInv, Evenly, NEW q \in Request, erase(q) PROVE Evens
<1> DEFINE a == requests[q].a
           new == [users[a] EXCEPT !.status = "ERASED", !.email = None, !.pending = None, !.password = None, !.confirmation = None, !.recovery = None, !.held = {}]
<1>1. requests[q].at = "erase"  BY DEF erase, At
<1>2. a \in Registered /\ a \in Account /\ users[a] \in UserRow  BY <1>1, Finds
<1>3. UNCHANGED users \/ Put(a, new)  BY DEF erase
<1>4. Keep(q, Idle) /\ UNCHANGED sessions /\ tickets' \subseteq tickets  BY DEF erase
<1>5. SameCounts(users[a], new)  BY <1>2 DEF UserRow, SameCounts
<1> HIDE DEF new, a
<1>6. EvenRows
  <2>1. CASE UNCHANGED users  BY <2>1 DEF EvenRows
  <2>2. CASE Put(a, new)  BY <1>2, <1>5, <2>2, SameRow
  <2> QED  BY <1>3, <2>1, <2>2
<1>7. requests[q].at \notin Judging  BY <1>1 DEF Judging
<1> QED  BY <1>4, <1>6, <1>7, EvenWriting

LEMMA EvenSpendsRecovery == ASSUME AccountsIInv, Evenly, NEW q \in Request, SpendRecovery(q) PROVE Evens
<1> DEFINE a == requests[q].a
           changed == password_changes(users[a], requests[q].arg)
           status == IF changed.status = "PENDING" THEN "ACTIVE" ELSE changed.status
           held == changed.held \ {"confirmation"}
           base == [changed EXCEPT !.status = status, !.confirmation = None, !.held = held]
           new == Reset(base)
<1>1. requests[q].at = "reset"  BY DEF SpendRecovery, At
<1>2. a \in Registered /\ a \in Account /\ users[a] \in UserRow /\ OneEpoch(users[a]) /\ requests[q].arg \in Password
  BY <1>1, Finds DEF RequestOK, Evenly
<1>3. Put(a, new) \/ UNCHANGED users  BY DEF SpendRecovery
<1>4. Keep(q, Idle) /\ UNCHANGED <<sessions, tickets>>  BY DEF SpendRecovery
<1>5. changed \in UserRow /\ changed.epoch = users[a].epoch + 1 /\ changed.changed = users[a].changed + 1  BY <1>2, PasswordRow
<1> HIDE DEF changed, status, held, a
<1>6. base.epoch = changed.epoch /\ base.changed = changed.changed /\ DOMAIN base = DOMAIN Blank  BY <1>5 DEF UserRow, Blank
<1>7. new.epoch = base.epoch /\ new.changed = base.changed /\ new.fails = 0 /\ new.wrong = 0  BY <1>5 DEF Reset, UserRow
<1> HIDE DEF base, new
<1>8. OneEpoch(new)  BY <1>2, <1>5, <1>6, <1>7 DEF OneEpoch
<1>9. EvenRows
  <2>1. CASE UNCHANGED users  BY <2>1 DEF EvenRows
  <2>2. CASE Put(a, new)  BY <1>2, <1>7, <1>8, <2>2, FreshRow
  <2> QED  BY <1>3, <2>1, <2>2
<1>10. requests[q].at \notin Judging  BY <1>1 DEF Judging
<1> QED  BY <1>4, <1>9, <1>10, EvenWriting

LEMMA EvenConfirmsCode == ASSUME AccountsIInv, Evenly, NEW q \in Request, NEW m \in Mailbox, confirm_code(q, m) PROVE Evens
<1> DEFINE row(a) == IF Of(m) = {} THEN [Blank EXCEPT !.email = m] ELSE IF users[a].status = "PENDING" THEN Proven(users[a]) ELSE users[a]
<1>1. requests[q].at \notin Judging /\ UNCHANGED <<sessions, tickets>>  BY EvenBegin DEF confirm_code
<1>2. PICK a \in Account :
        /\ IF Of(m) # {} THEN a \in Of(m) ELSE Next_id(a)
        /\ Put(a, row(a)) /\ Keep(q, [Idle EXCEPT !.at = "signed in", !.a = a, !.row = row(a), !.by = "code", !.token = codes[m].token])
  BY DEF confirm_code
<1> DEFINE new == row(a)
           r == [Idle EXCEPT !.at = "signed in", !.a = a, !.row = new, !.by = "code", !.token = codes[m].token]
<1>3. Put(a, new) /\ Keep(q, r)  BY <1>2
<1>4. r.row = new  BY DEF Idle
<1>5. CASE Of(m) = {}
  <2>1. OneEpoch(new) /\ new.fails = 0 /\ new.wrong = 0  BY <1>5 DEF Blank, OneEpoch
  <2> HIDE DEF new, r
  <2>2. EvenRows  BY <1>3, <2>1, FreshRow
  <2> QED  BY <1>1, <1>3, <1>4, <2>1, <2>2, EvenWriting
<1>6. CASE Of(m) # {}
  <2>1. a \in Registered /\ users[a] \in UserRow  BY <1>2, <1>6, RegisteredRow DEF Of, AccountsIInv
  <2>2. OneEpoch(users[a])  BY <2>1 DEF Evenly
  <2>3. OneEpoch(new) /\ new.fails = users[a].fails /\ new.wrong = users[a].wrong /\ new.blocked = users[a].blocked
    <3>1. CASE users[a].status = "PENDING"
      <4> DEFINE changed == users[a].changed + 1
                 epoch == users[a].epoch + 1
                 opening == [users[a] EXCEPT !.status = "ACTIVE", !.password = None, !.changed = changed, !.epoch = epoch, !.confirmation = None, !.recovery = None, !.held = {}]
      <4>1. new = opening  BY <1>6, <3>1 DEF Proven
      <4>2. changed = epoch  BY <2>2 DEF OneEpoch
      <4> HIDE DEF changed, epoch
      <4>3. opening.epoch = epoch /\ opening.changed = changed /\ opening.fails = users[a].fails /\ opening.wrong = users[a].wrong /\ opening.blocked = users[a].blocked
        BY <2>1 DEF UserRow
      <4> HIDE DEF opening, new
      <4> QED  BY <4>1, <4>2, <4>3 DEF OneEpoch
    <3>2. CASE users[a].status # "PENDING"  BY <1>6, <2>2, <3>2
    <3> QED  BY <3>1, <3>2
  <2> HIDE DEF new, r
  <2>4. EvenRows  BY <1>3, <2>1, <2>3, KeptGuesses
  <2> QED  BY <1>1, <1>3, <1>4, <2>3, <2>4, EvenWriting
<1> QED  BY <1>5, <1>6

\* Whoever signs in by anything but a password is claimed under the epoch that was read with it.
LEMMA EvenSignedIn == ASSUME AccountsIInv, Evenly, NEW q \in Request, signed_in(q) PROVE Evens
<1> DEFINE a == requests[q].a
           new == Reset(users[a])
           r == [requests[q] EXCEPT !.at = "read back"]
<1>1. requests[q].at = "signed in"  BY DEF signed_in, At
<1>2. requests[q] \in RequestRow /\ a \in Registered /\ a \in Account /\ users[a] \in UserRow  BY <1>1, Finds
<1>3. /\ Put(a, new) \/ UNCHANGED users
      /\ Keep(q, r) \/ Keep(q, Idle)
      /\ UNCHANGED <<sessions, tickets>>
  BY DEF signed_in
<1>4. OneEpoch(requests[q].row)  BY <1>1 DEF Evenly, Minting
<1>5. r.row = requests[q].row  BY <1>2 DEF RequestRow
<1>6. OneEpoch(new) /\ new.fails = 0 /\ new.wrong = 0  BY <1>2, EvenReset
<1> HIDE DEF a, new, r
<1>7. EvenRows
  <2>1. CASE UNCHANGED users  BY <2>1 DEF EvenRows
  <2>2. CASE Put(a, new)  BY <1>2, <1>6, <2>2, FreshRow
  <2> QED  BY <1>3, <2>1, <2>2
<1>8. requests[q].at \notin Judging  BY <1>1 DEF Judging
<1> QED  BY <1>3, <1>4, <1>5, <1>7, <1>8, EvenWriting

\* A session is minted, or a ticket about to be inserted, under that epoch.
LEMMA EvenReadsBack == ASSUME AccountsIInv, Evenly, NEW q \in Request, read_back(q) PROVE Evens
<1> DEFINE row == requests[q].row
           r == [requests[q] EXCEPT !.at = "ticket"]
<1>1. requests[q].at = "read back"  BY DEF read_back, At
<1>2. requests[q] \in RequestRow  BY <1>1, Finds
<1>3. OneEpoch(row) /\ row.epoch = row.changed  BY <1>1 DEF Evenly, OneEpoch, Minting
<1>4. /\ UNCHANGED <<users, tickets>> /\ (Keep(q, r) \/ Keep(q, Idle))
      /\ UNCHANGED sessions \/ Mint(requests[q].a, row.epoch, row.changed, requests[q].by)
  BY DEF read_back
<1>5. r.row = row  BY <1>2 DEF RequestRow
<1> HIDE DEF row, r
<1>6. EvenSessions  BY <1>3, <1>4, EvenSession
<1>7. requests[q].at \notin Judging  BY <1>1 DEF Judging
<1>8. EvenRequests
  <2>1. CASE Keep(q, r)  BY <1>3, <1>5, <1>7, <2>1, EvenRequest DEF AccountsIInv
  <2>2. CASE Keep(q, Idle)  BY <1>7, <2>2, EvenRest DEF AccountsIInv
  <2> QED  BY <1>4, <2>1, <2>2
<1> QED  BY <1>4, <1>6, <1>8 DEF Evens, EvenRows, EvenTickets

LEMMA EvenInsertsTicket == ASSUME AccountsIInv, Evenly, NEW q \in Request, create_ticket(q) PROVE Evens
<1> DEFINE row == requests[q].row
           t == [token |-> drawn + 1, a |-> requests[q].a, epoch |-> row.epoch, changed |-> row.changed]
<1>1. requests[q].at = "ticket"  BY DEF create_ticket, At
<1>2. row.epoch = row.changed  BY <1>1 DEF Evenly, OneEpoch, Minting
<1>3. tickets' = tickets \cup {t} /\ Keep(q, Idle) /\ UNCHANGED <<users, sessions>>  BY DEF create_ticket
<1>4. OneEpoch(t)  BY <1>2 DEF OneEpoch
<1> HIDE DEF t, row
<1>5. EvenRequests  BY <1>1, <1>3, EvenRest DEF AccountsIInv, Judging
<1> QED  BY <1>3, <1>4, <1>5 DEF Evens, EvenRows, EvenTickets, EvenSessions

LEMMA EvenSignsInSocially == ASSUME AccountsIInv, Evenly, NEW q \in Request, NEW m \in Mailbox \cup {None}, social_sign_in(q, m) PROVE Evens
<1> DEFINE s == requests[q].arg
           b == identities[s]
           known == [requests[q] EXCEPT !.at = "signed in", !.a = b, !.row = users[b]]
           new == [Blank EXCEPT !.email = m, !.named = m = None]
<1>1. requests[q].at = "social"  BY DEF social_sign_in, At
<1>2. requests[q] \in RequestRow /\ requests[q].at \notin Judging /\ s \in Subject  BY <1>1, Finds DEF RequestOK, Judging
<1>3. UNCHANGED <<sessions, tickets>>  BY DEF social_sign_in
<1>4. CASE b # None
  <2>1. Keep(q, known) /\ UNCHANGED users  BY <1>4 DEF social_sign_in
  <2>2. b \in Registered  BY <1>2, <1>4 DEF AccountsIInv, IdentitiesKept
  <2>3. known.row = users[b]  BY <1>2 DEF RequestRow
  <2> HIDE DEF known, b
  <2>4. OneEpoch(known.row)  BY <2>2, <2>3 DEF Evenly
  <2> QED  BY <1>2, <1>3, <2>1, <2>4, EvenReading
<1>5. CASE b = None
  <2>1. CASE Keep(q, Idle) /\ UNCHANGED users  BY <1>2, <1>3, <2>1, EvenReading
  <2>2. CASE ~(Keep(q, Idle) /\ UNCHANGED users)
    <3>1. PICK a \in Account : Put(a, new) /\ Keep(q, [requests[q] EXCEPT !.at = "signed in", !.a = a, !.row = new])
      BY <1>5, <2>2 DEF social_sign_in
    <3> DEFINE r == [requests[q] EXCEPT !.at = "signed in", !.a = a, !.row = new]
    <3>2. r.row = new /\ Keep(q, r) /\ Put(a, new)  BY <1>2, <3>1 DEF RequestRow
    <3>3. OneEpoch(new) /\ new.fails = 0 /\ new.wrong = 0  BY DEF Blank, OneEpoch
    <3> HIDE DEF r, new
    <3>4. EvenRows  BY <3>2, <3>3, FreshRow
    <3> QED  BY <1>2, <1>3, <3>2, <3>3, <3>4, EvenWriting
  <2> QED  BY <2>1, <2>2
<1> QED  BY <1>4, <1>5

LEMMA EvenOperator == ASSUME AccountsIInv, Evenly, NEW q \in Request, NEW a \in Account, OperatorWrites(q, a) PROVE Evens
<1>1. a \in Registered /\ users[a] \in UserRow /\ requests[q].at \notin Judging  BY RegisteredRow, EvenBegin DEF OperatorWrites, AccountsIInv
<1>2. UNCHANGED <<requests, sessions, tickets>>  BY DEF OperatorWrites
<1>3. EvenRows
  <2>1. ASSUME NEW status, Put(a, [users[a] EXCEPT !.status = status])
        PROVE  EvenRows
    <3> DEFINE new == [users[a] EXCEPT !.status = status]
    <3>1. SameCounts(users[a], new) /\ Put(a, new)  BY <1>1, <2>1 DEF UserRow, SameCounts
    <3> HIDE DEF new
    <3> QED  BY <1>1, <3>1, SameRow
  <2>2. ASSUME NEW m, Put(a, prepare(users[a], m))
        PROVE  EvenRows
    <3> DEFINE new == prepare(users[a], m)
    <3>1. SameCounts(users[a], new) /\ Put(a, new)  BY <1>1, <2>2 DEF UserRow, SameCounts, prepare
    <3> HIDE DEF new
    <3> QED  BY <1>1, <3>1, SameRow
  <2> QED  BY <1>1, <2>1, <2>2, EvenPassword DEF OperatorWrites
<1> QED  BY <1>1, <1>2, <1>3, EvenWriting

LEMMA EvenTime == ASSUME AccountsIInv, Evenly, NEW a \in Account, TimePasses(a) PROVE Evens
<1> DEFINE n == [users[a] EXCEPT !.held = {}]
           o == [users[a] EXCEPT !.blocked = "over"]
<1>1. a \in Registered /\ users[a] \in UserRow  BY RegisteredRow DEF TimePasses, AccountsIInv
<1>2. (Put(a, n) \/ Put(a, o)) /\ UNCHANGED <<requests, sessions, tickets>>  BY DEF TimePasses
<1>3. /\ SameCounts(users[a], n)
      /\ o.epoch = users[a].epoch /\ o.changed = users[a].changed /\ o.fails = users[a].fails /\ o.wrong = users[a].wrong /\ o.blocked = "over"
  BY <1>1 DEF UserRow, SameCounts
<1> HIDE DEF n, o
<1>4. EvenRows
  <2>1. CASE Put(a, n)  BY <1>1, <1>3, <2>1, SameRow
  <2>2. CASE Put(a, o)
    <3>1. OneEpoch(o) /\ Counted(o)  BY <1>1, <1>3 DEF Evenly, OneEpoch, Counted
    <3> QED  BY <1>3, <2>2, <3>1 DEF EvenRows, Unguessed
  <2> QED  BY <1>2, <2>1, <2>2
<1>5. EvenRequests  BY <1>2 DEF EvenRequests
<1> QED  BY <1>2, <1>4, <1>5, EvenAround

-----------------------------------------------------------------------------
(* Guessing blocks.                                                        *)

LEMMA EvenStart == ASSUME Init PROVE Evenly
<1>1. \A a \in Account : users[a] # None => users[a].epoch = 0 /\ users[a].changed = 0 /\ users[a].fails = 0 /\ users[a].wrong = 0
  BY DEF Init, Blank
<1>2. requests = [q \in Request |-> Idle] /\ tickets = {} /\ sessions = {}  BY DEF Init
<1>3. \A q \in Request : requests[q].at = "idle"  BY <1>2, IdleRequest
<1>4. ~(0 >= Attempts)  BY AccountsAssumption DEF AccountsAssumption
<1> QED  BY <1>1, <1>2, <1>3, <1>4 DEF Evenly, OneEpoch, Counted, Guarded, Registered, Minting

LEMMA EvenHandle == ASSUME AccountsIInv, Evenly, NEW q \in Request, Handle(q) PROVE Evens
BY EvenSettlesSignIn, EvenPasswordSession, EvenReadsBack, EvenInsertsTicket, EvenCountsFailure, EvenReadsCount, EvenBlocks, EvenClaims, EvenHandlers, EvenSettlesConfirmation, EvenLetterSession,
   EvenSettlesPassword, EvenNewSession, EvenSpendsRecovery, EvenSettlesAccount, EvenErases, EvenSignedIn, EvenSignsInSocially
DEF Handle

LEMMA EvenReceive == ASSUME AccountsIInv, Evenly, NEW q \in Request, Receive(q) PROVE Evens
<1>1. ASSUME NEW a \in Account, (\E p \in Password, panel \in BOOLEAN : sign_in(q, a, p, panel)) \/ resend_confirmation(q, a) \/ start_password_reset(q, a) \/ OperatorWrites(q, a)
      PROVE  Evens
  BY <1>1, EvenSignsIn, EvenReaders, EvenOperator
<1>2. ASSUME NEW m \in Mailbox, (\E p \in Password : register(q, m, p)) \/ request_code(q, m) \/ WrongCode(q, m) \/ confirm_code(q, m)
      PROVE  Evens
  BY <1>2, EvenRegisters, EvenReaders, EvenConfirmsCode
<1>3. ASSUME NEW l \in letters, confirm_sign_up(q, l) \/ \E p \in Password : confirm_password_reset(q, l, p)
      PROVE  Evens
  BY <1>3, EvenAnswers
<1>4. ASSUME NEW s \in sessions,
             \/ (\E m \in Mailbox \cup {None} : load(q, s, "settle account", m)) \/ load(q, s, "erase", None) \/ load(q, s, "disconnect", None)
             \/ \E old, new \in Password : change_password(q, s, old, new)
      PROVE  Evens
  BY <1>4, EvenLoads, EvenAsksNewPassword
<1>5. ASSUME NEW s \in sessions \cup {None}, NEW panel \in BOOLEAN, start_social(q, s, panel)
      PROVE  Evens
  BY <1>5, EvenReaders
<1> QED  BY <1>1, <1>2, <1>3, <1>4, <1>5, EvenReturns, EvenRedeems DEF Receive

LEMMA EvenNext == ASSUME AccountsIInv, Evenly, [Next]_vars PROVE Evenly'
<1>1. CASE UNCHANGED vars
  <2>1. Evens  BY <1>1 DEF vars, Evens, EvenRows, EvenRequests, EvenTickets, EvenSessions
  <2> QED  BY <2>1, EvenStep
<1>2. CASE Next
  <2>1. ASSUME NEW m \in Mailbox, CodeAges(m)
        PROVE  Evens
    BY <2>1 DEF CodeAges, Evens, EvenRows, EvenRequests, EvenTickets, EvenSessions
  <2>2. Evens  BY <1>2, <2>1, EvenHandle, EvenReceive, EvenTime DEF Next
  <2> QED  BY <2>2, EvenStep
<1> QED  BY <1>1, <1>2

\* The counts stay even, and with them what rows, requests, tickets and sessions remember of the password.
LEMMA EvenAlways == Spec => []Evenly
<1>1. Init => AccountsIInv /\ Evenly  BY AccountsStart, EvenStart
<1>2. AccountsIInv /\ Evenly /\ [Next]_vars => (AccountsIInv /\ Evenly)'  BY AccountsStep, EvenNext
<1> QED  BY <1>1, <1>2, PTL DEF Spec

\* However many wrong passwords arrive together, and whatever else is written to the row meanwhile, as many as allowed block the account (auth_service.record_failed_sign_in).
THEOREM GuessingIsBlocked == Spec => []GuessingBlocks
<1>1. Evenly => GuessingBlocks  BY DEF Evenly, GuessingBlocks, Counted, Guarded, Judging
<1> QED  BY <1>1, EvenAlways, PTL

-----------------------------------------------------------------------------
(* What every step does to what opens a session.                           *)

LEMMA OpenerDrawn ==
  ASSUME AccountsIInv, NEW h \in Openers
  PROVE  h[3] \in Nat /\ h[3] \in 1 .. drawn /\ drawn \in Nat
<1>1. drawn \in Nat /\ \A t \in Nat : Given(t, drawn) => t \in 1 .. drawn  BY Nothing DEF AccountsIInv, Shape, Given
<1>2. CASE h \in OfLetters
  <2>1. PICK a \in Registered : users[a].confirmation # None /\ h = <<"letter", a, users[a].confirmation>>  BY <1>2 DEF OfLetters
  <2>2. users[a] \in UserRow /\ Given(users[a].confirmation, drawn)  BY RegisteredRow DEF AccountsIInv, Rows, RowOK
  <2> QED  BY <1>1, <2>1, <2>2 DEF UserRow
<1>3. CASE h \in OfCodes
  <2>1. PICK m \in Mailbox : codes[m] # None /\ h = <<"code", m, codes[m].token>>  BY <1>3 DEF OfCodes
  <2>2. codes[m] \in Challenge /\ Given(codes[m].token, drawn)  BY <2>1 DEF AccountsIInv, CodesKept
  <2> QED  BY <1>1, <2>1, <2>2 DEF Challenge
<1>4. CASE h \in OfAttempts
  <2>1. PICK t \in attempts : h = <<"attempt", t, t.token>>  BY <1>4 DEF OfAttempts
  <2>2. t \in AttemptRow /\ Given(t.token, drawn)  BY DEF AccountsIInv, AttemptsKept
  <2> QED  BY <1>1, <2>1, <2>2 DEF AttemptRow
<1>5. CASE h \in OfTickets
  <2>1. PICK t \in tickets : h = <<"ticket", t, t.token>>  BY <1>5 DEF OfTickets
  <2>2. t \in TicketRow /\ Given(t.token, drawn)  BY DEF AccountsIInv, TicketsKept
  <2> QED  BY <1>1, <2>1, <2>2 DEF TicketRow
<1>6. CASE h \in OfRequests
  <2>1. PICK q \in Request : requests[q].at \in Carrying /\ h = <<"request", q, requests[q].token>>  BY <1>6 DEF OfRequests
  <2>2. requests[q] \in RequestRow /\ Given(requests[q].token, drawn) /\ requests[q].token # None  BY <2>1, Finds DEF RequestOK, Carrying
  <2> QED  BY <1>1, <2>1, <2>2 DEF RequestRow
<1> QED  BY <1>2, <1>3, <1>4, <1>5, <1>6 DEF Openers

\* Nothing new opens a session, and none was opened.
LEMMA OnceKept ==
  ASSUME AccountsIInv, SpentOnce, UNCHANGED opened, drawn' \in {drawn, drawn + 1}, Openers' \subseteq Openers
  PROVE  SpentOnce'
<1>1. drawn \in Nat /\ drawn' \in Nat /\ DOMAIN opened \subseteq Nat  BY DEF AccountsIInv, Shape, OpenedKept
<1>2. \A t \in DOMAIN opened : t > drawn' => t > drawn  BY <1>1
<1> QED  BY <1>2 DEF SpentOnce

\* One more thing opens one, under a token nobody drew before.
LEMMA OnceDrawn ==
  ASSUME AccountsIInv, SpentOnce, UNCHANGED opened, drawn' = drawn + 1, NEW k, k[3] = drawn + 1, Openers' \subseteq Openers \cup {k}
  PROVE  SpentOnce'
<1>1. drawn \in Nat /\ drawn' \in Nat /\ DOMAIN opened \subseteq Nat  BY DEF AccountsIInv, Shape, OpenedKept
<1>2. \A h \in Openers : h[3] \in 1 .. drawn  BY OpenerDrawn
<1>3. \A h \in Openers : h[3] # k[3]  BY <1>1, <1>2
<1>4. \A t \in DOMAIN opened : (t > drawn' => t > drawn) /\ (t = k[3] => t > drawn)  BY <1>1
<1>5. \A h, i \in Openers' : h[3] = i[3] => h = i  BY <1>3 DEF SpentOnce
<1>6. \A h \in Openers' : h[3] \in DOMAIN opened => opened[h[3]] = 0  BY <1>4 DEF SpentOnce
<1>7. \A t \in DOMAIN opened : opened[t] <= 1 /\ (t > drawn' => opened[t] = 0)  BY <1>4 DEF SpentOnce
<1> QED  BY <1>5, <1>6, <1>7 DEF SpentOnce

\* A token goes from what was opened by it to what opens by it next.
LEMMA OnceHanded ==
  ASSUME AccountsIInv, SpentOnce, UNCHANGED <<opened, drawn>>, NEW h \in Openers, NEW k, k[3] = h[3], Openers' \subseteq (Openers \ {h}) \cup {k}
  PROVE  SpentOnce'
<1>1. \A i \in Openers \ {h} : i[3] # k[3]  BY DEF SpentOnce
<1>2. \A i, j \in Openers' : i[3] = j[3] => i = j  BY <1>1 DEF SpentOnce
<1>3. \A i \in Openers' : i[3] \in DOMAIN opened => opened[i[3]] = 0  BY DEF SpentOnce
<1> QED  BY <1>2, <1>3 DEF SpentOnce

\* What a session was opened by opens nothing more.
LEMMA OnceSpent ==
  ASSUME AccountsIInv, SpentOnce, UNCHANGED drawn, NEW h \in Openers, Opens(h[3]), Openers' \subseteq Openers \ {h}
  PROVE  SpentOnce'
<1>1. h[3] \in 1 .. drawn /\ drawn \in Nat  BY OpenerDrawn
<1>2. opened \in [1 .. 3 * MaxRequests -> Nat]  BY DEF AccountsIInv, OpenedKept
<1>3. DOMAIN opened' = DOMAIN opened /\ \A t \in DOMAIN opened : opened'[t] = IF t = h[3] THEN opened[t] + 1 ELSE opened[t]  BY <1>2 DEF Opens
<1>4. \A k \in Openers' : k \in Openers /\ k[3] # h[3]  BY DEF SpentOnce
<1>5. \A k \in Openers' : k[3] \in DOMAIN opened' => opened'[k[3]] = 0  BY <1>3, <1>4 DEF SpentOnce
<1>6. ASSUME NEW t \in DOMAIN opened'
      PROVE  opened'[t] <= 1 /\ (t > drawn' => opened'[t] = 0)
  <2>1. CASE t = h[3]
    <3>1. opened[t] = 0  BY <1>3, <2>1 DEF SpentOnce
    <3>2. opened'[t] = 1 /\ ~(t > drawn)  BY <1>1, <1>3, <2>1, <3>1
    <3> QED  BY <3>2
  <2>2. CASE t # h[3]  BY <1>3, <2>2 DEF SpentOnce
  <2> QED  BY <2>1, <2>2
<1>7. \A i, j \in Openers' : i[3] = j[3] => i = j  BY <1>4 DEF SpentOnce
<1> QED  BY <1>5, <1>6, <1>7 DEF SpentOnce

\* What a row that is written lets a letter open, and what a request carries.
SameLetter == UNCHANGED users \/ \E a \in Account : \E new : Put(a, new) /\ (new.confirmation = None \/ (a \in Registered /\ new.confirmation = users[a].confirmation))
SameCarried == \A p \in Request : requests'[p].at \in Carrying => requests[p].at \in Carrying /\ requests'[p].token = requests[p].token
SameCodes == \A m \in Mailbox : (codes'[m] # None /\ codes'[m].live) => codes[m] # None /\ codes[m].live /\ codes'[m].token = codes[m].token

LEMMA SameLetters ==
  ASSUME AccountsIInv, SameLetter
  PROVE  OfLetters' \subseteq OfLetters
<1>1. SUFFICES ASSUME NEW b \in Account, users'[b] # None, users'[b].confirmation # None
               PROVE  users[b] # None /\ users[b].confirmation = users'[b].confirmation
  BY DEF OfLetters, Registered
<1>2. CASE UNCHANGED users  BY <1>1, <1>2
<1>3. CASE \E a \in Account : \E new : Put(a, new) /\ (new.confirmation = None \/ (a \in Registered /\ new.confirmation = users[a].confirmation))
  <2>1. PICK a \in Account : \E new : Put(a, new) /\ (new.confirmation = None \/ (a \in Registered /\ new.confirmation = users[a].confirmation))  BY <1>3
  <2>2. PICK new : Put(a, new) /\ (new.confirmation = None \/ (a \in Registered /\ new.confirmation = users[a].confirmation))  BY <2>1
  <2>3. users'[b] = IF b = a THEN new ELSE users[b]  BY <2>2 DEF Put, AccountsIInv, Shape
  <2> QED  BY <1>1, <2>2, <2>3 DEF Registered
<1> QED  BY <1>2, <1>3 DEF SameLetter

LEMMA SameOpeners ==
  ASSUME AccountsIInv, SpentOnce, UNCHANGED opened, drawn' \in {drawn, drawn + 1},
         SameLetter, SameCarried, SameCodes, attempts' \subseteq attempts, tickets' \subseteq tickets
  PROVE  SpentOnce'
<1>1. OfLetters' \subseteq OfLetters  BY SameLetters
<1>2. OfRequests' \subseteq OfRequests  BY DEF OfRequests, SameCarried
<1>3. OfCodes' \subseteq OfCodes  BY DEF OfCodes, SameCodes
<1>4. OfAttempts' \subseteq OfAttempts /\ OfTickets' \subseteq OfTickets  BY DEF OfAttempts, OfTickets
<1>5. Openers' \subseteq Openers  BY <1>1, <1>2, <1>3, <1>4 DEF Openers
<1> QED  BY <1>5, OnceKept

\* A step that writes at most a row, and ends or moves its request to where nothing opens.
LEMMA OnceWriting ==
  ASSUME AccountsIInv, SpentOnce, UNCHANGED <<codes, opened>>, drawn' \in {drawn, drawn + 1}, attempts' \subseteq attempts, tickets' \subseteq tickets,
         SameLetter, NEW q \in Request, UNCHANGED requests \/ Keep(q, Idle) \/ \E r : Keep(q, r) /\ r.at \notin Carrying
  PROVE  SpentOnce'
<1>1. SameCarried
  <2>1. CASE UNCHANGED requests  BY <2>1 DEF SameCarried
  <2>2. CASE \E r : Keep(q, r) /\ r.at \notin Carrying
    <3>1. PICK r : Keep(q, r) /\ r.at \notin Carrying  BY <2>2
    <3>2. \A p \in Request : requests'[p] = IF p = q THEN r ELSE requests[p]  BY <3>1 DEF Keep, AccountsIInv, Shape
    <3> QED  BY <3>1, <3>2 DEF SameCarried
  <2> QED  BY <2>1, <2>2, IdleRequest DEF Carrying
<1>2. SameCodes  BY DEF SameCodes
<1> QED  BY <1>1, <1>2, SameOpeners

LEMMA OnceReading ==
  ASSUME AccountsIInv, SpentOnce, UNCHANGED <<users, codes, attempts, tickets, opened, drawn>>,
         NEW q \in Request, UNCHANGED requests \/ Keep(q, Idle) \/ \E r : Keep(q, r) /\ r.at \notin Carrying
  PROVE  SpentOnce'
BY OnceWriting DEF SameLetter

\* A row that is written with the token it had, or with none.
LEMMA SameToken ==
  ASSUME NEW a \in Account, NEW new, Put(a, new), new.confirmation = None \/ (a \in Registered /\ new.confirmation = users[a].confirmation)
  PROVE  SameLetter
BY DEF SameLetter

LEMMA OnceHandlers ==
  ASSUME AccountsIInv, SpentOnce, NEW q \in Request,
         mail_confirmation(q) \/ mail_recovery(q) \/ connect(q) \/ disconnect(q) \/ NewSession(q) \/ PasswordSession(q)
  PROVE  SpentOnce'
<1>1. UNCHANGED <<users, codes, attempts, tickets, opened, drawn>> /\ Keep(q, Idle)
  BY DEF mail_confirmation, mail_recovery, connect, disconnect, NewSession, PasswordSession, history
<1> QED  BY <1>1, OnceReading

LEMMA OnceReadsCount == ASSUME AccountsIInv, SpentOnce, NEW q \in Request, ReadCount(q) PROVE SpentOnce'
<1> DEFINE r == [requests[q] EXCEPT !.at = "block"]
<1>1. requests[q] \in RequestRow  BY Finds
<1>2. UNCHANGED <<users, codes, attempts, tickets, opened, drawn>> /\ (Keep(q, Idle) \/ Keep(q, r))  BY DEF ReadCount, history
<1>3. r.at = "block"  BY <1>1 DEF RequestRow
<1> HIDE DEF r
<1> QED  BY <1>2, <1>3, OnceReading DEF Carrying

\* What a request begins with opens nothing yet.
LEMMA OnceBegins ==
  ASSUME AccountsIInv, SpentOnce, NEW q \in Request,
         \/ \E a \in Account : (\E p \in Password, panel \in BOOLEAN : sign_in(q, a, p, panel)) \/ resend_confirmation(q, a) \/ start_password_reset(q, a)
         \/ \E l \in letters : confirm_sign_up(q, l) \/ \E p \in Password : confirm_password_reset(q, l, p)
         \/ \E s \in sessions : \/ (\E m \in Mailbox \cup {None} : load(q, s, "settle account", m)) \/ load(q, s, "erase", None) \/ load(q, s, "disconnect", None)
                                \/ \E old, new \in Password : change_password(q, s, old, new)
  PROVE  SpentOnce'
<1>1. UNCHANGED <<users, codes, attempts, tickets, opened, drawn>>
  BY DEF sign_in, resend_confirmation, start_password_reset, confirm_sign_up, confirm_password_reset, load, change_password, history
<1>2. \E r : Keep(q, r) /\ r.at \notin Carrying
  <2>1. ASSUME NEW a, NEW p, NEW panel, sign_in(q, a, p, panel) PROVE \E r : Keep(q, r) /\ r.at \notin Carrying
    <3> DEFINE r == [Idle EXCEPT !.at = "verify", !.a = a, !.row = users[a], !.arg = p, !.panel = panel]
    <3>1. Keep(q, r) /\ r.at = "verify"  BY <2>1 DEF sign_in, Idle
    <3> HIDE DEF r
    <3> QED  BY <3>1 DEF Carrying
  <2>2. ASSUME NEW a, resend_confirmation(q, a) PROVE \E r : Keep(q, r) /\ r.at \notin Carrying
    <3> DEFINE r == [Idle EXCEPT !.at = "claim confirmation", !.a = a]
    <3>1. Keep(q, r) /\ r.at = "claim confirmation"  BY <2>2 DEF resend_confirmation, Idle
    <3> HIDE DEF r
    <3> QED  BY <3>1 DEF Carrying
  <2>3. ASSUME NEW a, start_password_reset(q, a) PROVE \E r : Keep(q, r) /\ r.at \notin Carrying
    <3> DEFINE r == [Idle EXCEPT !.at = "claim recovery", !.a = a]
    <3>1. Keep(q, r) /\ r.at = "claim recovery"  BY <2>3 DEF start_password_reset, Idle
    <3> HIDE DEF r
    <3> QED  BY <3>1 DEF Carrying
  <2>4. ASSUME NEW l, confirm_sign_up(q, l) PROVE \E r : Keep(q, r) /\ r.at \notin Carrying
    <3>1. PICK a \in Registered : Keep(q, [Idle EXCEPT !.at = "confirm", !.a = a, !.row = users[a], !.token = l.token, !.arg = l.to])
      BY <2>4 DEF confirm_sign_up
    <3> DEFINE r == [Idle EXCEPT !.at = "confirm", !.a = a, !.row = users[a], !.token = l.token, !.arg = l.to]
    <3>2. Keep(q, r) /\ r.at = "confirm"  BY <3>1 DEF Idle
    <3> HIDE DEF r
    <3> QED  BY <3>2 DEF Carrying
  <2>5. ASSUME NEW l, NEW p, confirm_password_reset(q, l, p) PROVE \E r : Keep(q, r) /\ r.at \notin Carrying
    <3>1. PICK a \in Registered : Keep(q, [Idle EXCEPT !.at = "reset", !.a = a, !.token = l.token, !.arg = p, !.row = users[a], !.by = l.to])
      BY <2>5 DEF confirm_password_reset
    <3> DEFINE r == [Idle EXCEPT !.at = "reset", !.a = a, !.token = l.token, !.arg = p, !.row = users[a], !.by = l.to]
    <3>2. Keep(q, r) /\ r.at = "reset"  BY <3>1 DEF Idle
    <3> HIDE DEF r
    <3> QED  BY <3>2 DEF Carrying
  <2>6. ASSUME NEW s, NEW place \in {"settle account", "erase", "disconnect"}, NEW arg, load(q, s, place, arg) PROVE \E r : Keep(q, r) /\ r.at \notin Carrying
    <3> DEFINE r == [Idle EXCEPT !.at = place, !.a = s.a, !.row = users[s.a], !.arg = arg]
    <3>1. Keep(q, r) /\ r.at = place  BY <2>6 DEF load, Idle
    <3> HIDE DEF r
    <3> QED  BY <3>1 DEF Carrying
  <2>7. ASSUME NEW s, NEW old, NEW new, change_password(q, s, old, new) PROVE \E r : Keep(q, r) /\ r.at \notin Carrying
    <3> DEFINE r == [Idle EXCEPT !.at = "change password", !.a = s.a, !.row = users[s.a], !.arg = new]
    <3>1. Keep(q, r) /\ r.at = "change password"  BY <2>7 DEF change_password, Idle
    <3> HIDE DEF r
    <3> QED  BY <3>1 DEF Carrying
  <2> QED  BY <2>1, <2>2, <2>3, <2>4, <2>5, <2>6, <2>7
<1> QED  BY <1>1, <1>2, OnceReading

LEMMA OnceSettlesSignIn == ASSUME AccountsIInv, SpentOnce, NEW q \in Request, settle_sign_in(q) PROVE SpentOnce'
<1> DEFINE a == requests[q].a
           new == Reset(users[a])
           r == [requests[q] EXCEPT !.at = "claimed"]
<1>1. requests[q].at = "verify"  BY DEF settle_sign_in, At
<1>2. requests[q] \in RequestRow /\ a \in Registered /\ a \in Account /\ users[a] \in UserRow  BY <1>1, Finds
<1>3. Put(a, new) \/ UNCHANGED users  BY DEF settle_sign_in
<1>4. (Keep(q, r) \/ Keep(q, Idle)) /\ UNCHANGED <<codes, attempts, tickets, opened, drawn>>  BY DEF settle_sign_in, history
<1>5. new.confirmation = users[a].confirmation  BY <1>2, ResetRow
<1>6. r.at = "claimed"  BY <1>2 DEF RequestRow
<1> HIDE DEF new, a, r
<1>7. SameLetter
  <2>1. CASE UNCHANGED users  BY <2>1 DEF SameLetter
  <2>2. CASE Put(a, new)  BY <1>2, <1>5, <2>2, SameToken
  <2> QED  BY <1>3, <2>1, <2>2
<1> QED  BY <1>4, <1>6, <1>7, OnceWriting DEF Carrying

LEMMA OnceGuesses ==
  ASSUME AccountsIInv, SpentOnce, NEW q \in Request, count_failure(q) \/ Block(q)
  PROVE  SpentOnce'
<1> DEFINE a == requests[q].a
           fails == users[a].fails + 1
           wrong == users[a].wrong + 1
           n == [users[a] EXCEPT !.fails = fails, !.wrong = wrong]
           o == [users[a] EXCEPT !.blocked = "yes"]
           r == [requests[q] EXCEPT !.at = "count"]
<1>1. requests[q].at \in {"verify", "block"}  BY DEF count_failure, Block, At
<1>2. requests[q] \in RequestRow /\ a \in Registered /\ a \in Account /\ users[a] \in UserRow  BY <1>1, Finds
<1>3. (Put(a, n) /\ Keep(q, r)) \/ (Put(a, o) /\ Keep(q, Idle))  BY DEF count_failure, Block, Raised
<1>4. UNCHANGED <<codes, attempts, tickets, opened, drawn>>  BY DEF count_failure, Block, history
<1>5. r.at = "count"  BY <1>2 DEF RequestRow
<1> HIDE DEF fails, wrong, r
<1>6. n.confirmation = users[a].confirmation /\ o.confirmation = users[a].confirmation  BY <1>2 DEF UserRow
<1> HIDE DEF n, o, a
<1>7. SameLetter  BY <1>2, <1>3, <1>6, SameToken
<1> QED  BY <1>3, <1>4, <1>5, <1>7, OnceWriting DEF Carrying

LEMMA OnceRegisters == ASSUME AccountsIInv, SpentOnce, NEW q \in Request, NEW m \in Mailbox, NEW p \in Password, register(q, m, p) PROVE SpentOnce'
<1>1. UNCHANGED <<codes, attempts, tickets, opened, drawn>>  BY DEF register, history
<1>2. CASE UNCHANGED users /\ Keep(q, Idle)  BY <1>1, <1>2, OnceReading
<1>3. CASE ~(UNCHANGED users /\ Keep(q, Idle))
  <2> DEFINE status == IF Asked(m) THEN "PENDING" ELSE "ACTIVE"
             new == [Blank EXCEPT !.email = m, !.password = p, !.status = status]
  <2>1. PICK a \in Account : Put(a, new) /\ (Keep(q, [Idle EXCEPT !.at = "claim confirmation", !.a = a]) \/ Keep(q, Idle))
    BY <1>3 DEF register
  <2> DEFINE r == [Idle EXCEPT !.at = "claim confirmation", !.a = a]
  <2>2. new.confirmation = None  BY DEF Blank
  <2>3. r.at = "claim confirmation"  BY DEF Idle
  <2>4. Put(a, new) /\ (Keep(q, r) \/ Keep(q, Idle))  BY <2>1
  <2> HIDE DEF new, r
  <2>5. SameLetter  BY <2>2, <2>4, SameToken
  <2> QED  BY <1>1, <2>3, <2>4, <2>5, OnceWriting DEF Carrying
<1> QED  BY <1>2, <1>3

LEMMA OnceClaimsRecovery == ASSUME AccountsIInv, SpentOnce, NEW q \in Request, claim_recovery(q) PROVE SpentOnce'
<1> DEFINE a == requests[q].a
           next == drawn + 1
           held == users[a].held \cup {"recovery"}
           new == [users[a] EXCEPT !.recovery = next, !.held = held]
           r == [requests[q] EXCEPT !.at = "mail recovery"]
<1>1. requests[q].at = "claim recovery"  BY DEF claim_recovery, At
<1>2. requests[q] \in RequestRow /\ a \in Registered /\ a \in Account /\ users[a] \in UserRow  BY <1>1, Finds
<1>3. (Put(a, new) /\ Keep(q, r) /\ drawn' = next) \/ (UNCHANGED <<users, drawn>> /\ Keep(q, Idle))  BY DEF claim_recovery, Draws
<1>4. UNCHANGED <<codes, attempts, tickets, opened>>  BY DEF claim_recovery, history
<1>5. r.at = "mail recovery" /\ next = drawn + 1  BY <1>2 DEF RequestRow
<1> HIDE DEF next, held, r
<1>6. new.confirmation = users[a].confirmation  BY <1>2 DEF UserRow
<1> HIDE DEF new, a
<1>7. SameLetter
  <2>1. CASE UNCHANGED users  BY <2>1 DEF SameLetter
  <2>2. CASE Put(a, new)  BY <1>2, <1>6, <2>2, SameToken
  <2> QED  BY <1>3, <2>1, <2>2
<1>8. drawn' \in {drawn, drawn + 1}  BY <1>3, <1>5
<1> QED  BY <1>3, <1>4, <1>5, <1>7, <1>8, OnceWriting DEF Carrying

LEMMA OnceSettlesAccount == ASSUME AccountsIInv, SpentOnce, NEW q \in Request, settle_account(q) PROVE SpentOnce'
<1> DEFINE a == requests[q].a
           m == requests[q].arg
           n == WaitingLink(users[a], m)
           o == prepare(users[a], m)
           r == [Idle EXCEPT !.at = "claim confirmation", !.a = a]
<1>1. requests[q].at = "settle account"  BY DEF settle_account, At
<1>2. a \in Registered /\ a \in Account /\ users[a] \in UserRow  BY <1>1, Finds
<1>3. /\ UNCHANGED users \/ Put(a, n) \/ Put(a, o)
      /\ (Keep(q, r) \/ Keep(q, Idle)) /\ UNCHANGED <<codes, attempts, tickets, opened, drawn>>
  BY DEF settle_account
<1>4. r.at = "claim confirmation"  BY DEF Idle
<1> HIDE DEF m, r
<1>5. n.confirmation = None /\ o.confirmation \in {None, users[a].confirmation}  BY <1>2 DEF UserRow, WaitingLink, prepare
<1> HIDE DEF n, o, a
<1>6. SameLetter
  <2>1. CASE UNCHANGED users  BY <2>1 DEF SameLetter
  <2>2. CASE Put(a, n)  BY <1>2, <1>5, <2>2, SameToken
  <2>3. CASE Put(a, o)  BY <1>2, <1>5, <2>3, SameToken
  <2> QED  BY <1>3, <2>1, <2>2, <2>3
<1> QED  BY <1>3, <1>4, <1>6, OnceWriting DEF Carrying

LEMMA OnceSettlesPassword == ASSUME AccountsIInv, SpentOnce, NEW q \in Request, settle_password(q) PROVE SpentOnce'
<1> DEFINE a == requests[q].a
           new == password_changes(users[a], requests[q].arg)
           r == [requests[q] EXCEPT !.at = "new session"]
<1>1. requests[q].at = "change password"  BY DEF settle_password, At
<1>2. requests[q] \in RequestRow /\ a \in Registered /\ a \in Account /\ users[a] \in UserRow /\ requests[q].arg \in Password
  BY <1>1, Finds DEF RequestOK
<1>3. (Put(a, new) /\ Keep(q, r)) \/ (UNCHANGED users /\ Keep(q, Idle))  BY DEF settle_password
<1>4. UNCHANGED <<codes, attempts, tickets, opened, drawn>>  BY DEF settle_password, history
<1>5. r.at = "new session"  BY <1>2 DEF RequestRow
<1>6. new.confirmation = users[a].confirmation  BY <1>2, PasswordRow
<1> HIDE DEF new, r, a
<1>7. SameLetter
  <2>1. CASE UNCHANGED users  BY <2>1 DEF SameLetter
  <2>2. CASE Put(a, new)  BY <1>2, <1>6, <2>2, SameToken
  <2> QED  BY <1>3, <2>1, <2>2
<1> QED  BY <1>3, <1>4, <1>5, <1>7, OnceWriting DEF Carrying

LEMMA OnceErases == ASSUME AccountsIInv, SpentOnce, NEW q \in Request, erase(q) PROVE SpentOnce'
<1> DEFINE a == requests[q].a
           new == [users[a] EXCEPT !.status = "ERASED", !.email = None, !.pending = None, !.password = None, !.confirmation = None, !.recovery = None, !.held = {}]
<1>1. requests[q].at = "erase"  BY DEF erase, At
<1>2. a \in Account /\ users[a] \in UserRow  BY <1>1, Finds
<1>3. UNCHANGED users \/ Put(a, new)  BY DEF erase
<1>4. /\ Keep(q, Idle) /\ UNCHANGED <<opened, drawn>> /\ attempts' \subseteq attempts /\ tickets' \subseteq tickets
      /\ UNCHANGED codes \/ codes' = [m \in Mailbox |-> IF m = users[a].email THEN None ELSE codes[m]]
  BY DEF erase, history
<1>5. new.confirmation = None  BY <1>2 DEF UserRow
<1>6. SameCodes  BY <1>4 DEF SameCodes
<1> HIDE DEF new, a
<1>7. SameLetter
  <2>1. CASE UNCHANGED users  BY <2>1 DEF SameLetter
  <2>2. CASE Put(a, new)  BY <1>2, <1>5, <2>2, SameToken
  <2> QED  BY <1>3, <2>1, <2>2
<1>8. SameCarried
  <2>1. \A p \in Request : requests'[p] = IF p = q THEN Idle ELSE requests[p]  BY <1>4 DEF Keep, AccountsIInv, Shape
  <2> QED  BY <2>1, IdleRequest DEF SameCarried, Carrying
<1> QED  BY <1>4, <1>6, <1>7, <1>8, SameOpeners

LEMMA OnceSpendsRecovery == ASSUME AccountsIInv, SpentOnce, NEW q \in Request, SpendRecovery(q) PROVE SpentOnce'
<1> DEFINE a == requests[q].a
           changed == password_changes(users[a], requests[q].arg)
           status == IF changed.status = "PENDING" THEN "ACTIVE" ELSE changed.status
           held == changed.held \ {"confirmation"}
           base == [changed EXCEPT !.status = status, !.confirmation = None, !.held = held]
           new == Reset(base)
<1>1. requests[q].at = "reset"  BY DEF SpendRecovery, At
<1>2. a \in Account /\ users[a] \in UserRow /\ requests[q].arg \in Password  BY <1>1, Finds DEF RequestOK
<1>3. Put(a, new) \/ UNCHANGED users  BY DEF SpendRecovery
<1>4. Keep(q, Idle) /\ UNCHANGED <<codes, attempts, tickets, opened, drawn>>  BY DEF SpendRecovery
<1>5. changed \in UserRow  BY <1>2, PasswordRow
<1> HIDE DEF changed, status, held, a
<1>6. base.confirmation = None  BY <1>5 DEF UserRow
<1>7. new.confirmation = base.confirmation  BY <1>5 DEF Reset, UserRow
<1> HIDE DEF base, new
<1>8. SameLetter
  <2>1. CASE UNCHANGED users  BY <2>1 DEF SameLetter
  <2>2. CASE Put(a, new)  BY <1>2, <1>6, <1>7, <2>2, SameToken
  <2> QED  BY <1>3, <2>1, <2>2
<1> QED  BY <1>4, <1>8, OnceWriting

LEMMA OnceOperator == ASSUME AccountsIInv, SpentOnce, NEW q \in Request, NEW a \in Account, OperatorWrites(q, a) PROVE SpentOnce'
<1>1. a \in Registered /\ users[a] \in UserRow  BY RegisteredRow DEF OperatorWrites, AccountsIInv
<1>2. UNCHANGED <<requests, codes, attempts, tickets, opened, drawn>>  BY DEF OperatorWrites
<1>3. SameLetter
  <2>1. ASSUME NEW status, Put(a, [users[a] EXCEPT !.status = status])
        PROVE  SameLetter
    <3> DEFINE new == [users[a] EXCEPT !.status = status]
    <3>1. new.confirmation = users[a].confirmation /\ Put(a, new)  BY <1>1, <2>1 DEF UserRow
    <3> HIDE DEF new
    <3> QED  BY <1>1, <3>1, SameToken
  <2>2. ASSUME NEW m, Put(a, prepare(users[a], m))
        PROVE  SameLetter
    <3> DEFINE new == prepare(users[a], m)
    <3>1. new.confirmation \in {None, users[a].confirmation} /\ Put(a, new)  BY <1>1, <2>2 DEF UserRow, prepare
    <3> HIDE DEF new
    <3> QED  BY <1>1, <3>1, SameToken
  <2>3. ASSUME NEW p \in Password, Put(a, password_changes(users[a], p))
        PROVE  SameLetter
    <3> DEFINE new == password_changes(users[a], p)
    <3>1. new.confirmation = users[a].confirmation /\ Put(a, new)  BY <1>1, <2>3, PasswordRow
    <3> HIDE DEF new
    <3> QED  BY <1>1, <3>1, SameToken
  <2> QED  BY <2>1, <2>2, <2>3 DEF OperatorWrites
<1> QED  BY <1>2, <1>3, OnceWriting

LEMMA OnceTime == ASSUME AccountsIInv, SpentOnce, NEW a \in Account, TimePasses(a) PROVE SpentOnce'
<1> DEFINE n == [users[a] EXCEPT !.held = {}]
           o == [users[a] EXCEPT !.blocked = "over"]
<1>1. a \in Registered /\ users[a] \in UserRow  BY RegisteredRow DEF TimePasses, AccountsIInv
<1>2. (Put(a, n) \/ Put(a, o)) /\ UNCHANGED <<requests, codes, attempts, tickets, opened, drawn>>  BY DEF TimePasses, history
<1>3. n.confirmation = users[a].confirmation /\ o.confirmation = users[a].confirmation  BY <1>1 DEF UserRow
<1> HIDE DEF n, o
<1>4. SameLetter  BY <1>1, <1>2, <1>3, SameToken
<1>5. SameCarried /\ SameCodes  BY <1>2 DEF SameCarried, SameCodes
<1> QED  BY <1>2, <1>4, <1>5, SameOpeners

\* A wrong guess, and time, leave a code its token.
LEMMA OnceCode ==
  ASSUME AccountsIInv, SpentOnce, NEW m \in Mailbox, CodeAges(m) \/ \E q \in Request : WrongCode(q, m)
  PROVE  SpentOnce'
<1>1. UNCHANGED <<users, requests, attempts, tickets, opened, drawn>>  BY DEF CodeAges, WrongCode, history
<1>2. codes[m] # None  BY DEF CodeAges, WrongCode, Live
<1>3. codes[m] \in Challenge /\ codes \in [Mailbox -> Challenge \cup {None}]  BY <1>2 DEF AccountsIInv, CodesKept
<1> DEFINE raised == codes[m].attempts + 1
           n == [codes[m] EXCEPT !.resend = TRUE]
           o == [codes[m] EXCEPT !.live = FALSE]
           w == [codes[m] EXCEPT !.attempts = raised]
<1>4. codes' = [codes EXCEPT ![m] = n] \/ codes' = [codes EXCEPT ![m] = o] \/ codes' = [codes EXCEPT ![m] = w]  BY DEF CodeAges, WrongCode
<1> HIDE DEF raised
<1>5. n.live = codes[m].live /\ n.token = codes[m].token /\ o.live = FALSE /\ w.live = codes[m].live /\ w.token = codes[m].token  BY <1>3 DEF Challenge
<1> HIDE DEF n, o, w
<1>6. SameCodes
  <2>1. \A x \in Mailbox : x # m => codes'[x] = codes[x]  BY <1>3, <1>4
  <2>2. codes'[m] \in {n, o, w}  BY <1>3, <1>4
  <2> QED  BY <1>2, <1>5, <2>1, <2>2 DEF SameCodes
<1>7. SameLetter /\ SameCarried  BY <1>1 DEF SameLetter, SameCarried
<1> QED  BY <1>1, <1>6, <1>7, SameOpeners

\* A new account, or the one of the identity, is signed in by the attempt the request carries.
LEMMA OnceSignsInSocially == ASSUME AccountsIInv, SpentOnce, NEW q \in Request, NEW m \in Mailbox \cup {None}, social_sign_in(q, m) PROVE SpentOnce'
<1> DEFINE s == requests[q].arg
           b == identities[s]
           known == [requests[q] EXCEPT !.at = "signed in", !.a = b, !.row = users[b]]
           new == [Blank EXCEPT !.email = m, !.named = m = None]
<1>1. requests[q].at = "social" /\ requests[q] \in RequestRow  BY Finds DEF social_sign_in, At
<1>2. UNCHANGED <<codes, attempts, tickets, opened, drawn>>  BY DEF social_sign_in
<1>3. SameCodes  BY <1>2 DEF SameCodes
<1>4. ASSUME NEW r, Keep(q, r), r.token = requests[q].token PROVE SameCarried
  <2>1. \A p \in Request : requests'[p] = IF p = q THEN r ELSE requests[p]  BY <1>4 DEF Keep, AccountsIInv, Shape
  <2> QED  BY <1>1, <1>4, <2>1 DEF SameCarried, Carrying
<1>5. CASE Keep(q, Idle) /\ UNCHANGED users  BY <1>2, <1>5, OnceReading
<1>6. CASE Keep(q, known) /\ UNCHANGED users
  <2>1. known.token = requests[q].token  BY <1>1 DEF RequestRow
  <2> HIDE DEF known
  <2>2. SameCarried  BY <1>4, <1>6, <2>1
  <2>3. SameLetter  BY <1>6 DEF SameLetter
  <2> QED  BY <1>2, <1>3, <2>2, <2>3, SameOpeners
<1>7. CASE \E a \in Account : Put(a, new) /\ Keep(q, [requests[q] EXCEPT !.at = "signed in", !.a = a, !.row = new])
  <2>1. PICK a \in Account : Put(a, new) /\ Keep(q, [requests[q] EXCEPT !.at = "signed in", !.a = a, !.row = new])  BY <1>7
  <2> DEFINE r == [requests[q] EXCEPT !.at = "signed in", !.a = a, !.row = new]
  <2>2. r.token = requests[q].token /\ Keep(q, r) /\ Put(a, new)  BY <1>1, <2>1 DEF RequestRow
  <2>3. new.confirmation = None  BY DEF Blank
  <2> HIDE DEF r, new
  <2>4. SameCarried  BY <1>4, <2>2
  <2>5. SameLetter  BY <2>2, <2>3, SameToken
  <2> QED  BY <1>2, <1>3, <2>4, <2>5, SameOpeners
<1> QED  BY <1>5, <1>6, <1>7 DEF social_sign_in

-----------------------------------------------------------------------------
(* Tokens drawn, handed on and spent.                                      *)

\* What opens a session is a letter, a code, an attempt, a ticket or a request, and never two of them.
Kinds ==
  /\ \A h \in OfLetters : h[1] = "letter"
  /\ \A h \in OfCodes : h[1] = "code"
  /\ \A h \in OfAttempts : h[1] = "attempt" /\ h[2] \in attempts
  /\ \A h \in OfTickets : h[1] = "ticket" /\ h[2] \in tickets
  /\ \A h \in OfRequests : h[1] = "request"

LEMMA KindsDiffer == Kinds /\ Kinds'
BY DEF Kinds, OfLetters, OfCodes, OfAttempts, OfTickets, OfRequests

\* What is kept opens what it opened.
LEMMA KeptParts ==
  /\ UNCHANGED codes => OfCodes' = OfCodes
  /\ attempts' \subseteq attempts => OfAttempts' \subseteq OfAttempts
  /\ tickets' \subseteq tickets => OfTickets' \subseteq OfTickets
  /\ UNCHANGED requests => OfRequests' = OfRequests
BY DEF OfCodes, OfAttempts, OfTickets, OfRequests

LEMMA RequestPart ==
  ASSUME Shape, NEW q \in Request, NEW r, Keep(q, r)
  PROVE  /\ OfRequests' \subseteq {h \in OfRequests : h[2] # q} \cup {<<"request", q, r.token>>}
         /\ r.at \notin Carrying => OfRequests' \subseteq {h \in OfRequests : h[2] # q}
<1>1. \A p \in Request : requests'[p] = IF p = q THEN r ELSE requests[p]  BY DEF Keep, Shape
<1>2. SUFFICES ASSUME NEW p \in Request, requests'[p].at \in Carrying
               PROVE  \/ p = q /\ r.at \in Carrying /\ requests'[p].token = r.token
                      \/ p # q /\ requests[p].at \in Carrying /\ requests'[p].token = requests[p].token
  BY DEF OfRequests
<1> QED  BY <1>1, <1>2

\* A row whose token goes, and one that gets another.
LEMMA LetterPart ==
  ASSUME Shape, NEW a \in Account, NEW new, Put(a, new), new # None
  PROVE  /\ OfLetters' \subseteq {h \in OfLetters : h[2] # a} \cup {<<"letter", a, new.confirmation>>}
         /\ new.confirmation = None => OfLetters' \subseteq {h \in OfLetters : h[2] # a}
<1>1. \A b \in Account : users'[b] = IF b = a THEN new ELSE users[b]  BY DEF Put, Shape
<1>2. SUFFICES ASSUME NEW b \in Account, users'[b] # None, users'[b].confirmation # None
               PROVE  \/ b = a /\ new.confirmation # None /\ users'[b].confirmation = new.confirmation
                      \/ b # a /\ users[b] # None /\ users[b].confirmation # None /\ users'[b].confirmation = users[b].confirmation
  BY DEF OfLetters, Registered
<1> QED  BY <1>1, <1>2

LEMMA CodePart ==
  ASSUME CodesKept, NEW m \in Mailbox, NEW new, codes' = [codes EXCEPT ![m] = new]
  PROVE  /\ OfCodes' \subseteq {h \in OfCodes : h[2] # m} \cup {<<"code", m, new.token>>}
         /\ ~new.live => OfCodes' \subseteq {h \in OfCodes : h[2] # m}
<1>1. \A n \in Mailbox : codes'[n] = IF n = m THEN new ELSE codes[n]  BY DEF CodesKept
<1>2. SUFFICES ASSUME NEW n \in Mailbox, codes'[n] # None, codes'[n].live
               PROVE  \/ n = m /\ new.live /\ codes'[n].token = new.token
                      \/ n # m /\ codes[n] # None /\ codes[n].live /\ codes'[n].token = codes[n].token
  BY DEF OfCodes
<1> QED  BY <1>1, <1>2

LEMMA OnceClaimsConfirmation == ASSUME AccountsIInv, SpentOnce, NEW q \in Request, claim_confirmation(q) PROVE SpentOnce'
<1> DEFINE a == requests[q].a
           next == drawn + 1
           held == users[a].held \cup {"confirmation"}
           new == [users[a] EXCEPT !.confirmation = next, !.held = held]
           r == [requests[q] EXCEPT !.at = "mail confirmation"]
           k == <<"letter", a, next>>
<1>1. requests[q].at = "claim confirmation"  BY DEF claim_confirmation, At
<1>2. requests[q] \in RequestRow /\ a \in Registered /\ a \in Account /\ users[a] \in UserRow /\ drawn \in Nat  BY <1>1, Finds
<1>3. (Put(a, new) /\ Keep(q, r) /\ drawn' = next) \/ (UNCHANGED <<users, drawn>> /\ Keep(q, Idle))  BY DEF claim_confirmation, Draws
<1>4. UNCHANGED <<codes, attempts, tickets, opened>>  BY DEF claim_confirmation, history
<1>5. r.at = "mail confirmation" /\ next = drawn + 1 /\ k[3] = next /\ next \in Nat  BY <1>2 DEF RequestRow
<1>6. held \in SUBSET {"confirmation", "recovery"}  BY <1>2 DEF UserRow
<1> HIDE DEF next, held, r
<1>7. new.confirmation = next /\ new \in UserRow  BY <1>2, <1>5, <1>6 DEF UserRow
<1>8. k = <<"letter", a, next>>  OBVIOUS
<1> HIDE DEF new, a, k
<1>9. CASE UNCHANGED <<users, drawn>> /\ Keep(q, Idle)  BY <1>4, <1>9, OnceReading
<1>10. CASE Put(a, new) /\ Keep(q, r) /\ drawn' = next
  <2>1. new # None  BY <1>7, Nothing
  <2>2. OfLetters' \subseteq OfLetters \cup {k}  BY <1>2, <1>7, <1>8, <1>10, <2>1, LetterPart DEF AccountsIInv
  <2>3. OfRequests' \subseteq OfRequests  BY <1>5, <1>10, RequestPart DEF AccountsIInv, Carrying
  <2>4. OfCodes' \subseteq OfCodes /\ OfAttempts' \subseteq OfAttempts /\ OfTickets' \subseteq OfTickets  BY <1>4, KeptParts
  <2>5. Openers' \subseteq Openers \cup {k}  BY <2>2, <2>3, <2>4 DEF Openers
  <2> QED  BY <1>4, <1>5, <1>10, <2>5, OnceDrawn
<1> QED  BY <1>3, <1>9, <1>10

LEMMA OnceRequestsCode == ASSUME AccountsIInv, SpentOnce, NEW q \in Request, NEW m \in Mailbox, request_code(q, m) PROVE SpentOnce'
<1> DEFINE new == [token |-> drawn + 1, attempts |-> 0, live |-> TRUE, resend |-> FALSE]
           k == <<"code", m, drawn + 1>>
<1>1. UNCHANGED <<users, requests, attempts, tickets, opened>>  BY DEF request_code, history
<1>2. (codes' = [codes EXCEPT ![m] = new] /\ drawn' = drawn + 1) \/ UNCHANGED <<codes, drawn>>  BY DEF request_code, Draws
<1>3. new.token = drawn + 1 /\ k[3] = drawn + 1 /\ k = <<"code", m, new.token>>  OBVIOUS
<1> HIDE DEF new, k
<1>4. CASE UNCHANGED <<codes, drawn>>  BY <1>1, <1>4, OnceReading
<1>5. CASE codes' = [codes EXCEPT ![m] = new] /\ drawn' = drawn + 1
  <2>1. OfCodes' \subseteq OfCodes \cup {k}  BY <1>3, <1>5, CodePart DEF AccountsIInv
  <2>2. OfLetters' = OfLetters  BY <1>1 DEF OfLetters, Registered
  <2>3. OfRequests' \subseteq OfRequests /\ OfAttempts' \subseteq OfAttempts /\ OfTickets' \subseteq OfTickets  BY <1>1, KeptParts
  <2>4. Openers' \subseteq Openers \cup {k}  BY <2>1, <2>2, <2>3 DEF Openers
  <2> QED  BY <1>1, <1>3, <1>5, <2>4, OnceDrawn
<1> QED  BY <1>2, <1>4, <1>5

\* The session is read before the provider is asked, and opens nothing.
LEMMA OnceStartsSocial == ASSUME AccountsIInv, SpentOnce, NEW q \in Request, NEW s \in sessions \cup {None}, NEW panel \in BOOLEAN, start_social(q, s, panel) PROVE SpentOnce'
<1> DEFINE a == IF s = None THEN None ELSE s.a
           row == IF s = None THEN Blank ELSE users[s.a]
           r == [Idle EXCEPT !.at = "start", !.a = a, !.row = row, !.panel = panel]
<1>1. UNCHANGED <<users, codes, attempts, tickets, opened, drawn>> /\ Keep(q, r)  BY DEF start_social, history
<1>2. r.at = "start"  BY DEF Idle
<1> HIDE DEF r
<1> QED  BY <1>1, <1>2, OnceReading DEF Carrying

LEMMA OnceInsertsAttempt == ASSUME AccountsIInv, SpentOnce, NEW q \in Request, create_attempt(q) PROVE SpentOnce'
<1> DEFINE t == [token |-> drawn + 1, panel |-> requests[q].panel, a |-> requests[q].a, epoch |-> requests[q].row.epoch]
           k == <<"attempt", t, drawn + 1>>
<1>1. attempts' = attempts \cup {t} /\ drawn' = drawn + 1 /\ Keep(q, Idle) /\ UNCHANGED <<users, codes, tickets, opened>>  BY DEF create_attempt, Draws, history
<1>2. t.token = drawn + 1 /\ k[3] = drawn + 1 /\ k = <<"attempt", t, t.token>>  OBVIOUS
<1> HIDE DEF t, k
<1>3. OfAttempts' \subseteq OfAttempts \cup {k}  BY <1>1, <1>2 DEF OfAttempts
<1>4. OfLetters' = OfLetters  BY <1>1 DEF OfLetters, Registered
<1>5. OfRequests' \subseteq OfRequests  BY <1>1, RequestPart, IdleRequest DEF AccountsIInv, Carrying
<1>6. OfCodes' \subseteq OfCodes /\ OfTickets' \subseteq OfTickets  BY <1>1, KeptParts
<1>7. Openers' \subseteq Openers \cup {k}  BY <1>3, <1>4, <1>5, <1>6 DEF Openers
<1> QED  BY <1>1, <1>2, <1>7, OnceDrawn

\* What is consumed goes on as a request that carries its token.
LEMMA OnceCarried ==
  ASSUME AccountsIInv, SpentOnce, UNCHANGED <<opened, drawn>>, NEW q \in Request, NEW r, Keep(q, r), NEW h \in Openers, h[1] # "request", r.token = h[3],
         OfLetters' \subseteq OfLetters \ {h}, OfCodes' \subseteq OfCodes \ {h}, OfAttempts' \subseteq OfAttempts \ {h}, OfTickets' \subseteq OfTickets \ {h}
  PROVE  SpentOnce'
<1> DEFINE k == <<"request", q, r.token>>
<1>1. OfRequests' \subseteq OfRequests \cup {k}  BY RequestPart DEF AccountsIInv
<1>2. h \notin OfRequests  BY KindsDiffer DEF Kinds
<1>3. k[3] = h[3]  OBVIOUS
<1> HIDE DEF k
<1>4. Openers' \subseteq (Openers \ {h}) \cup {k}  BY <1>1, <1>2 DEF Openers
<1> QED  BY <1>3, <1>4, OnceHanded

LEMMA OnceSettlesConfirmation == ASSUME AccountsIInv, SpentOnce, NEW q \in Request, SettleConfirmation(q) PROVE SpentOnce'
<1> DEFINE a == requests[q].a
           row == users[a]
           email == Target(row)
           status == IF row.status = "PENDING" THEN "ACTIVE" ELSE row.status
           held == row.held \ (IF requests[q].row.pending # None THEN {"confirmation", "recovery"} ELSE {"confirmation"})
           recovery == IF requests[q].row.pending # None THEN None ELSE row.recovery
           new == [row EXCEPT !.status = status, !.email = email, !.pending = None, !.confirmation = None, !.held = held, !.recovery = recovery]
           r == [requests[q] EXCEPT !.at = "letter session", !.row = row]
           h == <<"letter", a, requests[q].token>>
           lands == StillAnswers(q) /\ Of(email) \subseteq {a}
<1>1. requests[q].at = "confirm"  BY DEF SettleConfirmation, At
<1>2. requests[q] \in RequestRow /\ a \in Registered /\ a \in Account /\ row \in UserRow /\ requests[q].token # None  BY <1>1, Finds DEF RequestOK
<1>3. /\ lands => Put(a, new) /\ (Keep(q, r) \/ Keep(q, Idle))
      /\ ~lands => UNCHANGED users /\ Keep(q, Idle)
      /\ UNCHANGED <<codes, attempts, tickets, opened, drawn>>
  BY DEF SettleConfirmation, Target
<1>4. r.token = requests[q].token /\ h[1] = "letter" /\ h[3] = requests[q].token /\ h[2] = a  BY <1>2 DEF RequestRow
<1>5. lands => row.confirmation = requests[q].token  BY DEF StillAnswers
<1>6. new.confirmation = None  BY <1>2 DEF UserRow
<1>7. h \in OfLetters \/ ~lands  BY <1>2, <1>5 DEF OfLetters
<1>8. DOMAIN new = DOMAIN row  OBVIOUS
<1> HIDE DEF email, status, held, recovery, r, h, lands
<1>9. lands => Put(a, new)  BY <1>3
<1>10. CASE ~lands  BY <1>3, <1>10, OnceReading
<1>11. CASE lands
  <2> HIDE DEF new, row, a
  <2>1. SameLetter  BY <1>2, <1>6, <1>9, <1>11, SameToken
  <2>2. CASE Keep(q, Idle)  BY <1>3, <2>1, <2>2, OnceWriting
  <2>3. CASE Keep(q, r)
    <3>1. OfLetters' \subseteq OfLetters \ {h}
      <4>1. OfLetters' \subseteq OfLetters  BY <2>1, SameLetters
      <4>2. users'[a] = new  BY <1>2, <1>9, <1>11 DEF Put, AccountsIInv, Shape
      <4>3. h \notin OfLetters'
        <5>1. SUFFICES ASSUME NEW b \in Account, users'[b].confirmation # None, h = <<"letter", b, users'[b].confirmation>> PROVE FALSE
          BY DEF OfLetters, Registered
        <5>2. b = a  BY <1>4, <5>1
        <5> QED  BY <1>6, <4>2, <5>1, <5>2
      <4> QED  BY <4>1, <4>3
    <3>2. OfCodes' \subseteq OfCodes \ {h} /\ OfAttempts' \subseteq OfAttempts \ {h} /\ OfTickets' \subseteq OfTickets \ {h}
      BY <1>3, <1>4, KeptParts, KindsDiffer DEF Kinds
    <3>3. h \in Openers  BY <1>7, <1>11 DEF Openers
    <3> QED  BY <1>3, <1>4, <2>3, <3>1, <3>2, <3>3, OnceCarried
  <2> QED  BY <1>3, <1>11, <2>2, <2>3
<1> QED  BY <1>10, <1>11

LEMMA OnceConfirmsCode == ASSUME AccountsIInv, SpentOnce, NEW q \in Request, NEW m \in Mailbox, confirm_code(q, m) PROVE SpentOnce'
<1> DEFINE spent == [codes[m] EXCEPT !.live = FALSE]
           row(a) == IF Of(m) = {} THEN [Blank EXCEPT !.email = m] ELSE IF users[a].status = "PENDING" THEN Proven(users[a]) ELSE users[a]
           h == <<"code", m, codes[m].token>>
<1>1. /\ codes[m] # None /\ codes[m].live /\ codes' = [codes EXCEPT ![m] = spent]
      /\ UNCHANGED <<attempts, tickets, opened, drawn>>
  BY DEF confirm_code, Live, Consumed
<1>2. codes[m] \in Challenge  BY <1>1 DEF AccountsIInv, CodesKept
<1>3. spent.live = FALSE  BY <1>2 DEF Challenge
<1>4. h \in OfCodes /\ h[1] = "code" /\ h[2] = m /\ h[3] = codes[m].token  BY <1>1 DEF OfCodes
<1> HIDE DEF spent, h
<1>5. PICK a \in Account :
        /\ IF Of(m) # {} THEN a \in Of(m) ELSE Next_id(a)
        /\ Put(a, row(a)) /\ Keep(q, [Idle EXCEPT !.at = "signed in", !.a = a, !.row = row(a), !.by = "code", !.token = codes[m].token])
  BY DEF confirm_code
<1> DEFINE new == row(a)
           r == [Idle EXCEPT !.at = "signed in", !.a = a, !.row = new, !.by = "code", !.token = codes[m].token]
<1>6. Put(a, new) /\ Keep(q, r)  BY <1>5
<1>7. r.token = codes[m].token  BY DEF Idle
<1>8. new.confirmation = None \/ (a \in Registered /\ new.confirmation = users[a].confirmation)
  <2>1. CASE Of(m) = {}  BY <2>1 DEF Blank
  <2>2. CASE Of(m) # {}
    <3>1. a \in Registered /\ users[a] \in UserRow  BY <1>5, <2>2, RegisteredRow DEF Of, AccountsIInv
    <3>2. CASE users[a].status # "PENDING"  BY <2>2, <3>1, <3>2
    <3>3. CASE users[a].status = "PENDING"
      <4> DEFINE changed == users[a].changed + 1
                 epoch == users[a].epoch + 1
                 opening == [users[a] EXCEPT !.status = "ACTIVE", !.password = None, !.changed = changed, !.epoch = epoch, !.confirmation = None, !.recovery = None, !.held = {}]
      <4>1. new = opening  BY <2>2, <3>3 DEF Proven
      <4> HIDE DEF changed, epoch
      <4>2. opening.confirmation = None  BY <3>1 DEF UserRow
      <4> HIDE DEF opening, new
      <4> QED  BY <4>1, <4>2
    <3> QED  BY <3>2, <3>3
  <2> QED  BY <2>1, <2>2
<1> HIDE DEF new, r
<1>9. SameLetter  BY <1>6, <1>8, SameToken
<1>10. OfLetters' \subseteq OfLetters \ {h}  BY <1>4, <1>9, SameLetters, KindsDiffer DEF Kinds
<1>11. OfCodes' \subseteq OfCodes \ {h}  BY <1>1, <1>3, <1>4, CodePart DEF AccountsIInv
<1>12. OfAttempts' \subseteq OfAttempts \ {h} /\ OfTickets' \subseteq OfTickets \ {h}  BY <1>1, <1>4, KeptParts, KindsDiffer DEF Kinds
<1>13. h \in Openers /\ h[1] # "request" /\ r.token = h[3]  BY <1>4, <1>7 DEF Openers
<1> QED  BY <1>1, <1>6, <1>10, <1>11, <1>12, <1>13, OnceCarried

LEMMA OnceReturns == ASSUME AccountsIInv, SpentOnce, NEW q \in Request, NEW t \in attempts, social_callback(q, t) PROVE SpentOnce'
<1> DEFINE h == <<"attempt", t, t.token>>
<1>1. attempts' = attempts \ {t} /\ UNCHANGED <<users, codes, tickets, opened, drawn>>  BY DEF social_callback, history
<1>2. CASE UNCHANGED requests
  <2>1. SameLetter  BY <1>1 DEF SameLetter
  <2>2. attempts' \subseteq attempts  BY <1>1
  <2> QED  BY <1>1, <1>2, <2>1, <2>2, OnceWriting
<1>3. CASE ~UNCHANGED requests
  <2> DEFINE place == IF t.a = None THEN "social" ELSE "connect"
             row == [Blank EXCEPT !.epoch = t.epoch]
  <2>1. PICK s \in Subject : Keep(q, [Idle EXCEPT !.at = place, !.a = t.a, !.arg = s, !.token = t.token, !.row = row, !.by = "social", !.panel = t.panel])
    BY <1>3 DEF social_callback
  <2> DEFINE r == [Idle EXCEPT !.at = place, !.a = t.a, !.arg = s, !.token = t.token, !.row = row, !.by = "social", !.panel = t.panel]
  <2>2. Keep(q, r) /\ r.token = t.token  BY <2>1 DEF Idle
  <2>3. h \in OfAttempts /\ h[1] = "attempt" /\ h[2] = t /\ h[3] = t.token  BY DEF OfAttempts
  <2> HIDE DEF r, h
  <2>4. OfAttempts' \subseteq OfAttempts \ {h}
    <3>1. h \notin OfAttempts'  BY <1>1, <2>3, KindsDiffer DEF Kinds
    <3> QED  BY <1>1, <3>1, KeptParts
  <2>5. OfLetters' \subseteq OfLetters \ {h}  BY <1>1, <2>3, SameLetters, KindsDiffer DEF Kinds, SameLetter
  <2>6. OfCodes' \subseteq OfCodes \ {h} /\ OfTickets' \subseteq OfTickets \ {h}  BY <1>1, <2>3, KeptParts, KindsDiffer DEF Kinds
  <2>7. h \in Openers /\ h[1] # "request" /\ r.token = h[3]  BY <2>2, <2>3 DEF Openers
  <2> QED  BY <1>1, <2>2, <2>4, <2>5, <2>6, <2>7, OnceCarried
<1> QED  BY <1>2, <1>3

LEMMA OnceRedeems == ASSUME AccountsIInv, SpentOnce, NEW q \in Request, NEW t \in tickets, redeem(q, t) PROVE SpentOnce'
<1> DEFINE h == <<"ticket", t, t.token>>
           row == [users[t.a] EXCEPT !.changed = t.changed]
           r == [Idle EXCEPT !.at = "signed in", !.a = t.a, !.row = row, !.by = "ticket", !.token = t.token, !.panel = TRUE]
<1>1. tickets' = tickets \ {t} /\ UNCHANGED <<users, codes, attempts, opened, drawn>> /\ (Keep(q, r) \/ Keep(q, Idle))  BY DEF redeem, history
<1>2. r.token = t.token  BY DEF Idle
<1>3. h \in OfTickets /\ h[1] = "ticket" /\ h[2] = t /\ h[3] = t.token  BY DEF OfTickets
<1>4. SameLetter /\ tickets' \subseteq tickets  BY <1>1 DEF SameLetter
<1> HIDE DEF row, r, h
<1>5. CASE Keep(q, Idle)  BY <1>1, <1>4, <1>5, OnceWriting
<1>6. CASE Keep(q, r)
  <2>1. OfTickets' \subseteq OfTickets \ {h}
    <3>1. h \notin OfTickets'  BY <1>1, <1>3, KindsDiffer DEF Kinds
    <3> QED  BY <1>4, <3>1, KeptParts
  <2>2. OfLetters' \subseteq OfLetters \ {h}  BY <1>3, <1>4, SameLetters, KindsDiffer DEF Kinds
  <2>3. OfCodes' \subseteq OfCodes \ {h} /\ OfAttempts' \subseteq OfAttempts \ {h}  BY <1>1, <1>3, KeptParts, KindsDiffer DEF Kinds
  <2>4. h \in Openers /\ h[1] # "request" /\ r.token = h[3]  BY <1>2, <1>3 DEF Openers
  <2> QED  BY <1>1, <1>6, <2>1, <2>2, <2>3, <2>4, OnceCarried
<1> QED  BY <1>1, <1>5, <1>6

\* A request that opens its session carries nothing any longer.
LEMMA OnceOpens ==
  ASSUME AccountsIInv, SpentOnce, NEW q \in Request, requests[q].at \in Carrying, Keep(q, Idle), Opens(requests[q].token),
         SameLetter, UNCHANGED <<codes, attempts, tickets, drawn>>
  PROVE  SpentOnce'
<1> DEFINE h == <<"request", q, requests[q].token>>
<1>1. h \in OfRequests /\ h[1] = "request" /\ h[2] = q /\ h[3] = requests[q].token  BY DEF OfRequests
<1> HIDE DEF h
<1>2. OfRequests' \subseteq OfRequests \ {h}  BY <1>1, RequestPart, IdleRequest DEF AccountsIInv, Carrying
<1>3. OfLetters' \subseteq OfLetters \ {h}  BY <1>1, SameLetters, KindsDiffer DEF Kinds
<1>4. OfCodes' \subseteq OfCodes \ {h} /\ OfAttempts' \subseteq OfAttempts \ {h} /\ OfTickets' \subseteq OfTickets \ {h}
  BY <1>1, KeptParts, KindsDiffer DEF Kinds
<1>5. Openers' \subseteq Openers \ {h}  BY <1>2, <1>3, <1>4 DEF Openers
<1>6. h \in Openers /\ Opens(h[3])  BY <1>1 DEF Openers
<1> QED  BY <1>5, <1>6, OnceSpent

LEMMA OnceLetterSession == ASSUME AccountsIInv, SpentOnce, NEW q \in Request, LetterSession(q) PROVE SpentOnce'
<1>1. requests[q].at \in Carrying  BY DEF LetterSession, At, Carrying
<1>2. Keep(q, Idle) /\ Opens(requests[q].token) /\ UNCHANGED <<codes, attempts, tickets, drawn>>  BY DEF LetterSession
<1>3. SameLetter  BY DEF LetterSession, SameLetter
<1> QED  BY <1>1, <1>2, <1>3, OnceOpens

\* What was accepted goes on carrying its token while the account is claimed.
LEMMA OnceSignedIn == ASSUME AccountsIInv, SpentOnce, NEW q \in Request, signed_in(q) PROVE SpentOnce'
<1> DEFINE a == requests[q].a
           new == Reset(users[a])
           r == [requests[q] EXCEPT !.at = "read back"]
<1>1. requests[q].at = "signed in"  BY DEF signed_in, At
<1>2. requests[q] \in RequestRow /\ a \in Registered /\ a \in Account /\ users[a] \in UserRow  BY <1>1, Finds
<1>3. Put(a, new) \/ UNCHANGED users  BY DEF signed_in
<1>4. (Keep(q, r) \/ Keep(q, Idle)) /\ UNCHANGED <<codes, attempts, tickets, opened, drawn>>  BY DEF signed_in, history
<1>5. new.confirmation = users[a].confirmation  BY <1>2, ResetRow
<1>6. r.token = requests[q].token  BY <1>2 DEF RequestRow
<1> HIDE DEF new, a, r
<1>7. SameLetter
  <2>1. CASE UNCHANGED users  BY <2>1 DEF SameLetter
  <2>2. CASE Put(a, new)  BY <1>2, <1>5, <2>2, SameToken
  <2> QED  BY <1>3, <2>1, <2>2
<1>8. CASE Keep(q, Idle)  BY <1>4, <1>7, <1>8, OnceWriting
<1>9. CASE Keep(q, r)
  <2>1. \A p \in Request : requests'[p] = IF p = q THEN r ELSE requests[p]  BY <1>9 DEF Keep, AccountsIInv, Shape
  <2>2. SameCarried  BY <1>1, <1>6, <2>1 DEF SameCarried, Carrying
  <2>3. SameCodes  BY <1>4 DEF SameCodes
  <2> QED  BY <1>4, <1>7, <2>2, <2>3, SameOpeners
<1> QED  BY <1>4, <1>8, <1>9

LEMMA OnceReadsBack == ASSUME AccountsIInv, SpentOnce, NEW q \in Request, read_back(q) PROVE SpentOnce'
<1> DEFINE r == [requests[q] EXCEPT !.at = "ticket"]
<1>1. requests[q].at = "read back"  BY DEF read_back, At
<1>2. requests[q] \in RequestRow  BY <1>1, Finds
<1>3. UNCHANGED <<users, codes, attempts, tickets, drawn>>  BY DEF read_back
<1>4. \/ Keep(q, Idle) /\ Opens(requests[q].token)
      \/ UNCHANGED opened /\ (Keep(q, r) \/ Keep(q, Idle))
  BY DEF read_back
<1>5. r.at = "ticket"  BY <1>2 DEF RequestRow
<1>6. SameLetter  BY <1>3 DEF SameLetter
<1> HIDE DEF r
<1>7. CASE Keep(q, Idle) /\ Opens(requests[q].token)  BY <1>1, <1>3, <1>6, <1>7, OnceOpens DEF Carrying
<1>8. CASE UNCHANGED opened /\ (Keep(q, r) \/ Keep(q, Idle))  BY <1>3, <1>5, <1>8, OnceReading DEF Carrying
<1> QED  BY <1>4, <1>7, <1>8

\* A ticket opens under a token of its own.
LEMMA OnceInsertsTicket == ASSUME AccountsIInv, SpentOnce, NEW q \in Request, create_ticket(q) PROVE SpentOnce'
<1> DEFINE row == requests[q].row
           t == [token |-> drawn + 1, a |-> requests[q].a, epoch |-> row.epoch, changed |-> row.changed]
           k == <<"ticket", t, drawn + 1>>
<1>1. tickets' = tickets \cup {t} /\ drawn' = drawn + 1 /\ Keep(q, Idle) /\ UNCHANGED <<users, codes, attempts, opened>>  BY DEF create_ticket, Draws, history
<1>2. k = <<"ticket", t, t.token>> /\ k[3] = drawn + 1  OBVIOUS
<1> HIDE DEF t, k, row
<1>3. OfTickets' \subseteq OfTickets \cup {k}  BY <1>1, <1>2 DEF OfTickets
<1>4. OfLetters' = OfLetters  BY <1>1 DEF OfLetters, Registered
<1>5. OfRequests' \subseteq OfRequests  BY <1>1, RequestPart, IdleRequest DEF AccountsIInv, Carrying
<1>6. OfCodes' \subseteq OfCodes /\ OfAttempts' \subseteq OfAttempts  BY <1>1, KeptParts
<1>7. Openers' \subseteq Openers \cup {k}  BY <1>3, <1>4, <1>5, <1>6 DEF Openers
<1> QED  BY <1>1, <1>2, <1>7, OnceDrawn

-----------------------------------------------------------------------------
(* Sessions are earned.                                                    *)

LEMMA OnceStart == ASSUME Init PROVE SpentOnce
<1>1. \A a \in Account : users[a] # None => users[a].confirmation = None  BY DEF Init, Blank
<1>2. \A m \in Mailbox : codes[m] = None  BY DEF Init
<1>3. attempts = {} /\ tickets = {} /\ requests = [q \in Request |-> Idle]  BY DEF Init
<1>4. \A q \in Request : requests[q].at = "idle"  BY <1>3, IdleRequest
<1>5. Openers = {}  BY <1>1, <1>2, <1>3, <1>4 DEF Openers, OfLetters, OfCodes, OfAttempts, OfTickets, OfRequests, Registered, Carrying
<1>6. \A t \in DOMAIN opened : opened[t] = 0  BY DEF Init
<1> QED  BY <1>5, <1>6 DEF SpentOnce

LEMMA OnceHandle == ASSUME AccountsIInv, SpentOnce, NEW q \in Request, Handle(q) PROVE SpentOnce'
BY OnceSettlesSignIn, OnceReadsBack, OnceInsertsTicket, OnceInsertsAttempt, OnceGuesses, OnceReadsCount, OnceClaimsConfirmation, OnceClaimsRecovery, OnceHandlers, OnceSettlesConfirmation, OnceLetterSession,
   OnceSettlesPassword, OnceSpendsRecovery, OnceSettlesAccount, OnceErases, OnceSignedIn, OnceSignsInSocially
DEF Handle

LEMMA OnceReceive == ASSUME AccountsIInv, SpentOnce, NEW q \in Request, Receive(q) PROVE SpentOnce'
<1>1. ASSUME NEW a \in Account, (\E p \in Password, panel \in BOOLEAN : sign_in(q, a, p, panel)) \/ resend_confirmation(q, a) \/ start_password_reset(q, a) \/ OperatorWrites(q, a)
      PROVE  SpentOnce'
  <2>1. CASE (\E p \in Password, panel \in BOOLEAN : sign_in(q, a, p, panel)) \/ resend_confirmation(q, a) \/ start_password_reset(q, a)
    BY <2>1, OnceBegins
  <2>2. CASE OperatorWrites(q, a)  BY <2>2, OnceOperator
  <2> QED  BY <1>1, <2>1, <2>2
<1>2. ASSUME NEW m \in Mailbox, (\E p \in Password : register(q, m, p)) \/ request_code(q, m) \/ WrongCode(q, m) \/ confirm_code(q, m)
      PROVE  SpentOnce'
  BY <1>2, OnceRegisters, OnceRequestsCode, OnceCode, OnceConfirmsCode
<1>3. ASSUME NEW l \in letters, confirm_sign_up(q, l) \/ \E p \in Password : confirm_password_reset(q, l, p)
      PROVE  SpentOnce'
  BY <1>3, OnceBegins
<1>4. ASSUME NEW s \in sessions,
             \/ (\E m \in Mailbox \cup {None} : load(q, s, "settle account", m)) \/ load(q, s, "erase", None) \/ load(q, s, "disconnect", None)
             \/ \E old, new \in Password : change_password(q, s, old, new)
      PROVE  SpentOnce'
  BY <1>4, OnceBegins
<1>5. ASSUME NEW s \in sessions \cup {None}, NEW panel \in BOOLEAN, start_social(q, s, panel)
      PROVE  SpentOnce'
  BY <1>5, OnceStartsSocial
<1> QED  BY <1>1, <1>2, <1>3, <1>4, <1>5, OnceReturns, OnceRedeems DEF Receive

LEMMA OnceNext == ASSUME AccountsIInv, SpentOnce, [Next]_vars PROVE SpentOnce'
<1>1. CASE UNCHANGED vars
  <2>1. SameLetter /\ SameCarried /\ SameCodes  BY <1>1 DEF vars, SameLetter, SameCarried, SameCodes
  <2> QED  BY <1>1, <2>1, SameOpeners DEF vars
<1>2. CASE Next  BY <1>2, OnceHandle, OnceReceive, OnceTime, OnceCode DEF Next
<1> QED  BY <1>1, <1>2

\* A letter, a code, an attempt and a ticket open one session each however often they are sent (conditioned writes, FOR UPDATE and consumed rows), and a new password ends the sessions of the one before it, whatever they were opened with and however late they were minted.
THEOREM EverySessionIsEarned == Spec => []SessionsAreEarned
<1>1. Init => SessionsIInv  BY AccountsStart, EvenStart, OnceStart DEF SessionsIInv
<1>2. SessionsIInv /\ [Next]_vars => SessionsIInv'  BY AccountsStep, EvenNext, OnceNext DEF SessionsIInv
<1>3. SessionsIInv => SessionsAreEarned
  <2>1. ASSUME AccountsIInv, Evenly, NEW s \in sessions, load_user(s), s.by # "letter"
        PROVE  s.under = users[s.a].changed
    <3>1. s.a \in Registered  BY <2>1 DEF AccountsIInv, SessionsKept
    <3>2. users[s.a].epoch = users[s.a].changed /\ s.epoch = s.under  BY <2>1, <3>1 DEF Evenly, OneEpoch
    <3> QED  BY <2>1, <3>2 DEF load_user
  <2>2. SpentOnce => OpensOnce  BY DEF SpentOnce, OpensOnce
  <2> QED  BY <2>1, <2>2 DEF SessionsAreEarned, OldSessionsEnd, SessionsIInv
<1> QED  BY <1>1, <1>2, <1>3, PTL DEF Spec

=============================================================================
