---------------------------- MODULE RecordsProofs ----------------------------
(***************************************************************************)
(* Theorems about what the panel writes, and what the site answers from it *)
(*                                                                         *)
(* Files: for any number of files, records, accounts and requests, while a *)
(* record is edited by one request at a time, a file stays exactly as long *)
(* as something names it.                                                  *)
(*                                                                         *)
(* Catalogue: for any number of brands and rows, while one request is at   *)
(* work, a row points only at what its brand reaches, an operator writes   *)
(* only rows of his brand, and a brand can always be emptied.              *)
(*                                                                         *)
(* Site: for any number of brands, languages, rows, readers and edits, a   *)
(* reader is answered out of their own brand, language and page, whatever  *)
(* the cache was filled with and by whom.                                  *)
(***************************************************************************)
EXTENDS Catalogue, Files, Site, FiniteSetTheorems, WellFoundedInduction, TLAPS

-----------------------------------------------------------------------------
(* Files: the inductive invariant.                                         *)

FilePlaces == {"idle", "save", "hold", "create", "mention", "commit", "delete", "release", "check", "drop", "discard", "sweep"}
RequestRow == [at : FilePlaces, owner : Owner \cup {None}, old : OwnerRow \cup {None}, new : OwnerRow \cup {None},
               add : SUBSET File, drop : SUBSET File, files : SUBSET File, seen : SUBSET (File \X Nat)]

\* A request that read a row to write it, and one that writes down what the row is to name.
Writing == {"create", "mention", "commit", "delete"}
Naming == {"create", "mention", "commit"}

FilesShape ==
  /\ FilesTypeOK
  /\ bucket \subseteq File /\ drawn \in Nat /\ stamp \in Nat /\ crashed \in BOOLEAN
  /\ requests \in [Request -> RequestRow]

\* A uuid that was not drawn is nowhere, and no stamp is in the future.
NothingAhead ==
  /\ \A f \in Stored : f <= drawn /\ stored[f].claimed <= stamp
  /\ \A f \in keys : f <= drawn
  /\ \A o \in Owner : \A f \in Names(owners[o]) : f <= drawn

\* What is written down or could be chosen is in the bucket while it has its row, and every name is written down.
NamesStand ==
  /\ \A s \in mentions : s[1] \in bucket
  /\ \A f \in keys \cap Stored : f \in bucket
  /\ \A o \in Owner : owners[o] # None => owners[o].key \in Held(o) \cup {None}
  /\ NamesAreWritten

FilesCore == FilesShape /\ NothingAhead /\ NamesStand

\* The file of an upload under way.
Carried(q) == IF requests[q].at \in {"save", "hold", "mention", "commit"} THEN requests[q].files ELSE {}

\* Nothing but the request has heard of the file it carries, and it is in the bucket once it was saved.
CarriesAlone(q) ==
  /\ \A f \in Carried(q) :
       /\ f \notin keys /\ \A o \in Owner : f \notin Names(owners[o]) /\ <<f, o>> \notin mentions
       /\ (requests[q].at # "save" /\ f \in Stored) => f \in bucket
  /\ requests[q].at = "save" => requests[q].files # {} /\ requests[q].owner \in Account \cup {None}
  /\ requests[q].at = "hold" => requests[q].files # {} /\ requests[q].owner \in Account

\* The row a request may write.
Writes(q, o) == requests[q].at \in Writing /\ requests[q].owner = o

\* What a request read of the row it writes is still the row, and what it is to name is what the row will name.
WriterRelies(q) ==
  /\ requests[q].at \in Writing => requests[q].owner \in Owner
  /\ \A o \in Owner : Writes(q, o) => owners[o] = requests[q].old
  /\ requests[q].at \in Naming => requests[q].new \in OwnerRow /\ Names(requests[q].new) \subseteq keys \cup Carried(q)
  /\ requests[q].at \in {"mention", "delete"} => requests[q].old # None
  /\ requests[q].at = "create" => requests[q].old = None /\ requests[q].owner \in Record /\ requests[q].files = {}
  /\ requests[q].at = "delete" => \A o \in Owner : requests[q].owner = o => requests[q].drop = Held(o)
  /\ requests[q].at = "commit" => \A o \in Owner : requests[q].owner = o =>
       /\ requests[q].drop = Held(o) \ Names(requests[q].new)
       /\ requests[q].add \subseteq (Names(requests[q].new) \cap Stored) \ Held(o)
       /\ Names(requests[q].new) \cap Stored \subseteq Held(o) \cup requests[q].add
       /\ requests[q].new.key \in Held(o) \cup requests[q].add \cup {None}

\* Whatever a release is about to take is unnamed unless its stamp moved, and what lost its row has no row.
TakesUnnamed(q) ==
  /\ \A f \in requests[q].files : f <= drawn
  /\ \A s \in requests[q].seen : s[2] <= stamp
  /\ requests[q].at = "drop" => \A f \in Stored : <<f, stored[f].claimed>> \in requests[q].seen => f \in unnamed
  /\ requests[q].at = "discard" => requests[q].files \cap Stored = {}

RequestFits(q) == CarriesAlone(q) /\ WriterRelies(q) /\ TakesUnnamed(q)

\* No two uploads carry one file, and no two requests write one row.
Apart ==
  \A p, q \in Request : p # q =>
    /\ Carried(p) \cap Carried(q) = {}
    /\ (requests[p].at \in Writing /\ requests[q].at \in Writing) => requests[p].owner # requests[q].owner

\* Who is going to release the file.
Releases(q, f) ==
  \/ requests[q].at = "release" /\ f \in requests[q].files
  \/ requests[q].at \in {"check", "drop"} /\ <<f, stored[f].claimed>> \in requests[q].seen

SomebodyReleases == ~crashed => \A f \in Stored : (stored[f].claimed > 0 /\ f \in unnamed) => \E q \in Request : Releases(q, f)

FilesIInv == FilesCore /\ (\A q \in Request : RequestFits(q)) /\ Apart /\ SomebodyReleases

-----------------------------------------------------------------------------
(* What a step of one request leaves to the others.                        *)

StepOf(q) ==
  /\ \A p \in Request \ {q} : requests'[p] = requests[p]
  /\ drawn <= drawn' /\ drawn' \in Nat /\ stamp <= stamp' /\ stamp' \in Nat
  /\ keys \subseteq keys' /\ keys' \subseteq keys \cup Carried(q)
  /\ \A o \in Owner : ~Writes(q, o) => owners'[o] = owners[o] /\ Held(o)' = Held(o)
  /\ \A o \in Owner : Names(owners'[o]) \subseteq Names(owners[o]) \cup keys \cup Carried(q)
  /\ \A s \in mentions' : s \in mentions \/ s[1] \in keys \cup Carried(q)
  /\ \A f \in Stored' : f \in Stored \/ f > drawn
  /\ \A f \in Stored \ Stored' : f \notin LockedFiles(q)
  /\ \A f \in bucket \ bucket' : f \in Carried(q) \/ f \notin Stored'
  /\ \A f \in Stored \cap Stored' : (stored'[f].claimed = stored[f].claimed /\ (f \in unnamed => f \in unnamed')) \/ stored'[f].claimed > stamp
  /\ \A f \in Carried(q)' : f \in Carried(q) \/ f > drawn
  /\ \A o \in Owner : Writes(q, o)' => \A p \in Request \ {q} : ~Writes(p, o)

LEMMA OthersFit ==
  ASSUME FilesIInv, FilesShape', NEW q \in Request, StepOf(q), NEW p \in Request \ {q}
  PROVE  RequestFits(p)'
<1>1. requests'[p] = requests[p] /\ p # q /\ p \in Request  BY DEF StepOf
<1>2. Carried(p)' = Carried(p)  BY <1>1 DEF Carried
<1>3. Carried(p) \cap Carried(q) = {}  BY <1>1 DEF FilesIInv, Apart
<1>4. RequestFits(p)  BY DEF FilesIInv
<1>5. requests[p] \in RequestRow  BY DEF FilesIInv, FilesCore, FilesShape
<1>6. \A f \in Carried(p) : f <= drawn  BY <1>4 DEF RequestFits, TakesUnnamed, Carried
<1>7. CarriesAlone(p)'
  <2>1. ASSUME NEW f \in Carried(p) PROVE f \notin keys' /\ ((requests[p].at # "save" /\ f \in Stored') => f \in bucket')
    <3>1. f \notin keys /\ f \notin Carried(q) /\ f \in Nat /\ f <= drawn
      BY <1>3, <1>4, <1>5, <1>6, <2>1, FilesAssumption DEF RequestFits, CarriesAlone, Carried, RequestRow
    <3>2. f \in Stored' => f \in Stored
      BY <3>1 DEF StepOf, FilesIInv, FilesCore, FilesShape
    <3>3. (requests[p].at # "save" /\ f \in Stored) => f \in bucket
      BY <1>4 DEF RequestFits, CarriesAlone
    <3> QED  BY <3>1, <3>2, <3>3 DEF StepOf
  <2>2. ASSUME NEW f \in Carried(p), NEW o \in Owner PROVE f \notin Names(owners'[o]) /\ <<f, o>> \notin mentions'
    BY <1>3, <1>4 DEF RequestFits, CarriesAlone, StepOf
  <2> QED  BY <1>1, <1>2, <1>4, <2>1, <2>2 DEF RequestFits, CarriesAlone
<1>8. WriterRelies(p)'
  <2>1. CASE requests[p].at \notin Writing
    BY <1>1, <2>1 DEF WriterRelies, Writes, Writing, Naming
  <2>2. CASE requests[p].at \in Writing
    <3>1. PICK o \in Owner : o = requests[p].owner
      BY <1>4, <2>2 DEF RequestFits, WriterRelies
    <3>2. ~Writes(q, o) /\ WriterRelies(p)
      BY <1>1, <1>4, <2>2, <3>1 DEF FilesIInv, Apart, Writes, RequestFits
    <3>3. owners'[o] = owners[o] /\ Held(o)' = Held(o)
      BY <3>2 DEF StepOf
    <3>4. CASE requests[p].at # "commit"
      BY <1>1, <1>2, <3>1, <3>2, <3>3, <3>4, <2>2 DEF WriterRelies, Writes, StepOf, Writing, Naming
    <3>5. CASE requests[p].at = "commit"
      <4>1. Names(requests[p].new) \subseteq keys \cup Carried(p)
        BY <3>2, <3>5 DEF WriterRelies, Naming
      <4>2. \A f \in keys \cup Carried(p) : f \in Nat /\ f <= drawn
        BY <1>5, <1>6, FilesAssumption DEF FilesIInv, FilesCore, NothingAhead, Carried, RequestRow, FilesShape, FilesTypeOK
      <4>3. Names(requests[p].new) \cap Stored' \subseteq Names(requests[p].new) \cap Stored
        BY <4>1, <4>2 DEF StepOf, FilesIInv, FilesCore, FilesShape
      <4>4. requests[p].add \subseteq LockedFiles(q)
        BY <1>1, <3>5 DEF LockedFiles, At
      <4>5. requests[p].add \subseteq Stored /\ requests[p].add \subseteq Stored'
        BY <3>1, <3>2, <3>5, <4>4 DEF StepOf, WriterRelies
      <4>6. keys \subseteq keys'
        BY DEF StepOf
      <4> QED  BY <1>1, <1>2, <3>1, <3>2, <3>3, <3>5, <4>3, <4>5, <4>6 DEF WriterRelies, Writes, Writing, Naming
    <3> QED  BY <3>4, <3>5
  <2> QED  BY <2>1, <2>2
<1>9. TakesUnnamed(p)'
  <2>1. TakesUnnamed(p) /\ drawn \in Nat /\ stamp \in Nat
    BY <1>4 DEF RequestFits, FilesIInv, FilesCore, FilesShape
  <2>2. ASSUME NEW f \in requests[p].files PROVE f \in Nat /\ f <= drawn /\ f <= drawn'
    <3>1. f \in Nat  BY <1>5, FilesAssumption DEF RequestRow
    <3>2. f <= drawn  BY <2>1 DEF TakesUnnamed
    <3> QED  BY <2>1, <3>1, <3>2 DEF StepOf
  <2>3. \A s \in requests[p].seen : s[2] \in Nat /\ s[2] <= stamp /\ s[2] <= stamp'
    BY <1>5, <2>1 DEF TakesUnnamed, StepOf, RequestRow
  <2>4. ASSUME requests[p].at = "drop", NEW f \in Stored', <<f, stored'[f].claimed>> \in requests[p].seen
        PROVE  f \in unnamed'
    <3>1. ~(stored'[f].claimed > stamp)
      BY <2>3, <2>4, <2>1
    <3>2. f \in File
      BY DEF Stored
    <3>3. CASE f \in Stored
      BY <2>1, <2>4, <3>1, <3>3 DEF StepOf, TakesUnnamed
    <3>4. CASE f \notin Stored
      <4>1. f > drawn  BY <3>4 DEF StepOf
      <4>2. \A o \in Owner : <<f, o>> \notin mentions
        BY <3>4 DEF FilesIInv, FilesCore, FilesShape, FilesTypeOK
      <4>3. \A g \in keys \cup Carried(q) : g \in Nat /\ g <= drawn
        BY FilesAssumption DEF FilesIInv, FilesCore, NothingAhead, FilesShape, FilesTypeOK, RequestFits, TakesUnnamed, Carried, RequestRow
      <4>4. \A o \in Owner : <<f, o>> \notin mentions'
        BY <4>1, <4>2, <4>3, <2>1 DEF StepOf
      <4> QED  BY <3>2, <4>4 DEF unnamed
    <3> QED  BY <3>3, <3>4
  <2>5. requests[p].at = "discard" => requests[p].files \cap Stored' = {}
    BY <2>1, <2>2, <1>5 DEF TakesUnnamed, StepOf
  <2> QED  BY <1>1, <2>2, <2>3, <2>4, <2>5 DEF TakesUnnamed
<1> QED  BY <1>7, <1>8, <1>9 DEF RequestFits

LEMMA StillApart ==
  ASSUME FilesIInv, NEW q \in Request, StepOf(q)
  PROVE  Apart'
<1>1. \A p \in Request : \A f \in Carried(p) : f \in Nat /\ f <= drawn
  BY FilesAssumption DEF FilesIInv, FilesCore, FilesShape, RequestFits, TakesUnnamed, Carried, RequestRow
<1>2. drawn \in Nat  BY DEF FilesIInv, FilesCore, FilesShape
<1>3. \A p \in Request \ {q} : requests'[p] = requests[p] /\ Carried(p)' = Carried(p)  BY DEF StepOf, Carried
<1>4. \A p \in Request \ {q} : Carried(p) \cap Carried(q)' = {}
  BY <1>1, <1>2 DEF StepOf, FilesIInv, Apart
<1>5. \A p \in Request \ {q} : (requests[p].at \in Writing /\ requests'[q].at \in Writing) => requests[p].owner # requests'[q].owner
  BY <1>3 DEF StepOf, Writes, FilesIInv, RequestFits, WriterRelies
<1> QED  BY <1>3, <1>4, <1>5 DEF Apart, FilesIInv

LEMMA FilesKept ==
  ASSUME FilesIInv, NEW q \in Request, FilesCore', StepOf(q), RequestFits(q)', SomebodyReleases'
  PROVE  FilesIInv'
<1>1. \A p \in Request \ {q} : RequestFits(p)'  BY OthersFit DEF FilesCore
<1> QED  BY <1>1, StillApart DEF FilesIInv

\* A file that nothing names goes on to be released when it was, unless the step names it.
LEMMA StillReleased ==
  ASSUME SomebodyReleases, NEW q \in Request, \A p \in Request \ {q} : requests'[p] = requests[p], crashed => crashed',
         \A f \in Stored' : (stored'[f].claimed > 0 /\ f \in unnamed') =>
           \/ Releases(q, f)'
           \/ f \in Stored /\ stored'[f].claimed = stored[f].claimed /\ f \in unnamed /\ ~Releases(q, f)
  PROVE  SomebodyReleases'
<1>1. SUFFICES ASSUME ~crashed', NEW f \in Stored', stored'[f].claimed > 0, f \in unnamed', ~Releases(q, f)'
               PROVE  \E p \in Request : Releases(p, f)'
  BY DEF SomebodyReleases
<1>2. f \in Stored /\ stored'[f].claimed = stored[f].claimed /\ f \in unnamed /\ ~Releases(q, f)
  BY <1>1
<1>3. PICK p \in Request : Releases(p, f)
  BY <1>1, <1>2 DEF SomebodyReleases
<1>4. p # q /\ requests'[p] = requests[p]
  BY <1>2, <1>3
<1>5. Releases(p, f)'
  BY <1>2, <1>3, <1>4 DEF Releases
<1> QED  BY <1>5

\* A step that only moves its request on.
LEMMA OnlyMoves ==
  ASSUME FilesIInv, NEW q \in Request, NEW r \in RequestRow, Go(q, r), UNCHANGED <<stored, bucket, mentions, owners, keys, drawn, stamp>>,
         crashed' \in BOOLEAN, crashed => crashed',
         Carried(q)' \subseteq Carried(q),
         r.at \in Writing => \A p \in Request \ {q} : ~Writes(p, r.owner),
         RequestFits(q)',
         crashed' \/ \A f \in Stored : (f \in unnamed /\ Releases(q, f)) => Releases(q, f)'
  PROVE  FilesIInv'
<1>1. requests'[q] = r /\ requests' \in [Request -> RequestRow] /\ \A p \in Request \ {q} : requests'[p] = requests[p]
  BY DEF Go, FilesIInv, FilesCore, FilesShape
<1>2. Stored' = Stored /\ unnamed' = unnamed /\ \A o \in Owner : Held(o)' = Held(o)
  BY DEF Stored, unnamed, Held
<1>3. FilesCore'
  <2>1. FilesTypeOK'  BY <1>2 DEF FilesIInv, FilesCore, FilesShape, FilesTypeOK
  <2>2. FilesShape'  BY <1>1, <2>1 DEF FilesIInv, FilesCore, FilesShape
  <2>3. NothingAhead'  BY <1>2 DEF FilesIInv, FilesCore, NothingAhead
  <2>4. NamesStand'  BY <1>2 DEF FilesIInv, FilesCore, NamesStand, NamesAreWritten
  <2> QED  BY <2>2, <2>3, <2>4 DEF FilesCore
<1>4. StepOf(q)
  <2>1. drawn \in Nat /\ stamp \in Nat  BY DEF FilesIInv, FilesCore, FilesShape
  <2>2. \A o \in Owner : Writes(q, o)' => \A p \in Request \ {q} : ~Writes(p, o)
    BY <1>1 DEF Writes
  <2> QED  BY <1>1, <1>2, <2>1, <2>2 DEF StepOf
<1>5. SomebodyReleases'
  <2>1. CASE crashed'  BY <2>1 DEF SomebodyReleases
  <2>2. CASE ~crashed'  BY <1>1, <1>2, <2>2, StillReleased DEF FilesIInv
  <2> QED  BY <2>1, <2>2
<1> QED  BY <1>3, <1>4, <1>5, FilesKept

-----------------------------------------------------------------------------
(* Steps that read.                                                        *)

LEMMA EditFits ==
  ASSUME FilesIInv, OneEditor, NEW q \in Request, NEW o \in Record, NEW row \in OwnerRow, edit(q, o, row)
  PROVE  FilesIInv'
<1> DEFINE r == [Idle EXCEPT !.at = IF owners[o] = None THEN "create" ELSE "mention", !.owner = o, !.old = owners[o], !.new = row]
<1>1. r \in RequestRow /\ r.at \in {"create", "mention"} /\ r.owner = o /\ r.old = owners[o] /\ r.new = row /\ r.files = {} /\ r.seen = {} /\ (r.at = "create" <=> owners[o] = None)
  BY DEF FilesIInv, FilesCore, FilesShape, FilesTypeOK, Idle, RequestRow, FilePlaces, Owner
<1>2. Go(q, r) /\ At(q, "idle") /\ Names(row) \subseteq keys /\ \A p \in Request : requests[p].owner # o
  BY DEF edit, MayWrite
<1>3. requests'[q] = r
  BY <1>2 DEF Go, FilesIInv, FilesCore, FilesShape
<1>4. UNCHANGED <<stored, bucket, mentions, owners, keys, drawn, stamp, crashed>>
  BY DEF edit
<1>5. Carried(q)' = {} /\ ~\E f \in Stored : Releases(q, f)
  BY <1>1, <1>2, <1>3 DEF Carried, Releases, At
<1>6. RequestFits(q)'
  BY <1>1, <1>2, <1>3, <1>4, <1>5 DEF RequestFits, CarriesAlone, WriterRelies, Writes, TakesUnnamed, Writing, Naming, Owner
<1>7. \A p \in Request \ {q} : ~Writes(p, r.owner)
  BY <1>1, <1>2 DEF Writes
<1>8. crashed' \in BOOLEAN
  BY <1>4 DEF FilesIInv, FilesCore, FilesShape
<1> HIDE DEF r
<1> QED  BY <1>1, <1>2, <1>4, <1>5, <1>6, <1>7, <1>8, OnlyMoves

\* Who holds an account while nobody else may write it.
LEMMA LockedAccount ==
  ASSUME FilesIInv, NEW q \in Request, NEW o \in Account, ~LockedOwner(q, o), NEW p \in Request \ {q}
  PROVE  ~Writes(p, o)
<1>1. SUFFICES ASSUME Writes(p, o) PROVE FALSE  OBVIOUS
<1>2. requests[p].at = "create" /\ requests[p].owner = o
  BY <1>1 DEF Writes, Writing, LockedOwner, Holding
<1>3. RequestFits(p)
  BY DEF FilesIInv
<1> QED
  BY <1>2, <1>3, FilesAssumption DEF RequestFits, WriterRelies

LEMMA AvatarSettles ==
  ASSUME FilesIInv, NEW q \in Request, settle_avatar(q), owners[requests[q].owner] # None
  PROVE  FilesIInv'
<1> DEFINE o == requests[q].owner
           f == CHOOSE g \in requests[q].files : TRUE
           new == [Bare EXCEPT !.key = f]
           r == [requests[q] EXCEPT !.at = "mention", !.old = owners[o], !.new = new]
<1>1. At(q, "hold") /\ o \in Account /\ f \in requests[q].files /\ RequestFits(q)
  BY DEF settle_avatar, FilesIInv, RequestFits, CarriesAlone, At
<1>2. requests[q] \in RequestRow /\ owners[o] \in OwnerRow /\ o \in Owner
  BY <1>1 DEF FilesIInv, FilesCore, FilesShape, FilesTypeOK, settle_avatar, Owner
<1>3. f \in File /\ new \in OwnerRow /\ Names(new) = {f}
  <2>1. f \in File  BY <1>1, <1>2 DEF RequestRow
  <2> HIDE DEF f
  <2>2. new = [key |-> f, text |-> {}] /\ f # None  BY <2>1, FilesAssumption DEF Bare
  <2>3. new \in OwnerRow  BY <2>1, <2>2 DEF OwnerRow
  <2>4. new # None  BY <2>3, FilesAssumption
  <2> QED  BY <2>1, <2>2, <2>3, <2>4 DEF Names
<1>4. Go(q, r) /\ ~LockedOwner(q, o) /\ UNCHANGED <<stored, bucket, mentions, owners, keys, drawn, stamp, crashed>>
  BY DEF settle_avatar
<1> HIDE DEF f, new
<1>5. r \in RequestRow /\ r.at = "mention" /\ r.owner = o /\ r.old = owners[o] /\ r.new = new /\ r.files = requests[q].files /\ r.seen = requests[q].seen
  BY <1>2, <1>3 DEF RequestRow, FilePlaces
<1> HIDE DEF r
<1>6. requests'[q] = r
  BY <1>4 DEF Go, FilesIInv, FilesCore, FilesShape
<1>7. Carried(q) = requests[q].files /\ Carried(q)' = requests[q].files /\ ~\E g \in Stored : Releases(q, g)
  BY <1>1, <1>5, <1>6 DEF Carried, Releases, At
<1>8. \A p \in Request \ {q} : ~Writes(p, r.owner)
  BY <1>1, <1>4, <1>5, LockedAccount
<1>9. RequestFits(q)'
  <2>1. CarriesAlone(q)'
    BY <1>1, <1>4, <1>5, <1>6, <1>7 DEF RequestFits, CarriesAlone, At, Stored
  <2>2. WriterRelies(q)'
    BY <1>1, <1>2, <1>3, <1>4, <1>5, <1>6, <1>7, FilesAssumption DEF WriterRelies, Writes, Writing, Naming
  <2>3. TakesUnnamed(q)'
    BY <1>1, <1>4, <1>5, <1>6 DEF RequestFits, TakesUnnamed
  <2> QED  BY <2>1, <2>2, <2>3 DEF RequestFits
<1>10. crashed' \in BOOLEAN
  BY <1>4 DEF FilesIInv, FilesCore, FilesShape
<1> QED  BY <1>4, <1>5, <1>7, <1>8, <1>9, <1>10, OnlyMoves

LEMMA AvatarDiscards ==
  ASSUME FilesIInv, NEW q \in Request, NEW o \in Account, discard_avatar(q, o)
  PROVE  FilesIInv'
<1> DEFINE r == [Idle EXCEPT !.at = "mention", !.owner = o, !.old = owners[o], !.new = Bare]
<1>1. Bare \in OwnerRow /\ Names(Bare) = {} /\ o \in Owner
  <2>1. Bare \in OwnerRow  BY DEF Bare, OwnerRow
  <2> QED  BY <2>1, FilesAssumption DEF Names, Bare, Owner
<1>2. r \in RequestRow /\ r.at = "mention" /\ r.owner = o /\ r.old = owners[o] /\ r.new = Bare /\ r.files = {} /\ r.seen = {}
  BY <1>1 DEF FilesIInv, FilesCore, FilesShape, FilesTypeOK, Idle, RequestRow, FilePlaces
<1>3. Go(q, r) /\ At(q, "idle") /\ ~LockedOwner(q, o) /\ owners[o] # None /\ UNCHANGED <<stored, bucket, mentions, owners, keys, drawn, stamp, crashed>>
  BY DEF discard_avatar
<1> HIDE DEF r
<1>4. requests'[q] = r
  BY <1>3 DEF Go, FilesIInv, FilesCore, FilesShape
<1>5. Carried(q)' = {} /\ ~\E f \in Stored : Releases(q, f)
  BY <1>2, <1>3, <1>4 DEF Carried, Releases, At
<1>6. RequestFits(q)'
  BY <1>1, <1>2, <1>3, <1>4, <1>5 DEF RequestFits, CarriesAlone, WriterRelies, Writes, TakesUnnamed, Writing, Naming
<1>7. \A p \in Request \ {q} : ~Writes(p, r.owner)
  BY <1>2, <1>3, LockedAccount
<1>8. crashed' \in BOOLEAN
  BY <1>3 DEF FilesIInv, FilesCore, FilesShape
<1> QED  BY <1>2, <1>3, <1>5, <1>6, <1>7, <1>8, OnlyMoves

LEMMA ForgetFits ==
  ASSUME FilesIInv, OneEditor, NEW q \in Request, NEW o \in Owner, forget(q, o)
  PROVE  FilesIInv'
<1> DEFINE r == [Idle EXCEPT !.at = "delete", !.owner = o, !.old = owners[o], !.drop = Held(o)]
<1>1. r \in RequestRow /\ r.at = "delete" /\ r.owner = o /\ r.old = owners[o] /\ r.drop = Held(o) /\ r.files = {} /\ r.seen = {}
  BY DEF FilesIInv, FilesCore, FilesShape, FilesTypeOK, Idle, RequestRow, FilePlaces, Held
<1>2. Go(q, r) /\ At(q, "idle") /\ owners[o] # None /\ UNCHANGED <<stored, bucket, mentions, owners, keys, drawn, stamp, crashed>>
  BY DEF forget
<1> HIDE DEF r
<1>3. requests'[q] = r
  BY <1>2 DEF Go, FilesIInv, FilesCore, FilesShape
<1>4. Carried(q)' = {} /\ ~\E f \in Stored : Releases(q, f)
  BY <1>1, <1>2, <1>3 DEF Carried, Releases, At
<1>5. RequestFits(q)'
  BY <1>1, <1>2, <1>3, <1>4 DEF RequestFits, CarriesAlone, WriterRelies, Writes, TakesUnnamed, Writing, Naming, Held
<1>6. \A p \in Request \ {q} : ~Writes(p, r.owner)
  <2>1. CASE o \in Record  BY <1>1, <2>1 DEF forget, MayWrite, Writes
  <2>2. CASE o \notin Record  BY <1>1, <2>2, LockedAccount DEF forget, Owner
  <2> QED  BY <2>1, <2>2
<1>7. crashed' \in BOOLEAN
  BY <1>2 DEF FilesIInv, FilesCore, FilesShape
<1> QED  BY <1>1, <1>2, <1>4, <1>5, <1>6, <1>7, OnlyMoves

\* What mention reads of the row and of its names is there to be committed.
LEMMA MentionFits ==
  ASSUME FilesIInv, NEW q \in Request, mention(q)
  PROVE  FilesIInv'
<1>1. requests[q] \in RequestRow /\ requests[q].at \in {"create", "mention"} /\ RequestFits(q) /\ FilesCore
  BY DEF mention, FilesIInv, FilesCore, FilesShape
<1>2. PICK o \in Owner : o = requests[q].owner
  BY <1>1 DEF RequestFits, WriterRelies, Writing
<1>3. PICK r \in RequestRow : r = requests[q]
  BY <1>1
<1> DEFINE add == Names(r.new) \ Held(o)
           c == [r EXCEPT !.at = "commit", !.add = add \cap Stored, !.drop = Held(o) \ Names(r.new)]
<1>4. ~LockedOwner(q, o) /\ UNCHANGED <<stored, bucket, mentions, owners, keys, drawn, stamp, crashed>>
      /\ (Go(q, Idle) \/ (Go(q, c) /\ ~(r.new.key \in add /\ r.new.key \notin Stored)))
  BY <1>2, <1>3 DEF mention
<1>5. r.new \in OwnerRow /\ Names(r.new) \subseteq File /\ r.new.key \in Names(r.new) \cup {None}
      /\ Names(r.new) \subseteq keys \cup Carried(q) /\ owners[o] = r.old /\ r.owner = o /\ r.at \in {"create", "mention"}
  <2>1. r.new \in OwnerRow /\ Names(r.new) \subseteq keys \cup Carried(q) /\ owners[o] = r.old /\ r.owner = o /\ r.at \in {"create", "mention"}
    BY <1>1, <1>2, <1>3 DEF RequestFits, WriterRelies, Writes, Writing, Naming
  <2> QED  BY <2>1, FilesAssumption DEF Names, OwnerRow
<1>6. c \in RequestRow /\ c.at = "commit" /\ c.owner = o /\ c.old = r.old /\ c.new = r.new
      /\ c.add = (Names(r.new) \ Held(o)) \cap Stored /\ c.drop = Held(o) \ Names(r.new) /\ c.files = r.files /\ c.seen = r.seen
  BY <1>5 DEF RequestRow, FilePlaces, Held, Stored
<1> HIDE DEF c
<1>7. PICK d \in RequestRow : d = c
  BY <1>6
<1>8. Stored' = Stored /\ \A x \in Owner : Held(x)' = Held(x)
  BY <1>4 DEF Held, Stored
<1>9. crashed' \in BOOLEAN /\ ~\E f \in Stored : Releases(q, f)
  BY <1>1, <1>4 DEF FilesCore, FilesShape, Releases
<1>10. CASE Go(q, Idle)
  <2>1. Idle \in RequestRow /\ Idle.at = "idle" /\ requests'[q] = Idle
    BY <1>10, <1>1 DEF Idle, RequestRow, FilePlaces, Go, FilesCore, FilesShape
  <2>2. RequestFits(q)' /\ Carried(q)' = {}
    BY <2>1 DEF RequestFits, CarriesAlone, Carried, WriterRelies, Writes, TakesUnnamed, Idle, Writing, Naming
  <2> QED  BY <1>4, <1>9, <1>10, <2>1, <2>2, OnlyMoves DEF Writing
<1>11. CASE Go(q, c) /\ ~(r.new.key \in add /\ r.new.key \notin Stored)
  <2>1. requests'[q] = d /\ Go(q, d)
    BY <1>1, <1>7, <1>11 DEF Go, FilesCore, FilesShape
  <2>2. d.at = "commit" /\ d.owner = o /\ d.old = r.old /\ d.new = r.new
        /\ d.add = (Names(r.new) \ Held(o)) \cap Stored /\ d.drop = Held(o) \ Names(r.new) /\ d.files = r.files /\ d.seen = r.seen
    BY <1>6, <1>7
  <2>3. \A p \in Request \ {q} : ~Writes(p, d.owner)
    BY <1>1, <1>2, <2>2 DEF FilesIInv, Apart, Writes, Writing
  <2>4. Carried(q)' = r.files
    BY <2>1, <2>2 DEF Carried
  <2>5. Carried(q)' = Carried(q)
    BY <1>1, <1>3, <2>4 DEF Carried, RequestFits, WriterRelies
  <2>6. CarriesAlone(q)'
    BY <1>1, <1>3, <1>4, <1>5, <1>8, <2>1, <2>2, <2>5 DEF RequestFits, CarriesAlone
  <2>7. d.new.key \in Held(o) \cup d.add \cup {None}
    BY <1>5, <1>11, <2>2
  <2>8. WriterRelies(q)'
    BY <1>2, <1>4, <1>5, <1>8, <2>1, <2>2, <2>4, <2>5, <2>7 DEF WriterRelies, Writes, Writing, Naming
  <2>9. TakesUnnamed(q)'
    BY <1>1, <1>3, <1>4, <2>1, <2>2 DEF RequestFits, TakesUnnamed
  <2> QED  BY <1>4, <1>9, <2>1, <2>3, <2>5, <2>6, <2>8, <2>9, OnlyMoves DEF RequestFits
<1> QED  BY <1>4, <1>10, <1>11

LEMMA CrashFits ==
  ASSUME FilesIInv, NEW q \in Request, Crash(q)
  PROVE  FilesIInv'
<1>1. Idle \in RequestRow /\ Idle.at = "idle"
  BY DEF Idle, RequestRow, FilePlaces
<1>2. Go(q, Idle) /\ crashed' = TRUE /\ UNCHANGED <<stored, bucket, mentions, owners, keys, drawn, stamp>>
  BY DEF Crash
<1>3. requests'[q] = Idle
  BY <1>2 DEF Go, FilesIInv, FilesCore, FilesShape
<1>4. RequestFits(q)' /\ Carried(q)' = {}
  BY <1>1, <1>3 DEF RequestFits, CarriesAlone, Carried, WriterRelies, Writes, TakesUnnamed, Idle, Writing, Naming
<1> QED  BY <1>1, <1>2, <1>4, OnlyMoves DEF Writing

\* What nothing named yet is read to be swept.
LEMMA OrphansFit ==
  ASSUME FilesIInv, NEW q \in Request, discard_orphans(q)
  PROVE  FilesIInv'
<1> DEFINE r == [Idle EXCEPT !.at = "sweep", !.files = waiting]
<1>1. r \in RequestRow /\ r.at = "sweep" /\ r.files = waiting /\ r.seen = {}
  BY DEF Idle, RequestRow, FilePlaces, waiting, Stored
<1>2. Go(q, r) /\ At(q, "idle") /\ UNCHANGED <<stored, bucket, mentions, owners, keys, drawn, stamp, crashed>>
  BY DEF discard_orphans
<1> HIDE DEF r
<1>3. requests'[q] = r /\ crashed' \in BOOLEAN
  BY <1>2 DEF Go, FilesIInv, FilesCore, FilesShape
<1>4. Carried(q)' = {} /\ ~\E f \in Stored : Releases(q, f)
  BY <1>1, <1>2, <1>3 DEF Carried, Releases, At
<1>5. \A f \in waiting : f <= drawn
  BY DEF waiting, FilesIInv, FilesCore, NothingAhead
<1>6. RequestFits(q)'
  BY <1>1, <1>2, <1>3, <1>4, <1>5 DEF RequestFits, CarriesAlone, WriterRelies, Writes, TakesUnnamed, Writing, Naming
<1> QED  BY <1>1, <1>2, <1>3, <1>4, <1>6, OnlyMoves DEF Writing

\* A release reads the rows of its candidates.
LEMMA ReleaseFits ==
  ASSUME FilesIInv, NEW q \in Request, release(q)
  PROVE  FilesIInv'
<1> DEFINE seen == {<<f, stored[f].claimed>> : f \in requests[q].files \cap Stored}
           r == [requests[q] EXCEPT !.at = "check", !.seen = seen]
<1>1. requests[q] \in RequestRow /\ requests[q].at = "release" /\ RequestFits(q) /\ FilesCore
  BY DEF release, At, FilesIInv, FilesCore, FilesShape
<1>2. \A f \in Stored : f \in File /\ stored[f].claimed \in Nat /\ stored[f].claimed <= stamp
  BY <1>1 DEF FilesCore, FilesShape, FilesTypeOK, NothingAhead, Stored, StoredRow
<1>3. seen \subseteq File \X Nat /\ \A s \in seen : s[2] <= stamp
  BY <1>2
<1>4. r \in RequestRow /\ r.at = "check" /\ r.files = requests[q].files /\ r.seen = seen
  BY <1>1, <1>3 DEF RequestRow, FilePlaces
<1>5. Go(q, r) /\ UNCHANGED <<stored, bucket, mentions, owners, keys, drawn, stamp, crashed>>
  BY DEF release
<1>6. \A f \in Stored : f \in requests[q].files => <<f, stored[f].claimed>> \in seen
  OBVIOUS
<1> HIDE DEF r, seen
<1>7. requests'[q] = r /\ crashed' \in BOOLEAN
  BY <1>1, <1>5 DEF Go, FilesCore, FilesShape
<1>8. Carried(q)' = {} /\ \A f \in Stored : Releases(q, f) => Releases(q, f)'
  BY <1>1, <1>4, <1>5, <1>6, <1>7 DEF Carried, Releases
<1>9. RequestFits(q)'
  BY <1>1, <1>3, <1>4, <1>5, <1>7, <1>8 DEF RequestFits, CarriesAlone, WriterRelies, Writes, TakesUnnamed, Writing, Naming
<1> QED  BY <1>4, <1>5, <1>7, <1>8, <1>9, OnlyMoves DEF Writing

LEMMA CheckFits ==
  ASSUME FilesIInv, NEW q \in Request, CheckUnnamed(q)
  PROVE  FilesIInv'
<1> DEFINE seen == {s \in requests[q].seen : s[1] \in unnamed}
           r == [requests[q] EXCEPT !.at = "drop", !.seen = seen]
<1>1. requests[q] \in RequestRow /\ requests[q].at = "check" /\ RequestFits(q) /\ FilesCore
  BY DEF CheckUnnamed, At, FilesIInv, FilesCore, FilesShape
<1>2. r \in RequestRow /\ r.at = "drop" /\ r.files = requests[q].files /\ r.seen = seen
  BY <1>1 DEF RequestRow, FilePlaces
<1>3. Go(q, r) /\ UNCHANGED <<stored, bucket, mentions, owners, keys, drawn, stamp, crashed>>
  BY DEF CheckUnnamed
<1>4. \A s \in seen : s \in requests[q].seen /\ s[1] \in unnamed
  OBVIOUS
<1>5. \A f \in unnamed : <<f, stored[f].claimed>> \in requests[q].seen => <<f, stored[f].claimed>> \in seen
  OBVIOUS
<1> HIDE DEF r, seen
<1>6. requests'[q] = r /\ crashed' \in BOOLEAN
  BY <1>1, <1>3 DEF Go, FilesCore, FilesShape
<1>7. Carried(q)' = {} /\ \A f \in Stored : (f \in unnamed /\ Releases(q, f)) => Releases(q, f)'
  BY <1>1, <1>2, <1>3, <1>5, <1>6 DEF Carried, Releases
<1>8. Stored' = Stored /\ unnamed' = unnamed
  BY <1>3 DEF Stored, unnamed
<1>9. TakesUnnamed(q)'
  BY <1>1, <1>2, <1>3, <1>4, <1>6, <1>8 DEF RequestFits, TakesUnnamed
<1>10. RequestFits(q)'
  BY <1>2, <1>6, <1>7, <1>9 DEF RequestFits, CarriesAlone, WriterRelies, Writes, Writing, Naming
<1> QED  BY <1>2, <1>3, <1>6, <1>7, <1>10, OnlyMoves DEF Writing

-----------------------------------------------------------------------------
(* Steps that write.                                                       *)

\* What every file and row that is known of obeys.
LEMMA KnownFiles ==
  ASSUME FilesIInv
  PROVE  /\ drawn \in Nat /\ stamp \in Nat
         /\ \A f \in Stored : f \in File /\ f \in Nat /\ f <= drawn /\ stored[f] \in StoredRow /\ stored[f].claimed \in Nat /\ stored[f].claimed <= stamp
         /\ \A f \in keys : f \in File /\ f \in Nat /\ f <= drawn
         /\ \A o \in Owner : \A f \in Names(owners[o]) : f \in File /\ f \in Nat /\ f <= drawn
         /\ \A o \in Owner : Held(o) \subseteq Stored /\ Held(o) \cap unnamed = {}
         /\ \A f \in Stored : f \in unnamed <=> \A o \in Owner : f \notin Held(o)
         /\ \A s \in mentions : s[1] \in Stored /\ s[1] \in bucket /\ s[2] \in Owner /\ s = <<s[1], s[2]>> /\ stored[s[1]].claimed > 0
         /\ \A q \in Request : requests[q] \in RequestRow /\ RequestFits(q)
<1>1. FilesTypeOK /\ NothingAhead /\ NamesStand /\ drawn \in Nat /\ stamp \in Nat /\ requests \in [Request -> RequestRow]
  BY DEF FilesIInv, FilesCore, FilesShape
<1>2. \A f \in Stored : f \in File /\ f \in Nat /\ f <= drawn /\ stored[f] \in StoredRow /\ stored[f].claimed \in Nat /\ stored[f].claimed <= stamp
  BY <1>1, FilesAssumption DEF FilesTypeOK, NothingAhead, Stored, StoredRow
<1>3. \A f \in keys : f \in File /\ f \in Nat /\ f <= drawn
  BY <1>1, FilesAssumption DEF FilesTypeOK, NothingAhead
<1>4. ASSUME NEW o \in Owner, NEW f \in Names(owners[o]) PROVE f \in File /\ f \in Nat /\ f <= drawn
  BY <1>1, FilesAssumption DEF FilesTypeOK, NothingAhead, Names, OwnerRow
<1>5. \A s \in mentions : s[1] \in Stored /\ s[1] \in bucket /\ s[2] \in Owner /\ s = <<s[1], s[2]>> /\ stored[s[1]].claimed > 0
  BY <1>1 DEF FilesTypeOK, NamesStand
<1>6. \A o \in Owner : Held(o) \subseteq Stored /\ Held(o) \cap unnamed = {}
  BY <1>5 DEF Held, unnamed
<1>7. \A f \in Stored : f \in unnamed <=> \A o \in Owner : f \notin Held(o)
  BY DEF unnamed, Held, Stored
<1>8. \A q \in Request : requests[q] \in RequestRow /\ RequestFits(q)
  BY <1>1 DEF FilesIInv
<1> QED  BY <1>1, <1>2, <1>3, <1>4, <1>5, <1>6, <1>7, <1>8

\* An uploaded file is a new one.
LEMMA StoreFits ==
  ASSUME FilesIInv, NEW q \in Request, NEW o \in Account \cup {None}, store(q, o)
  PROVE  FilesIInv'
<1> DEFINE f == drawn + 1
           r == [Idle EXCEPT !.at = "save", !.owner = o, !.files = {f}]
           row == [claimed |-> 0, old |-> FALSE]
<1>1. At(q, "idle") /\ f \in File /\ drawn' = f /\ stored' = [stored EXCEPT ![f] = row] /\ Go(q, r)
      /\ UNCHANGED <<bucket, mentions, owners, keys, stamp, edits, crashed>>
  BY DEF store
<1>2. r \in RequestRow /\ r.at = "save" /\ r.owner = o /\ r.files = {f} /\ r.seen = {}
  BY <1>1 DEF Idle, RequestRow, FilePlaces, Owner
<1>3. row \in StoredRow /\ row # None /\ row.claimed = 0
  <2>1. row \in StoredRow /\ row.claimed = 0  BY DEF StoredRow
  <2> HIDE DEF row
  <2> QED  BY <2>1, FilesAssumption
<1>4. stored \in [File -> StoredRow \cup {None}] /\ requests \in [Request -> RequestRow] /\ FilesCore
  BY DEF FilesIInv, FilesCore, FilesShape, FilesTypeOK
<1> HIDE DEF r, row
<1>5. requests' = [requests EXCEPT ![q] = r] /\ requests'[q] = r /\ requests' \in [Request -> RequestRow] /\ \A p \in Request \ {q} : requests'[p] = requests[p]
  BY <1>1, <1>2, <1>4 DEF Go
<1>6. stored' \in [File -> StoredRow \cup {None}] /\ stored'[f] = row /\ \A g \in File : g # f => stored'[g] = stored[g]
  BY <1>1, <1>3, <1>4
<1>7. drawn \in Nat /\ f \in Nat /\ f > drawn /\ f \notin Stored /\ f \notin keys /\ \A x \in Owner : f \notin Names(owners[x]) /\ f \notin Held(x)
  <2>1. \A g \in Stored \cup keys : g <= drawn  BY KnownFiles
  <2>2. \A x \in Owner : \A g \in Names(owners[x]) : g <= drawn  BY KnownFiles
  <2> QED  BY <2>1, <2>2, KnownFiles DEF Held
<1>8. Stored' = Stored \cup {f} /\ unnamed' = unnamed /\ \A x \in Owner : Held(x)' = Held(x)
  BY <1>1, <1>3, <1>6 DEF Stored, unnamed, Held
<1> HIDE DEF f
<1>9. FilesCore'
  <2>1. FilesTypeOK'
    <3>1. mentions' \subseteq Stored' \X Owner /\ keys' \subseteq File /\ owners' \in [Owner -> OwnerRow \cup {None}]
      BY <1>1, <1>4, <1>8 DEF FilesCore, FilesShape, FilesTypeOK
    <3>2. \A s \in mentions' : stored'[s[1]].claimed > 0
      BY <1>1, <1>6, <1>7, KnownFiles
    <3> QED  BY <1>6, <3>1, <3>2 DEF FilesTypeOK
  <2>2. FilesShape'
    BY <1>1, <1>4, <1>5, <1>7, <2>1 DEF FilesCore, FilesShape
  <2>3. NothingAhead'
    <3>1. \A g \in Stored' : g <= drawn' /\ stored'[g].claimed <= stamp'
      BY <1>1, <1>3, <1>6, <1>7, <1>8, KnownFiles
    <3>2. \A g \in keys' : g <= drawn'
      BY <1>1, <1>7, KnownFiles
    <3>3. \A x \in Owner : \A g \in Names(owners'[x]) : g <= drawn'
      BY <1>1, <1>7, KnownFiles
    <3> QED  BY <3>1, <3>2, <3>3 DEF NothingAhead
  <2>4. NamesStand'
    BY <1>1, <1>4, <1>7, <1>8 DEF FilesCore, NamesStand, NamesAreWritten, Held
  <2> QED  BY <2>2, <2>3, <2>4 DEF FilesCore
<1>10. Carried(q)' = {f}
  BY <1>2, <1>5 DEF Carried
<1>11. StepOf(q)
  <2>1. \A g \in Stored \cap Stored' : stored'[g].claimed = stored[g].claimed /\ (g \in unnamed => g \in unnamed')
    BY <1>6, <1>7, <1>8, KnownFiles
  <2>2. \A x \in Owner : ~Writes(q, x)'
    BY <1>2, <1>5 DEF Writes, Writing
  <2> QED  BY <1>1, <1>5, <1>7, <1>8, <1>10, <2>1, <2>2, KnownFiles DEF StepOf
<1>12. RequestFits(q)'
  <2>1. CarriesAlone(q)'
    BY <1>1, <1>2, <1>5, <1>7, <1>10 DEF CarriesAlone, Held
  <2>2. WriterRelies(q)'
    BY <1>2, <1>5 DEF WriterRelies, Writes, Writing, Naming
  <2>3. TakesUnnamed(q)'
    BY <1>1, <1>2, <1>5, <1>7 DEF TakesUnnamed
  <2> QED  BY <2>1, <2>2, <2>3 DEF RequestFits
<1>13. SomebodyReleases'
  <2>1. \A g \in Stored' : stored'[g].claimed > 0 => g \in Stored /\ stored'[g].claimed = stored[g].claimed /\ ~Releases(q, g)
    BY <1>1, <1>3, <1>6, <1>7, <1>8, KnownFiles DEF Releases, At
  <2> QED  BY <1>1, <1>5, <1>8, <2>1, StillReleased DEF FilesIInv
<1> QED  BY <1>9, <1>11, <1>12, <1>13, FilesKept

\* Once the object is there, the key is answered or the picture goes on to its account.
LEMMA SaveFits ==
  ASSUME FilesIInv, NEW q \in Request, SaveObject(q)
  PROVE  FilesIInv'
<1>1. PICK r \in RequestRow : r = requests[q]
  BY KnownFiles
<1>2. RequestFits(q) /\ r.at = "save" /\ Carried(q) = r.files /\ FilesCore /\ requests \in [Request -> RequestRow] /\ r.files \subseteq File
  BY <1>1, KnownFiles DEF SaveObject, At, Carried, FilesIInv, FilesCore, FilesShape, RequestRow
<1>3. bucket' = bucket \cup r.files /\ UNCHANGED <<stored, mentions, owners, drawn, stamp, edits, crashed>>
  BY <1>1 DEF SaveObject
<1>4. Stored' = Stored /\ unnamed' = unnamed /\ \A x \in Owner : Held(x)' = Held(x)
  BY <1>3 DEF Stored, unnamed, Held
<1>5. \A f \in r.files : f <= drawn
  BY <1>1, <1>2 DEF RequestFits, TakesUnnamed
<1>6. keys \subseteq keys' /\ keys' \subseteq keys \cup r.files
  BY <1>1 DEF SaveObject
<1>7. PICK n \in RequestRow : /\ requests' = [requests EXCEPT ![q] = n] /\ n.seen \in {r.seen, {}}
                              /\ \/ n.at = "idle" /\ n.files = {}
                                 \/ n.at = "hold" /\ n.files = r.files /\ n.files # {} /\ n.owner \in Account /\ keys' = keys
  <2>1. CASE r.owner = None
    <3>1. Idle \in RequestRow /\ Idle.at = "idle" /\ Idle.files = {} /\ Idle.seen = {}
      BY DEF Idle, RequestRow, FilePlaces
    <3>2. requests' = [requests EXCEPT ![q] = Idle]
      BY <1>1, <2>1 DEF SaveObject, Go
    <3> QED  BY <3>1, <3>2
  <2>2. CASE r.owner # None
    <3> DEFINE n == [r EXCEPT !.at = "hold"]
    <3>1. n \in RequestRow /\ n.at = "hold" /\ n.files = r.files /\ n.owner = r.owner /\ n.seen = r.seen
      BY DEF RequestRow, FilePlaces
    <3>2. requests' = [requests EXCEPT ![q] = n] /\ keys' = keys
      BY <1>1, <2>2 DEF SaveObject, Go
    <3>3. r.files # {} /\ r.owner \in Account
      BY <1>1, <1>2, <2>2 DEF RequestFits, CarriesAlone
    <3> HIDE DEF n
    <3> QED  BY <3>1, <3>2, <3>3
  <2> QED  BY <2>1, <2>2
<1>8. requests'[q] = n /\ requests' \in [Request -> RequestRow] /\ \A p \in Request \ {q} : requests'[p] = requests[p]
  BY <1>2, <1>7
<1>9. FilesCore'
  <2>1. FilesTypeOK'
    BY <1>2, <1>3, <1>4, <1>6 DEF FilesCore, FilesShape, FilesTypeOK
  <2>2. FilesShape'
    BY <1>2, <1>3, <1>8, <2>1 DEF FilesCore, FilesShape
  <2>3. NothingAhead'
    BY <1>2, <1>3, <1>4, <1>5, <1>6 DEF FilesCore, NothingAhead
  <2>4. NamesStand'
    BY <1>2, <1>3, <1>4, <1>6 DEF FilesCore, NamesStand, NamesAreWritten
  <2> QED  BY <2>2, <2>3, <2>4 DEF FilesCore
<1>10. Carried(q)' \subseteq Carried(q)
  BY <1>2, <1>7, <1>8 DEF Carried
<1>11. StepOf(q)
  <2>1. \A x \in Owner : ~Writes(q, x)'
    BY <1>7, <1>8 DEF Writes, Writing
  <2> QED  BY <1>2, <1>3, <1>4, <1>6, <1>8, <1>10, <2>1, KnownFiles DEF StepOf
<1>12. RequestFits(q)'
  <2>1. CarriesAlone(q)'
    BY <1>1, <1>2, <1>3, <1>4, <1>7, <1>8, <1>10 DEF RequestFits, CarriesAlone, Carried
  <2>2. WriterRelies(q)'
    BY <1>7, <1>8 DEF WriterRelies, Writes, Writing, Naming
  <2>3. TakesUnnamed(q)'
    BY <1>1, <1>2, <1>3, <1>5, <1>7, <1>8 DEF RequestFits, TakesUnnamed
  <2> QED  BY <2>1, <2>2, <2>3 DEF RequestFits
<1>13. SomebodyReleases'
  <2>1. \A g \in Stored : ~Releases(q, g)
    BY <1>1, <1>2 DEF Releases
  <2> QED  BY <1>3, <1>4, <1>8, <2>1, StillReleased DEF FilesIInv
<1> QED  BY <1>9, <1>11, <1>12, <1>13, FilesKept

\* A picture whose row was not written is taken back: nothing ever heard of it.
LEMMA TakenBack ==
  ASSUME FilesIInv, NEW q \in Request, requests[q].at \in {"hold", "commit"}, Go(q, Idle), bucket' = bucket \ requests[q].files,
         UNCHANGED <<stored, mentions, owners, keys, drawn, stamp, crashed>>
  PROVE  FilesIInv'
<1>1. RequestFits(q) /\ Carried(q) = requests[q].files /\ FilesCore /\ requests \in [Request -> RequestRow]
  BY KnownFiles DEF Carried, FilesIInv, FilesCore, FilesShape
<1>2. Idle \in RequestRow /\ requests'[q] = Idle /\ requests' \in [Request -> RequestRow] /\ \A p \in Request \ {q} : requests'[p] = requests[p]
  BY <1>1 DEF Idle, RequestRow, FilePlaces, Go
<1>3. Stored' = Stored /\ unnamed' = unnamed /\ \A x \in Owner : Held(x)' = Held(x)
  BY DEF Stored, unnamed, Held
<1>4. \A f \in requests[q].files : f \notin keys /\ \A x \in Owner : <<f, x>> \notin mentions
  BY <1>1 DEF RequestFits, CarriesAlone
<1>5. FilesCore'
  <2>1. FilesTypeOK'
    BY <1>1, <1>3 DEF FilesCore, FilesShape, FilesTypeOK
  <2>2. FilesShape'
    BY <1>1, <1>2, <2>1 DEF FilesCore, FilesShape
  <2>3. NothingAhead'
    BY <1>1, <1>3 DEF FilesCore, NothingAhead
  <2>4. \A s \in mentions : s[1] \notin requests[q].files
    BY <1>4, KnownFiles
  <2>5. NamesStand'
    BY <1>1, <1>3, <1>4, <2>4 DEF FilesCore, NamesStand, NamesAreWritten
  <2> QED  BY <2>2, <2>3, <2>5 DEF FilesCore
<1>6. RequestFits(q)' /\ Carried(q)' = {} /\ \A x \in Owner : ~Writes(q, x)'
  BY <1>2 DEF RequestFits, CarriesAlone, Carried, WriterRelies, Writes, TakesUnnamed, Idle, Writing, Naming
<1>7. StepOf(q)
  BY <1>1, <1>2, <1>3, <1>6, KnownFiles DEF StepOf
<1>8. SomebodyReleases'
  <2>1. \A g \in Stored : ~Releases(q, g)
    BY DEF Releases
  <2> QED  BY <1>2, <1>3, <2>1, StillReleased DEF FilesIInv
<1> QED  BY <1>5, <1>6, <1>7, <1>8, FilesKept

\* The row goes with all that was written down of it, and what it named is released.
LEMMA DeleteFits ==
  ASSUME FilesIInv, NEW q \in Request, delete(q)
  PROVE  FilesIInv'
<1>1. PICK r \in RequestRow : r = requests[q]
  BY KnownFiles
<1>2. RequestFits(q) /\ r.at = "delete" /\ FilesCore /\ requests \in [Request -> RequestRow]
  BY <1>1, KnownFiles DEF delete, At, FilesIInv, FilesCore, FilesShape
<1>3. PICK o \in Owner : o = r.owner
  BY <1>1, <1>2 DEF RequestFits, WriterRelies, Writing
<1>4. owners[o] = r.old /\ r.old # None /\ r.drop = Held(o)
  BY <1>1, <1>2, <1>3 DEF RequestFits, WriterRelies, Writes, Writing
<1> DEFINE n == [Idle EXCEPT !.at = "release", !.files = Names(r.old) \cup r.drop]
<1>5. owners' = [owners EXCEPT ![o] = None] /\ mentions' = mentions \ (r.drop \X {o}) /\ Go(q, n)
      /\ UNCHANGED <<stored, bucket, keys, drawn, stamp, edits, crashed>>
  BY <1>1, <1>3, <1>4 DEF delete
<1>6. \A f \in Names(r.old) \cup r.drop : f \in File /\ f <= drawn
  BY <1>4, KnownFiles
<1>7. n \in RequestRow /\ n.at = "release" /\ n.files = Names(r.old) \cup r.drop /\ n.seen = {}
  BY <1>6 DEF Idle, RequestRow, FilePlaces
<1> HIDE DEF n
<1>8. requests'[q] = n /\ requests' \in [Request -> RequestRow] /\ \A p \in Request \ {q} : requests'[p] = requests[p]
  BY <1>2, <1>5, <1>7 DEF Go
<1>9. owners'[o] = None /\ \A x \in Owner \ {o} : owners'[x] = owners[x]
  BY <1>2, <1>5 DEF FilesCore, FilesShape, FilesTypeOK
<1>10. Stored' = Stored /\ \A x \in Owner \ {o} : Held(x)' = Held(x)
  BY <1>5 DEF Stored, Held
<1>11. mentions' \subseteq mentions /\ \A f \in unnamed : f \in unnamed'
  BY <1>5 DEF unnamed
<1>12. Names(owners'[o]) = {} /\ \A x \in Owner : Names(owners'[x]) \subseteq Names(owners[x])
  BY <1>9 DEF Names
<1>13. FilesCore'
  <2>1. FilesTypeOK'
    <3>1. owners' \in [Owner -> OwnerRow \cup {None}]
      BY <1>2, <1>5 DEF FilesCore, FilesShape, FilesTypeOK
    <3>2. stored' = stored /\ keys' = keys  BY <1>5
    <3> QED  BY <1>2, <1>10, <1>11, <3>1, <3>2 DEF FilesCore, FilesShape, FilesTypeOK
  <2>2. FilesShape'
    BY <1>2, <1>5, <1>8, <2>1 DEF FilesCore, FilesShape
  <2>3. NothingAhead'
    BY <1>2, <1>5, <1>10, <1>12 DEF FilesCore, NothingAhead
  <2>4. \A s \in mentions' : s[1] \in bucket'
    BY <1>2, <1>5, <1>11 DEF FilesCore, NamesStand
  <2>5. \A f \in keys' \cap Stored' : f \in bucket'
    BY <1>2, <1>5, <1>10 DEF FilesCore, NamesStand
  <2>6. \A x \in Owner : owners'[x] # None => owners'[x].key \in Held(x)' \cup {None}
    BY <1>2, <1>9, <1>10 DEF FilesCore, NamesStand
  <2>7. NamesAreWritten'
    <3>1. ASSUME NEW x \in Owner, NEW f \in Names(owners'[x]) \cap Stored' PROVE <<f, x>> \in mentions'
      <4>1. x # o /\ f \in Names(owners[x]) \cap Stored  BY <1>9, <1>10, <1>12, <3>1
      <4>2. <<f, x>> \in mentions  BY <1>2, <4>1 DEF FilesCore, NamesStand, NamesAreWritten
      <4> QED  BY <1>5, <4>1, <4>2
    <3> QED  BY <3>1 DEF NamesAreWritten
  <2> QED  BY <2>2, <2>3, <2>4, <2>5, <2>6, <2>7 DEF FilesCore, NamesStand
<1>14. Carried(q)' = {} /\ \A x \in Owner : ~Writes(q, x)'
  BY <1>7, <1>8 DEF Carried, Writes, Writing
<1>15. StepOf(q)
  <2>1. \A x \in Owner : ~Writes(q, x) => owners'[x] = owners[x] /\ Held(x)' = Held(x)
    BY <1>1, <1>2, <1>3, <1>9, <1>10 DEF Writes, Writing
  <2> QED  BY <1>5, <1>8, <1>10, <1>11, <1>12, <1>14, <2>1, KnownFiles DEF StepOf
<1>16. RequestFits(q)'
  BY <1>5, <1>6, <1>7, <1>8, <1>14 DEF RequestFits, CarriesAlone, WriterRelies, TakesUnnamed, Writing, Naming
<1>17. SomebodyReleases'
  <2>1. ASSUME NEW f \in Stored', f \in unnamed'
        PROVE  Releases(q, f)' \/ (f \in Stored /\ stored'[f].claimed = stored[f].claimed /\ f \in unnamed /\ ~Releases(q, f))
    <3>1. f \in Stored /\ f \in File /\ stored' = stored  BY <1>5, <1>10, KnownFiles
    <3>2. CASE f \in unnamed
      BY <1>1, <1>2, <3>1, <3>2 DEF Releases
    <3>3. CASE f \notin unnamed
      <4>1. PICK x \in Owner : <<f, x>> \in mentions  BY <3>1, <3>3 DEF unnamed
      <4>2. <<f, x>> \notin mentions'  BY <2>1 DEF unnamed
      <4>3. f \in r.drop  BY <1>5, <4>1, <4>2
      <4> QED  BY <1>7, <1>8, <4>3 DEF Releases
    <3> QED  BY <3>2, <3>3
  <2> QED  BY <1>5, <1>8, <2>1, StillReleased DEF FilesIInv
<1> QED  BY <1>13, <1>15, <1>16, <1>17, FilesKept

\* What is taken was neither named nor locked, and nobody else was to release what stays.
LEMMA RowsGo ==
  ASSUME FilesIInv, NEW q \in Request, NEW gone \in SUBSET Stored, gone \subseteq unnamed, gone \cap LockedFiles(q) = {},
         requests[q].at \in {"drop", "sweep"}, \A f \in Stored \ gone : ~Releases(q, f),
         stored' = Without(gone), Go(q, [Idle EXCEPT !.at = "discard", !.files = gone]),
         UNCHANGED <<bucket, mentions, owners, keys, drawn, stamp, crashed>>
  PROVE  FilesIInv'
<1> DEFINE n == [Idle EXCEPT !.at = "discard", !.files = gone]
<1>1. FilesCore /\ requests \in [Request -> RequestRow] /\ stored \in [File -> StoredRow \cup {None}]
  BY DEF FilesIInv, FilesCore, FilesShape, FilesTypeOK
<1>2. n \in RequestRow /\ n.at = "discard" /\ n.files = gone /\ n.seen = {}
  BY DEF Idle, RequestRow, FilePlaces, Stored
<1>3. Go(q, n)  OBVIOUS
<1> HIDE DEF n
<1>4. requests'[q] = n /\ requests' \in [Request -> RequestRow] /\ \A p \in Request \ {q} : requests'[p] = requests[p]
  BY <1>1, <1>2, <1>3 DEF Go
<1>5. Stored' = Stored \ gone /\ \A f \in Stored' : stored'[f] = stored[f]
  BY DEF Without, Stored
<1>6. unnamed' = unnamed /\ \A x \in Owner : Held(x)' = Held(x)
  BY DEF unnamed, Held
<1>7. FilesCore'
  <2>1. stored' \in [File -> StoredRow \cup {None}]
    BY <1>1 DEF Without
  <2>2. \A s \in mentions : s[1] \notin gone /\ s[1] \in Stored'
    BY <1>5, KnownFiles DEF unnamed
  <2>3. FilesTypeOK'
    <3>1. mentions' \subseteq Stored' \X Owner /\ \A s \in mentions' : stored'[s[1]].claimed > 0
      BY <1>1, <1>5, <2>2 DEF FilesCore, FilesShape, FilesTypeOK
    <3> QED  BY <1>1, <2>1, <3>1 DEF FilesCore, FilesShape, FilesTypeOK
  <2>4. FilesShape'
    BY <1>1, <1>4, <2>3 DEF FilesCore, FilesShape
  <2>5. NothingAhead'
    BY <1>1, <1>5 DEF FilesCore, NothingAhead
  <2>6. NamesStand'
    BY <1>1, <1>5, <1>6 DEF FilesCore, NamesStand, NamesAreWritten
  <2> QED  BY <2>4, <2>5, <2>6 DEF FilesCore
<1>8. Carried(q)' = {} /\ \A x \in Owner : ~Writes(q, x)'
  BY <1>2, <1>4 DEF Carried, Writes, Writing
<1>9. StepOf(q)
  BY <1>4, <1>5, <1>6, <1>8, KnownFiles DEF StepOf
<1>10. RequestFits(q)'
  <2>1. \A f \in gone : f <= drawn  BY KnownFiles
  <2>2. gone \cap Stored' = {}  BY <1>5
  <2> QED  BY <1>2, <1>4, <1>8, <2>1, <2>2 DEF RequestFits, CarriesAlone, WriterRelies, Writes, TakesUnnamed, Writing, Naming
<1>11. SomebodyReleases'
  BY <1>4, <1>5, <1>6, StillReleased DEF FilesIInv
<1> QED  BY <1>7, <1>9, <1>10, <1>11, FilesKept

\* A release takes a row whose stamp is the one it read; the sweep takes one that was never named.
LEMMA DropAndSweep ==
  ASSUME FilesIInv, NEW q \in Request, DropRows(q) \/ SweepRows(q)
  PROVE  FilesIInv'
<1>1. CASE DropRows(q)
  <2> DEFINE gone == {f \in Stored : <<f, stored[f].claimed>> \in requests[q].seen}
  <2>1. requests[q].at = "drop" /\ {s[1] : s \in requests[q].seen} \cap LockedFiles(q) = {} /\ stored' = Without(gone)
        /\ Go(q, [Idle EXCEPT !.at = "discard", !.files = gone]) /\ UNCHANGED <<bucket, mentions, owners, keys, drawn, stamp, crashed>>
    BY <1>1 DEF DropRows, At
  <2>2. gone \in SUBSET Stored /\ \A f \in Stored \ gone : ~Releases(q, f)
    BY <2>1 DEF Releases
  <2>3. gone \subseteq unnamed
    BY <2>1, KnownFiles DEF RequestFits, TakesUnnamed
  <2>4. gone \subseteq {s[1] : s \in requests[q].seen}
    OBVIOUS
  <2> HIDE DEF gone
  <2> QED  BY <2>1, <2>2, <2>3, <2>4, RowsGo
<1>2. CASE SweepRows(q)
  <2> DEFINE gone == {f \in requests[q].files : StillWaiting(f)}
  <2>1. requests[q].at = "sweep" /\ requests[q].files \cap LockedFiles(q) = {} /\ stored' = Without(gone)
        /\ Go(q, [Idle EXCEPT !.at = "discard", !.files = gone]) /\ UNCHANGED <<bucket, mentions, owners, keys, drawn, stamp, crashed>>
    BY <1>2 DEF SweepRows, At
  <2>2. \A f \in gone : f \in File /\ f \in Stored /\ stored[f].claimed = 0
    BY KnownFiles DEF StillWaiting, Stored, RequestRow
  <2>3. gone \subseteq unnamed
    BY <2>2, KnownFiles DEF unnamed
  <2>4. \A f \in Stored \ gone : ~Releases(q, f)
    BY <2>1 DEF Releases
  <2>5. gone \cap LockedFiles(q) = {} /\ gone \in SUBSET Stored
    BY <2>1, <2>2
  <2> HIDE DEF gone
  <2> QED  BY <2>1, <2>3, <2>4, <2>5, RowsGo
<1> QED  BY <1>1, <1>2

\* The objects of files without a row leave the bucket.
LEMMA DiscardFits ==
  ASSUME FilesIInv, NEW q \in Request, discard(q)
  PROVE  FilesIInv'
<1>1. RequestFits(q) /\ requests[q].at = "discard" /\ FilesCore /\ requests \in [Request -> RequestRow]
  BY KnownFiles DEF discard, At, FilesIInv, FilesCore, FilesShape
<1>2. Go(q, Idle) /\ UNCHANGED <<stored, mentions, owners, keys, drawn, stamp, crashed>>
  BY DEF discard
<1>3. bucket' \subseteq bucket /\ \A f \in bucket \ bucket' : f \notin Stored
  BY <1>1 DEF discard, RequestFits, TakesUnnamed
<1>4. Idle \in RequestRow /\ requests'[q] = Idle /\ requests' \in [Request -> RequestRow] /\ \A p \in Request \ {q} : requests'[p] = requests[p]
  BY <1>1, <1>2 DEF Idle, RequestRow, FilePlaces, Go
<1>5. Stored' = Stored /\ unnamed' = unnamed /\ \A x \in Owner : Held(x)' = Held(x)
  BY <1>2 DEF Stored, unnamed, Held
<1>6. FilesCore'
  <2>1. FilesTypeOK'
    BY <1>1, <1>2, <1>5 DEF FilesCore, FilesShape, FilesTypeOK
  <2>2. FilesShape'
    BY <1>1, <1>2, <1>3, <1>4, <2>1 DEF FilesCore, FilesShape
  <2>3. NothingAhead'
    BY <1>1, <1>2, <1>5 DEF FilesCore, NothingAhead
  <2>4. NamesStand'
    <3>1. \A s \in mentions' : s[1] \in bucket'
      BY <1>2, <1>3, KnownFiles
    <3> QED  BY <1>1, <1>2, <1>3, <1>5, <3>1 DEF FilesCore, NamesStand, NamesAreWritten
  <2> QED  BY <2>2, <2>3, <2>4 DEF FilesCore
<1>7. RequestFits(q)' /\ Carried(q)' = {} /\ \A x \in Owner : ~Writes(q, x)'
  BY <1>4 DEF RequestFits, CarriesAlone, Carried, WriterRelies, Writes, TakesUnnamed, Idle, Writing, Naming
<1>8. StepOf(q)
  BY <1>2, <1>3, <1>4, <1>5, <1>7, KnownFiles DEF StepOf
<1>9. SomebodyReleases'
  <2>1. \A g \in Stored : ~Releases(q, g)
    BY <1>1 DEF Releases
  <2> QED  BY <1>2, <1>4, <1>5, <2>1, StillReleased DEF FilesIInv
<1> QED  BY <1>6, <1>7, <1>8, <1>9, FilesKept

\* The commit: the row names what it was to name, all of it is written down and claimed, and what it no longer names is a candidate.
LEMMA PersistFits ==
  ASSUME FilesIInv, NEW q \in Request, persist(q)
  PROVE  FilesIInv'
<1>1. PICK r \in RequestRow : r = requests[q]
  BY KnownFiles
<1>2. RequestFits(q) /\ r.at = "commit" /\ Carried(q) = r.files /\ FilesCore /\ requests \in [Request -> RequestRow]
  BY <1>1, KnownFiles DEF persist, At, Carried, FilesIInv, FilesCore, FilesShape
<1>3. PICK o \in Owner : o = r.owner
  BY <1>1, <1>2 DEF RequestFits, WriterRelies, Writing
<1>4. PICK N \in SUBSET File : N = Names(r.new)
  BY <1>1, <1>2, FilesAssumption DEF RequestFits, WriterRelies, Naming, Names, OwnerRow
<1>5. /\ owners[o] = r.old /\ r.new \in OwnerRow /\ N \subseteq keys \cup r.files
      /\ r.drop = Held(o) \ N /\ r.add \subseteq (N \cap Stored) \ Held(o) /\ N \cap Stored \subseteq Held(o) \cup r.add
      /\ r.new.key \in Held(o) \cup r.add \cup {None}
  BY <1>1, <1>2, <1>3, <1>4 DEF RequestFits, WriterRelies, Writes, Writing, Naming
<1> DEFINE n == [Idle EXCEPT !.at = "release", !.files = Candidates(r)]
<1>6. /\ owners' = [owners EXCEPT ![o] = Merged(owners[o], r.old, r.new)] /\ mentions' = (mentions \cup (r.add \X {o})) \ (r.drop \X {o})
      /\ stored' = [f \in File |-> IF f \in r.add THEN Claimed(f, stamp + 1) ELSE stored[f]]
      /\ stamp' = (IF r.add = {} THEN stamp ELSE stamp + 1)
      /\ Go(q, n) /\ UNCHANGED <<bucket, keys, drawn, edits, crashed>>
  BY <1>1, <1>3 DEF persist
<1>7. \A f \in Candidates(r) : f \in File /\ f <= drawn
  BY <1>5, KnownFiles DEF Candidates
<1>8. n \in RequestRow /\ n.at = "release" /\ n.files = Candidates(r) /\ n.seen = {}
  BY <1>7 DEF Idle, RequestRow, FilePlaces
<1> HIDE DEF n
<1>9. requests'[q] = n /\ requests' \in [Request -> RequestRow] /\ \A p \in Request \ {q} : requests'[p] = requests[p]
  BY <1>2, <1>6, <1>8 DEF Go
<1>10. owners'[o] = r.new /\ Names(owners'[o]) = N /\ \A x \in Owner \ {o} : owners'[x] = owners[x]
  <2>1. owners \in [Owner -> OwnerRow \cup {None}]  BY <1>2 DEF FilesCore, FilesShape, FilesTypeOK
  <2>2. CASE r.old = None
    BY <1>4, <1>5, <1>6, <2>1, <2>2 DEF Merged
  <2>3. CASE r.old # None
    <3>1. r.old \in OwnerRow  BY <1>5, <2>1, <2>3
    <3>2. Merged(r.old, r.old, r.new) = [key |-> r.new.key, text |-> r.new.text]  BY <2>3 DEF Merged
    <3>3. Merged(r.old, r.old, r.new) = r.new  BY <1>5, <3>2 DEF OwnerRow
    <3> QED  BY <1>4, <1>5, <1>6, <2>1, <3>3
  <2> QED  BY <2>2, <2>3
<1>11. /\ Stored' = Stored /\ r.add \subseteq Stored
       /\ \A f \in r.add : stored'[f] \in StoredRow /\ stored'[f].claimed = stamp + 1
       /\ \A f \in File \ r.add : stored'[f] = stored[f]
  <2>1. ASSUME NEW f \in r.add PROVE f \in Stored /\ stored'[f] \in StoredRow /\ stored'[f].claimed = stamp + 1
    <3>1. f \in Stored /\ f \in File /\ stored[f] \in StoredRow /\ stamp + 1 \in Nat  BY <1>5, KnownFiles
    <3>2. stored'[f] = [stored[f] EXCEPT !.claimed = stamp + 1]  BY <1>6, <3>1 DEF Claimed
    <3> QED  BY <3>1, <3>2 DEF StoredRow
  <2>2. \A f \in File \ r.add : stored'[f] = stored[f]
    BY <1>6
  <2>3. \A f \in r.add : stored'[f] # None /\ f \in Stored
    BY <2>1, FilesAssumption
  <2> QED  BY <2>1, <2>2, <2>3 DEF Stored
<1>12. stamp \in Nat /\ stamp' \in Nat /\ stamp <= stamp' /\ (r.add # {} => stamp' = stamp + 1)
  BY <1>6, KnownFiles
<1>13. Held(o)' = (Held(o) \cap N) \cup r.add /\ \A x \in Owner \ {o} : Held(x)' = Held(x)
  <2>1. \A f \in File : <<f, o>> \in mentions' <=> (f \in Held(o) \/ f \in r.add) /\ f \notin r.drop
    BY <1>6 DEF Held
  <2>2. \A f \in File, x \in Owner \ {o} : <<f, x>> \in mentions' <=> <<f, x>> \in mentions
    BY <1>6
  <2>3. Held(o) \subseteq File  BY DEF Held
  <2> QED  BY <1>5, <2>1, <2>2, <2>3 DEF Held
<1>14. \A s \in mentions' : s \in mentions \/ (s[1] \in r.add /\ s = <<s[1], o>>)
  BY <1>6
<1>15. \A f \in N : f \in Nat /\ f <= drawn
  <2>1. \A f \in r.files : f <= drawn  BY <1>1, <1>2 DEF RequestFits, TakesUnnamed
  <2> QED  BY <1>5, <2>1, KnownFiles, FilesAssumption
<1>16. FilesTypeOK'
  <2>1. stored' \in [File -> StoredRow \cup {None}]
    <3>1. \A f \in File : stored'[f] \in StoredRow \cup {None}
      BY <1>2, <1>11 DEF FilesCore, FilesShape, FilesTypeOK
    <3> QED  BY <1>6, <3>1
  <2>2. owners' \in [Owner -> OwnerRow \cup {None}]
    <3>1. \A x \in Owner : owners'[x] \in OwnerRow \cup {None}
      BY <1>2, <1>5, <1>10 DEF FilesCore, FilesShape, FilesTypeOK
    <3>2. owners' = [x \in Owner |-> owners'[x]]  BY <1>2, <1>6 DEF FilesCore, FilesShape, FilesTypeOK
    <3> QED  BY <3>1, <3>2
  <2>3. mentions' \subseteq Stored' \X Owner
    BY <1>2, <1>11, <1>14 DEF FilesCore, FilesShape, FilesTypeOK
  <2>4. \A s \in mentions' : stored'[s[1]].claimed > 0
    <3>1. ASSUME NEW s \in mentions', s[1] \in r.add PROVE stored'[s[1]].claimed > 0
      BY <1>11, <1>12, <3>1
    <3>2. ASSUME NEW s \in mentions', s[1] \notin r.add PROVE stored'[s[1]].claimed > 0
      <4>1. s \in mentions /\ s[1] \in File  BY <1>14, <3>2, KnownFiles DEF Stored
      <4> QED  BY <1>11, <3>2, <4>1, KnownFiles
    <3> QED  BY <3>1, <3>2
  <2>5. keys' \subseteq File  BY <1>2, <1>6 DEF FilesCore, FilesShape, FilesTypeOK
  <2> QED  BY <2>1, <2>2, <2>3, <2>4, <2>5 DEF FilesTypeOK
<1>17. NothingAhead'
  <2>1. ASSUME NEW f \in Stored PROVE f <= drawn /\ stored'[f].claimed <= stamp'
    <3>1. f \in File /\ f <= drawn /\ stored[f].claimed \in Nat /\ stored[f].claimed <= stamp  BY KnownFiles
    <3> QED  BY <1>11, <1>12, <3>1
  <2>2. \A x \in Owner : \A f \in Names(owners'[x]) : f <= drawn
    BY <1>10, <1>15, KnownFiles
  <2>3. \A f \in keys : f <= drawn  BY KnownFiles
  <2> QED  BY <1>6, <1>11, <2>1, <2>2, <2>3 DEF NothingAhead
<1>18. NamesStand'
  <2>1. \A f \in N \cap Stored : f \in bucket
    BY <1>1, <1>2, <1>5 DEF FilesCore, NamesStand, RequestFits, CarriesAlone
  <2>2. \A s \in mentions' : s[1] \in bucket'
    BY <1>5, <1>6, <1>14, <2>1, KnownFiles
  <2>3. \A f \in keys' \cap Stored' : f \in bucket'
    BY <1>2, <1>6, <1>11 DEF FilesCore, NamesStand
  <2>4. r.new.key \in N \cup {None}
    BY <1>4, <1>5, FilesAssumption DEF Names
  <2>5. \A x \in Owner : owners'[x] # None => owners'[x].key \in Held(x)' \cup {None}
    BY <1>2, <1>5, <1>10, <1>13, <2>4 DEF FilesCore, NamesStand
  <2>6. NamesAreWritten'
    <3>1. ASSUME NEW x \in Owner, NEW f \in Names(owners'[x]) \cap Stored' PROVE f \in Held(x)'
      <4>1. CASE x = o  BY <1>5, <1>10, <1>11, <1>13, <3>1, <4>1
      <4>2. CASE x # o
        <5>1. owners'[x] = owners[x] /\ Held(x)' = Held(x)  BY <1>10, <1>13, <4>2
        <5>2. f \in Names(owners[x]) \cap Stored /\ f \in File  BY <1>11, <3>1, <5>1 DEF Stored
        <5> QED  BY <1>2, <5>1, <5>2 DEF FilesCore, NamesStand, NamesAreWritten, Held
      <4> QED  BY <4>1, <4>2
    <3> QED  BY <3>1 DEF NamesAreWritten, Held
  <2> QED  BY <2>2, <2>3, <2>5, <2>6 DEF NamesStand
<1>19. FilesCore'
  <2>1. FilesShape'
    BY <1>2, <1>6, <1>9, <1>12, <1>16 DEF FilesCore, FilesShape
  <2> QED  BY <1>17, <1>18, <2>1 DEF FilesCore
<1>20. Carried(q)' = {} /\ \A x \in Owner : ~Writes(q, x)'
  BY <1>8, <1>9 DEF Carried, Writes, Writing
<1>21. StepOf(q)
  <2>1. \A x \in Owner : ~Writes(q, x) => owners'[x] = owners[x] /\ Held(x)' = Held(x)
    BY <1>1, <1>2, <1>3, <1>10, <1>13 DEF Writes, Writing
  <2>2. \A x \in Owner : Names(owners'[x]) \subseteq Names(owners[x]) \cup keys \cup Carried(q)
    BY <1>2, <1>5, <1>10
  <2>3. \A s \in mentions' : s \in mentions \/ s[1] \in keys \cup Carried(q)
    BY <1>2, <1>5, <1>14
  <2>4. ASSUME NEW f \in Stored, f \notin r.add PROVE stored'[f] = stored[f] /\ (f \in unnamed => f \in unnamed')
    BY <1>11, <1>14, <2>4 DEF unnamed, Stored
  <2>5. ASSUME NEW f \in Stored, f \in r.add PROVE stored'[f].claimed > stamp
    BY <1>11, <1>12, <2>5
  <2>6. \A f \in Stored \cap Stored' : (stored'[f].claimed = stored[f].claimed /\ (f \in unnamed => f \in unnamed')) \/ stored'[f].claimed > stamp
    BY <2>4, <2>5
  <2>7. drawn \in Nat  BY KnownFiles
  <2> QED  BY <1>6, <1>9, <1>11, <1>12, <1>20, <2>1, <2>2, <2>3, <2>6, <2>7 DEF StepOf
<1>22. RequestFits(q)'
  BY <1>6, <1>7, <1>8, <1>9, <1>20 DEF RequestFits, CarriesAlone, WriterRelies, Writes, TakesUnnamed, Writing, Naming
<1>23. SomebodyReleases'
  <2>1. ASSUME NEW f \in Stored', f \in unnamed'
        PROVE  Releases(q, f)' \/ (f \in Stored /\ stored'[f].claimed = stored[f].claimed /\ f \in unnamed /\ ~Releases(q, f))
    <3>1. f \in Stored /\ f \in File /\ \A x \in Owner : f \notin Held(x)'
      BY <1>11, <2>1, KnownFiles DEF unnamed, Held
    <3>2. stored'[f] = stored[f]
      BY <1>11, <1>13, <3>1
    <3>3. CASE f \in unnamed
      BY <1>1, <1>2, <3>1, <3>2, <3>3 DEF Releases
    <3>4. CASE f \notin unnamed
      <4>1. PICK x \in Owner : f \in Held(x)  BY <3>1, <3>4, KnownFiles
      <4>2. f \in r.drop  BY <1>5, <1>13, <3>1, <4>1
      <4> QED  BY <1>8, <1>9, <4>2 DEF Releases, Candidates
    <3> QED  BY <3>3, <3>4
  <2> QED  BY <1>6, <1>9, <2>1, StillReleased DEF FilesIInv
<1> QED  BY <1>19, <1>21, <1>22, <1>23, FilesKept

\* The grace of a file tells nothing but the sweep.
LEMMA GraceFits ==
  ASSUME FilesIInv, NEW f \in File, GracePasses(f)
  PROVE  FilesIInv'
<1>1. f \in Stored /\ stored' = [stored EXCEPT ![f].old = TRUE] /\ UNCHANGED <<bucket, mentions, owners, keys, requests, drawn, stamp, edits, crashed>>
  BY DEF GracePasses
<1>2. stored \in [File -> StoredRow \cup {None}] /\ stored[f] \in StoredRow /\ FilesCore
  BY <1>1, KnownFiles DEF FilesIInv, FilesCore, FilesShape, FilesTypeOK
<1>3. [stored[f] EXCEPT !.old = TRUE] \in StoredRow /\ [stored[f] EXCEPT !.old = TRUE].claimed = stored[f].claimed
  BY <1>2 DEF StoredRow
<1>4. stored' \in [File -> StoredRow \cup {None}] /\ stored'[f] # None /\ stored'[f].claimed = stored[f].claimed /\ \A g \in File \ {f} : stored'[g] = stored[g]
  BY <1>1, <1>2, <1>3, FilesAssumption
<1>5. Stored' = Stored /\ unnamed' = unnamed /\ (\A x \in Owner : Held(x)' = Held(x)) /\ \A g \in Stored : stored'[g].claimed = stored[g].claimed
  BY <1>1, <1>4 DEF Stored, unnamed, Held
<1>6. FilesCore'
  <2>1. FilesTypeOK'
    <3>1. \A s \in mentions' : stored'[s[1]].claimed > 0  BY <1>1, <1>5, KnownFiles
    <3> QED  BY <1>1, <1>2, <1>4, <1>5, <3>1 DEF FilesCore, FilesShape, FilesTypeOK
  <2>2. FilesShape'  BY <1>1, <1>2, <2>1 DEF FilesCore, FilesShape
  <2>3. NothingAhead'  BY <1>1, <1>2, <1>5 DEF FilesCore, NothingAhead
  <2>4. NamesStand'  BY <1>1, <1>2, <1>5 DEF FilesCore, NamesStand, NamesAreWritten
  <2> QED  BY <2>2, <2>3, <2>4 DEF FilesCore
<1>7. ASSUME NEW q \in Request PROVE RequestFits(q)' /\ Carried(q)' = Carried(q)
  <2>1. RequestFits(q) /\ Carried(q)' = Carried(q)  BY <1>1, KnownFiles DEF Carried
  <2>2. CarriesAlone(q)'  BY <1>1, <1>5, <2>1 DEF RequestFits, CarriesAlone
  <2>3. WriterRelies(q)'  BY <1>1, <1>5, <2>1 DEF RequestFits, WriterRelies, Writes
  <2>4. TakesUnnamed(q)'  BY <1>1, <1>5, <2>1 DEF RequestFits, TakesUnnamed
  <2> QED  BY <2>1, <2>2, <2>3, <2>4 DEF RequestFits
<1>8. Apart'  BY <1>1, <1>7 DEF FilesIInv, Apart
<1>9. SomebodyReleases'  BY <1>1, <1>5 DEF FilesIInv, SomebodyReleases, Releases
<1> QED  BY <1>6, <1>7, <1>8, <1>9 DEF FilesIInv

-----------------------------------------------------------------------------
(* The theorem.                                                            *)

LEMMA FilesBegin ==
  ASSUME Init
  PROVE  FilesIInv
<1>1. stored = [f \in File |-> None] /\ bucket = {} /\ mentions = {} /\ keys = {} /\ drawn = 0 /\ stamp = 0 /\ crashed = FALSE
      /\ owners = [o \in Owner |-> IF o \in Account THEN Bare ELSE None] /\ requests = [q \in Request |-> Idle]
  BY DEF Init
<1>2. Bare \in OwnerRow /\ Bare.key = None /\ Names(Bare) = {} /\ Names(None) = {} /\ Stored = {}
  <2>1. Bare \in OwnerRow /\ Bare.key = None /\ Bare.text = {}  BY DEF Bare, OwnerRow
  <2> QED  BY <1>1, <2>1 DEF Names, Stored
<1>3. \A o \in Owner : owners[o] \in {Bare, None} /\ Names(owners[o]) = {}
  BY <1>1, <1>2
<1>4. Idle \in RequestRow /\ Idle.at = "idle" /\ Idle.files = {} /\ Idle.seen = {}
  BY DEF Idle, RequestRow, FilePlaces
<1>5. FilesCore
  <2>1. FilesTypeOK  BY <1>1, <1>2, <1>3 DEF FilesTypeOK
  <2>2. FilesShape  BY <1>1, <1>4, <2>1 DEF FilesShape
  <2>3. NothingAhead  BY <1>1, <1>2, <1>3 DEF NothingAhead
  <2>4. NamesStand  BY <1>1, <1>2, <1>3 DEF NamesStand, NamesAreWritten
  <2> QED  BY <2>2, <2>3, <2>4 DEF FilesCore
<1>6. ASSUME NEW q \in Request PROVE RequestFits(q) /\ Carried(q) = {}
  BY <1>1, <1>4 DEF RequestFits, CarriesAlone, Carried, WriterRelies, Writes, TakesUnnamed, Writing, Naming
<1>7. Apart  BY <1>1, <1>4, <1>6 DEF Apart, Writing
<1>8. SomebodyReleases  BY <1>2 DEF SomebodyReleases
<1> QED  BY <1>5, <1>6, <1>7, <1>8 DEF FilesIInv

LEMMA FilesStep ==
  ASSUME OneEditor, FilesIInv, [Next]_vars
  PROVE  FilesIInv'
<1>1. CASE UNCHANGED vars
  <2>1. Stored' = Stored /\ unnamed' = unnamed /\ \A x \in Owner : Held(x)' = Held(x)
    BY <1>1 DEF vars, Stored, unnamed, Held
  <2>2. FilesCore'
    BY <1>1, <2>1 DEF vars, FilesIInv, FilesCore, FilesShape, FilesTypeOK, NothingAhead, NamesStand, NamesAreWritten
  <2>3. ASSUME NEW q \in Request PROVE RequestFits(q)' /\ Carried(q)' = Carried(q)
    <3>1. RequestFits(q) /\ Carried(q)' = Carried(q)  BY <1>1, KnownFiles DEF Carried, vars
    <3>2. CarriesAlone(q)'  BY <1>1, <2>1, <3>1 DEF RequestFits, CarriesAlone, vars
    <3>3. WriterRelies(q)'  BY <1>1, <2>1, <3>1 DEF RequestFits, WriterRelies, Writes, vars
    <3>4. TakesUnnamed(q)'  BY <1>1, <2>1, <3>1 DEF RequestFits, TakesUnnamed, vars
    <3> QED  BY <3>1, <3>2, <3>3, <3>4 DEF RequestFits
  <2>4. Apart'  BY <1>1, <2>3 DEF FilesIInv, Apart, vars
  <2>5. SomebodyReleases'  BY <1>1, <2>1 DEF FilesIInv, SomebodyReleases, Releases, vars
  <2> QED  BY <2>2, <2>3, <2>4, <2>5 DEF FilesIInv
<1>2. ASSUME NEW q \in Request, Step(q) PROVE FilesIInv'
  <2>1. CASE settle_avatar(q)
    <3>1. CASE owners[requests[q].owner] = None
      BY <2>1, <3>1, TakenBack DEF settle_avatar, At
    <3> QED  BY <2>1, <3>1, AvatarSettles
  <2>2. CASE Refused(q)
    BY <2>2, TakenBack DEF Refused, At
  <2> QED
    BY <1>2, <2>1, <2>2, SaveFits, MentionFits, PersistFits, DeleteFits, ReleaseFits, CheckFits, DropAndSweep, DiscardFits DEF Step
<1>3. ASSUME NEW q \in Request, NEW o \in Record, NEW key \in keys \cup {None}, NEW text \in SUBSET keys, edit(q, o, [key |-> key, text |-> text])
      PROVE  FilesIInv'
  <2>1. [key |-> key, text |-> text] \in OwnerRow
    BY KnownFiles DEF OwnerRow
  <2> QED  BY <1>3, <2>1, EditFits
<1> QED
  BY <1>1, <1>2, <1>3, OrphansFit, CrashFits, StoreFits, ForgetFits, AvatarDiscards, GraceFits DEF Next

\* A file stays exactly as long as something names it (upload_service, sweep_service, crud_service): whatever the columns and the markup of any
\* number of rows name, while releases, sweeps, erasures and crashes go on between their statements, no named file loses its row or its object,
\* and none that was dropped is left behind by requests that ended. A record is edited by one request at a time.
THEOREM FilesStayNamed == OneEditor => (Spec => []FilesInv)
<1> SUFFICES ASSUME OneEditor PROVE Spec => []FilesInv  OBVIOUS
<1>1. Init => FilesIInv  BY FilesBegin
<1>2. FilesIInv /\ [Next]_vars => FilesIInv'  BY FilesStep
<1>3. FilesIInv => FilesInv
  <2> SUFFICES ASSUME FilesIInv PROVE FilesInv  OBVIOUS
  <2>1. FilesTypeOK /\ NamesAreWritten  BY DEF FilesIInv, FilesCore, FilesShape, NamesStand
  <2>2. NamedFileStays
    BY KnownFiles DEF NamedFileStays, FilesIInv, FilesCore, NamesStand, Held
  <2>3. DroppedIsReleased
    BY DEF DroppedIsReleased, FilesIInv, SomebodyReleases, Releases, At
  <2> QED  BY <2>1, <2>2, <2>3 DEF FilesInv
<1> QED  BY <1>1, <1>2, <1>3, PTL DEF Spec

-----------------------------------------------------------------------------
(* Catalogue: what the models declare.                                     *)

\* Only rows that carry their brand are pointed at; a key either holds its row back or is of a child, that goes before it; and what holds a
\* row back goes no later than it when its brand is emptied.
LEMMA Keys ==
  /\ \A m \in Model : referenced[m] \subseteq Model /\ \A f \in referenced[m] : Branded(f) /\ f # m
  /\ \A m \in Model : ~Branded(m) => reaches_through[m] \in referenced[m] /\ reaches_through[m] \in Required(m) /\ m \in dependents[reaches_through[m]]
  /\ \A m \in Model : \A f \in referenced[m] : <<m, f>> \in Restricted \/ m \in dependents[f]
  /\ \A m \in Model : Required(m) \subseteq referenced[m]
  /\ \A f, m \in Model : m \in dependents[f] => f \in referenced[m] /\ ~Branded(m)
  /\ \A m \in Model : NoRow # m
<1>1. /\ referenced["currency"] = {} /\ referenced["product"] = {"currency"} /\ referenced["entitlement"] = {}
      /\ referenced["benefit"] = {"entitlement", "product", "currency"} /\ referenced["plan"] = {} /\ referenced["plan_entitlement"] = {"plan", "entitlement"}
      /\ referenced["category"] = {} /\ referenced["content"] = {"category"}
  BY DEF referenced, Model
<1>2. /\ reaches_through["benefit"] = "entitlement" /\ reaches_through["plan_entitlement"] = "plan"
      /\ \A m \in Model \ {"benefit", "plan_entitlement"} : reaches_through[m] = NoRow
  BY DEF reaches_through, Model
<1>3. /\ dependents["entitlement"] = {"benefit", "plan_entitlement"} /\ dependents["plan"] = {"plan_entitlement"}
      /\ \A m \in Model \ {"entitlement", "plan"} : dependents[m] = {}
  BY DEF dependents, Model
<1>4. /\ Required("benefit") = {"entitlement"} /\ Required("plan_entitlement") = {"plan", "entitlement"}
      /\ \A m \in Model \ {"benefit", "plan_entitlement"} : Required(m) = {}
  BY DEF Required
<1>5. \A m \in Model : NoRow # m  BY CatalogueAssumption
<1>6. \A m \in Model : Branded(m) <=> m \notin {"benefit", "plan_entitlement"}
  BY <1>2, <1>5 DEF Branded, Model
<1>7. \A m \in Model : referenced[m] \subseteq Model /\ \A f \in referenced[m] : Branded(f) /\ f # m
  BY <1>1, <1>6 DEF Model
<1>8. \A m \in Model : ~Branded(m) => reaches_through[m] \in referenced[m] /\ reaches_through[m] \in Required(m) /\ m \in dependents[reaches_through[m]]
  BY <1>1, <1>2, <1>3, <1>4, <1>6
<1>9. \A m \in Model : \A f \in referenced[m] : <<m, f>> \in Restricted \/ m \in dependents[f]
  BY <1>1, <1>3 DEF Model, Restricted
<1>10. \A m \in Model : Required(m) \subseteq referenced[m]
  BY <1>1, <1>4 DEF Model
<1>11. \A f, m \in Model : m \in dependents[f] => f \in referenced[m] /\ ~Branded(m)
  BY <1>1, <1>3, <1>6
<1> QED  BY <1>5, <1>7, <1>8, <1>9, <1>10, <1>11

LEMMA TurnOrder ==
  /\ \A m \in Model : Branded(m) => Turn(m) \in DOMAIN TENANT_DEPENDENTS
  /\ \A m, f \in Model : <<m, f>> \in Restricted =>
       /\ Branded(m) => ~(Turn(f) < Turn(m))
       /\ ~Branded(m) => ~(Turn(f) < Turn(reaches_through[m]))
<1>1. DOMAIN TENANT_DEPENDENTS = 1..6  BY DEF TENANT_DEPENDENTS
<1>2. /\ TENANT_DEPENDENTS[1] = "entitlement" /\ TENANT_DEPENDENTS[2] = "plan" /\ TENANT_DEPENDENTS[3] = "product"
      /\ TENANT_DEPENDENTS[4] = "currency" /\ TENANT_DEPENDENTS[5] = "content" /\ TENANT_DEPENDENTS[6] = "category"
  BY DEF TENANT_DEPENDENTS
<1>3. \A n \in 1..6 : n \in {1, 2, 3, 4, 5, 6}  OBVIOUS
<1>4. Turn("entitlement") = 1 /\ Turn("plan") = 2 /\ Turn("product") = 3 /\ Turn("currency") = 4 /\ Turn("content") = 5 /\ Turn("category") = 6
  <2>1. ASSUME NEW n \in 1..6 PROVE Turn(TENANT_DEPENDENTS[n]) = n
    <3>1. \A k \in 1..6 : TENANT_DEPENDENTS[k] = TENANT_DEPENDENTS[n] => k = n  BY <1>2, <1>3
    <3> QED  BY <1>1, <3>1 DEF Turn
  <2> QED  BY <1>2, <2>1
<1>5. reaches_through["benefit"] = "entitlement" /\ reaches_through["plan_entitlement"] = "plan" /\ \A m \in Model \ {"benefit", "plan_entitlement"} : reaches_through[m] = NoRow
  BY DEF reaches_through, Model
<1>6. \A m \in Model : Branded(m) <=> m \notin {"benefit", "plan_entitlement"}
  BY <1>5, CatalogueAssumption DEF Branded, Model
<1>7. \A m \in Model : Branded(m) => Turn(m) \in 1..6
  BY <1>4, <1>6 DEF Model
<1>8. ASSUME NEW m \in Model, NEW f \in Model, <<m, f>> \in Restricted
      PROVE  (Branded(m) => ~(Turn(f) < Turn(m))) /\ (~Branded(m) => ~(Turn(f) < Turn(reaches_through[m])))
  <2>1. CASE m = "product" /\ f = "currency"  BY <1>4, <1>6, <2>1
  <2>2. CASE m = "benefit" /\ f \in {"product", "currency"}  BY <1>4, <1>5, <1>6, <2>2
  <2>3. CASE m = "content" /\ f = "category"  BY <1>4, <1>6, <2>3
  <2> QED  BY <1>8, <2>1, <2>2, <2>3 DEF Restricted
<1> QED  BY <1>1, <1>7, <1>8

LEMMA RowFields ==
  ASSUME NEW x
  PROVE  x \in Row <=> /\ x = [model |-> x.model, tenant |-> x.tenant, refs |-> x.refs]
                       /\ x.model \in Model /\ x.tenant \in Tenant \cup {NoRow} /\ x.refs \in [referenced[x.model] -> Id \cup {NoRow}]
BY DEF Row

-----------------------------------------------------------------------------
(* Catalogue: the inductive invariant.                                     *)

RowBrand(i) == Brand(rows[i])

\* What the rest of the catalogue may ask of a row: its keys name rows of their models that its brand reaches.
RowStands(i) ==
  /\ rows[i] \in Row /\ Exists(rows[i].tenant)
  /\ ~Branded(rows[i].model) => rows[i].tenant = NoRow
  /\ \A f \in Required(rows[i].model) : rows[i].refs[f] # NoRow
  /\ \A f \in referenced[rows[i].model], k \in Id : rows[i].refs[f] = k => k \in Written /\ rows[k].model = f /\ rows[k].tenant \in {NoRow, RowBrand(i)}

\* Every row stands, and no primary key was given that is still to come.
RowsStand ==
  /\ tenants \subseteq Tenant /\ rows \in [Id -> Row \cup {NoRow}]
  /\ \A i \in Written : RowStands(i)
  /\ lastId \in Nat /\ 1 .. lastId \subseteq Id /\ \A i \in Written : i <= lastId

\* What a payload was checked for.
Fitting(row) ==
  /\ row \in Row /\ row.refs \in Named(row.model) /\ Exists(row.tenant) /\ validate(row)
  /\ ~Branded(row.model) => row.tenant = NoRow

\* What a request was answered still holds when it lands.
StillTrue(r) ==
  /\ r.kind \in {"create", "update"} => Fitting(r.row)
  /\ r.kind = "create" => (r.op.tenant # NoRow => Brand(r.row) = r.op.tenant)
  /\ r.kind \in {"update", "delete"} => r.id \in Written /\ confinement(r.op, r.id, TRUE)
  /\ r.kind = "update" => /\ r.was = rows[r.id] /\ r.row.model = rows[r.id].model
                          /\ ensure_referrers_still_reach(r.row, r.id) /\ ensure_children_stay_shared(r.row, r.id)
  /\ r.kind = "reorder" => \A i \in r.id : i \in Written /\ confinement(r.op, i, TRUE)
  /\ r.kind = "tenant" => r.op.tenant = NoRow /\ r.id \in tenants

CatalogueIInv ==
  /\ RowsStand /\ WritesStayInside /\ BrandCanGo
  /\ panel = [q \in PanelRequest |-> panel[q]]
  /\ \A q \in PanelRequest : panel[q] # NoRow => \A r \in {panel[q]} : StillTrue(r)

\* What a row that stands can be relied on for.
LEMMA Standing ==
  ASSUME RowsStand, NEW i \in Written
  PROVE  /\ i \in Id /\ rows[i] \in Row /\ rows[i] # NoRow /\ rows[i].model \in Model /\ rows[i].tenant \in Tenant \cup {NoRow}
         /\ rows[i].refs \in [referenced[rows[i].model] -> Id \cup {NoRow}]
         /\ \A f \in referenced[rows[i].model] : rows[i].refs[f] # NoRow =>
              /\ rows[i].refs[f] \in Written \ {i} /\ rows[rows[i].refs[f]].model = f /\ rows[rows[i].refs[f]].tenant \in {NoRow, RowBrand(i)}
         /\ Branded(rows[i].model) => RowBrand(i) = rows[i].tenant
         /\ ~Branded(rows[i].model) =>
              /\ reaches_through[rows[i].model] \in referenced[rows[i].model] /\ rows[i].refs[reaches_through[rows[i].model]] \in Written \ {i}
              /\ RowBrand(i) = rows[rows[i].refs[reaches_through[rows[i].model]]].tenant
<1>1. i \in Id /\ rows[i] \in Row /\ rows[i] # NoRow /\ RowStands(i)
  BY DEF RowsStand, RowStands, Written
<1>2. rows[i].model \in Model /\ rows[i].tenant \in Tenant \cup {NoRow} /\ rows[i].refs \in [referenced[rows[i].model] -> Id \cup {NoRow}]
  BY <1>1, RowFields
<1>3. ASSUME NEW f \in referenced[rows[i].model], rows[i].refs[f] # NoRow
      PROVE  rows[i].refs[f] \in Written \ {i} /\ rows[rows[i].refs[f]].model = f /\ rows[rows[i].refs[f]].tenant \in {NoRow, RowBrand(i)}
  <2>1. PICK k \in Id : k = rows[i].refs[f]  BY <1>2, <1>3
  <2>2. k \in Written /\ rows[k].model = f /\ rows[k].tenant \in {NoRow, RowBrand(i)}  BY <1>1, <1>3, <2>1 DEF RowStands
  <2>3. f # rows[i].model  BY <1>2, Keys
  <2> QED  BY <2>1, <2>2, <2>3
<1>4. Branded(rows[i].model) => RowBrand(i) = rows[i].tenant
  BY DEF RowBrand, Brand
<1>5. ASSUME ~Branded(rows[i].model)
      PROVE  /\ reaches_through[rows[i].model] \in referenced[rows[i].model] /\ rows[i].refs[reaches_through[rows[i].model]] \in Written \ {i}
             /\ RowBrand(i) = rows[rows[i].refs[reaches_through[rows[i].model]]].tenant
  <2>1. reaches_through[rows[i].model] \in referenced[rows[i].model] /\ reaches_through[rows[i].model] \in Required(rows[i].model)
    BY <1>2, <1>5, Keys
  <2>2. rows[i].refs[reaches_through[rows[i].model]] # NoRow
    BY <1>1, <2>1 DEF RowStands
  <2> QED  BY <1>3, <1>5, <2>1, <2>2 DEF RowBrand, Brand
<1> QED  BY <1>1, <1>2, <1>3, <1>4, <1>5

\* A row stands while it, the rows it names and its brand stay.
LEMMA StandsStill ==
  ASSUME RowsStand, NEW i \in Written, rows'[i] = rows[i], rows[i].tenant = NoRow \/ rows[i].tenant \in tenants',
         \A k \in Written : (\E f \in referenced[rows[i].model] : rows[i].refs[f] = k) => rows'[k] = rows[k]
  PROVE  RowStands(i)'
<1>1. RowStands(i)  BY DEF RowsStand
<1>2. i \in Id /\ rows[i] # NoRow /\ rows[i].model \in Model  BY Standing
<1>3. ASSUME NEW f \in referenced[rows[i].model], NEW k \in Id, rows[i].refs[f] = k
      PROVE  k \in Written' /\ rows'[k].model = f /\ rows'[k].tenant \in {NoRow, RowBrand(i)}
  <2>1. k \in Written /\ rows[k].model = f /\ rows[k].tenant \in {NoRow, RowBrand(i)}  BY <1>1, <1>3 DEF RowStands
  <2>2. rows'[k] = rows[k]  BY <1>3, <2>1
  <2> QED  BY <2>1, <2>2 DEF Written
<1>4. RowBrand(i)' = RowBrand(i)
  <2>1. CASE Branded(rows[i].model)  BY <2>1 DEF RowBrand, Brand
  <2>2. CASE ~Branded(rows[i].model)
    <3>1. PICK k \in Written : k = rows[i].refs[reaches_through[rows[i].model]] /\ reaches_through[rows[i].model] \in referenced[rows[i].model]
      BY <2>2, Standing
    <3>2. rows'[k] = rows[k]  BY <3>1
    <3> QED  BY <2>2, <3>1, <3>2 DEF RowBrand, Brand
  <2> QED  BY <2>1, <2>2
<1> QED  BY <1>1, <1>3, <1>4 DEF RowStands, Exists

\* The new row is one nothing points at.
LEMMA RowCreated ==
  ASSUME RowsStand, NEW row, Fitting(row), lastId + 1 \in Id, rows' = [rows EXCEPT ![lastId + 1] = row], lastId' = lastId + 1, tenants' = tenants
  PROVE  RowsStand'
<1>0. PICK n \in Id : n = lastId + 1  OBVIOUS
<1>1. lastId \in Nat /\ n \in Id /\ n \in Nat /\ rows \in [Id -> Row \cup {NoRow}] /\ n \notin Written
  BY <1>0 DEF RowsStand
<1>2. row \in Row /\ row # NoRow /\ row.model \in Model /\ row.refs \in Named(row.model) /\ row.refs \in [referenced[row.model] -> Id \cup {NoRow}]
  BY RowFields, CatalogueAssumption DEF Fitting
<1>3. rows'[n] = row /\ (\A k \in Id \ {n} : rows'[k] = rows[k]) /\ rows' \in [Id -> Row \cup {NoRow}]
  BY <1>0, <1>1, <1>2
<1>4. Written' = Written \cup {n} /\ \A k \in Written : k # n /\ rows'[k] = rows[k]
  BY <1>1, <1>2, <1>3 DEF Written
<1>5. ASSUME NEW i \in Written PROVE RowStands(i)'
  <2>1. RowStands(i)  BY DEF RowsStand
  <2>2. rows[i].tenant = NoRow \/ rows[i].tenant \in tenants'  BY <2>1 DEF RowStands, Exists
  <2> QED  BY <1>4, <2>2, StandsStill
<1>6. RowStands(n)'
  <2>1. ASSUME NEW f \in referenced[row.model], row.refs[f] # NoRow
        PROVE  row.refs[f] \in Written /\ rows[row.refs[f]].model = f
    BY <1>2, <2>1 DEF Named
  <2>2. \A f \in Required(row.model) : row.refs[f] # NoRow
    BY <1>2, Keys DEF Named
  <2>3. RowBrand(n)' = Brand(row)
    <3>1. CASE Branded(row.model)  BY <1>3, <3>1 DEF RowBrand, Brand
    <3>2. CASE ~Branded(row.model)
      <4>1. reaches_through[row.model] \in referenced[row.model] /\ row.refs[reaches_through[row.model]] # NoRow
        BY <1>2, <2>2, <3>2, Keys
      <4>2. PICK k \in Written : k = row.refs[reaches_through[row.model]]  BY <2>1, <4>1
      <4> QED  BY <1>3, <1>4, <3>2, <4>2 DEF RowBrand, Brand
    <3> QED  BY <3>1, <3>2
  <2>4. ASSUME NEW f \in referenced[row.model], NEW k \in Id, row.refs[f] = k
        PROVE  k \in Written' /\ rows'[k].model = f /\ rows'[k].tenant \in {NoRow, Brand(row)}
    <3>1. k # NoRow  BY CatalogueAssumption
    <3>2. k \in Written /\ rows[k].model = f /\ rows'[k] = rows[k]  BY <1>4, <2>1, <2>4, <3>1
    <3>3. rows[k].tenant \in {NoRow, Brand(row)}
      <4>1. CASE f = reaches_through[row.model]
        <5>1. ~Branded(row.model)  BY <1>2, <4>1, Keys DEF Branded
        <5> QED  BY <2>4, <4>1, <5>1 DEF Brand
      <4>2. CASE f # reaches_through[row.model]  BY <2>4, <3>1, <4>2 DEF Fitting, validate
      <4> QED  BY <4>1, <4>2
    <3> QED  BY <1>4, <3>2, <3>3
  <2>5. row.tenant = NoRow \/ row.tenant \in tenants'  BY DEF Fitting, Exists
  <2>6. ~Branded(row.model) => row.tenant = NoRow  BY DEF Fitting
  <2> QED  BY <1>2, <1>3, <2>2, <2>3, <2>4, <2>5, <2>6 DEF RowStands, Exists
<1>7. 1 .. lastId' \subseteq Id /\ lastId' \in Nat /\ lastId' = n
  <2>1. lastId' = n  BY <1>0
  <2>2. \A k \in 1 .. n : k \in 1 .. lastId \/ k = n  BY <1>0, <1>1
  <2> QED  BY <1>0, <1>1, <2>1, <2>2 DEF RowsStand
<1>8. \A i \in Written' : i <= lastId'
  <2>1. \A i \in Written : i <= n  BY <1>0, <1>1, CatalogueAssumption DEF RowsStand, Written
  <2> QED  BY <1>1, <1>4, <1>7, <2>1
<1> QED  BY <1>3, <1>4, <1>5, <1>6, <1>7, <1>8 DEF RowsStand

\* A row that moves between brands is one nothing of another brand points at.
LEMMA RowUpdated ==
  ASSUME RowsStand, NEW id \in Written, NEW row, Fitting(row), row.model = rows[id].model,
         ensure_referrers_still_reach(row, id), ensure_children_stay_shared(row, id),
         rows' = [rows EXCEPT ![id] = row], lastId' = lastId, tenants' = tenants
  PROVE  RowsStand'
<1>1. rows \in [Id -> Row \cup {NoRow}] /\ id \in Id
  BY DEF RowsStand, Written
<1>2. row \in Row /\ row # NoRow /\ row.model \in Model /\ row.refs \in Named(row.model) /\ row.refs \in [referenced[row.model] -> Id \cup {NoRow}]
  BY RowFields, CatalogueAssumption DEF Fitting
<1>3. rows'[id] = row /\ (\A k \in Id \ {id} : rows'[k] = rows[k]) /\ rows' \in [Id -> Row \cup {NoRow}]
  BY <1>1, <1>2
<1>4. Written' = Written /\ \A k \in Written : rows'[k].model = rows[k].model
  BY <1>1, <1>2, <1>3 DEF Written
<1>5. RowStands(id)'
  <2>1. ASSUME NEW f \in referenced[row.model], row.refs[f] # NoRow
        PROVE  row.refs[f] \in Written /\ rows[row.refs[f]].model = f /\ row.refs[f] # id /\ rows'[row.refs[f]] = rows[row.refs[f]]
    <3>1. row.refs[f] \in Written /\ rows[row.refs[f]].model = f  BY <1>2, <2>1 DEF Named
    <3>2. f # row.model  BY <1>2, Keys
    <3> QED  BY <1>3, <3>1, <3>2 DEF Written
  <2>2. \A f \in Required(row.model) : row.refs[f] # NoRow
    BY <1>2, Keys DEF Named
  <2>3. RowBrand(id)' = Brand(row)
    <3>1. CASE Branded(row.model)  BY <1>3, <3>1 DEF RowBrand, Brand
    <3>2. CASE ~Branded(row.model)
      <4>1. reaches_through[row.model] \in referenced[row.model] /\ row.refs[reaches_through[row.model]] # NoRow
        BY <1>2, <2>2, <3>2, Keys
      <4>2. PICK k \in Written : k = row.refs[reaches_through[row.model]] /\ rows'[k] = rows[k]  BY <2>1, <4>1
      <4> QED  BY <1>3, <3>2, <4>2 DEF RowBrand, Brand
    <3> QED  BY <3>1, <3>2
  <2>4. ASSUME NEW f \in referenced[row.model], NEW k \in Id, row.refs[f] = k
        PROVE  k \in Written /\ rows'[k].model = f /\ rows'[k].tenant \in {NoRow, Brand(row)}
    <3>1. k # NoRow  BY CatalogueAssumption
    <3>2. k \in Written /\ rows[k].model = f /\ rows'[k] = rows[k]  BY <2>1, <2>4, <3>1
    <3>3. rows[k].tenant \in {NoRow, Brand(row)}
      <4>1. CASE f = reaches_through[row.model]
        <5>1. ~Branded(row.model)  BY <1>2, <4>1, Keys DEF Branded
        <5> QED  BY <2>4, <4>1, <5>1 DEF Brand
      <4>2. CASE f # reaches_through[row.model]  BY <2>4, <3>1, <4>2 DEF Fitting, validate
      <4> QED  BY <4>1, <4>2
    <3> QED  BY <3>2, <3>3
  <2>5. row.tenant = NoRow \/ row.tenant \in tenants'  BY DEF Fitting, Exists
  <2>6. ~Branded(row.model) => row.tenant = NoRow  BY DEF Fitting
  <2> QED  BY <1>2, <1>3, <1>4, <2>2, <2>3, <2>4, <2>5, <2>6 DEF RowStands, Exists
<1>6. ASSUME NEW i \in Written, i # id PROVE RowStands(i)'
  <2>1. RowStands(i) /\ rows'[i] = rows[i] /\ i \in Id /\ rows[i].model \in Model  BY <1>3, <1>6, Standing DEF RowsStand
  <2>2. rows[i].tenant = NoRow \/ rows[i].tenant \in tenants'  BY <2>1 DEF RowStands, Exists
  <2>3. CASE ~\E f \in referenced[rows[i].model] : rows[i].refs[f] = id
    <3>1. \A k \in Written : (\E f \in referenced[rows[i].model] : rows[i].refs[f] = k) => rows'[k] = rows[k]
      BY <1>3, <2>3 DEF Written
    <3> QED  BY <2>1, <2>2, <3>1, StandsStill
  <2>4. CASE \E f \in referenced[rows[i].model] : rows[i].refs[f] = id
    <3>1. PICK m \in referenced[rows[i].model] : rows[i].refs[m] = id  BY <2>4
    <3>2. m = row.model /\ Branded(m) /\ rows[id].model = m
      <4>1. id # NoRow  BY <1>1, CatalogueAssumption
      <4> QED  BY <2>1, <3>1, <4>1, Standing, Keys
    <3>3. i \in Pointing(rows[i].model, row.model, id)
      BY <2>1, <3>1, <3>2 DEF Pointing, Of
    <3>4. row.tenant = NoRow \/ row.tenant = rows[id].tenant
      BY <2>1, <3>1, <3>2, <3>3 DEF ensure_referrers_still_reach
    <3>5. CASE row.tenant = rows[id].tenant
      <4>1. \A k \in Written : rows'[k].tenant = rows[k].tenant  BY <1>3, <3>5 DEF Written
      <4>2. RowBrand(i)' = RowBrand(i)
        <5>1. CASE Branded(rows[i].model)  BY <2>1, <5>1 DEF RowBrand, Brand
        <5>2. CASE ~Branded(rows[i].model)
          <6>1. PICK p \in Written : p = rows[i].refs[reaches_through[rows[i].model]]  BY <5>2, Standing
          <6> QED  BY <2>1, <4>1, <5>2, <6>1 DEF RowBrand, Brand
        <5> QED  BY <5>1, <5>2
      <4>3. ASSUME NEW f \in referenced[rows[i].model], NEW k \in Id, rows[i].refs[f] = k
            PROVE  k \in Written /\ rows'[k].model = f /\ rows'[k].tenant \in {NoRow, RowBrand(i)}
        <5>1. k \in Written /\ rows[k].model = f /\ rows[k].tenant \in {NoRow, RowBrand(i)}  BY <2>1, <4>3 DEF RowStands
        <5> QED  BY <1>4, <4>1, <5>1
      <4> QED  BY <1>4, <2>1, <2>2, <4>2, <4>3 DEF RowStands, Exists
    <3>6. CASE row.tenant = NoRow /\ rows[id].tenant # NoRow
      <4>1. CASE Branded(rows[i].model)
        <5>1. RowBrand(i)' = RowBrand(i)  BY <2>1, <4>1 DEF RowBrand, Brand
        <5>2. ASSUME NEW f \in referenced[rows[i].model], NEW k \in Id, rows[i].refs[f] = k
              PROVE  k \in Written /\ rows'[k].model = f /\ rows'[k].tenant \in {NoRow, RowBrand(i)}
          <6>1. k \in Written /\ rows[k].model = f /\ rows[k].tenant \in {NoRow, RowBrand(i)}  BY <2>1, <5>2 DEF RowStands
          <6>2. k = id \/ rows'[k] = rows[k]  BY <1>3, <6>1 DEF Written
          <6> QED  BY <1>3, <1>4, <3>6, <6>1, <6>2
        <5> QED  BY <1>4, <2>1, <2>2, <5>1, <5>2 DEF RowStands, Exists
      <4>2. CASE ~Branded(rows[i].model)
        <5>1. PICK p \in Written : p = rows[i].refs[reaches_through[rows[i].model]] /\ RowBrand(i) = rows[p].tenant
          BY <4>2, Standing
        <5>2. RowBrand(i)' = rows'[p].tenant  BY <2>1, <4>2, <5>1 DEF RowBrand, Brand
        <5>3. reaches_through[rows[i].model] \in referenced[rows[i].model]  BY <2>1, <4>2, Keys
        <5>4. CASE p = id
          <6>1. reaches_through[rows[i].model] = m
            <7>1. id = rows[i].refs[reaches_through[rows[i].model]]  BY <5>1, <5>4
            <7>2. rows[id].model = reaches_through[rows[i].model]  BY <1>1, <2>1, <5>3, <7>1 DEF RowStands
            <7> QED  BY <3>2, <7>2
          <6>2. ASSUME NEW f \in referenced[rows[i].model], NEW k \in Id, rows[i].refs[f] = k
                PROVE  k \in Written /\ rows'[k].model = f /\ rows'[k].tenant = NoRow
            <7>1. k \in Written /\ rows[k].model = f /\ k # NoRow  BY <2>1, <6>2, CatalogueAssumption DEF RowStands
            <7>2. CASE k = id  BY <1>3, <1>4, <3>6, <7>1, <7>2
            <7>3. CASE k # id
              <8>1. f # m  BY <3>1, <6>2, <7>3
              <8>2. rows[k].tenant = NoRow
                BY <2>1, <3>2, <3>3, <3>6, <6>1, <6>2, <7>1, <8>1 DEF ensure_children_stay_shared
              <8>3. rows'[k] = rows[k]  BY <1>3, <7>3
              <8> QED  BY <7>1, <8>2, <8>3
            <7> QED  BY <7>2, <7>3
          <6> QED  BY <1>4, <2>1, <2>2, <6>2 DEF RowStands, Exists
        <5>5. CASE p # id
          <6>1. RowBrand(i)' = RowBrand(i)  BY <1>3, <5>1, <5>2, <5>5 DEF Written
          <6>2. ASSUME NEW f \in referenced[rows[i].model], NEW k \in Id, rows[i].refs[f] = k
                PROVE  k \in Written /\ rows'[k].model = f /\ rows'[k].tenant \in {NoRow, RowBrand(i)}
            <7>1. k \in Written /\ rows[k].model = f /\ rows[k].tenant \in {NoRow, RowBrand(i)}  BY <2>1, <6>2 DEF RowStands
            <7>2. k = id \/ rows'[k] = rows[k]  BY <1>3, <7>1 DEF Written
            <7> QED  BY <1>3, <1>4, <3>6, <7>1, <7>2
          <6> QED  BY <1>4, <2>1, <2>2, <6>1, <6>2 DEF RowStands, Exists
        <5> QED  BY <5>4, <5>5
      <4> QED  BY <4>1, <4>2
    <3> QED  BY <3>4, <3>5, <3>6
  <2> QED  BY <2>3, <2>4
<1> QED  BY <1>3, <1>4, <1>5, <1>6 DEF RowsStand

\* What goes, goes with all that points at it.
LEMMA RowsDeleted ==
  ASSUME RowsStand, NEW gone \in SUBSET Id, tenants' \subseteq tenants, lastId' = lastId,
         rows' = [i \in Id |-> IF i \in gone THEN NoRow ELSE rows[i]],
         \A i \in Written \ gone : rows[i].tenant = NoRow \/ rows[i].tenant \in tenants',
         \A i \in Written \ gone : \A f \in referenced[rows[i].model] : rows[i].refs[f] \notin gone
  PROVE  RowsStand'
<1>1. Written' = Written \ gone /\ \A i \in Written \ gone : rows'[i] = rows[i]
  BY DEF Written
<1>2. rows' \in [Id -> Row \cup {NoRow}]
  BY DEF RowsStand
<1>3. ASSUME NEW i \in Written \ gone PROVE RowStands(i)'
  <2>1. \A k \in Written : (\E f \in referenced[rows[i].model] : rows[i].refs[f] = k) => rows'[k] = rows[k]
    BY <1>1
  <2> QED  BY <1>1, <2>1, StandsStill
<1> QED  BY <1>1, <1>2, <1>3 DEF RowsStand

\* A deletion takes along the children of its row, whose brand is that of the row.
LEMMA DeletionIsClosed ==
  ASSUME RowsStand, NEW id \in Written, NEW gone, gone = {id} \cup delete_dependents(id),
         ~\E j \in Written \ gone : \E f \in DOMAIN rows[j].refs : rows[j].refs[f] \in gone /\ <<rows[j].model, f>> \in Restricted
  PROVE  /\ gone \subseteq Written
         /\ \A i \in Written \ gone : \A f \in referenced[rows[i].model] : rows[i].refs[f] \notin gone
         /\ RowBrand(id) # NoRow => \A i \in gone : RowBrand(i) = RowBrand(id)
<1>1. id \in Id /\ rows[id].model \in Model /\ NoRow \notin Written
  BY Standing, CatalogueAssumption DEF Written
<1>2. ASSUME NEW i \in gone, i # id
      PROVE  /\ i \in Written /\ rows[i].model \in dependents[rows[id].model]
             /\ rows[id].model \in referenced[rows[i].model] /\ rows[i].refs[rows[id].model] = id /\ ~Branded(rows[i].model)
  <2>1. PICK m \in dependents[rows[id].model] : i \in Pointing(m, rows[id].model, id)
    BY <1>2 DEF delete_dependents
  <2>2. i \in Written /\ rows[i].model = m /\ rows[i].refs[rows[id].model] = id
    BY <2>1 DEF Pointing, Of
  <2>3. rows[i].model \in Model  BY <2>2, Standing
  <2> QED  BY <1>1, <2>1, <2>2, <2>3, Keys
<1>3. gone \subseteq Written
  BY <1>2
<1>4. ASSUME NEW i \in Written \ gone, NEW f \in referenced[rows[i].model], rows[i].refs[f] \in gone PROVE FALSE
  <2>1. rows[i].model \in Model /\ DOMAIN rows[i].refs = referenced[rows[i].model] /\ rows[rows[i].refs[f]].model = f /\ Branded(f)
    BY <1>1, <1>3, <1>4, Standing, Keys
  <2>2. rows[i].refs[f] = id  BY <1>2, <1>4, <2>1
  <2>3. rows[i].model \in dependents[f]  BY <1>4, <2>1, Keys
  <2>4. i \in Pointing(rows[i].model, rows[id].model, id)  BY <2>1, <2>2 DEF Pointing, Of
  <2>5. i \in delete_dependents(id)  BY <2>1, <2>2, <2>3, <2>4 DEF delete_dependents
  <2> QED  BY <2>5
<1>5. ASSUME RowBrand(id) # NoRow, NEW i \in gone PROVE RowBrand(i) = RowBrand(id)
  <2>1. CASE i = id  BY <2>1
  <2>2. CASE i # id
    <3>1. rows[id].model \in referenced[rows[i].model] /\ rows[i].refs[rows[id].model] = id /\ i \in Written /\ rows[i].model \in Model
      BY <1>2, <2>2, Standing
    <3>2. Branded(rows[id].model) /\ RowBrand(id) = rows[id].tenant
      BY <3>1, Keys, Standing
    <3>3. rows[id].tenant \in {NoRow, RowBrand(i)}
      BY <1>1, <3>1, Standing
    <3> QED  BY <1>5, <3>2, <3>3
  <2> QED  BY <2>1, <2>2
<1> QED  BY <1>3, <1>4, <1>5

\* A brand takes all its rows along, and whatever points at one of them is one of them too, and goes no later when its key is restricted.
LEMMA BrandIsClosed ==
  ASSUME RowsStand, NEW t \in tenants, NEW gone, gone = {j \in Written : Turns(j, t) # {}}
  PROVE  /\ \A i \in Written \ gone : rows[i].tenant # t
         /\ \A i \in Written \ gone : \A f \in referenced[rows[i].model] : rows[i].refs[f] \notin gone
         /\ ~\E i \in gone, j \in Written : \E f \in DOMAIN rows[j].refs :
                /\ rows[j].refs[f] = i /\ <<rows[j].model, f>> \in Restricted
                /\ \A n \in Turns(j, t) : \E k \in Turns(i, t) : k < n
<1>1. t # NoRow /\ t \in Tenant /\ NoRow \notin Written
  BY CatalogueAssumption DEF RowsStand, Written
<1>2. ASSUME NEW j \in Written, RowBrand(j) = t
      PROVE  /\ Branded(rows[j].model) => Turn(rows[j].model) \in Turns(j, t)
             /\ ~Branded(rows[j].model) => Turn(reaches_through[rows[j].model]) \in Turns(j, t)
  <2>1. rows[j].model \in Model  BY Standing
  <2>2. CASE Branded(rows[j].model)
    BY <1>2, <2>1, <2>2, Standing, TurnOrder DEF Turns
  <2>3. CASE ~Branded(rows[j].model)
    <3> DEFINE f == reaches_through[rows[j].model]
    <3>1. f \in referenced[rows[j].model] /\ rows[j].model \in dependents[f] /\ f \in Model /\ Branded(f)
      BY <2>1, <2>3, Keys
    <3>2. rows[rows[j].refs[f]].tenant = t  BY <1>2, <2>3, Standing
    <3>3. Turn(f) \in DOMAIN TENANT_DEPENDENTS  BY <3>1, TurnOrder
    <3> HIDE DEF f
    <3>4. Turn(f) \in Turns(j, t)  BY <3>1, <3>2, <3>3 DEF Turns
    <3> QED  BY <2>3, <3>4 DEF f
  <2> QED  BY <2>2, <2>3
<1>3. ASSUME NEW i \in gone, NEW j \in Written, NEW f \in referenced[rows[j].model], rows[j].refs[f] = i
      PROVE  /\ RowBrand(j) = t /\ rows[i].model = f /\ f \in Model /\ rows[j].model \in Model
             /\ \A k \in Turns(i, t) : k = Turn(f)
  <2>1. i \in Written /\ rows[i].model = f /\ Branded(f) /\ f \in Model /\ rows[j].model \in Model /\ rows[i].tenant \in {NoRow, RowBrand(j)}
    BY <1>1, <1>3, Standing, Keys
  <2>2. ASSUME NEW k \in Turns(i, t) PROVE k = Turn(f) /\ rows[i].tenant = t
    <3>1. \A g \in referenced[f] : g \in Model /\ f \notin dependents[g]
      BY <2>1, Keys
    <3> QED  BY <2>1, <2>2, <3>1 DEF Turns
  <2>3. rows[i].tenant = t  BY <1>3, <2>2
  <2> QED  BY <1>1, <2>1, <2>2, <2>3
<1>4. ASSUME NEW i \in Written \ gone PROVE rows[i].tenant # t
  <2>1. SUFFICES ASSUME rows[i].tenant = t PROVE FALSE  OBVIOUS
  <2>2. Branded(rows[i].model)  BY <1>1, <2>1 DEF RowsStand, RowStands
  <2>3. RowBrand(i) = t  BY <2>1, <2>2, Standing
  <2> QED  BY <1>2, <2>2, <2>3
<1>5. ASSUME NEW i \in Written \ gone, NEW f \in referenced[rows[i].model], rows[i].refs[f] \in gone PROVE FALSE
  <2>1. RowBrand(i) = t  BY <1>3, <1>5
  <2> QED  BY <1>2, <2>1
<1>6. ASSUME NEW i \in gone, NEW j \in Written, NEW f \in DOMAIN rows[j].refs,
             rows[j].refs[f] = i, <<rows[j].model, f>> \in Restricted, \A n \in Turns(j, t) : \E k \in Turns(i, t) : k < n
      PROVE  FALSE
  <2>1. f \in referenced[rows[j].model]  BY <1>6, Standing
  <2>2. RowBrand(j) = t /\ f \in Model /\ rows[j].model \in Model /\ \A k \in Turns(i, t) : k = Turn(f)
    BY <1>3, <1>6, <2>1
  <2>3. CASE Branded(rows[j].model)
    <3>1. Turn(f) < Turn(rows[j].model)  BY <1>2, <1>6, <2>2, <2>3
    <3> QED  BY <1>6, <2>2, <2>3, <3>1, TurnOrder
  <2>4. CASE ~Branded(rows[j].model)
    <3>1. Turn(f) < Turn(reaches_through[rows[j].model])  BY <1>2, <1>6, <2>2, <2>4
    <3> QED  BY <1>6, <2>2, <2>4, <3>1, TurnOrder
  <2> QED  BY <2>3, <2>4
<1> QED  BY <1>4, <1>5, <1>6

-----------------------------------------------------------------------------
(* Catalogue: what a request reads.                                        *)

LEMMA StillSame ==
  ASSUME NEW r, StillTrue(r), UNCHANGED <<tenants, rows>>
  PROVE  StillTrue(r)'
<1>1. Written' = Written /\ \A m, f, i : Pointing(m, f, i)' = Pointing(m, f, i)  BY DEF Written, Pointing, Of
<1>2. \A x : Fitting(x) => Fitting(x)'
  <2>1. ASSUME NEW x, Fitting(x) PROVE Fitting(x)'
    <3>1. \A m : Named(m)' = Named(m)  BY <1>1 DEF Named
    <3>2. validate(x)'  BY <2>1 DEF Fitting, validate, Brand
    <3> QED  BY <2>1, <3>1, <3>2 DEF Fitting, Exists
  <2> QED  BY <2>1
<1>3. \A op, i : confinement(op, i, TRUE) <=> confinement(op, i, TRUE)'  BY DEF confinement, Brand
<1>4. \A x, i : ensure_referrers_still_reach(x, i) => ensure_referrers_still_reach(x, i)'  BY <1>1 DEF ensure_referrers_still_reach
<1>5. \A x, i : ensure_children_stay_shared(x, i) => ensure_children_stay_shared(x, i)'  BY <1>1 DEF ensure_children_stay_shared
<1>6. r.kind = "create" => (r.op.tenant # NoRow => Brand(r.row) = r.op.tenant)'  BY DEF StillTrue, Brand
<1>7. PICK row, op, id : row = r.row /\ op = r.op /\ id = r.id  OBVIOUS
<1> QED  BY <1>1, <1>2, <1>3, <1>4, <1>5, <1>6, <1>7 DEF StillTrue

LEMMA ReadKeeps ==
  ASSUME CatalogueIInv, \A p, q \in PanelRequest : p = q, NEW q \in PanelRequest, NEW r, StillTrue(r),
         panel' = [panel EXCEPT ![q] = r], touched' = [by |-> NoRow, of |-> {}], UNCHANGED <<tenants, rows, lastId, refused>>
  PROVE  CatalogueIInv'
<1>1. Written' = Written  BY DEF Written
<1>2. RowsStand'
  <2>1. ASSUME NEW i \in Written PROVE RowStands(i)'
    <3>1. RowStands(i)  BY DEF CatalogueIInv, RowsStand
    <3> QED  BY <1>1, <3>1 DEF RowStands, RowBrand, Brand, Exists
  <2> QED  BY <1>1, <2>1 DEF CatalogueIInv, RowsStand
<1>3. WritesStayInside' /\ BrandCanGo'
  BY DEF CatalogueIInv, WritesStayInside, BrandCanGo
<1>4. panel' = [p \in PanelRequest |-> panel'[p]] /\ panel'[q] = r
  BY DEF CatalogueIInv
<1>5. StillTrue(r)'
  BY StillSame
<1>6. \A p \in PanelRequest : \A a \in {panel'[p]} : StillTrue(a)'
  <2>1. SUFFICES ASSUME NEW p \in PanelRequest, NEW a, a = panel'[p] PROVE StillTrue(a)'
    OBVIOUS
  <2>2. a = r  BY <1>4, <2>1
  <2> QED  BY <1>5, <2>2
<1> QED  BY <1>2, <1>3, <1>4, <1>6 DEF CatalogueIInv

\* A payload, stamped with the brand of its operator, is a row.
LEMMA Payloads ==
  ASSUME RowsStand, NEW m \in Model, NEW x \in Payload(m), NEW op \in Operator, NEW new, new = stamped(x, op)
  PROVE  /\ new \in Row /\ new.model = m /\ new.refs \in Named(m) /\ Exists(new.tenant)
         /\ ~Branded(m) => new.tenant = NoRow
         /\ (Branded(m) /\ op.tenant # NoRow) => new.tenant = op.tenant
<1>1. x = [model |-> m, tenant |-> x.tenant, refs |-> x.refs] /\ x.refs \in Named(m) /\ x.tenant \in tenants \cup {NoRow} /\ (~Branded(m) => x.tenant = NoRow)
  BY DEF Payload
<1>2. x.refs \in [referenced[m] -> Id \cup {NoRow}] /\ x.model = m
  BY <1>1 DEF Named, Written
<1>3. op.tenant \in tenants \cup {NoRow} /\ tenants \subseteq Tenant
  BY DEF Operator, RowsStand
<1>4. PICK t \in tenants \cup {NoRow} : new = [model |-> m, tenant |-> t, refs |-> x.refs] /\ (~Branded(m) => t = NoRow) /\ ((Branded(m) /\ op.tenant # NoRow) => t = op.tenant)
  <2>1. CASE op.tenant # NoRow /\ Branded(m)
    <3>1. new = [model |-> m, tenant |-> op.tenant, refs |-> x.refs]  BY <1>1, <1>2, <2>1 DEF stamped
    <3> QED  BY <1>3, <2>1, <3>1
  <2>2. CASE ~(op.tenant # NoRow /\ Branded(m))
    <3>1. new = x  BY <1>2, <2>2 DEF stamped
    <3> QED  BY <1>1, <2>2, <3>1
  <2> QED  BY <2>1, <2>2
<1>5. new \in Row  BY <1>2, <1>3, <1>4, RowFields
<1> QED  BY <1>1, <1>4, <1>5 DEF Exists

LEMMA CreateReads ==
  ASSUME CatalogueIInv, \A p, q \in PanelRequest : p = q, NEW q \in PanelRequest, NEW op \in Operator, create(q, op)
  PROVE  CatalogueIInv'
<1>0. PICK m \in Model : \E x \in Payload(m) :
        ensure_references_are_reachable(stamped(x, op), op, NoRow) /\ validate(stamped(x, op)) /\ Read(q, "create", op, NoRow, stamped(x, op))
  BY DEF create
<1>1. PICK x \in Payload(m) :
        ensure_references_are_reachable(stamped(x, op), op, NoRow) /\ validate(stamped(x, op)) /\ Read(q, "create", op, NoRow, stamped(x, op))
  BY <1>0
<1>2. PICK new : new = stamped(x, op)  OBVIOUS
<1>3. RowsStand  BY DEF CatalogueIInv
<1>4. /\ new \in Row /\ new.model = m /\ new.refs \in Named(m) /\ Exists(new.tenant) /\ (~Branded(m) => new.tenant = NoRow)
      /\ (Branded(m) /\ op.tenant # NoRow) => new.tenant = op.tenant
  BY <1>2, <1>3, Payloads
<1>5. Fitting(new)
  BY <1>1, <1>2, <1>4 DEF Fitting
<1>6. op.tenant # NoRow => Brand(new) = op.tenant
  <2>1. CASE Branded(m)  BY <1>4, <2>1 DEF Brand
  <2>2. CASE ~Branded(m) /\ op.tenant # NoRow
    <3> DEFINE f == reaches_through[m]
    <3>1. f \in referenced[m] /\ f \in Required(m) /\ Branded(f)  BY <2>2, Keys
    <3>2. new.refs[f] # NoRow  BY <1>4, <3>1 DEF Named
    <3>3. confinement(op, new.refs[f], TRUE) /\ new.refs[f] \in Of(f)
      BY <1>1, <1>2, <1>4, <3>1, <3>2 DEF ensure_references_are_reachable
    <3>4. Brand(rows[new.refs[f]]) = op.tenant  BY <2>2, <3>3 DEF confinement
    <3>5. Brand(rows[new.refs[f]]) = rows[new.refs[f]].tenant  BY <3>1, <3>3 DEF Brand, Of
    <3>6. Brand(new) = rows[new.refs[f]].tenant  BY <1>4, <2>2 DEF Brand
    <3> QED  BY <3>4, <3>5, <3>6
  <2> QED  BY <2>1, <2>2
<1> DEFINE r == [kind |-> "create", op |-> op, id |-> NoRow, row |-> new, was |-> NoRow]
<1>7. StillTrue(r)
  BY <1>5, <1>6 DEF StillTrue
<1>8. panel' = [panel EXCEPT ![q] = r] /\ touched' = [by |-> NoRow, of |-> {}] /\ UNCHANGED <<tenants, rows, lastId, refused>>
  BY <1>1, <1>2 DEF Read
<1> HIDE DEF r
<1> QED  BY <1>7, <1>8, ReadKeeps

LEMMA UpdateReads ==
  ASSUME CatalogueIInv, \A p, q \in PanelRequest : p = q, NEW q \in PanelRequest, NEW op \in Operator, NEW i \in Id, update(q, op, i)
  PROVE  CatalogueIInv'
<1>1. i \in Written /\ confinement(op, i, TRUE)
  BY DEF update
<1>2. PICK x \in Payload(rows[i].model) :
        /\ ensure_referrers_still_reach(stamped(x, op), i) /\ ensure_children_stay_shared(stamped(x, op), i)
        /\ validate(stamped(x, op)) /\ Read(q, "update", op, i, stamped(x, op))
  BY DEF update
<1>3. PICK new : new = stamped(x, op)  OBVIOUS
<1>4. RowsStand  BY DEF CatalogueIInv
<1>5. PICK m \in Model : m = rows[i].model
  BY <1>1, <1>4, Standing
<1>6. new \in Row /\ new.model = m /\ new.refs \in Named(m) /\ Exists(new.tenant) /\ (~Branded(m) => new.tenant = NoRow)
  BY <1>2, <1>3, <1>4, <1>5, Payloads
<1>7. Fitting(new)
  BY <1>2, <1>3, <1>6 DEF Fitting
<1> DEFINE r == [kind |-> "update", op |-> op, id |-> i, row |-> new, was |-> rows[i]]
<1>8. StillTrue(r)
  BY <1>1, <1>2, <1>3, <1>5, <1>6, <1>7 DEF StillTrue
<1>9. panel' = [panel EXCEPT ![q] = r] /\ touched' = [by |-> NoRow, of |-> {}] /\ UNCHANGED <<tenants, rows, lastId, refused>>
  BY <1>2, <1>3 DEF Read
<1>10. PICK s : s = r  OBVIOUS
<1> HIDE DEF r
<1> QED  BY <1>8, <1>9, <1>10, ReadKeeps

LEMMA OtherReads ==
  ASSUME CatalogueIInv, \A p, q \in PanelRequest : p = q, NEW q \in PanelRequest, NEW op \in Operator,
         \/ \E i \in Id : delete_record(q, op, i)
         \/ \E ids \in SUBSET Written : reorder(q, op, ids)
         \/ \E t \in Tenant : delete_tenant(q, op, t)
  PROVE  CatalogueIInv'
<1>1. ASSUME NEW kind \in {"delete", "reorder", "tenant"}, NEW id, Read(q, kind, op, id, NoRow),
             kind = "delete" => id \in Written /\ confinement(op, id, TRUE),
             kind = "reorder" => \A i \in id : i \in Written /\ confinement(op, i, TRUE),
             kind = "tenant" => op.tenant = NoRow /\ id \in tenants
      PROVE  CatalogueIInv'
  <2> DEFINE r == [kind |-> kind, op |-> op, id |-> id, row |-> NoRow, was |-> NoRow]
  <2>1. StillTrue(r)
    BY <1>1 DEF StillTrue
  <2>2. panel' = [panel EXCEPT ![q] = r] /\ touched' = [by |-> NoRow, of |-> {}] /\ UNCHANGED <<tenants, rows, lastId, refused>>
    BY <1>1 DEF Read
  <2> HIDE DEF r
  <2> QED  BY <2>1, <2>2, ReadKeeps
<1>2. CASE \E i \in Id : delete_record(q, op, i)
  BY <1>1, <1>2 DEF delete_record
<1>3. CASE \E ids \in SUBSET Written : reorder(q, op, ids)
  BY <1>1, <1>3 DEF reorder
<1>4. CASE \E t \in Tenant : delete_tenant(q, op, t)
  BY <1>1, <1>4 DEF delete_tenant
<1> QED  BY <1>2, <1>3, <1>4

-----------------------------------------------------------------------------
(* Catalogue: what lands.                                                  *)

LEMMA LandKeeps ==
  ASSUME CatalogueIInv, \A p, q \in PanelRequest : p = q, NEW q \in PanelRequest, Ends(q), RowsStand', WritesStayInside', BrandCanGo'
  PROVE  CatalogueIInv'
<1>1. panel' = [p \in PanelRequest |-> NoRow]
  BY DEF CatalogueIInv, Ends
<1>2. \A p \in PanelRequest : panel'[p] = NoRow
  BY <1>1
<1>3. panel' = [p \in PanelRequest |-> panel'[p]]
  BY <1>1
<1> QED  BY <1>2, <1>3 DEF CatalogueIInv

LEMMA RefuseKeeps ==
  ASSUME CatalogueIInv, \A p, q \in PanelRequest : p = q, NEW q \in PanelRequest, Refuse(q), refused' = refused
  PROVE  CatalogueIInv'
<1>1. Written' = Written /\ UNCHANGED <<tenants, rows, lastId, touched>> /\ Ends(q)
  BY DEF Written, Refuse
<1>2. RowsStand'
  <2>1. ASSUME NEW i \in Written PROVE RowStands(i)'
    <3>1. RowStands(i)  BY DEF CatalogueIInv, RowsStand
    <3> QED  BY <1>1, <3>1 DEF RowStands, RowBrand, Brand, Exists
  <2> QED  BY <1>1, <2>1 DEF CatalogueIInv, RowsStand
<1>3. WritesStayInside' /\ BrandCanGo'
  BY <1>1 DEF CatalogueIInv, WritesStayInside, BrandCanGo
<1> QED  BY <1>1, <1>2, <1>3, LandKeeps

LEMMA CreateLands ==
  ASSUME CatalogueIInv, \A p, q \in PanelRequest : p = q, NEW q \in PanelRequest, LandCreate(q)
  PROVE  CatalogueIInv'
<1>1. PICK r : r = panel[q]  OBVIOUS
<1>2. RowsStand /\ StillTrue(r) /\ r.kind = "create" /\ lastId + 1 \in Id /\ refused' = refused
  BY <1>1 DEF CatalogueIInv, LandCreate, IdlePanel
<1>3. CASE Refuse(q)
  BY <1>2, <1>3, RefuseKeeps
<1>4. CASE ~Refuse(q)
  <2>1. /\ rows' = [rows EXCEPT ![lastId + 1] = r.row] /\ lastId' = lastId + 1 /\ touched' = [by |-> r.op.tenant, of |-> {Brand(r.row)}]
        /\ Ends(q) /\ tenants' = tenants
    BY <1>1, <1>4 DEF LandCreate
  <2>2. Fitting(r.row) /\ (r.op.tenant # NoRow => Brand(r.row) = r.op.tenant)
    BY <1>2 DEF StillTrue
  <2>3. PICK row : row = r.row  OBVIOUS
  <2>4. RowsStand'
    BY <1>2, <2>1, <2>2, <2>3, RowCreated
  <2>5. WritesStayInside' /\ BrandCanGo'
    BY <1>2, <2>1, <2>2 DEF CatalogueIInv, WritesStayInside, BrandCanGo
  <2> QED  BY <2>1, <2>4, <2>5, LandKeeps
<1> QED  BY <1>3, <1>4

LEMMA UpdateLands ==
  ASSUME CatalogueIInv, \A p, q \in PanelRequest : p = q, NEW q \in PanelRequest, LandUpdate(q)
  PROVE  CatalogueIInv'
<1>1. PICK r : r = panel[q]  OBVIOUS
<1>2. RowsStand /\ StillTrue(r) /\ r.kind = "update" /\ refused' = refused
  BY <1>1 DEF CatalogueIInv, LandUpdate, IdlePanel
<1>3. CASE Refuse(q)
  BY <1>2, <1>3, RefuseKeeps
<1>4. CASE ~Refuse(q)
  <2>1. /\ rows' = [rows EXCEPT ![r.id] = DeclaredOver(rows[r.id], r.was, r.row)] /\ Wrote(q, {r.id})
        /\ Ends(q) /\ tenants' = tenants /\ lastId' = lastId
    BY <1>1, <1>4 DEF LandUpdate
  <2>2. /\ r.id \in Written /\ confinement(r.op, r.id, TRUE) /\ r.was = rows[r.id] /\ Fitting(r.row) /\ r.row.model = rows[r.id].model
        /\ ensure_referrers_still_reach(r.row, r.id) /\ ensure_children_stay_shared(r.row, r.id)
    BY <1>2 DEF StillTrue
  <2>3. PICK row, id : row = r.row /\ id = r.id  OBVIOUS
  <2>4. DeclaredOver(rows[id], r.was, row) = row
    <3>1. row = [model |-> row.model, tenant |-> row.tenant, refs |-> row.refs] /\ row.refs \in [referenced[row.model] -> Id \cup {NoRow}]
      BY <2>2, <2>3, RowFields DEF Fitting
    <3>2. [f \in DOMAIN row.refs |-> IF row.refs[f] # rows[id].refs[f] THEN row.refs[f] ELSE rows[id].refs[f]] = row.refs
      BY <3>1
    <3>3. DeclaredOver(rows[id], rows[id], row) = [model |-> row.model, tenant |-> row.tenant, refs |-> row.refs]
      BY <2>2, <2>3, <3>2 DEF DeclaredOver
    <3> QED  BY <2>2, <2>3, <3>1, <3>3
  <2>5. RowsStand'
    BY <1>2, <2>1, <2>2, <2>3, <2>4, RowUpdated
  <2>6. WritesStayInside' /\ BrandCanGo'
    BY <1>1, <1>2, <2>1, <2>2 DEF CatalogueIInv, WritesStayInside, BrandCanGo, Wrote, confinement
  <2> QED  BY <2>1, <2>5, <2>6, LandKeeps
<1> QED  BY <1>3, <1>4

LEMMA ReorderLands ==
  ASSUME CatalogueIInv, \A p, q \in PanelRequest : p = q, NEW q \in PanelRequest, LandReorder(q)
  PROVE  CatalogueIInv'
<1>1. PICK r : r = panel[q]  OBVIOUS
<1>2. RowsStand /\ StillTrue(r) /\ r.kind = "reorder" /\ refused' = refused
  BY <1>1 DEF CatalogueIInv, LandReorder, IdlePanel
<1>3. CASE Refuse(q)
  BY <1>2, <1>3, RefuseKeeps
<1>4. CASE ~Refuse(q)
  <2>1. Wrote(q, r.id) /\ Ends(q) /\ UNCHANGED <<tenants, rows, lastId>>
    BY <1>1, <1>4 DEF LandReorder
  <2>2. \A i \in r.id : i \in Written /\ confinement(r.op, i, TRUE)
    BY <1>2 DEF StillTrue
  <2>3. RowsStand'
    <3>1. Written' = Written  BY <2>1 DEF Written
    <3>2. ASSUME NEW i \in Written PROVE RowStands(i)'
      <4>1. RowStands(i)  BY <1>2 DEF RowsStand
      <4> QED  BY <2>1, <3>1, <4>1 DEF RowStands, RowBrand, Brand, Exists
    <3> QED  BY <1>2, <2>1, <3>1, <3>2 DEF RowsStand
  <2>4. WritesStayInside' /\ BrandCanGo'
    BY <1>1, <1>2, <2>1, <2>2 DEF CatalogueIInv, WritesStayInside, BrandCanGo, Wrote, confinement
  <2> QED  BY <2>1, <2>3, <2>4, LandKeeps
<1> QED  BY <1>3, <1>4

LEMMA DeleteLands ==
  ASSUME CatalogueIInv, \A p, q \in PanelRequest : p = q, NEW q \in PanelRequest, LandDelete(q)
  PROVE  CatalogueIInv'
<1>1. PICK r : r = panel[q]  OBVIOUS
<1>2. RowsStand /\ StillTrue(r) /\ r.kind = "delete" /\ refused' = refused
  BY <1>1 DEF CatalogueIInv, LandDelete, IdlePanel
<1>3. CASE Refuse(q)
  BY <1>2, <1>3, RefuseKeeps
<1>4. CASE ~Refuse(q)
  <2>0. PICK id : id = r.id  OBVIOUS
  <2>1. PICK gone : gone = {id} \cup delete_dependents(id)  OBVIOUS
  <2>2. /\ rows' = [i \in Id |-> IF i \in gone THEN NoRow ELSE rows[i]] /\ Wrote(q, gone) /\ Ends(q) /\ UNCHANGED <<tenants, lastId>>
        /\ ~\E j \in Written \ gone : \E f \in DOMAIN rows[j].refs : rows[j].refs[f] \in gone /\ <<rows[j].model, f>> \in Restricted
    BY <1>1, <1>4, <2>0, <2>1 DEF LandDelete
  <2>3. id \in Written /\ confinement(r.op, id, TRUE)
    BY <1>2, <2>0 DEF StillTrue
  <2>4. /\ gone \subseteq Written
        /\ \A i \in Written \ gone : \A f \in referenced[rows[i].model] : rows[i].refs[f] \notin gone
        /\ RowBrand(id) # NoRow => \A i \in gone : RowBrand(i) = RowBrand(id)
    BY <1>2, <2>1, <2>2, <2>3, DeletionIsClosed
  <2>5. RowsStand'
    <3>1. \A i \in Written : rows[i].tenant = NoRow \/ rows[i].tenant \in tenants'
      BY <1>2, <2>2 DEF RowsStand, RowStands, Exists
    <3> QED  BY <1>2, <2>2, <2>4, <3>1, RowsDeleted DEF Written
  <2>6. r.op.tenant # NoRow => RowBrand(id) = r.op.tenant
    BY <2>3 DEF confinement, RowBrand
  <2>7. r.op.tenant # NoRow => \A i \in gone : Brand(rows[i]) = r.op.tenant
    BY <2>4, <2>6 DEF RowBrand
  <2>8. WritesStayInside' /\ BrandCanGo'
    BY <1>1, <1>2, <2>2, <2>7 DEF CatalogueIInv, WritesStayInside, BrandCanGo, Wrote
  <2> QED  BY <2>2, <2>5, <2>8, LandKeeps
<1> QED  BY <1>3, <1>4

LEMMA TenantLands ==
  ASSUME CatalogueIInv, \A p, q \in PanelRequest : p = q, NEW q \in PanelRequest, LandTenant(q)
  PROVE  CatalogueIInv'
<1>1. PICK r : r = panel[q]  OBVIOUS
<1>2. RowsStand /\ StillTrue(r) /\ r.kind = "tenant"
  BY <1>1 DEF CatalogueIInv, LandTenant, IdlePanel
<1>3. PICK t, gone : t = r.id /\ gone = {j \in Written : Turns(j, r.id) # {}}  OBVIOUS
<1>4. r.op.tenant = NoRow /\ t \in tenants
  BY <1>2, <1>3 DEF StillTrue
<1>5. /\ \A i \in Written \ gone : rows[i].tenant # t
      /\ \A i \in Written \ gone : \A f \in referenced[rows[i].model] : rows[i].refs[f] \notin gone
      /\ ~\E i \in gone, j \in Written : \E f \in DOMAIN rows[j].refs :
             /\ rows[j].refs[f] = i /\ <<rows[j].model, f>> \in Restricted
             /\ \A n \in Turns(j, t) : \E k \in Turns(i, t) : k < n
  <2>1. gone = {j \in Written : Turns(j, t) # {}}  BY <1>3
  <2> QED  BY <1>2, <1>4, <2>1, BrandIsClosed
<1>6. /\ rows' = [i \in Id |-> IF i \in gone THEN NoRow ELSE rows[i]] /\ tenants' = tenants \ {t}
      /\ Wrote(q, gone) /\ Ends(q) /\ UNCHANGED <<lastId, refused>>
  BY <1>1, <1>3, <1>4, <1>5 DEF LandTenant
<1>7. RowsStand'
  <2>1. \A i \in Written \ gone : rows[i].tenant = NoRow \/ rows[i].tenant \in tenants'
    BY <1>2, <1>5, <1>6 DEF RowsStand, RowStands, Exists
  <2>2. gone \in SUBSET Id  BY <1>3 DEF Written
  <2> QED  BY <1>2, <1>5, <1>6, <2>1, <2>2, RowsDeleted
<1>8. WritesStayInside' /\ BrandCanGo'
  BY <1>1, <1>4, <1>6 DEF CatalogueIInv, WritesStayInside, BrandCanGo, Wrote
<1> QED  BY <1>6, <1>7, <1>8, LandKeeps

-----------------------------------------------------------------------------
(* Catalogue: the theorem.                                                 *)

LEMMA CatalogueBegins ==
  ASSUME CatalogueInit
  PROVE  CatalogueIInv
<1>1. Written = {}  BY DEF CatalogueInit, Written
<1>2. RowsStand  BY <1>1 DEF CatalogueInit, RowsStand
<1>3. WritesStayInside /\ BrandCanGo  BY DEF CatalogueInit, WritesStayInside, BrandCanGo
<1> QED  BY <1>2, <1>3 DEF CatalogueInit, CatalogueIInv

LEMMA CatalogueGoesOn ==
  ASSUME \A p, q \in PanelRequest : p = q, CatalogueIInv, [CatalogueNext]_catalogueVars
  PROVE  CatalogueIInv'
<1>1. CASE UNCHANGED catalogueVars
  <2>1. Written' = Written /\ UNCHANGED <<tenants, rows, lastId, panel, touched, refused>>  BY <1>1 DEF Written, catalogueVars
  <2>2. RowsStand'
    <3>1. ASSUME NEW i \in Written PROVE RowStands(i)'
      <4>1. RowStands(i)  BY DEF CatalogueIInv, RowsStand
      <4> QED  BY <2>1, <4>1 DEF RowStands, RowBrand, Brand, Exists
    <3> QED  BY <2>1, <3>1 DEF CatalogueIInv, RowsStand
  <2>3. ASSUME NEW q \in PanelRequest, panel'[q] # NoRow, NEW r, r = panel'[q] PROVE StillTrue(r)'
    <3>1. StillTrue(r)  BY <2>1, <2>3 DEF CatalogueIInv
    <3> QED  BY <2>1, <3>1, StillSame
  <2>4. \A q \in PanelRequest : panel'[q] # NoRow => \A r \in {panel'[q]} : StillTrue(r)'
    BY <2>3
  <2>5. WritesStayInside' /\ BrandCanGo' /\ panel' = [q \in PanelRequest |-> panel'[q]]
    BY <2>1 DEF CatalogueIInv, WritesStayInside, BrandCanGo
  <2> QED  BY <2>2, <2>4, <2>5 DEF CatalogueIInv
<1>2. CASE CatalogueNext
  BY <1>2, CreateReads, UpdateReads, OtherReads, CreateLands, UpdateLands, ReorderLands, DeleteLands, TenantLands DEF CatalogueNext
<1> QED  BY <1>1, <1>2

LEMMA StandsInside ==
  ASSUME CatalogueIInv
  PROVE  CatalogueInv
<1>1. RowsStand /\ WritesStayInside /\ BrandCanGo  BY DEF CatalogueIInv
<1>2. lastId \in 0 .. Cardinality(Id)
  <2>1. lastId \in Nat /\ 1 .. lastId \subseteq Id /\ IsFiniteSet(Id)  BY <1>1, CatalogueAssumption DEF RowsStand
  <2>2. Cardinality(1 .. lastId) = lastId  BY <2>1, FS_Interval
  <2>3. Cardinality(1 .. lastId) <= Cardinality(Id) /\ Cardinality(Id) \in Nat  BY <2>1, FS_Subset, FS_CardinalityType
  <2> QED  BY <2>1, <2>2, <2>3
<1>3. ASSUME NEW i \in Written
      PROVE  /\ Exists(rows[i].tenant)
             /\ \A f \in DOMAIN rows[i].refs : rows[i].refs[f] # NoRow => rows[i].refs[f] \in Of(f)
             /\ \A f \in referenced[rows[i].model] : rows[i].refs[f] # NoRow => rows[rows[i].refs[f]].tenant \in {NoRow, Brand(rows[i])}
  <2>1. RowStands(i) /\ DOMAIN rows[i].refs = referenced[rows[i].model]  BY <1>1, Standing DEF RowsStand
  <2> QED  BY <1>1, <2>1, Standing DEF RowStands, RowBrand, Of
<1>4. CatalogueTypeOK  BY <1>1, <1>2, <1>3 DEF RowsStand, CatalogueTypeOK
<1>5. PointsInside  BY <1>3 DEF PointsInside
<1> QED  BY <1>1, <1>4, <1>5 DEF CatalogueInv

\* What brands keep apart stays apart (crud_service and the services of the catalogue): for any number of brands, rows and models' keys, every key
\* names a row of its model that its brand reaches, an operator of a brand writes and takes along rows of that brand alone, and a brand can
\* always be emptied. What a request read is still so when it lands: one request is at work at a time.
THEOREM BrandsStayApart == (\A p, q \in PanelRequest : p = q) => (CatalogueSpec => []CatalogueInv)
<1> SUFFICES ASSUME \A p, q \in PanelRequest : p = q PROVE CatalogueSpec => []CatalogueInv  OBVIOUS
<1>1. CatalogueInit => CatalogueIInv  BY CatalogueBegins
<1>2. CatalogueIInv /\ [CatalogueNext]_catalogueVars => CatalogueIInv'  BY CatalogueGoesOn
<1>3. CatalogueIInv => CatalogueInv  BY StandsInside
<1> QED  BY <1>1, <1>2, <1>3, PTL DEF CatalogueSpec

-----------------------------------------------------------------------------
(* What the site answers, and out of what.                                 *)

SiteTable == {"content", "gallery", "product", "plan", "banner"}
RowsOfSite == [SiteRow -> SharedRow]
Question == [route : SiteRoutes \cup ApiRoutes, host : SiteBrand, lang : SiteLanguage, tag : SiteTag]
SiteAnswer == [rows : SUBSET SiteRow] \cup [route : SiteRoutes \cup ApiRoutes, rows : SUBSET SiteRow]

\* The order of by_language, part by part.
SharedLast(row) == IF row.brand = Shared THEN 1 ELSE 0
Precedes(table, lang, i, j) ==
  LET l(k) == language_ranking(table[k], lang)
      s(k) == SharedLast(table[k])
  IN l(i) < l(j) \/ (l(i) = l(j) /\ (s(i) < s(j) \/ (s(i) = s(j) /\ i < j)))

-----------------------------------------------------------------------------
\* by_language compares the language, then whose the row is, then its age.
LEMMA BeforeIsPrecedes ==
  ASSUME NEW table \in RowsOfSite, NEW lang, NEW i \in SiteRow, NEW j \in SiteRow
  PROVE  BeforeIn(table, lang, i, j) <=> Precedes(table, lang, i, j)
<1> DEFINE key(k) == <<language_ranking(table[k], lang), IF table[k].brand = Shared THEN 1 ELSE 0, k>>
<1>1. i \in Nat /\ j \in Nat
  BY SiteAssumption
<1>2. \A k : /\ key(k)[1] = language_ranking(table[k], lang) /\ key(k)[2] = SharedLast(table[k]) /\ key(k)[3] = k
             /\ key(k)[1] \in 0 .. 2 /\ key(k)[2] \in 0 .. 1
  BY DEF language_ranking, SharedLast
<1>3. BeforeIn(table, lang, i, j) <=> \E n \in 1 .. 3 : key(i)[n] < key(j)[n] /\ \A m \in 1 .. (n - 1) : key(i)[m] = key(j)[m]
  BY DEF BeforeIn
<1> HIDE DEF key
<1>4. 1 .. 3 = {1, 2, 3} /\ 1 .. (1 - 1) = {} /\ 1 .. (2 - 1) = {1} /\ 1 .. (3 - 1) = {1, 2}
  OBVIOUS
<1>5. BeforeIn(table, lang, i, j) <=>
        \/ key(i)[1] < key(j)[1]
        \/ key(i)[2] < key(j)[2] /\ key(i)[1] = key(j)[1]
        \/ key(i)[3] < key(j)[3] /\ key(i)[1] = key(j)[1] /\ key(i)[2] = key(j)[2]
  BY <1>3, <1>4
<1> QED
  BY <1>1, <1>2, <1>5 DEF Precedes

\* What rows are told apart by: numbers have a least one.
LEMMA HasLeast ==
  ASSUME NEW S \in SUBSET Nat, S # {}
  PROVE  \E least \in S : \A y \in S : least <= y
<1> DEFINE R == {ss \in Nat \X Nat : ss[1] < ss[2]}
<1>1. IsWellFoundedOn(R, Nat)  BY NatLessThanWellFounded DEF OpToRel
<1>2. \A x, y \in Nat : y < x => <<y, x>> \in R  OBVIOUS
<1> HIDE DEF R
<1>3. PICK x \in S : \A y \in S : ~ (<<y, x>> \in R)  BY <1>1, WFMin
<1>4. \A y \in S : ~(y < x)  BY <1>2, <1>3
<1> QED  BY <1>3, <1>4

\* Of rows there is one that comes first.
LEMMA OneIsFirst ==
  ASSUME NEW table \in RowsOfSite, NEW lang, NEW ids \in SUBSET SiteRow, ids # {}
  PROVE  \E i \in ids : FirstIn(table, lang, ids) = {i}
<1> DEFINE l(k) == language_ranking(table[k], lang)
           s(k) == SharedLast(table[k])
           ls == {l(k) : k \in ids}
<1>1. ids \subseteq Nat /\ \A k \in ids : l(k) \in Nat /\ s(k) \in Nat
  BY SiteAssumption DEF language_ranking, SharedLast
<1>2. PICK a \in ls : \A y \in ls : a <= y
  BY <1>1, HasLeast
<1> DEFINE ofLang == {k \in ids : l(k) = a}
           ss == {s(k) : k \in ofLang}
<1>8. ss \in SUBSET Nat /\ ss # {}
  <2>1. PICK k \in ids : l(k) = a
    BY <1>2
  <2>2. k \in ofLang
    BY <2>1
  <2>3. s(k) \in ss
    BY <2>2
  <2>4. \A y \in ss : y \in Nat
    BY <1>1
  <2> QED
    BY <2>3, <2>4
<1>3. PICK b \in ss : \A y \in ss : b <= y
  <2> HIDE DEF ss
  <2> QED
    BY <1>8, HasLeast
<1> DEFINE best == {k \in ofLang : s(k) = b}
<1>4. PICK i \in best : \A y \in best : i <= y
  BY <1>1, <1>3, HasLeast
<1>5. i \in ids /\ \A j \in ids \ {i} : Precedes(table, lang, i, j)
  <2> SUFFICES ASSUME NEW j \in ids, j # i PROVE Precedes(table, lang, i, j)
    BY <1>4
  <2>1. l(i) = a /\ s(i) = b /\ a <= l(j) /\ (l(j) = a => b <= s(j)) /\ (l(j) = a /\ s(j) = b => i <= j)
    BY <1>2, <1>3, <1>4
  <2>2. l(j) \in Nat /\ s(j) \in Nat /\ a \in Nat /\ b \in Nat /\ i \in Nat /\ j \in Nat
    BY <1>1, <1>4, <2>1
  <2> HIDE DEF l, s
  <2>3. l(i) < l(j) \/ (l(i) = l(j) /\ (s(i) < s(j) \/ (s(i) = s(j) /\ i < j)))
    BY <2>1, <2>2
  <2> QED
    BY <2>3 DEF Precedes, l, s
<1>6. i \in FirstIn(table, lang, ids)
  BY <1>5, BeforeIsPrecedes DEF FirstIn
<1>7. ASSUME NEW j \in FirstIn(table, lang, ids), j # i PROVE FALSE
  <2>1. j \in ids /\ Precedes(table, lang, j, i) /\ Precedes(table, lang, i, j)
    BY <1>5, <1>7, BeforeIsPrecedes DEF FirstIn
  <2>2. l(i) \in Nat /\ l(j) \in Nat /\ s(i) \in Nat /\ s(j) \in Nat /\ i \in Nat /\ j \in Nat
    BY <1>1, <1>5, <2>1
  <2>3. /\ l(i) < l(j) \/ (l(i) = l(j) /\ (s(i) < s(j) \/ (s(i) = s(j) /\ i < j)))
        /\ l(j) < l(i) \/ (l(j) = l(i) /\ (s(j) < s(i) \/ (s(j) = s(i) /\ j < i)))
    BY <2>1 DEF Precedes
  <2> HIDE DEF l, s
  <2> QED
    BY <2>2, <2>3
<1> QED
  BY <1>5, <1>6, <1>7

\* What is in each set of rows.
LEMMA RowsReached ==
  ASSUME NEW table, NEW b
  PROVE  /\ Reachable(table, b) \subseteq SiteRow
         /\ \A lang : \A ids \in SUBSET SiteRow : FirstIn(table, lang, ids) \subseteq ids
         /\ \A ids, t : OfTag(table, ids, t) \subseteq ids
BY DEF Reachable, FirstIn, OfTag

LEMMA OwnIsOne ==
  ASSUME NEW table \in RowsOfSite, NEW ids \in SUBSET SiteRow
  PROVE  /\ OwnFirst(table, ids) \subseteq ids
         /\ ids # {} => OwnFirst(table, ids) # {}
<1> DEFINE own == {i \in ids : table[i].brand # Shared}
<1>1. \A s \in SUBSET SiteRow : s # {} => Min(s) \in s
  <2> SUFFICES ASSUME NEW s \in SUBSET SiteRow, s # {} PROVE Min(s) \in s
    OBVIOUS
  <2>1. PICK least \in s : \A y \in s : least <= y
    BY SiteAssumption, HasLeast
  <2> QED
    BY <2>1 DEF Min
<1>2. own \in SUBSET SiteRow
  OBVIOUS
<1> QED
  BY <1>1, <1>2 DEF OwnFirst

\* A listing draws rows the brand reaches.
LEMMA ListedIsReached ==
  ASSUME NEW table \in RowsOfSite, NEW b, NEW lang
  PROVE  list_reachable(table, b, lang) \subseteq Reachable(table, b)
<1> DEFINE ids == Reachable(table, b)
<1>1. ids \subseteq SiteRow
  BY RowsReached
<1>2. \A some \in SUBSET ids : one_per_key(table, some, lang) \subseteq some
  <2> SUFFICES ASSUME NEW some \in SUBSET ids PROVE one_per_key(table, some, lang) \subseteq some
    OBVIOUS
  <2>1. \A t \in SiteTag : FirstIn(table, lang, OfTag(table, some, t)) \subseteq some
    BY DEF FirstIn, OfTag
  <2> QED
    BY <2>1 DEF one_per_key
<1>3. list_banners(table, b, lang) \subseteq ids /\ HidesShared(table, ids) \subseteq ids
  BY DEF list_banners, HidesShared
<1>4. list_offered(table, b, lang) \subseteq ids
  <2>1. {i \in ids : table[i].brand = b} \in SUBSET ids
    OBVIOUS
  <2>2. one_per_key(table, {i \in ids : table[i].brand = b}, lang) \subseteq {i \in ids : table[i].brand = b}
    BY <1>2, <2>1
  <2> QED
    BY <2>2 DEF list_offered
<1>5. one_per_key(table, ids, lang) \subseteq ids
  BY <1>2
<1> HIDE DEF ids
<1> QED
  BY <1>3, <1>4, <1>5 DEF list_reachable, ids

\* A tag or a slug opens rows the brand reaches, and one when there is any of that tag.
LEMMA FoundIsReached ==
  ASSUME NEW table \in RowsOfSite, NEW b, NEW lang, NEW t
  PROVE  /\ find_by_tag(table, b, lang, t) \subseteq Reachable(table, b)
         /\ \A i \in Reachable(table, b) : table[i].tag = t => find_by_tag(table, b, lang, t) # {}
<1> DEFINE ids == OfTag(table, Reachable(table, b), t)
<1>1. ids \in SUBSET SiteRow /\ ids \subseteq Reachable(table, b)
  BY RowsReached
<1>2. \A i \in Reachable(table, b) : table[i].tag = t => i \in ids
  BY DEF OfTag
<1>3. FirstIn(table, lang, ids) \subseteq ids /\ (ids # {} => FirstIn(table, lang, ids) # {})
  <2> HIDE DEF ids
  <2>1. FirstIn(table, lang, ids) \subseteq ids
    BY DEF FirstIn
  <2>2. ids # {} => \E i \in ids : FirstIn(table, lang, ids) = {i}
    BY <1>1, OneIsFirst
  <2> QED
    BY <2>1, <2>2
<1>4. OwnFirst(table, ids) \subseteq ids /\ (ids # {} => OwnFirst(table, ids) # {})
  BY <1>1, OwnIsOne
<1>5. find_by_tag(table, b, lang, t) \in {OwnFirst(table, ids), FirstIn(table, lang, ids)}
  BY DEF find_by_tag
<1> HIDE DEF ids
<1> QED
  BY <1>1, <1>2, <1>3, <1>4, <1>5
-----------------------------------------------------------------------------
\* The row a card draws is the row its tag or slug opens.
LEMMA CardOpens ==
  ASSUME siteKind \in {"content", "gallery", "product"}, siteRow \in RowsOfSite, Keepable(siteRow), NEW b \in SiteBrand, NEW lang \in SiteLanguage,
         NEW i \in list_reachable(siteRow, b, lang)
  PROVE  find_by_tag(siteRow, b, lang, siteRow[i].tag) = {i}
<1> DEFINE ids == Reachable(siteRow, b)
           t == siteRow[i].tag
           same == OfTag(siteRow, ids, t)
<1>1. i \in ids /\ ids \subseteq SiteRow /\ i \in same /\ same \in SUBSET SiteRow
  BY ListedIsReached, RowsReached DEF OfTag
<1>2. CASE siteKind \in {"content", "gallery"}
  <2>1. i \in one_per_key(siteRow, ids, lang)
    BY <1>2 DEF list_reachable
  <2>2. PICK u \in SiteTag : i \in FirstIn(siteRow, lang, OfTag(siteRow, ids, u))
    BY <2>1 DEF one_per_key
  <2>3. u = t
    BY <2>2 DEF FirstIn, OfTag
  <2>4. PICK j \in same : FirstIn(siteRow, lang, same) = {j}
    BY <1>1, OneIsFirst
  <2>5. FirstIn(siteRow, lang, same) = {i}
    BY <2>2, <2>3, <2>4
  <2> QED
    BY <1>2, <2>5 DEF find_by_tag
<1>3. CASE siteKind = "product"
  <2>1. i \in HidesShared(siteRow, ids)
    BY <1>3 DEF list_reachable
  <2>2. siteRow[i].brand # Shared \/ \A j \in same : siteRow[j].brand = Shared
    BY <2>1 DEF HidesShared
  <2>3. \A j \in same : siteRow[j].tag = t /\ siteRow[j].brand \in {b, Shared}
    BY <1>3 DEF OfTag, Reachable
  <2>4. \A j \in same : siteRow[j].brand = siteRow[i].brand => j = i
    <3>1. SlugIsFree(siteRow)
      BY <1>3 DEF Keepable
    <3> QED
      BY <1>1, <2>3, <3>1 DEF SlugIsFree, SameScope
  <2> DEFINE own == {j \in same : siteRow[j].brand # Shared}
  <2>5. Min({i}) = i
    BY <1>1, SiteAssumption DEF Min
  <2>6. OwnFirst(siteRow, same) = {i}
    <3>1. CASE siteRow[i].brand # Shared
      <4>1. own = {i}
        BY <1>1, <2>3, <2>4, <3>1
      <4> QED
        BY <2>5, <4>1 DEF OwnFirst
    <3>2. CASE siteRow[i].brand = Shared
      <4>1. own = {} /\ same = {i}
        BY <1>1, <2>2, <2>4, <3>2
      <4> QED
        BY <2>5, <4>1 DEF OwnFirst
    <3> QED
      BY <3>1, <3>2
  <2> QED
    BY <1>3, <2>6 DEF find_by_tag
<1> QED
  BY <1>2, <1>3

LEMMA CardsOpenThemselves ==
  ASSUME siteRow \in RowsOfSite, Keepable(siteRow)
  PROVE  CardOpensItself
BY CardOpens DEF CardOpensItself

\* What is named, by the sitemap or by the navigation, is the tag of a row the brand reaches, and it opens.
LEMMA NamesOpen ==
  ASSUME siteRow \in RowsOfSite
  PROVE  NamedOpens
<1> SUFFICES ASSUME siteKind \in {"content", "gallery", "product"}, NEW b \in SiteBrand, NEW lang \in SiteLanguage,
                    NEW t \in sitemap(b) \cup {siteRow[i].tag : i \in Routed(siteRow, [route |-> "navigation", lang |-> lang, tag |-> Every], b).rows}
             PROVE  find_by_tag(siteRow, b, lang, t) # {}
  BY DEF NamedOpens
<1>1. Routed(siteRow, [route |-> "navigation", lang |-> lang, tag |-> Every], b).rows = Reachable(siteRow, b)
  BY DEF Routed, page_of
<1>2. list_reachable(siteRow, b, NoLanguage) \subseteq Reachable(siteRow, b)
  BY ListedIsReached
<1>3. \E i \in Reachable(siteRow, b) : siteRow[i].tag = t
  BY <1>1, <1>2 DEF sitemap
<1> QED
  BY <1>3, FoundIsReached

-----------------------------------------------------------------------------
\* The space, the surface and the tag each route reads under.
SpaceOf(route) ==
  CASE route = "home" -> "home"
    [] route \in {"navigation", "content_page", "read_content"} -> "content"
    [] route \in {"galleries", "gallery", "list_galleries", "read_gallery"} -> "gallery"
    [] route \in {"plans", "list_plans"} -> "plans"
    [] route \in {"products", "product", "list_products", "read_product"} -> "products"
    [] route = "list_active" -> "banners"
SurfaceOf(route) == IF route = "navigation" THEN "navigation" ELSE IF route \in SiteRoutes THEN "site" ELSE "api"
TagOf(q) == IF Opens(q) THEN q.tag ELSE Every
KeyFor(q, b) == named(SpaceOf(q.route), SurfaceOf(q.route), q, b, TagOf(q))

LEMMA KeyIsFor ==
  ASSUME NEW table, NEW q \in Question, NEW b
  PROVE  Routed(table, q, b).key = KeyFor(q, b)
<1>1. q.route \in SiteRoutes \cup ApiRoutes
  BY DEF Question
<1>2. CASE q.route \in {"content_page", "read_content", "gallery", "read_gallery", "product", "read_product"}
  BY <1>2 DEF KeyFor, Routed, SpaceOf, SurfaceOf, TagOf, Opens, SiteRoutes, ApiRoutes, Opening,
              content_page, read_content, gallery, read_gallery, product, read_product
<1>3. CASE q.route \in {"home", "navigation", "galleries", "plans", "products", "list_galleries", "list_plans", "list_products", "list_active"}
  BY <1>3 DEF KeyFor, Routed, SpaceOf, SurfaceOf, TagOf, Opens, SiteRoutes, ApiRoutes, Listing,
              home, page_of, galleries, plans, products, list_galleries, list_plans, list_products, list_active
<1> QED
  BY <1>1, <1>2, <1>3 DEF SiteRoutes, ApiRoutes

\* What a route assembles is of the brand, the language and, where it opens one, the tag.
LEMMA RowsOfRoute ==
  ASSUME NEW table, NEW q \in Question, NEW b
  PROVE  Routed(table, q, b).rows = IF Opens(q) THEN find_by_tag(table, b, q.lang, q.tag)
                                   ELSE IF q.route = "navigation" THEN Reachable(table, b) ELSE list_reachable(table, b, q.lang)
<1>1. q.route \in SiteRoutes \cup ApiRoutes
  BY DEF Question
<1>2. CASE q.route \in {"content_page", "read_content", "gallery", "read_gallery", "product", "read_product"}
  BY <1>2 DEF Routed, Opens, Opening, content_page, read_content, gallery, read_gallery, product, read_product
<1>3. CASE q.route \in {"home", "navigation", "galleries", "plans", "products", "list_galleries", "list_plans", "list_products", "list_active"}
  BY <1>3 DEF Routed, Opens, Listing, home, page_of, galleries, plans, products, list_galleries, list_plans, list_products, list_active
<1> QED
  BY <1>1, <1>2, <1>3 DEF SiteRoutes, ApiRoutes

\* Two questions kept under one key are one question: a part left out of it would be one tenant reading the page of another.
LEMMA OneQuestion ==
  ASSUME NEW q \in Question, NEW p \in Question, NEW b, NEW c, KeyFor(q, b) = KeyFor(p, c)
  PROVE  \A table : build(table, q, b) = build(table, p, c)
<1>1. /\ SpaceOf(q.route) = SpaceOf(p.route) /\ SurfaceOf(q.route) = SurfaceOf(p.route)
      /\ b = c /\ q.lang = p.lang /\ TagOf(q) = TagOf(p)
  BY DEF KeyFor, named
<1>2. Opens(q) <=> Opens(p)
  BY <1>1, SiteAssumption DEF TagOf, Question
<1>3. q.route = p.route
  <2>1. q.route \in SiteRoutes \cup ApiRoutes /\ p.route \in SiteRoutes \cup ApiRoutes
    BY DEF Question
  <2>2. CASE Opens(q)
    <3>1. q.route \in {"content_page", "read_content", "gallery", "read_gallery", "product", "read_product"}
          /\ p.route \in {"content_page", "read_content", "gallery", "read_gallery", "product", "read_product"}
      BY <1>2, <2>2 DEF Opens
    <3> QED
      BY <1>1, <3>1 DEF SpaceOf, SurfaceOf, SiteRoutes
  <2>3. CASE ~Opens(q)
    <3>1. q.route \in {"home", "navigation", "galleries", "plans", "products", "list_galleries", "list_plans", "list_products", "list_active"}
          /\ p.route \in {"home", "navigation", "galleries", "plans", "products", "list_galleries", "list_plans", "list_products", "list_active"}
      BY <1>2, <2>1, <2>3 DEF Opens, SiteRoutes, ApiRoutes
    <3> QED
      BY <1>1, <3>1 DEF SpaceOf, SurfaceOf, SiteRoutes
  <2> QED
    BY <2>2, <2>3
<1>4. \A table : Routed(table, q, b).rows = Routed(table, p, c).rows
  <2> SUFFICES ASSUME NEW table PROVE Routed(table, q, b).rows = Routed(table, p, c).rows
    OBVIOUS
  <2>1. Opens(q) => q.tag = p.tag
    BY <1>1, <1>2 DEF TagOf
  <2> QED
    BY <1>1, <1>2, <1>3, <2>1, RowsOfRoute
<1> QED
  BY <1>3, <1>4 DEF build

\* An answer is rows of the table.
LEMMA AnswerIsRows ==
  ASSUME NEW table \in RowsOfSite, NEW q \in Question, NEW b
  PROVE  build(table, q, b) \in SiteAnswer
<1>1. Routed(table, q, b).rows \subseteq SiteRow
  BY RowsOfRoute, RowsReached, ListedIsReached, FoundIsReached
<1> QED
  BY <1>1 DEF build, SiteAnswer, Question

-----------------------------------------------------------------------------
ReaderState == [at : {"asks", "hit", "builds", "keeps", "served", "refused", "not found"}, brand : SiteBrand, answer : SiteAnswer]

SiteShape ==
  /\ siteKind \in SiteKind
  /\ siteRow \in RowsOfSite /\ siteWas \subseteq RowsOfSite /\ siteRow \in siteWas
  /\ dark \subseteq SiteBrand
  /\ asked \in [SiteReader -> Question]
  /\ reader \in [SiteReader -> ReaderState]

\* What the panel keeps of the table it keeps, as one edit after another left it.
PanelKeeps == \A table \in {siteRow} : Keepable(table)

\* One answer is kept for a key, and it was true of every question read under that key.
CacheWasTrue ==
  /\ \A e, f \in cached : e.key = f.key => e = f
  /\ \A e \in cached : \A q \in Question, b \in SiteBrand : e.key = KeyFor(q, b) => \E table \in siteWas : e.answer = build(table, q, b)

\* Who has an answer was answered what was true of what they asked.
AnswerWasTrue ==
  \A r \in SiteReader, q \in Question, b \in SiteBrand :
    reader[r].at \in {"hit", "keeps", "served"} /\ asked[r] = q /\ reader[r].brand = b => \E table \in siteWas : reader[r].answer = build(table, q, b)

SiteIInv == SiteShape /\ PanelKeeps /\ CacheWasTrue /\ AnswerWasTrue

\* What an answer is does not change with the rows there are now.
LEMMA BuildStays ==
  ASSUME siteKind' = siteKind
  PROVE  \A table, q, b : build(table, q, b)' = build(table, q, b)
<1> SUFFICES ASSUME NEW table, NEW q, NEW b PROVE build(table, q, b)' = build(table, q, b)
  OBVIOUS
<1>1. \A c, lang : list_reachable(table, c, lang)' = list_reachable(table, c, lang)
  BY DEF list_reachable, list_banners, HidesShared, list_offered, one_per_key, FirstIn, OfTag, Reachable
<1>2. \A c, lang, t : find_by_tag(table, c, lang, t)' = find_by_tag(table, c, lang, t)
  BY DEF find_by_tag, OwnFirst, FirstIn, OfTag, Reachable
<1>3. \A c : Reachable(table, c)' = Reachable(table, c)
  BY DEF Reachable
<1> QED
  BY <1>1, <1>2, <1>3 DEF build, Routed, Listing, Opening, home, page_of, content_page, read_content, galleries, gallery, list_galleries, read_gallery,
                          products, product, list_products, read_product, plans, list_plans, list_active

\* A step that leaves the table and what it was leaves the panel's word.
LEMMA PanelStays ==
  ASSUME PanelKeeps, siteKind' = siteKind, siteRow' = siteRow
  PROVE  PanelKeeps'
BY DEF PanelKeeps, Keepable, SlugIsFree, CodeIsFree, TagIsFree, SameScope

-----------------------------------------------------------------------------
\* The request of one reader moves, and no other.
ReaderMoves(r) ==
  /\ reader' \in [SiteReader -> ReaderState]
  /\ \A s \in SiteReader : s # r => reader'[s] = reader[s]

TableStays == UNCHANGED <<siteKind, siteRow, dark, siteWas, asked>>

\* A step of one reader: what it answers was true, or it answers nothing.
LEMMA ReaderStep ==
  ASSUME SiteIInv, NEW r \in SiteReader, ReaderMoves(r), TableStays,
         \A q \in Question, b \in SiteBrand :
           reader'[r].at \in {"hit", "keeps", "served"} /\ asked[r] = q /\ reader'[r].brand = b => \E table \in siteWas : reader'[r].answer = build(table, q, b)
  PROVE  SiteShape' /\ PanelKeeps' /\ AnswerWasTrue'
<1>1. SiteShape'
  BY DEF SiteIInv, SiteShape, ReaderMoves, TableStays
<1>2. PanelKeeps'
  BY PanelStays DEF SiteIInv, TableStays
<1>3. \A table, q, b : build(table, q, b)' = build(table, q, b)
  BY BuildStays DEF TableStays
<1>4. AnswerWasTrue'
  BY <1>3 DEF SiteIInv, AnswerWasTrue, ReaderMoves, TableStays
<1> QED
  BY <1>1, <1>2, <1>4

\* The cache stands while no answer is kept.
LEMMA CacheStays ==
  ASSUME SiteIInv, TableStays, cached' \subseteq cached
  PROVE  CacheWasTrue'
<1>1. \A table, q, b : build(table, q, b)' = build(table, q, b)
  BY BuildStays DEF TableStays
<1> QED
  BY <1>1 DEF SiteIInv, CacheWasTrue, TableStays

\* A reader is of a brand, and is handed what was kept under the key of their question.
LEMMA AsksKeeps ==
  ASSUME SiteIInv, NEW r \in SiteReader, Asks(r)
  PROVE  SiteIInv'
<1>1. TableStays /\ cached' = cached /\ SiteShape
  BY DEF Asks, TableStays, SiteIInv
<1>2. CacheWasTrue'
  BY <1>1, CacheStays
<1>3. PICK q \in Question : asked[r] = q
  BY <1>1 DEF SiteShape
<1>4. reader[r] \in ReaderState
  BY <1>1 DEF SiteShape
<1>5. CASE brand_of(q) = {}
  <2> DEFINE new == [reader[r] EXCEPT !.at = "refused"]
  <2>1. new \in ReaderState /\ new.at = "refused"
    BY <1>4 DEF ReaderState
  <2>2. reader' = [reader EXCEPT ![r] = new]
    BY <1>3, <1>5 DEF Asks
  <2>3. ReaderMoves(r) /\ reader'[r].at = "refused"
    BY <1>1, <2>1, <2>2 DEF ReaderMoves, SiteShape
  <2> QED
    BY <1>1, <1>2, <2>3, ReaderStep DEF SiteIInv
<1>6. CASE brand_of(q) # {}
  <2>1. AskedBy(r) \in SiteBrand
    <3>1. brand_of(q) \subseteq SiteBrand
      BY SiteAssumption DEF brand_of, Question
    <3> QED
      BY <1>3, <1>6, <3>1 DEF AskedBy
  <2>2. PICK b \in SiteBrand : AskedBy(r) = b
    BY <2>1
  <2>3. KeyOf(q, b) = KeyFor(q, b)
    BY KeyIsFor DEF KeyOf
  <2> DEFINE kept == Kept(KeyFor(q, b))
             at == IF kept # {} THEN "hit" ELSE "builds"
             answer == IF kept # {} THEN (CHOOSE e \in kept : TRUE).answer ELSE NoAnswer
             new == [reader[r] EXCEPT !.brand = b, !.at = at, !.answer = answer]
  <2>4. kept # {} => \E table \in siteWas : answer = build(table, q, b)
    <3> SUFFICES ASSUME kept # {} PROVE \E table \in siteWas : answer = build(table, q, b)
      OBVIOUS
    <3>1. PICK e \in kept : answer = e.answer
      OBVIOUS
    <3>2. e \in cached /\ e.key = KeyFor(q, b)
      BY DEF Kept
    <3> QED
      BY <3>1, <3>2 DEF SiteIInv, CacheWasTrue
  <2>5. answer \in SiteAnswer
    <3>1. NoAnswer \in SiteAnswer
      BY DEF NoAnswer, SiteAnswer
    <3>2. kept # {} => answer \in SiteAnswer
      BY <1>1, <2>4, AnswerIsRows DEF SiteShape
    <3> QED
      BY <3>1, <3>2
  <2>6. reader' = [reader EXCEPT ![r] = new]
    BY <1>3, <1>6, <2>2, <2>3 DEF Asks
  <2>7. at \in {"hit", "builds"} /\ (at = "hit" => kept # {})
    OBVIOUS
  <2> HIDE DEF kept, at, answer
  <2>8. new \in ReaderState /\ new.at = at /\ new.brand = b /\ new.answer = answer
    BY <1>4, <2>5, <2>7 DEF ReaderState
  <2>9. ReaderMoves(r) /\ reader'[r].at = at /\ reader'[r].brand = b /\ reader'[r].answer = answer
    BY <1>1, <2>6, <2>8 DEF ReaderMoves, SiteShape
  <2>10. \A p \in Question, c \in SiteBrand :
           reader'[r].at \in {"hit", "keeps", "served"} /\ asked[r] = p /\ reader'[r].brand = c => \E table \in siteWas : reader'[r].answer = build(table, p, c)
    BY <1>3, <2>4, <2>7, <2>9
  <2> QED
    BY <1>1, <1>2, <2>9, <2>10, ReaderStep DEF SiteIInv
<1> QED
  BY <1>5, <1>6

\* What is built is what the rows are now.
LEMMA BuildsKeeps ==
  ASSUME SiteIInv, NEW r \in SiteReader, Builds(r)
  PROVE  SiteIInv'
<1>1. TableStays /\ cached' = cached /\ SiteShape
  BY DEF Builds, TableStays, SiteIInv
<1>2. CacheWasTrue'
  BY <1>1, CacheStays
<1>3. PICK q \in Question : asked[r] = q
  BY <1>1 DEF SiteShape
<1>4. reader[r] \in ReaderState
  BY <1>1 DEF SiteShape
<1>5. PICK b \in SiteBrand : reader[r].brand = b
  BY <1>4 DEF ReaderState
<1> DEFINE answer == build(siteRow, q, b)
           at == IF Opens(q) /\ answer.rows = {} THEN "not found" ELSE "keeps"
           new == [reader[r] EXCEPT !.at = at, !.answer = answer]
<1>6. answer \in SiteAnswer /\ siteRow \in siteWas
  BY <1>1, AnswerIsRows DEF SiteShape
<1>7. reader' = [reader EXCEPT ![r] = new]
  BY <1>3, <1>5 DEF Builds
<1>8. at \in {"not found", "keeps"}
  OBVIOUS
<1>9. \E table \in siteWas : answer = build(table, q, b)
  BY <1>6
<1> HIDE DEF answer, at
<1>10. new \in ReaderState /\ new.answer = answer /\ new.brand = b
  BY <1>4, <1>5, <1>6, <1>8 DEF ReaderState
<1>11. ReaderMoves(r) /\ reader'[r].answer = answer /\ reader'[r].brand = b
  BY <1>1, <1>7, <1>10 DEF ReaderMoves, SiteShape
<1>12. \A p \in Question, c \in SiteBrand :
         reader'[r].at \in {"hit", "keeps", "served"} /\ asked[r] = p /\ reader'[r].brand = c => \E table \in siteWas : reader'[r].answer = build(table, p, c)
  BY <1>3, <1>9, <1>11
<1> QED
  BY <1>1, <1>2, <1>11, <1>12, ReaderStep DEF SiteIInv

\* Going on with the answer they have keeps it true.
LEMMA GoesOnTrue ==
  ASSUME SiteIInv, NEW r \in SiteReader, reader[r].at \in {"hit", "keeps", "served"}, NEW at \in {"hit", "served"},
         reader' = [reader EXCEPT ![r].at = at], TableStays
  PROVE  SiteShape' /\ PanelKeeps' /\ AnswerWasTrue'
<1> DEFINE new == [reader[r] EXCEPT !.at = at]
<1>1. SiteShape /\ reader[r] \in ReaderState
  BY DEF SiteIInv, SiteShape
<1>2. new \in ReaderState /\ new.answer = reader[r].answer /\ new.brand = reader[r].brand
  BY <1>1 DEF ReaderState
<1>3. reader' = [reader EXCEPT ![r] = new]
  OBVIOUS
<1>4. ReaderMoves(r) /\ reader'[r].answer = reader[r].answer /\ reader'[r].brand = reader[r].brand
  BY <1>1, <1>2, <1>3 DEF ReaderMoves, SiteShape
<1>5. \A p \in Question, c \in SiteBrand :
        reader'[r].at \in {"hit", "keeps", "served"} /\ asked[r] = p /\ reader'[r].brand = c => \E table \in siteWas : reader'[r].answer = build(table, p, c)
  BY <1>4 DEF SiteIInv, AnswerWasTrue
<1> QED
  BY <1>4, <1>5, ReaderStep

\* What is kept was true of the question it is kept for, and so of every question of that key.
LEMMA KeepsKeeps ==
  ASSUME SiteIInv, NEW r \in SiteReader, Keeps(r)
  PROVE  SiteIInv'
<1>1. TableStays /\ SiteShape /\ reader[r].at = "keeps"
  BY DEF Keeps, TableStays, SiteIInv, ReaderAt
<1>2. SiteShape' /\ PanelKeeps' /\ AnswerWasTrue'
  BY <1>1, GoesOnTrue DEF Keeps
<1>3. PICK q \in Question : asked[r] = q
  BY <1>1 DEF SiteShape
<1>4. PICK b \in SiteBrand : reader[r].brand = b
  BY <1>1 DEF SiteShape, ReaderState
<1>5. PICK key : key = KeyFor(q, b)
  OBVIOUS
<1>6. KeyOf(q, b) = key
  BY <1>5, KeyIsFor DEF KeyOf
<1>7. cached' = (cached \ Kept(key)) \cup {[key |-> key, answer |-> reader[r].answer]}
  BY <1>3, <1>4, <1>6 DEF Keeps
<1>8. PICK table \in siteWas : reader[r].answer = build(table, q, b)
  BY <1>1, <1>3, <1>4 DEF SiteIInv, AnswerWasTrue
<1>9. ASSUME NEW p \in Question, NEW c \in SiteBrand, key = KeyFor(p, c)
      PROVE  build(table, q, b) = build(table, p, c)
  <2>1. KeyFor(q, b) = KeyFor(p, c)
    BY <1>5, <1>9
  <2>2. \A some : build(some, q, b) = build(some, p, c)
    BY <2>1, OneQuestion
  <2> QED
    BY <2>2
<1>10. \A some, p, c : build(some, p, c)' = build(some, p, c)
  BY <1>1, BuildStays DEF TableStays
<1>11. \A e \in cached' : (e \in cached /\ e.key # key) \/ (e = [key |-> key, answer |-> reader[r].answer])
  BY <1>7 DEF Kept
<1>12. CacheWasTrue'
  <2>1. ASSUME NEW e \in cached', NEW f \in cached', e.key = f.key PROVE e = f
    BY <1>11, <2>1 DEF SiteIInv, CacheWasTrue
  <2>2. ASSUME NEW e \in cached', NEW p \in Question, NEW c \in SiteBrand, e.key = KeyFor(p, c)
        PROVE  \E some \in siteWas' : e.answer = build(some, p, c)'
    <3>1. CASE e \in cached /\ e.key # key
      BY <1>1, <1>10, <2>2, <3>1 DEF SiteIInv, CacheWasTrue, TableStays
    <3>2. CASE e = [key |-> key, answer |-> reader[r].answer]
      BY <1>1, <1>8, <1>9, <1>10, <2>2, <3>2 DEF TableStays
    <3> QED
      BY <1>11, <3>1, <3>2
  <2> QED
    BY <2>1, <2>2 DEF CacheWasTrue
<1> QED
  BY <1>2, <1>12 DEF SiteIInv

LEMMA ServesKeeps ==
  ASSUME SiteIInv, NEW r \in SiteReader, Serves(r)
  PROVE  SiteIInv'
<1>1. TableStays /\ cached' = cached /\ reader[r].at = "hit" /\ reader' = [reader EXCEPT ![r].at = "served"]
  BY DEF Serves, TableStays, ReaderAt
<1>2. SiteShape' /\ PanelKeeps' /\ AnswerWasTrue'
  BY <1>1, GoesOnTrue
<1> QED
  BY <1>1, <1>2, CacheStays DEF SiteIInv

\* An answer that expired, a row the panel edits and a tenant that stops being served leave what was true.
LEMMA AroundKeeps ==
  ASSUME SiteIInv, \/ \E e \in cached : Expires(e)
                   \/ \E i \in SiteRow : \E row \in Edited(siteRow[i]) : EditsRow(i, row)
                   \/ \E b \in SiteBrand : Darkens(b)
  PROVE  SiteIInv'
<1>1. siteKind' = siteKind /\ reader' = reader /\ asked' = asked /\ cached' \subseteq cached /\ siteWas \subseteq siteWas' /\ SiteShape
  BY DEF Expires, EditsRow, Darkens, SiteIInv
<1>2. \A table, q, b : build(table, q, b)' = build(table, q, b)
  BY <1>1, BuildStays
<1>3. CacheWasTrue' /\ AnswerWasTrue'
  BY <1>1, <1>2 DEF SiteIInv, CacheWasTrue, AnswerWasTrue
<1>4. CASE \E i \in SiteRow : \E row \in Edited(siteRow[i]) : EditsRow(i, row)
  <2>1. PICK i \in SiteRow : \E row \in Edited(siteRow[i]) : EditsRow(i, row)
    BY <1>4
  <2>2. PICK row \in Edited(siteRow[i]) : EditsRow(i, row)
    BY <2>1
  <2>3. siteRow[i] \in SharedRow
    BY <1>1 DEF SiteShape, RowsOfSite
  <2>4. row \in SharedRow
    BY <2>2, <2>3 DEF Edited, SharedRow
  <2>5. PICK table : table = [siteRow EXCEPT ![i] = row]
    OBVIOUS
  <2>6. table \in RowsOfSite /\ siteRow' = table /\ siteWas' = siteWas \cup {table} /\ dark' = dark
    BY <1>1, <2>2, <2>4, <2>5 DEF SiteShape, RowsOfSite, EditsRow
  <2>7. SiteShape'
    BY <1>1, <2>6 DEF SiteShape
  <2>8. Keepable(table)
    BY <2>2, <2>5 DEF EditsRow
  <2>9. Keepable(table)'
    BY <1>1, <2>8 DEF Keepable, SlugIsFree, CodeIsFree, TagIsFree, SameScope
  <2>10. PanelKeeps'
    BY <2>6, <2>9 DEF PanelKeeps
  <2> QED
    BY <1>3, <2>7, <2>10 DEF SiteIInv
<1>5. CASE (\E e \in cached : Expires(e)) \/ \E b \in SiteBrand : Darkens(b)
  <2>1. siteRow' = siteRow /\ siteWas' = siteWas /\ dark' \subseteq SiteBrand
    BY <1>1, <1>5 DEF Expires, Darkens, SiteShape
  <2>2. SiteShape' /\ PanelKeeps'
    BY <1>1, <2>1, PanelStays DEF SiteShape, SiteIInv
  <2> QED
    BY <1>3, <2>2 DEF SiteIInv
<1> QED
  BY <1>4, <1>5

\* What every state of the site is.
LEMMA SiteHolds ==
  ASSUME SiteIInv
  PROVE  SiteInv
<1>1. siteRow \in RowsOfSite /\ Keepable(siteRow) /\ SiteShape
  BY DEF SiteIInv, SiteShape, PanelKeeps
<1>2. SiteTypeOK
  <2>1. \A r \in SiteReader : reader[r] \in ReaderState
    BY <1>1 DEF SiteShape
  <2>2. \A a \in SiteAnswer : a.rows \subseteq SiteRow
    BY DEF SiteAnswer
  <2> QED
    BY <1>1, <2>1, <2>2 DEF SiteIInv, SiteShape, SiteTypeOK, CacheWasTrue, ReaderState, RowsOfSite
<1>3. ServedInside
  <2>1. \A r \in SiteReader : asked[r] \in Question /\ reader[r].brand \in SiteBrand
    BY <1>1 DEF SiteShape, ReaderState
  <2> QED
    BY <2>1 DEF SiteIInv, AnswerWasTrue, ServedInside, ReaderAt
<1> QED
  BY <1>1, <1>2, <1>3, CardsOpenThemselves, NamesOpen DEF SiteInv

\* A reader is answered out of their own brand, language and page, whatever the cache holds and whoever it was kept for, a card opens the row it draws, and what
\* the sitemap and the navigation name opens; for any tenants, languages, rows, readers and edits, in each of the five tables.
THEOREM AnsweredInside ==
  ASSUME SiteContents \subseteq [SiteRow -> SharedRow], SiteQuestions \subseteq [SiteReader -> Question]
  PROVE  SiteInit /\ [][SiteNext]_siteVars => []SiteInv
<1>1. SiteInit => SiteIInv
  <2> SUFFICES ASSUME SiteInit PROVE SiteIInv
    OBVIOUS
  <2>1. [at |-> "asks", brand |-> DefaultBrand, answer |-> NoAnswer] \in ReaderState
    BY SiteAssumption DEF ReaderState, NoAnswer, SiteAnswer
  <2>2. SiteShape
    BY <2>1 DEF SiteInit, SiteShape, RowsOfSite
  <2> QED
    BY <2>2 DEF SiteInit, SiteIInv, PanelKeeps, CacheWasTrue, AnswerWasTrue
<1>2. SiteIInv /\ [SiteNext]_siteVars => SiteIInv'
  <2> SUFFICES ASSUME SiteIInv, [SiteNext]_siteVars PROVE SiteIInv'
    OBVIOUS
  <2>1. CASE \E r \in SiteReader : Requested(r)
    BY <2>1, AsksKeeps, BuildsKeeps, KeepsKeeps, ServesKeeps DEF Requested
  <2>2. CASE \/ \E e \in cached : Expires(e)
             \/ \E i \in SiteRow : \E row \in Edited(siteRow[i]) : EditsRow(i, row)
             \/ \E b \in SiteBrand : Darkens(b)
    BY <2>2, AroundKeeps
  <2>3. CASE UNCHANGED siteVars
    <3>1. TableStays /\ cached' = cached /\ reader' = reader
      BY <2>3 DEF siteVars, TableStays
    <3>2. \A table, q, b : build(table, q, b)' = build(table, q, b)
      BY <3>1, BuildStays DEF TableStays
    <3> QED
      BY <3>1, <3>2, PanelStays DEF TableStays, SiteIInv, SiteShape, CacheWasTrue, AnswerWasTrue
  <2> QED
    BY <2>1, <2>2, <2>3 DEF SiteNext
<1> QED
  BY <1>1, <1>2, SiteHolds, PTL

=============================================================================
