---------------------------- MODULE RosterProofs ----------------------------
(***************************************************************************)
(* Proofs about who belongs to a section and who leads a course: for every *)
(* set of people, sections, workers and edits, a mapped lead holds the     *)
(* role, an import writes what its preview bound, no pull of a roster ends *)
(* the place of somebody the platform lists and who does not move onto a   *)
(* page it had read, and a whole pull commits the class it read.           *)
(***************************************************************************)
EXTENDS PeopleGraph, RosterSync, FiniteSetTheorems, TLAPS

-----------------------------------------------------------------------------
(* PeopleGraph.                                                            *)

MapRows == [lead : Faculty \cup {Unled}, since : Nat]
Mappings == [Catalog -> MapRows]

(* The rows a transaction writes: a lead for some courses.                 *)
IsWrites(w) ==
    /\ DOMAIN w \subseteq Catalog
    /\ \A c \in DOMAIN w : w[c] \in Faculty \cup {Unled}

(* A dry run has written the lines of its file that differed, but for the  *)
(* ones left.                                                              *)
IsPreview(t) ==
    /\ t = [doing |-> "previewing", file |-> t.file, state |-> t.state, left |-> t.left, writes |-> t.writes]
    /\ t.file \in Files /\ \E m \in Mappings : t.state = Leads(t.file, m)
    /\ t.left \subseteq Differing(t.file, t.state)
    /\ DOMAIN t.writes = Differing(t.file, t.state) \ t.left
    /\ \A c \in DOMAIN t.writes : t.writes[c] = t.file[c]

(* Types: what one desk may be doing.                                      *)
IsTransaction(t) ==
    \/ t = Free
    \/ t \in [doing : {"mapping"}, course : Catalog, person : Faculty, read : MapRows]
    \/ \E w : IsWrites(w) /\ t = [doing |-> "editing", writes |-> w]
    \/ t \in [doing : {"revoking"}, person : Faculty]
    \/ IsPreview(t)
    \/ t \in [doing : {"applying"}, seen : Mappings, roles : [Faculty -> Nat], overtaken : BOOLEAN]
    \/ \E w, o : IsWrites(w) /\ o \in BOOLEAN /\ t = [doing |-> "importing", writes |-> w, overtaken |-> o]

(* What is shown holds the changes the file asks for, beside others that   *)
(* begin from the same state.                                              *)
IsShown(s) ==
    \/ s = NothingShown
    \/ /\ s.file \in Files /\ \E m \in Mappings : s.state = Leads(s.file, m)
       /\ \A c \in DOMAIN s.diff :
             c \in DOMAIN s.file /\ s.diff[c] = [before |-> s.state[c], after |-> s.diff[c].after]
       /\ \A c \in Differing(s.file, s.state) : c \in DOMAIN s.diff /\ s.diff[c].after = s.file[c]

PeopleTypeOK ==
    /\ commits \in Nat
    /\ held \in [Faculty -> Nat]
    /\ mapping \in Mappings
    /\ DOMAIN previewed = Desks /\ \A a \in Desks : IsShown(previewed[a])
    /\ desk = [a \in Desks |-> desk[a]] /\ \A a \in Desks : IsTransaction(desk[a])

(* Whoever an open transaction makes a lead holds the role.                *)
SharesHold == \A a \in Desks : \A p \in Shares(a) : Holds(p)

(* Whoever an open transaction takes the role from leads nothing and is    *)
(* made a lead by nobody.                                                  *)
RevokedIsUnled ==
    \A a \in Desks : \A p \in Revokes(a) : LedBy(p) = {} /\ \A b \in Others(a) : p \notin Shares(b)

WritesApart == \A a, b \in Desks : a # b => DOMAIN Writes(a) \cap DOMAIN Writes(b) = {}

(* An import writes what was shown, over what was shown.                   *)
AsShown(a) ==
    Doing(a, "importing") =>
      LET shown == previewed[a]
          cs == Differing(shown.file, shown.state) IN
      /\ desk[a].writes = [c \in cs |-> shown.file[c]]
      /\ \A c \in cs : LeadOf(c) = shown.state[c]

PeopleInv ==
    /\ PeopleTypeOK /\ MappedLeadsHoldTheRole
    /\ SharesHold /\ RevokedIsUnled /\ WritesApart
    /\ \A a \in Desks : AsShown(a)

LEMMA NoWrites == DOMAIN << >> = {} /\ IsWrites(<< >>)
  BY DEF IsWrites

(* A file says who leads each course it names.                             *)
LEMMA FileIs ==
  ASSUME NEW f \in Files
  PROVE  DOMAIN f \subseteq Catalog /\ \A c \in DOMAIN f : f[c] \in Faculty \cup {Unled}
  BY PeopleAssumption

LEMMA PreviewWrites ==
  ASSUME NEW t, IsPreview(t)
  PROVE  /\ t.doing = "previewing" /\ IsWrites(t.writes)
         /\ t.doing \notin {"nothing", "mapping", "editing", "revoking", "applying", "importing"}
<1>1. t.doing = "previewing"
  BY DEF IsPreview
<1>2. DOMAIN t.writes \subseteq DOMAIN t.file /\ \A c \in DOMAIN t.writes : t.writes[c] = t.file[c]
  BY DEF IsPreview, Differing
<1>3. t.file \in Files
  BY DEF IsPreview
<1>4. IsWrites(t.writes)
  BY <1>2, <1>3, FileIs DEF IsWrites
<1> QED  BY <1>1, <1>4

LEMMA TransactionShape ==
  ASSUME NEW t, IsTransaction(t)
  PROVE  /\ t.doing \in {"nothing", "mapping", "editing", "revoking", "previewing", "applying", "importing"}
         /\ t.doing = "nothing" => t = Free
         /\ t.doing = "mapping" => t.course \in Catalog /\ t.person \in Faculty /\ t.read \in MapRows
         /\ t.doing \in {"editing", "importing"} => IsWrites(t.writes)
         /\ t.doing = "revoking" => t.person \in Faculty
         /\ t.doing = "applying" => t.seen \in Mappings /\ t.roles \in [Faculty -> Nat] /\ t.overtaken \in BOOLEAN
         /\ t.doing = "importing" => t.overtaken \in BOOLEAN
         /\ t.doing = "previewing" => IsPreview(t) /\ IsWrites(t.writes)
<1>1. CASE IsPreview(t)
  BY <1>1, PreviewWrites, Zenon DEF IsPreview
<1>2. CASE ~IsPreview(t)
  BY <1>2 DEF IsTransaction, Free
<1> QED  BY <1>1, <1>2

LEMMA TransactionKinds ==
  ASSUME NEW t, IsTransaction(t)
  PROVE  /\ t.doing = "applying" =>
              t \in [doing : {"applying"}, seen : Mappings, roles : [Faculty -> Nat], overtaken : BOOLEAN]
         /\ t.doing = "importing" =>
              \E w, o : IsWrites(w) /\ o \in BOOLEAN /\ t = [doing |-> "importing", writes |-> w, overtaken |-> o]
<1>1. CASE t = Free
  BY <1>1 DEF Free
<1>2. CASE t \in [doing : {"mapping"}, course : Catalog, person : Faculty, read : MapRows]
  BY <1>2
<1>3. CASE \E w : IsWrites(w) /\ t = [doing |-> "editing", writes |-> w]
  BY <1>3
<1>4. CASE t \in [doing : {"revoking"}, person : Faculty]
  BY <1>4
<1>5. CASE t \in [doing : {"applying"}, seen : Mappings, roles : [Faculty -> Nat], overtaken : BOOLEAN]
  BY <1>5
<1>6. CASE \E w, o : IsWrites(w) /\ o \in BOOLEAN /\ t = [doing |-> "importing", writes |-> w, overtaken |-> o]
  <2>1. t.doing = "importing"
    BY <1>6
  <2> QED  BY <1>6, <2>1, Zenon
<1>7. CASE IsPreview(t)
  BY <1>7, PreviewWrites
<1> QED  BY <1>1, <1>2, <1>3, <1>4, <1>5, <1>6, <1>7 DEF IsTransaction

LEMMA WritesAreWrites ==
  ASSUME PeopleTypeOK, NEW a \in Desks
  PROVE  /\ IsWrites(Writes(a)) /\ Shares(a) \subseteq Faculty /\ Revokes(a) \subseteq Faculty
         /\ Doing(a, "nothing") => DOMAIN Writes(a) = {} /\ Shares(a) = {} /\ Revokes(a) = {}
<1>1. IsTransaction(desk[a])
  BY DEF PeopleTypeOK
<1>2. IsWrites(Writes(a))
  BY <1>1, TransactionShape, NoWrites DEF Writes, Doing
<1>3. Shares(a) \subseteq Faculty
  BY <1>2 DEF Shares, IsWrites
<1>4. Revokes(a) \subseteq Faculty
  BY <1>1, TransactionShape DEF Revokes, Doing
<1>5. Doing(a, "nothing") => DOMAIN Writes(a) = {} /\ Revokes(a) = {}
  BY NoWrites DEF Writes, Revokes, Doing
<1> QED  BY <1>2, <1>3, <1>4, <1>5 DEF Shares

LEMMA PeopleInvInit == PeopleInit => PeopleInv
<1> SUFFICES ASSUME PeopleInit PROVE PeopleInv
  OBVIOUS
<1>1. PeopleTypeOK
  BY DEF PeopleInit, PeopleTypeOK, Mappings, MapRows, IsShown, IsTransaction
<1>2. \A a \in Desks : Doing(a, "nothing")
  BY DEF PeopleInit, Doing, Free
<1>3. \A a \in Desks : DOMAIN Writes(a) = {} /\ Shares(a) = {} /\ Revokes(a) = {}
  BY <1>1, <1>2, WritesAreWrites
<1>4. MappedLeadsHoldTheRole
  BY DEF PeopleInit, MappedLeadsHoldTheRole, LeadOf
<1>5. \A a \in Desks : AsShown(a)
  BY <1>2 DEF AsShown, Doing
<1> QED  BY <1>1, <1>3, <1>4, <1>5 DEF PeopleInv, SharesHold, RevokedIsUnled, WritesApart

(* What a transaction writes, relies on and takes away by itself.          *)
WritesOf(t) == IF t.doing \in {"editing", "previewing", "importing"} THEN t.writes ELSE << >>
SharesOf(t) == {WritesOf(t)[c] : c \in DOMAIN WritesOf(t)} \ {Unled}
RevokesOf(t) == IF t.doing = "revoking" THEN {t.person} ELSE {}

(* One desk's transaction moves on, with the locks its step waited for.    *)
LEMMA TakeKeeps ==
  ASSUME PeopleInv, NEW a \in Desks, NEW t, IsTransaction(t), Take(a, t),
         NobodyWrites(a, DOMAIN WritesOf(t)),
         NobodyRevokes(a, SharesOf(t)),
         \A p \in SharesOf(t) : Holds(p),
         \A p \in RevokesOf(t) : LedBy(p) = {} /\ \A b \in Others(a) : p \notin Shares(b),
         t.doing = "importing" =>
            LET shown == previewed[a]
                cs == Differing(shown.file, shown.state) IN
            /\ t.writes = [c \in cs |-> shown.file[c]]
            /\ \A c \in cs : LeadOf(c) = shown.state[c]
  PROVE  PeopleInv'
<1>1. /\ desk' = [b \in Desks |-> IF b = a THEN t ELSE desk[b]]
      /\ UNCHANGED <<commits, held, mapping, previewed>>
  BY DEF Take, PeopleInv, PeopleTypeOK
<1>2. /\ Writes(a)' = WritesOf(t) /\ Shares(a)' = SharesOf(t) /\ Revokes(a)' = RevokesOf(t)
      /\ Doing(a, "importing")' = (t.doing = "importing") /\ desk'[a] = t
  BY <1>1 DEF Writes, Shares, Revokes, WritesOf, SharesOf, RevokesOf, Doing
<1>3. \A b \in Desks : b # a => /\ Writes(b)' = Writes(b) /\ Shares(b)' = Shares(b) /\ Revokes(b)' = Revokes(b)
                               /\ Doing(b, "importing")' = Doing(b, "importing") /\ desk'[b] = desk[b]
  BY <1>1 DEF Writes, Shares, Revokes, Doing
<1>4. PeopleTypeOK'
  BY <1>1 DEF PeopleInv, PeopleTypeOK
<1>5. MappedLeadsHoldTheRole' /\ (\A p \in Faculty : Holds(p)' = Holds(p) /\ LedBy(p)' = LedBy(p))
  BY <1>1 DEF PeopleInv, MappedLeadsHoldTheRole, LeadOf, Holds, LedBy
<1>6. SharesHold'
  BY <1>1, <1>2, <1>3 DEF PeopleInv, SharesHold, Holds
<1>7. RevokedIsUnled'
  <2> SUFFICES ASSUME NEW b \in Desks, NEW p \in Revokes(b)'
               PROVE  (LedBy(p) = {})' /\ \A d \in Others(b) : p \notin Shares(d)'
    BY DEF RevokedIsUnled, Others
  <2>1. CASE b = a
    BY <1>1, <1>2, <1>3, <2>1 DEF LedBy, LeadOf, Others
  <2>2. CASE b # a
    <3>1. p \in Revokes(b) /\ LedBy(p) = {} /\ \A d \in Others(b) : p \notin Shares(d)
      BY <1>3, <2>2 DEF PeopleInv, RevokedIsUnled
    <3>2. p \notin SharesOf(t)
      BY <2>2, <3>1 DEF NobodyRevokes, Others
    <3> QED  BY <1>1, <1>2, <1>3, <2>2, <3>1, <3>2 DEF LedBy, LeadOf, Others
  <2> QED  BY <2>1, <2>2
<1>8. WritesApart'
  BY <1>2, <1>3 DEF PeopleInv, WritesApart, NobodyWrites, Others
<1>9. ASSUME NEW b \in Desks PROVE AsShown(b)'
  <2>1. CASE b = a
    BY <1>1, <1>2, <2>1 DEF AsShown, LeadOf, Differing
  <2>2. CASE b # a
    BY <1>1, <1>3, <2>2 DEF PeopleInv, AsShown, LeadOf, Differing
  <2> QED  BY <2>1, <2>2
<1> QED  BY <1>4, <1>5, <1>6, <1>7, <1>8, <1>9 DEF PeopleInv

(* A transaction that writes, makes and takes nothing asks for no lock.    *)
LEMMA QuietTake ==
  ASSUME PeopleInv, NEW a \in Desks, NEW t, IsTransaction(t), Take(a, t),
         t.doing \in {"nothing", "mapping", "applying"}
  PROVE  PeopleInv'
<1>1. DOMAIN WritesOf(t) = {} /\ SharesOf(t) = {} /\ RevokesOf(t) = {} /\ t.doing # "importing"
  BY NoWrites DEF WritesOf, SharesOf, RevokesOf
<1> QED  BY <1>1, TakeKeeps DEF NobodyWrites, NobodyRevokes

LEMMA FreeIsQuiet == IsTransaction(Free) /\ Free.doing = "nothing"
  BY DEF IsTransaction, Free

(* A commit writes the rows its transaction held, which nobody else writes *)
(* and whose leads nobody takes the role from.                             *)
LEMMA CommitWrites ==
  ASSUME PeopleInv, PeopleTypeOK', NEW a \in Desks, Doing(a, "editing") \/ Doing(a, "importing"),
         mapping' = Overlaid(desk[a].writes, commits + 1), UNCHANGED <<held, previewed>>,
         desk'[a] = Free,
         \A b \in Desks : b # a => /\ WritesOf(desk'[b]) = WritesOf(desk[b])
                                  /\ RevokesOf(desk'[b]) = RevokesOf(desk[b])
                                  /\ desk'[b].doing = desk[b].doing
  PROVE  PeopleInv'
<1>1. /\ Writes(a) = desk[a].writes /\ IsWrites(Writes(a))
      /\ \A c \in Catalog : mapping'[c].lead = IF c \in DOMAIN Writes(a) THEN Writes(a)[c] ELSE LeadOf(c)
  <2>1. Writes(a) = desk[a].writes
    BY DEF Writes, Doing
  <2>2. IsWrites(Writes(a))
    BY WritesAreWrites DEF PeopleInv
  <2> QED  BY <2>1, <2>2 DEF Overlaid, LeadOf, PeopleInv, PeopleTypeOK, Mappings, MapRows
<1>2. DOMAIN Writes(a)' = {} /\ Shares(a)' = {} /\ Revokes(a)' = {} /\ ~Doing(a, "importing")'
  BY NoWrites DEF Writes, Shares, Revokes, Doing, Free
<1>3. \A b \in Desks : b # a => /\ Writes(b)' = Writes(b) /\ Shares(b)' = Shares(b) /\ Revokes(b)' = Revokes(b)
                               /\ Doing(b, "importing")' = Doing(b, "importing")
  BY DEF Writes, Shares, Revokes, Doing, WritesOf, RevokesOf
<1>4. \A p \in Faculty : Holds(p)' = Holds(p)
  BY DEF Holds
<1>5. MappedLeadsHoldTheRole'
  <2> SUFFICES ASSUME NEW c \in Catalog, LeadOf(c)' # Unled PROVE Holds(LeadOf(c))'
    BY DEF MappedLeadsHoldTheRole
  <2>1. CASE c \in DOMAIN Writes(a)
    <3>1. LeadOf(c)' \in Shares(a) /\ LeadOf(c)' \in Faculty
      BY <1>1, <2>1 DEF LeadOf, Shares, IsWrites
    <3> QED  BY <3>1 DEF PeopleInv, SharesHold, Holds
  <2>2. CASE c \notin DOMAIN Writes(a)
    BY <1>1, <2>2 DEF LeadOf, PeopleInv, MappedLeadsHoldTheRole, Holds
  <2> QED  BY <2>1, <2>2
<1>6. SharesHold'
  BY <1>2, <1>3 DEF PeopleInv, SharesHold, Holds
<1>7. RevokedIsUnled'
  <2> SUFFICES ASSUME NEW b \in Desks, NEW p \in Revokes(b)'
               PROVE  (LedBy(p) = {})' /\ \A d \in Others(b) : p \notin Shares(d)'
    BY DEF RevokedIsUnled, Others
  <2>1. b # a /\ p \in Revokes(b) /\ p \in Faculty
    BY <1>2, <1>3, WritesAreWrites DEF PeopleInv
  <2>2. LedBy(p) = {} /\ \A d \in Others(b) : p \notin Shares(d)
    BY <2>1 DEF PeopleInv, RevokedIsUnled
  <2>3. p \notin Shares(a) /\ p # Unled
    BY <2>1, <2>2, PeopleAssumption DEF Others
  <2>4. ASSUME NEW c \in Catalog PROVE LeadOf(c)' # p
    <3>1. LeadOf(c) # p
      BY <2>2 DEF LedBy
    <3> QED  BY <1>1, <2>3, <3>1 DEF LeadOf, Shares
  <2> QED  BY <1>2, <1>3, <2>2, <2>4 DEF LedBy, Others
<1>8. WritesApart'
  BY <1>2, <1>3 DEF PeopleInv, WritesApart
<1>9. ASSUME NEW b \in Desks PROVE AsShown(b)'
  <2> SUFFICES ASSUME b # a, Doing(b, "importing")
               PROVE  LET shown == previewed[b]
                          cs == Differing(shown.file, shown.state) IN
                      /\ desk'[b].writes = [c \in cs |-> shown.file[c]]
                      /\ \A c \in cs : LeadOf(c)' = shown.state[c]
    BY <1>2, <1>3 DEF AsShown, LeadOf, Differing
  <2> DEFINE shown == previewed[b]
             cs == Differing(shown.file, shown.state)
  <2>1. desk[b].writes = [c \in cs |-> shown.file[c]] /\ \A c \in cs : LeadOf(c) = shown.state[c]
    BY DEF PeopleInv, AsShown
  <2>2. desk'[b].writes = desk[b].writes
    BY DEF WritesOf, Doing
  <2>3. DOMAIN Writes(b) = cs /\ IsWrites(Writes(b))
    BY <2>1, WritesAreWrites DEF Writes, Doing, PeopleInv
  <2>4. cs \cap DOMAIN Writes(a) = {} /\ cs \subseteq Catalog
    BY <2>3 DEF PeopleInv, WritesApart, IsWrites
  <2>5. \A c \in cs : LeadOf(c)' = LeadOf(c)
    BY <1>1, <2>4 DEF LeadOf
  <2> QED  BY <2>1, <2>2, <2>5
<1> QED  BY <1>5, <1>6, <1>7, <1>8, <1>9 DEF PeopleInv

LEMMA OverlaidIsAMapping ==
  ASSUME PeopleTypeOK, NEW w, IsWrites(w), NEW n \in Nat
  PROVE  Overlaid(w, n) \in Mappings
  BY DEF Overlaid, PeopleTypeOK, Mappings, MapRows, IsWrites

(* A file of the shown change says who leads each course it names.         *)
LEMMA ShownChange ==
  ASSUME NEW s, IsShown(s)
  PROVE  IsWrites([c \in Differing(s.file, s.state) |-> s.file[c]])
<1>1. DOMAIN s.file \subseteq Catalog /\ \A c \in DOMAIN s.file : s.file[c] \in Faculty \cup {Unled}
  BY PeopleAssumption, NoWrites DEF IsShown, NothingShown
<1> QED  BY <1>1 DEF IsWrites, Differing

(* A dry run writes one line more, and the locks it has keep.              *)
LEMMA LineStep ==
  ASSUME PeopleInv, NEW a \in Desks, NEW c \in Catalog, PreviewLine(a, c)
  PROVE  PeopleInv'
<1> DEFINE u == desk[a]
           p == u.file[c]
           w == [x \in DOMAIN u.writes \cup {c} |-> u.file[x]]
           left == u.left \ {c}
           t == [u EXCEPT !.left = @ \ {c}, !.writes = w]
<1>1. /\ IsPreview(u) /\ IsWrites(u.writes) /\ u.doing = "previewing"
      /\ c \in u.left /\ NobodyWrites(a, {c}) /\ NobodyRevokes(a, {p})
  <2>1. IsTransaction(u) /\ u.doing = "previewing"
    BY DEF PeopleInv, PeopleTypeOK, PreviewLine, Doing
  <2> QED  BY <2>1, TransactionShape DEF PreviewLine
<1>2. CASE Take(a, t) /\ (p # Unled => Holds(p))
  <2>1. /\ t = [doing |-> "previewing", file |-> u.file, state |-> u.state, left |-> left, writes |-> w]
        /\ DOMAIN w = DOMAIN u.writes \cup {c} /\ \A x \in DOMAIN w : w[x] = u.file[x]
    <3>1. u = [doing |-> "previewing", file |-> u.file, state |-> u.state, left |-> u.left, writes |-> u.writes]
      BY <1>1 DEF IsPreview
    <3>2. DOMAIN w = DOMAIN u.writes \cup {c} /\ \A x \in DOMAIN w : w[x] = u.file[x]
      OBVIOUS
    <3>3. PICK v, l : l = left /\ v = w
      OBVIOUS
    <3>4. t = [u EXCEPT !.left = l, !.writes = v]
      BY <3>3
    <3> HIDE DEF u, w, t, left
    <3>5. t = [doing |-> "previewing", file |-> u.file, state |-> u.state, left |-> l, writes |-> v]
      <4>1. PICK f, state, m, n :
              u = [doing |-> "previewing", file |-> f, state |-> state, left |-> m, writes |-> n]
        BY <3>1
      <4>2. t = [doing |-> "previewing", file |-> f, state |-> state, left |-> l, writes |-> v]
        BY <3>4, <4>1
      <4>3. u.file = f /\ u.state = state
        BY <4>1
      <4> QED  BY <4>2, <4>3
    <3> QED  BY <3>2, <3>3, <3>5
  <2>2. IsPreview(t) /\ t.writes = w /\ t.doing = "previewing"
    BY <1>1, <2>1 DEF IsPreview
  <2>3. Writes(a) = u.writes
    BY <1>1 DEF Writes
  <2>4. \A x \in DOMAIN u.writes : u.writes[x] = u.file[x]
    BY <1>1 DEF IsPreview
  <2> HIDE DEF t, w, left
  <2>5. SharesOf(t) \subseteq Shares(a) \cup ({p} \ {Unled}) /\ RevokesOf(t) = {} /\ WritesOf(t) = w
    <3>1. WritesOf(t) = w /\ RevokesOf(t) = {}
      BY <2>2 DEF WritesOf, RevokesOf
    <3>2. \A x \in DOMAIN w : w[x] = p \/ (x \in DOMAIN u.writes /\ w[x] = u.writes[x])
      BY <2>1, <2>4
    <3> QED  BY <2>3, <3>1, <3>2 DEF SharesOf, Shares
  <2>6. NobodyWrites(a, DOMAIN WritesOf(t))
    <3>1. \A b \in Others(a) : DOMAIN Writes(b) \cap DOMAIN u.writes = {}
      BY <2>3 DEF PeopleInv, WritesApart, Others
    <3> QED  BY <1>1, <2>1, <2>5, <3>1 DEF NobodyWrites
  <2>7. NobodyRevokes(a, SharesOf(t))
    <3>1. \A b \in Others(a) : Revokes(b) \cap Shares(a) = {}
      BY DEF PeopleInv, RevokedIsUnled, Others
    <3> QED  BY <1>1, <2>5, <3>1 DEF NobodyRevokes
  <2>8. \A q \in SharesOf(t) : Holds(q)
    BY <1>2, <2>5 DEF PeopleInv, SharesHold
  <2>9. IsTransaction(t)
    BY <2>2 DEF IsTransaction
  <2> QED  BY <1>2, <2>2, <2>5, <2>6, <2>7, <2>8, <2>9, TakeKeeps
<1>3. CASE Take(a, Free)
  BY <1>3, FreeIsQuiet, QuietTake
<1> QED  BY <1>2, <1>3 DEF PreviewLine, MayReplace

(* What a finished dry run shows holds what the file asks for.             *)
LEMMA ShowsChange ==
  ASSUME NEW t, IsPreview(t), t.left = {}, NEW after, NEW s,
         DOMAIN after = DOMAIN t.file, \A c \in DOMAIN t.writes : after[c] = t.writes[c],
         s = [file |-> t.file, state |-> t.state, diff |-> Diff(t.state, after)]
  PROVE  IsShown(s)
<1>1. s.file = t.file /\ s.state = t.state /\ s.diff = Diff(t.state, after)
  OBVIOUS
<1>2. t.file \in Files /\ \E m \in Mappings : t.state = Leads(t.file, m)
  BY DEF IsPreview
<1>3. DOMAIN t.state = DOMAIN t.file
  BY <1>2 DEF Leads
<1>4. /\ DOMAIN s.diff = {c \in DOMAIN t.file : t.state[c] # after[c]}
      /\ \A c \in DOMAIN s.diff : s.diff[c] = [before |-> t.state[c], after |-> after[c]]
  BY <1>1, <1>3 DEF Diff
<1>5. ASSUME NEW c \in Differing(t.file, t.state) PROVE c \in DOMAIN s.diff /\ s.diff[c].after = t.file[c]
  <2>1. c \in DOMAIN t.file /\ t.state[c] # t.file[c] /\ c \in DOMAIN t.writes /\ t.writes[c] = t.file[c]
    BY DEF IsPreview, Differing
  <2>2. after[c] = t.file[c]
    BY <2>1
  <2>3. c \in DOMAIN s.diff
    BY <1>4, <2>1, <2>2
  <2>4. s.diff[c] = [before |-> t.state[c], after |-> after[c]]
    BY <1>4, <2>3
  <2>5. s.diff[c].after = after[c]
    BY <2>4
  <2> QED  BY <2>2, <2>3, <2>5
<1>6. ASSUME NEW c \in DOMAIN s.diff
      PROVE  c \in DOMAIN s.file /\ s.diff[c] = [before |-> s.state[c], after |-> s.diff[c].after]
  <2>1. c \in DOMAIN t.file /\ s.diff[c] = [before |-> t.state[c], after |-> after[c]]
    BY <1>4
  <2>2. s.diff[c].after = after[c]
    BY <2>1
  <2>3. s.file = t.file /\ s.state = t.state
    BY <1>1
  <2> QED  BY <2>1, <2>2, <2>3
<1> QED  BY <1>1, <1>2, <1>5, <1>6 DEF IsShown

(* A dry run that shows what it found writes nothing and relies on nobody. *)
LEMMA ShowStep ==
  ASSUME PeopleInv, NEW a \in Desks, ShowDryRun(a)
  PROVE  PeopleInv'
<1> DEFINE u == desk[a]
           after == [c \in DOMAIN u.file |-> IF c \in DOMAIN u.writes THEN u.writes[c] ELSE LeadOf(c)]
           s == [file |-> u.file, state |-> u.state, diff |-> Diff(u.state, after)]
<1>1. PeopleTypeOK /\ IsPreview(u) /\ u.left = {}
  <2>1. IsTransaction(u) /\ u.doing = "previewing" /\ u.left = {}
    BY DEF PeopleInv, PeopleTypeOK, ShowDryRun, Doing
  <2> QED  BY <2>1, TransactionShape DEF PeopleInv
<1>2. /\ UNCHANGED <<commits, held, mapping>>
      /\ desk' = [b \in Desks |-> IF b = a THEN Free ELSE desk[b]]
      /\ previewed' = [b \in Desks |-> IF b = a THEN s ELSE previewed[b]]
  BY <1>1 DEF ShowDryRun, PeopleTypeOK
<1>3. IsShown(s)
  <2>1. DOMAIN u.writes \subseteq DOMAIN u.file
    BY <1>1 DEF IsPreview, Differing
  <2>2. DOMAIN after = DOMAIN u.file /\ \A c \in DOMAIN u.writes : after[c] = u.writes[c]
    BY <2>1
  <2>3. s = [file |-> u.file, state |-> u.state, diff |-> Diff(u.state, after)]
    OBVIOUS
  <2> HIDE DEF u, after, s
  <2> QED  BY <1>1, <2>2, <2>3, ShowsChange
<1> HIDE DEF s
<1>4. PeopleTypeOK'
  BY <1>1, <1>2, <1>3, FreeIsQuiet DEF PeopleTypeOK
<1>5. DOMAIN Writes(a)' = {} /\ Shares(a)' = {} /\ Revokes(a)' = {} /\ ~Doing(a, "importing")'
  BY <1>2, NoWrites DEF Writes, Shares, Revokes, Doing, Free
<1>6. \A b \in Desks : b # a => /\ Writes(b)' = Writes(b) /\ Shares(b)' = Shares(b) /\ Revokes(b)' = Revokes(b)
                               /\ Doing(b, "importing")' = Doing(b, "importing")
                               /\ desk'[b] = desk[b] /\ previewed'[b] = previewed[b]
  BY <1>2 DEF Writes, Shares, Revokes, Doing
<1>7. (\A p : Holds(p)' = Holds(p) /\ LedBy(p)' = LedBy(p)) /\ \A c : LeadOf(c)' = LeadOf(c)
  BY <1>2 DEF Holds, LedBy, LeadOf
<1>8. MappedLeadsHoldTheRole' /\ SharesHold' /\ WritesApart'
  BY <1>5, <1>6, <1>7 DEF PeopleInv, MappedLeadsHoldTheRole, SharesHold, WritesApart
<1>9. RevokedIsUnled'
  BY <1>5, <1>6, <1>7 DEF PeopleInv, RevokedIsUnled, Others
<1>10. ASSUME NEW b \in Desks PROVE AsShown(b)'
  <2>1. CASE b = a
    BY <1>5, <2>1 DEF AsShown
  <2>2. CASE b # a
    BY <1>6, <1>7, <2>2 DEF PeopleInv, AsShown, Differing
  <2> QED  BY <2>1, <2>2
<1> QED  BY <1>4, <1>8, <1>9, <1>10 DEF PeopleInv

LEMMA PeopleStep == PeopleInv /\ [PeopleNext]_peopleVars => PeopleInv'
<1> SUFFICES ASSUME PeopleInv, [PeopleNext]_peopleVars PROVE PeopleInv'
  OBVIOUS
<1>0. PeopleTypeOK /\ \A a \in Desks : IsTransaction(desk[a])
  BY DEF PeopleInv, PeopleTypeOK
<1>1. ASSUME NEW a \in Desks, NEW c \in Catalog, UnmapLead(a, c) PROVE PeopleInv'
  <2> DEFINE w == [x \in {c} |-> Unled]
             t == [doing |-> "editing", writes |-> w]
  <2>1. IsWrites(w) /\ DOMAIN w = {c} /\ \A x \in DOMAIN w : w[x] = Unled
    BY DEF IsWrites
  <2>2. IsTransaction(t) /\ t.doing = "editing" /\ t.writes = w
    BY <2>1 DEF IsTransaction
  <2>3. Take(a, t) /\ NobodyWrites(a, {c})
    BY <1>1 DEF UnmapLead
  <2> HIDE DEF w, t
  <2>4. WritesOf(t) = w /\ SharesOf(t) = {} /\ RevokesOf(t) = {}
    BY <2>1, <2>2 DEF WritesOf, SharesOf, RevokesOf
  <2> QED  BY <2>1, <2>2, <2>3, <2>4, TakeKeeps DEF NobodyRevokes
<1>2. ASSUME NEW a \in Desks, NEW c \in Catalog, NEW p \in Faculty, MapLeadTo(a, c, p) PROVE PeopleInv'
  <2> DEFINE t == [doing |-> "mapping", course |-> c, person |-> p, read |-> mapping[c]]
  <2>1. IsTransaction(t) /\ t.doing = "mapping"
    BY <1>0 DEF IsTransaction, PeopleTypeOK, Mappings
  <2>2. Take(a, t)
    BY <1>2 DEF MapLeadTo
  <2> HIDE DEF t
  <2> QED  BY <2>1, <2>2, QuietTake
<1>3. ASSUME NEW a \in Desks, WriteMapping(a) PROVE PeopleInv'
  <2> DEFINE c == desk[a].course
             p == desk[a].person
             w == [x \in {c} |-> p]
             t == [doing |-> "editing", writes |-> w]
  <2>1. c \in Catalog /\ p \in Faculty
    BY <1>0, <1>3, TransactionShape DEF WriteMapping, Doing
  <2>2. CASE MayMap(a) /\ Take(a, t)
    <3>1. IsWrites(w) /\ DOMAIN w = {c} /\ \A x \in DOMAIN w : w[x] = p
      BY <2>1 DEF IsWrites
    <3>2. IsTransaction(t) /\ t.doing = "editing" /\ t.writes = w
      BY <3>1 DEF IsTransaction
    <3>3. NobodyWrites(a, {c}) /\ NobodyRevokes(a, {p}) /\ Holds(p) /\ Take(a, t)
      BY <1>3, <2>1, <2>2, PeopleAssumption DEF WriteMapping, MayMap, MayReplace
    <3> HIDE DEF w, t
    <3>4. WritesOf(t) = w /\ SharesOf(t) \subseteq {p} /\ RevokesOf(t) = {}
      BY <3>1, <3>2 DEF WritesOf, SharesOf, RevokesOf
    <3> QED  BY <3>1, <3>2, <3>3, <3>4, TakeKeeps DEF NobodyRevokes
  <2>3. CASE Take(a, Free)
    BY <2>3, FreeIsQuiet, QuietTake
  <2> QED  BY <1>3, <2>2, <2>3 DEF WriteMapping
<1>4. ASSUME NEW a \in Desks, CommitEdit(a) PROVE PeopleInv'
  <2>1. IsWrites(desk[a].writes) /\ Doing(a, "editing")
    BY <1>0, <1>4, TransactionShape DEF CommitEdit, Doing
  <2>2. /\ commits' = commits + 1 /\ mapping' = Overlaid(desk[a].writes, commits + 1)
        /\ UNCHANGED <<held, previewed>>
        /\ desk' = [b \in Desks |-> IF b = a THEN Free ELSE desk[b]]
    BY <1>0, <1>4 DEF CommitEdit, PeopleTypeOK
  <2>3. PeopleTypeOK'
    BY <1>0, <2>1, <2>2, OverlaidIsAMapping, FreeIsQuiet DEF PeopleTypeOK
  <2> QED  BY <2>1, <2>2, <2>3, CommitWrites
<1>5. ASSUME NEW a \in Desks, NEW p \in Faculty, RevokeRole(a, p) PROVE PeopleInv'
  <2> DEFINE t == [doing |-> "revoking", person |-> p]
  <2>1. IsTransaction(t) /\ t.doing = "revoking" /\ t.person = p
    BY DEF IsTransaction
  <2>2. Take(a, t) /\ LedBy(p) = {} /\ NobodyRelies(a, p)
    BY <1>5 DEF RevokeRole
  <2> HIDE DEF t
  <2>3. DOMAIN WritesOf(t) = {} /\ SharesOf(t) = {} /\ RevokesOf(t) = {p}
    BY <2>1, NoWrites DEF WritesOf, SharesOf, RevokesOf
  <2> QED  BY <2>1, <2>2, <2>3, TakeKeeps DEF NobodyRelies, NobodyWrites, NobodyRevokes
<1>6. ASSUME NEW a \in Desks, CommitRevoke(a) PROVE PeopleInv'
  <2> DEFINE p == desk[a].person
  <2>1. p \in Faculty /\ p \in Revokes(a)
    BY <1>0, <1>6, TransactionShape DEF CommitRevoke, Doing, Revokes
  <2>2. LedBy(p) = {} /\ \A b \in Others(a) : p \notin Shares(b)
    BY <2>1 DEF PeopleInv, RevokedIsUnled
  <2>3. /\ commits' = commits + 1 /\ UNCHANGED <<mapping, previewed>>
        /\ held' = [q \in Faculty |-> IF q = p THEN 0 ELSE held[q]]
        /\ desk' = [b \in Desks |-> IF b = a THEN Free ELSE desk[b]]
    BY <1>0, <1>6 DEF CommitRevoke, PeopleTypeOK
  <2>4. PeopleTypeOK'
    BY <1>0, <2>3, FreeIsQuiet DEF PeopleTypeOK
  <2>5. DOMAIN Writes(a)' = {} /\ Shares(a)' = {} /\ Revokes(a)' = {} /\ ~Doing(a, "importing")'
    BY <2>3, NoWrites DEF Writes, Shares, Revokes, Doing, Free
  <2>6. \A b \in Desks : b # a => /\ Writes(b)' = Writes(b) /\ Shares(b)' = Shares(b) /\ Revokes(b)' = Revokes(b)
                                 /\ Doing(b, "importing")' = Doing(b, "importing") /\ desk'[b] = desk[b]
    BY <2>3 DEF Writes, Shares, Revokes, Doing
  <2>7. \A q \in Faculty : q # p => Holds(q)' = Holds(q)
    BY <2>3 DEF Holds
  <2>8. MappedLeadsHoldTheRole'
    <3> SUFFICES ASSUME NEW c \in Catalog, LeadOf(c)' # Unled PROVE Holds(LeadOf(c))'
      BY DEF MappedLeadsHoldTheRole
    <3>1. LeadOf(c)' = LeadOf(c) /\ LeadOf(c) # p /\ LeadOf(c) \in Faculty
      BY <1>0, <2>2, <2>3 DEF LeadOf, LedBy, PeopleTypeOK, Mappings, MapRows
    <3> QED  BY <2>7, <3>1 DEF PeopleInv, MappedLeadsHoldTheRole, Holds
  <2>9. SharesHold'
    <3> SUFFICES ASSUME NEW b \in Desks, NEW q \in Shares(b)' PROVE Holds(q)'
      BY DEF SharesHold
    <3>1. b # a /\ q \in Shares(b) /\ q # p /\ q \in Faculty
      BY <1>0, <2>2, <2>5, <2>6, WritesAreWrites DEF Others
    <3> QED  BY <2>7, <3>1 DEF PeopleInv, SharesHold
  <2>10. RevokedIsUnled'
    <3>1. \A q \in Faculty : LedBy(q)' = LedBy(q)
      BY <2>3 DEF LedBy, LeadOf
    <3> SUFFICES ASSUME NEW b \in Desks, NEW q \in Revokes(b)'
                 PROVE  (LedBy(q) = {})' /\ \A d \in Others(b) : q \notin Shares(d)'
      BY DEF RevokedIsUnled, Others
    <3>2. b # a /\ q \in Revokes(b) /\ q \in Faculty
      BY <1>0, <2>5, <2>6, WritesAreWrites
    <3>3. LedBy(q) = {} /\ \A d \in Others(b) : q \notin Shares(d)
      BY <3>2 DEF PeopleInv, RevokedIsUnled
    <3> QED  BY <2>5, <2>6, <3>1, <3>2, <3>3 DEF Others
  <2>11. WritesApart'
    BY <2>5, <2>6 DEF PeopleInv, WritesApart
  <2>12. \A b \in Desks : AsShown(b)'
    BY <2>3, <2>5, <2>6 DEF PeopleInv, AsShown, LeadOf, Differing
  <2> QED  BY <2>4, <2>8, <2>9, <2>10, <2>11, <2>12 DEF PeopleInv
<1>7. ASSUME NEW a \in Desks, NEW f \in Files, StartDryRun(a, f) PROVE PeopleInv'
  <2> DEFINE state == Leads(f, mapping)
             t == [doing |-> "previewing", file |-> f, state |-> state, left |-> Differing(f, state), writes |-> << >>]
  <2>1. t.doing = "previewing" /\ t.file = f /\ t.state = state /\ t.left = Differing(f, state) /\ t.writes = << >>
    OBVIOUS
  <2>2. \E m \in Mappings : state = Leads(f, m)
    BY <1>0 DEF PeopleTypeOK
  <2>3. Take(a, t) /\ t = [doing |-> "previewing", file |-> t.file, state |-> t.state, left |-> t.left, writes |-> t.writes]
    BY <1>7 DEF StartDryRun
  <2> HIDE DEF t, state
  <2>4. IsPreview(t)
    BY <2>1, <2>2, <2>3, NoWrites DEF IsPreview
  <2>5. DOMAIN WritesOf(t) = {} /\ SharesOf(t) = {} /\ RevokesOf(t) = {}
    BY <2>1, NoWrites DEF WritesOf, SharesOf, RevokesOf
  <2>6. IsTransaction(t)
    BY <2>4 DEF IsTransaction
  <2> QED  BY <2>1, <2>3, <2>5, <2>6, TakeKeeps DEF NobodyWrites, NobodyRevokes
<1>14. ASSUME NEW a \in Desks, NEW c \in Catalog, PreviewLine(a, c) PROVE PeopleInv'
  BY <1>14, LineStep
<1>15. ASSUME NEW a \in Desks, ShowDryRun(a) PROVE PeopleInv'
  BY <1>15, ShowStep
<1>8. ASSUME NEW a \in Desks, BeginApply(a) PROVE PeopleInv'
  <2> DEFINE t == [doing |-> "applying", seen |-> mapping, roles |-> held, overtaken |-> FALSE]
  <2>1. IsTransaction(t) /\ t.doing = "applying"
    BY <1>0 DEF IsTransaction, PeopleTypeOK
  <2>2. Take(a, t)
    BY <1>8 DEF BeginApply
  <2> HIDE DEF t
  <2> QED  BY <2>1, <2>2, QuietTake
<1>9. ASSUME NEW a \in Desks, WriteImport(a) PROVE PeopleInv'
  <2> DEFINE f == previewed[a].file
             state == previewed[a].state
             cs == Differing(f, Leads(f, desk[a].seen))
             w == [c \in cs |-> f[c]]
             t == [doing |-> "importing", writes |-> w, overtaken |-> desk[a].overtaken]
  <2>1. desk[a].overtaken \in BOOLEAN /\ desk[a].seen \in Mappings /\ IsShown(previewed[a])
    BY <1>0, <1>9, TransactionShape DEF WriteImport, Doing, PeopleTypeOK
  <2>2. CASE Take(a, t) /\ ~Stale(a) /\ (\A c \in cs : mapping[c] = desk[a].seen[c]) /\ (\A p \in Newly(f, cs) : Holds(p))
    <3>1. Leads(f, desk[a].seen) = state /\ cs = Differing(f, state)
      BY <2>2 DEF Stale
    <3>2. IsWrites(w)
      BY <2>1, <3>1, ShownChange
    <3>3. DOMAIN w = cs /\ \A c \in cs : w[c] = f[c]
      OBVIOUS
    <3>4. IsTransaction(t) /\ t.doing = "importing" /\ t.writes = w
      BY <2>1, <3>2 DEF IsTransaction
    <3>5. \A c \in cs : LeadOf(c) = state[c]
      <4>1. \A c \in DOMAIN f : state[c] = desk[a].seen[c].lead
        BY <3>1 DEF Leads
      <4>2. cs \subseteq DOMAIN f
        BY DEF Differing
      <4> QED  BY <2>2, <4>1, <4>2 DEF LeadOf
    <3>6. NobodyWrites(a, cs) /\ NobodyRevokes(a, Newly(f, cs)) /\ Take(a, t) /\ \A p \in Newly(f, cs) : Holds(p)
      BY <1>9, <2>2 DEF WriteImport
    <3>7. WritesOf(t) = w /\ SharesOf(t) = Newly(f, cs) /\ RevokesOf(t) = {}
      <4> HIDE DEF t, cs
      <4> QED  BY <3>3, <3>4 DEF WritesOf, SharesOf, RevokesOf, Newly
    <3>8. t.writes = [c \in Differing(f, state) |-> f[c]] /\ \A c \in Differing(f, state) : LeadOf(c) = state[c]
      BY <3>1, <3>5
    <3>9. DOMAIN WritesOf(t) = cs
      BY <3>3, <3>7
    <3> HIDE DEF t, w, cs
    <3> QED  BY <3>4, <3>6, <3>7, <3>8, <3>9, TakeKeeps
  <2>3. CASE Take(a, Free)
    BY <2>3, FreeIsQuiet, QuietTake
  <2> QED  BY <1>9, <2>2, <2>3 DEF WriteImport
<1>10. ASSUME NEW a \in Desks, CommitImport(a) PROVE PeopleInv'
  <2>1. IsWrites(desk[a].writes) /\ Doing(a, "importing")
    BY <1>0, <1>10, TransactionShape DEF CommitImport, Doing
  <2>2. /\ commits' = commits + 1 /\ mapping' = Overlaid(desk[a].writes, commits + 1)
        /\ UNCHANGED <<held, previewed>>
        /\ desk' = [b \in Desks |-> desk'[b]] /\ desk'[a] = Free
        /\ \A b \in Desks : b # a => \/ desk'[b] = desk[b]
                                    \/ /\ desk[b].doing \in {"applying", "importing"}
                                       /\ desk'[b] = [desk[b] EXCEPT !.overtaken = TRUE]
    BY <1>10 DEF CommitImport, Overtake
  <2>3. ASSUME NEW b \in Desks, b # a
        PROVE  /\ IsTransaction(desk'[b]) /\ WritesOf(desk'[b]) = WritesOf(desk[b])
               /\ RevokesOf(desk'[b]) = RevokesOf(desk[b]) /\ desk'[b].doing = desk[b].doing
    <3>1. CASE desk'[b] = desk[b]
      BY <1>0, <3>1
    <3>2. CASE desk[b].doing = "applying" /\ desk'[b] = [desk[b] EXCEPT !.overtaken = TRUE]
      <4>1. desk[b] \in [doing : {"applying"}, seen : Mappings, roles : [Faculty -> Nat], overtaken : BOOLEAN]
        BY <1>0, <3>2, TransactionKinds
      <4> QED  BY <3>2, <4>1 DEF IsTransaction, WritesOf, RevokesOf
    <3>3. CASE desk[b].doing = "importing" /\ desk'[b] = [desk[b] EXCEPT !.overtaken = TRUE]
      <4>1. PICK w, o : IsWrites(w) /\ o \in BOOLEAN /\ desk[b] = [doing |-> "importing", writes |-> w, overtaken |-> o]
        BY <1>0, <3>3, TransactionKinds
      <4>2. desk'[b] = [[doing |-> "importing", writes |-> w, overtaken |-> o] EXCEPT !.overtaken = TRUE]
        BY <3>3, <4>1, Zenon
      <4>3. desk'[b] = [doing |-> "importing", writes |-> w, overtaken |-> TRUE]
        BY <4>2
      <4>4. IsTransaction(desk'[b])
        BY <4>1, <4>3, Zenon DEF IsTransaction
      <4>5. desk'[b].doing = "importing" /\ desk'[b].writes = w
        BY <4>3
      <4>6. desk[b].doing = "importing" /\ desk[b].writes = w
        BY <4>1
      <4> QED  BY <4>4, <4>5, <4>6 DEF WritesOf, RevokesOf
    <3> QED  BY <2>2, <2>3, <3>1, <3>2, <3>3
  <2>4. PeopleTypeOK'
    BY <1>0, <2>1, <2>2, <2>3, OverlaidIsAMapping, FreeIsQuiet DEF PeopleTypeOK
  <2> QED  BY <2>1, <2>2, <2>3, <2>4, CommitWrites
<1>11. ASSUME NEW a \in Desks, Abandon(a) PROVE PeopleInv'
  BY <1>11, FreeIsQuiet, QuietTake DEF Abandon
<1>12. ASSUME NEW p \in Faculty, GrantLead(p) PROVE PeopleInv'
  <2>1. /\ commits' = commits + 1 /\ UNCHANGED <<mapping, previewed, desk>>
        /\ held' = [held EXCEPT ![p] = commits + 1]
    BY <1>12 DEF GrantLead
  <2>2. \A q \in Faculty : Holds(q) => Holds(q)'
    BY <1>0, <2>1 DEF Holds, PeopleTypeOK
  <2>3. PeopleTypeOK'
    BY <1>0, <2>1 DEF PeopleTypeOK
  <2>4. \A b \in Desks : Shares(b)' = Shares(b) /\ Revokes(b)' = Revokes(b) /\ Writes(b)' = Writes(b) /\ Shares(b) \subseteq Faculty
    BY <1>0, <2>1, WritesAreWrites DEF Shares, Revokes, Writes, Doing
  <2>5. \A c \in Catalog : LeadOf(c)' = LeadOf(c) /\ LeadOf(c) \in Faculty \cup {Unled}
    BY <1>0, <2>1 DEF LeadOf, PeopleTypeOK, Mappings, MapRows
  <2>6. MappedLeadsHoldTheRole' /\ SharesHold'
    BY <2>2, <2>4, <2>5 DEF PeopleInv, MappedLeadsHoldTheRole, SharesHold
  <2>7. RevokedIsUnled'
    <3>1. \A q \in Faculty : LedBy(q)' = LedBy(q)
      BY <2>5 DEF LedBy
    <3> QED  BY <1>0, <2>4, <3>1, WritesAreWrites DEF PeopleInv, RevokedIsUnled, Others
  <2>8. \A b \in Desks : AsShown(b)'
    BY <2>1 DEF PeopleInv, AsShown, Doing, LeadOf, Differing
  <2>9. WritesApart'
    BY <2>4 DEF PeopleInv, WritesApart
  <2> QED  BY <2>3, <2>6, <2>7, <2>8, <2>9 DEF PeopleInv
<1>13. CASE UNCHANGED peopleVars
  <2>1. \A b \in Desks : Shares(b)' = Shares(b) /\ Revokes(b)' = Revokes(b) /\ Writes(b)' = Writes(b)
    BY <1>13 DEF peopleVars, Shares, Revokes, Writes, Doing
  <2>2. \A p : LedBy(p)' = LedBy(p) /\ Holds(p)' = Holds(p) /\ \A c \in Catalog : LeadOf(c)' = LeadOf(c)
    BY <1>13 DEF peopleVars, LedBy, LeadOf, Holds
  <2>3. MappedLeadsHoldTheRole' /\ SharesHold' /\ WritesApart'
    BY <2>1, <2>2 DEF PeopleInv, MappedLeadsHoldTheRole, SharesHold, WritesApart
  <2>4. RevokedIsUnled'
    BY <2>1, <2>2 DEF PeopleInv, RevokedIsUnled, Others
  <2>5. PeopleTypeOK' /\ \A a \in Desks : AsShown(a)'
    BY <1>13 DEF peopleVars, PeopleInv, PeopleTypeOK, AsShown, Doing, LeadOf, Differing
  <2> QED  BY <2>3, <2>4, <2>5 DEF PeopleInv
<1> QED
  BY <1>1, <1>2, <1>3, <1>4, <1>5, <1>6, <1>7, <1>8, <1>9, <1>10, <1>11, <1>12, <1>13, <1>14, <1>15 DEF PeopleNext

(* A mapped lead always holds the role, whatever edits, imports and        *)
(* revocations overlap, for any desks, people, courses and files.          *)
THEOREM LeadsHoldTheRole == PeopleSpec => []MappedLeadsHoldTheRole
<1>1. PeopleInv => MappedLeadsHoldTheRole
  BY DEF PeopleInv
<1> QED  BY <1>1, PeopleInvInit, PeopleStep, PTL DEF PeopleSpec

(* Of what is shown, the lines that ask for another lead are the changes   *)
(* the digest binds.                                                       *)
LEMMA ShownDiff ==
  ASSUME NEW s, IsShown(s)
  PROVE  /\ {c \in DOMAIN s.diff : s.diff[c].before # s.file[c]} = Differing(s.file, s.state)
         /\ \A c \in Differing(s.file, s.state) : s.diff[c] = [before |-> s.state[c], after |-> s.file[c]]
<1>1. CASE s = NothingShown
  <2>1. DOMAIN s.file = {} /\ DOMAIN s.diff = {}
    BY <1>1, NoWrites DEF NothingShown
  <2> QED  BY <2>1 DEF Differing
<1>2. CASE s # NothingShown
  <2>1. ASSUME NEW c \in Differing(s.file, s.state)
        PROVE  /\ c \in DOMAIN s.diff /\ s.diff[c].before # s.file[c]
               /\ s.diff[c] = [before |-> s.state[c], after |-> s.file[c]]
    <3>1. /\ c \in DOMAIN s.diff /\ s.diff[c].after = s.file[c]
          /\ s.diff[c] = [before |-> s.state[c], after |-> s.diff[c].after]
      BY <1>2 DEF IsShown
    <3>2. s.diff[c].before = s.state[c]
      BY <3>1
    <3> QED  BY <3>1, <3>2 DEF Differing
  <2>2. ASSUME NEW c \in DOMAIN s.diff, s.diff[c].before # s.file[c]
        PROVE  c \in Differing(s.file, s.state)
    <3>1. c \in DOMAIN s.file /\ s.diff[c] = [before |-> s.state[c], after |-> s.diff[c].after]
      BY <1>2 DEF IsShown
    <3>2. s.diff[c].before = s.state[c]
      BY <3>1
    <3> QED  BY <2>2, <3>1, <3>2 DEF Differing
  <2> QED  BY <2>1, <2>2
<1> QED  BY <1>1, <1>2

(* What an import commits: of the rows it showed those its file asks for,  *)
(* from what it showed, to what it showed.                                 *)
LEMMA ImportAsShown ==
  ASSUME PeopleInv, NEW a \in Desks, CommitImport(a)
  PROVE  LET shown == previewed[a]
             changed == {c \in Catalog : LeadOf(c) # mapping'[c].lead} IN
         /\ changed = {c \in DOMAIN shown.diff : shown.diff[c].before # shown.file[c]}
         /\ \A c \in changed : shown.diff[c] = [before |-> LeadOf(c), after |-> mapping'[c].lead]
<1> DEFINE shown == previewed[a]
           cs == Differing(shown.file, shown.state)
           changed == {c \in Catalog : LeadOf(c) # mapping'[c].lead}
<1>1. desk[a].writes = [c \in cs |-> shown.file[c]] /\ \A c \in cs : LeadOf(c) = shown.state[c]
  BY DEF PeopleInv, AsShown, CommitImport
<1>2. cs \subseteq Catalog
  <2>1. IsWrites(desk[a].writes)
    BY TransactionShape DEF PeopleInv, PeopleTypeOK, CommitImport, Doing
  <2> QED  BY <1>1, <2>1 DEF IsWrites
<1>3. \A c \in Catalog : mapping'[c].lead = IF c \in cs THEN shown.file[c] ELSE LeadOf(c)
  BY <1>1 DEF CommitImport, Overlaid, LeadOf
<1>4. \A c \in cs : shown.state[c] # shown.file[c]
  BY DEF Differing
<1>5. changed = cs
  BY <1>1, <1>2, <1>3, <1>4
<1>6. \A c \in cs : LeadOf(c) = shown.state[c] /\ mapping'[c].lead = shown.file[c]
  BY <1>1, <1>2, <1>3
<1>7. IsShown(shown)
  BY DEF PeopleInv, PeopleTypeOK
<1>8. /\ {c \in DOMAIN shown.diff : shown.diff[c].before # shown.file[c]} = cs
      /\ \A c \in cs : shown.diff[c] = [before |-> shown.state[c], after |-> shown.file[c]]
  BY <1>7, ShownDiff
<1> HIDE DEF cs, changed
<1>9. /\ changed = {c \in DOMAIN shown.diff : shown.diff[c].before # shown.file[c]}
      /\ \A c \in changed : shown.diff[c] = [before |-> LeadOf(c), after |-> mapping'[c].lead]
  BY <1>5, <1>6, <1>8
<1> QED  BY <1>9 DEF changed

(* An apply changes exactly what its file asks for among what its preview  *)
(* showed, from and to what was shown, though the preview read the mapping *)
(* twice and nothing was locked between it and the apply.                  *)
THEOREM ImportsAsPreviewed == PeopleSpec => ApplyChangesWhatWasPreviewed
<1> DEFINE Step == \A a \in Desks : CommitImport(a) =>
             LET shown == previewed[a]
                 changed == {c \in Catalog : LeadOf(c) # mapping'[c].lead} IN
             /\ changed = {c \in DOMAIN shown.diff : shown.diff[c].before # shown.file[c]}
             /\ \A c \in changed : shown.diff[c] = [before |-> LeadOf(c), after |-> mapping'[c].lead]
<1>1. PeopleInv => Step
  BY ImportAsShown
<1> QED  BY <1>1, PeopleInvInit, PeopleStep, PTL DEF PeopleSpec, ApplyChangesWhatWasPreviewed

-----------------------------------------------------------------------------
(* RosterSync.                                                             *)

LEMMA BetweenIs ==
  ASSUME NEW w
  PROVE  Between(w) = [stage |-> "between", left |-> sync[w].left, draft |-> sync[w].draft,
                       wrong |-> sync[w].wrong, went |-> sync[w].went]
  BY DEF Between, With, Carried

LEMMA WithIs ==
  ASSUME NEW a, NEW b
  PROVE  /\ DOMAIN With(a, b) = DOMAIN a \cup DOMAIN b
         /\ \A f \in DOMAIN a : With(a, b)[f] = a[f]
         /\ \A f \in DOMAIN b \ DOMAIN a : With(a, b)[f] = b[f]
  BY DEF With

Kinds == {"student", "unreadable", "teacher", "dropped", "absent"}

(* Types.                                                                  *)
IsRow(r) ==
    /\ r = [member |-> r.member, from |-> r.from, to |-> r.to]
    /\ r.member \in Members /\ r.from \in Nat \ {0} /\ r.to \in Nat
AreRows(R) == \A r \in R : IsRow(r)

IsDraft(d) ==
    /\ d = [gone |-> d.gone, new |-> d.new, granted |-> d.granted, ended |-> d.ended]
    /\ AreRows(d.gone) /\ AreRows(d.new)

Walks(t) == t.stage \in {"walking", "read", "ingesting"}

IsWalk(t) ==
    /\ t = [stage |-> t.stage, section |-> t.section, page |-> t.page, read |-> t.read,
            whole |-> t.whole, open |-> t.open, away |-> t.away, untaught |-> t.untaught, passed |-> t.passed,
            left |-> t.left, draft |-> t.draft, wrong |-> t.wrong, went |-> t.went]
    /\ t.section \in Sections /\ t.page \in Nat \ {0} /\ t.whole \in BOOLEAN
    /\ t.open \subseteq {r \in t.open : IsRow(r) /\ r.to = 0 /\ SectionOf[r.member] = t.section}
    /\ DOMAIN t.read \subseteq Of(t.section)
    /\ \A m \in DOMAIN t.read : t.read[m].kind \in Kinds \ {"absent"} /\ t.read[m].ended \in Nat

IsSync(t) ==
    \/ t = Asleep
    \/ /\ IsDraft(t.draft)
       /\ \/ Walks(t) /\ IsWalk(t)
          \/ t = [stage |-> "between", left |-> t.left, draft |-> t.draft, wrong |-> t.wrong, went |-> t.went]

RosterTypeOK ==
    /\ day \in Nat \ {0}
    /\ DOMAIN listing = Members /\ \A m \in Members : listing[m] \in [kind : Kinds, ended : Nat]
    /\ place \in [Members -> Nat]
    /\ AreRows(enrolled)
    /\ DOMAIN sync = Syncers /\ \A w \in Syncers : IsSync(sync[w])

(* Whoever is unlisted now, or was read as such, was unlisted during the   *)
(* walk.  Whoever stands on a page that was read and was not read moved    *)
(* there from one that was not, or was not shown at all.                   *)
Follows(t) ==
    \A m \in Of(t.section) :
        /\ ~Listed(m) => m \in t.away
        /\ listing[m].kind # "teacher" => m \in t.untaught
        /\ m \in DOMAIN t.read /\ t.read[m].kind \notin {"student", "unreadable"} => m \in t.away
        /\ m \in DOMAIN t.read /\ t.read[m].kind # "teacher" => m \in t.untaught
        /\ m \notin DOMAIN t.read /\ (Position(m) <= (t.page - 1) * PageSize \/ t.whole)
             => m \in t.passed \/ m \in t.away \cap t.untaught

WalksFollow == \A w \in Syncers : Walks(sync[w]) => Follows(sync[w])

RosterInv == RosterTypeOK /\ WalksFollow /\ NobodyListedIsEnded


LEMMA SyncShape ==
  ASSUME NEW t, IsSync(t)
  PROVE  /\ t.stage \in {"asleep", "between", "walking", "read", "ingesting"}
         /\ t.stage = "asleep" => t = Asleep
         /\ t.stage # "asleep" => IsDraft(t.draft)
         /\ Walks(t) => IsWalk(t)
         /\ t.stage = "between" => t = [stage |-> "between", left |-> t.left, draft |-> t.draft,
                                        wrong |-> t.wrong, went |-> t.went]
<1>1. CASE t = Asleep
  BY <1>1 DEF Asleep, Walks
<1>2. CASE IsDraft(t.draft) /\ Walks(t) /\ IsWalk(t)
  BY <1>2 DEF Walks
<1>3. CASE /\ IsDraft(t.draft)
           /\ t = [stage |-> "between", left |-> t.left, draft |-> t.draft, wrong |-> t.wrong, went |-> t.went]
  <2>1. t.stage = "between"
    BY <1>3
  <2> QED  BY <1>3, <2>1 DEF Walks
<1> QED  BY <1>1, <1>2, <1>3 DEF IsSync

LEMMA AsleepIs == IsSync(Asleep) /\ ~Walks(Asleep) /\ Asleep.stage = "asleep"
  BY DEF IsSync, Asleep, Walks

LEMMA BetweenSync ==
  ASSUME NEW left, NEW draft, NEW wrong, NEW went, IsDraft(draft)
  PROVE  LET t == [stage |-> "between", left |-> left, draft |-> draft, wrong |-> wrong, went |-> went] IN
         IsSync(t) /\ ~Walks(t) /\ t.stage = "between" /\ t.left = left /\ t.draft = draft /\ t.wrong = wrong
           /\ t.went = went
  BY DEF IsSync, Walks

LEMMA NoDraftIsADraft == IsDraft(NoDraft) /\ NoDraft.gone = {} /\ NoDraft.new = {}
  BY DEF IsDraft, NoDraft, AreRows

(* One worker moves on, and the platform stays as it is.                   *)
LEMMA OneSyncMoves ==
  ASSUME RosterInv, NEW w \in Syncers, NEW t, IsSync(t), sync' = [sync EXCEPT ![w] = t],
         UNCHANGED <<day, listing, place>>, AreRows(enrolled'),
         Walks(t) => Follows(t),
         t.stage # "asleep" => t.wrong = {}
  PROVE  RosterInv'
<1>1. /\ DOMAIN sync' = Syncers /\ sync'[w] = t
      /\ \A v \in Syncers : v # w => sync'[v] = sync[v]
  BY DEF RosterInv, RosterTypeOK
<1>2. RosterTypeOK'
  BY <1>1 DEF RosterInv, RosterTypeOK, AreRows
<1>3. \A v \in Syncers : Walks(sync'[v]) => Follows(sync'[v])
  BY <1>1 DEF RosterInv, WalksFollow
<1>4. WalksFollow'
  BY <1>3 DEF WalksFollow, Follows, Listed, Position, Shown, Walks
<1>5. NobodyListedIsEnded'
  BY <1>1 DEF RosterInv, NobodyListedIsEnded, Stage
<1> QED  BY <1>2, <1>4, <1>5 DEF RosterInv

LEMMA StateOf ==
  ASSUME RosterInv, NEW w \in Syncers
  PROVE  /\ IsSync(sync[w])
         /\ Walks(sync[w]) => Follows(sync[w])
         /\ sync[w].stage # "asleep" => sync[w].wrong = {}
  BY DEF RosterInv, RosterTypeOK, WalksFollow, NobodyListedIsEnded, Stage

(* Positions count members that are there.                                 *)
LEMMA PositionIs ==
  ASSUME place \in [Members -> Nat], NEW m \in Members
  PROVE  /\ Position(m) \in Nat /\ Cardinality(Shown(SectionOf[m])) \in Nat
         /\ Position(m) <= Cardinality(Shown(SectionOf[m]))
         /\ m \in Shown(SectionOf[m]) => Position(m) > 0
<1> DEFINE shown == Shown(SectionOf[m])
           upto == {q \in shown : place[q] <= place[m]}
<1>1. IsFiniteSet(shown)
  BY RosterAssumption, FS_Subset DEF Shown, Of
<1>2. upto \subseteq shown
  OBVIOUS
<1> HIDE DEF shown
<1>3. IsFiniteSet(upto) /\ Cardinality(upto) <= Cardinality(shown)
  BY <1>1, <1>2, FS_Subset
<1>4. Cardinality(upto) \in Nat /\ Cardinality(shown) \in Nat
  BY <1>1, <1>3, FS_CardinalityType
<1>5. m \in shown => Cardinality(upto) # 0
  <2>1. m \in shown => m \in upto
    OBVIOUS
  <2> HIDE DEF upto
  <2> QED  BY <1>3, <2>1, FS_EmptySet
<1>6. Position(m) = Cardinality(upto)
  BY DEF Position, shown
<1> HIDE DEF upto
<1> QED  BY <1>3, <1>4, <1>5, <1>6 DEF shown

(* The pages a walk has behind it hold so many members, and one page more. *)
LEMMA BehindIs ==
  ASSUME NEW p \in Nat \ {0}
  PROVE  /\ (p - 1) * PageSize \in Nat /\ p * PageSize \in Nat
         /\ (p - 1) * PageSize <= p * PageSize
         /\ \A q : q = p + 1 => (q - 1) * PageSize = p * PageSize
<1>1. PageSize \in Nat /\ p \in Nat /\ p - 1 \in Nat
  BY RosterAssumption
<1>2. (p - 1) * PageSize \in Nat /\ p * PageSize \in Nat
  BY <1>1
<1>3. p * PageSize = (p - 1) * PageSize + PageSize
  BY <1>1
<1>4. ASSUME NEW q, q = p + 1 PROVE (q - 1) * PageSize = p * PageSize
  <2>1. q - 1 = p
    BY <1>1, <1>4
  <2> QED  BY <2>1
<1> QED  BY <1>1, <1>2, <1>3, <1>4

LEMMA WalkIs ==
  ASSUME NEW s, NEW c, DOMAIN c = {"left", "draft", "wrong", "went"}, NEW t, t = With(Walking(s), c)
  PROVE
         /\ t.stage = "walking" /\ t.section = s /\ t.page = 1 /\ DOMAIN t.read = {}
         /\ t.whole \in BOOLEAN /\ ~t.whole /\ t.open = {}
         /\ t.away = {m \in Of(s) : ~Listed(m)}
         /\ t.untaught = {m \in Of(s) : listing[m].kind # "teacher"} /\ t.passed = {}
         /\ t.left = c.left /\ t.draft = c.draft /\ t.wrong = c.wrong /\ t.went = c.went
         /\ t = [stage |-> t.stage, section |-> t.section, page |-> t.page, read |-> t.read,
                 whole |-> t.whole, open |-> t.open, away |-> t.away, untaught |-> t.untaught, passed |-> t.passed,
                 left |-> t.left, draft |-> t.draft, wrong |-> t.wrong, went |-> t.went]
<1> DEFINE a == Walking(s)
<1>0. t = With(a, c)
  OBVIOUS
<1>1. DOMAIN a = {"stage", "section", "page", "read", "whole", "open", "away", "untaught", "passed"}
  BY DEF Walking
<1>2. a.away = {m \in Of(s) : ~Listed(m)} /\ a.untaught = {m \in Of(s) : listing[m].kind # "teacher"}
  BY Zenon DEF Walking
<1>3. /\ a.stage = "walking" /\ a.section = s /\ a.page = 1 /\ a.read = << >> /\ a.open = {}
      /\ a.passed = {}
  BY DEF Walking
<1>4. a.whole = FALSE
  BY Zenon DEF Walking
<1>5. DOMAIN a.read = {}
  BY <1>3
<1> HIDE DEF a
<1>6. /\ DOMAIN t = DOMAIN a \cup DOMAIN c
      /\ \A f \in DOMAIN a : t[f] = a[f]
      /\ \A f \in DOMAIN c \ DOMAIN a : t[f] = c[f]
      /\ t = [f \in DOMAIN t |-> t[f]]
  BY <1>0 DEF With
<1>7. t.away = a.away /\ t.untaught = a.untaught /\ t.stage = a.stage /\ t.section = a.section
      /\ t.page = a.page /\ t.read = a.read /\ t.open = a.open /\ t.whole = a.whole
      /\ t.passed = a.passed
  BY <1>1, <1>6
<1>8. t.left = c.left /\ t.draft = c.draft /\ t.wrong = c.wrong /\ t.went = c.went
  BY <1>1, <1>6
<1>9. DOMAIN t = {"stage", "section", "page", "read", "whole", "open", "away", "untaught", "passed",
                  "left", "draft", "wrong", "went"}
  BY <1>1, <1>6
<1>10. t = [stage |-> t.stage, section |-> t.section, page |-> t.page, read |-> t.read,
            whole |-> t.whole, open |-> t.open, away |-> t.away, untaught |-> t.untaught, passed |-> t.passed,
            left |-> t.left, draft |-> t.draft, wrong |-> t.wrong, went |-> t.went]
  BY <1>6, <1>9
<1>11. t.whole \in BOOLEAN /\ ~t.whole
  BY <1>4, <1>7, Zenon
<1> QED  BY <1>2, <1>3, <1>5, <1>7, <1>8, <1>10, <1>11, Zenon

(* A walk that begins has nobody to follow but who is unlisted now.        *)
LEMMA WalkBegins ==
  ASSUME RosterInv, NEW s \in Sections, NEW c, DOMAIN c = {"left", "draft", "wrong", "went"},
         IsDraft(c.draft), NEW t, t = With(Walking(s), c)
  PROVE
         /\ IsSync(t) /\ Walks(t) /\ Follows(t)
         /\ t.stage = "walking" /\ t.section = s
         /\ t.wrong = c.wrong /\ t.left = c.left /\ t.draft = c.draft /\ t.went = c.went
<1>1. /\ t.stage = "walking" /\ t.section = s /\ t.page = 1 /\ DOMAIN t.read = {}
      /\ t.whole \in BOOLEAN /\ ~t.whole /\ t.open = {}
      /\ t.away = {m \in Of(s) : ~Listed(m)}
      /\ t.untaught = {m \in Of(s) : listing[m].kind # "teacher"} /\ t.passed = {}
      /\ t.left = c.left /\ t.draft = c.draft /\ t.wrong = c.wrong /\ t.went = c.went
      /\ t = [stage |-> t.stage, section |-> t.section, page |-> t.page, read |-> t.read,
              whole |-> t.whole, open |-> t.open, away |-> t.away, untaught |-> t.untaught, passed |-> t.passed,
              left |-> t.left, draft |-> t.draft, wrong |-> t.wrong, went |-> t.went]
  BY WalkIs
<1>2. \A m \in Of(s) : Position(m) <= 0 => listing[m].kind = "absent"
  <2>1. ASSUME NEW m \in Of(s) PROVE Position(m) <= 0 => listing[m].kind = "absent"
    <3>1. m \in Members /\ SectionOf[m] = s
      BY DEF Of
    <3>2. Position(m) \in Nat /\ (m \in Shown(s) => Position(m) > 0)
      BY <3>1, PositionIs DEF RosterInv, RosterTypeOK
    <3>3. m \notin Shown(s) => listing[m].kind = "absent"
      BY DEF Shown
    <3> QED  BY <3>2, <3>3
  <2> QED  BY <2>1
<1>3. (1 - 1) * PageSize = 0
  BY RosterAssumption
<1>4. IsWalk(t)
  <2>1. /\ t.section \in Sections /\ t.page \in Nat \ {0}
        /\ DOMAIN t.read \subseteq Of(t.section)
        /\ t.open \subseteq {r \in t.open : IsRow(r) /\ r.to = 0 /\ SectionOf[r.member] = t.section}
    BY <1>1
  <2>2. \A m \in DOMAIN t.read : t.read[m].kind \in Kinds \ {"absent"} /\ t.read[m].ended \in Nat
    BY <1>1, Zenon
  <2> QED  BY <1>1, <2>1, <2>2, Zenon DEF IsWalk
<1>5. Walks(t) /\ IsSync(t)
  BY <1>1, <1>4 DEF IsSync, Walks
<1>6. Follows(t)
  <2> SUFFICES ASSUME NEW m \in Of(s)
               PROVE  /\ ~Listed(m) => m \in t.away
                      /\ listing[m].kind # "teacher" => m \in t.untaught
                      /\ m \notin DOMAIN t.read /\ ~t.whole
                      /\ Position(m) <= 0 => m \in t.away \cap t.untaught
    BY <1>1, <1>3 DEF Follows
  <2> QED  BY <1>1, <1>2 DEF Listed
<1> QED  BY <1>1, <1>3, <1>4, <1>5, <1>6

(* A walk that goes on keeps its section, its draft and what it carries.   *)
LEMMA WalkGoesOn ==
  ASSUME NEW t, IsWalk(t), IsDraft(t.draft), NEW u, NEW stage \in {"walking", "read", "ingesting"},
         NEW page \in Nat \ {0}, NEW read, NEW whole \in BOOLEAN, NEW open, NEW away, NEW untaught, NEW passed,
         u = [stage |-> stage, section |-> t.section, page |-> page, read |-> read, whole |-> whole,
              open |-> open, away |-> away, untaught |-> untaught, passed |-> passed,
              left |-> t.left, draft |-> t.draft, wrong |-> t.wrong, went |-> t.went],
         open \subseteq {r \in open : IsRow(r) /\ r.to = 0 /\ SectionOf[r.member] = t.section},
         DOMAIN read \subseteq Of(t.section),
         \A m \in DOMAIN read : read[m].kind \in Kinds \ {"absent"} /\ read[m].ended \in Nat
  PROVE  /\ IsSync(u) /\ Walks(u)
         /\ u.stage = stage /\ u.section = t.section /\ u.page = page /\ u.read = read /\ u.whole = whole
         /\ u.open = open /\ u.away = away /\ u.untaught = untaught /\ u.passed = passed
         /\ u.left = t.left /\ u.draft = t.draft /\ u.wrong = t.wrong /\ u.went = t.went
<1>1. /\ u.stage = stage /\ u.section = t.section /\ u.page = page /\ u.read = read /\ u.whole = whole
      /\ u.open = open /\ u.away = away /\ u.untaught = untaught /\ u.passed = passed
      /\ u.left = t.left /\ u.draft = t.draft /\ u.wrong = t.wrong /\ u.went = t.went
  OBVIOUS
<1>2. IsWalk(u)
  BY <1>1 DEF IsWalk
<1> QED  BY <1>1, <1>2 DEF IsSync, Walks

(* What the platform does while a worker walks adds to what the walk was   *)
(* told of, and leaves the rest.                                           *)
LEMMA WatchedIs ==
  ASSUME NEW w, NEW t, t = sync[w], IsWalk(t), NEW u, u = Watched(w)
  PROVE  /\ u = [stage |-> t.stage, section |-> t.section, page |-> t.page, read |-> t.read,
                 whole |-> t.whole, open |-> t.open, away |-> u.away, untaught |-> u.untaught, passed |-> u.passed,
                 left |-> t.left, draft |-> t.draft, wrong |-> t.wrong, went |-> t.went]
         /\ u.away = t.away \cup {m \in Of(t.section) : ~Listed(m)'}
         /\ u.untaught = t.untaught \cup {m \in Of(t.section) : listing'[m].kind # "teacher"}
         /\ u.passed = t.passed \cup
               {m \in Of(t.section) \ DOMAIN t.read :
                   Position(m) > (t.page - 1) * PageSize /\ Position(m)' <= (t.page - 1) * PageSize}
<1> DEFINE a == {m \in Of(t.section) : ~Listed(m)'}
           n == {m \in Of(t.section) : listing'[m].kind # "teacher"}
           p == {m \in Of(t.section) \ DOMAIN t.read :
                    Position(m) > (t.page - 1) * PageSize /\ Position(m)' <= (t.page - 1) * PageSize}
<1>1. u = [t EXCEPT !.away = @ \cup a, !.untaught = @ \cup n, !.passed = @ \cup p]
  BY Zenon DEF Watched
<1> HIDE DEF a, n, p
<1>2. /\ u = [stage |-> t.stage, section |-> t.section, page |-> t.page, read |-> t.read,
              whole |-> t.whole, open |-> t.open, away |-> u.away, untaught |-> u.untaught, passed |-> u.passed,
              left |-> t.left, draft |-> t.draft, wrong |-> t.wrong, went |-> t.went]
      /\ u.away = t.away \cup a /\ u.untaught = t.untaught \cup n /\ u.passed = t.passed \cup p
  BY <1>1 DEF IsWalk
<1> QED  BY <1>2 DEF a, n, p

LEMMA WatchedFollows ==
  ASSUME RosterInv, NEW w \in Syncers, Walks(sync[w]), sync'[w] = Watched(w)
  PROVE  /\ IsSync(sync'[w]) /\ Walks(sync'[w]) /\ Follows(sync[w])'
         /\ sync'[w].stage = sync[w].stage /\ sync'[w].wrong = {}
<1> DEFINE t == sync[w]
           u == sync'[w]
           s == t.section
           behind == (t.page - 1) * PageSize
<1>1. IsWalk(t) /\ IsDraft(t.draft) /\ Follows(t) /\ t.wrong = {} /\ t.stage \in {"walking", "read", "ingesting"}
  BY StateOf, SyncShape DEF Walks
<1>2. /\ u = [stage |-> t.stage, section |-> t.section, page |-> t.page, read |-> t.read,
              whole |-> t.whole, open |-> t.open, away |-> u.away, untaught |-> u.untaught, passed |-> u.passed,
              left |-> t.left, draft |-> t.draft, wrong |-> t.wrong, went |-> t.went]
      /\ u.away = t.away \cup {m \in Of(s) : ~Listed(m)'}
      /\ u.untaught = t.untaught \cup {m \in Of(s) : listing'[m].kind # "teacher"}
      /\ u.passed = t.passed \cup
            {m \in Of(s) \ DOMAIN t.read : Position(m) > behind /\ Position(m)' <= behind}
  <2> HIDE DEF t, u
  <2>1. t = sync[w] /\ u = Watched(w)
    BY DEF t, u
  <2> QED  BY <1>1, <2>1, WatchedIs
<1>3. /\ IsSync(u) /\ Walks(u) /\ u.stage = t.stage /\ u.section = s /\ u.page = t.page
      /\ u.read = t.read /\ u.whole = t.whole /\ u.wrong = t.wrong
  <2>1. PICK away, untaught, passed :
          u = [stage |-> t.stage, section |-> t.section, page |-> t.page, read |-> t.read,
               whole |-> t.whole, open |-> t.open, away |-> away, untaught |-> untaught, passed |-> passed,
               left |-> t.left, draft |-> t.draft, wrong |-> t.wrong, went |-> t.went]
    BY <1>2
  <2> HIDE DEF u, t
  <2> QED  BY <1>1, <2>1, WalkGoesOn DEF IsWalk
<1>4. ASSUME NEW m \in Of(s)
      PROVE  /\ ~Listed(m)' => m \in u.away
             /\ listing'[m].kind # "teacher" => m \in u.untaught
             /\ m \in DOMAIN u.read /\ u.read[m].kind \notin {"student", "unreadable"} => m \in u.away
             /\ m \in DOMAIN u.read /\ u.read[m].kind # "teacher" => m \in u.untaught
             /\ m \notin DOMAIN u.read /\ (Position(m)' <= behind \/ u.whole)
                  => m \in u.passed \/ m \in u.away \cap u.untaught
  <2>1. /\ m \in DOMAIN t.read /\ t.read[m].kind \notin {"student", "unreadable"} => m \in t.away
        /\ m \in DOMAIN t.read /\ t.read[m].kind # "teacher" => m \in t.untaught
        /\ m \notin DOMAIN t.read /\ (Position(m) <= behind \/ t.whole)
             => m \in t.passed \/ m \in t.away \cap t.untaught
    BY <1>1 DEF Follows
  <2>2. Position(m) <= behind \/ Position(m) > behind
    <3>1. Position(m) \in Nat
      BY PositionIs DEF Of, RosterInv, RosterTypeOK
    <3>2. behind \in Nat
      BY <1>1, BehindIs DEF IsWalk
    <3> HIDE DEF behind
    <3> QED  BY <3>1, <3>2
  <2> HIDE DEF behind
  <2>3. /\ m \notin DOMAIN t.read /\ Position(m)' <= behind /\ Position(m) > behind => m \in u.passed
        /\ t.away \subseteq u.away /\ t.untaught \subseteq u.untaught /\ t.passed \subseteq u.passed
        /\ ~Listed(m)' => m \in u.away
        /\ listing'[m].kind # "teacher" => m \in u.untaught
    BY <1>2
  <2> HIDE DEF t, u
  <2> QED  BY <1>3, <2>1, <2>2, <2>3
<1>5. Follows(sync[w])'
  <2>1. u.page = t.page /\ u.section = s
    BY <1>3
  <2> QED  BY <1>4, <2>1 DEF Follows, Of
<1> QED  BY <1>1, <1>3, <1>5

(* The platform changes what it says, or in which order it says it.        *)
LEMMA PlatformStep ==
  ASSUME RosterInv, PlatformChanges, place' \in [Members -> Nat],
         DOMAIN listing' = Members, \A m \in Members : listing'[m] \in [kind : Kinds, ended : Nat]
  PROVE  RosterInv'
<1>1. UNCHANGED <<day, enrolled>> /\ DOMAIN sync' = Syncers
  BY DEF PlatformChanges
<1>2. ASSUME NEW w \in Syncers
      PROVE  /\ IsSync(sync'[w]) /\ sync'[w].stage = sync[w].stage
             /\ Walks(sync'[w]) => Follows(sync[w])'
             /\ sync'[w].stage # "asleep" => sync'[w].wrong = {}
  <2>0. /\ IsSync(sync[w]) /\ sync[w].stage \in {"asleep", "between", "walking", "read", "ingesting"}
        /\ sync[w].stage # "asleep" => sync[w].wrong = {}
    BY StateOf, SyncShape
  <2>1. CASE sync[w].stage \in {"asleep", "between"}
    <3>1. sync'[w] = sync[w]
      BY <2>1 DEF PlatformChanges, Stage
    <3> QED  BY <2>0, <2>1, <3>1 DEF Walks
  <2>2. CASE ~(sync[w].stage \in {"asleep", "between"})
    <3>1. sync'[w] = Watched(w)
      BY <2>2 DEF PlatformChanges, Stage
    <3>2. Walks(sync[w])
      BY <2>0, <2>2 DEF Walks
    <3> QED  BY <3>1, <3>2, WatchedFollows
  <2> QED  BY <2>1, <2>2
<1>3. RosterTypeOK'
  BY <1>1, <1>2 DEF RosterInv, RosterTypeOK, AreRows
<1>4. WalksFollow' /\ NobodyListedIsEnded'
  BY <1>2 DEF WalksFollow, NobodyListedIsEnded, Stage, Walks
<1> QED  BY <1>3, <1>4 DEF RosterInv

LEMMA ListingStep ==
  ASSUME RosterInv, NEW m \in Members, NEW said \in Listings[m], ChangeListing(m, said)
  PROVE  RosterInv'
<1>1. listing' = [listing EXCEPT ![m] = said] /\ place' = place /\ PlatformChanges
  BY DEF ChangeListing
<1>2. said \in [kind : Kinds, ended : Nat]
  BY RosterAssumption DEF Kinds
<1>3. /\ place' \in [Members -> Nat] /\ DOMAIN listing' = Members
      /\ \A k \in Members : listing'[k] \in [kind : Kinds, ended : Nat]
  BY <1>1, <1>2 DEF RosterInv, RosterTypeOK
<1> QED  BY <1>1, <1>3, PlatformStep

LEMMA ReorderStep ==
  ASSUME RosterInv, NEW m \in Members, NEW q \in Members, Reorder(m, q)
  PROVE  RosterInv'
<1>1. place' = [place EXCEPT ![m] = place[q], ![q] = place[m]] /\ listing' = listing /\ PlatformChanges
  BY DEF Reorder
<1>2. /\ place' \in [Members -> Nat] /\ DOMAIN listing' = Members
      /\ \A k \in Members : listing'[k] \in [kind : Kinds, ended : Nat]
  BY <1>1 DEF RosterInv, RosterTypeOK
<1> QED  BY <1>1, <1>2, PlatformStep

(* What a pull closes and which grants it ends was not listed, or not as a *)
(* teacher, at some moment of the walk, or moved onto a page it had read.  *)
LEMMA IngestRight ==
  ASSUME RosterInv, NEW w \in Syncers, Stage(w) = "ingesting"
  PROVE  /\ Holders(Closing(w)) \subseteq sync[w].away \cup sync[w].passed
         /\ EndedGrants(w) \subseteq sync[w].untaught \cup sync[w].passed
<1> DEFINE t == sync[w]
<1>1. Walks(t) /\ IsWalk(t) /\ Follows(t)
  BY StateOf, SyncShape DEF Stage, Walks
<1>2. ASSUME NEW r \in Closing(w) PROVE r.member \in t.away \cup t.passed
  <2> DEFINE m == r.member
  <2>1. r \in t.open /\ ClosedOn(w, r) # 0
    BY DEF Closing
  <2>2. m \in Of(t.section)
    BY <1>1, <2>1 DEF IsWalk, IsRow, Of
  <2>3. \/ m \in DOMAIN t.read /\ t.read[m].kind \in {"dropped", "teacher"}
        \/ m \notin DOMAIN t.read /\ t.whole
    BY <2>1 DEF ClosedOn, ReadAs, Read, AbsentClosed
  <2> QED  BY <1>1, <2>2, <2>3 DEF Follows
<1>3. ASSUME NEW m \in EndedGrants(w) PROVE m \in t.untaught \cup t.passed
  <2>1. m \in Of(t.section) /\ t.whole /\ ~(m \in DOMAIN t.read /\ t.read[m].kind = "teacher")
    BY DEF EndedGrants, ReadAs, Read
  <2> QED  BY <1>1, <2>1 DEF Follows
<1> QED  BY <1>2, <1>3 DEF Holders

(* What a pull writes are rows.                                            *)
LEMMA NewRowsAreRows ==
  ASSUME RosterInv, NEW w \in Syncers, Stage(w) = "ingesting"
  PROVE  /\ AreRows(NewRows(w)) /\ AreRows(Gone(w))
         /\ \A r \in sync[w].open : ClosedOn(w, r) \in Nat
<1> DEFINE t == sync[w]
<1>1. Walks(t) /\ IsWalk(t) /\ day \in Nat \ {0} /\ AreRows(enrolled)
  BY StateOf, SyncShape DEF Stage, Walks, RosterInv, RosterTypeOK
<1>2. ASSUME NEW r \in t.open PROVE ClosedOn(w, r) \in Nat
  <2>1. r.from \in Nat \ {0} /\ day - 1 \in Nat
    BY <1>1 DEF IsWalk, IsRow
  <2>2. Max({r.from, day - 1}) \in Nat
    <3>1. \E x \in {r.from, day - 1} : \A y \in {r.from, day - 1} : x >= y
      <4>1. CASE r.from >= day - 1
        BY <2>1, <4>1
      <4>2. CASE ~(r.from >= day - 1)
        <5>1. day - 1 >= r.from /\ day - 1 >= day - 1
          BY <1>1, <2>1, <4>2
        <5> QED  BY <5>1
      <4> QED  BY <4>1, <4>2
    <3>2. Max({r.from, day - 1}) \in {r.from, day - 1}
      BY <3>1 DEF Max
    <3> QED  BY <2>1, <3>2
  <2>3. \A m \in ReadAs(w, "dropped") : t.read[m].ended \in Nat
    BY <1>1 DEF IsWalk, ReadAs, Read
  <2> QED  BY <1>1, <2>2, <2>3 DEF ClosedOn, Read
<1>3. ASSUME NEW c \in Closing(w) PROVE IsRow([c EXCEPT !.to = ClosedOn(w, c)])
  <2>1. c \in t.open /\ IsRow(c)
    BY <1>1 DEF Closing, IsWalk
  <2>2. ClosedOn(w, c) \in Nat
    BY <1>2, <2>1
  <2>3. [c EXCEPT !.to = ClosedOn(w, c)] = [member |-> c.member, from |-> c.from, to |-> ClosedOn(w, c)]
    BY <2>1 DEF IsRow
  <2> QED  BY <2>1, <2>2, <2>3 DEF IsRow
<1>4. ASSUME NEW m \in Opening(w) PROVE IsRow([member |-> m, from |-> day, to |-> 0])
  <2>1. m \in Members
    BY <1>1 DEF Opening, ReadAs, Read, IsWalk, Of
  <2> QED  BY <1>1, <2>1 DEF IsRow
<1>5. AreRows(NewRows(w))
  BY <1>3, <1>4 DEF NewRows, AreRows
<1>6. AreRows(Gone(w))
  BY <1>1 DEF Gone, AreRows
<1> QED  BY <1>2, <1>5, <1>6

LEMMA RosterInvInit == RosterInit => RosterInv
<1> SUFFICES ASSUME RosterInit PROVE RosterInv
  OBVIOUS
<1>1. \A w \in Syncers : sync[w] = Asleep
  BY DEF RosterInit
<1>2. RosterTypeOK
  <2>1. \A m \in Members : listing[m] \in Listings[m] /\ DOMAIN listing = Members
    BY DEF RosterInit
  <2>2. \A m \in Members : listing[m] \in [kind : Kinds, ended : Nat]
    BY <2>1, RosterAssumption DEF Kinds
  <2>3. DOMAIN listing = Members
    BY DEF RosterInit
  <2>4. AreRows(enrolled)
    BY DEF RosterInit, AreRows, IsRow
  <2>5. DOMAIN sync = Syncers /\ day = 1
    BY DEF RosterInit
  <2>6. place \in [Members -> Nat]
    <3>1. place \in [Members -> 1..Cardinality(Members)] /\ 1..Cardinality(Members) \subseteq Nat
      BY DEF RosterInit
    <3> QED  BY <3>1
  <2> QED  BY <1>1, <2>2, <2>3, <2>4, <2>5, <2>6, AsleepIs DEF RosterTypeOK
<1>3. WalksFollow /\ NobodyListedIsEnded
  BY <1>1, AsleepIs DEF WalksFollow, NobodyListedIsEnded, Stage
<1> QED  BY <1>2, <1>3 DEF RosterInv

LEMMA FreshIs ==
  ASSUME NEW left
  PROVE  /\ DOMAIN Fresh(left) = {"left", "draft", "wrong", "went"}
         /\ Fresh(left).left = left /\ Fresh(left).draft = NoDraft
         /\ Fresh(left).wrong = {} /\ Fresh(left).went = {}
         /\ With([stage |-> "between"], Fresh(left))
              = [stage |-> "between", left |-> left, draft |-> NoDraft, wrong |-> {}, went |-> {}]
  BY DEF Fresh, With

(* The next page of a walk.                                                *)
LEMMA PageStep ==
  ASSUME RosterInv, NEW w \in Syncers, ReadPage(w)
  PROVE  IsSync(sync'[w]) /\ Walks(sync'[w]) /\ Follows(sync'[w]) /\ sync'[w].wrong = {}
<1> DEFINE t == sync[w]
           s == t.section
<1>1. t.stage = "walking" /\ IsWalk(t) /\ IsDraft(t.draft) /\ Follows(t) /\ t.wrong = {}
  BY StateOf, SyncShape DEF ReadPage, Stage, Walks
<1>2. s \in Sections /\ t.page \in Nat \ {0}
  BY <1>1 DEF IsWalk
<1> DEFINE behind == (t.page - 1) * PageSize
           upto == t.page * PageSize
           here == Page(s, t.page)
           read == With(t.read, here)
           last == Cardinality(Shown(s)) <= upto
           page == IF last THEN t.page ELSE t.page + 1
           stage == IF last THEN "read" ELSE "walking"
<1>3. sync' = [sync EXCEPT ![w] = [t EXCEPT !.read = read, !.page = page, !.stage = stage, !.whole = last]]
  BY Zenon DEF ReadPage, Deduplicated
<1>4. /\ last \in BOOLEAN /\ read = With(t.read, here)
      /\ last <=> Cardinality(Shown(s)) <= upto
      /\ page = IF last THEN t.page ELSE t.page + 1
      /\ stage = IF last THEN "read" ELSE "walking"
  OBVIOUS
<1>5. behind \in Nat /\ upto \in Nat /\ (\A q : q = t.page + 1 => (q - 1) * PageSize = upto)
  BY <1>2, BehindIs
<1>6. /\ DOMAIN here = {m \in Shown(s) : Position(m) \in behind + 1 .. upto}
      /\ \A m \in DOMAIN here : here[m] = listing[m]
  BY DEF Page
<1>7. behind = (t.page - 1) * PageSize
  OBVIOUS
<1> HIDE DEF here, read, last, page, stage, behind, upto
<1>8. sync'[w] = [t EXCEPT !.read = read, !.page = page, !.stage = stage, !.whole = last]
  BY <1>3 DEF RosterInv, RosterTypeOK
<1>9. sync'[w] = [stage |-> stage, section |-> s, page |-> page, read |-> read, whole |-> last,
                  open |-> t.open, away |-> t.away, untaught |-> t.untaught, passed |-> t.passed,
                  left |-> t.left, draft |-> t.draft, wrong |-> t.wrong, went |-> t.went]
  BY <1>1, <1>8 DEF IsWalk
<1>11. /\ DOMAIN read = DOMAIN here \cup DOMAIN t.read
       /\ \A m \in DOMAIN t.read : read[m] = t.read[m]
       /\ \A m \in DOMAIN here \ DOMAIN t.read : read[m] = listing[m]
  <2>1. /\ DOMAIN With(t.read, here) = DOMAIN t.read \cup DOMAIN here
        /\ \A m \in DOMAIN t.read : With(t.read, here)[m] = t.read[m]
        /\ \A m \in DOMAIN here \ DOMAIN t.read : With(t.read, here)[m] = here[m]
    BY WithIs
  <2> QED  BY <1>4, <1>6, <2>1
<1>12. /\ DOMAIN read \subseteq Of(s)
       /\ \A m \in DOMAIN read : read[m].kind \in Kinds \ {"absent"} /\ read[m].ended \in Nat
  <2>1. DOMAIN read \subseteq Of(s)
    BY <1>1, <1>6, <1>11 DEF IsWalk, Shown
  <2>2. \A m \in Members : listing[m].kind \in Kinds /\ listing[m].ended \in Nat
    BY DEF RosterInv, RosterTypeOK
  <2>3. \A m \in DOMAIN t.read : t.read[m].kind \in Kinds \ {"absent"} /\ t.read[m].ended \in Nat
    BY <1>1 DEF IsWalk
  <2> QED  BY <1>6, <1>11, <2>1, <2>2, <2>3 DEF Of, Shown
<1>13. page \in Nat \ {0} /\ stage \in {"walking", "read", "ingesting"}
  BY <1>2, <1>4
<1>14. t.open \subseteq {r \in t.open : IsRow(r) /\ r.to = 0 /\ SectionOf[r.member] = s}
  BY <1>1 DEF IsWalk
<1> DEFINE u == sync'[w]
<1>15. /\ IsSync(u) /\ Walks(u) /\ u.section = s /\ u.page = page /\ u.read = read /\ u.whole = last
       /\ u.away = t.away /\ u.untaught = t.untaught /\ u.passed = t.passed /\ u.wrong = t.wrong
  <2>1. page \in Nat \ {0} /\ stage \in {"walking", "read", "ingesting"} /\ last \in BOOLEAN
    BY <1>4, <1>13
  <2>2. IsWalk(t) /\ IsDraft(t.draft)
    BY <1>1
  <2>3. /\ u = [stage |-> stage, section |-> t.section, page |-> page, read |-> read, whole |-> last,
                open |-> t.open, away |-> t.away, untaught |-> t.untaught, passed |-> t.passed,
                left |-> t.left, draft |-> t.draft, wrong |-> t.wrong, went |-> t.went]
        /\ t.open \subseteq {r \in t.open : IsRow(r) /\ r.to = 0 /\ SectionOf[r.member] = t.section}
        /\ DOMAIN read \subseteq Of(t.section)
        /\ \A m \in DOMAIN read : read[m].kind \in Kinds \ {"absent"} /\ read[m].ended \in Nat
    BY <1>9, <1>12, <1>14
  <2> HIDE DEF t, u
  <2> QED  BY <2>1, <2>2, <2>3, WalkGoesOn
<1>16. ASSUME NEW m \in Of(s)
       PROVE  /\ ~Listed(m) => m \in u.away
              /\ listing[m].kind # "teacher" => m \in u.untaught
              /\ m \in DOMAIN u.read /\ u.read[m].kind \notin {"student", "unreadable"} => m \in u.away
              /\ m \in DOMAIN u.read /\ u.read[m].kind # "teacher" => m \in u.untaught
              /\ m \notin DOMAIN u.read /\ (Position(m) <= (u.page - 1) * PageSize \/ u.whole)
                   => m \in u.passed \/ m \in u.away \cap u.untaught
  <2>1. /\ ~Listed(m) => m \in t.away
        /\ listing[m].kind # "teacher" => m \in t.untaught
        /\ m \in DOMAIN t.read /\ t.read[m].kind \notin {"student", "unreadable"} => m \in t.away
        /\ m \in DOMAIN t.read /\ t.read[m].kind # "teacher" => m \in t.untaught
        /\ m \notin DOMAIN t.read /\ (Position(m) <= behind \/ t.whole)
             => m \in t.passed \/ m \in t.away \cap t.untaught
    BY <1>1, <1>7 DEF Follows
  <2>2. /\ m \in DOMAIN read /\ read[m].kind \notin {"student", "unreadable"} => m \in t.away
        /\ m \in DOMAIN read /\ read[m].kind # "teacher" => m \in t.untaught
    BY <1>11, <2>1 DEF Listed
  <2>3. Position(m) \in Nat /\ Position(m) <= Cardinality(Shown(s)) /\ Cardinality(Shown(s)) \in Nat
    BY PositionIs DEF Of, RosterInv, RosterTypeOK
  <2>4. ASSUME m \notin DOMAIN read, Position(m) <= upto
        PROVE  m \in t.passed \/ m \in t.away \cap t.untaught
    <3>1. CASE Position(m) <= behind
      BY <1>11, <2>1, <2>4, <3>1
    <3>2. CASE ~(Position(m) <= behind)
      <4>1. Position(m) \in behind + 1 .. upto
        BY <1>5, <2>3, <2>4, <3>2
      <4>2. listing[m].kind = "absent"
        BY <1>6, <1>11, <2>4, <4>1 DEF Shown
      <4> QED  BY <2>1, <4>2 DEF Listed
    <3> QED  BY <3>1, <3>2
  <2>5. ASSUME Position(m) <= (page - 1) * PageSize \/ last
        PROVE  Position(m) <= upto
    <3>1. CASE last
      BY <1>4, <1>5, <2>3, <3>1
    <3>2. CASE ~last
      <4>1. page = t.page + 1
        BY <1>4, <3>2
      <4>2. (page - 1) * PageSize = upto
        BY <1>5, <4>1
      <4> QED  BY <2>5, <3>2, <4>2
    <3> QED  BY <3>1, <3>2
  <2> HIDE DEF t, u
  <2> QED  BY <1>15, <2>1, <2>2, <2>4, <2>5
<1>17. Follows(u)
  BY <1>15, <1>16 DEF Follows
<1> QED  BY <1>1, <1>15, <1>17

(* What a section leaves behind is a draft, and a round goes on between    *)
(* sections.                                                               *)
LEMMA BetweenStep ==
  ASSUME RosterInv, NEW w \in Syncers, Walks(sync[w]), NEW t, t = Between(w)
  PROVE  IsSync(t) /\ ~Walks(t) /\ t.wrong = {}
<1>1. IsDraft(sync[w].draft) /\ sync[w].wrong = {}
  BY StateOf, SyncShape DEF Walks
<1> QED  BY <1>1, BetweenIs, BetweenSync

LEMMA FailedStep ==
  ASSUME RosterInv, NEW w \in Syncers, Walks(sync[w]), NEW t, t = Failed(w)
  PROVE  IsSync(t) /\ ~Walks(t) /\ (t.stage # "asleep" => t.wrong = {})
<1>1. IsDraft(sync[w].draft) /\ sync[w].wrong = {}
  BY StateOf, SyncShape DEF Walks
<1>2. CASE w \in Beats
  <2>1. PICK went : t = [Between(w) EXCEPT !.went = went]
    BY <1>2 DEF Failed, SectionFailed
  <2>2. t = [stage |-> "between", left |-> sync[w].left, draft |-> sync[w].draft,
             wrong |-> sync[w].wrong, went |-> went]
    BY <2>1, BetweenIs
  <2> QED  BY <1>1, <2>2, BetweenSync
<1>3. CASE w \notin Beats
  BY <1>3, AsleepIs DEF Failed
<1> QED  BY <1>2, <1>3

(* What a section that went well leaves behind.                            *)
LEMMA AppliedIs ==
  ASSUME NEW w, NEW t, t = Applied(w)
  PROVE  /\ t = [stage |-> "between", left |-> t.left, draft |-> t.draft, wrong |-> t.wrong, went |-> t.went]
         /\ t.left = sync[w].left
         /\ t.draft = [gone |-> sync[w].draft.gone \cup Gone(w), new |-> sync[w].draft.new \cup NewRows(w),
                        granted |-> sync[w].draft.granted \cup Granted(w),
                        ended |-> sync[w].draft.ended \cup EndedGrants(w)]
         /\ t.wrong = sync[w].wrong \cup (Holders(Closing(w)) \ (sync[w].away \cup sync[w].passed))
                         \cup (EndedGrants(w) \ (sync[w].untaught \cup sync[w].passed))
         /\ t.went = sync[w].went \cup {Reading(w, TRUE)}
<1> DEFINE g == Gone(w)
           n == NewRows(w)
           gr == Granted(w)
           e == EndedGrants(w)
           h == Holders(Closing(w))
           r == Reading(w, TRUE)
           b == Between(w)
           x == sync[w].away \cup sync[w].passed
           y == sync[w].untaught \cup sync[w].passed
<1>1. t = [b EXCEPT !.draft = [gone |-> @.gone \cup g, new |-> @.new \cup n,
                               granted |-> @.granted \cup gr, ended |-> @.ended \cup e],
                    !.wrong = @ \cup (h \ x) \cup (e \ y),
                    !.went = @ \cup {r}]
  BY Zenon DEF Applied
<1>2. b = [stage |-> "between", left |-> sync[w].left, draft |-> sync[w].draft,
           wrong |-> sync[w].wrong, went |-> sync[w].went]
  BY BetweenIs
<1> HIDE DEF g, n, gr, e, h, r, b, x, y
<1>3. /\ t = [stage |-> "between", left |-> t.left, draft |-> t.draft, wrong |-> t.wrong, went |-> t.went]
      /\ t.left = sync[w].left
      /\ t.draft = [gone |-> sync[w].draft.gone \cup g, new |-> sync[w].draft.new \cup n,
                     granted |-> sync[w].draft.granted \cup gr, ended |-> sync[w].draft.ended \cup e]
      /\ t.wrong = sync[w].wrong \cup (h \ x) \cup (e \ y)
      /\ t.went = sync[w].went \cup {r}
  BY <1>1, <1>2
<1> QED  BY <1>3 DEF g, n, gr, e, h, r, x, y

LEMMA AppliedStep ==
  ASSUME RosterInv, NEW w \in Syncers, Stage(w) = "ingesting", NEW t, t = Applied(w)
  PROVE  IsSync(t) /\ ~Walks(t) /\ t.wrong = {}
<1>1. IsDraft(sync[w].draft) /\ sync[w].wrong = {}
  BY StateOf, SyncShape DEF Walks, Stage
<1>0. /\ t = [stage |-> "between", left |-> t.left, draft |-> t.draft, wrong |-> t.wrong, went |-> t.went]
      /\ t.draft = [gone |-> sync[w].draft.gone \cup Gone(w), new |-> sync[w].draft.new \cup NewRows(w),
                     granted |-> sync[w].draft.granted \cup Granted(w),
                     ended |-> sync[w].draft.ended \cup EndedGrants(w)]
      /\ t.wrong = sync[w].wrong \cup (Holders(Closing(w)) \ (sync[w].away \cup sync[w].passed))
                      \cup (EndedGrants(w) \ (sync[w].untaught \cup sync[w].passed))
  BY AppliedIs, Zenon
<1>2. IsDraft(t.draft)
  BY <1>0, <1>1, NewRowsAreRows DEF IsDraft, AreRows
<1>3. t.wrong = {}
  BY <1>0, <1>1, IngestRight
<1>4. PICK left, draft, wrong, went :
        t = [stage |-> "between", left |-> left, draft |-> draft, wrong |-> wrong, went |-> went]
  BY <1>0
<1>5. IsDraft(draft)
  BY <1>2, <1>4
<1> QED  BY <1>3, <1>4, <1>5, BetweenSync

(* Neither the platform nor a worker moves.                                *)
LEMMA RosterStill ==
  ASSUME RosterInv, day' \in Nat \ {0}, UNCHANGED <<listing, place, enrolled, sync>>
  PROVE  RosterInv'
<1>1. ASSUME NEW w \in Syncers, Walks(sync[w]) PROVE Follows(sync[w])'
  <2>1. Follows(sync[w])
    BY <1>1, StateOf
  <2>2. \A m \in Members : Position(m)' = Position(m) /\ Listed(m)' = Listed(m)
    BY DEF Position, Shown, Listed
  <2> QED  BY <2>1, <2>2 DEF Follows, Of
<1>2. WalksFollow' /\ NobodyListedIsEnded'
  BY <1>1 DEF RosterInv, WalksFollow, NobodyListedIsEnded, Stage, Walks
<1>3. RosterTypeOK'
  BY DEF RosterInv, RosterTypeOK, AreRows
<1> QED  BY <1>2, <1>3 DEF RosterInv

LEMMA RosterStep == RosterInv /\ [RosterNext]_rosterVars => RosterInv'
<1> SUFFICES ASSUME RosterInv, [RosterNext]_rosterVars PROVE RosterInv'
  OBVIOUS
<1> USE DEF unsynced, standing
<1>0. AreRows(enrolled)
  BY DEF RosterInv, RosterTypeOK
<1>1. ASSUME NEW m \in Members, NEW said \in Listings[m], ChangeListing(m, said)
      PROVE  RosterInv'
  BY <1>1, ListingStep
<1>15. ASSUME NEW m \in Members, NEW q \in Members, Reorder(m, q)
       PROVE  RosterInv'
  BY <1>15, ReorderStep
<1>2. CASE NextDay
  <2>1. day' \in Nat \ {0} /\ UNCHANGED <<listing, place, enrolled, sync>>
    BY <1>2 DEF NextDay, RosterInv, RosterTypeOK
  <2> QED  BY <2>1, RosterStill
<1>3. ASSUME NEW w \in Syncers, StartRound(w)
      PROVE  RosterInv'
  <2>1. PICK t : t = [stage |-> "between", left |-> Sections, draft |-> NoDraft, wrong |-> {}, went |-> {}]
    OBVIOUS
  <2>2. sync' = [sync EXCEPT ![w] = t] /\ UNCHANGED <<day, listing, place, enrolled>>
    BY <1>3, <2>1, FreshIs DEF StartRound
  <2>3. IsSync(t) /\ ~Walks(t) /\ t.wrong = {}
    BY <2>1, BetweenSync, NoDraftIsADraft
  <2> QED  BY <1>0, <2>2, <2>3, OneSyncMoves
<1>4. ASSUME NEW w \in Syncers, NEW s \in Sections, NextSection(w, s)
      PROVE  RosterInv'
  <2>1. PICK c : c = [Carried(w) EXCEPT !.left = @ \ {s}]
    OBVIOUS
  <2>2. PICK t : t = With(Walking(s), c)
    OBVIOUS
  <2>3. sync' = [sync EXCEPT ![w] = t] /\ UNCHANGED <<day, listing, place, enrolled>>
    BY <1>4, <2>1, <2>2 DEF NextSection
  <2>4. IsDraft(sync[w].draft) /\ sync[w].wrong = {}
    BY <1>4, StateOf, SyncShape DEF NextSection, Stage
  <2>5. DOMAIN c = {"left", "draft", "wrong", "went"} /\ c.draft = sync[w].draft /\ c.wrong = sync[w].wrong
    BY <2>1 DEF Carried
  <2>6. IsSync(t) /\ Follows(t) /\ t.wrong = {}
    BY <2>2, <2>4, <2>5, WalkBegins
  <2> QED  BY <1>0, <2>3, <2>6, OneSyncMoves
<1>5. ASSUME NEW w \in Syncers, NEW s \in Sections, StartTask(w, s)
      PROVE  RosterInv'
  <2>1. PICK t : t = With(Walking(s), Fresh({}))
    OBVIOUS
  <2>2. sync' = [sync EXCEPT ![w] = t] /\ UNCHANGED <<day, listing, place, enrolled>>
    BY <1>5, <2>1 DEF StartTask
  <2>3. PICK c : c = Fresh({})
    OBVIOUS
  <2>4. DOMAIN c = {"left", "draft", "wrong", "went"} /\ c.draft = NoDraft /\ c.wrong = {}
    BY <2>3, FreshIs
  <2>5. IsSync(t) /\ Follows(t) /\ t.wrong = {}
    BY <2>1, <2>3, <2>4, NoDraftIsADraft, WalkBegins
  <2> QED  BY <1>0, <2>2, <2>5, OneSyncMoves
<1>6. ASSUME NEW w \in Syncers, GetNoToken(w)
      PROVE  RosterInv'
  <2>1. PICK t : t = Between(w)
    OBVIOUS
  <2>2. sync' = [sync EXCEPT ![w] = t] /\ UNCHANGED <<day, listing, place, enrolled>> /\ Walks(sync[w])
    BY <1>6, <2>1 DEF GetNoToken, Walks, Stage
  <2> QED  BY <1>0, <2>1, <2>2, BetweenStep, OneSyncMoves
<1>7. ASSUME NEW w \in Syncers, ReadPage(w)
      PROVE  RosterInv'
  <2>1. PICK t : sync' = [sync EXCEPT ![w] = t]
    BY <1>7 DEF ReadPage
  <2>2. t = sync'[w] /\ UNCHANGED <<day, listing, place, enrolled>>
    BY <1>7, <2>1 DEF ReadPage, RosterInv, RosterTypeOK
  <2> QED  BY <1>0, <1>7, <2>1, <2>2, PageStep, OneSyncMoves
<1>8. ASSUME NEW w \in Syncers, FailPage(w)
      PROVE  RosterInv'
  <2> DEFINE u == sync[w]
  <2>1. IsWalk(u) /\ IsDraft(u.draft) /\ u.wrong = {} /\ Follows(u)
    BY <1>8, StateOf, SyncShape DEF FailPage, Stage, Walks
  <2>2. PICK t : t = [u EXCEPT !.stage = "read"]
    OBVIOUS
  <2>3. sync' = [sync EXCEPT ![w] = t] /\ UNCHANGED <<day, listing, place, enrolled>>
    BY <1>8, <2>2 DEF FailPage
  <2>4. t = [stage |-> "read", section |-> u.section, page |-> u.page, read |-> u.read, whole |-> u.whole,
             open |-> u.open, away |-> u.away, untaught |-> u.untaught, passed |-> u.passed,
             left |-> u.left, draft |-> u.draft, wrong |-> u.wrong, went |-> u.went]
    BY <2>1, <2>2 DEF IsWalk
  <2>5. /\ IsSync(t) /\ t.section = u.section /\ t.page = u.page /\ t.read = u.read /\ t.whole = u.whole
        /\ t.away = u.away /\ t.untaught = u.untaught /\ t.passed = u.passed /\ t.wrong = u.wrong
    <3> HIDE DEF u
    <3> QED  BY <2>1, <2>4, WalkGoesOn DEF IsWalk
  <2>6. Follows(t)
    BY <2>1, <2>5 DEF Follows
  <2> QED  BY <1>0, <2>1, <2>3, <2>5, <2>6, OneSyncMoves
<1>9. ASSUME NEW w \in Syncers, RefuseSection(w)
      PROVE  RosterInv'
  <2>1. PICK t : t = Failed(w)
    OBVIOUS
  <2>2. sync' = [sync EXCEPT ![w] = t] /\ UNCHANGED <<day, listing, place, enrolled>> /\ Walks(sync[w])
    BY <1>9, <2>1 DEF RefuseSection, Walks, Stage
  <2> QED  BY <1>0, <2>1, <2>2, FailedStep, OneSyncMoves
<1>10. ASSUME NEW w \in Syncers, ReadOpen(w)
       PROVE  RosterInv'
  <2> DEFINE u == sync[w]
             open == Open(RowsIn(u.section, enrolled))
  <2>1. IsWalk(u) /\ IsDraft(u.draft) /\ u.wrong = {} /\ Follows(u)
    BY <1>10, StateOf, SyncShape DEF ReadOpen, Stage, Walks
  <2>2. PICK t : t = [u EXCEPT !.stage = "ingesting", !.open = open]
    OBVIOUS
  <2>3. sync' = [sync EXCEPT ![w] = t] /\ UNCHANGED <<day, listing, place, enrolled>>
    BY <1>10, <2>2 DEF ReadOpen
  <2>4. open \subseteq {r \in open : IsRow(r) /\ r.to = 0 /\ SectionOf[r.member] = u.section}
    BY <1>0 DEF Open, RowsIn, AreRows
  <2>5. t = [stage |-> "ingesting", section |-> u.section, page |-> u.page, read |-> u.read, whole |-> u.whole,
             open |-> open, away |-> u.away, untaught |-> u.untaught, passed |-> u.passed,
             left |-> u.left, draft |-> u.draft, wrong |-> u.wrong, went |-> u.went]
    <3> HIDE DEF open
    <3> QED  BY <2>1, <2>2 DEF IsWalk
  <2>6. /\ IsSync(t) /\ t.section = u.section /\ t.page = u.page /\ t.read = u.read /\ t.whole = u.whole
        /\ t.away = u.away /\ t.untaught = u.untaught /\ t.passed = u.passed /\ t.wrong = u.wrong
    <3> HIDE DEF u, open
    <3> QED  BY <2>1, <2>4, <2>5, WalkGoesOn DEF IsWalk
  <2>7. Follows(t)
    BY <2>1, <2>6 DEF Follows
  <2> QED  BY <1>0, <2>1, <2>3, <2>6, <2>7, OneSyncMoves
<1>11. ASSUME NEW w \in Syncers, Ingest(w)
       PROVE  RosterInv'
  <2>1. Stage(w) = "ingesting" /\ Walks(sync[w]) /\ UNCHANGED <<day, listing, place, enrolled>>
    BY <1>11 DEF Ingest, Walks, Stage
  <2>2. CASE Refused(w)
    <3>1. PICK t : t = Failed(w)
      OBVIOUS
    <3>2. sync' = [sync EXCEPT ![w] = t]
      BY <1>11, <2>2, <3>1 DEF Ingest
    <3> QED  BY <1>0, <2>1, <3>1, <3>2, FailedStep, OneSyncMoves
  <2>3. CASE ~Refused(w)
    <3>1. PICK t : t = Applied(w)
      OBVIOUS
    <3>2. sync' = [sync EXCEPT ![w] = t]
      BY <1>11, <2>3, <3>1 DEF Ingest
    <3> QED  BY <1>0, <2>1, <3>1, <3>2, AppliedStep, OneSyncMoves
  <2> QED  BY <2>2, <2>3
<1>12. ASSUME NEW w \in Syncers, CommitSync(w)
       PROVE  RosterInv'
  <2>1. sync' = [sync EXCEPT ![w] = Asleep] /\ UNCHANGED <<day, listing, place>>
    BY <1>12 DEF CommitSync
  <2>2. IsDraft(sync[w].draft)
    BY <1>12, StateOf, SyncShape DEF CommitSync, Stage
  <2>3. AreRows(enrolled')
    BY <1>0, <1>12, <2>2 DEF CommitSync, IsDraft, AreRows
  <2> QED  BY <2>1, <2>3, AsleepIs, OneSyncMoves
<1>13. ASSUME NEW w \in Syncers, LoseSync(w)
       PROVE  RosterInv'
  <2>1. sync' = [sync EXCEPT ![w] = Asleep] /\ UNCHANGED <<day, listing, place, enrolled>>
    BY <1>13 DEF LoseSync
  <2> QED  BY <1>0, <2>1, AsleepIs, OneSyncMoves
<1>14. CASE UNCHANGED rosterVars
  BY <1>14, RosterStill DEF rosterVars, RosterInv, RosterTypeOK
<1> QED
  BY <1>1, <1>2, <1>3, <1>4, <1>5, <1>6, <1>7, <1>8, <1>9, <1>10, <1>11, <1>12, <1>13, <1>14, <1>15 DEF RosterNext

(* Whatever pulls overlap, fail or die, and however the members shift      *)
(* between the pages, no pull of a section ends the place or the teaching  *)
(* grant of somebody the platform listed all the while the section was     *)
(* walked and never moved from a page still to come onto one that had been *)
(* read (roster_sync.py:1573 and 1161).                                    *)
THEOREM NobodyListedLosesAPlace == RosterSpec => []NobodyListedIsEnded
<1>1. RosterInv => NobodyListedIsEnded
  BY DEF RosterInv
<1> QED  BY <1>1, RosterInvInit, RosterStep, PTL DEF RosterSpec

-----------------------------------------------------------------------------
(* What a worker wrote and did not commit.                                 *)
Written(t) == IF t.stage = "asleep" THEN {} ELSE t.draft.gone \cup t.draft.new

(* No two of them wrote to one section: the second waits for the first.    *)
WritersApart ==
    \A v, w \in Syncers : v # w =>
        \A p \in Written(sync[v]), q \in Written(sync[w]) : SectionOf[p.member] # SectionOf[q.member]

(* A round reads a section once, and writes to those it has read.          *)
VisitsOnce(t) ==
    /\ \A r \in t.went : r.section \notin t.left
    /\ Walks(t) => t.section \notin t.left /\ \A r \in t.went : r.section # t.section
    /\ \A q \in Written(t) : \E r \in t.went : r.section = SectionOf[q.member]

(* What a pull of a whole container leaves to be committed: the rows it    *)
(* opens are of students it read, and of the rows it went by it ends those *)
(* of nobody it read as a student, and of everybody it read as gone.       *)
Leaves(t, r) ==
    /\ \A q \in r.base : SectionOf[q.member] = r.section
    /\ \A q \in t.draft.new : q.to = 0 /\ SectionOf[q.member] = r.section => q.member \in r.students
    /\ \A m \in r.students : \/ m \in Holders(r.base)
                             \/ \E q \in t.draft.new : /\ q.to = 0 /\ q.member = m
                                                       /\ SectionOf[m] = r.section
    /\ \A q \in t.draft.gone : SectionOf[q.member] = r.section => q.member \notin r.students
    /\ \A q \in r.base : \/ q.member \in r.students \cup r.unreadable
                         \/ q \in t.draft.gone
                         \/ /\ q \notin enrolled
                            /\ \E p \in Written(t) : SectionOf[p.member] = r.section

Pulled(t) ==
    t.stage # "asleep" =>
        VisitsOnce(t) /\ \A r \in t.went : r.whole /\ r.applied => Leaves(t, r)

ClassInv == WritersApart /\ \A w \in Syncers : Pulled(sync[w])

LEMMA ClassInvInit == RosterInit => ClassInv
  BY DEF RosterInit, ClassInv, WritersApart, Pulled, Written, Asleep

(* One worker moves on, and what it has written now it had, or no other    *)
(* worker has written there.                                               *)
LEMMA ClassMoves ==
  ASSUME RosterInv, ClassInv, NEW w \in Syncers, NEW t, sync' = [sync EXCEPT ![w] = t],
         enrolled' = enrolled, Pulled(t),
         \A p \in Written(t) : \/ p \in Written(sync[w])
                               \/ \A v \in Syncers \ {w} : \A q \in Written(sync[v]) :
                                    SectionOf[p.member] # SectionOf[q.member]
  PROVE  ClassInv'
<1>1. /\ DOMAIN sync' = Syncers /\ sync'[w] = t
      /\ \A v \in Syncers : v # w => sync'[v] = sync[v]
  BY DEF RosterInv, RosterTypeOK
<1>2. ASSUME NEW v \in Syncers, NEW u \in Syncers, v # u,
             NEW p \in Written(sync'[v]), NEW q \in Written(sync'[u])
      PROVE  SectionOf[p.member] # SectionOf[q.member]
  <2>1. CASE v = w
    BY <1>1, <1>2, <2>1 DEF ClassInv, WritersApart
  <2>2. CASE u = w
    BY <1>1, <1>2, <2>2 DEF ClassInv, WritersApart
  <2>3. CASE v # w /\ u # w
    BY <1>1, <1>2, <2>3 DEF ClassInv, WritersApart
  <2> QED  BY <2>1, <2>2, <2>3
<1>3. WritersApart'
  BY <1>2 DEF WritersApart, Written
<1>4. \A v \in Syncers : Pulled(sync'[v])
  BY <1>1 DEF ClassInv
<1>5. \A v \in Syncers : Pulled(sync[v])'
  BY <1>4 DEF Pulled, VisitsOnce, Leaves, Written, Walks
<1> QED  BY <1>3, <1>5 DEF ClassInv

(* A step that writes nothing, and reads at most one section more.         *)
LEMMA QuietPull ==
  ASSUME NEW t, NEW u, t.stage # "asleep", u.stage # "asleep", Pulled(t),
         u.draft = t.draft, u.left \subseteq t.left, t.went \subseteq u.went,
         \A r \in u.went \ t.went : ~Walks(u) /\ r.section \notin u.left /\ ~r.applied,
         Walks(u) => u.section \notin u.left /\ \A r \in u.went : r.section # u.section
  PROVE  Pulled(u) /\ Written(u) = Written(t)
<1>1. Written(u) = Written(t)
  BY DEF Written
<1>2. VisitsOnce(u)
  <2>1. \A r \in u.went : r.section \notin u.left
    BY DEF Pulled, VisitsOnce
  <2>2. \A q \in Written(u) : \E r \in u.went : r.section = SectionOf[q.member]
    BY <1>1 DEF Pulled, VisitsOnce
  <2> QED  BY <2>1, <2>2 DEF VisitsOnce
<1>3. ASSUME NEW r \in u.went, r.whole, r.applied PROVE Leaves(u, r)
  <2>1. r \in t.went
    BY <1>3
  <2>2. Leaves(t, r)
    BY <1>3, <2>1 DEF Pulled
  <2> QED  BY <1>1, <2>2 DEF Leaves
<1> QED  BY <1>1, <1>2, <1>3 DEF Pulled

LEMMA AsleepPulled == Pulled(Asleep) /\ Written(Asleep) = {}
  BY AsleepIs DEF Pulled, Written

LEMMA ReadingIs ==
  ASSUME NEW w, NEW applied, NEW r, r = Reading(w, applied)
  PROVE  /\ r.section = sync[w].section /\ r.base = sync[w].open
         /\ r.students = ReadAs(w, "student") /\ r.unreadable = ReadAs(w, "unreadable")
         /\ r.whole => sync[w].whole /\ Read(w) # << >>
         /\ r.applied => applied
<1>1. r.section = sync[w].section /\ r.base = sync[w].open
  BY Zenon DEF Reading
<1>2. r.students = ReadAs(w, "student") /\ r.unreadable = ReadAs(w, "unreadable")
  BY Zenon DEF Reading
<1>3. r.whole => sync[w].whole /\ Read(w) # << >>
  BY Zenon DEF Reading
<1>4. r.applied => applied
  BY Zenon DEF Reading
<1> QED  BY <1>1, <1>2, <1>3, <1>4

(* What a failed section leaves.                                           *)
LEMMA FailedPull ==
  ASSUME RosterInv, ClassInv, NEW w \in Syncers, Walks(sync[w]), NEW t, t = Failed(w)
  PROVE  Pulled(t) /\ Written(t) \subseteq Written(sync[w])
<1>1. CASE w \notin Beats
  BY <1>1, AsleepPulled DEF Failed
<1>2. CASE w \in Beats
  <2> DEFINE u == sync[w]
  <2>1. PICK r : r = Reading(w, FALSE)
    OBVIOUS
  <2>2. r.section = u.section /\ ~r.applied
    BY <2>1, ReadingIs, Zenon
  <2>3. PICK b : b = Between(w)
    OBVIOUS
  <2>4. t = [b EXCEPT !.went = @ \cup {r}]
    BY <1>2, <2>1, <2>3, Zenon DEF Failed, SectionFailed
  <2>5. b = [stage |-> "between", left |-> u.left, draft |-> u.draft, wrong |-> u.wrong, went |-> u.went]
    BY <2>3, BetweenIs
  <2>6. /\ t.stage = "between" /\ t.left = u.left /\ t.draft = u.draft /\ t.went = u.went \cup {r}
    BY <2>4, <2>5
  <2>7. u.stage # "asleep" /\ t.stage # "asleep" /\ ~Walks(t) /\ Pulled(u)
    BY <2>6 DEF Walks, ClassInv
  <2>8. u.section \notin u.left
    BY <2>7 DEF Pulled, VisitsOnce
  <2>9. \A q \in t.went \ u.went : q = r
    BY <2>6
  <2>10. Pulled(t) /\ Written(t) = Written(u)
    BY <2>2, <2>6, <2>7, <2>8, <2>9, QuietPull
  <2> QED  BY <2>10
<1> QED  BY <1>1, <1>2

(* Whom a pull of a whole container closes, and whom it leaves.            *)
LEMMA ClosingIs ==
  ASSUME RosterInv, NEW w \in Syncers, Stage(w) = "ingesting"
  PROVE  /\ \A c \in Closing(w) : c.member \notin ReadAs(w, "student")
         /\ sync[w].whole /\ Read(w) # << >> =>
              \A q \in sync[w].open :
                 q \in Closing(w) \/ q.member \in ReadAs(w, "student") \cup ReadAs(w, "unreadable")
<1> DEFINE t == sync[w]
<1>1. IsWalk(t) /\ day \in Nat \ {0}
  BY StateOf, SyncShape DEF Stage, Walks, RosterInv, RosterTypeOK
<1>2. ASSUME NEW c \in Closing(w) PROVE c.member \notin ReadAs(w, "student")
  <2>1. ClosedOn(w, c) # 0
    BY DEF Closing
  <2> QED  BY <2>1 DEF ClosedOn, ReadAs, Read, AbsentClosed
<1>3. ASSUME t.whole, Read(w) # << >>, NEW q \in t.open, q \notin Closing(w)
      PROVE  q.member \in ReadAs(w, "student") \cup ReadAs(w, "unreadable")
  <2>1. ClosedOn(w, q) = 0
    BY <1>3 DEF Closing
  <2>2. q.from \in Nat \ {0}
    BY <1>1 DEF IsWalk, IsRow
  <2>3. q.member \notin ReadAs(w, "dropped")
    <3> SUFFICES ASSUME q.member \in ReadAs(w, "dropped") PROVE FALSE
      OBVIOUS
    <3>1. ClosedOn(w, q) # 0
      BY <1>1 DEF ClosedOn
    <3> QED  BY <2>1, <3>1
  <2>4. q.member \notin ReadAs(w, "teacher")
    <3> SUFFICES ASSUME q.member \in ReadAs(w, "teacher") PROVE FALSE
      OBVIOUS
    <3>1. ClosedOn(w, q) = Max({q.from, day - 1})
      BY <2>3 DEF ClosedOn
    <3>2. Max({q.from, day - 1}) # 0
      <4>1. \E x \in {q.from, day - 1} : \A y \in {q.from, day - 1} : x >= y
        <5>1. CASE q.from >= day - 1
          BY <2>2, <5>1
        <5>2. CASE ~(q.from >= day - 1)
          <6>1. day - 1 >= q.from /\ day - 1 >= day - 1
            BY <1>1, <2>2, <5>2
          <6> QED  BY <6>1
        <5> QED  BY <5>1, <5>2
      <4>2. \A y \in {q.from, day - 1} : Max({q.from, day - 1}) >= y
        BY <4>1 DEF Max
      <4>3. Max({q.from, day - 1}) >= q.from
        BY <4>2
      <4> QED  BY <2>2, <4>3
    <3> QED  BY <2>1, <3>1, <3>2
  <2>5. q.member \in DOMAIN Read(w)
    <3> SUFFICES ASSUME q.member \notin DOMAIN Read(w) PROVE FALSE
      OBVIOUS
    <3>1. AbsentClosed(w, q.member)
      BY <1>3 DEF AbsentClosed
    <3>2. ClosedOn(w, q) = day
      BY <2>3, <2>4, <3>1 DEF ClosedOn
    <3> QED  BY <1>1, <2>1, <3>2
  <2>6. Read(w)[q.member].kind \in Kinds \ {"absent"}
    BY <1>1, <2>5 DEF IsWalk, Read
  <2> QED  BY <2>3, <2>4, <2>5, <2>6 DEF ReadAs, Kinds
<1> QED  BY <1>2, <1>3

(* What the pull of one section writes.                                    *)
LEMMA WritesIn ==
  ASSUME RosterInv, NEW w \in Syncers, Stage(w) = "ingesting"
  PROVE  \A q \in Gone(w) \cup NewRows(w) : SectionOf[q.member] = sync[w].section
<1> DEFINE t == sync[w]
<1>1. IsWalk(t)
  BY StateOf, SyncShape DEF Stage, Walks
<1>2. \A c \in Closing(w) : IsRow(c) /\ SectionOf[c.member] = t.section
  BY <1>1 DEF Closing, IsWalk
<1>3. ASSUME NEW c \in Closing(w), NEW q, q = [c EXCEPT !.to = ClosedOn(w, c)]
      PROVE  SectionOf[q.member] = t.section
  <2>1. PICK to : to = ClosedOn(w, c)
    OBVIOUS
  <2>2. q = [c EXCEPT !.to = to] /\ c = [member |-> c.member, from |-> c.from, to |-> c.to]
    BY <1>2, <1>3, <2>1 DEF IsRow
  <2>3. q.member = c.member
    BY <2>2
  <2> QED  BY <1>2, <2>3
<1>4. ASSUME NEW m \in Opening(w) PROVE SectionOf[m] = t.section
  BY <1>1 DEF Opening, ReadAs, Read, IsWalk, Of
<1>5. \A q \in Gone(w) : SectionOf[q.member] = t.section
  BY <1>2 DEF Gone
<1>6. ASSUME NEW q \in NewRows(w) PROVE SectionOf[q.member] = t.section
  <2>1. CASE \E c \in Closing(w) : q = [c EXCEPT !.to = ClosedOn(w, c)]
    BY <1>3, <2>1
  <2>2. CASE \E m \in Opening(w) : q = [member |-> m, from |-> day, to |-> 0]
    BY <1>4, <2>2
  <2> QED  BY <2>1, <2>2 DEF NewRows
<1> QED  BY <1>5, <1>6

(* The open rows a pull writes are those of the students it adds.          *)
LEMMA OpenedIs ==
  ASSUME RosterInv, NEW w \in Syncers, Stage(w) = "ingesting"
  PROVE  /\ \A q \in NewRows(w) : q.to = 0 => q.member \in Opening(w)
         /\ \A m \in Opening(w) : \E q \in NewRows(w) : q.to = 0 /\ q.member = m
         /\ Closing(w) # {} => NewRows(w) # {}
<1>1. IsWalk(sync[w])
  BY StateOf, SyncShape DEF Stage, Walks
<1>2. ASSUME NEW c \in Closing(w), NEW q, q = [c EXCEPT !.to = ClosedOn(w, c)]
      PROVE  q.to # 0
  <2>1. PICK to : to = ClosedOn(w, c)
    OBVIOUS
  <2>2. c = [member |-> c.member, from |-> c.from, to |-> c.to] /\ to # 0
    BY <1>1, <2>1 DEF Closing, IsWalk, IsRow
  <2>3. q = [c EXCEPT !.to = to]
    BY <1>2, <2>1
  <2>4. q.to = to
    BY <2>2, <2>3
  <2> QED  BY <2>2, <2>4
<1>3. ASSUME NEW q \in NewRows(w), q.to = 0 PROVE q.member \in Opening(w)
  BY <1>2, <1>3 DEF NewRows
<1>4. ASSUME NEW m \in Opening(w) PROVE \E q \in NewRows(w) : q.to = 0 /\ q.member = m
  <2>1. PICK q : q = [member |-> m, from |-> day, to |-> 0]
    OBVIOUS
  <2>2. q \in NewRows(w)
    BY <2>1, Zenon DEF NewRows
  <2> QED  BY <2>1, <2>2
<1>5. ASSUME NEW c \in Closing(w) PROVE NewRows(w) # {}
  <2>1. [c EXCEPT !.to = ClosedOn(w, c)] \in NewRows(w)
    BY Zenon DEF NewRows
  <2> QED  BY <2>1
<1> QED  BY <1>3, <1>4, <1>5

LEMMA AppliedPull ==
  ASSUME RosterInv, ClassInv, NEW w \in Syncers, Stage(w) = "ingesting", NEW t, t = Applied(w)
  PROVE  /\ Pulled(t)
         /\ \A p \in Written(t) : p \in Written(sync[w]) \/ SectionOf[p.member] = sync[w].section
<1> DEFINE u == sync[w]
           s == u.section
<1>1. /\ t = [stage |-> "between", left |-> t.left, draft |-> t.draft, wrong |-> t.wrong, went |-> t.went]
      /\ t.left = u.left /\ t.went = u.went \cup {Reading(w, TRUE)}
      /\ t.draft = [gone |-> u.draft.gone \cup Gone(w), new |-> u.draft.new \cup NewRows(w),
                     granted |-> u.draft.granted \cup Granted(w),
                     ended |-> u.draft.ended \cup EndedGrants(w)]
  BY AppliedIs, Zenon
<1>2. t.draft.gone = u.draft.gone \cup Gone(w) /\ t.draft.new = u.draft.new \cup NewRows(w)
  BY <1>1
<1>3. t.stage = "between"
  BY <1>1
<1>4. /\ IsWalk(u) /\ Walks(u) /\ u.stage # "asleep" /\ Pulled(u)
  BY StateOf, SyncShape DEF Stage, Walks, ClassInv
<1>5. /\ \A r \in u.went : r.section \notin u.left /\ r.section # s
      /\ s \notin u.left
      /\ \A q \in Written(u) : \E r \in u.went : r.section = SectionOf[q.member]
  BY <1>4 DEF Pulled, VisitsOnce
<1>6. \A q \in Written(u) : SectionOf[q.member] # s
  BY <1>5
<1>7. Written(u) = u.draft.gone \cup u.draft.new
  BY <1>4 DEF Written
<1>8. Written(t) = Written(u) \cup Gone(w) \cup NewRows(w)
  BY <1>2, <1>3, <1>7 DEF Written
<1>9. \A q \in Gone(w) \cup NewRows(w) : SectionOf[q.member] = s
  BY WritesIn
<1>10. PICK g : g = Reading(w, TRUE)
  OBVIOUS
<1>11. /\ g.section = s /\ g.base = u.open
       /\ g.students = ReadAs(w, "student") /\ g.unreadable = ReadAs(w, "unreadable")
       /\ g.whole => u.whole /\ Read(w) # << >>
  BY <1>10, ReadingIs, Zenon
<1>12. t.went = u.went \cup {g}
  BY <1>1, <1>10
<1>13. VisitsOnce(t)
  <2>1. \A r \in t.went : r.section \notin t.left
    BY <1>1, <1>5, <1>11, <1>12
  <2>2. ~Walks(t)
    BY <1>3 DEF Walks
  <2>3. \A q \in Written(t) : \E r \in t.went : r.section = SectionOf[q.member]
    BY <1>5, <1>8, <1>9, <1>11, <1>12
  <2> QED  BY <2>1, <2>2, <2>3 DEF VisitsOnce
<1>14. ASSUME NEW r \in u.went, r.whole, r.applied PROVE Leaves(t, r)
  <2>1. Leaves(u, r) /\ r.section # s
    BY <1>4, <1>5, <1>14 DEF Pulled
  <2>2. \A q \in Gone(w) \cup NewRows(w) : SectionOf[q.member] # r.section
    BY <1>9, <2>1
  <2> QED  BY <1>2, <1>8, <2>1, <2>2 DEF Leaves
<1>15. ASSUME g.whole PROVE Leaves(t, g)
  <2>1. \A q \in u.open : IsRow(q) /\ q.to = 0 /\ SectionOf[q.member] = s
    BY <1>4 DEF IsWalk
  <2>2. \A q \in t.draft.gone : SectionOf[q.member] = s => q \in Gone(w)
    BY <1>2, <1>6, <1>7
  <2>3. \A q \in t.draft.new : SectionOf[q.member] = s => q \in NewRows(w)
    BY <1>2, <1>6, <1>7
  <2>4. /\ \A q \in NewRows(w) : q.to = 0 => q.member \in Opening(w)
        /\ \A m \in Opening(w) : \E q \in NewRows(w) : q.to = 0 /\ q.member = m
        /\ Closing(w) # {} => NewRows(w) # {}
    BY OpenedIs
  <2>5. /\ \A c \in Closing(w) : c.member \notin ReadAs(w, "student")
        /\ \A q \in u.open : q \in Closing(w) \/ q.member \in ReadAs(w, "student") \cup ReadAs(w, "unreadable")
    BY <1>11, <1>15, ClosingIs
  <2>6. \A q \in t.draft.new : q.to = 0 /\ SectionOf[q.member] = s => q.member \in ReadAs(w, "student")
    BY <2>3, <2>4 DEF Opening
  <2>7. ASSUME NEW m \in ReadAs(w, "student"), m \notin Holders(u.open)
        PROVE  \E q \in t.draft.new : q.to = 0 /\ q.member = m /\ SectionOf[m] = s
    <3>1. PICK q \in NewRows(w) : q.to = 0 /\ q.member = m
      BY <2>4, <2>7 DEF Opening
    <3> QED  BY <1>2, <1>9, <3>1
  <2>8. \A q \in Gone(w) : q.member \notin ReadAs(w, "student")
    BY <2>5 DEF Gone
  <2>9. ASSUME NEW q \in u.open, q.member \notin ReadAs(w, "student") \cup ReadAs(w, "unreadable")
        PROVE  \/ q \in t.draft.gone
               \/ q \notin enrolled /\ \E p \in Written(t) : SectionOf[p.member] = s
    <3>1. q \in Closing(w)
      BY <2>5, <2>9
    <3>2. CASE q \in enrolled
      BY <1>2, <3>1, <3>2 DEF Gone
    <3>3. CASE q \notin enrolled
      BY <1>8, <1>9, <2>4, <3>1, <3>3
    <3> QED  BY <3>2, <3>3
  <2> QED  BY <1>11, <2>1, <2>2, <2>6, <2>7, <2>8, <2>9 DEF Leaves
<1>16. Pulled(t)
  BY <1>12, <1>13, <1>14, <1>15 DEF Pulled
<1> QED  BY <1>8, <1>9, <1>16

(* What one worker commits is in no section another has written to.        *)
LEMMA CommitPull ==
  ASSUME RosterInv, ClassInv, NEW w \in Syncers, CommitSync(w)
  PROVE  ClassInv'
<1>1. /\ Stage(w) = "between" /\ sync' = [sync EXCEPT ![w] = Asleep]
      /\ enrolled' = (enrolled \ sync[w].draft.gone) \cup sync[w].draft.new
  BY DEF CommitSync
<1>2. /\ DOMAIN sync' = Syncers /\ sync'[w] = Asleep
      /\ \A v \in Syncers : v # w => sync'[v] = sync[v]
  BY <1>1 DEF RosterInv, RosterTypeOK
<1>3. sync[w].draft.new \subseteq Written(sync[w])
  BY <1>1 DEF Written, Stage
<1>4. WritersApart'
  <2>1. \A v \in Syncers : Written(sync'[v]) \subseteq Written(sync[v])
    BY <1>2, AsleepPulled
  <2> QED  BY <2>1 DEF ClassInv, WritersApart, Written
<1>5. ASSUME NEW v \in Syncers, v # w, NEW r \in sync[v].went, Leaves(sync[v], r), Stage(v) # "asleep"
      PROVE  Leaves(sync[v], r)'
  <2> DEFINE t == sync[v]
  <2>1. ASSUME NEW q \in r.base, q \notin enrolled, NEW p \in Written(t), SectionOf[p.member] = r.section
        PROVE  q \notin enrolled'
    <3>1. SectionOf[q.member] = SectionOf[p.member]
      BY <1>5, <2>1 DEF Leaves
    <3>2. q \notin Written(sync[w])
      BY <1>5, <3>1 DEF ClassInv, WritersApart
    <3> QED  BY <1>1, <1>3, <2>1, <3>2
  <2>2. sync'[v] = t
    BY <1>2, <1>5
  <2> QED  BY <1>5, <2>1, <2>2 DEF Leaves, Written
<1>6. ASSUME NEW v \in Syncers PROVE Pulled(sync[v])'
  <2>1. CASE v = w
    BY <1>2, <2>1, AsleepIs DEF Pulled
  <2>2. CASE v # w
    <3>1. sync'[v] = sync[v] /\ Pulled(sync[v])
      BY <1>2, <2>2 DEF ClassInv
    <3>2. ASSUME sync[v].stage # "asleep", NEW r \in sync[v].went, r.whole, r.applied
          PROVE  Leaves(sync[v], r)'
      BY <1>5, <2>2, <3>1, <3>2 DEF Pulled, Stage
    <3> QED  BY <3>1, <3>2 DEF Pulled, VisitsOnce, Written, Walks
  <2> QED  BY <2>1, <2>2
<1> QED  BY <1>4, <1>6 DEF ClassInv

(* Whoever goes on with a walk has written and read what it had.           *)
LEMMA GoesOnPull ==
  ASSUME RosterInv, ClassInv, NEW w \in Syncers, NEW u, Walks(sync[w]), Walks(u),
         u.section = sync[w].section, u.left = sync[w].left, u.draft = sync[w].draft, u.went = sync[w].went
  PROVE  Pulled(u) /\ Written(u) = Written(sync[w])
<1>1. sync[w].stage # "asleep" /\ u.stage # "asleep" /\ Pulled(sync[w])
  BY DEF Walks, ClassInv
<1>2. u.section \notin u.left /\ \A r \in u.went : r.section # u.section
  BY <1>1 DEF Pulled, VisitsOnce
<1> QED  BY <1>1, <1>2, QuietPull

LEMMA PlatformPull ==
  ASSUME RosterInv, ClassInv, PlatformChanges
  PROVE  ClassInv'
<1>1. UNCHANGED enrolled /\ DOMAIN sync' = Syncers
  BY DEF PlatformChanges
<1>2. ASSUME NEW w \in Syncers
      PROVE  Pulled(sync'[w]) /\ Written(sync'[w]) = Written(sync[w])
  <2>1. CASE sync[w].stage \in {"asleep", "between"}
    <3>1. sync'[w] = sync[w]
      BY <2>1 DEF PlatformChanges, Stage
    <3> QED  BY <3>1 DEF ClassInv
  <2>2. CASE ~(sync[w].stage \in {"asleep", "between"})
    <3>1. PICK t, u : t = sync[w] /\ u = Watched(w)
      OBVIOUS
    <3>2. sync'[w] = u
      BY <2>2, <3>1 DEF PlatformChanges, Stage
    <3>3. Walks(t) /\ IsWalk(t)
      BY <2>2, <3>1, StateOf, SyncShape DEF Walks
    <3>4. u = [stage |-> t.stage, section |-> t.section, page |-> t.page, read |-> t.read, whole |-> t.whole,
               open |-> t.open, away |-> u.away, untaught |-> u.untaught, passed |-> u.passed,
               left |-> t.left, draft |-> t.draft, wrong |-> t.wrong, went |-> t.went]
      BY <3>1, <3>3, WatchedIs
    <3>5. u.stage = t.stage /\ u.section = t.section /\ u.left = t.left /\ u.draft = t.draft /\ u.went = t.went
      BY <3>4
    <3> QED  BY <3>1, <3>2, <3>3, <3>5, GoesOnPull DEF Walks
  <2> QED  BY <2>1, <2>2
<1>3. ASSUME NEW v \in Syncers, NEW w \in Syncers, v # w,
             NEW p \in Written(sync'[v]), NEW q \in Written(sync'[w])
      PROVE  SectionOf[p.member] # SectionOf[q.member]
  <2>1. p \in Written(sync[v]) /\ q \in Written(sync[w])
    BY <1>2
  <2> QED  BY <1>3, <2>1 DEF ClassInv, WritersApart
<1>4. WritersApart'
  BY <1>3 DEF WritersApart, Written
<1>5. \A w \in Syncers : Pulled(sync'[w])
  BY <1>2
<1>6. \A w \in Syncers : Pulled(sync[w])'
  BY <1>1, <1>5 DEF Pulled, VisitsOnce, Leaves, Written, Walks
<1> QED  BY <1>4, <1>6 DEF ClassInv

LEMMA ClassStep == RosterInv /\ ClassInv /\ [RosterNext]_rosterVars => ClassInv'
<1> SUFFICES ASSUME RosterInv, ClassInv, [RosterNext]_rosterVars PROVE ClassInv'
  OBVIOUS
<1> USE DEF unsynced, standing
<1>1. ASSUME NEW m \in Members, NEW said \in Listings[m], ChangeListing(m, said)
      PROVE  ClassInv'
  BY <1>1, PlatformPull DEF ChangeListing
<1>15. ASSUME NEW m \in Members, NEW q \in Members, Reorder(m, q)
       PROVE  ClassInv'
  BY <1>15, PlatformPull DEF Reorder
<1>2. CASE NextDay
  BY <1>2 DEF NextDay, ClassInv, WritersApart, Pulled, VisitsOnce, Leaves, Written, Walks
<1>3. ASSUME NEW w \in Syncers, StartRound(w)
      PROVE  ClassInv'
  <2>1. PICK t : t = [stage |-> "between", left |-> Sections, draft |-> NoDraft, wrong |-> {}, went |-> {}]
    OBVIOUS
  <2>2. sync' = [sync EXCEPT ![w] = t] /\ UNCHANGED enrolled
    BY <1>3, <2>1, FreshIs DEF StartRound
  <2>3. t.stage = "between" /\ t.went = {} /\ t.draft = NoDraft
    BY <2>1
  <2>4. Written(t) = {} /\ Pulled(t)
    BY <2>3, NoDraftIsADraft DEF Written, Pulled, VisitsOnce, Walks
  <2> QED  BY <2>2, <2>4, ClassMoves
<1>4. ASSUME NEW w \in Syncers, NEW s \in Sections, NextSection(w, s)
      PROVE  ClassInv'
  <2> DEFINE u == sync[w]
  <2>1. PICK c : c = [Carried(w) EXCEPT !.left = @ \ {s}]
    OBVIOUS
  <2>2. PICK t : t = With(Walking(s), c)
    OBVIOUS
  <2>3. sync' = [sync EXCEPT ![w] = t] /\ UNCHANGED enrolled /\ u.stage = "between" /\ s \in u.left
    BY <1>4, <2>1, <2>2 DEF NextSection, Stage
  <2>4. /\ DOMAIN c = {"left", "draft", "wrong", "went"}
        /\ c.draft = u.draft /\ c.went = u.went /\ c.left = u.left \ {s}
    BY <2>1 DEF Carried
  <2>5. /\ t.stage = "walking" /\ t.section = s /\ t.left = c.left /\ t.draft = c.draft /\ t.went = c.went
    BY <2>2, <2>4, WalkIs
  <2>6. Pulled(u) /\ u.stage # "asleep" /\ t.stage # "asleep"
    BY <2>3, <2>5 DEF ClassInv
  <2>7. \A r \in t.went : r.section # t.section
    BY <2>3, <2>4, <2>5, <2>6 DEF Pulled, VisitsOnce
  <2>8. Pulled(t) /\ Written(t) = Written(u)
    BY <2>4, <2>5, <2>6, <2>7, QuietPull
  <2> QED  BY <2>3, <2>8, ClassMoves
<1>5. ASSUME NEW w \in Syncers, NEW s \in Sections, StartTask(w, s)
      PROVE  ClassInv'
  <2>1. PICK t : t = With(Walking(s), Fresh({}))
    OBVIOUS
  <2>2. sync' = [sync EXCEPT ![w] = t] /\ UNCHANGED enrolled
    BY <1>5, <2>1 DEF StartTask
  <2>3. PICK c : c = Fresh({})
    OBVIOUS
  <2>4. DOMAIN c = {"left", "draft", "wrong", "went"} /\ c.draft = NoDraft /\ c.went = {} /\ c.left = {}
    BY <2>3, FreshIs
  <2>5. t.stage = "walking" /\ t.left = {} /\ t.draft = NoDraft /\ t.went = {}
    BY <2>1, <2>3, <2>4, WalkIs
  <2>6. Written(t) = {} /\ Pulled(t)
    BY <2>5, NoDraftIsADraft DEF Written, Pulled, VisitsOnce
  <2> QED  BY <2>2, <2>6, ClassMoves
<1>6. ASSUME NEW w \in Syncers, GetNoToken(w)
      PROVE  ClassInv'
  <2> DEFINE u == sync[w]
  <2>1. PICK t : t = Between(w)
    OBVIOUS
  <2>2. sync' = [sync EXCEPT ![w] = t] /\ UNCHANGED enrolled /\ u.stage = "walking"
    BY <1>6, <2>1 DEF GetNoToken, Stage
  <2>3. t.stage = "between" /\ t.left = u.left /\ t.draft = u.draft /\ t.went = u.went
    BY <2>1, BetweenIs
  <2>4. Pulled(t) /\ Written(t) = Written(u)
    BY <2>2, <2>3, QuietPull DEF Walks, ClassInv
  <2> QED  BY <2>2, <2>4, ClassMoves
<1>7. ASSUME NEW w \in Syncers, ReadPage(w)
      PROVE  ClassInv'
  <2> DEFINE u == sync[w]
  <2>1. Walks(u) /\ IsWalk(u)
    BY <1>7, StateOf, SyncShape DEF ReadPage, Stage, Walks
  <2> DEFINE last == Cardinality(Shown(u.section)) <= u.page * PageSize
             read == Deduplicated(u.read, Page(u.section, u.page))
             page == IF last THEN u.page ELSE u.page + 1
             stage == IF last THEN "read" ELSE "walking"
             whole == last
  <2>2. sync' = [sync EXCEPT ![w] = [u EXCEPT !.read = read, !.page = page, !.stage = stage, !.whole = whole]]
    BY <1>7, Zenon DEF ReadPage
  <2>3. stage \in {"walking", "read"}
    OBVIOUS
  <2> HIDE DEF last, read, page, stage, whole
  <2>4. PICK t : /\ sync' = [sync EXCEPT ![w] = t]
                 /\ t = [u EXCEPT !.read = read, !.page = page, !.stage = stage, !.whole = whole]
    BY <2>2
  <2>5. t = [stage |-> stage, section |-> u.section, page |-> page, read |-> read, whole |-> whole,
             open |-> u.open, away |-> u.away, untaught |-> u.untaught, passed |-> u.passed,
             left |-> u.left, draft |-> u.draft, wrong |-> u.wrong, went |-> u.went]
    BY <2>1, <2>4 DEF IsWalk
  <2>6. t.stage = stage /\ t.section = u.section /\ t.left = u.left /\ t.draft = u.draft /\ t.went = u.went
    BY <2>5
  <2>7. Pulled(t) /\ Written(t) = Written(u)
    <3>1. Walks(t)
      BY <2>6, <2>3 DEF Walks
    <3> QED  BY <2>1, <2>6, <3>1, GoesOnPull
  <2>8. UNCHANGED enrolled
    BY <1>7 DEF ReadPage
  <2> QED  BY <2>4, <2>7, <2>8, ClassMoves
<1>8. ASSUME NEW w \in Syncers, FailPage(w)
      PROVE  ClassInv'
  <2> DEFINE u == sync[w]
  <2>1. Walks(u) /\ IsWalk(u)
    BY <1>8, StateOf, SyncShape DEF FailPage, Stage, Walks
  <2>2. PICK t : t = [u EXCEPT !.stage = "read"]
    OBVIOUS
  <2>3. sync' = [sync EXCEPT ![w] = t] /\ UNCHANGED enrolled
    BY <1>8, <2>2 DEF FailPage
  <2>4. t = [stage |-> "read", section |-> u.section, page |-> u.page, read |-> u.read, whole |-> u.whole,
             open |-> u.open, away |-> u.away, untaught |-> u.untaught, passed |-> u.passed,
             left |-> u.left, draft |-> u.draft, wrong |-> u.wrong, went |-> u.went]
    BY <2>1, <2>2 DEF IsWalk
  <2>5. t.stage = "read" /\ t.section = u.section /\ t.left = u.left /\ t.draft = u.draft /\ t.went = u.went
    BY <2>4
  <2>6. Pulled(t) /\ Written(t) = Written(u)
    BY <2>1, <2>5, GoesOnPull DEF Walks
  <2> QED  BY <2>3, <2>6, ClassMoves
<1>9. ASSUME NEW w \in Syncers, RefuseSection(w)
      PROVE  ClassInv'
  <2>1. PICK t : t = Failed(w)
    OBVIOUS
  <2>2. sync' = [sync EXCEPT ![w] = t] /\ UNCHANGED enrolled /\ Walks(sync[w])
    BY <1>9, <2>1 DEF RefuseSection, Walks, Stage
  <2>3. Pulled(t) /\ Written(t) \subseteq Written(sync[w])
    BY <2>1, <2>2, FailedPull
  <2> QED  BY <2>2, <2>3, ClassMoves
<1>10. ASSUME NEW w \in Syncers, ReadOpen(w)
       PROVE  ClassInv'
  <2> DEFINE u == sync[w]
  <2>1. Walks(u) /\ IsWalk(u)
    BY <1>10, StateOf, SyncShape DEF ReadOpen, Stage, Walks
  <2>2. PICK open : open = Open(RowsIn(u.section, enrolled))
    OBVIOUS
  <2>3. PICK t : t = [u EXCEPT !.stage = "ingesting", !.open = open]
    OBVIOUS
  <2>4. sync' = [sync EXCEPT ![w] = t] /\ UNCHANGED enrolled
    BY <1>10, <2>2, <2>3 DEF ReadOpen
  <2>5. t = [stage |-> "ingesting", section |-> u.section, page |-> u.page, read |-> u.read, whole |-> u.whole,
             open |-> open, away |-> u.away, untaught |-> u.untaught, passed |-> u.passed,
             left |-> u.left, draft |-> u.draft, wrong |-> u.wrong, went |-> u.went]
    BY <2>1, <2>3 DEF IsWalk
  <2>6. t.stage = "ingesting" /\ t.section = u.section /\ t.left = u.left /\ t.draft = u.draft /\ t.went = u.went
    BY <2>5
  <2>7. Pulled(t) /\ Written(t) = Written(u)
    BY <2>1, <2>6, GoesOnPull DEF Walks
  <2> QED  BY <2>4, <2>7, ClassMoves
<1>11. ASSUME NEW w \in Syncers, Ingest(w)
       PROVE  ClassInv'
  <2>1. Stage(w) = "ingesting" /\ Walks(sync[w]) /\ UNCHANGED enrolled /\ ~MustWait(w)
    BY <1>11 DEF Ingest, Walks, Stage
  <2>2. CASE Refused(w)
    <3>1. PICK t : t = Failed(w)
      OBVIOUS
    <3>2. sync' = [sync EXCEPT ![w] = t]
      BY <1>11, <2>2, <3>1 DEF Ingest
    <3>3. Pulled(t) /\ Written(t) \subseteq Written(sync[w])
      BY <2>1, <3>1, FailedPull
    <3> QED  BY <2>1, <3>2, <3>3, ClassMoves
  <2>3. CASE ~Refused(w)
    <3>1. PICK t : t = Applied(w)
      OBVIOUS
    <3>2. sync' = [sync EXCEPT ![w] = t]
      BY <1>11, <2>3, <3>1 DEF Ingest
    <3>3. /\ Pulled(t)
          /\ \A p \in Written(t) : p \in Written(sync[w]) \/ SectionOf[p.member] = sync[w].section
      BY <2>1, <3>1, AppliedPull
    <3>4. \A v \in Syncers \ {w} : \A q \in Written(sync[v]) : SectionOf[q.member] # sync[w].section
      BY <2>1 DEF MustWait, Written, Stage
    <3>5. \A p \in Written(t) : \/ p \in Written(sync[w])
                                \/ \A v \in Syncers \ {w} : \A q \in Written(sync[v]) :
                                     SectionOf[p.member] # SectionOf[q.member]
      BY <3>3, <3>4
    <3> QED  BY <2>1, <3>2, <3>3, <3>5, ClassMoves
  <2> QED  BY <2>2, <2>3
<1>12. ASSUME NEW w \in Syncers, CommitSync(w)
       PROVE  ClassInv'
  BY <1>12, CommitPull
<1>13. ASSUME NEW w \in Syncers, LoseSync(w)
       PROVE  ClassInv'
  <2>1. sync' = [sync EXCEPT ![w] = Asleep] /\ UNCHANGED enrolled
    BY <1>13 DEF LoseSync
  <2> QED  BY <2>1, AsleepPulled, ClassMoves
<1>14. CASE UNCHANGED rosterVars
  BY <1>14 DEF rosterVars, ClassInv, WritersApart, Pulled, VisitsOnce, Leaves, Written, Walks
<1> QED
  BY <1>1, <1>2, <1>3, <1>4, <1>5, <1>6, <1>7, <1>8, <1>9, <1>10, <1>11, <1>12, <1>13, <1>14, <1>15 DEF RosterNext

LEMMA ClassCommitted ==
  ASSUME RosterInv, ClassInv, NEW w \in Syncers, CommitSync(w), NEW r \in sync[w].went,
         r.whole, r.applied, r.base = Open(RowsIn(r.section, enrolled))
  PROVE  /\ r.students \subseteq PlacesIn(r.section, enrolled')
         /\ PlacesIn(r.section, enrolled') \subseteq r.students \cup r.unreadable
<1> DEFINE d == sync[w].draft
           s == r.section
<1>1. enrolled' = (enrolled \ d.gone) \cup d.new /\ sync[w].stage # "asleep"
  BY DEF CommitSync, Stage
<1>2. Leaves(sync[w], r)
  BY <1>1 DEF ClassInv, Pulled
<1>3. ASSUME NEW m \in r.students PROVE \E q \in enrolled' : q.to = 0 /\ SectionOf[q.member] = s /\ q.member = m
  <2>1. CASE m \in Holders(r.base)
    <3>1. PICK q \in enrolled : q \in r.base /\ q.to = 0 /\ SectionOf[q.member] = s /\ q.member = m
      BY <2>1 DEF Holders, Open, RowsIn
    <3>2. q \notin d.gone
      BY <1>2, <1>3, <3>1 DEF Leaves
    <3> QED  BY <1>1, <3>1, <3>2
  <2>2. CASE \E q \in d.new : q.to = 0 /\ q.member = m /\ SectionOf[m] = s
    BY <1>1, <2>2
  <2> QED  BY <1>2, <1>3, <2>1, <2>2 DEF Leaves
<1>4. ASSUME NEW q \in enrolled', q.to = 0, SectionOf[q.member] = s
      PROVE  q.member \in r.students \cup r.unreadable
  <2>1. CASE q \in d.new
    BY <1>2, <1>4, <2>1 DEF Leaves
  <2>2. CASE q \in enrolled \ d.gone
    <3>1. q \in r.base
      BY <1>4, <2>2 DEF Open, RowsIn
    <3> QED  BY <1>2, <2>2, <3>1 DEF Leaves
  <2> QED  BY <1>1, <2>1, <2>2
<1> QED  BY <1>3, <1>4 DEF PlacesIn, Holders, Open, RowsIn

(* A pull of a whole container commits the class it read, and whoever it   *)
(* could not read keeps a place they had, however other pulls overlap it,  *)
(* unless one of them changed the section's open rows in between           *)
(* (roster_sync.py's savepoints and the row locks its writes take).        *)
THEOREM ClassesAreAsRead == RosterSpec => ClassIsAsRead
<1>1. RosterInit => RosterInv /\ ClassInv
  BY RosterInvInit, ClassInvInit
<1>2. RosterInv /\ ClassInv /\ [RosterNext]_rosterVars => RosterInv' /\ ClassInv'
  BY RosterStep, ClassStep
<1>3. RosterInv /\ ClassInv /\ [RosterNext]_rosterVars =>
        [\A w \in Syncers : CommitSync(w) => \A r \in sync[w].went :
           r.whole /\ r.applied /\ r.base = Open(RowsIn(r.section, enrolled)) =>
              /\ r.students \subseteq PlacesIn(r.section, enrolled')
              /\ PlacesIn(r.section, enrolled') \subseteq r.students \cup r.unreadable]_rosterVars
  BY ClassCommitted
<1> QED  BY <1>1, <1>2, <1>3, PTL DEF RosterSpec, ClassIsAsRead

=============================================================================
