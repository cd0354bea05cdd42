---------------------------- MODULE PurviewProofs ----------------------------
(* The properties of Purview for every graph, person and organization: the *)
(* walk computes the purview the chains give, there is one reviewer per    *)
(* course, nobody's own sections are in front of them, and a section a     *)
(* leader's launch bound is in that leader's purview.                      *)
EXTENDS Purview, TLAPS

-----------------------------------------------------------------------------
(* One level down: those who report to somebody walked through.            *)
Down(as) == as \cup {b \in granted : reportsTo[b] \in WalkedThrough(as)}

LEMMA WalkIsDefined ==
    ASSUME NEW a
    PROVE  Reached(a) = [k \in 0..DeepestChain |->
                           IF k = 0 THEN {a} ELSE Down(Reached(a)[k - 1])]
<1> DEFINE Walks(w) == w = [k \in 0..DeepestChain |-> IF k = 0 THEN {a} ELSE Down(w[k - 1])]
<1>1. PICK w0, w1, w2, w3, w4, w5, w6 :
        /\ w0 = {a} /\ w1 = Down(w0) /\ w2 = Down(w1) /\ w3 = Down(w2)
        /\ w4 = Down(w3) /\ w5 = Down(w4) /\ w6 = Down(w5)
  OBVIOUS
<1>2. PICK w : w = [k \in 0..6 |-> IF k = 0 THEN w0 ELSE IF k = 1 THEN w1 ELSE IF k = 2 THEN w2
                                   ELSE IF k = 3 THEN w3 ELSE IF k = 4 THEN w4
                                   ELSE IF k = 5 THEN w5 ELSE w6]
  OBVIOUS
<1>3. ASSUME NEW k \in 0..6, k # 0 PROVE w[k] = Down(w[k - 1])
  <2>1. k \in {1, 2, 3, 4, 5, 6}
    BY <1>3
  <2>2. /\ w[0] = w0 /\ w[1] = w1 /\ w[2] = w2 /\ w[3] = w3 /\ w[4] = w4 /\ w[5] = w5 /\ w[6] = w6
    BY <1>2
  <2>3. 1 - 1 = 0 /\ 2 - 1 = 1 /\ 3 - 1 = 2 /\ 4 - 1 = 3 /\ 5 - 1 = 4 /\ 6 - 1 = 5
    OBVIOUS
  <2> QED  BY <1>1, <2>1, <2>2, <2>3
<1>4. Walks(w)
  <2>1. w = [k \in 0..6 |-> w[k]] /\ w[0] = {a}
    BY <1>1, <1>2
  <2> QED  BY <1>3, <2>1 DEF DeepestChain
<1>5. Reached(a) = CHOOSE v : Walks(v)
  BY DEF Reached, Down
<1> HIDE DEF Walks
<1>6. Walks(Reached(a))
  BY <1>4, <1>5
<1> QED  BY <1>6 DEF Walks

LEMMA WalkGoesDown ==
    ASSUME NEW a
    PROVE  Reached(a)[0] = {a} /\ \A k \in 0..5 : Reached(a)[k + 1] = Down(Reached(a)[k])
<1>1. PICK w : w = Reached(a)
  OBVIOUS
<1>2. w = [k \in 0..6 |-> IF k = 0 THEN {a} ELSE Down(w[k - 1])]
  BY <1>1, WalkIsDefined DEF DeepestChain
<1>3. w[0] = {a}
  BY <1>2
<1>4. ASSUME NEW k \in 0..5 PROVE w[k + 1] = Down(w[k])
  <2>1. k + 1 \in 0..6 /\ k + 1 # 0 /\ (k + 1) - 1 = k
    OBVIOUS
  <2> QED  BY <1>2, <2>1
<1> QED  BY <1>1, <1>3, <1>4

(* What is walked from a row: the row, and unless it is a lead's what is   *)
(* walked from those who report to it.                                     *)
Branches(a, k) ==
    {a} \cup (IF RoleOf[a] = "LEAD_FACULTY" THEN {} ELSE UNION {Reached(b)[k] : b \in Reporting(a)})

LEMMA BranchesGoDown ==
    ASSUME NEW a, NEW k \in 0..5,
           \A b : b \in Reached(b)[k]
    PROVE  Down(Branches(a, k)) = Branches(a, k + 1)
<1>1. ASSUME NEW b PROVE Reached(b)[k + 1] = Down(Reached(b)[k])
  BY WalkGoesDown
<1>2. CASE RoleOf[a] = "LEAD_FACULTY"
  BY <1>2 DEF Branches, Down, WalkedThrough
<1>3. CASE RoleOf[a] # "LEAD_FACULTY"
  <2> DEFINE below == UNION {Reached(b)[k] : b \in Reporting(a)}
             beneath == UNION {Down(Reached(b)[k]) : b \in Reporting(a)}
  <2>1. Branches(a, k) = {a} \cup below /\ Branches(a, k + 1) = {a} \cup beneath
    <3>1. beneath = UNION {Reached(b)[k + 1] : b \in Reporting(a)}
      <4>1. {Down(Reached(b)[k]) : b \in Reporting(a)} = {Reached(b)[k + 1] : b \in Reporting(a)}
        BY <1>1
      <4> QED  BY <4>1
    <3> QED  BY <1>3, <3>1 DEF Branches
  <2>2. Down({a} \cup below) \subseteq {a} \cup beneath
    <3> SUFFICES ASSUME NEW c \in Down({a} \cup below), c # a
                 PROVE  c \in beneath
      OBVIOUS
    <3>1. CASE c \in below
      <4>1. PICK b \in Reporting(a) : c \in Reached(b)[k]
        BY <3>1
      <4>2. c \in Down(Reached(b)[k])
        BY <4>1 DEF Down
      <4> QED  BY <4>1, <4>2
    <3>2. CASE c \in Reporting(a)
      <4>1. c \in Down(Reached(c)[k])
        BY DEF Down
      <4> QED  BY <3>2, <4>1
    <3>3. CASE c \notin below /\ c \notin Reporting(a)
      <4>1. c \in granted /\ reportsTo[c] \in WalkedThrough({a} \cup below) /\ reportsTo[c] # a
        BY <3>3 DEF Down, Reporting
      <4>2. PICK b \in Reporting(a) : reportsTo[c] \in Reached(b)[k]
        BY <4>1 DEF WalkedThrough
      <4>3. c \in Down(Reached(b)[k])
        BY <4>1, <4>2 DEF Down, WalkedThrough
      <4> QED  BY <4>2, <4>3
    <3> QED  BY <3>1, <3>2, <3>3
  <2>3. ASSUME NEW c \in {a} \cup beneath PROVE c \in Down({a} \cup below)
    <3>1. CASE c = a
      BY <3>1 DEF Down
    <3>2. CASE c # a
      <4>1. PICK b \in Reporting(a) : c \in Down(Reached(b)[k])
        BY <3>2
      <4>2. Reached(b)[k] \subseteq {a} \cup below
        BY <4>1
      <4> HIDE DEF below
      <4> QED  BY <4>1, <4>2 DEF Down, WalkedThrough
    <3> QED  BY <3>1, <3>2
  <2> QED  BY <2>1, <2>2, <2>3
<1> QED  BY <1>2, <1>3

LEMMA WalkKeepsItsStart ==
    ASSUME NEW a, NEW k \in 0..6
    PROVE  a \in Reached(a)[k]
<1>0. \A j \in 0..5 : a \in Reached(a)[j] => a \in Reached(a)[j + 1]
  BY WalkGoesDown DEF Down
<1>1. a \in Reached(a)[0]
  BY WalkGoesDown
<1>2. /\ 0 + 1 = 1 /\ 1 + 1 = 2 /\ 2 + 1 = 3 /\ 3 + 1 = 4 /\ 4 + 1 = 5 /\ 5 + 1 = 6
      /\ 0 \in 0..5 /\ 1 \in 0..5 /\ 2 \in 0..5 /\ 3 \in 0..5 /\ 4 \in 0..5 /\ 5 \in 0..5
      /\ k \in {0, 1, 2, 3, 4, 5, 6}
  OBVIOUS
<1> QED  BY <1>0, <1>1, <1>2, Zenon

LEMMA WalkBranches ==
    ASSUME NEW a, NEW k \in 0..5
    PROVE  Reached(a)[k + 1] = Branches(a, k)
<1> DEFINE Same(j) == Reached(a)[j + 1] = Branches(a, j)
<1>1. Same(0)
  <2>1. Reached(a)[0 + 1] = Down({a})
    <3>1. 0 \in 0..5
      OBVIOUS
    <3>2. Reached(a)[0 + 1] = Down(Reached(a)[0]) /\ Reached(a)[0] = {a}
      BY <3>1, WalkGoesDown, Zenon
    <3> QED  BY <3>2
  <2>2. UNION {Reached(b)[0] : b \in Reporting(a)} = Reporting(a)
    <3>1. \A b : Reached(b)[0] = {b}
      BY WalkGoesDown
    <3>2. {Reached(b)[0] : b \in Reporting(a)} = {{b} : b \in Reporting(a)}
      BY <3>1
    <3> QED  BY <3>2
  <2>3. Down({a}) = {a} \cup (IF RoleOf[a] = "LEAD_FACULTY" THEN {} ELSE Reporting(a))
    BY DEF Down, WalkedThrough, Reporting
  <2>4. Branches(a, 0) = {a} \cup (IF RoleOf[a] = "LEAD_FACULTY" THEN {} ELSE Reporting(a))
    BY <2>2 DEF Branches
  <2> QED  BY <2>1, <2>3, <2>4
<1>2. ASSUME NEW j \in 0..4, Same(j) PROVE Same(j + 1)
  <2>1. Reached(a)[(j + 1) + 1] = Down(Reached(a)[j + 1])
    BY WalkGoesDown
  <2>2. \A b : b \in Reached(b)[j]
    BY WalkKeepsItsStart
  <2> QED  BY <1>2, <2>1, <2>2, BranchesGoDown
<1> HIDE DEF Same
<1>3. /\ 0 + 1 = 1 /\ 1 + 1 = 2 /\ 2 + 1 = 3 /\ 3 + 1 = 4 /\ 4 + 1 = 5
      /\ 0 \in 0..4 /\ 1 \in 0..4 /\ 2 \in 0..4 /\ 3 \in 0..4 /\ 4 \in 0..4
      /\ k \in {0, 1, 2, 3, 4, 5}
  OBVIOUS
<1>4. Same(k)
  BY <1>1, <1>2, <1>3, Zenon
<1> QED  BY <1>4 DEF Same

(* The editor lets a role report only to one above it.                     *)
EdgesClimb ==
    \A a \in Assignments : \A b \in Reporting(a) : Rank[RoleOf[b]] < Rank[RoleOf[a]]

RowsAreAssignments == granted \subseteq Assignments

LEMMA RanksAre ==
    ASSUME NEW a \in Assignments
    PROVE  Rank[RoleOf[a]] \in 1..6
<1>1. RoleOf[a] \in {"INSTRUCTOR", "LEAD_FACULTY", "CHAIR", "ASSISTANT_DEAN", "DEAN", "VP_ACADEMICS"}
  BY PurviewAssumption DEF Rank
<1> QED  BY <1>1 DEF Rank

(* A walk from a row of a rank is over after so many levels less one.      *)
Stops(r) ==
    \A a \in Assignments : Rank[RoleOf[a]] <= r =>
      \A k \in r..6 : Reached(a)[k] = Reached(a)[r - 1]

LEMMA WalksStop ==
    ASSUME RowsAreAssignments, EdgesClimb, NEW r \in 1..6
    PROVE  Stops(r)
<1>1. Stops(1)
  <2> SUFFICES ASSUME NEW a \in Assignments, Rank[RoleOf[a]] <= 1, NEW k \in 1..6
               PROVE  Reached(a)[k] = Reached(a)[0]
    BY DEF Stops
  <2>1. Reporting(a) = {}
    <3> SUFFICES ASSUME NEW b \in Reporting(a) PROVE FALSE
      OBVIOUS
    <3>1. b \in Assignments
      BY DEF Reporting, RowsAreAssignments
    <3> QED  BY <3>1, RanksAre DEF EdgesClimb
  <2>2. k - 1 \in 0..5 /\ (k - 1) + 1 = k
    OBVIOUS
  <2>3. Reached(a)[k] = Branches(a, k - 1)
    BY <2>2, WalkBranches
  <2>4. Branches(a, k - 1) = {a}
    BY <2>1, Zenon DEF Branches
  <2> QED  BY <2>3, <2>4, WalkGoesDown
<1>2. ASSUME NEW q \in 1..5, Stops(q) PROVE Stops(q + 1)
  <2> SUFFICES ASSUME NEW a \in Assignments, Rank[RoleOf[a]] <= q + 1, NEW k \in (q + 1)..6
               PROVE  Reached(a)[k] = Reached(a)[(q + 1) - 1]
    BY DEF Stops
  <2>1. /\ k - 1 \in 0..5 /\ (k - 1) + 1 = k /\ k - 1 \in q..6
        /\ q - 1 \in 0..5 /\ (q - 1) + 1 = q /\ (q + 1) - 1 = q
    OBVIOUS
  <2>2. ASSUME NEW b \in Reporting(a) PROVE Reached(b)[k - 1] = Reached(b)[q - 1]
    <3>1. b \in Assignments
      BY DEF Reporting, RowsAreAssignments
    <3>2. Rank[RoleOf[b]] <= q
      BY <3>1, RanksAre DEF EdgesClimb
    <3> QED  BY <1>2, <2>1, <3>1, <3>2 DEF Stops
  <2>3. {Reached(b)[k - 1] : b \in Reporting(a)} = {Reached(b)[q - 1] : b \in Reporting(a)}
    BY <2>2
  <2>4. Branches(a, k - 1) = Branches(a, q - 1)
    BY <2>3, Zenon DEF Branches
  <2>5. Reached(a)[(k - 1) + 1] = Branches(a, k - 1) /\ Reached(a)[(q - 1) + 1] = Branches(a, q - 1)
    BY <2>1, WalkBranches
  <2> QED  BY <2>1, <2>4, <2>5
<1>3. /\ 1 + 1 = 2 /\ 2 + 1 = 3 /\ 3 + 1 = 4 /\ 4 + 1 = 5 /\ 5 + 1 = 6
      /\ 1 \in 1..5 /\ 2 \in 1..5 /\ 3 \in 1..5 /\ 4 \in 1..5 /\ 5 \in 1..5
      /\ r \in {1, 2, 3, 4, 5, 6}
  OBVIOUS
<1> QED  BY <1>1, <1>2, <1>3, Zenon

(* The walk is over before its last level, and what it reaches is the row  *)
(* and what is reached from those who report to it.                        *)
LEMMA WalkIsTheTree ==
    ASSUME RowsAreAssignments, EdgesClimb, NEW a \in Assignments
    PROVE  /\ Reached(a)[6] = Reached(a)[5]
           /\ Reached(a)[6] = Branches(a, 6)
<1>1. Reached(a)[6] = Reached(a)[5]
  <2>1. Stops(6) /\ 6 \in 6..6 /\ 6 - 1 = 5 /\ Rank[RoleOf[a]] <= 6
    BY WalksStop, RanksAre
  <2> QED  BY <2>1 DEF Stops
<1>2. ASSUME NEW b \in Reporting(a) PROVE Reached(b)[5] = Reached(b)[6]
  <2>1. b \in Assignments
    BY DEF Reporting, RowsAreAssignments
  <2>2. Rank[RoleOf[b]] <= 5
    BY <2>1, RanksAre DEF EdgesClimb
  <2>3. Stops(5) /\ 5 \in 5..6 /\ 6 \in 5..6
    BY WalksStop
  <2> QED  BY <2>1, <2>2, <2>3 DEF Stops
<1>3. Reached(a)[5 + 1] = Branches(a, 5)
  <2>1. 5 \in 0..5
    OBVIOUS
  <2> QED  BY <2>1, WalkBranches
<1>4. {Reached(b)[5] : b \in Reporting(a)} = {Reached(b)[6] : b \in Reporting(a)}
  BY <1>2
<1>5. Branches(a, 5) = Branches(a, 6)
  BY <1>4, Zenon DEF Branches
<1> QED  BY <1>1, <1>3, <1>5

(* The grants of several rows are those of each.                           *)
LEMMA GrantsAddUp ==
    ASSUME NEW as
    PROVE  OwnGrants(as) = UNION {OwnGrants({a}) : a \in as}
<1>1. ASSUME NEW n \in OwnGrants(as) PROVE \E a \in as : n \in OwnGrants({a})
  <2>1. CASE n \in LeadGrant({HolderOf[a] : a \in Holding(as, "LEAD_FACULTY")})
    <3>1. PICK c \in OrgCourses : c \in PathOf[n] /\ leads[c] \in {HolderOf[a] : a \in Holding(as, "LEAD_FACULTY")}
      BY <2>1 DEF LeadGrant, Subtree
    <3>2. PICK a \in Holding(as, "LEAD_FACULTY") : leads[c] = HolderOf[a]
      BY <3>1
    <3>3. a \in as /\ n \in LeadGrant({HolderOf[b] : b \in Holding({a}, "LEAD_FACULTY")})
      BY <2>1, <3>1, <3>2 DEF LeadGrant, Subtree, Holding
    <3> QED  BY <3>3 DEF OwnGrants
  <2>2. CASE n \in Subtree({ScopeOf[a] : a \in {b \in as : RoleOf[b] \in RootedRoles}})
    <3>1. PICK a \in as : RoleOf[a] \in RootedRoles /\ ScopeOf[a] \in PathOf[n]
      BY <2>2 DEF Subtree
    <3>2. n \in Subtree({ScopeOf[b] : b \in {b \in {a} : RoleOf[b] \in RootedRoles}})
      BY <2>2, <3>1 DEF Subtree
    <3> QED  BY <3>2 DEF OwnGrants
  <2> QED  BY <2>1, <2>2 DEF OwnGrants
<1>2. ASSUME NEW a \in as PROVE OwnGrants({a}) \subseteq OwnGrants(as)
  <2>1. Holding({a}, "LEAD_FACULTY") \subseteq Holding(as, "LEAD_FACULTY")
    BY DEF Holding
  <2>2. LeadGrant({HolderOf[b] : b \in Holding({a}, "LEAD_FACULTY")})
          \subseteq LeadGrant({HolderOf[b] : b \in Holding(as, "LEAD_FACULTY")})
    BY <2>1 DEF LeadGrant, Subtree
  <2>3. Subtree({ScopeOf[b] : b \in {c \in {a} : RoleOf[c] \in RootedRoles}})
          \subseteq Subtree({ScopeOf[b] : b \in {c \in as : RoleOf[c] \in RootedRoles}})
    BY DEF Subtree
  <2> QED  BY <2>2, <2>3 DEF OwnGrants
<1> QED  BY <1>1, <1>2

(* What PurviewIsTheChains asks of an assignment: its own grants and what  *)
(* those reporting to it have, but for a lead's, whom nobody is walked     *)
(* below.                                                                  *)
Promises(f) ==
    f = [a \in Assignments |->
           OwnGrants({a}) \cup
             (IF RoleOf[a] = "LEAD_FACULTY" THEN {} ELSE UNION {f[b] : b \in Reporting(a)})]

LEMMA PurviewBranches ==
    ASSUME RowsAreAssignments, EdgesClimb, NEW a \in Assignments
    PROVE  TransitivePurview(a) =
             OwnGrants({a}) \cup
               (IF RoleOf[a] = "LEAD_FACULTY" THEN {}
                ELSE UNION {TransitivePurview(b) : b \in Reporting(a)})
<1>1. ASSUME NEW b PROVE TransitivePurview(b) = UNION {OwnGrants({c}) : c \in Reached(b)[6]}
  BY GrantsAddUp DEF TransitivePurview, ClampedSubtree, DeepestChain
<1>2. Reached(a)[6] = Branches(a, 6)
  BY WalkIsTheTree
<1>3. CASE RoleOf[a] = "LEAD_FACULTY"
  <2>1. Reached(a)[6] = {a}
    BY <1>2, <1>3 DEF Branches
  <2> QED  BY <1>1, <1>3, <2>1
<1>4. CASE RoleOf[a] # "LEAD_FACULTY"
  <2>1. Reached(a)[6] = {a} \cup UNION {Reached(b)[6] : b \in Reporting(a)}
    BY <1>2, <1>4 DEF Branches
  <2>2. \A n : n \in TransitivePurview(a) <=>
                 \/ n \in OwnGrants({a})
                 \/ \E b \in Reporting(a) : \E c \in Reached(b)[6] : n \in OwnGrants({c})
    BY <1>1, <2>1
  <2>3. \A n : n \in TransitivePurview(a) <=>
                 n \in OwnGrants({a}) \/ \E b \in Reporting(a) : n \in TransitivePurview(b)
    BY <1>1, <2>2
  <2> QED  BY <1>4, <2>3
<1> QED  BY <1>3, <1>4

LEMMA PromiseIsKept ==
    ASSUME RowsAreAssignments, EdgesClimb
    PROVE  Promises(PromisedPurview)
<1> DEFINE p == [a \in Assignments |-> TransitivePurview(a)]
<1>1. ASSUME NEW a \in Assignments
      PROVE  p[a] = OwnGrants({a}) \cup
                      (IF RoleOf[a] = "LEAD_FACULTY" THEN {} ELSE UNION {p[b] : b \in Reporting(a)})
  <2>1. {p[b] : b \in Reporting(a)} = {TransitivePurview(b) : b \in Reporting(a)}
    BY DEF Reporting, RowsAreAssignments
  <2>2. p[a] = TransitivePurview(a)
    OBVIOUS
  <2> HIDE DEF p
  <2> QED  BY <2>1, <2>2, PurviewBranches
<1>2. p = [a \in Assignments |-> p[a]]
  OBVIOUS
<1> HIDE DEF p
<1>3. Promises(p)
  BY <1>1, <1>2 DEF Promises
<1>4. PromisedPurview = CHOOSE f : Promises(f)
  BY DEF PromisedPurview, Promises
<1> QED  BY <1>3, <1>4

LEMMA WalksKeepThePromise ==
    ASSUME RowsAreAssignments, EdgesClimb, NEW r \in 1..6
    PROVE  \A a \in Assignments : Rank[RoleOf[a]] <= r => TransitivePurview(a) = PromisedPurview[a]
<1> DEFINE Kept(q) ==
      \A a \in Assignments : Rank[RoleOf[a]] <= q => TransitivePurview(a) = PromisedPurview[a]
<1>1. ASSUME NEW a \in Assignments,
             \A b \in Reporting(a) : TransitivePurview(b) = PromisedPurview[b]
      PROVE  TransitivePurview(a) = PromisedPurview[a]
  <2>1. PromisedPurview[a] =
          OwnGrants({a}) \cup
            (IF RoleOf[a] = "LEAD_FACULTY" THEN {} ELSE UNION {PromisedPurview[b] : b \in Reporting(a)})
    BY PromiseIsKept DEF Promises
  <2>2. {TransitivePurview(b) : b \in Reporting(a)} = {PromisedPurview[b] : b \in Reporting(a)}
    BY <1>1
  <2> QED  BY <2>1, <2>2, PurviewBranches
<1>2. ASSUME NEW q \in 0..5, Kept(q) PROVE Kept(q + 1)
  <2> SUFFICES ASSUME NEW a \in Assignments, Rank[RoleOf[a]] <= q + 1
               PROVE  TransitivePurview(a) = PromisedPurview[a]
    OBVIOUS
  <2>1. ASSUME NEW b \in Reporting(a) PROVE TransitivePurview(b) = PromisedPurview[b]
    <3>1. b \in Assignments
      BY DEF Reporting, RowsAreAssignments
    <3>2. Rank[RoleOf[b]] <= q
      BY <3>1, RanksAre DEF EdgesClimb
    <3> QED  BY <1>2, <3>1, <3>2
  <2> QED  BY <1>1, <2>1
<1>3. Kept(0)
  BY RanksAre
<1> HIDE DEF Kept
<1>4. /\ 0 + 1 = 1 /\ 1 + 1 = 2 /\ 2 + 1 = 3 /\ 3 + 1 = 4 /\ 4 + 1 = 5 /\ 5 + 1 = 6
      /\ 0 \in 0..5 /\ 1 \in 0..5 /\ 2 \in 0..5 /\ 3 \in 0..5 /\ 4 \in 0..5 /\ 5 \in 0..5
      /\ r \in {1, 2, 3, 4, 5, 6}
  OBVIOUS
<1>5. Kept(r)
  BY <1>2, <1>3, <1>4, Zenon
<1> QED  BY <1>5 DEF Kept

LEMMA ChainsClimb ==
    ASSUME RowsAreAssignments, EdgesClimb
    PROVE  PurviewIsTheChains
<1> SUFFICES ASSUME NEW a \in granted
             PROVE  TransitivePurview(a) = PromisedPurview[a] /\ ~WalkIsRefused(a)
  BY DEF PurviewIsTheChains
<1>1. a \in Assignments
  BY DEF RowsAreAssignments
<1>2. TransitivePurview(a) = PromisedPurview[a]
  <2>1. 6 \in 1..6 /\ Rank[RoleOf[a]] <= 6
    BY <1>1, RanksAre
  <2> QED  BY <1>1, <2>1, WalksKeepThePromise
<1>3. Reached(a)[DeepestChain] = Reached(a)[DeepestChain - 1]
  BY <1>1, WalkIsTheTree DEF DeepestChain
<1>4. ~WalkIsRefused(a)
  BY <1>3 DEF WalkIsRefused, ClampedSubtree, WalkedThrough
<1> QED  BY <1>2, <1>4

(* The editor keeps every edge climbing a rank.                            *)
ClimbInv ==
    /\ RowsAreAssignments
    /\ reportsTo \in [Assignments -> Assignments \cup {NoParent}]
    /\ EdgesClimb

LEMMA ClimbInvInit == PurviewInit => ClimbInv
<1>1. ASSUME PurviewInit, NEW a \in Assignments, NEW b \in Reporting(a)
      PROVE  Rank[RoleOf[b]] < Rank[RoleOf[a]]
  <2>1. b \in SeededGrants /\ SeededEdges[b] = a /\ a # NoParent
    BY <1>1, PurviewAssumption DEF PurviewInit, Reporting
  <2> QED  BY <2>1, SeedAssumption
<1> QED  BY <1>1, SeedAssumption DEF PurviewInit, ClimbInv, RowsAreAssignments, EdgesClimb

LEMMA ClimbInvKept == ClimbInv /\ [PurviewNext]_purviewVars => ClimbInv'
<1> SUFFICES ASSUME ClimbInv, [PurviewNext]_purviewVars PROVE ClimbInv'
  OBVIOUS
<1> USE DEF ClimbInv, RowsAreAssignments, EdgesClimb, Reporting
<1>1. ASSUME NEW a \in Assignments, GrantHat(a) \/ RosterGrants(a)
      PROVE  ClimbInv'
  <2>1. granted' = granted \cup {a} /\ reportsTo' = [reportsTo EXCEPT ![a] = NoParent]
    BY <1>1 DEF GrantHat, RosterGrants
  <2> QED  BY <2>1, PurviewAssumption
<1>2. ASSUME NEW a \in Assignments, RevokeHat(a) \/ RosterEnds(a)
      PROVE  ClimbInv'
  BY <1>2 DEF RevokeHat, RosterEnds
<1>3. ASSUME NEW a \in Assignments, NEW b \in Assignments \cup {NoParent}, SetReportsTo(a, b)
      PROVE  ClimbInv'
  <2>1. /\ granted' = granted /\ reportsTo' = [reportsTo EXCEPT ![a] = b]
        /\ b # NoParent => Rank[RoleOf[a]] < Rank[RoleOf[b]]
    BY <1>3 DEF SetReportsTo
  <2> QED  BY <2>1, PurviewAssumption
<1>4. ASSUME UNCHANGED <<granted, reportsTo>>
      PROVE  ClimbInv'
  BY <1>4
<1> QED
  BY <1>1, <1>2, <1>3, <1>4
  DEF PurviewNext, UnmapCourse, MapCourse, InstructorLaunches, LeaderLaunches, LookUp, CheckPurview,
      BindContext, LaunchFails, graphVars, purviewVars

(* Whatever the editor makes of the graph, the walk by six levels computes *)
(* what SPEC 2.1 defines by recursion and is never refused: an edge climbs *)
(* a rank, so a chain is over before the walk is (authz.py:982-1058).      *)
THEOREM WalksComputeThePurview == PurviewSpec => []PurviewIsTheChains
<1>1. ClimbInv => PurviewIsTheChains
  BY ChainsClimb DEF ClimbInv
<1> QED  BY <1>1, ClimbInvInit, ClimbInvKept, PTL DEF PurviewSpec

-----------------------------------------------------------------------------
USE PurviewAssumption

(* The editor keeps the mapping inside the assignments: whoever leads a    *)
(* course holds the role.                                                  *)
LeadsHoldTheRole ==
    \A c \in OrgCourses : leads[c] # NoLead => Holding(HatsOf(leads[c]), "LEAD_FACULTY") # {}

TeachingIsRemembered ==
    \A t \in everTaught : t[2] \in TaughtNow(t[1]) \/ t \in endedTeaching

GraphInv ==
    /\ granted \subseteq Assignments
    /\ leads \in [OrgCourses -> Persons \cup {NoLead}]
    /\ org \subseteq OrgNodes
    /\ everTaught \subseteq Persons \X OrgNodes
    /\ LeadsHoldTheRole
    /\ TeachingIsRemembered

-----------------------------------------------------------------------------
LEMMA ReviewedAsLeadIsTheMapping ==
    ASSUME NEW p \in Persons, NEW c \in OrgCourses \cap org
    PROVE  c \in ReviewedAsLead(p) <=>
             leads[c] = p /\ Holding(HatsOf(p), "LEAD_FACULTY") # {}
<1> DEFINE led == {d \in OrgCourses : leads[d] \in {p}}
<1>1. PathOf[c] \cap led # {} <=> c \in led
  <2>1. PathOf[c] \cap OrgCourses = {c}
    OBVIOUS
  <2> QED  BY <2>1
<1>2. c \in LeadGrant({p}) <=> leads[c] = p
  BY <1>1 DEF LeadGrant, Subtree
<1> QED  BY <1>2 DEF ReviewedAsLead

LEMMA ChairedIsTheDepartment ==
    ASSUME NEW p \in Persons, NEW c \in OrgCourses \cap org
    PROVE  c \in ChairedCourses(p) <=>
             \E a \in Holding(HatsOf(p), "CHAIR") : ScopeOf[a] \in PathOf[c]
BY DEF ChairedCourses, Subtree

LEMMA MappingDecidesTheReviewer ==
    ASSUME GraphInv
    PROVE  OneReviewerPerCourse
<1> SUFFICES ASSUME NEW c \in OrgCourses \cap org
             PROVE  LET covers == [p \in Persons |-> LeadReviewCourses(p)]
                        Chairs == {p \in Persons : \E a \in Holding(HatsOf(p), "CHAIR") :
                                                      ScopeOf[a] \in PathOf[c]}
                        Reviewers(role) ==
                          {p \in Persons : c \in DOMAIN covers[p] /\ covers[p][c] = role}
                    IN  IF leads[c] = NoLead
                        THEN Reviewers("CHAIR") = Chairs /\ Reviewers("LEAD_FACULTY") = {}
                        ELSE /\ Reviewers("LEAD_FACULTY") = {leads[c]}
                             /\ Reviewers("CHAIR") = {}
                             /\ \A p \in Chairs : c \in ChairedWithALead(p)
  BY DEF OneReviewerPerCourse
<1> DEFINE Chair(p) == \E a \in Holding(HatsOf(p), "CHAIR") : ScopeOf[a] \in PathOf[c]
           Lead(p) == leads[c] = p /\ Holding(HatsOf(p), "LEAD_FACULTY") # {}
<1>1. ASSUME NEW p \in Persons
      PROVE  /\ c \in DOMAIN LeadReviewCourses(p) <=> Lead(p) \/ (Chair(p) /\ leads[c] = NoLead)
             /\ c \in DOMAIN LeadReviewCourses(p) =>
                  LeadReviewCourses(p)[c] =
                    IF Chair(p) /\ leads[c] = NoLead THEN "CHAIR" ELSE "LEAD_FACULTY"
             /\ Chair(p) /\ leads[c] # NoLead => c \in ChairedWithALead(p)
  <2>1. c \in ReviewedAsLead(p) <=> Lead(p)
    BY ReviewedAsLeadIsTheMapping
  <2>2. c \in ChairedCourses(p) <=> Chair(p)
    BY ChairedIsTheDepartment
  <2>3. c \in ReviewedAsChair(p) <=> Chair(p) /\ leads[c] = NoLead
    BY <2>2 DEF ReviewedAsChair
  <2> QED  BY <2>1, <2>2, <2>3 DEF LeadReviewCourses, ChairedWithALead
<1>2. leads[c] # NoLead => leads[c] \in Persons /\ Lead(leads[c])
  BY DEF GraphInv, LeadsHoldTheRole
<1> HIDE DEF Chair, Lead
<1>3. ASSUME NEW p \in Persons PROVE Lead(p) => leads[c] = p
  BY DEF Lead
<1> DEFINE covers == [p \in Persons |-> LeadReviewCourses(p)]
           Reviewers(role) == {p \in Persons : c \in DOMAIN covers[p] /\ covers[p][c] = role}
           Chairs == {p \in Persons : \E a \in Holding(HatsOf(p), "CHAIR") :
                                         ScopeOf[a] \in PathOf[c]}
<1>4. ASSUME NEW p \in Persons
      PROVE  /\ p \in Reviewers("CHAIR") <=> Chair(p) /\ leads[c] = NoLead
             /\ p \in Reviewers("LEAD_FACULTY") <=> Lead(p) /\ leads[c] # NoLead
             /\ p \in Chairs <=> Chair(p)
  <2>1. covers[p] = LeadReviewCourses(p)
    OBVIOUS
  <2>2. p \in Chairs <=> Chair(p)
    BY DEF Chair
  <2>3. Lead(p) => leads[c] # NoLead
    BY <1>3
  <2> HIDE DEF covers, Chairs
  <2> QED  BY <1>1, <2>1, <2>2, <2>3
<1> HIDE DEF covers, Chairs, Reviewers
<1>5. CASE leads[c] = NoLead
  <2>1. Reviewers("CHAIR") = Chairs /\ Reviewers("LEAD_FACULTY") = {}
    BY <1>4, <1>5 DEF Reviewers, Chairs
  <2> QED  BY <2>1, <1>5 DEF covers, Reviewers, Chairs
<1>6. CASE leads[c] # NoLead
  <2>1. /\ Reviewers("LEAD_FACULTY") = {leads[c]}
        /\ Reviewers("CHAIR") = {}
        /\ \A p \in Chairs : c \in ChairedWithALead(p)
    BY <1>1, <1>2, <1>3, <1>4, <1>6 DEF Reviewers, Chairs
  <2> QED  BY <2>1, <1>6 DEF covers, Reviewers, Chairs
<1> QED  BY <1>5, <1>6

-----------------------------------------------------------------------------
LEMMA NothingOnceTaughtIsShown ==
    ASSUME GraphInv
    PROVE  OwnSectionsStayOut
<1> SUFFICES ASSUME NEW p \in Persons, NEW s \in QueueSections(p) \cup LogSections(p),
                    <<p, s>> \in everTaught
             PROVE  FALSE
  BY DEF OwnSectionsStayOut
<1>1. s \in OrgSections /\ s \notin TaughtOrOnceTaught(p)
  BY DEF QueueSections, LogSections, ReviewedSections
<1> QED  BY <1>1 DEF TaughtOrOnceTaught, GraphInv, TeachingIsRemembered

-----------------------------------------------------------------------------
(* What a launch may find is its section's course, prefix and itself; one  *)
(* that is covered has something in its launcher's purview, and what is    *)
(* bound has its rows.                                                     *)
RowsOf(s) == {s, CourseAbove[s], PrefixAbove[s]}

Launches ==
    [person : Persons, section : OrgSections, stage : {"admitted", "looked_up", "covered"},
     found : SUBSET OrgNodes, by : SUBSET OrgNodes]

LaunchInv ==
    /\ launches \subseteq Launches
    /\ \A l \in launches :
          /\ l.found \subseteq RowsOf(l.section) /\ l.by \subseteq l.found
          /\ l.stage = "covered" <=> l.by # {}
    /\ \A b \in bound :
          /\ b.section \in OrgSections /\ b.section \in org
          /\ b.by # {} /\ b.by \subseteq RowsOf(b.section)

LEMMA LaunchInvInit == PurviewInit => LaunchInv
  BY DEF PurviewInit, LaunchInv

LEMMA LaunchInvKept ==
    ASSUME LaunchInv, [PurviewNext]_purviewVars
    PROVE  LaunchInv'
<1> USE DEF LaunchInv
<1>1. ASSUME launches' = launches, bound' = bound, org \subseteq org'
      PROVE  LaunchInv'
  BY <1>1
<1>2. ASSUME NEW p \in Persons, NEW s \in OrgSections, LeaderLaunches(p, s)
      PROVE  LaunchInv'
  <2> DEFINE l == [person |-> p, section |-> s, stage |-> "admitted", found |-> {}, by |-> {}]
  <2>1. /\ l \in Launches
        /\ l.found = {} /\ l.by = {} /\ l.stage = "admitted"
    BY DEF Launches
  <2>2. launches' = launches \cup {l} /\ bound' = bound /\ org' = org
    BY <1>2 DEF LeaderLaunches, graphVars
  <2> HIDE DEF l
  <2> QED  BY <2>1, <2>2
<1>3. ASSUME NEW l \in launches, LookUp(l)
      PROVE  LaunchInv'
  <2> DEFINE rows == {PrefixAbove[l.section]} \cup ({l.section, CourseAbove[l.section]} \cap org)
             m == [l EXCEPT !.stage = "looked_up", !.found = rows]
  <2>1. l \in Launches /\ l.by = {}
    BY <1>3 DEF LookUp
  <2>2. rows \subseteq RowsOf(l.section) /\ rows \subseteq OrgNodes
    BY <2>1 DEF RowsOf, Launches
  <2>3. /\ m \in Launches /\ m.stage = "looked_up" /\ m.section = l.section
        /\ m.found = rows /\ m.by = l.by
    BY <2>1, <2>2 DEF Launches
  <2>4. launches' = (launches \ {l}) \cup {m} /\ bound' = bound /\ org' = org
    BY <1>3 DEF LookUp, Goes, graphVars
  <2> HIDE DEF m, rows
  <2> QED  BY <2>1, <2>2, <2>3, <2>4
<1>4. ASSUME NEW l \in launches, CheckPurview(l)
      PROVE  LaunchInv'
  <2> DEFINE covered == l.found \cap ScopeOfPerson(l.person)
             m == [l EXCEPT !.stage = "covered", !.by = covered]
  <2>1. l \in Launches
    OBVIOUS
  <2>2. covered \subseteq l.found /\ covered \subseteq OrgNodes
    BY <2>1 DEF Launches
  <2>3. /\ m \in Launches /\ m.stage = "covered" /\ m.section = l.section
        /\ m.found = l.found /\ m.by = covered
    BY <2>1, <2>2 DEF Launches
  <2>4. /\ launches' = (launches \ {l}) \cup {m} /\ covered # {}
        \/ launches' = launches \ {l}
    BY <1>4 DEF CheckPurview, Goes, GrantCovers
  <2>5. bound' = bound /\ org' = org
    BY <1>4 DEF CheckPurview, graphVars
  <2> HIDE DEF m, covered
  <2> QED  BY <2>2, <2>3, <2>4, <2>5
<1>5. ASSUME NEW l \in launches, BindContext(l)
      PROVE  LaunchInv'
  <2> DEFINE b == [person |-> l.person, section |-> l.section, by |-> l.by]
  <2>1. /\ launches' = launches \ {l} /\ org' = org \cup {l.section, CourseAbove[l.section]}
        /\ bound' = bound \cup {b} /\ l.by # {}
    BY <1>5 DEF BindContext, Goes
  <2>2. b.section = l.section /\ b.by = l.by /\ l.section \in OrgSections
    BY DEF Launches
  <2> HIDE DEF b
  <2>3. b.section \in org' /\ org \subseteq org' /\ b.by \subseteq RowsOf(b.section)
    BY <2>1, <2>2
  <2> QED  BY <2>1, <2>2, <2>3
<1>6. ASSUME NEW l \in launches, LaunchFails(l)
      PROVE  LaunchInv'
  BY <1>6 DEF LaunchFails, Goes, graphVars
<1> QED
  BY <1>1, <1>2, <1>3, <1>4, <1>5, <1>6
  DEF PurviewNext, GrantHat, RevokeHat, SetReportsTo, RosterGrants, RosterEnds, UnmapCourse,
      MapCourse, InstructorLaunches, Edit, purviewVars

LEMMA GraphInvInit ==
    ASSUME PurviewInit
    PROVE  GraphInv
<1> USE SeedAssumption DEF PurviewInit
<1>1. granted \subseteq Assignments /\ org \subseteq OrgNodes
  OBVIOUS
<1>2. leads \in [OrgCourses -> Persons \cup {NoLead}]
  OBVIOUS
<1>3. everTaught \subseteq Persons \X OrgNodes
  BY <1>1 DEF Holding
<1>4. LeadsHoldTheRole
  BY <1>2 DEF LeadsHoldTheRole, Holding, HatsOf
<1>5. TeachingIsRemembered
  BY <1>1 DEF TeachingIsRemembered, TaughtNow, Holding, HatsOf
<1> QED  BY <1>1, <1>2, <1>3, <1>4, <1>5 DEF GraphInv

LEMMA GraphInvStep ==
    ASSUME GraphInv, LaunchInv, PurviewNext
    PROVE  GraphInv'
<1> USE DEF GraphInv, LeadsHoldTheRole, TeachingIsRemembered, Holding, HatsOf, TaughtNow
<1>1. ASSUME NEW a \in Assignments, GrantHat(a)
      PROVE  GraphInv'
  BY <1>1 DEF GrantHat
<1>2. ASSUME NEW a \in Assignments, RevokeHat(a)
      PROVE  GraphInv'
  <2>1. LeadsHoldTheRole'
    <3> SUFFICES ASSUME NEW c \in OrgCourses, leads[c] # NoLead
                 PROVE  \E b \in granted' : HolderOf[b] = leads[c] /\ RoleOf[b] = "LEAD_FACULTY"
      BY <1>2 DEF RevokeHat
    <3>1. PICK b \in granted : HolderOf[b] = leads[c] /\ RoleOf[b] = "LEAD_FACULTY"
      OBVIOUS
    <3>2. b # a
      BY <1>2, <3>1 DEF RevokeHat
    <3> QED  BY <1>2, <3>1, <3>2 DEF RevokeHat
  <2>2. TeachingIsRemembered'
    BY <1>2 DEF RevokeHat
  <2> QED  BY <1>2, <2>1, <2>2 DEF RevokeHat
<1>3. ASSUME NEW a \in Assignments, NEW b \in Assignments \cup {NoParent}, SetReportsTo(a, b)
      PROVE  GraphInv'
  BY <1>3 DEF SetReportsTo
<1>4. ASSUME NEW a \in Assignments, RosterGrants(a)
      PROVE  GraphInv'
  BY <1>4 DEF RosterGrants
<1>5. ASSUME NEW a \in Assignments, RosterEnds(a)
      PROVE  GraphInv'
  <2>1. LeadsHoldTheRole'
    <3> SUFFICES ASSUME NEW c \in OrgCourses, leads[c] # NoLead
                 PROVE  \E b \in granted' : HolderOf[b] = leads[c] /\ RoleOf[b] = "LEAD_FACULTY"
      BY <1>5 DEF RosterEnds
    <3>1. PICK b \in granted : HolderOf[b] = leads[c] /\ RoleOf[b] = "LEAD_FACULTY"
      OBVIOUS
    <3> QED  BY <1>5, <3>1 DEF RosterEnds
  <2>2. TeachingIsRemembered'
    BY <1>5 DEF RosterEnds
  <2> QED  BY <1>5, <2>1, <2>2 DEF RosterEnds
<1>6. ASSUME NEW c \in OrgCourses, UnmapCourse(c)
      PROVE  GraphInv'
  BY <1>6 DEF UnmapCourse
<1>7. ASSUME NEW c \in OrgCourses, NEW p \in Persons, MapCourse(c, p)
      PROVE  GraphInv'
  BY <1>7 DEF MapCourse
<1>8. ASSUME NEW s \in OrgSections, org' = org \cup {s, CourseAbove[s]},
             UNCHANGED <<granted, leads, endedTeaching, everTaught>>
      PROVE  GraphInv'
  BY <1>8
<1>9. ASSUME NEW s \in OrgSections, InstructorLaunches(s)
      PROVE  GraphInv'
  BY <1>8, <1>9 DEF InstructorLaunches
<1>10. ASSUME NEW l \in launches, BindContext(l)
       PROVE  GraphInv'
  BY <1>8, <1>10 DEF BindContext, LaunchInv, Launches
<1>11. ASSUME UNCHANGED graphVars
       PROVE  GraphInv'
  BY <1>11 DEF graphVars
<1> QED
  BY <1>1, <1>2, <1>3, <1>4, <1>5, <1>6, <1>7, <1>9, <1>10, <1>11
  DEF PurviewNext, LeaderLaunches, LookUp, CheckPurview, LaunchFails

LEMMA GraphInvKept ==
    ASSUME GraphInv, LaunchInv, [PurviewNext]_purviewVars
    PROVE  GraphInv'
<1>1. CASE UNCHANGED purviewVars
  BY <1>1 DEF purviewVars, GraphInv, LeadsHoldTheRole, TeachingIsRemembered, Holding, HatsOf, TaughtNow
<1> QED  BY <1>1, GraphInvStep

(* Courses with a lead are that lead's to review and to decide about, and  *)
(* the others their department's chairs' (authz.py:915-971).               *)
THEOREM OneReviewer == PurviewSpec => []OneReviewerPerCourse
BY GraphInvInit, GraphInvKept, LaunchInvInit, LaunchInvKept, MappingDecidesTheReviewer, PTL
DEF PurviewSpec

(* A leader's own sections, taught now or before, are in no queue and no   *)
(* log of theirs (authz.py:1257-1275).                                     *)
THEOREM NobodyReviewsTheirOwn == PurviewSpec => []OwnSectionsStayOut
BY GraphInvInit, GraphInvKept, LaunchInvInit, LaunchInvKept, NothingOnceTaughtIsShown, PTL
DEF PurviewSpec

-----------------------------------------------------------------------------
(* A grant that holds a node above a section holds the section.            *)
LEMMA GrantsReachDown ==
    ASSUME NEW s \in OrgSections, s \in org,
           NEW as, NEW n \in RowsOf(s), n \in OwnGrants(as)
    PROVE  s \in OwnGrants(as)
<1>1. n \in OrgNodes /\ s \in OrgNodes /\ PathOf[n] \subseteq PathOf[s]
  <2>1. CourseAbove[s] \in OrgCourses /\ CourseAbove[s] \in OrgNodes
    OBVIOUS
  <2>2. PathOf[CourseAbove[s]] \subseteq PathOf[s] /\ PrefixAbove[s] \in PathOf[CourseAbove[s]]
    OBVIOUS
  <2> QED  BY <2>1, <2>2 DEF RowsOf
<1>2. \A nodes : n \in Subtree(nodes) => s \in Subtree(nodes)
  BY <1>1 DEF Subtree
<1> QED  BY <1>2 DEF OwnGrants, LeadGrant

LEMMA PurviewsReachDown ==
    ASSUME NEW p, NEW s \in OrgSections, s \in org,
           NEW n \in RowsOf(s), n \in ScopeOfPerson(p)
    PROVE  s \in ScopeOfPerson(p)
<1>1. PICK a \in HatsOf(p) : RoleOf[a] \in LeadershipRoles /\ n \in TransitivePurview(a)
  BY DEF ScopeOfPerson, PurviewOver
<1>2. s \in TransitivePurview(a)
  BY <1>1, GrantsReachDown DEF TransitivePurview
<1> QED  BY <1>1, <1>2 DEF ScopeOfPerson, PurviewOver

LEMMA CoveredIsBound ==
    ASSUME LaunchInv
    PROVE  BoundIsInPurview
<1> SUFFICES ASSUME NEW b \in bound, b.by \cap ScopeOfPerson(b.person) # {}
             PROVE  b.section \in ScopeOfPerson(b.person)
  BY DEF BoundIsInPurview, LaunchInv
<1>1. PICK n \in RowsOf(b.section) : n \in ScopeOfPerson(b.person)
  BY DEF LaunchInv
<1> QED  BY <1>1, PurviewsReachDown DEF LaunchInv

(* Whatever the graph and the organization, and whoever edits them between *)
(* the check and the binding or later, a section that a leader's launch    *)
(* bound stays in that leader's purview for as long as any row does by     *)
(* which the check let it through (authz.py:1151-1220).                    *)
THEOREM LaunchesStayInPurview == PurviewSpec => []BoundIsInPurview
BY LaunchInvInit, LaunchInvKept, CoveredIsBound, PTL DEF PurviewSpec

=============================================================================
