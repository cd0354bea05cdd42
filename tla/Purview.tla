------------------------------- MODULE Purview -------------------------------
(***************************************************************************)
(* Who may read what: the people graph and the purview computed from it    *)
(* (app/services/authz.py), and its readers: the review queue and the      *)
(* exclusion log (app/services/moderation.py), the policy's setters, and   *)
(* a launch by a leader (app/services/provisioning.py).                    *)
(*                                                                         *)
(* A row of role_assignment is one of Assignments, whose person, role and  *)
(* scope never change; its parent does.  CARE and ADMIN rows stand outside *)
(* the graph and are left out.  A purview is what one graph gives: the     *)
(* code's walk is a statement a level, and what it makes of a graph edited *)
(* under it is not modelled.  An edit is one step (PeopleGraph has those   *)
(* of a mapping at the grain of their locks); a leader's launch is several. *)
(***************************************************************************)
EXTENDS Naturals

CONSTANTS
    Persons,
    Assignments,
    RoleOf, HolderOf, ScopeOf,
    OrgNodes,       \* institution, colleges, departments, prefixes, courses, sections
    OrgCourses, OrgSections,
    PathOf,         \* containment_path: a node and those above it
    CourseAbove, PrefixAbove,   \* of a section
    NoParent, NoLead,
    SeededGrants, SeededEdges, SeededLeads, SeededOrg,
    Launchable,     \* bound: the launches of leaders there may be: persons and sections
    MaxEdits        \* bound: changes of the graph, and launches of leaders

(* ADR 0044: an edge runs from a role to one above it.                     *)
Rank == [INSTRUCTOR |-> 1, LEAD_FACULTY |-> 2, CHAIR |-> 3,
         ASSISTANT_DEAN |-> 4, DEAN |-> 5, VP_ACADEMICS |-> 6]
DeepestChain == 6

LeadershipRoles == DOMAIN Rank \ {"INSTRUCTOR"}
PurviewReaders == {"ASSISTANT_DEAN", "DEAN", "VP_ACADEMICS"}

(* The roles whose grant is the subtree of their scope.  An assistant      *)
(* dean's own grant is empty, and a lead's is read off the mapping.        *)
RootedRoles == {"INSTRUCTOR", "CHAIR", "DEAN", "VP_ACADEMICS"}

ASSUME PurviewAssumption ==
    /\ RoleOf \in [Assignments -> DOMAIN Rank]
    /\ HolderOf \in [Assignments -> Persons]
    /\ ScopeOf \in [Assignments -> OrgNodes]
    /\ OrgCourses \cup OrgSections \subseteq OrgNodes
    /\ PathOf \in [OrgNodes -> SUBSET OrgNodes]
    /\ \A n \in OrgNodes : n \in PathOf[n] /\ \A m \in PathOf[n] : PathOf[m] \subseteq PathOf[n]
    /\ \A c \in OrgCourses : PathOf[c] \cap OrgCourses = {c}
    /\ CourseAbove \in [OrgSections -> OrgCourses]
    /\ PrefixAbove \in [OrgSections -> OrgNodes]
    /\ \A s \in OrgSections :
          /\ PathOf[s] = {s} \cup PathOf[CourseAbove[s]]
          /\ PrefixAbove[s] \in PathOf[CourseAbove[s]]
    /\ NoParent \notin Assignments
    /\ NoLead \notin Persons
    /\ Launchable \subseteq Persons \X OrgSections
    /\ MaxEdits \in Nat

(* The graph the tool starts from (scripts/seed.py) keeps the rules the    *)
(* editor keeps.                                                           *)
ASSUME SeedAssumption ==
    /\ SeededGrants \subseteq Assignments
    /\ SeededEdges \in [Assignments -> Assignments \cup {NoParent}]
    /\ \A a \in SeededGrants : SeededEdges[a] # NoParent =>
          Rank[RoleOf[a]] < Rank[RoleOf[SeededEdges[a]]]
    /\ SeededLeads \in [OrgCourses -> Persons \cup {NoLead}]
    /\ \A c \in OrgCourses : SeededLeads[c] # NoLead =>
          \E a \in SeededGrants : HolderOf[a] = SeededLeads[c] /\ RoleOf[a] = "LEAD_FACULTY"
    /\ SeededOrg \subseteq OrgNodes

VARIABLES
    granted,        \* the rows there are
    reportsTo,      \* the parent of each row, or NoParent
    leads,          \* lead_faculty_mapping
    org,            \* the nodes there are
    endedTeaching,  \* ended_teaching_grant: persons and sections
    launches,       \* leaders' launches under way, and what each has found
    edits,          \* bound only
    everTaught,     \* history: who taught what
    bound           \* history: the launches that bound their context

purviewVars == <<granted, reportsTo, leads, org, endedTeaching, launches, edits, everTaught, bound>>

HatsOf(p) == {a \in granted : HolderOf[a] = p}
Holding(as, role) == {a \in as : RoleOf[a] = role}

Subtree(nodes) == {n \in org : PathOf[n] \cap nodes # {}}

LeadGrant(persons) == Subtree({c \in OrgCourses : leads[c] \in persons})

OwnGrants(as) ==
    LeadGrant({HolderOf[a] : a \in Holding(as, "LEAD_FACULTY")})
      \cup Subtree({ScopeOf[a] : a \in {b \in as : RoleOf[b] \in RootedRoles}})

(* For a mutant: the walk goes through leads.                              *)
WalkedEverywhere(as) == as

(* The lead clamp: a lead is reached and not walked through.               *)
WalkedThrough(as) == {a \in as : RoleOf[a] # "LEAD_FACULTY"}

(* The walk down from an assignment, so many levels deep; it is refused if *)
(* the last level still has somebody to walk through.                      *)
Reached(a) ==
    LET walk[k \in 0..DeepestChain] ==
          IF k = 0 THEN {a}
          ELSE LET reached == walk[k - 1]
                   parents == WalkedThrough(reached)
               IN  reached \cup {b \in granted : reportsTo[b] \in parents}
    IN  walk

ClampedSubtree(a) == Reached(a)[DeepestChain]
WalkIsRefused(a) == WalkedThrough(ClampedSubtree(a) \ Reached(a)[DeepestChain - 1]) # {}

TransitivePurview(a) == OwnGrants(ClampedSubtree(a))

PurviewOver(p, roles) ==
    UNION {TransitivePurview(a) : a \in {b \in HatsOf(p) : RoleOf[b] \in roles}}

(* resolve_scope, leadership_section_ids: no instructor's hat is in it.    *)
ScopeOfPerson(p) == PurviewOver(p, LeadershipRoles)

HoldsLeadership(p) == \E a \in HatsOf(p) : RoleOf[a] \in LeadershipRoles

-----------------------------------------------------------------------------
(* Review, the log, the policy.                                            *)

ChairedCourses(p) ==
    Subtree({ScopeOf[a] : a \in Holding(HatsOf(p), "CHAIR")}) \cap OrgCourses

ReviewedAsLead(p) ==
    IF Holding(HatsOf(p), "LEAD_FACULTY") = {} THEN {} ELSE LeadGrant({p}) \cap OrgCourses

(* A chair may set the policy of these, and only read that of the others   *)
(* (chaired_courses_with_a_lead).                                          *)
ReviewedAsChair(p) == {c \in ChairedCourses(p) : leads[c] = NoLead}
ChairedWithALead(p) == {c \in ChairedCourses(p) : leads[c] # NoLead}

(* lead_review_courses: the courses and the role that covers each.         *)
LeadReviewCourses(p) ==
    LET asChair == ReviewedAsChair(p) IN
    [c \in ReviewedAsLead(p) \cup asChair |-> IF c \in asChair THEN "CHAIR" ELSE "LEAD_FACULTY"]

ReviewedSections(p) ==
    LET courses == DOMAIN LeadReviewCourses(p)
    IN  {s \in OrgSections \cap org : CourseAbove[s] \in courses}

TaughtNow(p) == {ScopeOf[a] : a \in Holding(HatsOf(p), "INSTRUCTOR")}

(* Mutant: only the live grants are looked at.                             *)
TaughtStill(p) == TaughtNow(p)

TaughtOrOnceTaught(p) == TaughtNow(p) \cup {s \in OrgSections : <<p, s>> \in endedTeaching}

QueueSections(p) == ReviewedSections(p) \ TaughtOrOnceTaught(p)

LogSections(p) ==
    (ReviewedSections(p) \cup (PurviewOver(p, PurviewReaders) \cap OrgSections))
      \ TaughtOrOnceTaught(p)

-----------------------------------------------------------------------------
(* Edits of the graph (people_graph_v001.sql to v003.sql).                 *)

OneMore ==
    /\ edits < MaxEdits
    /\ edits' = edits + 1

Edit == OneMore /\ UNCHANGED <<launches, bound>>

Reporting(a) == {b \in granted : reportsTo[b] = a}

GrantHat(a) ==
    /\ Edit
    /\ a \notin granted
    /\ RoleOf[a] # "INSTRUCTOR"
    /\ ScopeOf[a] \in org
    /\ granted' = granted \cup {a}
    /\ reportsTo' = [reportsTo EXCEPT ![a] = NoParent]
    /\ UNCHANGED <<leads, org, endedTeaching, everTaught>>

(* Mutant: a lead's role goes while courses are still mapped to its holder. *)
RevokeAnyHat(a) ==
    /\ Edit
    /\ a \in granted
    /\ RoleOf[a] # "INSTRUCTOR"
    /\ Reporting(a) = {}
    /\ granted' = granted \ {a}
    /\ UNCHANGED <<reportsTo, leads, org, endedTeaching, everTaught>>

RevokeHat(a) ==
    /\ Edit
    /\ a \in granted
    /\ RoleOf[a] # "INSTRUCTOR"
    /\ RoleOf[a] = "LEAD_FACULTY" => \A c \in OrgCourses : leads[c] # HolderOf[a]
    /\ Reporting(a) = {}
    /\ granted' = granted \ {a}
    /\ UNCHANGED <<reportsTo, leads, org, endedTeaching, everTaught>>

SetReportsTo(a, parent) ==
    /\ Edit
    /\ a \in granted
    /\ RoleOf[a] # "INSTRUCTOR"
    /\ parent # NoParent => parent \in granted /\ Rank[RoleOf[a]] < Rank[RoleOf[parent]]
    /\ reportsTo' = [reportsTo EXCEPT ![a] = parent]
    /\ UNCHANGED <<granted, leads, org, endedTeaching, everTaught>>

(* A course's lead is replaced in one transaction.                         *)
MapCourse(c, p) ==
    /\ Edit
    /\ c \in org
    /\ Holding(HatsOf(p), "LEAD_FACULTY") # {}
    /\ leads' = [leads EXCEPT ![c] = p]
    /\ UNCHANGED <<granted, reportsTo, org, endedTeaching, everTaught>>

UnmapCourse(c) ==
    /\ Edit
    /\ leads[c] # NoLead
    /\ leads' = [leads EXCEPT ![c] = NoLead]
    /\ UNCHANGED <<granted, reportsTo, org, endedTeaching, everTaught>>

(* record_teaching_instructor and end_teaching_instructor.                 *)
RosterGrants(a) ==
    /\ Edit
    /\ a \notin granted
    /\ RoleOf[a] = "INSTRUCTOR"
    /\ ScopeOf[a] \in org
    /\ granted' = granted \cup {a}
    /\ reportsTo' = [reportsTo EXCEPT ![a] = NoParent]
    /\ everTaught' = everTaught \cup {<<HolderOf[a], ScopeOf[a]>>}
    /\ UNCHANGED <<leads, org, endedTeaching>>

RosterEnds(a) ==
    /\ Edit
    /\ a \in Holding(granted, "INSTRUCTOR")
    /\ granted' = granted \ {a}
    /\ endedTeaching' = endedTeaching \cup {<<HolderOf[a], ScopeOf[a]>>}
    /\ UNCHANGED <<reportsTo, leads, org, everTaught>>

(* The claim limb: whoever the platform calls an instructor of the context *)
(* is asked no more.                                                       *)
InstructorLaunches(s) ==
    /\ Edit
    /\ s \notin org
    /\ org' = org \cup {s, CourseAbove[s]}
    /\ UNCHANGED <<granted, reportsTo, leads, endedTeaching, everTaught>>

-----------------------------------------------------------------------------
(* The leadership limb: whoever holds a leadership role is let on, looks   *)
(* up the rows there are, is asked whether their purview reaches one, and  *)
(* binds once the addresses are judged; others commit in between.          *)

graphVars == <<granted, reportsTo, leads, org, endedTeaching, everTaught>>

LeaderLaunches(p, s) ==
    /\ OneMore
    /\ HoldsLeadership(p)
    /\ launches' = launches \cup {[person |-> p, section |-> s, stage |-> "admitted",
                                  found |-> {}, by |-> {}]}
    /\ UNCHANGED <<graphVars, bound>>

Goes(l, to) == launches' = (launches \ {l}) \cup to

(* The prefix has a row; the course and the section may have none yet.     *)
LookUp(l) ==
    /\ l.stage = "admitted"
    /\ LET s == l.section IN
       Goes(l, {[l EXCEPT !.stage = "looked_up",
                          !.found = {PrefixAbove[s]} \cup ({s, CourseAbove[s]} \cap org)]})
    /\ UNCHANGED <<graphVars, edits, bound>>

(* Mutant: a lead holds the prefixes of the courses they lead.             *)
CoversByPrefix(p, found) ==
    \E n \in ScopeOfPerson(p) : PathOf[n] \cap found # {}

(* leadership_grant_covers                                                 *)
GrantCovers(p, found) == found \cap ScopeOfPerson(p) # {}

(* `by' remembers what of it was in the purview at that moment.            *)
CheckPurview(l) ==
    /\ l.stage = "looked_up"
    /\ Goes(l, IF GrantCovers(l.person, l.found)
               THEN {[l EXCEPT !.stage = "covered", !.by = l.found \cap ScopeOfPerson(l.person)]}
               ELSE {})
    /\ UNCHANGED <<graphVars, edits, bound>>

BindContext(l) ==
    /\ l.stage = "covered"
    /\ Goes(l, {})
    /\ org' = org \cup {l.section, CourseAbove[l.section]}
    /\ bound' = bound \cup {[person |-> l.person, section |-> l.section, by |-> l.by]}
    /\ UNCHANGED <<granted, reportsTo, leads, endedTeaching, edits, everTaught>>

(* Another defect, or the request dies: nothing of it is kept.             *)
LaunchFails(l) ==
    /\ Goes(l, {})
    /\ UNCHANGED <<graphVars, edits, bound>>

PurviewInit ==
    /\ granted = SeededGrants
    /\ reportsTo = SeededEdges
    /\ leads = SeededLeads
    /\ org = SeededOrg
    /\ endedTeaching = {}
    /\ launches = {}
    /\ edits = 0
    /\ bound = {}
    /\ everTaught = {<<HolderOf[a], ScopeOf[a]>> : a \in Holding(SeededGrants, "INSTRUCTOR")}

PurviewNext ==
    \/ \E a \in Assignments :
          \/ GrantHat(a) \/ RevokeHat(a)
          \/ \E b \in Assignments \cup {NoParent} : SetReportsTo(a, b)
          \/ RosterGrants(a) \/ RosterEnds(a)
    \/ \E c \in OrgCourses : UnmapCourse(c) \/ \E p \in Persons : MapCourse(c, p)
    \/ \E s \in OrgSections :
          InstructorLaunches(s) \/ \E p \in Persons : <<p, s>> \in Launchable /\ LeaderLaunches(p, s)
    \/ \E l \in launches : LookUp(l) \/ CheckPurview(l) \/ BindContext(l) \/ LaunchFails(l)

PurviewSpec == PurviewInit /\ [][PurviewNext]_purviewVars

-----------------------------------------------------------------------------
(* SPEC 2.1: an assignment's purview is its own grant and the purviews of  *)
(* those that report to it, and a lead's only its own.                     *)
PromisedPurview[a \in Assignments] ==
    OwnGrants({a}) \cup
      (IF RoleOf[a] = "LEAD_FACULTY" THEN {} ELSE UNION {PromisedPurview[b] : b \in Reporting(a)})

(* The bounded walk by levels computes what the specification defines by   *)
(* recursion, whatever the editor made of the graph, and is never refused  *)
(* (authz.py:982-1058).                                                    *)
PurviewIsTheChains ==
    \A a \in granted : TransitivePurview(a) = PromisedPurview[a] /\ ~WalkIsRefused(a)

(* A course has its lead as only reviewer, or its department's chairs, as  *)
(* what they are; a chair who may not set a course's policy may read it    *)
(* (authz.py:915-974).                                                     *)
OneReviewerPerCourse ==
    LET covers == [p \in Persons |-> LeadReviewCourses(p)]
        Chairs(c) == {p \in Persons : \E a \in Holding(HatsOf(p), "CHAIR") : ScopeOf[a] \in PathOf[c]}
        Reviewers(c, role) == {p \in Persons : c \in DOMAIN covers[p] /\ covers[p][c] = role}
    IN  \A c \in OrgCourses \cap org :
          IF leads[c] = NoLead
          THEN Reviewers(c, "CHAIR") = Chairs(c) /\ Reviewers(c, "LEAD_FACULTY") = {}
          ELSE /\ Reviewers(c, "LEAD_FACULTY") = {leads[c]} /\ Reviewers(c, "CHAIR") = {}
               /\ \A p \in Chairs(c) : c \in ChairedWithALead(p)

(* Whatever hats a person gathers, neither the queue nor the log shows     *)
(* them a section they teach or ever taught (ADR 0190, authz.py:1257-1275). *)
OwnSectionsStayOut ==
    \A p \in Persons : \A s \in QueueSections(p) \cup LogSections(p) : <<p, s>> \notin everTaught

(* A section that a leader's launch bound lies in that leader's purview    *)
(* from then on, though asked about by its prefix when neither it nor its  *)
(* course was there, unless all that the check found in their purview was  *)
(* taken from them, which may happen even before the binding commits       *)
(* (authz.py:1151-1220, provisioning.py:593-653).                          *)
BoundIsInPurview ==
    \A b \in bound :
      \/ b.section \in ScopeOfPerson(b.person)
      \/ b.by # {} /\ b.by \cap ScopeOfPerson(b.person) = {}
=============================================================================
