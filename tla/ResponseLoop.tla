---------------------------- MODULE ResponseLoop ----------------------------
(***************************************************************************)
(* The response loop of one section: the course's policy, the answers to   *)
(* its published weeks, and what students are shown of a week meanwhile.   *)
(*                                                                         *)
(* A week whose policy is REQUIRED when its report opens is held from      *)
(* students until somebody answers it: an instructor, or, some days later, *)
(* the course's lead or the chair on their behalf.  Both tables are        *)
(* append-only; a row's sequence is drawn at its insert, and a trigger     *)
(* takes the week's lock and refuses a second author.                      *)
(*                                                                         *)
(* Time is in steps of 48 hours, the unit both delays are multiples of.    *)
(***************************************************************************)
EXTENDS Integers, FiniteSets, FiniteSetsExt

CONSTANTS
  Teachers,   \* who teaches the section
  LeadPool,   \* who may be mapped to the course as its lead
  Chairs,     \* chairs of the course's department
  NoLead,     \* the course has no mapping
  Doors,      \* requests to answer in progress at one time
  LastWeek,   \* the section's weeks are 1..LastWeek
  OpensAt,    \* [1..LastWeek -> when the week's report opens]
  LastTime,   \* bound: the clock
  MaxAnswers, \* bound: answers inserted
  MaxPolicies \* bound: switches inserted

Weeks == 1..LastWeek

Authors == Teachers \cup LeadPool \cup Chairs

ASSUME LoopAssumption ==
  /\ IsFiniteSet(Doors)
  /\ LastWeek \in Nat \ {0}
  /\ OpensAt \in [Weeks -> Nat]
  /\ Teachers \cap (LeadPool \cup Chairs) = {}
  /\ LeadPool \cap Chairs = {}
  /\ NoLead \notin Authors
  /\ {LastTime, MaxAnswers, MaxPolicies} \subseteq Nat

VARIABLES
  now,       \* the app clock
  lead,      \* who the course is mapped to
  policies,  \* committed response_policy rows
  switching, \* a setter's uncommitted rows, at most one
  answers,   \* committed instructor_response rows
  door,      \* [Doors -> a request to answer]
  page,      \* a student's request between its two reads of the hold
  pages,     \* history: the page last handed to a student, at most one
  straddled  \* history: weeks that opened between a switch and its commit

loopVars == <<now, lead, policies, switching, answers, door, page, pages, straddled>>

-----------------------------------------------------------------------------
(* Types. *)

OwedAfter == 1     \* OWED_AFTER

OnBehalfAfter == 2 \* ON_BEHALF_AFTER

Modes == {"REQUIRED", "ENCOURAGED"}

OnBehalfRoles == {"LEAD_FACULTY", "CHAIR"}

Policy == [seq : Nat, mode : Modes, setAt : Nat]

(* Of published_at the model keeps whether it is past OnBehalfAfter. *)
Answer == [seq : Nat, week : Weeks, by : Authors,
           role : OnBehalfRoles \cup {"INSTRUCTOR"}, overdue : BOOLEAN]

Passage == [stage : {"passed", "written"}, answer : Answer]

NoPassage == [stage |-> "outside"]

Page == [week : Weeks, published : SUBSET Weeks]

Shown == [week : Weeks, published : SUBSET Weeks, trend : SUBSET Weeks,
          released : BOOLEAN]

-----------------------------------------------------------------------------
(* The policy of record and the hold. *)

Latest(R) == CHOOSE r \in R : \A q \in R : q.seq <= r.seq

Earliest(R) == CHOOSE r \in R : \A q \in R : r.seq <= q.seq

(* Mutant: the mode in force now. *)
CurrentMode(w) ==
  IF policies = {} THEN "ENCOURAGED" ELSE Latest(policies).mode

(* _mode_in_force: the last row of the course set by the week's opening. *)
ModeInForce(w) ==
  LET R == {p \in policies : p.setAt <= OpensAt[w]} IN
    IF R = {} THEN "ENCOURAGED" ELSE Latest(R).mode

Published == {w \in Weeks : OpensAt[w] <= now}

AnswersTo(w) == {a \in answers : a.week = w}

(* _WeekClock, and the state a student reads. *)
Awaiting(w) == ModeInForce(w) = "REQUIRED" /\ AnswersTo(w) = {}

Owed(w) == Awaiting(w) /\ now >= OpensAt[w] + OwedAfter

OpenOnBehalf(w) == Awaiting(w) /\ now >= OpensAt[w] + OnBehalfAfter

AnsweredOnBehalf(w) ==
  AnswersTo(w) # {} /\ Earliest(AnswersTo(w)).role \in OnBehalfRoles

(* lead_review_courses: the lead, or a chair of a course with no lead. *)
AnswersForCourse(p) == p = lead \/ (p \in Chairs /\ lead = NoLead)

RoleFor(p) == IF p \in Chairs THEN "CHAIR" ELSE "LEAD_FACULTY"

-----------------------------------------------------------------------------
(* The clock and the mapping, which other parts of the system move. *)

Tick ==
  /\ now < LastTime
  /\ now' = now + 1
  /\ UNCHANGED <<lead, policies, switching, answers, door, page, pages, straddled>>

MapLead(p) ==
  /\ lead # p
  /\ lead' = p
  /\ UNCHANGED <<now, policies, switching, answers, door, page, pages, straddled>>

-----------------------------------------------------------------------------
(* A switch of the policy. *)

NextPolicy == Max({p.seq : p \in policies \cup switching} \cup {0}) + 1

(* set_at is the app clock at the insert; the commit comes after. *)
Switch(p) ==
  /\ switching = {}
  /\ AnswersForCourse(p)
  /\ NextPolicy <= MaxPolicies
  /\ \E mode \in Modes :
       switching' = {[seq |-> NextPolicy, mode |-> mode, setAt |-> now]}
  /\ UNCHANGED <<now, lead, policies, answers, door, page, pages, straddled>>

CommitSwitch ==
  /\ switching # {}
  /\ policies' = policies \cup switching
  /\ straddled' = straddled \cup {w \in Published : \E p \in switching : p.setAt <= OpensAt[w]}
  /\ switching' = {}
  /\ UNCHANGED <<now, lead, answers, door, page, pages>>

-----------------------------------------------------------------------------
(* An answer. *)

FirstAnswer(w) == Earliest(AnswersTo(w))

(* The instructor's publish and edit, each by one unlocked read. *)
InstructorMay(p, w) ==
  /\ p \in Teachers
  /\ \/ AnswersTo(w) = {}
     \/ AnswersTo(w) # {} /\ FirstAnswer(w).by = p

(* Mutant: the door opens when the answer is owed. *)
LeaderMayOnceOwed(p, w) ==
  /\ AnswersForCourse(p)
  /\ IF AnswersTo(w) # {} THEN FirstAnswer(w).by = p ELSE Owed(w)

(* The on-behalf door: its first publisher may edit, and otherwise the week *)
(* must be required, unanswered and overdue.                                *)
LeaderMay(p, w) ==
  /\ AnswersForCourse(p)
  /\ IF AnswersTo(w) # {} THEN FirstAnswer(w).by = p ELSE OpenOnBehalf(w)

EnterDoor(d) ==
  /\ door[d] = NoPassage
  /\ \E p \in Authors, w \in Published :
       /\ InstructorMay(p, w) \/ LeaderMay(p, w)
       /\ door' = [door EXCEPT ![d] =
            [stage |-> "passed",
             answer |-> [seq |-> 0, week |-> w, by |-> p, overdue |-> FALSE,
                         role |-> IF p \in Teachers THEN "INSTRUCTOR" ELSE RoleFor(p)]]]
  /\ UNCHANGED <<now, lead, policies, switching, answers, page, pages, straddled>>

AnswersWritten ==
  answers \cup {door[d].answer : d \in {e \in Doors : door[e].stage = "written"}}

NextAnswer == Max({a.seq : a \in AnswersWritten} \cup {0}) + 1

(* The author still holds the role the door was passed in. *)
HoldsRole(a) == a.role = "INSTRUCTOR" \/ (AnswersForCourse(a.by) /\ a.role = RoleFor(a.by))

NobodyElses(a) == \A b \in AnswersTo(a.week) : b.by = a.by

WeekLocked(w) ==
  \E d \in Doors : door[d].stage = "written" /\ door[d].answer.week = w

(* Mutant: the earlier authors are looked for without the lock. *)
InsertUnlocked(d) ==
  /\ door[d].stage = "passed"
  /\ HoldsRole(door[d].answer)
  /\ NobodyElses(door[d].answer)
  /\ NextAnswer <= MaxAnswers
  /\ door' = [door EXCEPT ![d].stage = "written", ![d].answer.seq = NextAnswer,
       ![d].answer.overdue = now >= OpensAt[door[d].answer.week] + OnBehalfAfter]
  /\ UNCHANGED <<now, lead, policies, switching, answers, page, pages, straddled>>

(* The insert and its trigger: the role, the week's lock, and the week's    *)
(* rows as they stand once it has the lock.                                 *)
Insert(d) ==
  /\ door[d].stage = "passed"
  /\ HoldsRole(door[d].answer)
  /\ ~ WeekLocked(door[d].answer.week)
  /\ NobodyElses(door[d].answer)
  /\ NextAnswer <= MaxAnswers
  /\ door' = [door EXCEPT ![d].stage = "written", ![d].answer.seq = NextAnswer,
       ![d].answer.overdue = now >= OpensAt[door[d].answer.week] + OnBehalfAfter]
  /\ UNCHANGED <<now, lead, policies, switching, answers, page, pages, straddled>>

CommitAnswer(d) ==
  /\ door[d].stage = "written"
  /\ answers' = answers \cup {door[d].answer}
  /\ door' = [door EXCEPT ![d] = NoPassage]
  /\ UNCHANGED <<now, lead, policies, switching, page, pages, straddled>>

(* The trigger refuses the row, or the process dies. *)
LeaveDoor(d) ==
  /\ door[d].stage # "outside"
  /\ door' = [door EXCEPT ![d] = NoPassage]
  /\ UNCHANGED <<now, lead, policies, switching, answers, page, pages, straddled>>

-----------------------------------------------------------------------------
(* A student's week. *)

(* The published weeks, then the state of the week asked for: one that is   *)
(* awaiting is answered at once, with nothing of the week on the page.      *)
OpenPage(w) ==
  /\ page = {}
  /\ w \in Published
  /\ ~ Awaiting(w)
  /\ page' = {[week |-> w, published |-> Published]}
  /\ UNCHANGED <<now, lead, policies, switching, answers, door, pages, straddled>>

(* Mutant: only the week asked for is asked about. *)
FinishPageForOneWeek ==
  /\ page # {}
  /\ \E p \in page :
       pages' =
         {[week |-> p.week, published |-> p.published,
           trend |-> {w \in p.published : w <= p.week},
           released |-> p.week = Max(p.published)]}
  /\ page' = {}
  /\ UNCHANGED <<now, lead, policies, switching, answers, door, straddled>>

(* The hold of every week read again: the trend leaves the held weeks out,  *)
(* and the released comments come with the last week when none is held.     *)
FinishPage ==
  /\ page # {}
  /\ \E p \in page :
       LET readable == {w \in p.published : ~ Awaiting(w)} IN
         pages' =
           {[week |-> p.week, published |-> p.published,
             trend |-> {w \in readable : w <= p.week},
             released |-> p.week = Max(p.published) /\ readable = p.published]}
  /\ page' = {}
  /\ UNCHANGED <<now, lead, policies, switching, answers, door, straddled>>

-----------------------------------------------------------------------------
LoopInit ==
  /\ now = 0
  /\ lead = NoLead
  /\ policies = {}
  /\ switching = {}
  /\ answers = {}
  /\ door = [d \in Doors |-> NoPassage]
  /\ page = {}
  /\ pages = {}
  /\ straddled = {}

LoopNext ==
  \/ Tick
  \/ \E p \in LeadPool \cup {NoLead} : MapLead(p)
  \/ \E p \in LeadPool \cup Chairs : Switch(p)
  \/ CommitSwitch
  \/ \E d \in Doors : \/ EnterDoor(d) \/ Insert(d) \/ CommitAnswer(d) \/ LeaveDoor(d)
  \/ \E w \in Weeks : OpenPage(w)
  \/ FinishPage

LoopSpec == LoopInit /\ [][LoopNext]_loopVars

-----------------------------------------------------------------------------
(* Types. *)
LoopTypeOK ==
  /\ now \in 0..LastTime
  /\ lead \in LeadPool \cup {NoLead}
  /\ policies \subseteq Policy
  /\ switching \subseteq Policy
  /\ answers \subseteq Answer
  /\ door \in [Doors -> Passage \cup {NoPassage}]
  /\ page \subseteq Page
  /\ pages \subseteq Shown
  /\ straddled \subseteq Weeks

(* However an instructor, a colleague and a leader race to answer a week,   *)
(* all its rows are one author's; and a week answered on behalf was         *)
(* required and overdue at that moment, though the door was passed before   *)
(* the row was written.                                                     *)
OneRightfulAuthor ==
  /\ \A a, b \in answers : a.week = b.week => a.by = b.by
  /\ \A w \in Weeks : AnsweredOnBehalf(w) =>
        /\ FirstAnswer(w).overdue
        /\ w \notin straddled => ModeInForce(w) = "REQUIRED"

(* What a student was shown of a week is never held back afterwards, and no *)
(* page that carried released comments had a held week behind it.           *)
ShownWeeksStayShown ==
  \A p \in pages :
    /\ \A w \in (p.trend \cup {p.week}) \ straddled : ~ Awaiting(w)
    /\ p.released => \A w \in p.published \ straddled : ~ Awaiting(w)

(* Once a week is published only an answer to it moves its hold: not the    *)
(* clock, not a later switch, not a change of lead.                         *)
OnlyAnAnswerMovesTheHold ==
  [][\A w \in Published \ straddled' :
       Awaiting(w)' # Awaiting(w) => AnswersTo(w)' # AnswersTo(w)]_loopVars

=============================================================================
