---------------------------- MODULE EnrolledWeeks ----------------------------
(***************************************************************************)
(* Whose week a week is: the windows of a section's calendar               *)
(* (app/services/survey_windows.py), when an enrollment began              *)
(* (app/services/enrollment_windows.py), the participation ledger          *)
(* (app/services/grading.py) and the class a report counts                 *)
(* (app/services/reporting.py).  The first decides what a student owes,    *)
(* the last what a response rate is divided by, and both read enrollment   *)
(* rows that the roster sync wrote on other days, from walks that may have *)
(* been refused or cut short.                                              *)
(*                                                                         *)
(* One section; time in days.  A pull is one step (RosterSync has it page  *)
(* by page) and so is a submission (SubmissionGate opens it up).           *)
(***************************************************************************)
EXTENDS Naturals, FiniteSetsExt

CONSTANTS
    Pupils,
    PageFor,        \* the page of the container a pupil stands on
    Pages,          \* how many there are
    Sayings,        \* what the platform may say of each pupil
    LengthWeeks,
    TermStart, SectionStart,
    DaysPerWeek, OpensAfter, ClosesAfter,   \* of a week; 7, 4 and 6 in the code
    Items,          \* questions of a week
    LastDay,
    MaxSayings      \* bound: how often the platform changes what it says

(* A member of the container: a role and a status, and the dates given.    *)
Said == [kind : {"absent", "student", "assistant", "teacher", "dropped"},
         start : Nat, ended : Nat]

ASSUME WeekAssumption ==
    /\ PageFor \in [Pupils -> 1..Pages]
    /\ \A p \in Pupils : Sayings[p] \subseteq Said
    /\ {LengthWeeks, Pages, Items, LastDay, MaxSayings} \subseteq Nat
    /\ {TermStart, SectionStart, DaysPerWeek, OpensAfter, ClosesAfter} \subseteq Nat
    /\ 0 < TermStart /\ TermStart <= SectionStart
    /\ OpensAfter <= ClosesAfter /\ ClosesAfter < DaysPerWeek

CourseWeeks == 1..LengthWeeks

(* The term's Monday is the anchor, not the section's first day.           *)
WeekOfTheTerm(w) == w + (SectionStart - TermStart) \div DaysPerWeek
Monday(w) == TermStart + (WeekOfTheTerm(w) - 1) * DaysPerWeek
OpensOn(w) == Monday(w) + OpensAfter
ClosesOn(w) == Monday(w) + ClosesAfter
SectionEnd == SectionStart + LengthWeeks * DaysPerWeek - 1

VARIABLES
    today,
    says,           \* external: kind, start and end of a pupil's place, 0 for no date
    told,           \* bound only: how often that changed
    firstSync,      \* first_sync_day: the day of the earliest read call, 0 for none
    places,         \* enrollment rows; `to` 0 while open, `begins` lms_window_start or 0
    staff,          \* whose person holds an assignment scoped to the section
    items,          \* completed items of each pupil's response to each week, 0 for none
    listed,         \* history: the day the platform first listed a pupil, 0 for never
    readOn,         \* history: the day a walk first read a page, 0 for never
    seen,           \* history: the day a walk to the last page first read them, 0 for never
    revised             \* history: whom a walk took a past day from, or took for staff

weekVars ==
    <<today, says, told, firstSync, places, staff, items, listed, readOn, seen, revised>>

OpenPlaces == {r \in places : r.to = 0}
PlacesOf(p) == {r \in places : r.of = p}
LiveOn(d, r) == r.from <= d /\ (r.to = 0 \/ d <= r.to)

-----------------------------------------------------------------------------
(* enrolled_from: the day an enrollment runs from, 0 for the section's     *)
(* start.  The platform's date comes first; who was first seen after the   *)
(* first sync is a late add; everybody else was always there.              *)
EnrolledFrom(r) ==
    IF r.begins # 0 THEN r.begins
    ELSE IF firstSync # 0 /\ r.from > firstSync THEN r.from ELSE 0

BeganBy(r, w) == ClosesOn(w) >= EnrolledFrom(r)

Elapsed == {w \in CourseWeeks : ClosesOn(w) < today}

(* Mutant: a re-added student is judged by the row open now.               *)
CreditedByTheLatest(p) ==
    {w \in Elapsed : \E r \in PlacesOf(p) :
        BeganBy(r, w) /\ \A q \in PlacesOf(p) : q.from <= r.from}

(* The earliest row decides, and no drop takes a week away.                *)
Credited(p) == {w \in Elapsed : \E r \in PlacesOf(p) : \E v \in 1..w : BeganBy(r, v)}

Ledger(p) == [w \in Credited(p) |-> items[p][w]]

(* Mutant: whoever was enrolled when the window closed.                    *)
EnrolledAtClose(w) == {r.of : r \in {q \in places : LiveOn(ClosesOn(w), q)}} \ staff

(* The report counts an enrollment that overlaps the window.               *)
EnrolledStudents(w) ==
    {r.of : r \in {q \in places : BeganBy(q, w) /\ (q.to = 0 \/ OpensOn(w) <= q.to)}} \ staff

-----------------------------------------------------------------------------
NextDay ==
    /\ today < LastDay
    /\ today' = today + 1
    /\ UNCHANGED <<says, told, firstSync, places, staff, items, listed, readOn, seen, revised>>

PlatformSays(p, said) ==
    /\ told < MaxSayings
    /\ said # says[p]
    /\ told' = told + 1
    /\ says' = [says EXCEPT ![p] = said]
    /\ listed' = [listed EXCEPT ![p] =
          IF @ = 0 /\ said.kind = "student" THEN today ELSE @]
    /\ UNCHANGED <<today, firstSync, places, staff, items, readOn, seen, revised>>

(* What a walk of so many pages read, and what it writes.                  *)
ReadOn(n) == {p \in Pupils : PageFor[p] <= n /\ says[p].kind # "absent"}
ReadAs(n, kind) == {p \in ReadOn(n) : says[p].kind = kind}
IsComplete(n) == n = Pages /\ ReadOn(n) # {}

Closed(n, r) ==
    LET p == r.of IN
    IF p \in ReadAs(n, "dropped") THEN IF says[p].ended = 0 THEN today ELSE says[p].ended
    ELSE IF p \in ReadAs(n, "teacher") \cup ReadAs(n, "assistant") THEN Max({r.from, today - 1})
    ELSE IF p \notin ReadOn(n) /\ IsComplete(n) THEN today
    ELSE 0

Followed(n, r) == IF r.of \in ReadAs(n, "student") THEN says[r.of].start ELSE r.begins

Kept(n) == {[r EXCEPT !.to = Closed(n, r), !.begins = Followed(n, r)] : r \in OpenPlaces}

Opened(n) ==
    {[of |-> p, from |-> today, to |-> 0, begins |-> says[p].start] :
       p \in ReadAs(n, "student") \ {r.of : r \in OpenPlaces}}

PlacesAfter(n) == (places \ OpenPlaces) \cup Kept(n) \cup Opened(n)

(* The CHECK and the exclusion constraint; the savepoint takes back what   *)
(* the walk wrote, its call rows included.                                 *)
Stands(rows) ==
    /\ \A r \in rows : r.to = 0 \/ r.from <= r.to
    /\ \A r, q \in rows : r.of = q.of /\ r # q =>
          (r.to # 0 /\ r.to < q.from) \/ (q.to # 0 /\ q.to < r.from)

StaffAfter(n) ==
    LET teachers == ReadAs(n, "teacher") IN
    IF today > SectionEnd THEN staff
    ELSE IF IsComplete(n) THEN teachers
    ELSE staff \cup teachers

(* Whom a walk takes back a day of that they could answer on, or takes for *)
(* staff.                                                                  *)
Revised(n) ==
    {r.of : r \in {q \in Kept(n) \cup Opened(n) : q.begins > q.from \/ q.to \in 1..(today - 1)}}
       \cup ReadAs(n, "teacher")

(* For two mutants: any call dates the first sync, or only the last.       *)
SyncedOnAnyCall(n) == IF firstSync = 0 THEN today ELSE firstSync
SyncedLast(n) == IF n = 0 THEN firstSync ELSE today

(* Only a call that read a roster counts.                                  *)
SyncedOn(n) == IF n = 0 \/ firstSync # 0 THEN firstSync ELSE today

(* A walk reads some pages, all or, if it is refused, none of them.        *)
Pull(n) ==
    /\ firstSync' = SyncedOn(n)
    /\ IF n = 0 THEN UNCHANGED <<places, staff, revised>>
       ELSE /\ Stands(PlacesAfter(n))
            /\ places' = PlacesAfter(n)
            /\ staff' = StaffAfter(n)
            /\ revised' = revised \cup Revised(n)
    /\ readOn' = IF readOn = 0 /\ n > 0 THEN today ELSE readOn
    /\ seen' = [p \in Pupils |->
          IF seen[p] = 0 /\ IsComplete(n) /\ p \in ReadAs(n, "student") THEN today ELSE seen[p]]
    /\ UNCHANGED <<today, says, told, items, listed>>

(* Mutant: the window alone is asked.                                      *)
SubmitFromOutside(p, w, n) ==
    /\ PlacesOf(p) # {}
    /\ OpensOn(w) <= today /\ today <= ClosesOn(w)
    /\ items' = [items EXCEPT ![p][w] = n]
    /\ UNCHANGED <<today, says, told, firstSync, places, staff, listed, readOn, seen, revised>>

(* Mutant: the enrollment alone is asked.                                  *)
SubmitAnyTime(p, w, n) ==
    /\ \E r \in PlacesOf(p) : LiveOn(today, r)
    /\ OpensOn(w) <= today
    /\ items' = [items EXCEPT ![p][w] = n]
    /\ UNCHANGED <<today, says, told, firstSync, places, staff, listed, readOn, seen, revised>>

(* A first answer, or a revision in place.                                 *)
Submit(p, w, n) ==
    /\ \E r \in PlacesOf(p) : LiveOn(today, r)
    /\ OpensOn(w) <= today /\ today <= ClosesOn(w)
    /\ items' = [items EXCEPT ![p][w] = n]
    /\ UNCHANGED <<today, says, told, firstSync, places, staff, listed, readOn, seen, revised>>

(* The re-classification refuses the comment, before or after the close.   *)
RefuseComment(p, w) ==
    /\ items[p][w] = Items
    /\ items' = [items EXCEPT ![p][w] = @ - 1]
    /\ UNCHANGED <<today, says, told, firstSync, places, staff, listed, readOn, seen, revised>>

WeeksInit ==
    /\ today = TermStart
    /\ says = [p \in Pupils |-> [kind |-> "absent", start |-> 0, ended |-> 0]]
    /\ told = 0
    /\ firstSync = 0
    /\ places = {}
    /\ staff = {}
    /\ items = [p \in Pupils |-> [w \in CourseWeeks |-> 0]]
    /\ listed = [p \in Pupils |-> 0]
    /\ readOn = 0
    /\ seen = [p \in Pupils |-> 0]
    /\ revised = {}

WeeksNext ==
    \/ NextDay
    \/ \E n \in 0..Pages : Pull(n)
    \/ \E p \in Pupils :
          \/ \E said \in Sayings[p] : PlatformSays(p, said)
          \/ \E w \in CourseWeeks : RefuseComment(p, w) \/ \E n \in 1..Items : Submit(p, w, n)

WeeksSpec == WeeksInit /\ [][WeeksNext]_weekVars

-----------------------------------------------------------------------------
(* Whoever answered a week that has closed is in the response rate's       *)
(* denominator and has the week on the ledger, whatever the rosters read   *)
(* since have made of the row: a rate above 1 is one nobody can read       *)
(* (_enrolled_students).  Apart from whom the platform re-dated past an    *)
(* answer or took for staff.                                               *)
WhoAnsweredIsCounted ==
    \A p \in Pupils \ revised : \A w \in Elapsed :
        items[p][w] > 0 => w \in Credited(p) /\ p \in EnrolledStudents(w)

(* A student the platform dates nowhere owes every week they were listed   *)
(* for by its close, or by the first sync, and no other: no refused call   *)
(* before it and no gap after it turns a day-one student into a late add   *)
(* (first_sync_day, ADR 0131).                                             *)
OnlyLateAddsAreExcused ==
    \A p \in Pupils \ revised : \A w \in Elapsed :
        (PlacesOf(p) # {} /\ \A r \in PlacesOf(p) : r.begins = 0) =>
            IF w \in Credited(p)
            THEN listed[p] <= ClosesOn(w) \/ listed[p] <= readOn
            ELSE seen[p] # 0 => seen[p] > ClosesOn(w) /\ seen[p] # readOn

(* The platform gave a place another start than it had.                    *)
Redated(p) ==
    \E r \in PlacesOf(p) : \E q \in PlacesOf(p)' : r.from = q.from /\ r.begins # q.begins

(* A ledger only grows, and what it says of a closed week only falls,      *)
(* unless the platform dates a place anew: so no pair of a score and its   *)
(* total comes back, which GradePassback takes for granted of its scores   *)
(* (participation_scores, _first_enrolled_weeks).                          *)
LedgersMoveOn ==
    [][\A p \in Pupils : Redated(p) \/
          \A w \in DOMAIN Ledger(p) :
              w \in DOMAIN Ledger(p)' /\ Ledger(p)'[w] <= Ledger(p)[w]]_weekVars

=============================================================================
