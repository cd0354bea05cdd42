----------------------------- MODULE RosterSync -----------------------------
(***************************************************************************)
(* The roster sync (app/services/roster_sync.py): one pull of a section's  *)
(* roster page by page, and what it writes to enrollment and to the        *)
(* teaching grants.  The hourly round pulls every section in ONE           *)
(* transaction with a savepoint each (app/jobs/tasks.py); a launch asks    *)
(* for one section, and its task runs whenever a worker is free: the       *)
(* debounce spares calls and orders nothing, and is left out.  Syncs       *)
(* overlap, the platform changes while they read, and a worker may die.    *)
(*                                                                         *)
(* A container is paged over a collection that changes while it is walked: *)
(* who joins, leaves or moves in it shifts everybody behind.               *)
(*                                                                         *)
(* A member is one person's place in one section.  An enrollment row is    *)
(* known by its member and its first day.  What a worker wrote and did not *)
(* commit is its draft.                                                    *)
(***************************************************************************)
EXTENDS Naturals, FiniteSets, FiniteSetsExt

CONSTANTS
    Sections,       \* sections with a stored roster address
    Members,
    SectionOf,      \* the section of a member
    PageSize,       \* how many members the platform puts on a page
    Listings,       \* what the platform may say of each member
    EndDate,        \* the last day of a section
    Beats,          \* workers that run the hourly round
    Tasks,          \* workers that run what a launch enqueued
    LastDay,
    MaxChanges,     \* bound: how often the platform changes what it says
    MaxSyncs        \* bound: rounds and tasks begun

ASSUME RosterAssumption ==
    /\ SectionOf \in [Members -> Sections]
    /\ IsFiniteSet(Members)
    /\ PageSize \in Nat \ {0}
    /\ \A m \in Members : Listings[m] \subseteq
           [kind : {"student", "unreadable", "teacher", "dropped", "absent"}, ended : Nat]
    /\ {LastDay, MaxChanges, MaxSyncs} \subseteq Nat

Syncers == Beats \cup Tasks

(* ended: the day the platform says a drop took effect, 0 if it does not.  *)
Said(kind) == [kind |-> kind, ended |-> 0]
Dropped(ended) == [kind |-> "dropped", ended |-> ended]

VARIABLES
    day,            \* today, in the institution's timezone
    listing,        \* what the platform says of each member now
    place,          \* the platform's own order of the members
    changes,        \* how often either changed
    started,        \* rounds and tasks begun
    enrolled,       \* committed enrollment rows, `to` 0 while open
    teaching,       \* committed teaching grants
    sync            \* what each worker is doing

rosterVars == <<day, listing, place, changes, started, enrolled, teaching, sync>>

Asleep == [stage |-> "asleep"]
Stage(w) == sync[w].stage
Of(s) == {m \in Members : SectionOf[m] = s}
Open(R) == {r \in R : r.to = 0}
RowsIn(s, R) == {r \in R : SectionOf[r.member] = s}
Holders(R) == {r.member : r \in R}

-----------------------------------------------------------------------------
(* The platform, the day, and who asks for a pull.                         *)

Listed(m) == listing[m].kind \in {"student", "unreadable"}

Shown(s) == {m \in Of(s) : listing[m].kind # "absent"}

(* How many members the container has up to this one.                      *)
Position(m) == Cardinality({q \in Shown(SectionOf[m]) : place[q] <= place[m]})

(* What a walk has been told, and nobody told the walker: whom the platform *)
(* unlisted or untaught while it walked, and who moved from a page it had  *)
(* not read yet onto one it had.                                           *)
Watched(w) ==
    LET s == sync[w].section
        behind == (sync[w].page - 1) * PageSize IN
    [sync[w] EXCEPT
       !.away = @ \cup {m \in Of(s) : ~Listed(m)'},
       !.untaught = @ \cup {m \in Of(s) : listing'[m].kind # "teacher"},
       !.passed = @ \cup {m \in Of(s) \ DOMAIN sync[w].read :
                             Position(m) > behind /\ Position(m)' <= behind}]

PlatformChanges ==
    /\ changes < MaxChanges
    /\ changes' = changes + 1
    /\ sync' = [w \in Syncers |->
                  IF Stage(w) \in {"asleep", "between"} THEN sync[w] ELSE Watched(w)]
    /\ UNCHANGED <<day, started, enrolled, teaching>>

ChangeListing(m, said) ==
    /\ said # listing[m]
    /\ listing' = [listing EXCEPT ![m] = said]
    /\ UNCHANGED place
    /\ PlatformChanges

(* Two members of a section change places, whoever stands between shifts   *)
(* if one of them is not shown.                                            *)
Reorder(m, q) ==
    /\ SectionOf[m] = SectionOf[q]
    /\ place[m] < place[q]
    /\ place' = [place EXCEPT ![m] = place[q], ![q] = place[m]]
    /\ UNCHANGED listing
    /\ PlatformChanges

NextDay ==
    /\ day < LastDay
    /\ day' = day + 1
    /\ UNCHANGED <<listing, place, changes, started, enrolled, teaching, sync>>

-----------------------------------------------------------------------------
(* The walk.                                                               *)

NoDraft == [gone |-> {}, new |-> {}, granted |-> {}, ended |-> {}]

Walking(s) ==
    [stage |-> "walking", section |-> s, page |-> 1, read |-> << >>,
     whole |-> FALSE, open |-> {},
     away |-> {m \in Of(s) : ~Listed(m)},
     untaught |-> {m \in Of(s) : listing[m].kind # "teacher"},
     passed |-> {}]

(* What a round carries from section to section.                           *)
Carried(w) ==
    [left |-> sync[w].left, draft |-> sync[w].draft, wrong |-> sync[w].wrong,
     went |-> sync[w].went]

Fresh(left) ==
    [left |-> left, draft |-> NoDraft, wrong |-> {}, went |-> {}]

With(a, b) == [f \in DOMAIN a \cup DOMAIN b |-> IF f \in DOMAIN a THEN a[f] ELSE b[f]]

Between(w) == With([stage |-> "between"], Carried(w))

standing == <<day, listing, place, changes, enrolled, teaching>>
unsynced == <<standing, started>>

Begin(w) ==
    /\ Stage(w) = "asleep"
    /\ started < MaxSyncs
    /\ started' = started + 1

StartRound(w) ==
    /\ w \in Beats
    /\ Begin(w)
    /\ sync' = [sync EXCEPT ![w] = With([stage |-> "between"], Fresh(Sections))]
    /\ UNCHANGED standing

NextSection(w, s) ==
    /\ Stage(w) = "between"
    /\ s \in sync[w].left
    /\ sync' = [sync EXCEPT ![w] =
          With(Walking(s), [Carried(w) EXCEPT !.left = @ \ {s}])]
    /\ UNCHANGED unsynced

StartTask(w, s) ==
    /\ w \in Tasks
    /\ Begin(w)
    /\ sync' = [sync EXCEPT ![w] = With(Walking(s), Fresh({}))]
    /\ UNCHANGED standing

(* The token endpoint refuses or cannot be reached: one call, no roster.   *)
GetNoToken(w) ==
    /\ Stage(w) = "walking"
    /\ sync[w].page = 1
    /\ sync' = [sync EXCEPT ![w] = Between(w)]
    /\ UNCHANGED unsynced

(* A page is one answer of the platform, of the container as it is then.   *)
Page(s, p) ==
    [m \in {m \in Shown(s) : Position(m) \in (p - 1) * PageSize + 1 .. p * PageSize} |->
        listing[m]]

(* Of two copies of a member the earlier page's is kept.                   *)
Deduplicated(roster, page) == With(roster, page)

(* A page with nobody behind it advertises no next one, and makes the walk *)
(* whole.                                                                  *)
ReadPage(w) ==
    LET s == sync[w].section
        last == Cardinality(Shown(s)) <= sync[w].page * PageSize IN
    /\ Stage(w) = "walking"
    /\ sync' = [sync EXCEPT ![w] = [sync[w] EXCEPT
          !.read = Deduplicated(@, Page(s, sync[w].page)),
          !.page = IF last THEN @ ELSE @ + 1,
          !.stage = IF last THEN "read" ELSE "walking",
          !.whole = last]]
    /\ UNCHANGED unsynced

(* A page that cannot be had ends the walk with what was read so far.      *)
FailPage(w) ==
    /\ Stage(w) = "walking"
    /\ sync' = [sync EXCEPT ![w].stage = "read"]
    /\ UNCHANGED unsynced

-----------------------------------------------------------------------------
(* Ingesting what was read.                                                *)

(* _open_enrollments: one read, and the writes below go by it.             *)
ReadOpen(w) ==
    /\ Stage(w) = "read"
    /\ sync' = [sync EXCEPT ![w] = [@ EXCEPT
          !.stage = "ingesting", !.open = Open(RowsIn(sync[w].section, enrolled))]]
    /\ UNCHANGED unsynced

Read(w) == sync[w].read
ReadAs(w, kind) == {m \in DOMAIN Read(w) : Read(w)[m].kind = kind}
HasEnded(s) == day > EndDate[s]

(* Mutant: whoever was not read is closed, however the walk ended.         *)
AbsentClosedAnyway(w, m) == m \notin DOMAIN Read(w) /\ Read(w) # << >>

(* An incomplete walk, or one that read nobody, closes nobody for not      *)
(* being there.                                                            *)
AbsentClosed(w, m) == m \notin DOMAIN Read(w) /\ sync[w].whole /\ Read(w) # << >>

(* The day a row of the snapshot is closed on, 0 for a row that stays.     *)
ClosedOn(w, r) ==
    LET m == r.member IN
    IF m \in ReadAs(w, "dropped")
    THEN IF Read(w)[m].ended = 0 THEN day ELSE Read(w)[m].ended
    ELSE IF m \in ReadAs(w, "teacher") THEN Max({r.from, day - 1})
    ELSE IF AbsentClosed(w, m) THEN day
    ELSE 0

Closing(w) == {r \in sync[w].open : ClosedOn(w, r) # 0}

(* A row is updated by its key, whatever another sync made of it since.    *)
Gone(w) ==
    {r \in enrolled : \E c \in Closing(w) : c.member = r.member /\ c.from = r.from}

(* Mutant: whoever ever had a row here gets no other.                      *)
OpeningOnce(w) == ReadAs(w, "student") \ Holders(enrolled)

(* A re-add is a second row: only an open one keeps a student from it.     *)
Opening(w) == ReadAs(w, "student") \ Holders(sync[w].open)

NewRows(w) ==
    {[c EXCEPT !.to = ClosedOn(w, c)] : c \in Closing(w)}
      \cup {[member |-> m, from |-> day, to |-> 0] : m \in Opening(w)}

(* The database refuses a row that ends before it starts, and two of one   *)
(* member that share a day, both ends counted.                             *)
Backwards(r) == r.to # 0 /\ r.to < r.from

Overlap(r, q) ==
    /\ r # q /\ r.member = q.member
    /\ r.to = 0 \/ q.from <= r.to
    /\ q.to = 0 \/ r.from <= q.to

Refused(w) ==
    \E r \in NewRows(w) :
        \/ Backwards(r)
        \/ \E q \in (enrolled \ Gone(w)) \cup NewRows(w) : Overlap(r, q)

Granted(w) == IF HasEnded(sync[w].section) THEN {} ELSE ReadAs(w, "teacher") \ teaching

EndedGrants(w) ==
    IF sync[w].whole /\ Read(w) # << >> /\ ~HasEnded(sync[w].section)
    THEN (teaching \cap Of(sync[w].section)) \ ReadAs(w, "teacher")
    ELSE {}

(* What the pull went by, kept to be compared with what it leaves.         *)
Reading(w, applied) ==
    [section |-> sync[w].section, whole |-> sync[w].whole /\ Read(w) # << >>,
     applied |-> applied, base |-> sync[w].open, students |-> ReadAs(w, "student"),
     unreadable |-> ReadAs(w, "unreadable"), dropped |-> ReadAs(w, "dropped")]

(* Another worker's uncommitted rows of the section are waited for.        *)
MustWait(w) ==
    \E v \in Syncers \ {w} : Stage(v) # "asleep" /\
        \E r \in sync[v].draft.gone \cup sync[v].draft.new : SectionOf[r.member] = sync[w].section

Applied(w) ==
    [Between(w) EXCEPT
       !.draft = [gone |-> @.gone \cup Gone(w), new |-> @.new \cup NewRows(w),
                  granted |-> @.granted \cup Granted(w), ended |-> @.ended \cup EndedGrants(w)],
       !.wrong = @ \cup (Holders(Closing(w)) \ (sync[w].away \cup sync[w].passed))
                   \cup (EndedGrants(w) \ (sync[w].untaught \cup sync[w].passed)),
       !.went = @ \cup {Reading(w, TRUE)}]

(* The round rolls back to the savepoint and goes on with the next section.*)
SectionFailed(w) == [Between(w) EXCEPT !.went = @ \cup {Reading(w, FALSE)}]

(* A task has no savepoint: its exception aborts everything it did.        *)
Failed(w) == IF w \in Beats THEN SectionFailed(w) ELSE Asleep

Ingest(w) ==
    /\ Stage(w) = "ingesting"
    /\ ~MustWait(w)
    /\ sync' = [sync EXCEPT ![w] = IF Refused(w) THEN Failed(w) ELSE Applied(w)]
    /\ UNCHANGED unsynced

(* No registration, no signing key: refused before a page is asked for.    *)
RefuseSection(w) ==
    /\ Stage(w) = "walking"
    /\ sync[w].page = 1
    /\ sync' = [sync EXCEPT ![w] = Failed(w)]
    /\ UNCHANGED unsynced

-----------------------------------------------------------------------------
(* One commit, at the end of the round or of the task.                     *)
CommitSync(w) ==
    LET draft == sync[w].draft IN
    /\ Stage(w) = "between"
    /\ sync[w].left = {}
    /\ enrolled' = (enrolled \ draft.gone) \cup draft.new
    /\ teaching' = (teaching \ draft.ended) \cup draft.granted
    /\ sync' = [sync EXCEPT ![w] = Asleep]
    /\ UNCHANGED <<day, listing, place, changes, started>>

(* The worker dies and its transaction is rolled back.                     *)
LoseSync(w) ==
    /\ Stage(w) # "asleep"
    /\ sync' = [sync EXCEPT ![w] = Asleep]
    /\ UNCHANGED unsynced

RosterInit ==
    /\ day = 1
    /\ listing \in {f \in [Members -> UNION {Listings[m] : m \in Members}] :
                       \A m \in Members : f[m] \in Listings[m]}
    /\ place \in {f \in [Members -> 1..Cardinality(Members)] :
                     \A m, q \in Members : f[m] = f[q] => m = q}
    /\ changes = 0
    /\ started = 0
    /\ enrolled = {[member |-> m, from |-> 1, to |-> 0] :      \* as a pull left it
                     m \in {m \in Members : listing[m].kind = "student"}}
    /\ teaching = {}
    /\ sync = [w \in Syncers |-> Asleep]

RosterNext ==
    \/ \E m \in Members :
          \/ \E said \in Listings[m] : ChangeListing(m, said)
          \/ \E q \in Members : Reorder(m, q)
    \/ NextDay
    \/ \E w \in Syncers :
          \/ StartRound(w)
          \/ \E s \in Sections : NextSection(w, s) \/ StartTask(w, s)
          \/ GetNoToken(w) \/ ReadPage(w) \/ FailPage(w) \/ RefuseSection(w)
          \/ ReadOpen(w) \/ Ingest(w)
          \/ CommitSync(w)
          \/ LoseSync(w)

RosterSpec == RosterInit /\ [][RosterNext]_rosterVars

-----------------------------------------------------------------------------
(* Nobody loses a place, or a teaching grant, that the platform never took *)
(* from them while their section was being walked, unless they moved from  *)
(* a page not read yet onto one that had been: a page that cannot be had,  *)
(* an unreadable member, a member served twice, one who moves among the    *)
(* pages still to come, or another sync end nobody (roster_sync.py:1573    *)
(* and 1161).                                                              *)
NobodyListedIsEnded == \A w \in Syncers : Stage(w) # "asleep" => sync[w].wrong = {}

PlacesIn(s, R) == Holders(Open(RowsIn(s, R)))

(* The class a pull of the whole container commits is the class it read:   *)
(* its students, and whoever was unreadable and already had a place,       *)
(* unless another sync changed the section's open rows in between.         *)
ClassIsAsRead ==
    [][\A w \in Syncers : CommitSync(w) => \A r \in sync[w].went :
         r.whole /\ r.applied /\ r.base = Open(RowsIn(r.section, enrolled)) =>
            /\ r.students \subseteq PlacesIn(r.section, enrolled')
            /\ PlacesIn(r.section, enrolled') \subseteq r.students \cup r.unreadable]_rosterVars

(* ADR 0095: a member the whole walk read as dropped is no longer enrolled,*)
(* on the extension's end date where there is one.  The code asks the      *)
(* database for that date, which refuses one before the first sighting,    *)
(* and the savepoint takes the rest of the section's roster with it.       *)
DropsEndEnrollment ==
    [][\A w \in Syncers : CommitSync(w) => \A r \in sync[w].went :
         r.whole /\ r.base = Open(RowsIn(r.section, enrolled)) =>
            r.dropped \cap PlacesIn(r.section, enrolled') = {}]_rosterVars
=============================================================================
