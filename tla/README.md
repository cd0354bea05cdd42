# Pulse in TLA+

Pulse collects weekly course surveys from an LMS, asks a language model about
the comments students write, and reports to instructors without letting a small
class be read back to its authors. The specifications here model the parts of
the backend whose correctness depends on the order in which requests, scheduled
jobs and the model provider act on one database. Paths are relative to `src/`.

## 1. The system's parts

All of the backend (`backend/app`) runs as two kinds of process on one Postgres
database: FastAPI requests and Celery tasks started by a beat
(`jobs/schedules.py`). There is no shared memory. Transactions are READ
COMMITTED, so two statements of one transaction may see different rows (the
import of a file is the one SERIALIZABLE transaction). Locks are few: a session
advisory lock (the moderation sweep), transaction advisory locks (a decision
about a comment, a response-loop week) and row locks (a section's line item, a
role that is revoked or relied on). Everything else leans on unique keys and
savepoints.

| Part | State | Operations | Meets | Hard about it | Correct when |
|---|---|---|---|---|---|
| Submission gate: `services/submissions.py`, `api/student.py` | `response`, `answer` | submit, resubmit in place | gateway, validity, windows | the window and the response are read before a call of seconds; two first submissions race | what is stored was accepted whole, in an open week |
| Validity: `services/validity.py` | `classification` of kind validity, `response.is_valid` | judge or floor a comment, recompute, hourly re-classification | submissions, grading | read-modify-write of `is_valid` by requests and the sweep; verdicts ordered by transaction start | `is_valid` follows the latest verdicts |
| Survey windows: `services/survey_windows.py` | `survey_window` | derive, open, close by the clock | all readers | a close is strict | one open week per section |
| Whose week it is: `services/enrollment_windows.py`, `grading.py`, `reporting.py` | none: computed from `enrollment`, `nrps_call`, `answer` | score a section, count a class | roster sync, submissions, passback | rows that other days' walks wrote, from walks refused or cut short | whoever answered is counted; a ledger only grows |
| Moderation sweep: `services/moderation.py` | moderation verdicts, `moderation_attempt`, `threat_case` | hourly sweep | gateway, report, cut | overlapping runs, deaths, endless failures | each closed comment is judged once or capped |
| Moderation decisions: same file | `moderation_state` | exclude, keep, undo | report, student read | two deciders at one comment | a decision is judged against the row it replaces |
| Hold and release: `services/report_comments.py` | `release_batch`, `release_batch_member` | report cards, Monday cut, released cards | moderation | three statements per run; overlapping runs; growth of a stream after it was shown | nothing a reader keeps narrows a comment to fewer than a threshold of people |
| Report and summaries: `services/reporting.py` | `weekly_summary` | hourly walk, report | gateway, release, decisions | list, ask for seconds, write; a removal in between | both summaries or none, and nothing removed is served in one |
| Grade passback: `services/grading.py`, `lti/ags.py` | `line_item`, `grade_sync` | create item, weekly sweep | LMS | a crash between a call and its record; late answers | the gradebook ends at the latest score |
| Response loop: `services/response_loop.py`, `student_results.py` | `instructor_response`, `response_policy` | publish, edit, on behalf, switch the policy | student results, leads | two people answer one week; the policy switched or a deadline reached meanwhile | one author per week; what students were shown is not held back |
| Comparison figures: `services/benchmarks.py` | none: computed from a frozen week | open a report | report, purviews | subtracting published figures from each other | no difference is about few people or sections |
| Launch: `lti/*`, `api/lti.py` | `lti_launch_state`, `lti_launch_nonce` | login, launch, purge | LMS | one launch delivered twice, or after the purge | a launch is accepted once |
| Provisioning: `services/provisioning.py` | `course`, `section`, `launch_defect` | a staff launch's second transaction | launch, roster | two first launches insert the same rows | every launch ends with its section or a reason |
| Session: `services/session.py`, `api/auth.py` | `revoked_session` | log in, switch view, log out | all requests | two requests spend one token | a login has one live session |
| Roster sync: `services/roster_sync.py` | `enrollment`, instructor grants, `nrps_call` | hourly round, launch's task | LMS | a walk of seconds over a container that changes, savepoints, overlapping syncs | nobody loses a place the platform did not take |
| People editor: `services/people.py` and its definers | `role_assignment`, `lead_faculty_mapping` | grant, revoke, map, import a file | decisions, response loop | a role revoked while it is relied on; a preview of two reads, stale when applied | a course's lead holds the role |
| Identity reveal: `services/safety.py` | `audit_log` | reveal | Care roles, verdicts | a crash between record and read | no name without a committed record |
| Authorization: `services/authz.py`, its SQL | `role_assignment`, `reports_to`, `containment_path`, `ended_teaching_grant` | edit a chain, read a purview, discover a section | people editor, roster, launch, review | hats of one person meet; a grant is asked about before what it covers exists, and revoked before the binding | a purview is what the chains give; one reviewer per course; nobody reviews themselves |

The frontend, the mock servers, migrations and scripts hold no state these
properties need. `PROJECT.json` lists every part with its status, and the
hazards with the line where each bites.

## 2. Modules

| Module | What it is |
|---|---|
| `CommentHold` | abstract: what the small-N hold promises of a section's comments, a week shown and a batch released in one step each |
| `CommentRelease` | one section and term, from a student's submission to the last reader of a comment, implementing `CommentHold` |
| `MCCommentRelease` | its values for TLC |
| `CommentReleaseProofs` | the sweep's invariant, that counting people is enough, then the invariant of the sweep, the cut and the report together, and the implementation of `CommentHold` |
| `SubmissionGate` | one response: submissions, the verdicts of its comments, and the re-classification sweep |
| `MCSubmissionGate` | its values for TLC |
| `GateProofs` | one whole response, and what its validity follows while no sweep overlaps |
| `Gradebook` | abstract: what passback promises of a section's gradebook |
| `GradePassback` | the column's creation and the weekly sweep, implementing `Gradebook` |
| `MCGradePassback` | its values for TLC |
| `FiniteNumbers` | the greatest and the least of a set of numbers, finite images, and sums: what the proofs need of data |
| `GradePassbackProofs` | the passback's invariant, its four safety properties and the implementation of `Gradebook` |
| `ModerationDecisions` | one published section-week: its decisions and its summaries |
| `ResponseLoop` | one section: its policy, the answers to its weeks, and a student's page |
| `BenchmarkSeal` | one comparison figure and the readers of several reports |
| `EnrolledWeeks` | one section: its windows, its roster as the syncs leave it, the participation ledger and the class a report counts |
| `MCClosedWeek` | the four above side by side, with their values for TLC |
| `ClosedWeekProofs` | the decisions and summaries, the answers and pages, the denominator and the ledger, the comparison figures |
| `LaunchDoor` | logins, launches and what a launch provisions |
| `SessionChain` | the tokens of a login |
| `RosterSync` | pulls of several sections' rosters |
| `MCRosterSync` | its values for TLC |
| `PeopleGraph` | who leads a course: single edits and imports |
| `IdentityReveal` | from the Care role to a student's name |
| `MCAccess` | the five above side by side, with their values for TLC |
| `AccessProofs` | one live session per login, no name off the record, a launch admitted once, nothing half provisioned |
| `RosterProofs` | the leads of courses, the places a pull must not end, the class it commits |
| `Purview` | the people graph, the purview read off it, and who reads by it |
| `MCPurview` | its values for TLC |
| `PurviewProofs` | the purview of the chains, one reviewer per course, nobody's own sections before them, bound sections in purview |

### CommentRelease

A *comment slot* stands for the answer row of one student, week and stream;
resubmission revises it in place, so `text[c]` counts wordings and 0 is no row.

| Variable | In the code |
|---|---|
| `closed` | weeks whose `survey_window.closes_at` is behind the app clock |
| `pending` | requests between the window check and their commit |
| `text` | `answer.comment_text` |
| `verdicts` | `classification` rows of kind MODERATION with the wording the model was sent |
| `attempts` | `moderation_attempt` rows |
| `lock` | `pg_try_advisory_lock(SWEEP_LOCK_KEY)` |
| `queue`, `asking` | the sweep's list, read once, and the comment out at the provider |
| `batches` | `release_batch` with its members |
| `cut` | what a run of the Monday cut has read so far |
| `reader` | what a report request has read so far |
| `shown`, `readTexts` | history only: what readers were given, which the properties are about |

Each handler is split exactly where another process can get in: between a
submission's window check and its commit (`BeginSubmission`, `StoreSubmission`,
`RefuseSubmission`), around the sweep's call to the model (`StartSweep`,
`AskModel`, then `RouteVerdict`, `CountUnusableAnswer` or `LeaveForNextRun`,
`EndSweep`), between the cut's statements (`StartCut` reads the clock and the
unmoderated weeks, `ReadDue` the streams, `ReadAnswers` the answers,
`CommitCut` writes) and between the report's (`ReadModerated`,
`ReadSuppressed`, `ReadCards`). `SweeperDies` and `CutterDies` may fall
anywhere. Every helper of the release gate (`Held`, `Due` and its three legs,
`Commenters`, `ReportComment`) is its SQL as set algebra.

Abstractions: verdict kinds are *readable* and *care*, the only distinction the
view acts on; a wording is a number; one section and one term, so a run of the
cut commits at most one batch (in the code an `IntegrityError` in one section
also ends the rest of the walk, and next Monday's run starts over); the clock
is the number of closed weeks. The moderation status printed on a card, the
shuffle of cards and the text of a summary are left out.

`CommentHold` says what all of this is for. A comment is judged once, in the
wording it keeps; a week is complete when it takes no more answers and all it
holds is judged; a stream of a complete week is shown whole if a threshold of
people wrote it, and its comments wait for a batch otherwise. In `CommentHold`
each of these is one step over the rows as they are, where the code takes
several statements with other transactions in between. `CommentRelease` maps
`open` to the weeks that may still take an answer (not closed, or with a request
in flight) and `verdict` to the view's reading of the rows (`VerdictOn`).

`InFlightDrains` is the one assumption about time. Windows close on Sunday at
23:59:59, the sweep runs at ten past the hour, the cut on Monday at 02:40 and
the report opens at 06:00 (`jobs/schedules.py`, `reporting.report_opens_at`),
while a request makes at most two model calls of four seconds. When it is TRUE
the sweep, the cut and the report of a week wait for the requests that passed
its window check. Nothing in the code enforces it, so it is a constant, and one
run shows what it buys.

### SubmissionGate

One student, section and week, seen at the grain at which two transactions can
interleave. `CommentRelease` takes a submission as two steps and has no
validity; this module opens the first up and leaves everything after the close
of the week out.

| Variable | In the code |
|---|---|
| `text` | `answer.comment_text`, told apart by the request that sent it; a revision is in place |
| `rows` | `classification` rows of kind VALIDITY; `at` is `created_at`, whose server default is the start of the writing transaction |
| `stored`, `isValid` | the `response` row and its `is_valid` |
| `lock` | the row lock that the insert or the UPDATE of the response takes and holds to commit |
| `request` | what a submit has judged (`own`), whether it found a response (`found`) and the `is_valid` it loaded (`seen`) |
| `sweep` | what a run of `reclassify_floored_comments` has listed, asked, judged, loaded and written |
| `overlapped` | history only: a sweep ran beside a request or another sweep |
| `faults` | bound only |

A submit is `Begin` (its transaction, and so its `now()`, starts), `Judge` (the
model or, on a timeout, the length floor judges every comment, then the response
is looked up without a lock), `WriteAnswers` or `RefuseWrite` (the unique key,
or a comment that holds a verdict was left out), `RecomputeAtSubmit` and
`CommitSubmission`; `GiveUp` is a bounce, a provider that is down, or a death.
A sweep is one transaction with a savepoint per comment: `StartSweep` lists
the comments that only the floor judged, `AskAgain` reads one as it stands now,
`ModelAnswers`, `FloorAnswers` or `AskingFails` comes back after seconds in
which anything may have committed, `UpdateValidity` waits for the response row,
`CommitSweep` commits the whole walk, and `SweepDies` loses it.

`is_valid` is a read-modify-write. The mapper loads the row once in a
transaction and emits an UPDATE only where the computed value differs from the
loaded one, so a run that computed what it had loaded leaves whatever another
transaction wrote in between. `seen` and `value` keep exactly that.

Abstractions: a wording is the request that sent it; *insufficient* and
*nonsense* are *refused*; ratings and the window (`CommentRelease` has it) are
left out; the verdicts a bounce records against no answer are not kept, as
nothing reads them.

### GradePassback

| Variable | In the code |
|---|---|
| `score` | the pair (percentage, ledger) of `participation_scores`, numbered as it changes |
| `url` | `section.ags_line_item_url` |
| `sync` | per student, the newest `grade_sync` row, the only one the sweep reads |
| `lock`, `job` | the `FOR UPDATE` of `ensure_line_item` and what a `create_line_item` task has found |
| `sweep` | this section's part of `post_scores_for_all_sections`: the run's instant, the deliveries, the resolved column, the uncommitted rows |
| `columns`, `spent`, `book` | external: the platform's container, the addresses it gave, the scores it holds |
| `adrift`, `flight` | external: creations and posts the tool gave up on that may be taken yet |
| `lost`, `removed` | history only |

A post and its record are two steps (`PostTaken`, then `CommitSection`), and
`RunDies` may fall between them: the score is in the gradebook and the record is
not. A call that gives up (`PostUnanswered`, `CreationFails`, `ResolvingFails`)
may have been lost or may be taken at any later time (`LandPost`,
`LandCreation`). The run's timestamp is taken once, before its sections; the
score is computed when the section's turn comes. Resolving the column follows
`find_or_create_line_item`: the recorded address, else the container, else a
creation which the sweep does not record. The platform is modelled by ADR 0052:
an older timestamp is refused, an equal one taken.

`Gradebook` says what this is for: the score shown only moves to one decided
later, and catches up with the last one, until an instructor removes the
column. `GradePassback` maps `held` to the newest score any Pulse column holds.

Abstractions: one section; students whose enrollment ended are not among
`Students`; a pair does not recur (its ledger names the weeks, and after a close
a week's count only falls: `LedgersMoveOn` below); one sweep at a time, since the beat starts one a
week and nothing redelivers a task.

### ModerationDecisions

| Variable | In the code |
|---|---|
| `flag` | the moderation verdict that flagged a comment |
| `log`, `next` | `moderation_state` and its identity column, drawn at the insert |
| `deciding` | the uncommitted row of a request, which holds its comment's advisory lock |
| `walk` | a run of `generate_missing_summaries` in this week: the sequence it read, the rows it drew |
| `summaries` | `weekly_summary` |
| `raced` | history only |

A decision is `Record` (lock, the queue again for a leader, the newest row, the
insert) and `CommitDecision`; whatever a request reads before its lock does not
bear on the outcome. The walk is `StartWalk` (no summaries), `ReadSequence`,
one `Summarize` per stream over the comments as they stand at that moment,
`CommitSummaries` under the unique key, and `LeaveWeek` anywhere.

`LatestSequence` counts every row and `LatestRemoval` only rows somebody
decided, as in the code: the sweep's own rows are there before a week is
summarized. Since a sequence is drawn before its row commits, a removal can
commit after a walk has read a later sequence; ADR 0206 accepts that, `raced`
marks it, and `ServedSummariesOmitTheRemoved` holds in every other behaviour.
A lead mapping is unique per course, so two people who review one course are
two chairs of an unled one.

### ResponseLoop

| Variable | In the code |
|---|---|
| `now` | the app clock, in steps of 48 hours |
| `lead` | the course's `lead_faculty_mapping` |
| `policies`, `switching` | `response_policy`, and a setter's uncommitted row |
| `answers`, `door` | `instructor_response`, and a request that passed the door or wrote its row |
| `page`, `pages` | a student's request between its two reads of the hold, and what it showed |
| `straddled` | history only: weeks that opened between a switch's insert and its commit |

`EnterDoor` is the read the service does without a lock, `Insert` the trigger:
the role again, the week's advisory lock, then the other authors. Two publishes
by one instructor may both pass (`response_loop.py:596`); both rows are hers.
A student's page asks for the week's state and later for every week's
(`OpenPage`, `FinishPage`). `set_at` is stamped before the commit, so a week
whose report opens in that gap is read under the old policy first and the new
one afterwards: SPEC.md:169 says a later change never holds back a week already
shown, and the two properties about the hold except these weeks.

### BenchmarkSeal

`leading`, `teaches`, `purview` and `turnout` are chosen once; `figures` is
which populations each reader was shown. `Tightest` takes the least of a
figure's own counts and of every remainder its readers would have left, and a
reader adds and subtracts whatever she was shown (`Combinations`, weights -1 to
1). The docstring of `benchmarks.py` names what it does not protect from, and
so does the module: grants that change between two reports, terms compared over
time, and readers who tell each other figures.

### EnrolledWeeks

Time is in days. `RosterSync` has the walk page by page over two days and no
weeks; here a pull is one step, over a term.

| Variable | In the code |
|---|---|
| `today` | the app clock's day in the institution's zone; the real clock stamps the call log, and the two are one here |
| `says`, `told` | external: what the platform says of a pupil; bound only |
| `firstSync` | the least `called_at` of `nrps_call` rows that counted members |
| `places` | `enrollment`: `from`, `to`, and `begins` for `lms_window_start` |
| `staff` | persons with an assignment scoped to the section |
| `items` | completed items of each pupil in each week |
| `listed`, `readOn`, `seen`, `revised` | history only |

`Pull(n)` reads `n` of the container's pages: none is a refused call, fewer
than all a walk cut short. `EnrolledFrom` is SPEC 3.4's three tiers; the ledger
takes the earliest row and no drop into account, the class of a report takes
the rows that overlap the window. A submission asks for a row live today and
an open window.

What the properties leave room for, because the code does. `revised` marks a
pupil whom a walk took back a day of on which they could answer (a drop that is
read after its date, a start date after the first sighting, a member found to
be staff, whose row is closed with yesterday): their answers stay in the
response rate's numerator and they leave its denominator, although the comment
in `_enrolled_students` (`reporting.py:2295`) keeps a rate above 1 off a
report. A drop that the platform dates before a window and tells of inside it
is enough. And a member on a page that the first sync could not read is a late
add from the day a later walk reads it, although ADR 0131 takes the first sync
for the day the whole roster arrives: `OnlyLateAddsAreExcused` speaks of whole
walks for that reason.

Abstractions: a response's answers are a number of completed items; a window
opens and closes on a day; unreadable members, leads and chairs of the section
and time zones are left out.

### LaunchDoor

| Variable | In the code |
|---|---|
| `instant` | the real clock |
| `begun`, `inFlight` | logins and `lti_launch_state` (0 for no row) |
| `ledger` | `lti_launch_nonce` |
| `delivery` | each request at the door: `verifying`, `claimed`, `admitted`, then the rows its second transaction wrote |
| `admitted`, `silent`, `beaten` | history only |
| `courses`, `sections`, `defects` | `course`, `section`, `launch_defect` |

The first transaction is `LookUp` (no lock), any refusal, `ClaimNonce` (the
unique index makes it wait for another claim) and `AdmitLaunch`; the second is
`ResolveContext`, `UpsertCourse`, `UpsertSection` and `CommitProvisioning`,
with one savepoint around the two upserts. `LedgerOutlivesTheLogin` is what
`lti/launch.py` argues at 164: a nonce is kept longer than a login may be used
plus the longest a request may run.

What the properties leave room for, because the code does: a launch whose
insert met the row of another context with its name ends with no section and no
defect, and records the collision when it comes again; a launch that loses its
context to one with another label leaves the course it created without a
section. `ResolveContext` is one step for the three reads of
`provisioning.py:571`; a commit between them could only record a collision that
is none, and a recorded reason is what the property asks for.

### SessionChain

A token is its login and its number. `EnterSwitch` passes the gate that asks
the ledger, `EnterLogout` the one that does not; `Revoke` is the insert that
waits or does nothing, `CommitRevocation` commits it with the purge. That a
switch may lose to a logout and be told so is ADR 0202's.

### RosterSync

| Variable | In the code |
|---|---|
| `listing`, `place`, `changes` | external: what the platform says of a member now, and its own order of them |
| `enrolled`, `teaching` | `enrollment` (closed rows too) and the instructor grants |
| `sync` | what a worker read of a section, the open rows it goes by, its uncommitted rows (`draft`) |
| `sync[w].away`, `untaught`, `passed`, `wrong`, `went` | history only, kept in the worker |
| `started` | bound only |

A round walks every section in one transaction with a savepoint each; a task
walks one. A walk is a page at a time, and a page holds whoever stands at its
places when it is asked for: between two pages somebody may join or leave
(`ChangeListing`) or be moved (`Reorder`), which shifts everybody behind. A
member served twice is kept as first read (`Deduplicated`); a page that fails
leaves an incomplete walk, which closes nobody for being absent. `Ingest` writes
by the open rows read at `ReadOpen`; the CHECK and the exclusion constraint refuse a section (`Refused`), and another worker's rows of
the section are waited for. The module keeps the day of a row, since a
re-add on the day of a drop is refused until tomorrow. The `nrps_call` rows a
round leaves are not kept; `EnrolledWeeks` has what the first of them dates.

What `NobodyListedIsEnded` leaves room for, because the code does: a member who
moves from a page not read yet onto one that was is on no page of the walk
(`passed`). When somebody on a page already read leaves, that happens to the
first of the next page. The walk is whole all the same, and `_ingest` ends their
place, or their grant, until the next pull (section 3 has the words this
contradicts).

### PeopleGraph

`held` and `mapping` are `role_assignment` and `lead_faculty_mapping`, each row
with the commit that wrote it, which is what SERIALIZABLE compares; `previewed`
is what a preview answered, the state its digest binds and the differences it
showed; `desk` an administrator's open transaction. A preview reads the mapping
for the digest and for what to write (`StartDryRun`), writes the lines that
differ one by one, under their locks and for itself only (`PreviewLine`), and
reads the mapping again for what it shows (`ShowDryRun`). Row locks
are read off what each desk wrote, relies on or revokes (`Writes`, `Shares`,
`Revokes`). A deadlock between two imports is a 500 and here `Abandon`.

What `ApplyChangesWhatWasPreviewed` leaves room for, because the code does: an
edit of a line that did not differ, committed between the two reads, is in what
the preview shows and not in what its digest binds. Once it is undone the apply
goes through without it, so the property speaks of the lines that differed, and
of those it demands exactly what was shown.

### IdentityReveal

`care`, `routed`, `audit`, `reveal`, `told` (history). Roles come and go and
verdicts arrive between any two of `AskForReveal`, `DeriveSubject`,
`RecordReveal`, `CommitReveal`, `ReadTheName`. `told` is a set, so a record that
is spent twice is not told apart from one spent once, and nothing is claimed
of it.

### Purview

| Variable | In the code |
|---|---|
| `granted`, `reportsTo` | `role_assignment` and its `reports_to`; person, role and scope of a row never change |
| `leads` | `lead_faculty_mapping` |
| `org` | the nodes there are; `PathOf` is `containment_path` |
| `endedTeaching` | `ended_teaching_grant` |
| `launches` | a leader's launch in its transaction: let on, what it looked up, whether it is covered |
| `edits` | bound only |
| `everTaught`, `bound` | history only: who taught what; each launch by a leader that bound its section, and which rows were in its purview when it was checked |

A purview is read off one graph: the code's walk is a statement a level at READ
COMMITTED, and what it would make of a graph edited under it is not modelled, so
the first three properties are about a given graph. An edit is one step, and
`PeopleGraph` has those that race. A leader's launch is not one step:
`LeaderLaunches` asks for a leadership role, `LookUp` finds the rows there are,
`CheckPurview` asks about them (one moment of the graph, as above), and
`BindContext` writes and commits after the addresses are judged, with any edits
in between. So a section may be bound to the launch of somebody who has just
lost it, and `BoundIsInPurview` leaves room for exactly that: everything the
check found in their purview is gone from it. `Reached` is the recursive
query of the walk with its limit of levels, and `PromisedPurview` the
recursion SPEC 2.1 writes. CARE and ADMIN rows are outside the graph and left
out. An instructor's row that reports to somebody comes from the seed only, and
the editor refuses a new one.

What the properties leave room for, because the code does: the queue leaves out
a section its lead teaches, and a led course has no other reviewer, so its
flagged comments wait for nobody (`authz.py:1267` speaks of another reviewer,
which only an unled course with two chairs has). A decision reads which courses
its maker reviews before it takes the comment's lock, so a lead unmapped while
waiting decides as lead once more.

## 3. Runs

| Run | World | Shows |
|---|---|---|
| `release` | 3 students, 5 slots of 2 wordings, 2 weeks, 2 streams, threshold 2, 2 sweepers (symmetric), one cut | `TypeOK`, `NeverShownTwice`, `NoPartialWeek`, `BatchHidesItsAuthors`, `PeopleImplyVolumeAndWeeks`, `ReadTextWasModerated`, `SettledOnce`, `HoldKept` |
| `settling` | 2 slots, 2 weeks, 2 overlapping cuts, with fairness | `EveryCommentSettles`, `DueIsReleased` |
| `late_submission` | `InFlightDrains` FALSE | a resubmission lands on a judged answer: `ReadTextWasModerated` is violated |
| `overlapping_cuts` | 2 cuts, one stream over 3 weeks | a batch of one author: `BatchHidesItsAuthors` is violated |
| `gate` | 2 comments, 2 requests, one sweep that may run again and again, 1 fault, with fairness | `OneSubmissionWhole`, `SweepsApartKeepValidity`, `FlooredIsJudged` |
| `floored_revision` | 1 comment, 2 requests, 1 sweep, no faults | a revision the floor judged is never asked about again: `FloorIsRevisited` is violated |
| `overlapping_sweep` | the same | a verdict on the replaced wording governs: `RefusalIsAboutStoredText` is violated |
| `closed_week` | `ModerationDecisions` with 2 comments, 3 deciders, 2 walks; `ResponseLoop` with an instructor, a lead and a chair, 2 weeks; `BenchmarkSeal` with 2 readers, 6 sections; `EnrolledWeeks` with 2 pupils on 2 pages, 2 weeks, 6 days | the ten properties of the four modules |
| `access` | `LaunchDoor` with 4 launches, 2 requests; `SessionChain` with 2 requests; `RosterSync` with 2 sections, 3 members on pages of one, a round and a task; `PeopleGraph` with 2 desks, 2 courses, a file; `IdentityReveal` with 2 of everything | the eight properties of the five modules |
| `purview` | 5 persons, 9 assignments, 14 nodes of which 3 are undiscovered, 3 edits or launches | `PurviewIsTheChains`, `OneReviewerPerCourse`, `OwnSectionsStayOut`, `BoundIsInPurview` |
| `backdated_drop` | the roster alone, with drops dated by the platform | a drop dated before the first day stops the section: `DropsEndEnrollment` is violated |
| `passback` | 1 student, 2 workers, 4 addresses, 2 scores, 3 faults, with fairness | `TypeOK`, `OneColumn`, `OneScorePerStamp`, `NothingDueIsHeld`, `GradebookKept` |

Bounds of `CommentRelease`. Threshold 2 is the least that hides anyone; with three students one
stream can be below, at and above it in one week (course, week 1) and another
thin in each week and at the threshold over both (instructor, weeks 1 and 2),
which is what the release exists for. Not every slot is filled, so smaller
classes are in the same run. Two wordings are enough for a verdict about an old
one; they are explored in the classes without the third student of the course
stream, and that student with one wording (`RevisedOrLarge`). One attempt makes a
capped comment; two weeks are what a release must span; two sweepers are what
the lock keeps apart. `LastWeek`, `MaxText` and `AttemptCap` bound the counters. Deadlock is
checked: readers of released comments may always read again.

Bounds of `SubmissionGate`. Two requests are a first submission and its
revision, or two first submissions racing for the row; two comments are what a
stored submission can be a mixture of, and what makes `is_valid` depend on more
than one verdict. `MaxFaults` counts the sweep's timeouts and deaths: one of
them is enough to make a comment wait for a later run, and liveness needs their
number to be finite. One worker runs the sweep over and over; sweeps that
overlap each other are excluded from `SweepsApartKeepValidity` and add nothing
to it. Deadlock is off because a student owes no further submission and
nothing then needs a sweep.

Bounds of `GradePassback`. Students meet only in a sweep's commit, and every
property is about one of them, so one is enough; two scores are what a late
post of the first can overtake; three faults are a lost answer, a death that
loses a record, and one more of either, and at most three creations can be made
besides the first, hence four addresses. The state space is finite without a
bound on runs because a timestamp is only later than those that left a trace.

`closed_week` and `access` put modules with no variable in common into one
run: a first choice says which of them moves and the others stay as they began,
so the states are the sum and every property is still checked in every state.
Deadlock is off, since each ends at its bounds.

Bounds of `closed_week`. Two comments, of which one is flagged and one is not,
in two streams; three decisions are a decision, its undo and one of somebody
else, and two requests at a time are what can race; two walks overlap. Two
weeks, opening every fourth day, with a clock past the second deadline, are
what a switch can fall before, between and after; two people at the door are
explored while the policy is switched at most once, and one while it is
switched twice. Six sections, one of an earlier term, with up to two people in
each (`Turnouts`), minimums of 2 sections and 3 people, are the smallest that
have a lead's set, a second lead's, and sections of neither; one reader teaches
or leads up to three of them and a colleague shares one. Two weeks of three
days, windows of two and a day between them, end a day after the second close,
so both weeks elapse and the section ends; a walk of two pages can be whole, cut
short or refused; the pupil who answers is on the second page, leaves and
comes back or is dropped with a date, and the other is dated by the platform or
is the teacher. Three changes of the platform are an arrival, a departure and a
return. A week has one item, whose count can rise and fall.

Bounds of `access`. The clock passes the life of a login and of a nonce with a
purge in between, on two launches; the four launches (one context twice, a
second under the same name, one with no calendar) are explored with the clock
standing still, as provisioning reads none. Two sections, of two members and of
one, on pages of one: two pages are what a member can move between or be served
on twice. Two days, and two changes of the platform (somebody leaves and comes
back, or leaves and another moves), a round and a task (or one of them twice).
Four commits of the editor are two edits between the reads of a preview and its
apply, and the import, or a mapping, a revocation and an import. One file takes
a lead off one course and gives the other one, so one of its lines may differ
and the other not. Symmetry is over what only acts: requests, workers and desks.

Bounds of `purview`. Three edits from a graph that already holds the hard
shapes: a dean who chairs, an assistant dean who leads, a lead who teaches under
her own lead role, a chair who may come to teach, courses with and without a
lead. Three are a revocation with what it needs first, a lead exchanged before a
launch, a launch with a chair's role taken between its check and its binding, or
a teaching grant that comes and goes before a mapping. Three leaders may launch
(`Launchable`): a lead under a prefix that is not theirs, the chair of that
prefix, and somebody who leads the course. Deadlock is off, since the run ends
at its bound.

Fairness. In `settling` the beat starts both jobs forever, so starting is
weakly fair. A worker may die at each try but not always at the same point, and
a provider asked forever gives a usable or a countable answer, so the steps
inside a job are strongly fair. A week closes by the clock. Nothing is assumed
of students or readers, except that a request is answered. In `gate` the beat
starts a sweep every hour, a request once begun is answered, a walk that its
worker survives goes on to its commit, and a provider asked forever about one
comment judges it. In `passback` the beat starts a run every week, workers carry on with
what they began, and failures are finitely many (`MaxFaults`).

### Disagreements with the docs

* `late_submission`: ADR 0187 says a verdict judges the text as it stood at
  close. The window is checked once, before the model is asked, and the commit
  does not look again.
* `overlapping_cuts`: the docstring of `_held_comments` says that two
  overlapping runs are stopped by the unique key on the membership. They are if
  both had read their answers; a run that has counted a stream due and then
  loses part of it to the other run's commit writes the remainder, which no
  leg was evaluated on.
* `floored_revision`: SPEC.md:108 and ADR 0115:102 say that what the floor
  judged is classified later. The sweep lists an answer only while no model
  verdict stands against its row, and a revision keeps the row: once one
  wording was judged by the model, a later one that met a timeout is not listed.
* `overlapping_sweep`: SPEC.md:108 excepts only a comment accepted on the floor
  from "never silently penalized after the fact", and ADR 0115:103 says that the
  sweep judges the current text. A sweep that read a wording before a student replaced it may start its
  transaction after the submit began; its verdict, on words no longer stored,
  has the later stamp and lowers `is_valid`.
* `backdated_drop`: ADR 0095 says a dropped member's enrollment ends on the
  extension's end date. Where that date is before the first sighting, the CHECK
  refuses the row, the savepoint takes the whole section's roster back, and the
  next round meets it again: the outcome the same ADR (line 97) refuses for a
  date without a zone.

Two more disagreements have no run of their own. They are what the properties
of the components except by name, and the modules reach both.

* `roster_sync.py:975` says that a member missing from a complete walk has left.
  With pages of one and two members: the first is read and leaves, and the
  second moves up to the page that was read; the next page is empty and the
  last, the walk is whole, and the second member, whom the platform listed all
  the while, is ended (`passed` in `RosterSync`). The docstring of `_deduplicated` (1287) has the
  opposite shift, which serves a member twice, and is handled.
* `people.py:771` says that the diff an apply records is the one the dry run
  answered. The dry run reads the mapping twice (877 for the digest, 891 for the
  diff): another administrator's edit of an unchanged line in between is in the
  answer and not bound by the digest, and if it is undone before the apply, the
  apply records another diff than was shown.

## 4. What is proved

Every invariant that a passing run checks is proved for all values of the
constants (any number of students, comments, weeks, workers, requests, any
threshold or calendar), and so are the action properties and the safety part of
both refinements. Each theorem is about the specification of
one component (`GateSpec`, `DecisionSpec`, `DoorSpec`, ...): the runs that put
several side by side share no variable between them.

`CommentReleaseProofs` has four parts. The first needs no assumption on time. Its invariant `SweepInv`
says that the lock is held by at most one sweeper, that only its holder has a
queue or a question, and that what is queued or asked has no verdict and is
below the cap; then one verdict per comment is inductive. `CountingPeopleIsEnough`
is not about steps: a held stream has fewer than a threshold of authors in each
week, so a threshold of authors takes two.

Its second part adds `ReleaseInv`, because none of the reader's properties is
inductive. A week is *settled* when it is closed, no request is in flight into
it and no comment in it awaits a verdict; a settled week never changes again,
so its readable comments are fixed (`PendingIsRecent`, `SweepIsLate`,
`VerdictsAreCurrent` give this). The reader's and the cut's intermediate reads
are then facts about settled weeks (`ReaderSeesSettled`, `CutSeesSettled`), in
which a stream is either thin, and may be released, or not, and may be shown
(`ShownIsWhole`, `ReleasedIsHidden`); no stream is both, which is
`NeverShownTwice`. `BatchHidesItsAuthors` needs besides that one run of the cut
is active at a time (`OneCutter`): the run `overlapping_cuts` is why.
`ReleasedOnce`, that no comment is in two batches, needs neither and has no run of its own:
the unique key on the membership is enough, however many runs overlap
(`NothingIsReleasedTwice`).

The third part is `KeepsTheHold`: under both assumptions `CommentRelease`
implements `CommentHold`. Every step that only reads, locks or dies is a stutter.
`StoreSubmission` maps to `Write`, which may close a week as well, since the
request may be the last in flight; `RouteVerdict` to `Judge`; `ReadCards` to
`Show`; `CommitCut` to `Release`. The last two act on what earlier statements
read, and `ReleaseInv` and `CutIsExact` are what says that it still stands: the
week is settled, the stream is thin or is not, and nothing of the batch was
released meanwhile.

The fourth part puts the two ways to a reader together. `NothingReadNarrowsItsAuthors`
says, under both assumptions, that every comment a report ever carried lies in
exactly one of the sets a reader is handed, a stream of a week or a stream of a
batch, and that this set has a threshold of authors. It follows from
`NeverShownTwice`, `NoPartialWeek`, `ReleasedOnce` and `BatchHidesItsAuthors`
and one more invariant, that all that was read was shown or released
(`ReadIsHandedOut`). Each of the four closes one way to be in two sets or in a
thin one. No run checks it by itself.

`GateProofs` proves both invariants of `SubmissionGate`. `OneSubmissionWhole`
becomes inductive with `WritersHoldTheRow`: a request that writes holds the
response's row, and it sent every comment that is stored, so what it replaces
is never more than what it brings. For `SweepsApartKeepValidity`, `ApartInv`
says of a history without overlap that a running sweep is alone
(`SweepRunsAlone`), that the value it will leave is what the verdicts will say
once its own are in (`Reckons`), that no refusal is as late as a request in
progress, and that a stored wording was accepted when it was stored. The proof
uses the absence of overlap in one place, the beginning of a sweep or a request;
`overlapping_sweep` is what happens without it.

`GradePassbackProofs` proves the four safety properties of `GradePassback`, and
that it implements the safety part of `Gradebook` (`Promise!Moves`), for any
class and any number of workers, addresses, scores and failures. Its invariant
`Inv` has these parts.

* `JobInv` and `ColumnInv`: who looks for the column or creates it holds the
  row's lock, and the row records no address while anybody does; the sweep
  creates only with an address recorded, so never at the same time. Hence what a
  walk saw (no column) still holds when its creation is sent: `OneColumn`.
* `StampInv`: among all that was sent for a student (recorded, held by a column,
  in flight, planned, posted and not committed) a later timestamp never goes
  with an earlier score, and a run that has planned nothing has a timestamp
  later than all of it. The second half is `NowIsLater`, for which `FiniteNumbers`
  proves by well-founded minimality that a finite set of numbers has a greatest.
  `OneScorePerStamp` alone is not inductive: a column that takes a late post
  must not fall back.
* `EmptyInv` and `PostedInv`: what a row or an uncommitted record calls posted,
  some column holds, or holds a later score of. A column's scores only move
  forward while it is there (`ScoresMoveForward`, from `StampInv`), so a run that
  dies between a post and its record does no harm: `NothingDueIsHeld`.

For the refinement, `ScoreChanges` maps to `Decide`, `RemoveColumn` to `Remove`,
and every other step to `Accept` of one student or to a stutter
(`OneStudentMoves`, `HeldMovesForward`).

`ClosedWeekProofs` has a section for each of four components.

* The decisions. Nothing about a comment's state is inductive before one knows
  that a sequence is drawn once and that an open row has its comment to itself,
  is later than every committed row of it, and was judged against them
  (`OpenRowsFollow`): this is the advisory lock seen from the rows. `LogInv`
  gives `DecisionsFollowTheLog`. Of the walks, `DrawnInOrder` says that a run's
  rows are one for each of the first streams, against one sequence, so a
  complete run replaces all. For `ServedSummariesOmitTheRemoved`, what a reader
  saw of the log is behind every open row unless two commits came out of order
  (`Behind`), so a comment that a summary carries and that is removed was
  removed later than the summary's own sequence, and `stale` finds the row.
* The answers. `AnswerInv`: one writer adds to a week, after and for its author
  (`OneWriter`), and whoever was let in on behalf was let in when the policy in
  force at the week's opening required it and the time had passed
  (`OnBehalfIsDue`). `OnlyAnAnswerMovesTheHold` is an action property, from the
  clock alone: the mode in force at a past opening changes only with a row that
  was inserted before it and commits after, which is what `straddled` records.
  `PageInv` carries the page's several reads: what was published when it began
  is published, and the week it is about did not await an answer then.
* The rosters. `CountedInv` says that whoever answered has a place that overlaps
  the window, and that no place is dated past the day it was opened, unless a
  walk took a lived day back (`revised`): an end read later lies after what was
  already lived. `ListedInv` says that nobody has a place before the platform
  lists them and that whoever a complete walk read has one by then; with the
  day of the first sync being that of the first reading (`WeekTypes`), only a
  place opened after it makes a late add. `LedgersOnlyMoveOn` is an action
  property: every place stays, with the same first day (`PlacesStay`), and a
  closed week's items only fall. The windows follow each other whatever the
  calendar (`Windows`).
* The figures. `FiguresClear` says that each population a reader was shown is
  that of one of her reports, and that each remainder it was sealed against is
  *thick*: about nobody, or clearing both minimums. This does not yet say what
  she can compute. `WhatSheComputesIsThick` does, for any coefficients and not
  only those of the run: sections of one lead that are not hers are in the same
  figures, so they count alike in a combination, and so do the sections that
  are in no lead's set she sees. Where somebody answered in what is left, some
  section counts, and with it one whole remainder; what holds enough people and
  sections and more besides still does (`ContributorsGrow`, `ThickGrows`). This
  is the argument about atoms in the docstring of `benchmarks.py`.

`RosterProofs` has the people and the places. `PeopleInv`: whoever an open
transaction makes a lead holds the role, whoever it takes the role from leads
nothing and is made a lead by nobody, two open transactions write no course in
common, and an import writes, over what its preview's digest bound, the lines
that differed then; the row locks and SERIALIZABLE's comparison are what keeps
these. That those lines were shown as they will be written is a fact of the
preview alone (`ShownDiff`): it holds their rows when it reads the second time.
`RosterInv` says of every walk that whoever the platform does not list now left
during it, and that whoever stands on the pages read and was not read left during
it or moved there from a page still to come (`Follows`). A page holds whoever
stands at its places when it is asked for, so this is an argument about
positions: counts of finite sets, which change only with the listing and the
order (`PositionIs`, `WatchedFollows`). `ClassInv` says that two workers
never hold uncommitted rows of one section, that a round visits a section once,
and, of each pull of a whole container in a transaction, what its draft holds of that
section (`Leaves`): so when it commits, minutes and many sections later, the
open rows of the section are those of the class it read.

`AccessProofs` proves four properties. Of a launch, `AdmissionInv` says
when its login is over (`EndsAt`): no delivery before the ledger found the
state later than that, and both a claim and the ledger's row outlive every such
delivery. This needs `LedgerOutlivesTheLogin` and the bound on a delivery's
time, and no other property of the clock. Of provisioning, `ProvisioningInv`
says that the rows deliveries hold under the two unique keys are apart from
each other and, but for the row each stands for, from the committed ones, and what
a delivery holds at each step. Of a session,
`SessionInv` says that every token but the newest of its login is spent or
expired, that one request at a time revokes a token, and that a switch about to
commit holds the newest: so the purge, which forgets only expired tokens,
revives none. Of a reveal, `RevealInv` says that a subject once derived had
written a comment that went to Care, and that a committed reveal is on the
record; roles and verdicts may change at any point of it.

`PurviewProofs` proves the four properties of `Purview`. `GraphInv`
adds to the types that whoever is mapped to a course holds the lead role, which
the editor keeps at both ends, and that what was ever taught is either taught or
in `ended_teaching_grant`: the mapping alone then decides the reviewer, and own
sections are subtracted whatever hats a person has. `LaunchInv` says of a launch
that what it found are rows of its section's own line (`RowsOf`), and that it is
covered only by some of them. Containment is transitive, so a purview is closed
downwards (`PurviewsReachDown`): the section is in every purview that has one of
these rows, at the binding and ever after, and a prefix stands for a course that
is not there yet. For `PurviewIsTheChains`, `ClimbInv` says that every edge goes
to a higher role (`EdgesClimb`), which the editor keeps and the trigger under it
demands. There are six ranks, so after six levels the walk has nothing
left to reach (`WalksStop`): it computes, unrolled level by level, the tree
below the assignment (`WalkIsTheTree`), and the purviews read off these trees
are what the recursion asks of them (`PromiseIsKept`), hence its only value
rank by rank (`WalksKeepThePromise`). No step of this is an induction
over data.

The provers here cannot use the library's induction. What takes its place is a
counterexample of the least size (`LeastNat` of `FiniteNumbers`): so it is
proved that a sum as the community module defines it, taking elements out in
the order of CHOOSE, does not depend on that order (`SumTakesOut`), grows with
the set (`SumGrows`) and is zero only if each term is (`SumZero`).

Only model-checked: `EveryCommentSettles`, `DueIsReleased`, `FlooredIsJudged`
and the fairness half of `GradebookKept`, since liveness under fairness is
outside the prover. The properties of the five violation runs are refuted, not
proved.

The proofs rest on the named assumptions of the modules only, which TLC
evaluates in the runs. Most say that constants are finite sets, natural numbers
and functions between them. Those that say more, and why the code gives it:

* `GateAssumption`: requests and sweeps are different processes, finitely many.
* `DecisionAssumption`: the streams of a report are a tuple without repetition,
  as `REPORT_STREAMS` is; nobody reviews a section they taught
  (`NobodyReviewsTheirOwn` of `PurviewProofs`), so leaders and instructors are
  different people.
* `LoopAssumption`: the same of the authors. That a lead is not also the chair
  is a simplification of the model.
* `WeekAssumption`: the term begins no later than the section, a window closes
  before the next opens, which `survey_windows.py` computes from
  weekdays.
* `LedgerOutlivesTheLogin`: 300 seconds of a login and a bounded request against
  3600 of a nonce (`launch.py:189`, 206). The bound on a request is ours:
  every outbound call has a timeout of ten seconds (`main.py:61`).
* `PeopleAssumption`: a file names courses, each with a person or nobody.
* `RosterAssumption`: a member is one person's place in one section, there are
  finitely many, and a page holds somebody.
* `PurviewAssumption`, `SeedAssumption`: containment is transitive and a course is
  under no other; the seeded graph keeps the editor's rules, and its edges go to
  higher roles, which the trigger on `role_assignment` demands of every row.
* `SealAssumption`: there are finitely many sections, and what is counted in
  each is a number.

Theorems that need draining requests or one cut at a time say so in their
statement.

## 5. Plan

What is left, in order.

1. The pages of a walk (`RosterSync`) under the term of `EnrolledWeeks`: a first
   sync that fails midway, hour by hour.
2. The cut over several sections, whose batches one `IntegrityError` ends
   together.
3. The roll-ups a leader reads over the sections of a purview, beside the
   figures of `BenchmarkSeal`.

## 6. Not modelled

Cryptography, LTI claims, prompts, wording and layout; SQL arithmetic over
ratings; grants of database roles; the frontend. Leadership rollups
read figures over the sections of a purview, which `Purview` has, and the rest of
the authorization module is lookups of a request's own rows. The rows of survey windows are written once
per section and never changed; section codes are parsed by a table; time zones
and daylight saving belong to the library. Trends, named comparison
sets, the response assistant and the report's payload are reads with no state
of their own. The registration and signing-key editors, web login and the
people file write one row per request, in one transaction, under a unique key.
Development routes, seeding, the mock servers and migrations are tooling.
