---------------------------- MODULE GradePassback ----------------------------
(***************************************************************************)
(* One section's participation column in the LMS gradebook, and the scores *)
(* posted to it.                                                           *)
(*                                                                         *)
(* A task asked for by a staff launch, or by the sweep, finds or creates   *)
(* the column under a lock on the section's row and records its address.   *)
(* The weekly sweep posts each student's score where it differs from the   *)
(* latest record of a post.  Every post is a call to the platform and then *)
(* a record of it, committed once for the section: a worker may die in     *)
(* between, and a call that times out may still be taken later.            *)
(*                                                                         *)
(* The platform orders scores by the timestamp they carry: it refuses an   *)
(* older one and takes an equal one for a retry.                           *)
(***************************************************************************)
EXTENDS Naturals, FiniteSets, FiniteSetsExt

CONSTANTS
  Students,   \* the section's live enrollments
  Jobs,       \* worker processes that may run create_line_item
  Columns,    \* addresses the platform gives to Pulse columns
  MaxScore,   \* bound: scores computed for a student
  MaxFaults   \* bound: failed calls, deaths of workers and removed columns

ASSUME PassbackAssumption ==
  /\ IsFiniteSet(Students)
  /\ IsFiniteSet(Jobs)
  /\ IsFiniteSet(Columns)
  /\ MaxScore \in Nat
  /\ MaxFaults \in Nat

VARIABLES
  score,     \* [Students -> the score and ledger computed now, numbered as they change]
  url,       \* section.ags_line_item_url, at most one column
  sync,      \* [Students -> the latest grade_sync row]
  lock,      \* the task holding the section's row, at most one
  job,       \* [Jobs -> what create_line_item has found]
  sweep,     \* what the weekly sweep has planned, resolved and posted
  columns,   \* the Pulse columns in the platform's container
  spent,     \* every address the platform ever gave one
  book,      \* [Columns -> [Students -> the score a column holds]]
  adrift,    \* creations the tool gave up on that the platform may yet take
  flight,    \* posts the tool gave up on that the platform may yet take
  lost,      \* history: a creation went unanswered
  removed,   \* history: an instructor removed a column
  faults     \* bound

vars == <<score, url, sync, lock, job, sweep,
          columns, spent, book, adrift, flight, lost, removed, faults>>

tool == <<url, sync, lock, job, sweep>>

platform == <<columns, spent, book, adrift, flight>>

(* At most one element of S. *)
AtMostOne(S) == {{}} \cup {{x} : x \in S}

Held == [score : Nat, at : Nat]

NoScore == [score |-> 0, at |-> 0]

(* refused is a FAILED row with a status, unanswered one without. *)
Outcomes == {"none", "posted", "refused", "unanswered"}

GradeSync == [score : Nat, at : Nat, outcome : Outcomes]

Delivery == [student : Students, score : Nat, at : Nat]

Post == [column : Columns, student : Students, score : Nat, at : Nat]

Row == [student : Students, row : GradeSync]

Job == [stage : {"idle", "queued", "walking", "creating", "found"}, found : AtMostOne(Columns)]

IdleJob == [stage |-> "idle", found |-> {}]

Sweep == [stage : {"idle", "started", "planned", "posting"}, at : Nat,
          plan : SUBSET Delivery, column : AtMostOne(Columns), own : SUBSET Row]

NoSweep == [stage |-> "idle", at |-> 0, plan |-> {}, column |-> {}, own |-> {}]

-----------------------------------------------------------------------------
(* The platform, as the calls in lti/ags.py meet it. *)

Takes(c, d) == c \in columns /\ book[c][d.student].at <= d.at

Taken(c, d) ==
  [book EXCEPT ![c][d.student] = [score |-> d.score, at |-> d.at]]

(* A call the tool gave up on reaches the platform after all. *)
LandPost(m) ==
  /\ m \in flight
  /\ flight' = flight \ {m}
  /\ book' = IF Takes(m.column, m) THEN Taken(m.column, m) ELSE book
  /\ UNCHANGED <<score, tool, columns, spent, adrift, lost, removed, faults>>

LandCreation(c) ==
  /\ adrift > 0
  /\ c \in Columns \ spent
  /\ columns' = columns \cup {c}
  /\ spent' = spent \cup {c}
  /\ adrift' = adrift - 1
  /\ UNCHANGED <<score, tool, book, flight, lost, removed, faults>>

RemoveColumn(c) ==
  /\ c \in columns
  /\ faults < MaxFaults
  /\ faults' = faults + 1
  /\ columns' = columns \ {c}
  /\ book' = [book EXCEPT ![c] = [s \in Students |-> NoScore]]
  /\ removed' = TRUE
  /\ UNCHANGED <<score, tool, spent, adrift, flight, lost>>

-----------------------------------------------------------------------------
(* create_line_item. *)

Idle == {j \in Jobs : job[j].stage = "idle"}

(* A staff launch of a section that records no column. *)
RequestLineItemCreation(j) ==
  /\ url = {}
  /\ j \in Idle
  /\ job' = [job EXCEPT ![j].stage = "queued"]
  /\ UNCHANGED <<score, url, sync, lock, sweep, platform, lost, removed, faults>>

(* Mutant: the row is read and not locked. *)
ReadSection(j) ==
  /\ job[j].stage = "queued"
  /\ IF url = {} THEN /\ lock' = lock \cup {j}
                      /\ job' = [job EXCEPT ![j].stage = "walking"]
                 ELSE /\ lock' = lock
                      /\ job' = [job EXCEPT ![j] = IdleJob]
  /\ UNCHANGED <<score, url, sync, sweep, platform, lost, removed, faults>>

(* Everything is decided under the row's lock, on what it says then. *)
LockSection(j) ==
  /\ job[j].stage = "queued"
  /\ lock = {}
  /\ IF url = {} THEN /\ lock' = {j}
                      /\ job' = [job EXCEPT ![j].stage = "walking"]
                 ELSE /\ lock' = lock
                      /\ job' = [job EXCEPT ![j] = IdleJob]
  /\ UNCHANGED <<score, url, sync, sweep, platform, lost, removed, faults>>

(* The container is read to its end for a Pulse column. *)
WalkContainer(j) ==
  /\ job[j].stage = "walking"
  /\ \/ /\ columns = {}
        /\ job' = [job EXCEPT ![j].stage = "creating"]
     \/ \E c \in columns : job' = [job EXCEPT ![j] = [stage |-> "found", found |-> {c}]]
  /\ UNCHANGED <<score, url, sync, lock, sweep, platform, lost, removed, faults>>

CreateLineItem(j, c) ==
  /\ job[j].stage = "creating"
  /\ c \in Columns \ spent
  /\ columns' = columns \cup {c}
  /\ spent' = spent \cup {c}
  /\ job' = [job EXCEPT ![j] = [stage |-> "found", found |-> {c}]]
  /\ UNCHANGED <<score, url, sync, lock, sweep, book, adrift, flight, lost, removed, faults>>

(* A call is refused or unanswered, or the worker dies; each ends the task *)
(* and its lock.  A creation that was sent may land yet.                   *)
CreationFails(j) ==
  /\ job[j].stage \in {"walking", "creating", "found"}
  /\ faults < MaxFaults
  /\ faults' = faults + 1
  /\ \/ UNCHANGED <<adrift, lost>>
     \/ job[j].stage = "creating" /\ adrift' = adrift + 1 /\ lost' = TRUE
  /\ lock' = lock \ {j}
  /\ job' = [job EXCEPT ![j] = IdleJob]
  /\ UNCHANGED <<score, url, sync, sweep, columns, spent, book, flight, removed>>

RecordLineItem(j) ==
  /\ job[j].stage = "found"
  /\ url' = job[j].found
  /\ lock' = lock \ {j}
  /\ job' = [job EXCEPT ![j] = IdleJob]
  /\ UNCHANGED <<score, sync, sweep, platform, lost, removed, faults>>

-----------------------------------------------------------------------------
(* The weekly sweep. *)

Stamps ==
  {sync[s].at : s \in Students} \cup {m.at : m \in flight} \cup {sweep.at}
    \cup UNION {{book[c][s].at : s \in Students} : c \in Columns}

(* Real time, later than every stamp that left a trace. *)
Now == Max(Stamps \cup {0}) + 1

(* One instant for the run, taken before it walks the sections. *)
StartRun ==
  /\ sweep.stage = "idle"
  /\ sweep' = [NoSweep EXCEPT !.stage = "started", !.at = Now]
  /\ UNCHANGED <<score, url, sync, lock, job, platform, lost, removed, faults>>

Recorded(s) == sync[s].outcome # "none" /\ sync[s].score = score[s]

(* Mutant: the stored instant goes out again whatever the score is now. *)
DeliveriesRestampingRetries ==
  {[student |-> s, score |-> score[s],
    at |-> IF sync[s].outcome = "unanswered" THEN sync[s].at ELSE sweep.at] :
     s \in {t \in Students : /\ score[t] > 0
                             /\ ~ (Recorded(t) /\ sync[t].outcome = "posted")}}

(* Mutant: a score that was recorded at all is not sent again. *)
DeliveriesOnce ==
  {[student |-> s, score |-> score[s], at |-> sweep.at] :
     s \in {t \in Students : score[t] > 0 /\ ~ Recorded(t)}}

(* What the latest record of each student leaves to send: nothing where    *)
(* this score was taken, the same delivery again where nobody knows, and a *)
(* new one otherwise.                                                      *)
Deliveries ==
  {[student |-> s, score |-> score[s],
    at |-> IF Recorded(s) /\ sync[s].outcome = "unanswered" THEN sync[s].at
                                                            ELSE sweep.at] :
     s \in {t \in Students : /\ score[t] > 0
                             /\ ~ (Recorded(t) /\ sync[t].outcome = "posted")}}

(* A section with no column asks for one and posts nothing this week. *)
AskForColumn ==
  /\ sweep.stage = "started"
  /\ url = {}
  /\ \/ \E j \in Idle : job' = [job EXCEPT ![j].stage = "queued"]
     \/ Idle = {} /\ job' = job
  /\ sweep' = NoSweep
  /\ UNCHANGED <<score, url, sync, lock, platform, lost, removed, faults>>

(* No call is made where there is nothing to send. *)
PlanDeliveries ==
  /\ sweep.stage = "started"
  /\ url # {}
  /\ sweep' = IF Deliveries = {} THEN NoSweep
              ELSE [sweep EXCEPT !.stage = "planned", !.plan = Deliveries]
  /\ UNCHANGED <<score, url, sync, lock, job, platform, lost, removed, faults>>

Resolved(c) == sweep' = [sweep EXCEPT !.stage = "posting", !.column = {c}]

(* The recorded address is read back. *)
ReadStoredLineItem ==
  /\ sweep.stage = "planned"
  /\ \E c \in url \cap columns : Resolved(c)
  /\ UNCHANGED <<score, url, sync, lock, job, platform, lost, removed, faults>>

(* It is not served: the container is walked, and what is found there is   *)
(* posted to without being recorded.                                       *)
FindLineItem ==
  /\ sweep.stage = "planned"
  /\ \/ url \cap columns = {} /\ UNCHANGED faults
     \/ faults < MaxFaults /\ faults' = faults + 1
  /\ \E c \in columns : Resolved(c)
  /\ UNCHANGED <<score, url, sync, lock, job, platform, lost, removed>>

(* Mutant: the recorded address is not served, so a column is created. *)
CreateMissingLineItemUnwalked ==
  /\ sweep.stage = "planned"
  /\ url \cap columns = {}
  /\ \E c \in Columns \ spent :
       /\ columns' = columns \cup {c}
       /\ spent' = spent \cup {c}
       /\ Resolved(c)
  /\ UNCHANGED <<score, url, sync, lock, job, book, adrift, flight, lost, removed, faults>>

CreateMissingLineItem ==
  /\ sweep.stage = "planned"
  /\ columns = {}
  /\ \E c \in Columns \ spent :
       /\ columns' = columns \cup {c}
       /\ spent' = spent \cup {c}
       /\ Resolved(c)
  /\ UNCHANGED <<score, url, sync, lock, job, book, adrift, flight, lost, removed, faults>>

(* The column cannot be resolved, and nothing is posted this week. *)
ResolvingFails ==
  /\ sweep.stage = "planned"
  /\ faults < MaxFaults
  /\ faults' = faults + 1
  /\ \/ UNCHANGED <<adrift, lost>>
     \/ columns = {} /\ adrift' = adrift + 1 /\ lost' = TRUE
  /\ sweep' = NoSweep
  /\ UNCHANGED <<score, url, sync, lock, job, columns, spent, book, flight, removed>>

(* A post's record is flushed with the section and committed with it. *)
Record(d, outcome) ==
  sweep' = [sweep EXCEPT
    !.plan = @ \ {d},
    !.own = @ \cup {[student |-> d.student,
                     row |-> [score |-> d.score, at |-> d.at, outcome |-> outcome]]}]

(* Mutant: what was sent is recorded as taken. *)
PostUnansweredAsPosted(d) ==
  /\ sweep.stage = "posting"
  /\ d \in sweep.plan
  /\ faults < MaxFaults
  /\ faults' = faults + 1
  /\ \E c \in sweep.column :
       flight' = flight \cup {[column |-> c, student |-> d.student,
                               score |-> d.score, at |-> d.at]}
  /\ Record(d, "posted")
  /\ UNCHANGED <<score, url, sync, lock, job, columns, spent, book, adrift, lost, removed>>

PostTaken(d) ==
  /\ sweep.stage = "posting"
  /\ d \in sweep.plan
  /\ \E c \in sweep.column : Takes(c, d) /\ book' = Taken(c, d)
  /\ Record(d, "posted")
  /\ UNCHANGED <<score, url, sync, lock, job,
                 columns, spent, adrift, flight, lost, removed, faults>>

(* 409 for an older stamp, 404 for a column that went, or a bad afternoon. *)
PostRefused(d) ==
  /\ sweep.stage = "posting"
  /\ d \in sweep.plan
  /\ \/ (\A c \in sweep.column : ~ Takes(c, d)) /\ UNCHANGED faults
     \/ faults < MaxFaults /\ faults' = faults + 1
  /\ Record(d, "refused")
  /\ UNCHANGED <<score, url, sync, lock, job, platform, lost, removed>>

PostUnanswered(d) ==
  /\ sweep.stage = "posting"
  /\ d \in sweep.plan
  /\ faults < MaxFaults
  /\ faults' = faults + 1
  /\ \E c \in sweep.column :
       flight' = flight \cup {[column |-> c, student |-> d.student,
                               score |-> d.score, at |-> d.at]}
  /\ Record(d, "unanswered")
  /\ UNCHANGED <<score, url, sync, lock, job, columns, spent, book, adrift, lost, removed>>

CommitSection ==
  /\ sweep.stage = "posting"
  /\ sweep.plan = {}
  /\ sync' = [s \in Students |->
                IF \E w \in sweep.own : w.student = s
                THEN (CHOOSE w \in sweep.own : w.student = s).row
                ELSE sync[s]]
  /\ sweep' = NoSweep
  /\ UNCHANGED <<score, url, lock, job, platform, lost, removed, faults>>

(* The worker dies, or the section fails and is rolled back: what was      *)
(* posted stays posted, and its records are gone.                          *)
RunDies ==
  /\ sweep.stage # "idle"
  /\ faults < MaxFaults
  /\ faults' = faults + 1
  /\ sweep' = NoSweep
  /\ UNCHANGED <<score, url, sync, lock, job, platform, lost, removed>>

-----------------------------------------------------------------------------
(* A week closes, or a comment accepted on the floor is judged.  The       *)
(* ledger names the weeks, and a week's count only falls once it closed,   *)
(* so a score and its ledger do not come back.                             *)
ScoreChanges(s) ==
  /\ score[s] < MaxScore
  /\ score' = [score EXCEPT ![s] = @ + 1]
  /\ UNCHANGED <<tool, platform, lost, removed, faults>>

Init ==
  /\ score = [s \in Students |-> 0]
  /\ url = {}
  /\ sync = [s \in Students |-> [score |-> 0, at |-> 0, outcome |-> "none"]]
  /\ lock = {}
  /\ job = [j \in Jobs |-> IdleJob]
  /\ sweep = NoSweep
  /\ columns = {}
  /\ spent = {}
  /\ book = [c \in Columns |-> [s \in Students |-> NoScore]]
  /\ adrift = 0
  /\ flight = {}
  /\ lost = FALSE
  /\ removed = FALSE
  /\ faults = 0

Creating(j) ==
  \/ RequestLineItemCreation(j) \/ LockSection(j) \/ WalkContainer(j)
  \/ \E c \in Columns : CreateLineItem(j, c)
  \/ CreationFails(j) \/ RecordLineItem(j)

Sweeping ==
  \/ StartRun \/ AskForColumn \/ PlanDeliveries
  \/ ReadStoredLineItem \/ FindLineItem \/ CreateMissingLineItem \/ ResolvingFails
  \/ \E d \in sweep.plan : PostTaken(d) \/ PostRefused(d) \/ PostUnanswered(d)
  \/ CommitSection \/ RunDies

Platform ==
  \/ \E m \in flight : LandPost(m)
  \/ \E c \in Columns : LandCreation(c) \/ RemoveColumn(c)

Next ==
  \/ \E s \in Students : ScoreChanges(s)
  \/ \E j \in Jobs : Creating(j)
  \/ Sweeping
  \/ Platform

Spec == Init /\ [][Next]_vars

(* The beat starts a run every week, a worker carries on with what it      *)
(* began, and a platform that has not failed answers.                      *)
Fairness ==
  /\ \A j \in Jobs :
       WF_vars(\/ LockSection(j) \/ WalkContainer(j)
               \/ \E c \in Columns : CreateLineItem(j, c)
               \/ RecordLineItem(j))
  /\ WF_vars(\/ StartRun \/ AskForColumn \/ PlanDeliveries
             \/ ReadStoredLineItem \/ FindLineItem \/ CreateMissingLineItem
             \/ \E d \in sweep.plan : PostTaken(d) \/ PostRefused(d)
             \/ CommitSection)

FairSpec == Spec /\ Fairness

-----------------------------------------------------------------------------
(* Properties. *)

TypeOK ==
  /\ score \in [Students -> 0..MaxScore]
  /\ url \in AtMostOne(Columns)
  /\ sync \in [Students -> GradeSync]
  /\ lock \in AtMostOne(Jobs)
  /\ job \in [Jobs -> Job]
  /\ sweep \in Sweep
  /\ columns \subseteq spent /\ spent \subseteq Columns
  /\ book \in [Columns -> [Students -> Held]]
  /\ adrift \in 0..MaxFaults
  /\ flight \subseteq Post
  /\ lost \in BOOLEAN
  /\ removed \in BOOLEAN
  /\ faults \in 0..MaxFaults

(* A section has one column: launches, tasks and sweeps that race, die, or *)
(* find the recorded address gone never make a second, unless the platform *)
(* took a creation whose answer was lost.                                  *)
OneColumn == ~ lost => \A c, d \in columns : c = d

(* Deliveries of one student that carry one timestamp carry one score,     *)
(* wherever they are: the platform takes the second for a retry.           *)
SentOf(s) ==
  {NoScore, [score |-> sync[s].score, at |-> sync[s].at]}
    \cup {book[c][s] : c \in columns}
    \cup {[score |-> m.score, at |-> m.at] : m \in {n \in flight : n.student = s}}
    \cup {[score |-> d.score, at |-> d.at] : d \in {e \in sweep.plan : e.student = s}}
    \cup {[score |-> w.row.score, at |-> w.row.at] :
            w \in {v \in sweep.own : v.student = s}}

OneScorePerStamp ==
  \A s \in Students : \A x, y \in SentOf(s) : x.at = y.at => x.score = y.score

HeldOf(s) == Max({book[c][s].score : c \in columns} \cup {0})

(* Where the records say there is nothing to send, the gradebook shows the *)
(* score, although a post and its record are not one step and a record can *)
(* be lost; an instructor who removes the column takes its scores along.   *)
NothingDueIsHeld ==
  ~ removed =>
    \A s \in Students :
      score[s] > 0 /\ Recorded(s) /\ sync[s].outcome = "posted" => HeldOf(s) = score[s]

(* The gradebook is what the abstract specification promises: scores only  *)
(* move forward, and the last one decided is shown in the end.             *)
Promise == INSTANCE Gradebook WITH
  decided <- score, held <- [s \in Students |-> HeldOf(s)]

GradebookKept == Promise!Spec

=============================================================================
