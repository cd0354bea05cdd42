------------------------- MODULE GradePassbackProofs -------------------------
(***************************************************************************)
(* One column, one score per timestamp, nothing left unsent, and the       *)
(* implementation of Gradebook, for every class and any number of workers. *)
(***************************************************************************)
EXTENDS GradePassback, FiniteNumbers

-----------------------------------------------------------------------------
(* The invariant. *)

Working == {"walking", "creating", "found"}

(* Whoever looks for the column or creates it holds the row, and has read  *)
(* in it that there is none.                                               *)
JobInv ==
  /\ \A j \in Jobs : job[j].stage \in Working <=> j \in lock
  /\ lock # {} => url = {}
  /\ \A j \in Jobs : job[j].stage = "found" => job[j].found # {}

(* So a creation finds the container as its walk left it. *)
ColumnInv ==
  /\ sweep.stage \in {"planned", "posting"} => url # {}
  /\ ~ lost => /\ adrift = 0
               /\ \A c, d \in columns : c = d
               /\ \A j \in Jobs : job[j].stage = "creating" => columns = {}

SweepInv ==
  /\ sweep.stage \in {"idle", "started"} => sweep.plan = {}
  /\ sweep.stage \in {"idle", "started", "planned"} => sweep.own = {}

(* A score decided later was sent with a later stamp, and a run's stamp is *)
(* later than every one before it.                                         *)
StampInv ==
  \A s \in Students :
    /\ \A x, y \in SentOf(s) : x.at <= y.at => x.score <= y.score
    /\ \A x \in SentOf(s) :
         /\ x.score <= score[s]
         /\ sweep.stage = "started" => x.at < sweep.at
         /\ sweep.stage # "idle" => x.at <= sweep.at

(* A column that is not there holds nothing. *)
EmptyInv == \A c \in Columns \ columns : \A s \in Students : book[c][s] = NoScore

(* What a record says was posted, some column still holds or has replaced  *)
(* by a later score.                                                       *)
Holds(s, v) == \E c \in columns : v <= book[c][s].score

PostedInv ==
  ~ removed =>
    /\ \A s \in Students : sync[s].outcome = "posted" => Holds(s, sync[s].score)
    /\ \A w \in sweep.own : w.row.outcome = "posted" => Holds(w.student, w.row.score)

TypeInv == TypeOK /\ IsFiniteSet(flight) /\ adrift <= faults

Inv == TypeInv /\ JobInv /\ ColumnInv /\ SweepInv /\ StampInv /\ EmptyInv /\ PostedInv

-----------------------------------------------------------------------------
(* Types. *)

LEMMA FewElements ==
  ASSUME NEW S
  PROVE  /\ {} \in AtMostOne(S)
         /\ \A x \in S : {x} \in AtMostOne(S)
         /\ \A A \in AtMostOne(S) : /\ A \subseteq S
                                    /\ \A x, y \in A : x = y
                                    /\ \A B : A \ B \in AtMostOne(S)
  BY DEF AtMostOne

(* The stamps are finitely many numbers, so a run's instant is later than  *)
(* each of them.                                                           *)
LEMMA NowIsLater ==
  ASSUME TypeInv
  PROVE  Now \in Nat /\ \A t \in Stamps : t \in Nat /\ t < Now
<1> USE PassbackAssumption DEF TypeInv, TypeOK
<1> DEFINE A == {sync[s].at : s \in Students}
           B == {m.at : m \in flight}
           C == {{book[c][s].at : s \in Students} : c \in Columns}
<1>1. Stamps \subseteq Nat
  BY DEF Stamps, GradeSync, Held, Sweep, Post
<1>2. IsFiniteSet(A)
  <2> DEFINE f == [s \in Students |-> sync[s].at]
  <2>1. IsFiniteSet({f[s] : s \in Students})
    <3> HIDE DEF f
    <3> QED BY FiniteImage
  <2>2. {f[s] : s \in Students} = A
    OBVIOUS
  <2> QED BY <2>1, <2>2
<1>3. IsFiniteSet(B)
  <2> DEFINE f == [m \in flight |-> m.at]
  <2>1. IsFiniteSet({f[m] : m \in flight})
    <3> HIDE DEF f
    <3> QED BY FiniteImage
  <2>2. {f[m] : m \in flight} = B
    OBVIOUS
  <2> QED BY <2>1, <2>2
<1>4. IsFiniteSet(UNION C)
  <2>1. ASSUME NEW c \in Columns
        PROVE  IsFiniteSet({book[c][s].at : s \in Students})
    <3> DEFINE f == [s \in Students |-> book[c][s].at]
    <3>1. IsFiniteSet({f[s] : s \in Students})
      <4> HIDE DEF f
      <4> QED BY FiniteImage
    <3>2. {f[s] : s \in Students} = {book[c][s].at : s \in Students}
      OBVIOUS
    <3> QED BY <3>1, <3>2
  <2> DEFINE g == [c \in Columns |-> {book[c][s].at : s \in Students}]
  <2>2. IsFiniteSet({g[c] : c \in Columns})
    <3> HIDE DEF g
    <3> QED BY FiniteImage
  <2>3. {g[c] : c \in Columns} = C
    OBVIOUS
  <2>4. IsFiniteSet(C) /\ \A T \in C : IsFiniteSet(T)
    BY <2>1, <2>2, <2>3
  <2> QED
    <3> HIDE DEF C
    <3> QED BY <2>4, FS_UNION
<1>5. IsFiniteSet(Stamps \cup {0})
  <2>1. IsFiniteSet({sweep.at}) /\ IsFiniteSet({0})
    BY FS_Singleton
  <2>2. Stamps \cup {0} = ((A \cup B) \cup ({sweep.at} \cup UNION C)) \cup {0}
    BY DEF Stamps
  <2> HIDE DEF A, B, C
  <2>3. IsFiniteSet(A \cup B) /\ IsFiniteSet({sweep.at} \cup UNION C)
    BY <1>2, <1>3, <1>4, <2>1, FS_Union
  <2>4. IsFiniteSet((A \cup B) \cup ({sweep.at} \cup UNION C))
    BY <2>3, FS_Union
  <2> QED BY <2>1, <2>2, <2>4, FS_Union
<1> DEFINE S == Stamps \cup {0}
<1>6. S \subseteq Nat /\ S # {}
  BY <1>1
<1>7. Max(S) \in S /\ \A t \in S : t <= Max(S)
  <2> HIDE DEF S
  <2> QED BY <1>5, <1>6, MaxOfFinite DEF S
<1>8. \A m, n \in Nat : m <= n => m < n + 1
  OBVIOUS
<1>9. Now = Max(S) + 1
  BY DEF Now
<1> HIDE DEF S
<1>10. Stamps \subseteq S
  BY DEF S
<1>11. PICK m \in Nat : m = Max(S) /\ \A t \in S : t <= m
  BY <1>6, <1>7, Zenon
<1>12. Now = m + 1 /\ \A t \in Stamps : t \in Nat /\ t <= m
  BY <1>6, <1>9, <1>10, <1>11, Zenon
<1> QED BY ONLY <1>8, <1>12

LEMMA TypeInit == Init => TypeInv
<1> SUFFICES ASSUME Init PROVE TypeInv
  OBVIOUS
<1> USE PassbackAssumption DEF Init
<1>a. {} \in AtMostOne(Columns) /\ {} \in AtMostOne(Jobs)
  BY FewElements
<1>b. job \in [Jobs -> Job] /\ sweep \in Sweep
  BY <1>a DEF Job, IdleJob, Sweep, NoSweep
<1>c. sync \in [Students -> GradeSync] /\ book \in [Columns -> [Students -> Held]]
  BY DEF GradeSync, Outcomes, Held, NoScore
<1>d. url \in AtMostOne(Columns) /\ lock \in AtMostOne(Jobs)
  BY <1>a, Zenon
<1>e. /\ score \in [Students -> 0..MaxScore]
      /\ adrift \in 0..MaxFaults /\ faults \in 0..MaxFaults
      /\ columns \subseteq spent /\ spent \subseteq Columns /\ flight \subseteq Post
  OBVIOUS
<1>1. TypeOK
  BY <1>b, <1>c, <1>d, <1>e DEF TypeOK
<1>2. IsFiniteSet(flight) /\ adrift <= faults
  BY FS_EmptySet
<1> QED BY <1>1, <1>2 DEF TypeInv

(* A sweep's deliveries are well formed. *)
LEMMA DeliveriesType ==
  ASSUME TypeInv
  PROVE  Deliveries \subseteq Delivery
  BY PassbackAssumption
     DEF TypeInv, TypeOK, Deliveries, Delivery, GradeSync, Sweep, Recorded

(* Types through one step of each kind. *)
LEMMA TypeCreating ==
  ASSUME TypeInv, NEW j \in Jobs, Creating(j)
  PROVE  TypeInv'
<1> USE PassbackAssumption DEF TypeInv, TypeOK, Job, IdleJob, tool, platform
<1>a. /\ {j} \in AtMostOne(Jobs)
      /\ lock \ {j} \in AtMostOne(Jobs)
      /\ {} \in AtMostOne(Columns)
      /\ \A c \in Columns : {c} \in AtMostOne(Columns)
  BY DEF AtMostOne
<1>1. CASE RequestLineItemCreation(j)
  BY <1>1 DEF RequestLineItemCreation
<1>2. CASE LockSection(j)
  <2>1. lock' = {j} \/ lock' = lock
    BY <1>2 DEF LockSection
  <2>2. lock' \in AtMostOne(Jobs)
    BY <1>a, <2>1, Zenon
  <2>3. \/ job' = [job EXCEPT ![j].stage = "walking"]
        \/ job' = [job EXCEPT ![j] = IdleJob]
    BY <1>2, Zenon DEF LockSection
  <2>4. job' \in [Jobs -> Job]
    <3>1. CASE job' = [job EXCEPT ![j].stage = "walking"]
      BY <3>1
    <3>2. CASE job' = [job EXCEPT ![j] = IdleJob]
      <4>1. IdleJob \in Job
        BY <1>a
      <4> QED BY ONLY <3>2, <4>1, job \in [Jobs -> Job]
    <3> QED BY <2>3, <3>1, <3>2
  <2> QED BY <1>2, <2>2, <2>4 DEF LockSection
<1>3. CASE WalkContainer(j)
  <2>1. job' \in [Jobs -> Job]
    <3>1. CASE columns = {} /\ job' = [job EXCEPT ![j].stage = "creating"]
      BY <3>1
    <3>2. ASSUME NEW c \in columns, job' = [job EXCEPT ![j] = [stage |-> "found", found |-> {c}]]
          PROVE  job' \in [Jobs -> Job]
      <4>1. {c} \in AtMostOne(Columns)
        BY <1>a
      <4> QED BY <3>2, <4>1
    <3> QED BY <1>3, <3>1, <3>2 DEF WalkContainer
  <2> QED BY <1>3, <2>1 DEF WalkContainer
<1>4. ASSUME NEW c \in Columns, CreateLineItem(j, c)
      PROVE  TypeInv'
  BY <1>4, <1>a DEF CreateLineItem
<1>5. CASE CreationFails(j)
  <2>1. adrift' \in 0..MaxFaults /\ faults' \in 0..MaxFaults /\ adrift' <= faults'
    BY <1>5 DEF CreationFails
  <2>2. lost' \in BOOLEAN
    BY <1>5 DEF CreationFails
  <2>3. job' \in [Jobs -> Job]
    BY <1>5, <1>a DEF CreationFails
  <2>4. lock' \in AtMostOne(Jobs)
    BY <1>5, <1>a, Zenon DEF CreationFails
  <2> QED BY <1>5, <2>1, <2>2, <2>3, <2>4 DEF CreationFails
<1>6. CASE RecordLineItem(j)
  BY <1>6, <1>a DEF RecordLineItem
<1> QED BY <1>1, <1>2, <1>3, <1>4, <1>5, <1>6 DEF Creating

LEMMA TypePlatform ==
  ASSUME TypeInv, Platform
  PROVE  TypeInv'
<1> USE PassbackAssumption DEF TypeInv, TypeOK, tool, platform
<1>1. ASSUME NEW m \in flight, LandPost(m)
      PROVE  TypeInv'
  <2>1. m \in Post
    OBVIOUS
  <2>2. IsFiniteSet(flight')
    BY <1>1, FS_RemoveElement DEF LandPost
  <2>3. book' \in [Columns -> [Students -> Held]]
    BY <1>1, <2>1 DEF LandPost, Takes, Taken, Post, Held
  <2> QED BY <1>1, <2>2, <2>3 DEF LandPost
<1>2. ASSUME NEW c \in Columns, LandCreation(c)
      PROVE  TypeInv'
  BY <1>2 DEF LandCreation
<1>3. ASSUME NEW c \in Columns, RemoveColumn(c)
      PROVE  TypeInv'
  BY <1>3 DEF RemoveColumn, Held, NoScore
<1> QED BY <1>1, <1>2, <1>3 DEF Platform

LEMMA TypeSweeping ==
  ASSUME TypeInv, Sweeping
  PROVE  TypeInv'
<1> USE PassbackAssumption, FewElements DEF TypeInv, TypeOK, tool, platform
<1>0. NoSweep \in Sweep
  BY DEF NoSweep, Sweep
<1>a. ASSUME NEW d \in sweep.plan, NEW o \in Outcomes, Record(d, o)
      PROVE  sweep' \in Sweep
  <2>1. d \in Delivery
    BY DEF Sweep
  <2>2. [student |-> d.student, row |-> [score |-> d.score, at |-> d.at, outcome |-> o]] \in Row
    BY <2>1 DEF Delivery, Row, GradeSync
  <2> DEFINE w == [student |-> d.student,
                   row |-> [score |-> d.score, at |-> d.at, outcome |-> o]]
  <2>3. sweep.own \cup {w} \subseteq Row /\ sweep.plan \ {d} \subseteq Delivery
    BY <2>2 DEF Sweep
  <2>4. sweep' = [sweep EXCEPT !.plan = sweep.plan \ {d}, !.own = sweep.own \cup {w}]
    BY <1>a DEF Record
  <2> HIDE DEF w
  <2> QED BY <2>3, <2>4 DEF Sweep
<1>b. ASSUME NEW d \in sweep.plan, NEW c \in sweep.column
      PROVE  [column |-> c, student |-> d.student, score |-> d.score, at |-> d.at] \in Post
  <2>1. d \in Delivery /\ c \in Columns
    BY DEF Sweep
  <2> QED BY <2>1 DEF Delivery, Post
<1>c. ASSUME NEW c \in Columns, Resolved(c)
      PROVE  sweep' \in Sweep
  BY <1>c DEF Resolved, Sweep
<1>1. CASE StartRun
  BY <1>1, NowIsLater DEF StartRun, Sweep, NoSweep
<1>2. CASE AskForColumn
  BY <1>2, <1>0 DEF AskForColumn, Idle, Job
<1>3. CASE PlanDeliveries
  BY <1>3, <1>0, DeliveriesType DEF PlanDeliveries, Sweep
<1>4. CASE ReadStoredLineItem
  BY <1>4, <1>c DEF ReadStoredLineItem
<1>5. CASE FindLineItem
  BY <1>5, <1>c DEF FindLineItem
<1>6. CASE CreateMissingLineItem
  BY <1>6, <1>c DEF CreateMissingLineItem
<1>7. CASE ResolvingFails
  <2>1. adrift' \in 0..MaxFaults /\ faults' \in 0..MaxFaults /\ adrift' <= faults'
    BY <1>7 DEF ResolvingFails
  <2>2. lost' \in BOOLEAN
    BY <1>7 DEF ResolvingFails
  <2> QED BY <1>7, <1>0, <2>1, <2>2 DEF ResolvingFails
<1>8. ASSUME NEW d \in sweep.plan, PostTaken(d)
      PROVE  TypeInv'
  <2>1. d \in Delivery
    BY DEF Sweep
  <2>2. sweep' \in Sweep
    BY <1>8, <1>a DEF PostTaken, Outcomes
  <2>3. book' \in [Columns -> [Students -> Held]]
    BY <1>8, <2>1 DEF PostTaken, Takes, Taken, Delivery, Held
  <2> QED BY <1>8, <2>2, <2>3 DEF PostTaken
<1>9. ASSUME NEW d \in sweep.plan, PostRefused(d)
      PROVE  TypeInv'
  BY <1>9, <1>a DEF PostRefused, Outcomes
<1>10. ASSUME NEW d \in sweep.plan, PostUnanswered(d)
       PROVE  TypeInv'
  <2>1. sweep' \in Sweep
    BY <1>10, <1>a DEF PostUnanswered, Outcomes
  <2>2. flight' \subseteq Post /\ IsFiniteSet(flight')
    <3>1. PICK c \in sweep.column :
            flight' = flight \cup {[column |-> c, student |-> d.student,
                                    score |-> d.score, at |-> d.at]}
      BY <1>10 DEF PostUnanswered
    <3> DEFINE m == [column |-> c, student |-> d.student, score |-> d.score, at |-> d.at]
    <3>2. m \in Post
      BY <1>b
    <3> HIDE DEF m
    <3>3. flight' = flight \cup {m}
      BY <3>1 DEF m
    <3> QED BY <3>2, <3>3, FS_AddElement
  <2> QED BY <1>10, <2>1, <2>2 DEF PostUnanswered
<1>11. CASE CommitSection
  <2>1. ASSUME NEW s \in Students, NEW w \in sweep.own, w.student = s
        PROVE  (CHOOSE v \in sweep.own : v.student = s).row \in GradeSync
    <3>1. (CHOOSE v \in sweep.own : v.student = s) \in sweep.own
      BY <2>1
    <3> QED BY <3>1 DEF Sweep, Row
  <2>2. sync' \in [Students -> GradeSync]
    BY <1>11, <2>1 DEF CommitSection
  <2> QED BY <1>11, <1>0, <2>2 DEF CommitSection
<1>12. CASE RunDies
  BY <1>12, <1>0 DEF RunDies
<1> QED
  BY <1>1, <1>2, <1>3, <1>4, <1>5, <1>6, <1>7, <1>8, <1>9, <1>10, <1>11, <1>12 DEF Sweeping

LEMMA TypeStep ==
  ASSUME TypeInv, [Next]_vars
  PROVE  TypeInv'
<1>1. ASSUME NEW s \in Students, ScoreChanges(s)
      PROVE  TypeInv'
  BY <1>1, PassbackAssumption DEF ScoreChanges, TypeInv, TypeOK, tool, platform
<1>2. CASE UNCHANGED vars
  BY <1>2 DEF vars, TypeInv, TypeOK
<1> QED BY <1>1, <1>2, TypeCreating, TypePlatform, TypeSweeping DEF Next

-----------------------------------------------------------------------------
(* One column. *)

HoldInv == JobInv /\ ColumnInv

LEMMA HoldInit == Init => HoldInv
  BY DEF Init, HoldInv, JobInv, ColumnInv, IdleJob, NoSweep, Working

LEMMA HoldCreating ==
  ASSUME TypeInv, HoldInv, NEW j \in Jobs, Creating(j)
  PROVE  HoldInv'
<1> USE DEF HoldInv, JobInv, ColumnInv, Working, IdleJob, platform
<1>1. /\ job \in [Jobs -> Job]
      /\ \A i \in Jobs : job[i].stage \in {"idle", "queued", "walking", "creating", "found"}
      /\ \A i, k \in lock : i = k
      /\ lock \subseteq Jobs
  BY FewElements DEF TypeInv, TypeOK, Job
<1>2. CASE RequestLineItemCreation(j)
  BY <1>1, <1>2 DEF RequestLineItemCreation, Idle, Job
<1>3. CASE LockSection(j)
  <2>1. CASE url = {}
    BY <1>1, <1>3, <2>1 DEF LockSection, Job
  <2>2. CASE url # {}
    BY <1>1, <1>3, <2>2 DEF LockSection, Job
  <2> QED BY <2>1, <2>2
<1>4. CASE WalkContainer(j)
  <2>1. CASE columns = {} /\ job' = [job EXCEPT ![j].stage = "creating"]
    BY <1>1, <1>4, <2>1 DEF WalkContainer, Job
  <2>2. ASSUME NEW c \in columns, job' = [job EXCEPT ![j] = [stage |-> "found", found |-> {c}]]
        PROVE  HoldInv'
    BY <1>1, <1>4, <2>2 DEF WalkContainer, Job
  <2> QED BY <1>4, <2>1, <2>2 DEF WalkContainer
<1>5. ASSUME NEW c \in Columns, CreateLineItem(j, c)
      PROVE  HoldInv'
  <2>1. j \in lock /\ \A i \in Jobs : i # j => job[i].stage \notin Working
    BY <1>1, <1>5 DEF CreateLineItem
  <2>2. JobInv'
    BY <1>1, <1>5, <2>1 DEF CreateLineItem
  <2>3. ~ lost => columns' = {c}
    BY <1>5 DEF CreateLineItem
  <2>4. \A i \in Jobs : job'[i].stage # "creating"
    BY <1>1, <1>5, <2>1 DEF CreateLineItem
  <2>5. ColumnInv'
    BY <1>5, <2>3, <2>4 DEF CreateLineItem
  <2> QED BY <2>2, <2>5
<1>6. CASE CreationFails(j)
  <2>1. job' = [job EXCEPT ![j] = IdleJob] /\ lock' = lock \ {j} /\ url' = url
    BY <1>6 DEF CreationFails
  <2>2. JobInv'
    BY <1>1, <2>1
  <2>3. ColumnInv'
    BY <1>1, <1>6, <2>1 DEF CreationFails
  <2> QED BY <2>2, <2>3
<1>7. CASE RecordLineItem(j)
  <2>1. j \in lock /\ lock' = {} /\ job' = [job EXCEPT ![j] = IdleJob] /\ url' # {}
    BY <1>1, <1>7 DEF RecordLineItem
  <2>2. JobInv'
    BY <1>1, <2>1
  <2>3. ColumnInv'
    BY <1>1, <1>7, <2>1 DEF RecordLineItem
  <2> QED BY <2>2, <2>3
<1> QED BY <1>2, <1>3, <1>4, <1>5, <1>6, <1>7 DEF Creating

LEMMA HoldSweeping ==
  ASSUME TypeInv, HoldInv, Sweeping
  PROVE  HoldInv'
<1> USE DEF HoldInv, JobInv, ColumnInv, Working, platform
<1>1. sweep \in Sweep /\ job \in [Jobs -> Job]
  BY DEF TypeInv, TypeOK
<1>2. CASE StartRun
  BY <1>2 DEF StartRun, NoSweep
<1>3. CASE AskForColumn
  <2>1. CASE job' = job
    BY <1>3, <2>1 DEF AskForColumn, NoSweep
  <2>2. ASSUME NEW j \in Idle, job' = [job EXCEPT ![j].stage = "queued"]
        PROVE  HoldInv'
    BY <1>1, <1>3, <2>2 DEF AskForColumn, NoSweep, Idle, Job
  <2> QED BY <1>3, <2>1, <2>2 DEF AskForColumn
<1>4. CASE PlanDeliveries
  BY <1>4 DEF PlanDeliveries
<1>5. CASE ReadStoredLineItem
  BY <1>1, <1>5 DEF ReadStoredLineItem, Resolved, Sweep
<1>6. CASE FindLineItem
  BY <1>1, <1>6 DEF FindLineItem, Resolved, Sweep
<1>7. CASE CreateMissingLineItem
  <2>1. PICK c \in Columns \ spent : columns' = columns \cup {c} /\ Resolved(c)
    BY <1>7 DEF CreateMissingLineItem
  <2>2. columns' = {c} /\ url # {} /\ UNCHANGED <<url, lock, job, adrift, lost>>
    BY <1>7, <2>1 DEF CreateMissingLineItem
  <2>3. \A j \in Jobs : job[j].stage # "creating"
    BY <2>2
  <2> QED BY <1>1, <2>1, <2>2, <2>3 DEF Resolved, Sweep
<1>8. CASE ResolvingFails
  BY <1>8 DEF ResolvingFails, NoSweep
<1>9. ASSUME NEW d \in sweep.plan, PostTaken(d) \/ PostRefused(d) \/ PostUnanswered(d)
      PROVE  HoldInv'
  BY <1>1, <1>9 DEF PostTaken, PostRefused, PostUnanswered, Record, Sweep
<1>10. CASE CommitSection
  BY <1>10 DEF CommitSection, NoSweep
<1>11. CASE RunDies
  BY <1>11 DEF RunDies, NoSweep
<1> QED
  BY <1>2, <1>3, <1>4, <1>5, <1>6, <1>7, <1>8, <1>9, <1>10, <1>11 DEF Sweeping

LEMMA HoldStep ==
  ASSUME TypeInv, HoldInv, [Next]_vars
  PROVE  HoldInv'
<1> USE DEF HoldInv, JobInv, ColumnInv, tool, platform
<1>1. ASSUME NEW s \in Students, ScoreChanges(s)
      PROVE  HoldInv'
  BY <1>1 DEF ScoreChanges
<1>2. CASE Platform
  <2>1. ASSUME NEW m \in flight, LandPost(m)
        PROVE  HoldInv'
    BY <2>1 DEF LandPost
  <2>2. ASSUME NEW c \in Columns, LandCreation(c)
        PROVE  HoldInv'
    <3>1. lost
      BY <2>2 DEF LandCreation, TypeInv, TypeOK
    <3> QED BY <2>2, <3>1 DEF LandCreation
  <2>3. ASSUME NEW c \in Columns, RemoveColumn(c)
        PROVE  HoldInv'
    BY <2>3 DEF RemoveColumn
  <2> QED BY <1>2, <2>1, <2>2, <2>3 DEF Platform
<1>3. CASE UNCHANGED vars
  BY <1>3 DEF vars
<1> QED BY <1>1, <1>2, <1>3, HoldCreating, HoldSweeping DEF Next

(* Type correctness. *)
THEOREM TypeCorrect == Spec => []TypeOK
<1>1. Init => TypeInv
  BY TypeInit
<1>2. TypeInv /\ [Next]_vars => TypeInv'
  BY TypeStep
<1>3. TypeInv => TypeOK
  BY DEF TypeInv
<1> QED BY <1>1, <1>2, <1>3, PTL DEF Spec

(* A section has one column, however many tasks, launches and runs race,   *)
(* die or find its address gone.                                           *)
THEOREM SectionHasOneColumn == Spec => []OneColumn
<1>1. Init => TypeInv /\ HoldInv
  BY TypeInit, HoldInit
<1>2. TypeInv /\ HoldInv /\ [Next]_vars => TypeInv' /\ HoldInv'
  BY TypeStep, HoldStep
<1>3. HoldInv => OneColumn
  BY DEF HoldInv, ColumnInv, OneColumn
<1> QED BY <1>1, <1>2, <1>3, PTL DEF Spec

-----------------------------------------------------------------------------
(* One score for one timestamp. *)

LEMMA SweepInit == Init => SweepInv
  BY DEF Init, SweepInv, NoSweep

LEMMA SweepStep ==
  ASSUME TypeInv, SweepInv, [Next]_vars
  PROVE  SweepInv'
<1> USE DEF SweepInv, tool, platform
<1>1. sweep \in Sweep
  BY DEF TypeInv, TypeOK
<1>2. ASSUME NEW s \in Students, ScoreChanges(s)
      PROVE  SweepInv'
  BY <1>2 DEF ScoreChanges
<1>3. ASSUME NEW j \in Jobs, Creating(j)
      PROVE  SweepInv'
  BY <1>3 DEF Creating, RequestLineItemCreation, LockSection, WalkContainer,
              CreateLineItem, CreationFails, RecordLineItem
<1>4. CASE Platform
  BY <1>4 DEF Platform, LandPost, LandCreation, RemoveColumn
<1>5. CASE StartRun \/ AskForColumn \/ ResolvingFails \/ CommitSection \/ RunDies
  <2>1. sweep'.plan = {} /\ sweep'.own = {}
    <3>1. CASE StartRun
      BY <3>1 DEF StartRun, NoSweep
    <3>2. CASE AskForColumn \/ ResolvingFails \/ CommitSection \/ RunDies
      <4>1. sweep' = NoSweep
        BY <3>2 DEF AskForColumn, ResolvingFails, CommitSection, RunDies
      <4> QED BY <4>1 DEF NoSweep
    <3> QED BY <1>5, <3>1, <3>2
  <2> QED BY <2>1
<1>6. CASE PlanDeliveries
  BY <1>1, <1>6 DEF PlanDeliveries, NoSweep, Sweep
<1>7. CASE ReadStoredLineItem \/ FindLineItem \/ CreateMissingLineItem
  BY <1>1, <1>7 DEF ReadStoredLineItem, FindLineItem, CreateMissingLineItem, Resolved, Sweep
<1>8. ASSUME NEW d \in sweep.plan, PostTaken(d) \/ PostRefused(d) \/ PostUnanswered(d)
      PROVE  SweepInv'
  BY <1>1, <1>8 DEF PostTaken, PostRefused, PostUnanswered, Record, Sweep
<1>9. CASE UNCHANGED vars
  BY <1>9 DEF vars
<1> QED
  BY <1>2, <1>3, <1>4, <1>5, <1>6, <1>7, <1>8, <1>9 DEF Next, Sweeping

(* What was sent for a student, kind by kind. *)
LEMMA SentIs ==
  ASSUME NEW s, NEW x
  PROVE  x \in SentOf(s) <=>
           \/ x = NoScore
           \/ x = [score |-> sync[s].score, at |-> sync[s].at]
           \/ \E c \in columns : x = book[c][s]
           \/ \E m \in flight : m.student = s /\ x = [score |-> m.score, at |-> m.at]
           \/ \E d \in sweep.plan : d.student = s /\ x = [score |-> d.score, at |-> d.at]
           \/ \E w \in sweep.own : /\ w.student = s
                                   /\ x = [score |-> w.row.score, at |-> w.row.at]
  BY DEF SentOf

LEMMA SentType ==
  ASSUME TypeInv, NEW s \in Students
  PROVE  SentOf(s) \subseteq Held
<1> SUFFICES ASSUME NEW x \in SentOf(s) PROVE x \in Held
  OBVIOUS
<1> USE DEF TypeInv, TypeOK, Held
<1>1. CASE x = NoScore
  BY <1>1 DEF NoScore
<1>2. CASE x = [score |-> sync[s].score, at |-> sync[s].at]
  BY <1>2 DEF GradeSync
<1>3. CASE \E c \in columns : x = book[c][s]
  BY <1>3
<1>4. CASE \E m \in flight : m.student = s /\ x = [score |-> m.score, at |-> m.at]
  BY <1>4 DEF Post
<1>5. CASE \E d \in sweep.plan : d.student = s /\ x = [score |-> d.score, at |-> d.at]
  BY <1>5 DEF Sweep, Delivery
<1>6. CASE \E w \in sweep.own : w.student = s /\ x = [score |-> w.row.score, at |-> w.row.at]
  BY <1>6 DEF Sweep, Row, GradeSync
<1> QED BY <1>1, <1>2, <1>3, <1>4, <1>5, <1>6, SentIs

(* A step that sends nothing new, and takes no later instant, keeps the    *)
(* order of what was sent.                                                 *)
LEMMA NothingNewSent ==
  ASSUME TypeInv, TypeInv', StampInv,
         \A s \in Students : SentOf(s)' \subseteq SentOf(s) /\ score[s] <= score'[s],
         sweep'.stage # "idle" => sweep.stage # "idle" /\ sweep'.at = sweep.at,
         sweep'.stage = "started" => sweep.stage = "started"
  PROVE  StampInv'
<1>1. ASSUME NEW s \in Students, NEW x \in SentOf(s)'
      PROVE  /\ x.score <= score'[s]
             /\ sweep'.stage = "started" => x.at < sweep'.at
             /\ sweep'.stage # "idle" => x.at <= sweep'.at
  <2>1. x \in SentOf(s) /\ x.score \in Nat
    BY <1>1, SentType DEF Held
  <2>2. score[s] \in Nat /\ score'[s] \in Nat /\ score[s] <= score'[s]
    BY PassbackAssumption DEF TypeInv, TypeOK
  <2>3. x.score <= score[s]
    BY <2>1 DEF StampInv
  <2>4. x.score <= score'[s]
    BY <2>1, <2>2, <2>3
  <2> QED BY <2>1, <2>4 DEF StampInv
<1>2. ASSUME NEW s \in Students, NEW x \in SentOf(s)', NEW y \in SentOf(s)', x.at <= y.at
      PROVE  x.score <= y.score
  BY <1>2 DEF StampInv
<1> QED BY <1>1, <1>2 DEF StampInv

LEMMA StampInit == TypeInv /\ Init => StampInv
<1> SUFFICES ASSUME TypeInv, Init PROVE StampInv
  OBVIOUS
<1>1. ASSUME NEW s \in Students, NEW x \in SentOf(s)
      PROVE  x = NoScore
  BY SentIs DEF Init, NoScore, NoSweep
<1>2. sweep.stage = "idle" /\ \A s \in Students : score[s] = 0
  BY DEF Init, NoSweep
<1>3. NoScore.score = 0
  BY DEF NoScore
<1>4. ASSUME NEW s \in Students
      PROVE  /\ \A x, y \in SentOf(s) : x.score <= y.score
             /\ \A x \in SentOf(s) : x.score <= score[s]
  <2>1. \A x \in SentOf(s) : x.score = 0
    BY <1>1, <1>3
  <2> QED BY <1>2, <2>1
<1> QED BY <1>2, <1>4 DEF StampInv

LEMMA StampCreating ==
  ASSUME TypeInv, TypeInv', StampInv, EmptyInv, NEW j \in Jobs, Creating(j)
  PROVE  StampInv'
<1> USE DEF platform
<1>1. UNCHANGED <<score, sync, sweep, book, flight>>
  BY DEF Creating, RequestLineItemCreation, LockSection, WalkContainer,
         CreateLineItem, CreationFails, RecordLineItem
<1>2. \A c \in columns' : c \in columns \/ c \in Columns \ columns
  BY DEF TypeInv, TypeOK
<1>3. ASSUME NEW s \in Students, NEW x \in SentOf(s)'
      PROVE  x \in SentOf(s)
  <2>1. \/ x = NoScore
        \/ x = [score |-> sync[s].score, at |-> sync[s].at]
        \/ \E c \in columns' : x = book[c][s]
        \/ \E m \in flight : m.student = s /\ x = [score |-> m.score, at |-> m.at]
        \/ \E d \in sweep.plan : d.student = s /\ x = [score |-> d.score, at |-> d.at]
        \/ \E w \in sweep.own : /\ w.student = s
                                /\ x = [score |-> w.row.score, at |-> w.row.at]
    BY <1>1, <1>3 DEF SentOf
  <2>2. ASSUME NEW c \in columns', x = book[c][s]
        PROVE  x = NoScore \/ \E k \in columns : x = book[k][s]
    BY <1>2, <2>2 DEF EmptyInv
  <2>3. \/ x = NoScore
        \/ x = [score |-> sync[s].score, at |-> sync[s].at]
        \/ \E c \in columns : x = book[c][s]
        \/ \E m \in flight : m.student = s /\ x = [score |-> m.score, at |-> m.at]
        \/ \E d \in sweep.plan : d.student = s /\ x = [score |-> d.score, at |-> d.at]
        \/ \E w \in sweep.own : /\ w.student = s
                                /\ x = [score |-> w.row.score, at |-> w.row.at]
    BY <2>1, <2>2
  <2> QED BY <2>3, SentIs
<1>4. \A s \in Students : score[s] <= score'[s]
  BY <1>1, PassbackAssumption DEF TypeInv, TypeOK
<1> QED BY <1>1, <1>3, <1>4, NothingNewSent

LEMMA StampPlatform ==
  ASSUME TypeInv, TypeInv', StampInv, EmptyInv, Platform
  PROVE  StampInv'
<1> USE DEF tool
<1>1. UNCHANGED <<score, sync, sweep>> /\ flight' \subseteq flight
  BY DEF Platform, LandPost, LandCreation, RemoveColumn
<1>2. ASSUME NEW s \in Students, NEW c \in columns'
      PROVE  book'[c][s] \in SentOf(s)
  <2>1. CASE LandCreation(c)
    BY <1>2, <2>1, SentIs DEF LandCreation, EmptyInv
  <2>2. ASSUME NEW m \in flight, LandPost(m)
        PROVE  book'[c][s] \in SentOf(s)
    <3>1. c \in columns /\ c \in Columns
      BY <2>2 DEF LandPost, TypeInv, TypeOK
    <3>2. \/ book'[c][s] = book[c][s]
          \/ m.student = s /\ book'[c][s] = [score |-> m.score, at |-> m.at]
      BY <2>2, <3>1 DEF LandPost, Takes, Taken, TypeInv, TypeOK, Post
    <3> QED BY <3>1, <3>2, SentIs
  <2>3. ASSUME NEW k \in Columns, LandCreation(k)
        PROVE  book'[c][s] \in SentOf(s)
    BY <2>3, SentIs DEF LandCreation, EmptyInv
  <2>4. ASSUME NEW k \in Columns, RemoveColumn(k)
        PROVE  book'[c][s] \in SentOf(s)
    <3>1. c \in columns /\ book'[c] = book[c]
      BY <2>4 DEF RemoveColumn, TypeInv, TypeOK
    <3> QED BY <3>1, SentIs
  <2> QED BY <2>2, <2>3, <2>4 DEF Platform
<1>3. ASSUME NEW s \in Students, NEW x \in SentOf(s)'
      PROVE  x \in SentOf(s)
  <2>1. \/ x = NoScore
        \/ x = [score |-> sync[s].score, at |-> sync[s].at]
        \/ \E c \in columns' : x = book'[c][s]
        \/ \E m \in flight : m.student = s /\ x = [score |-> m.score, at |-> m.at]
        \/ \E d \in sweep.plan : d.student = s /\ x = [score |-> d.score, at |-> d.at]
        \/ \E w \in sweep.own : /\ w.student = s
                                /\ x = [score |-> w.row.score, at |-> w.row.at]
    BY <1>1, <1>3 DEF SentOf
  <2> QED BY <1>2, <2>1, SentIs
<1>4. \A s \in Students : score[s] <= score'[s]
  BY <1>1, PassbackAssumption DEF TypeInv, TypeOK
<1> QED BY <1>1, <1>3, <1>4, NothingNewSent

(* A planned delivery repeats the latest record, or carries the score of   *)
(* now and the instant of the run, later than all before it.               *)
LEMMA StampPlanning ==
  ASSUME TypeInv, TypeInv', StampInv, SweepInv, PlanDeliveries
  PROVE  StampInv'
<1>1. CASE Deliveries = {}
  <2>1. UNCHANGED <<score, sync, columns, book, flight>> /\ sweep' = NoSweep
    BY <1>1 DEF PlanDeliveries, platform
  <2>2. \A s \in Students : SentOf(s)' \subseteq SentOf(s)
    BY <2>1 DEF SentOf, NoSweep
  <2>3. \A s \in Students : score[s] <= score'[s]
    BY <2>1, PassbackAssumption DEF TypeInv, TypeOK
  <2> QED BY <2>1, <2>2, <2>3, NothingNewSent DEF NoSweep
<1>2. CASE Deliveries # {}
  <2>1. /\ UNCHANGED <<score, sync, columns, book, flight>>
        /\ sweep.stage = "started" /\ sweep'.stage = "planned" /\ sweep'.at = sweep.at
        /\ sweep'.plan = Deliveries /\ sweep'.own = sweep.own
    BY <1>2 DEF PlanDeliveries, platform, TypeInv, TypeOK, Sweep
  <2>2. ASSUME NEW s \in Students, NEW x \in SentOf(s)'
        PROVE  x \in SentOf(s) \/ x = [score |-> score[s], at |-> sweep.at]
    <3>1. ASSUME NEW d \in Deliveries, d.student = s, x = [score |-> d.score, at |-> d.at]
          PROVE  \/ x = [score |-> sync[s].score, at |-> sync[s].at]
                 \/ x = [score |-> score[s], at |-> sweep.at]
      BY <3>1 DEF Deliveries, Recorded
    <3>2. \/ x = NoScore
          \/ x = [score |-> sync[s].score, at |-> sync[s].at]
          \/ \E c \in columns : x = book[c][s]
          \/ \E m \in flight : m.student = s /\ x = [score |-> m.score, at |-> m.at]
          \/ \E d \in Deliveries : d.student = s /\ x = [score |-> d.score, at |-> d.at]
          \/ \E w \in sweep.own : /\ w.student = s
                                  /\ x = [score |-> w.row.score, at |-> w.row.at]
      BY <2>1, <2>2 DEF SentOf
    <3> QED BY <3>1, <3>2, SentIs
  <2>3. ASSUME NEW s \in Students, NEW x \in SentOf(s)'
        PROVE  x.score <= score'[s] /\ x.at <= sweep'.at
    <3>1. score[s] \in Nat /\ sweep.at \in Nat
      BY PassbackAssumption DEF TypeInv, TypeOK, Sweep
    <3>2. CASE x \in SentOf(s)
      <4>1. x.score <= score[s] /\ x.at <= sweep.at
        BY <2>1, <3>2 DEF StampInv
      <4> QED BY <2>1, <4>1
    <3>3. CASE x = [score |-> score[s], at |-> sweep.at]
      BY <2>1, <3>1, <3>3
    <3> QED BY <2>2, <3>2, <3>3
  <2>4. ASSUME NEW s \in Students, NEW x \in SentOf(s)', NEW y \in SentOf(s)', x.at <= y.at
        PROVE  x.score <= y.score
    <3>1. score[s] \in Nat /\ sweep.at \in Nat
      BY PassbackAssumption DEF TypeInv, TypeOK, Sweep
    <3>2. CASE y = [score |-> score[s], at |-> sweep.at]
      BY <2>1, <2>3, <3>2
    <3>3. CASE y \in SentOf(s) /\ x \in SentOf(s)
      BY <2>4, <3>3 DEF StampInv
    <3>4. CASE y \in SentOf(s) /\ x = [score |-> score[s], at |-> sweep.at]
      <4>1. y.at < sweep.at /\ y.at \in Nat
        BY <2>1, <3>4, SentType DEF StampInv, Held
      <4> QED BY <2>4, <3>1, <3>4, <4>1
    <3> QED BY <2>2, <3>2, <3>3, <3>4
  <2> QED BY <2>1, <2>3, <2>4 DEF StampInv
<1> QED BY <1>1, <1>2

LEMMA StampStarting ==
  ASSUME TypeInv, TypeInv', StampInv, SweepInv, StartRun
  PROVE  StampInv'
<1>1. /\ UNCHANGED <<score, sync, columns, book, flight>>
      /\ sweep'.at = Now /\ sweep'.plan = {} /\ sweep'.own = {}
  BY DEF StartRun, NoSweep, platform
<1>2. ASSUME NEW s \in Students, NEW x \in SentOf(s)'
      PROVE  x \in SentOf(s) /\ x.at \in Nat /\ x.at < Now
  <2>1. \/ x = NoScore
        \/ x = [score |-> sync[s].score, at |-> sync[s].at]
        \/ \E c \in columns : x = book[c][s]
        \/ \E m \in flight : m.student = s /\ x = [score |-> m.score, at |-> m.at]
    BY <1>1, <1>2 DEF SentOf
  <2>2. x \in SentOf(s)
    BY <2>1, SentIs
  <2>3. x.at \in Stamps \cup {0}
    <3>1. CASE x = NoScore
      BY <3>1 DEF NoScore
    <3>2. CASE x = [score |-> sync[s].score, at |-> sync[s].at]
      BY <3>2 DEF Stamps
    <3>3. ASSUME NEW c \in columns, x = book[c][s]
          PROVE  x.at \in Stamps
      <4>1. c \in Columns
        BY DEF TypeInv, TypeOK
      <4> QED BY <3>3, <4>1 DEF Stamps
    <3>4. CASE \E m \in flight : m.student = s /\ x = [score |-> m.score, at |-> m.at]
      BY <3>4 DEF Stamps
    <3> QED BY <2>1, <3>1, <3>2, <3>3, <3>4
  <2>4. 0 < Now
    <3>1. sync[s].at \in Stamps
      BY DEF Stamps
    <3> QED BY <3>1, NowIsLater
  <2> QED BY <2>2, <2>3, <2>4, NowIsLater
<1>3. Now \in Nat
  BY NowIsLater
<1>4. ASSUME NEW s \in Students, NEW x \in SentOf(s)'
      PROVE  x.score <= score'[s] /\ x.at < sweep'.at /\ x.at <= sweep'.at
  BY <1>1, <1>2, <1>3, <1>4 DEF StampInv
<1>5. ASSUME NEW s \in Students, NEW x \in SentOf(s)', NEW y \in SentOf(s)', x.at <= y.at
      PROVE  x.score <= y.score
  BY <1>2, <1>5 DEF StampInv
<1> QED BY <1>4, <1>5 DEF StampInv

(* A post and its record carry what was planned. *)
LEMMA StampPosting ==
  ASSUME TypeInv, TypeInv', StampInv, NEW d \in sweep.plan,
         PostTaken(d) \/ PostRefused(d) \/ PostUnanswered(d)
  PROVE  StampInv'
<1> USE DEF platform
<1>1. d \in Delivery
  BY DEF TypeInv, TypeOK, Sweep
<1> DEFINE pair == [score |-> d.score, at |-> d.at]
<1>2. pair \in SentOf(d.student)
  BY SentIs
<1>3. PICK o : Record(d, o)
  BY DEF PostTaken, PostRefused, PostUnanswered
<1>4. /\ UNCHANGED <<score, sync, columns>>
      /\ sweep.stage = "posting" /\ sweep'.stage = sweep.stage /\ sweep'.at = sweep.at
      /\ sweep'.plan = sweep.plan \ {d}
      /\ sweep'.own = sweep.own \cup
           {[student |-> d.student,
             row |-> [score |-> d.score, at |-> d.at, outcome |-> o]]}
  BY <1>3 DEF PostTaken, PostRefused, PostUnanswered, Record, TypeInv, TypeOK, Sweep
<1>5. ASSUME NEW s \in Students, NEW c \in columns
      PROVE  book'[c][s] \in SentOf(s)
  <2>1. c \in Columns
    BY DEF TypeInv, TypeOK
  <2>2. book'[c][s] = book[c][s] \/ (s = d.student /\ book'[c][s] = pair)
    <3>1. CASE PostTaken(d)
      BY <1>1, <2>1, <3>1 DEF PostTaken, Taken, Delivery, TypeInv, TypeOK, Sweep
    <3>2. CASE PostRefused(d) \/ PostUnanswered(d)
      BY <3>2 DEF PostRefused, PostUnanswered
    <3> QED BY <3>1, <3>2
  <2> QED BY <1>2, <2>2, SentIs
<1>6. ASSUME NEW s \in Students, NEW m \in flight', m.student = s
      PROVE  [score |-> m.score, at |-> m.at] \in SentOf(s)
  <2>1. m \in flight \/ (m.student = d.student /\ m.score = d.score /\ m.at = d.at)
    BY DEF PostTaken, PostRefused, PostUnanswered
  <2> QED BY <1>2, <1>6, <2>1, SentIs
<1>7. ASSUME NEW s \in Students, NEW w \in sweep'.own, w.student = s
      PROVE  [score |-> w.row.score, at |-> w.row.at] \in SentOf(s)
  <2>1. \/ w \in sweep.own
        \/ w.student = d.student /\ w.row.score = d.score /\ w.row.at = d.at
    BY <1>4
  <2> QED BY <1>2, <1>7, <2>1, SentIs
<1>8. ASSUME NEW s \in Students, NEW x \in SentOf(s)'
      PROVE  x \in SentOf(s)
  <2>1. \/ x = NoScore
        \/ x = [score |-> sync[s].score, at |-> sync[s].at]
        \/ \E c \in columns : x = book'[c][s]
        \/ \E m \in flight' : m.student = s /\ x = [score |-> m.score, at |-> m.at]
        \/ \E e \in sweep.plan : e.student = s /\ x = [score |-> e.score, at |-> e.at]
        \/ \E w \in sweep'.own : /\ w.student = s
                                 /\ x = [score |-> w.row.score, at |-> w.row.at]
    BY <1>4, <1>8 DEF SentOf
  <2>2. CASE x = NoScore \/ x = [score |-> sync[s].score, at |-> sync[s].at]
    BY <2>2, SentIs
  <2>3. CASE \E e \in sweep.plan : e.student = s /\ x = [score |-> e.score, at |-> e.at]
    BY <2>3, SentIs
  <2> QED BY <1>5, <1>6, <1>7, <2>1, <2>2, <2>3
<1>9. \A s \in Students : score[s] <= score'[s]
  BY <1>4, PassbackAssumption DEF TypeInv, TypeOK
<1> QED BY <1>4, <1>8, <1>9, NothingNewSent

(* A run ends with its records or without them. *)
LEMMA StampEnding ==
  ASSUME TypeInv, TypeInv', StampInv,
         AskForColumn \/ ResolvingFails \/ CommitSection \/ RunDies
  PROVE  StampInv'
<1>1. UNCHANGED <<score, columns, book, flight>> /\ sweep' = NoSweep
  BY DEF AskForColumn, ResolvingFails, CommitSection, RunDies, platform
<1>2. ASSUME NEW s \in Students
      PROVE  [score |-> sync'[s].score, at |-> sync'[s].at] \in SentOf(s)
  <2>1. \/ sync'[s] = sync[s]
        \/ \E w \in sweep.own : w.student = s /\ sync'[s] = w.row
    <3>1. CASE CommitSection
      <4> DEFINE w == CHOOSE v \in sweep.own : v.student = s
      <4>1. CASE \E v \in sweep.own : v.student = s
        <5>1. w \in sweep.own /\ w.student = s
          BY <4>1
        <5>2. sync'[s] = w.row
          BY <3>1, <4>1 DEF CommitSection
        <5> QED BY <5>1, <5>2
      <4>2. CASE ~ \E v \in sweep.own : v.student = s
        BY <3>1, <4>2 DEF CommitSection
      <4> QED BY <4>1, <4>2
    <3>2. CASE AskForColumn \/ ResolvingFails \/ RunDies
      BY <3>2 DEF AskForColumn, ResolvingFails, RunDies
    <3> QED BY <3>1, <3>2
  <2> QED BY <2>1, SentIs
<1>3. ASSUME NEW s \in Students, NEW x \in SentOf(s)'
      PROVE  x \in SentOf(s)
  <2>1. \/ x = NoScore
        \/ x = [score |-> sync'[s].score, at |-> sync'[s].at]
        \/ \E c \in columns : x = book[c][s]
        \/ \E m \in flight : m.student = s /\ x = [score |-> m.score, at |-> m.at]
    BY <1>1, <1>3 DEF SentOf, NoSweep
  <2> QED BY <1>2, <2>1, SentIs
<1>4. \A s \in Students : score[s] <= score'[s]
  BY <1>1, PassbackAssumption DEF TypeInv, TypeOK
<1> QED BY <1>1, <1>3, <1>4, NothingNewSent DEF NoSweep

LEMMA StampResolving ==
  ASSUME TypeInv, TypeInv', StampInv, EmptyInv,
         ReadStoredLineItem \/ FindLineItem \/ CreateMissingLineItem
  PROVE  StampInv'
<1>1. UNCHANGED <<score, sync, book, flight>>
  BY DEF ReadStoredLineItem, FindLineItem, CreateMissingLineItem, platform
<1>2. /\ sweep'.at = sweep.at /\ sweep'.plan = sweep.plan /\ sweep'.own = sweep.own
      /\ sweep.stage = "planned" /\ sweep'.stage = "posting"
  BY DEF ReadStoredLineItem, FindLineItem, CreateMissingLineItem, Resolved,
         TypeInv, TypeOK, Sweep
<1>3. \A c \in columns' : c \in columns \/ c \in Columns \ columns
  BY DEF TypeInv, TypeOK
<1>4. ASSUME NEW s \in Students, NEW x \in SentOf(s)'
      PROVE  x \in SentOf(s)
  <2>1. \/ x = NoScore
        \/ x = [score |-> sync[s].score, at |-> sync[s].at]
        \/ \E c \in columns' : x = book[c][s]
        \/ \E m \in flight : m.student = s /\ x = [score |-> m.score, at |-> m.at]
        \/ \E d \in sweep.plan : d.student = s /\ x = [score |-> d.score, at |-> d.at]
        \/ \E w \in sweep.own : /\ w.student = s
                                /\ x = [score |-> w.row.score, at |-> w.row.at]
    BY <1>1, <1>2, <1>4 DEF SentOf
  <2>2. ASSUME NEW c \in columns', x = book[c][s]
        PROVE  x = NoScore \/ \E k \in columns : x = book[k][s]
    BY <1>3, <2>2 DEF EmptyInv
  <2> QED BY <2>1, <2>2, SentIs
<1>5. \A s \in Students : score[s] <= score'[s]
  BY <1>1, PassbackAssumption DEF TypeInv, TypeOK
<1> QED BY <1>1, <1>2, <1>4, <1>5, NothingNewSent

LEMMA StampStep ==
  ASSUME TypeInv, TypeInv', SweepInv, StampInv, EmptyInv, [Next]_vars
  PROVE  StampInv'
<1>1. ASSUME NEW s \in Students, ScoreChanges(s) \/ UNCHANGED vars
      PROVE  StampInv'
  <2>1. UNCHANGED <<sync, sweep, columns, book, flight>>
    BY <1>1 DEF ScoreChanges, vars, tool, platform
  <2>2. \A r \in Students : SentOf(r)' \subseteq SentOf(r)
    BY <2>1 DEF SentOf
  <2>3. \A r \in Students : score[r] <= score'[r]
    BY <1>1, PassbackAssumption DEF ScoreChanges, vars, TypeInv, TypeOK
  <2> QED BY <2>1, <2>2, <2>3, NothingNewSent
<1>2. CASE Students = {}
  BY <1>2 DEF StampInv, TypeInv, TypeOK
<1>3. CASE Sweeping
  BY <1>3, StampStarting, StampPlanning, StampResolving, StampPosting, StampEnding
     DEF Sweeping
<1> QED
  BY <1>1, <1>2, <1>3, StampCreating, StampPlatform DEF Next

-----------------------------------------------------------------------------
(* What was posted is held. *)

(* A delivery that is taken replaces a score by one no lower. *)
LEMMA TakenIsLater ==
  ASSUME TypeInv, StampInv, NEW c \in Columns, NEW d, d \in Post \/ d \in Delivery,
         Takes(c, d), [score |-> d.score, at |-> d.at] \in SentOf(d.student),
         book' = Taken(c, d), NEW k \in Columns, NEW s \in Students
  PROVE  /\ book[k][s].score <= book'[k][s].score
         /\ book'[c][d.student].score = d.score
<1>1. d.student \in Students /\ c \in columns
  BY DEF Post, Delivery, Takes
<1>2. book \in [Columns -> [Students -> Held]]
  BY DEF TypeInv, TypeOK
<1>3. book'[c][d.student] = [score |-> d.score, at |-> d.at]
  BY <1>1, <1>2 DEF Taken
<1>4. book[c][d.student].score <= d.score
  <2>1. book[c][d.student] \in SentOf(d.student)
    BY <1>1, SentIs
  <2>2. book[c][d.student].at <= d.at
    BY DEF Takes
  <2> QED BY <1>1, <2>1, <2>2 DEF StampInv
<1>5. k # c \/ s # d.student => book'[k][s] = book[k][s]
  BY <1>1, <1>2 DEF Taken
<1>6. book[k][s].score <= book[k][s].score
  BY <1>2 DEF Held
<1> QED BY <1>3, <1>4, <1>5, <1>6

(* The scores a column shows never move back while it is there. *)
LEMMA ScoresMoveForward ==
  ASSUME TypeInv, StampInv, [Next]_vars, ~ \E k \in Columns : RemoveColumn(k),
         NEW c \in columns, NEW s \in Students
  PROVE  c \in columns' /\ book[c][s].score <= book'[c][s].score
<1> USE DEF tool, platform
<1>1. c \in Columns /\ book[c][s].score <= book[c][s].score
  BY DEF TypeInv, TypeOK, Held
<1>2. CASE UNCHANGED book
  <2>1. columns \subseteq columns'
    BY <1>2 DEF Next, ScoreChanges, Creating, RequestLineItemCreation, LockSection,
       WalkContainer, CreateLineItem, CreationFails, RecordLineItem, Sweeping, StartRun,
       AskForColumn, PlanDeliveries, ReadStoredLineItem, FindLineItem,
       CreateMissingLineItem, ResolvingFails, PostTaken, PostRefused, PostUnanswered,
       CommitSection, RunDies, Platform, LandPost, LandCreation, RemoveColumn, vars
  <2> QED BY <1>1, <1>2, <2>1
<1>3. ASSUME NEW m \in flight, LandPost(m)
      PROVE  c \in columns' /\ book[c][s].score <= book'[c][s].score
  <2>1. m \in Post /\ m.column \in Columns /\ UNCHANGED columns
    BY <1>3 DEF LandPost, TypeInv, TypeOK, Post
  <2>2. [score |-> m.score, at |-> m.at] \in SentOf(m.student)
    BY SentIs
  <2>3. CASE Takes(m.column, m)
    BY <1>1, <1>3, <2>1, <2>2, <2>3, TakenIsLater DEF LandPost
  <2>4. CASE ~ Takes(m.column, m)
    BY <1>1, <1>3, <2>1, <2>4 DEF LandPost
  <2> QED BY <2>3, <2>4
<1>4. ASSUME NEW d \in sweep.plan, PostTaken(d)
      PROVE  c \in columns' /\ book[c][s].score <= book'[c][s].score
  <2>1. d \in Delivery /\ UNCHANGED columns
    BY <1>4 DEF PostTaken, TypeInv, TypeOK, Sweep
  <2>2. [score |-> d.score, at |-> d.at] \in SentOf(d.student)
    BY SentIs
  <2>3. PICK k \in sweep.column : Takes(k, d) /\ book' = Taken(k, d)
    BY <1>4 DEF PostTaken
  <2>4. k \in Columns
    BY <2>3 DEF Takes, TypeInv, TypeOK
  <2> QED BY <1>1, <2>1, <2>2, <2>3, <2>4, TakenIsLater
<1>5. \/ UNCHANGED book
      \/ \E m \in flight : LandPost(m)
      \/ \E d \in sweep.plan : PostTaken(d)
  BY DEF Next, ScoreChanges, Creating, RequestLineItemCreation, LockSection, WalkContainer,
     CreateLineItem, CreationFails, RecordLineItem, Sweeping, StartRun, AskForColumn,
     PlanDeliveries, ReadStoredLineItem, FindLineItem, CreateMissingLineItem,
     ResolvingFails, PostRefused, PostUnanswered, CommitSection, RunDies,
     Platform, LandCreation, vars
<1> QED BY <1>2, <1>3, <1>4, <1>5

LEMMA EmptyStep ==
  ASSUME TypeInv, EmptyInv, [Next]_vars
  PROVE  EmptyInv'
<1> USE DEF EmptyInv, tool, platform
<1>1. book \in [Columns -> [Students -> Held]]
  BY DEF TypeInv, TypeOK
<1>2. ASSUME NEW c \in columns, NEW d, book' = Taken(c, d), UNCHANGED columns
      PROVE  EmptyInv'
  BY <1>1, <1>2 DEF Taken, TypeInv, TypeOK
<1>3. CASE UNCHANGED book /\ columns \subseteq columns'
  BY <1>3
<1>4. ASSUME NEW m \in flight, LandPost(m)
      PROVE  EmptyInv'
  BY <1>2, <1>3, <1>4 DEF LandPost, Takes
<1>5. ASSUME NEW d \in sweep.plan, PostTaken(d)
      PROVE  EmptyInv'
  BY <1>2, <1>5 DEF PostTaken, Takes
<1>6. ASSUME NEW c \in Columns, RemoveColumn(c)
      PROVE  EmptyInv'
  BY <1>1, <1>6 DEF RemoveColumn
<1>7. \/ UNCHANGED book /\ columns \subseteq columns'
      \/ \E m \in flight : LandPost(m)
      \/ \E d \in sweep.plan : PostTaken(d)
      \/ \E k \in Columns : RemoveColumn(k)
  BY DEF Next, ScoreChanges, Creating, RequestLineItemCreation, LockSection, WalkContainer,
     CreateLineItem, CreationFails, RecordLineItem, Sweeping, StartRun, AskForColumn,
     PlanDeliveries, ReadStoredLineItem, FindLineItem, CreateMissingLineItem,
     ResolvingFails, PostRefused, PostUnanswered, CommitSection, RunDies,
     Platform, LandCreation, vars
<1> QED BY <1>3, <1>4, <1>5, <1>6, <1>7

LEMMA PostedStep ==
  ASSUME TypeInv, TypeInv', StampInv, SweepInv, PostedInv, [Next]_vars
  PROVE  PostedInv'
<1> SUFFICES ASSUME ~ removed' PROVE PostedInv'
  BY DEF PostedInv
<1> USE DEF tool, platform
<1>1. ~ removed
  BY DEF Next, ScoreChanges, Creating, RequestLineItemCreation, LockSection, WalkContainer,
     CreateLineItem, CreationFails, RecordLineItem, Sweeping, StartRun, AskForColumn,
     PlanDeliveries, ReadStoredLineItem, FindLineItem, CreateMissingLineItem,
     ResolvingFails, PostTaken, PostRefused, PostUnanswered, CommitSection, RunDies,
     Platform, LandPost, LandCreation, RemoveColumn, vars
<1>2. ~ \E k \in Columns : RemoveColumn(k)
  BY DEF RemoveColumn
<1>3. ASSUME NEW s \in Students, NEW v \in Nat, Holds(s, v)
      PROVE  Holds(s, v)'
  <2>1. PICK c \in columns : v <= book[c][s].score
    BY <1>3 DEF Holds
  <2>2. c \in columns' /\ book[c][s].score <= book'[c][s].score
    BY <1>2, ScoresMoveForward
  <2>3. c \in Columns /\ book[c][s].score \in Nat /\ book'[c][s].score \in Nat
    BY DEF TypeInv, TypeOK, Held
  <2>4. v <= book'[c][s].score
    BY <2>1, <2>2, <2>3
  <2> QED BY <2>2, <2>4 DEF Holds
<1>4. ASSUME NEW w \in sweep.own, w.row.outcome = "posted"
      PROVE  \E c \in columns' : w.row.score <= book'[c][w.student].score
  <2>1. Holds(w.student, w.row.score)
    BY <1>1, <1>4 DEF PostedInv
  <2>2. w.student \in Students /\ w.row.score \in Nat
    BY DEF TypeInv, TypeOK, Sweep, Row, GradeSync
  <2> QED BY <1>3, <2>1, <2>2 DEF Holds
<1>5. ASSUME NEW s \in Students, sync[s].outcome = "posted"
      PROVE  \E c \in columns' : sync[s].score <= book'[c][s].score
  <2>1. Holds(s, sync[s].score)
    BY <1>1, <1>5 DEF PostedInv
  <2>2. sync[s].score \in Nat
    BY DEF TypeInv, TypeOK, GradeSync
  <2> QED BY <1>3, <2>1, <2>2 DEF Holds
<1>6. CASE UNCHANGED sync /\ sweep'.own \subseteq sweep.own
  BY <1>4, <1>5, <1>6 DEF PostedInv, Holds
<1>7. CASE CommitSection
  <2>1. sweep'.own = {} /\ UNCHANGED removed
    BY <1>7 DEF CommitSection, NoSweep
  <2>2. ASSUME NEW s \in Students, sync'[s].outcome = "posted"
        PROVE  \E c \in columns' : sync'[s].score <= book'[c][s].score
    <3> DEFINE w == CHOOSE v \in sweep.own : v.student = s
    <3>1. CASE \E v \in sweep.own : v.student = s
      <4>1. w \in sweep.own /\ w.student = s
        BY <3>1
      <4>2. sync'[s] = w.row
        BY <1>7, <3>1 DEF CommitSection
      <4> HIDE DEF w
      <4> QED BY <1>4, <2>2, <4>1, <4>2
    <3>2. CASE ~ \E v \in sweep.own : v.student = s
      <4>1. sync'[s] = sync[s]
        BY <1>7, <3>2 DEF CommitSection
      <4> QED BY <1>5, <2>2, <4>1
    <3> QED BY <3>1, <3>2
  <2> QED BY <2>1, <2>2 DEF PostedInv, Holds
<1>8. ASSUME NEW d \in sweep.plan, PostTaken(d) \/ PostRefused(d) \/ PostUnanswered(d)
      PROVE  PostedInv'
  <2>1. d \in Delivery /\ UNCHANGED <<sync, columns>>
    BY <1>8 DEF PostTaken, PostRefused, PostUnanswered, TypeInv, TypeOK, Sweep
  <2>2. PICK o : /\ Record(d, o)
                 /\ o = "posted" => PostTaken(d)
    BY <1>8 DEF PostTaken, PostRefused, PostUnanswered
  <2>3. sweep'.own = sweep.own \cup
          {[student |-> d.student, row |-> [score |-> d.score, at |-> d.at, outcome |-> o]]}
    BY <2>2 DEF Record, TypeInv, TypeOK, Sweep
  <2>4. ASSUME PostTaken(d)
        PROVE  \E c \in columns' : d.score <= book'[c][d.student].score
    <3>1. PICK c \in sweep.column : Takes(c, d) /\ book' = Taken(c, d)
      BY <2>4 DEF PostTaken
    <3>2. c \in columns /\ c \in Columns
      BY <3>1 DEF Takes, TypeInv, TypeOK
    <3>3. [score |-> d.score, at |-> d.at] \in SentOf(d.student)
      BY SentIs
    <3>4. d.student \in Students /\ d.score \in Nat
      BY <2>1 DEF Delivery
    <3>5. book'[c][d.student].score = d.score
      BY <2>1, <3>1, <3>2, <3>3, <3>4, TakenIsLater
    <3> QED BY <2>1, <3>2, <3>4, <3>5
  <2>5. ASSUME NEW w \in sweep'.own, w.row.outcome = "posted"
        PROVE  \E c \in columns' : w.row.score <= book'[c][w.student].score
    <3>1. CASE w \in sweep.own
      BY <1>4, <2>5, <3>1
    <3>2. CASE w = [student |-> d.student,
                    row |-> [score |-> d.score, at |-> d.at, outcome |-> o]]
      BY <2>2, <2>4, <2>5, <3>2
    <3> QED BY <2>3, <3>1, <3>2
  <2> QED BY <1>5, <2>1, <2>5 DEF PostedInv, Holds
<1>9. \/ UNCHANGED sync /\ sweep'.own \subseteq sweep.own
      \/ CommitSection
      \/ \E d \in sweep.plan : PostTaken(d) \/ PostRefused(d) \/ PostUnanswered(d)
  <2>1. CASE StartRun \/ AskForColumn \/ ResolvingFails \/ RunDies
    <3>1. UNCHANGED sync /\ sweep'.own = {}
      <4>1. CASE StartRun
        BY <4>1 DEF StartRun, NoSweep
      <4>2. CASE AskForColumn \/ ResolvingFails \/ RunDies
        BY <4>2 DEF AskForColumn, ResolvingFails, RunDies, NoSweep
      <4> QED BY <2>1, <4>1, <4>2
    <3> QED BY <3>1
  <2>2. CASE PlanDeliveries
    BY <2>2 DEF PlanDeliveries, NoSweep, TypeInv, TypeOK, Sweep
  <2>3. CASE ReadStoredLineItem \/ FindLineItem \/ CreateMissingLineItem
    BY <2>3 DEF ReadStoredLineItem, FindLineItem, CreateMissingLineItem, Resolved,
                TypeInv, TypeOK, Sweep
  <2>4. CASE UNCHANGED <<sync, sweep>>
    BY <2>4
  <2> QED
    BY <2>1, <2>2, <2>3, <2>4
       DEF Next, ScoreChanges, Creating, RequestLineItemCreation, LockSection, WalkContainer,
           CreateLineItem, CreationFails, RecordLineItem, Sweeping,
           Platform, LandPost, LandCreation, RemoveColumn, vars
<1> QED BY <1>6, <1>7, <1>8, <1>9

LEMMA PostedInit == Init => EmptyInv /\ PostedInv
  BY DEF Init, EmptyInv, PostedInv, NoSweep

(* What the gradebook shows of a student, whichever columns it has. *)
Shown(B, C, s) == Max({B[c][s].score : c \in C} \cup {0})

LEMMA GreatestScore ==
  ASSUME NEW B \in [Columns -> [Students -> Held]], NEW C, C \subseteq Columns,
         NEW s \in Students
  PROVE  /\ Shown(B, C, s) \in Nat
         /\ \A c \in C : B[c][s].score <= Shown(B, C, s)
         /\ Shown(B, C, s) = 0 \/ \E c \in C : Shown(B, C, s) = B[c][s].score
<1> DEFINE S == {B[c][s].score : c \in C} \cup {0}
           f == [c \in C |-> B[c][s].score]
<1>1. S \subseteq Nat /\ S # {}
  BY DEF Held
<1>2. IsFiniteSet(S)
  <2>1. IsFiniteSet(C)
    BY PassbackAssumption, FS_Subset
  <2>2. IsFiniteSet({f[c] : c \in C})
    <3> HIDE DEF f
    <3> QED BY <2>1, FiniteImage
  <2>3. S = {f[c] : c \in C} \cup {0}
    OBVIOUS
  <2>4. IsFiniteSet({0})
    BY FS_Singleton
  <2> HIDE DEF S, f
  <2> QED BY <2>2, <2>3, <2>4, FS_Union
<1>3. Max(S) \in S /\ \A x \in S : x <= Max(S)
  <2> HIDE DEF S
  <2> QED BY <1>1, <1>2, MaxOfFinite
<1>4. Shown(B, C, s) \in S /\ \A x \in S : x <= Shown(B, C, s)
  BY <1>3 DEF Shown
<1> QED BY <1>1, <1>4

LEMMA HeldIs ==
  ASSUME TypeInv, NEW s \in Students
  PROVE  /\ HeldOf(s) \in Nat
         /\ \A c \in columns : book[c][s].score <= HeldOf(s)
         /\ HeldOf(s) = 0 \/ \E c \in columns : HeldOf(s) = book[c][s].score
<1>1. book \in [Columns -> [Students -> Held]] /\ columns \subseteq Columns
  BY DEF TypeInv, TypeOK
<1>2. HeldOf(s) = Shown(book, columns, s)
  BY DEF HeldOf, Shown
<1> QED BY <1>1, <1>2, GreatestScore

LEMMA HeldIsNext ==
  ASSUME TypeInv', NEW s \in Students
  PROVE  /\ HeldOf(s)' \in Nat
         /\ \A c \in columns' : book'[c][s].score <= HeldOf(s)'
         /\ HeldOf(s)' = 0 \/ \E c \in columns' : HeldOf(s)' = book'[c][s].score
<1>1. book' \in [Columns -> [Students -> Held]] /\ columns' \subseteq Columns
  BY DEF TypeInv, TypeOK
<1>2. HeldOf(s)' = Shown(book', columns', s)
  BY DEF HeldOf, Shown
<1> QED BY <1>1, <1>2, GreatestScore

(* No column shows a score that was not decided. *)
LEMMA HeldWasDecided ==
  ASSUME TypeInv, StampInv, NEW s \in Students
  PROVE  HeldOf(s) <= score[s]
<1>1. score[s] \in Nat
  BY PassbackAssumption DEF TypeInv, TypeOK
<1>2. ASSUME NEW c \in columns
      PROVE  book[c][s].score <= score[s]
  BY SentIs DEF StampInv
<1> QED BY <1>1, <1>2, HeldIs

LEMMA InvCorrect == Spec => []Inv
<1>1. Init => Inv
  BY TypeInit, HoldInit, SweepInit, StampInit, PostedInit DEF Inv, HoldInv
<1>2. Inv /\ [Next]_vars => Inv'
  <2> SUFFICES ASSUME Inv, [Next]_vars PROVE Inv'
    OBVIOUS
  <2>1. TypeInv'
    BY TypeStep DEF Inv
  <2>2. JobInv' /\ ColumnInv'
    BY HoldStep DEF Inv, HoldInv
  <2>3. SweepInv' /\ EmptyInv'
    BY SweepStep, EmptyStep DEF Inv
  <2>4. StampInv' /\ PostedInv'
    BY <2>1, StampStep, PostedStep DEF Inv
  <2> QED BY <2>1, <2>2, <2>3, <2>4 DEF Inv
<1> QED BY <1>1, <1>2, PTL DEF Spec

(* Two deliveries with one timestamp carry one score: the platform may     *)
(* take either for a retry of the other.                                   *)
THEOREM StampNamesScore == Spec => []OneScorePerStamp
<1>1. Inv => OneScorePerStamp
  <2> SUFFICES ASSUME Inv, NEW s \in Students, NEW x \in SentOf(s), NEW y \in SentOf(s),
                      x.at = y.at
               PROVE  x.score = y.score
    BY DEF OneScorePerStamp
  <2>1. x \in Held /\ y \in Held
    BY SentType DEF Inv
  <2>2. x.score <= y.score /\ y.score <= x.score
    BY <2>1 DEF Inv, StampInv, Held
  <2> QED BY <2>1, <2>2 DEF Held
<1> QED BY <1>1, InvCorrect, PTL

(* Where the records leave nothing to send, the gradebook shows the score. *)
THEOREM RecordsAreTrue == Spec => []NothingDueIsHeld
<1>1. Inv => NothingDueIsHeld
  <2> SUFFICES ASSUME Inv, ~ removed, NEW s \in Students,
                      Recorded(s), sync[s].outcome = "posted"
               PROVE  HeldOf(s) = score[s]
    BY DEF NothingDueIsHeld
  <2>1. PICK c \in columns : score[s] <= book[c][s].score
    BY DEF Inv, PostedInv, Holds, Recorded
  <2>2. book[c][s].score \in Nat /\ score[s] \in Nat
    BY PassbackAssumption DEF Inv, TypeInv, TypeOK, Held
  <2>3. HeldOf(s) \in Nat /\ book[c][s].score <= HeldOf(s) /\ HeldOf(s) <= score[s]
    BY HeldIs, HeldWasDecided DEF Inv
  <2> QED BY <2>1, <2>2, <2>3
<1> QED BY <1>1, InvCorrect, PTL

-----------------------------------------------------------------------------
(* The gradebook keeps its promise. *)

(* A step other than the removal of a column moves what the gradebook      *)
(* shows of at most one student.                                           *)
LEMMA OneStudentMoves ==
  ASSUME Inv, Inv', [Next]_vars, ~ \E k \in Columns : RemoveColumn(k)
  PROVE  \E r : \A s \in Students \ {r} : HeldOf(s)' = HeldOf(s)
<1> USE DEF tool, platform
<1>1. ASSUME NEW s \in Students, \A c \in columns' : book'[c][s] = book[c][s],
             columns \subseteq columns'
      PROVE  HeldOf(s)' = HeldOf(s)
  <2>1. \A c \in columns' \ columns : book[c][s].score = 0
    BY DEF Inv, TypeInv, TypeOK, EmptyInv, NoScore
  <2>2. {book'[c][s].score : c \in columns'} \cup {0}
          = {book[c][s].score : c \in columns} \cup {0}
    BY <1>1, <2>1
  <2> QED BY <2>2 DEF HeldOf
<1>2. CASE UNCHANGED book /\ columns \subseteq columns'
  BY <1>1, <1>2
<1>3. ASSUME NEW m \in flight, LandPost(m)
      PROVE  \E r : \A s \in Students \ {r} : HeldOf(s)' = HeldOf(s)
  <2>1. m \in Post /\ UNCHANGED columns
    BY <1>3 DEF LandPost, Inv, TypeInv, TypeOK
  <2>2. \A s \in Students \ {m.student} : \A c \in columns' : book'[c][s] = book[c][s]
    BY <1>3, <2>1 DEF LandPost, Taken, Post, Inv, TypeInv, TypeOK
  <2> QED BY <1>1, <2>1, <2>2
<1>4. ASSUME NEW d \in sweep.plan, PostTaken(d)
      PROVE  \E r : \A s \in Students \ {r} : HeldOf(s)' = HeldOf(s)
  <2>1. d \in Delivery /\ UNCHANGED columns
    BY <1>4 DEF PostTaken, Inv, TypeInv, TypeOK, Sweep
  <2>2. \A s \in Students \ {d.student} : \A c \in columns' : book'[c][s] = book[c][s]
    BY <1>4, <2>1 DEF PostTaken, Takes, Taken, Delivery, Inv, TypeInv, TypeOK
  <2> QED BY <1>1, <2>1, <2>2
<1>5. \/ UNCHANGED book /\ columns \subseteq columns'
      \/ \E m \in flight : LandPost(m)
      \/ \E d \in sweep.plan : PostTaken(d)
  BY DEF Next, ScoreChanges, Creating, RequestLineItemCreation, LockSection, WalkContainer,
     CreateLineItem, CreationFails, RecordLineItem, Sweeping, StartRun, AskForColumn,
     PlanDeliveries, ReadStoredLineItem, FindLineItem, CreateMissingLineItem,
     ResolvingFails, PostRefused, PostUnanswered, CommitSection, RunDies,
     Platform, LandCreation, vars
<1> QED BY <1>2, <1>3, <1>4, <1>5

(* And never back. *)
LEMMA HeldMovesForward ==
  ASSUME Inv, Inv', [Next]_vars, ~ \E k \in Columns : RemoveColumn(k), NEW s \in Students
  PROVE  HeldOf(s) <= HeldOf(s)'
<1>1. HeldOf(s) \in Nat /\ (HeldOf(s) = 0 \/ \E c \in columns : HeldOf(s) = book[c][s].score)
  BY HeldIs DEF Inv
<1>2. TypeInv'
  BY DEF Inv
<1>3. HeldOf(s)' \in Nat /\ \A c \in columns' : book'[c][s].score <= HeldOf(s)'
  BY <1>2, HeldIsNext
<1>4. ASSUME NEW c \in columns
      PROVE  book[c][s].score <= HeldOf(s)'
  <2>1. c \in columns' /\ book[c][s].score <= book'[c][s].score
    BY ScoresMoveForward DEF Inv
  <2>2. c \in Columns /\ book[c][s].score \in Nat /\ book'[c][s].score \in Nat
    BY DEF Inv, TypeInv, TypeOK, Held
  <2> QED BY <1>3, <2>1, <2>2
<1> QED BY <1>1, <1>3, <1>4

LEMMA RemovalIsRemove ==
  ASSUME Inv, Inv', NEW k \in Columns, RemoveColumn(k)
  PROVE  Promise!Remove
<1>1. UNCHANGED score /\ removed'
  BY DEF RemoveColumn
<1>2. ASSUME NEW s \in Students
      PROVE  HeldOf(s)' \in Nat /\ HeldOf(s)' <= HeldOf(s)
  <2>1. HeldOf(s) \in Nat /\ \A c \in columns : book[c][s].score <= HeldOf(s)
    BY HeldIs DEF Inv
  <2>2. TypeInv'
    BY DEF Inv
  <2>3. /\ HeldOf(s)' \in Nat
        /\ HeldOf(s)' = 0 \/ \E c \in columns' : HeldOf(s)' = book'[c][s].score
    BY <2>2, HeldIsNext
  <2>4. \A c \in columns' : c \in columns /\ book'[c] = book[c]
    BY DEF RemoveColumn, Inv, TypeInv, TypeOK
  <2> QED BY <2>1, <2>3, <2>4
<1>3. [s \in Students |-> HeldOf(s)]' \in
        {h \in [Students -> Nat] : \A s \in Students : h[s] <= [r \in Students |-> HeldOf(r)][s]}
  BY <1>2
<1> QED BY <1>1, <1>3 DEF Promise!Remove

LEMMA PostIsAccept ==
  ASSUME Inv, Inv', [Next]_vars, ~ \E k \in Columns : RemoveColumn(k),
         UNCHANGED <<score, removed>>
  PROVE  \/ \E s \in Students : \E v \in 1..score[s] : Promise!Accept(s, v)
         \/ UNCHANGED [s \in Students |-> HeldOf(s)]
<1>1. PICK r : \A s \in Students \ {r} : HeldOf(s)' = HeldOf(s)
  BY OneStudentMoves
<1>2. CASE r \in Students /\ HeldOf(r)' # HeldOf(r)
  <2>1. TypeInv' /\ StampInv' /\ score[r] \in Nat
    BY <1>2, PassbackAssumption DEF Inv, TypeInv, TypeOK
  <2>2. HeldOf(r) \in Nat /\ HeldOf(r)' \in Nat /\ HeldOf(r)' <= score'[r]
    <3>1. \A c \in columns' : book'[c][r].score <= score'[r]
      BY <1>2, <2>1 DEF StampInv, SentOf
    <3>2. score'[r] \in Nat
      BY <2>1
    <3> QED BY <1>2, <2>1, <3>1, <3>2, HeldIs, HeldIsNext DEF Inv
  <2>3. HeldOf(r) <= HeldOf(r)'
    BY <1>2, HeldMovesForward
  <2>4. HeldOf(r) < HeldOf(r)' /\ HeldOf(r)' <= score[r] /\ HeldOf(r)' \in 1..score[r]
    BY <1>2, <2>1, <2>2, <2>3
  <2>5. [s \in Students |-> HeldOf(s)]'
          = [[s \in Students |-> HeldOf(s)] EXCEPT ![r] = HeldOf(r)']
    <3>1. ASSUME NEW s \in Students
          PROVE  HeldOf(s)' = IF s = r THEN HeldOf(r)' ELSE HeldOf(s)
      BY <1>1
    <3> QED BY <1>2, <3>1
  <2>6. Promise!Accept(r, HeldOf(r)')
    BY <1>2, <2>4, <2>5 DEF Promise!Accept
  <2> QED BY <1>2, <2>4, <2>6
<1>3. CASE ~ (r \in Students /\ HeldOf(r)' # HeldOf(r))
  BY <1>1, <1>3
<1> QED BY <1>2, <1>3

LEMMA PromiseStep ==
  ASSUME Inv, Inv', [Next]_vars
  PROVE  [Promise!Next]_Promise!vars
<1>1. ASSUME NEW k \in Columns, RemoveColumn(k)
      PROVE  Promise!Remove
  BY <1>1, RemovalIsRemove
<1>2. ASSUME NEW s \in Students, ScoreChanges(s)
      PROVE  Promise!Decide(s)
  BY <1>2 DEF ScoreChanges, platform, HeldOf, Promise!Decide
<1>3. CASE /\ ~ \E k \in Columns : RemoveColumn(k)
           /\ ~ \E s \in Students : ScoreChanges(s)
  <2>1. UNCHANGED <<score, removed>>
    BY <1>3 DEF Next, Creating, RequestLineItemCreation, LockSection, WalkContainer,
       CreateLineItem, CreationFails, RecordLineItem, Sweeping, StartRun, AskForColumn,
       PlanDeliveries, ReadStoredLineItem, FindLineItem, CreateMissingLineItem,
       ResolvingFails, PostTaken, PostRefused, PostUnanswered, CommitSection, RunDies,
       Platform, LandPost, LandCreation, vars
  <2> QED BY <1>3, <2>1, PostIsAccept DEF Promise!Next, Promise!vars
<1> QED BY <1>1, <1>2, <1>3 DEF Promise!Next

(* Scores only move forward, to scores that were decided. *)
THEOREM KeepsGradebook == Spec => Promise!Moves
<1>1. Init => Promise!Init
  <2> SUFFICES ASSUME Init PROVE Promise!Init
    OBVIOUS
  <2>1. TypeInv
    BY TypeInit
  <2>2. ASSUME NEW s \in Students
        PROVE  HeldOf(s) = 0
    BY <2>1, HeldIs DEF Init
  <2> QED BY <2>2 DEF Init, Promise!Init
<1>2. Inv /\ Inv' /\ [Next]_vars => [Promise!Next]_Promise!vars
  BY PromiseStep
<1> QED BY <1>1, <1>2, InvCorrect, PTL DEF Spec, Promise!Moves

=============================================================================
