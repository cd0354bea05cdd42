------------------------ MODULE CommentReleaseProofs ------------------------
(***************************************************************************)
(* Proofs about CommentRelease for every set of comments, students, weeks, *)
(* workers and every threshold.                                            *)
(***************************************************************************)
EXTENDS CommentRelease, FiniteSetTheorems, SequenceTheorems, TLAPS

-----------------------------------------------------------------------------
(* The first half of the inductive invariant: what the submission guard    *)
(* and the sweep's advisory lock keep true.  It needs no assumption about  *)
(* requests in flight.                                                     *)

(* A pending request holds its author's rows and may still revise each. *)
PendingCanStore ==
  \A a \in Authors : \A c \in pending[a] : AuthorOf[c] = a /\ text[c] < MaxText

(* One run holds the lock, and only that run has anything to do. *)
OneRunAtATime ==
  /\ \A j, k \in lock : j = k
  /\ \A k \in Sweepers : k \notin lock => queue[k] = {} /\ asking[k] = {}

(* What a run will ask about is still unjudged and under the cap. *)
Askable(c) == text[c] # 0 /\ HoldsNoVerdict(c) /\ attempts[c] < AttemptCap

QueueIsAskable == \A k \in Sweepers : \A c \in queue[k] : Askable(c)

AskedIsAskable ==
  \A k \in Sweepers :
    /\ \A q \in asking[k] : Askable(q.comment) /\ q.comment \notin queue[k]
    /\ \A p, q \in asking[k] : p = q

SweepInv ==
  /\ TypeOK
  /\ PendingCanStore
  /\ OneRunAtATime
  /\ QueueIsAskable
  /\ AskedIsAskable
  /\ SettledOnce

LEMMA SweepInit == Init => SweepInv
<1>1. Init => TypeOK
  BY CommentAssumption, BoundAssumption DEF Init, TypeOK, NoCut, Cut, CutStages, NoReader, Reader
<1>2. Init => SettledOnce
  BY BoundAssumption, FS_EmptySet DEF Init, SettledOnce, HoldsNoVerdict
<1>3. QED
  BY <1>1, <1>2, BoundAssumption
  DEF Init, SweepInv, PendingCanStore, OneRunAtATime, QueueIsAskable, AskedIsAskable

(* A settled comment is one that was judged once or given up. *)
LEMMA AtMostOneVerdict ==
  ASSUME NEW v
  PROVE  Cardinality({} \cup {v}) <= 1
BY FS_Singleton, {} \cup {v} = {v}

LEMMA SubmissionKeepsSweepInv ==
  ASSUME SweepInv, NEW a \in Authors, Submitting(a)
  PROVE  SweepInv'
<1> USE DEF SweepInv
<1>1. CASE BeginSubmission(a)
  <2>1. PendingCanStore' /\ pending' \in [Authors -> SUBSET Comments]
    BY <1>1 DEF BeginSubmission, PendingCanStore, TypeOK
  <2>2. QED
    BY <1>1, <2>1
    DEF BeginSubmission, TypeOK, OneRunAtATime, QueueIsAskable, AskedIsAskable,
        Askable, SettledOnce, HoldsNoVerdict, moderation, release, reading
<1>2. CASE StoreSubmission(a)
  <2>1. /\ text' = [c \in Comments |-> IF c \in pending[a] THEN text[c] + 1 ELSE text[c]]
        /\ pending' = [pending EXCEPT ![a] = {}]
        /\ UNCHANGED <<closed, moderation, release, reading>>
    BY <1>2 DEF StoreSubmission
  <2>2. \A c \in Comments : text'[c] \in 0..MaxText /\ (text[c] # 0 => text'[c] # 0)
    BY <2>1, BoundAssumption DEF TypeOK, PendingCanStore
  <2>3. QED
    BY <2>1, <2>2
    DEF TypeOK, PendingCanStore, OneRunAtATime, QueueIsAskable, AskedIsAskable,
        Askable, SettledOnce, HoldsNoVerdict, moderation, release, reading
<1>3. CASE RefuseSubmission(a)
  BY <1>3
  DEF RefuseSubmission, TypeOK, PendingCanStore, OneRunAtATime, QueueIsAskable,
      AskedIsAskable, Askable, SettledOnce, HoldsNoVerdict, moderation, release, reading
<1>4. QED
  BY <1>1, <1>2, <1>3 DEF Submitting

LEMMA SweepingKeepsSweepInv ==
  ASSUME SweepInv, NEW k \in Sweepers, Sweeping(k)
  PROVE  SweepInv'
<1> USE DEF SweepInv
<1>1. CASE StartSweep(k)
  BY <1>1
  DEF StartSweep, AwaitingModeration, Answered, TypeOK, PendingCanStore, OneRunAtATime,
      QueueIsAskable, AskedIsAskable, Askable, SettledOnce, HoldsNoVerdict,
      submission, release, reading
<1>2. ASSUME NEW c \in Comments, AskModel(k, c)
      PROVE  SweepInv'
  <2> DEFINE q == [comment |-> c, of |-> text[c]]
  <2>1. /\ k \in lock /\ asking[k] = {} /\ c \in queue[k]
        /\ asking' = [asking EXCEPT ![k] = {q}]
        /\ queue' = [queue EXCEPT ![k] = queue[k] \ {c}]
        /\ UNCHANGED <<verdicts, attempts, lock, submission, release, reading>>
    BY <1>2 DEF AskModel
  <2>2. Askable(c)
    BY <2>1 DEF QueueIsAskable
  <2>3. q \in [comment : Comments, of : 1..MaxText]
    BY <2>2 DEF TypeOK, Askable
  <2>4. /\ TypeOK'
        /\ OneRunAtATime'
    BY <2>1, <2>3 DEF TypeOK, OneRunAtATime, submission, release, reading
  <2>5. QueueIsAskable' /\ AskedIsAskable'
    BY <2>1, <2>2
    DEF TypeOK, QueueIsAskable, AskedIsAskable, Askable, HoldsNoVerdict, submission
  <2>6. QED
    BY <2>1, <2>4, <2>5 DEF PendingCanStore, SettledOnce, HoldsNoVerdict, submission
<1>3. ASSUME NEW kind \in Kinds, RouteVerdict(k, kind)
      PROVE  SweepInv'
  <2>1. PICK q \in asking[k] :
          /\ verdicts' = [verdicts EXCEPT ![q.comment] =
                            @ \cup {[kind |-> kind, of |-> q.of]}]
          /\ asking' = [asking EXCEPT ![k] = {}]
          /\ UNCHANGED <<attempts, lock, queue, submission, release, reading>>
    BY <1>3 DEF RouteVerdict
  <2>2. Askable(q.comment) /\ q.comment \notin queue[k] /\ k \in lock /\ q.comment \in Comments
    BY DEF AskedIsAskable, OneRunAtATime, TypeOK
  <2>3. [kind |-> kind, of |-> q.of] \in Verdict
    BY DEF TypeOK, Verdict
  <2>4. TypeOK'
    BY <2>1, <2>3 DEF TypeOK, submission, release, reading
  <2>5. OneRunAtATime' /\ PendingCanStore'
    BY <2>1 DEF OneRunAtATime, PendingCanStore, TypeOK, submission
  <2>6. \A j \in Sweepers : j # k => queue[j] = {} /\ asking[j] = {}
    BY <2>2 DEF OneRunAtATime, TypeOK
  <2>7. QueueIsAskable' /\ AskedIsAskable'
    BY <2>1, <2>2, <2>6
    DEF TypeOK, QueueIsAskable, AskedIsAskable, Askable, HoldsNoVerdict, submission
  <2>8. SettledOnce'
    <3>1. verdicts'[q.comment] = {} \cup {[kind |-> kind, of |-> q.of]}
      BY <2>1, <2>2 DEF TypeOK, Askable, HoldsNoVerdict
    <3>2. Cardinality(verdicts'[q.comment]) <= 1
      BY <3>1, AtMostOneVerdict, Zenon
    <3>3. \A c \in Comments : c # q.comment => verdicts'[c] = verdicts[c]
      BY <2>1 DEF TypeOK
    <3>4. attempts' = attempts /\ attempts[q.comment] # AttemptCap
      BY <2>1, <2>2, BoundAssumption DEF Askable, TypeOK
    <3>5. QED
      BY <3>2, <3>3, <3>4 DEF SettledOnce, HoldsNoVerdict
  <2>9. QED
    BY <2>4, <2>5, <2>7, <2>8
<1>4. CASE CountUnusableAnswer(k)
  <2>1. PICK q \in asking[k] :
          /\ attempts' = [attempts EXCEPT ![q.comment] = @ + 1]
          /\ asking' = [asking EXCEPT ![k] = {}]
          /\ UNCHANGED <<verdicts, lock, queue, submission, release, reading>>
    BY <1>4 DEF CountUnusableAnswer
  <2>2. Askable(q.comment) /\ q.comment \notin queue[k] /\ k \in lock /\ q.comment \in Comments
    BY DEF AskedIsAskable, OneRunAtATime, TypeOK
  <2>3. attempts[q.comment] + 1 \in 0..AttemptCap
    BY <2>2, BoundAssumption DEF TypeOK, Askable
  <2>4. TypeOK' /\ OneRunAtATime' /\ PendingCanStore'
    BY <2>1, <2>3 DEF TypeOK, OneRunAtATime, PendingCanStore, submission, release, reading
  <2>5. \A j \in Sweepers : j # k => queue[j] = {} /\ asking[j] = {}
    BY <2>2 DEF OneRunAtATime, TypeOK
  <2>6. QueueIsAskable' /\ AskedIsAskable'
    BY <2>1, <2>2, <2>5
    DEF TypeOK, QueueIsAskable, AskedIsAskable, Askable, HoldsNoVerdict, submission
  <2>7. SettledOnce'
    BY <2>1, <2>2 DEF TypeOK, Askable, SettledOnce, HoldsNoVerdict
  <2>8. QED
    BY <2>4, <2>6, <2>7
<1>5. CASE LeaveForNextRun(k)
  BY <1>5
  DEF LeaveForNextRun, TypeOK, PendingCanStore, OneRunAtATime, QueueIsAskable,
      AskedIsAskable, Askable, SettledOnce, HoldsNoVerdict, submission, release, reading
<1>6. CASE EndSweep(k)
  BY <1>6
  DEF EndSweep, TypeOK, PendingCanStore, OneRunAtATime, QueueIsAskable,
      AskedIsAskable, Askable, SettledOnce, HoldsNoVerdict, submission, release, reading
<1>7. CASE SweeperDies(k)
  BY <1>7
  DEF SweeperDies, TypeOK, PendingCanStore, OneRunAtATime, QueueIsAskable,
      AskedIsAskable, Askable, SettledOnce, HoldsNoVerdict, submission, release, reading
<1>8. QED
  BY <1>1, <1>2, <1>3, <1>4, <1>5, <1>6, <1>7 DEF Sweeping

(* The reads of the view, whatever the state, stay within the comments. *)
LEMMA HeldIsComments ==
  ASSUME NEW now, NEW unmoderated
  PROVE  Held(now, unmoderated) \subseteq Comments
BY DEF Held, ReportComment, Answered

LEMMA CuttingKeepsSweepInv ==
  ASSUME SweepInv, NEW k \in Cutters, Cutting(k)
  PROVE  SweepInv'
<1> USE DEF SweepInv
<1>1. UNCHANGED <<submission, moderation, reading>>
  BY DEF Cutting, StartCut, ReadDue, ReadAnswers, CommitCut, CutterDies
<1>2. cut[k] \in Cut /\ NoCut \in Cut
  <2>1. cut[k] \in Cut
    BY DEF TypeOK
  <2>2. NoCut \in Cut
    BY CommentAssumption DEF NoCut, Cut, CutStages
  <2>3. QED
    BY <2>1, <2>2
<1>3. cut' \in [Cutters -> Cut] /\ batches' \in Seq(SUBSET Comments)
  <2>1. CASE StartCut(k)
    <3>1. UnmoderatedWeeks \in SUBSET Weeks
      BY CommentAssumption DEF UnmoderatedWeeks, Answered, Weeks
    <3>2. QED
      BY <2>1, <3>1 DEF StartCut, TypeOK, NoCut, Cut, CutStages
  <2>2. CASE ReadDue(k)
    <3>1. Due(Held(cut[k].now, cut[k].unmoderated)) \in SUBSET Streams
      BY DEF Due
    <3>2. QED
      BY <2>2, <3>1, <1>2 DEF ReadDue, TypeOK, Cut, CutStages
  <2>3. CASE ReadAnswers(k)
    <3> DEFINE A == {c \in Held(cut[k].now, cut[k].unmoderated) : StreamOf[c] \in cut[k].due}
    <3>1. A \in SUBSET Comments
      BY HeldIsComments
    <3>2. cut' = [cut EXCEPT ![k].stage = "answers read", ![k].answers = A]
          /\ batches' = batches
      BY <2>3 DEF ReadAnswers
    <3>3. [cut[k] EXCEPT !.stage = "answers read", !.answers = A] \in Cut
      BY <1>2, <3>1 DEF Cut, CutStages
    <3> HIDE DEF A
    <3>4. QED
      BY <3>2, <3>3 DEF TypeOK
  <2>4. CASE CommitCut(k)
    <3>1. cut[k].answers \in SUBSET Comments
      BY <1>2 DEF Cut
    <3>2. batches' = batches \/ batches' = Append(batches, cut[k].answers)
      BY <2>4 DEF CommitCut
    <3> DEFINE answers == cut[k].answers
    <3>3. batches \in Seq(SUBSET Comments) /\ answers \in SUBSET Comments
      BY <3>1 DEF TypeOK
    <3> HIDE DEF answers
    <3>4. Append(batches, answers) \in Seq(SUBSET Comments)
      BY <3>3, AppendProperties
    <3>5. batches' \in Seq(SUBSET Comments)
      BY <3>2, <3>3, <3>4 DEF answers
    <3>6. QED
      BY <2>4, <3>5, <1>2 DEF CommitCut, TypeOK
  <2>5. CASE CutterDies(k)
    BY <2>5, <1>2 DEF CutterDies, TypeOK
  <2>6. QED
    BY <2>1, <2>2, <2>3, <2>4, <2>5 DEF Cutting
<1>4. TypeOK'
  BY <1>1, <1>3 DEF TypeOK, submission, moderation, reading
<1>5. QED
  BY <1>1, <1>4
  DEF PendingCanStore, OneRunAtATime, QueueIsAskable, AskedIsAskable, Askable,
      SettledOnce, HoldsNoVerdict, submission, moderation

LEMMA ReportingKeepsSweepInv ==
  ASSUME SweepInv, Reporting
  PROVE  SweepInv'
<1> USE DEF SweepInv
<1>1. UNCHANGED <<submission, moderation, release>>
  BY DEF Reporting, ReadModerated, ReadSuppressed, ReadCards, ReadReleased
<1>2. NoReader \in Reader
  BY CommentAssumption DEF NoReader, Reader
<1>3. reader' \in Reader
  <2>1. ASSUME NEW w \in Weeks, NEW s \in Streams, ReadModerated(w, s)
        PROVE  reader' \in Reader
    BY <2>1, CommentAssumption DEF ReadModerated, Reader, Weeks
  <2> DEFINE counted == [reader EXCEPT !.stage = "counted"]
  <2>2. reader \in Reader
    BY DEF TypeOK
  <2>3. counted \in Reader
    BY <2>2 DEF Reader
  <2>4. ReadSuppressed => reader' \in {NoReader, counted}
    BY DEF ReadSuppressed
  <2> HIDE DEF counted
  <2>5. QED
    BY <1>2, <2>1, <2>2, <2>3, <2>4 DEF Reporting, ReadCards, ReadReleased
<1>4. /\ shown' \in SUBSET [week : Weeks, stream : Streams, cards : SUBSET Comments]
      /\ readTexts' \in SUBSET (Comments \X (0..MaxText))
  <2>1. CASE ReadCards
    <3> DEFINE cards == {c \in Slice(ReportComment, reader.week, reader.stream) : InNoBatch(c)}
    <3>1. cards \subseteq Comments
      BY DEF Slice, ReportComment, Answered
    <3>2. cards # {} => reader.week \in Weeks /\ reader.stream \in Streams
      BY CommentAssumption DEF Slice, ReportComment, Answered, Weeks
    <3>3. /\ shown' = IF cards = {} THEN shown ELSE
                  shown \cup {[week |-> reader.week, stream |-> reader.stream, cards |-> cards]}
          /\ readTexts' = readTexts \cup {<<c, text[c]>> : c \in cards}
      BY <2>1 DEF ReadCards
    <3> HIDE DEF cards
    <3>4. QED
      BY <3>1, <3>2, <3>3 DEF TypeOK
  <2>2. CASE ReadReleased
    BY <2>2 DEF ReadReleased, ReportComment, Answered, TypeOK
  <2>3. QED
    BY <2>1, <2>2 DEF Reporting, ReadModerated, ReadSuppressed, TypeOK
<1>5. TypeOK'
  BY <1>1, <1>3, <1>4 DEF TypeOK, submission, moderation, release
<1>6. QED
  BY <1>1, <1>5
  DEF PendingCanStore, OneRunAtATime, QueueIsAskable, AskedIsAskable, Askable,
      SettledOnce, HoldsNoVerdict, submission, moderation

LEMMA NextKeepsSweepInv ==
  SweepInv /\ [Next]_vars => SweepInv'
<1> SUFFICES ASSUME SweepInv, [Next]_vars PROVE SweepInv'
  OBVIOUS
<1>1. CASE CloseWeek
  BY <1>1, CommentAssumption
  DEF CloseWeek, SweepInv, TypeOK, PendingCanStore, OneRunAtATime, QueueIsAskable,
      AskedIsAskable, Askable, SettledOnce, HoldsNoVerdict, moderation, release, reading
<1>2. CASE UNCHANGED vars
  BY <1>2
  DEF vars, SweepInv, TypeOK, PendingCanStore, OneRunAtATime, QueueIsAskable,
      AskedIsAskable, Askable, SettledOnce, HoldsNoVerdict
<1>3. QED
  BY <1>1, <1>2, SubmissionKeepsSweepInv, SweepingKeepsSweepInv, CuttingKeepsSweepInv,
     ReportingKeepsSweepInv DEF Next

LEMMA SweepInvHolds == Spec => []SweepInv
BY SweepInit, NextKeepsSweepInv, PTL DEF Spec

(* Every variable keeps its type: in particular no comment is asked about  *)
(* past the attempt cap, and none is asked about before it was written.    *)
THEOREM TypeCorrect == Spec => []TypeOK
BY SweepInvHolds, PTL DEF SweepInv

(* However many workers run the sweep and wherever they die, no comment is *)
(* judged twice, and none is both judged and given up at the cap.          *)
THEOREM CommentsSettleOnce == Spec => []SettledOnce
BY SweepInvHolds, PTL DEF SweepInv

-----------------------------------------------------------------------------
(* Counting people: lemmas on the authors of a set of comments. *)

LEMMA AuthorsAreCounted ==
  ASSUME NEW S \in SUBSET Comments
  PROVE  /\ IsFiniteSet(S) /\ Cardinality(S) \in Nat
         /\ IsFiniteSet(AuthorsOf(S)) /\ Cardinality(AuthorsOf(S)) \in Nat
         /\ Cardinality(AuthorsOf(S)) <= Cardinality(S)
<1> DEFINE f == [c \in S |-> AuthorOf[c]]
<1>1. IsFiniteSet(S)
  BY CommentAssumption, FS_Subset
<1>2. f \in Surjection(S, AuthorsOf(S))
  BY DEF Surjection, AuthorsOf
<1>3. QED
  BY <1>1, <1>2, FS_Surjection, FS_CardinalityType

LEMMA AuthorsGrow ==
  ASSUME NEW T \in SUBSET Comments, NEW S \in SUBSET T
  PROVE  Cardinality(AuthorsOf(S)) <= Cardinality(AuthorsOf(T))
<1>1. AuthorsOf(S) \in SUBSET AuthorsOf(T)
  BY DEF AuthorsOf
<1>2. QED
  BY <1>1, AuthorsAreCounted, FS_Subset

LEMMA PairHasTwo ==
  ASSUME NEW x, NEW y, x # y
  PROVE  Cardinality({x, y}) = 2
<1>1. IsFiniteSet({x}) /\ Cardinality({x}) = 1
  BY FS_Singleton
<1>2. Cardinality({x} \cup {y}) = 2
  BY <1>1, FS_AddElement
<1>3. {x, y} = {x} \cup {y}
  OBVIOUS
<1>4. QED
  BY <1>2, <1>3

(* Fewer than two weeks means at most one. *)
LEMMA OneWeekOnly ==
  ASSUME NEW S \in SUBSET Comments, ~ SpansEnoughWeeks(S), NEW b \in S, NEW c \in S
  PROVE  WeekOf[b] = WeekOf[c]
<1> DEFINE W == {WeekOf[d] : d \in S}
<1>1. SUFFICES ASSUME WeekOf[b] # WeekOf[c] PROVE FALSE
  OBVIOUS
<1>2. IsFiniteSet(W)
  <2>1. W \in SUBSET (1..LastWeek)
    BY CommentAssumption
  <2>2. QED
    BY <2>1, CommentAssumption, FS_Interval, FS_Subset
<1>3. {WeekOf[b], WeekOf[c]} \in SUBSET W
  OBVIOUS
<1>4. Cardinality({WeekOf[b], WeekOf[c]}) = 2
  BY <1>1, PairHasTwo
<1>5. 2 <= Cardinality(W) /\ Cardinality(W) \in Nat
  BY <1>2, <1>3, <1>4, FS_Subset, FS_CardinalityType
<1>6. QED
  BY <1>5 DEF SpansEnoughWeeks, WeeksSpanned

LEMMA PeopleAreEnough == PeopleImplyVolumeAndWeeks
<1> SUFFICES ASSUME NEW s \in Streams,
                    EnoughRespondents(HeldIn(Held(closed, UnmoderatedWeeks), s))
             PROVE  /\ VolumeHasCrossed(s)
                    /\ SpansEnoughWeeks(HeldIn(Held(closed, UnmoderatedWeeks), s))
  BY DEF PeopleImplyVolumeAndWeeks
<1> DEFINE S == HeldIn(Held(closed, UnmoderatedWeeks), s)
           V == {c \in ReportComment : StreamOf[c] = s}
<1>1. S \in SUBSET V /\ V \in SUBSET Comments
  BY DEF HeldIn, Held, ReportComment, Answered
<1>2. Threshold <= Cardinality(AuthorsOf(S)) /\ Threshold \in Nat \ {0}
  BY BoundAssumption DEF EnoughRespondents
<1>3. VolumeHasCrossed(s)
  <2>1. Cardinality(S) <= Cardinality(V)
    BY <1>1, AuthorsAreCounted, FS_Subset
  <2>2. QED
    BY <1>1, <1>2, <2>1, AuthorsAreCounted DEF VolumeHasCrossed
<1>4. SpansEnoughWeeks(S)
  <2>1. SUFFICES ASSUME ~ SpansEnoughWeeks(S) PROVE FALSE
    OBVIOUS
  <2>2. PICK c \in S : TRUE
    <3>1. SUFFICES ASSUME S = {} PROVE FALSE
      OBVIOUS
    <3>2. AuthorsOf(S) = {}
      BY <3>1 DEF AuthorsOf
    <3>3. QED
      BY <1>2, <3>2, FS_EmptySet
  <2> DEFINE U == {d \in Slice(ReportComment, WeekOf[c], StreamOf[c]) : InNoBatch(d)}
  <2>3. U \in SUBSET Comments /\ S \in SUBSET U
    <3>1. \A d \in S : WeekOf[d] = WeekOf[c]
      BY <1>1, <2>1, OneWeekOnly
    <3>2. QED
      BY <3>1 DEF HeldIn, Held, Slice, ReportComment, Answered
  <2>4. Cardinality(AuthorsOf(U)) < Threshold
    BY DEF HeldIn, Held, Commenters
  <2>5. QED
    BY <1>2, <2>3, <2>4, AuthorsGrow, AuthorsAreCounted
<1>5. QED
  BY <1>3, <1>4

(* Counting the people behind a stream's held comments is enough: the      *)
(* volume and the two weeks of the release gate follow, whatever the       *)
(* threshold, because a stream held in one week has too few authors there. *)
THEOREM CountingPeopleIsEnough == Spec => []PeopleImplyVolumeAndWeeks
BY PeopleAreEnough, PTL

-----------------------------------------------------------------------------
(***************************************************************************)
(* What a reader can learn from the reports of a section: proofs about     *)
(* CommentRelease for every set of comments, students, weeks and workers,  *)
(* under the assumption that a request is answered before the sweep that   *)
(* follows the close of its week.                                          *)
(*                                                                         *)
(* The argument: once a closed week has no request in flight and no        *)
(* unjudged comment, nothing about it can change, so whether a stream of   *)
(* it has a threshold of authors is decided for good.  A report shows only *)
(* streams that have one, a batch releases only comments of streams that   *)
(* have not.                                                               *)
(***************************************************************************)

(* Nothing can change any more in a settled week. *)
Settled(w) == w \in Weeks /\ w <= closed /\ Drained(w) /\ w \notin UnmoderatedWeeks

WeekView(w, s) == Slice(ReportComment, w, s)

Thin(w, s) == Cardinality(AuthorsOf(WeekView(w, s))) < Threshold

(* A comment the week read hides for good. *)
Hidden(c) ==
  c \in ReportComment /\ Settled(WeekOf[c]) /\ Thin(WeekOf[c], StreamOf[c])

PendingIsRecent == \A a \in Authors : \A c \in pending[a] : WeekOf[c] <= closed + 1

(* A comment whose text can no longer change. *)
Final(c) == WeekOf[c] <= closed /\ Drained(WeekOf[c])

SweepIsLate ==
  \A k \in Sweepers :
    /\ \A c \in queue[k] : Final(c)
    /\ \A q \in asking[k] : Final(q.comment) /\ q.of = text[q.comment]

VerdictsAreCurrent ==
  \A c \in Comments : \A v \in verdicts[c] :
    text[c] # 0 /\ Final(c) /\ v.of = text[c]

ReaderSeesSettled ==
  /\ reader.stage # "idle" => Settled(reader.week)
  /\ reader.stage = "counted" => ~ Thin(reader.week, reader.stream)

ShownIsWhole ==
  \A r \in shown : /\ Settled(r.week)
                   /\ ~ Thin(r.week, r.stream)
                   /\ r.cards = WeekView(r.week, r.stream)

ReleasedIsHidden == \A c \in Released : Hidden(c)

CutSeesSettled ==
  \A k \in Cutters :
    /\ \A w \in Weeks : w <= cut[k].now /\ w \notin cut[k].unmoderated => Settled(w)
    /\ \A c \in cut[k].answers : Hidden(c)

ReleaseInv ==
  /\ SweepInv
  /\ PendingIsRecent
  /\ SweepIsLate
  /\ VerdictsAreCurrent
  /\ ReaderSeesSettled
  /\ ShownIsWhole
  /\ ReleasedIsHidden
  /\ CutSeesSettled
  /\ ReadTextWasModerated

-----------------------------------------------------------------------------
(* What any step can do to the weeks that are closed. *)

StepEffects ==
  /\ closed <= closed' /\ closed' \in 0..LastWeek
  /\ \A a \in Authors : \A c \in pending'[a] : c \in pending[a] \/ WeekOf[c] = closed + 1
  /\ \A c \in Comments : text'[c] # text[c] => \E a \in Authors : c \in pending[a]
  /\ \A c \in Comments :
       verdicts'[c] # verdicts[c] => \E k \in Sweepers : \E q \in asking[k] : q.comment = c

LEMMA StepsHaveEffects ==
  ASSUME TypeOK, [Next]_vars
  PROVE  StepEffects
<1>1. closed \in Nat /\ LastWeek \in Nat
  BY CommentAssumption DEF TypeOK
<1>2. ASSUME NEW a \in Authors, Submitting(a)
      PROVE  StepEffects
  <2>1. closed' = closed /\ verdicts' = verdicts
    BY <1>2 DEF Submitting, BeginSubmission, StoreSubmission, RefuseSubmission, moderation
  <2>2. \A b \in Authors : \A c \in pending'[b] : c \in pending[b] \/ WeekOf[c] = closed + 1
    BY <1>2 DEF Submitting, BeginSubmission, StoreSubmission, RefuseSubmission, TypeOK
  <2>3. \A c \in Comments : text'[c] # text[c] => c \in pending[a]
    BY <1>2 DEF Submitting, BeginSubmission, StoreSubmission, RefuseSubmission
  <2>4. QED
    BY <1>1, <2>1, <2>2, <2>3 DEF StepEffects, TypeOK
<1>3. CASE CloseWeek
  BY <1>1, <1>3, CommentAssumption DEF CloseWeek, StepEffects, TypeOK, moderation
<1>4. ASSUME NEW k \in Sweepers, Sweeping(k)
      PROVE  StepEffects
  <2>1. UNCHANGED submission
    BY <1>4
    DEF Sweeping, StartSweep, AskModel, RouteVerdict, CountUnusableAnswer,
        LeaveForNextRun, EndSweep, SweeperDies
  <2>2. \A c \in Comments :
          verdicts'[c] # verdicts[c] => \E q \in asking[k] : q.comment = c
    BY <1>4
    DEF Sweeping, StartSweep, AskModel, RouteVerdict, CountUnusableAnswer,
        LeaveForNextRun, EndSweep, SweeperDies, TypeOK
  <2>3. QED
    BY <1>1, <2>1, <2>2 DEF StepEffects, submission, TypeOK
<1>5. CASE UNCHANGED <<submission, moderation>>
  BY <1>1, <1>5 DEF StepEffects, submission, moderation, TypeOK
<1>6. ASSUME NEW k \in Cutters, Cutting(k)
      PROVE  UNCHANGED <<submission, moderation>>
  BY <1>6 DEF Cutting, StartCut, ReadDue, ReadAnswers, CommitCut, CutterDies
<1>7. Reporting => UNCHANGED <<submission, moderation>>
  BY DEF Reporting, ReadModerated, ReadSuppressed, ReadCards, ReadReleased
<1>8. UNCHANGED vars => UNCHANGED <<submission, moderation>>
  BY DEF vars, submission, moderation
<1>9. QED
  BY <1>2, <1>3, <1>4, <1>5, <1>6, <1>7, <1>8 DEF Next

(* A final comment stays final and keeps its text. *)
LEMMA FinalStays ==
  ASSUME TypeOK, StepEffects, NEW c \in Comments, Final(c)
  PROVE  Final(c)' /\ text'[c] = text[c]
<1>1. closed \in Nat /\ closed' \in Nat /\ WeekOf[c] \in Nat
  BY CommentAssumption DEF TypeOK, StepEffects
<1>2. \A a \in Authors : c \notin pending[a]
  BY DEF Final, Drained
<1>3. \A a \in Authors : \A d \in pending'[a] : WeekOf[d] # WeekOf[c]
  BY <1>1 DEF Final, Drained, StepEffects
<1>4. QED
  BY <1>1, <1>2, <1>3 DEF Final, Drained, StepEffects

(* No text and no verdict of a settled week can change. *)
LEMMA WeekIsFrozen ==
  ASSUME SweepInv, StepEffects, NEW c \in Comments, Settled(WeekOf[c])
  PROVE  text'[c] = text[c] /\ verdicts'[c] = verdicts[c]
<1>1. text'[c] = text[c]
  BY FinalStays DEF SweepInv, Settled, Final
<1>2. ASSUME NEW k \in Sweepers, NEW q \in asking[k], q.comment = c
      PROVE  FALSE
  <2>1. Askable(c)
    BY <1>2 DEF SweepInv, AskedIsAskable
  <2>2. WeekOf[c] \in UnmoderatedWeeks
    BY <2>1 DEF UnmoderatedWeeks, Answered, Askable
  <2>3. QED
    BY <2>2 DEF Settled
<1>3. QED
  BY <1>1, <1>2 DEF StepEffects

LEMMA SettledStays ==
  ASSUME SweepInv, StepEffects, NEW w, Settled(w)
  PROVE  Settled(w)'
<1>1. closed \in Nat /\ closed' \in Nat /\ w \in Nat /\ w <= closed'
  BY CommentAssumption DEF SweepInv, TypeOK, StepEffects, Settled, Weeks
<1>2. Drained(w)'
  BY <1>1 DEF Settled, Drained, StepEffects
<1>3. ASSUME NEW d \in Comments, WeekOf[d] = w, text'[d] # 0, verdicts'[d] = {}
      PROVE  FALSE
  <2>1. text[d] # 0 /\ verdicts[d] = {}
    BY <1>3, WeekIsFrozen
  <2>2. w \in UnmoderatedWeeks
    BY <1>3, <2>1 DEF UnmoderatedWeeks, Answered, HoldsNoVerdict
  <2>3. QED
    BY <2>2 DEF Settled
<1>4. (w \notin UnmoderatedWeeks)'
  BY <1>3 DEF UnmoderatedWeeks, Answered, HoldsNoVerdict
<1>5. QED
  BY <1>1, <1>2, <1>4 DEF Settled

LEMMA ViewStays ==
  ASSUME SweepInv, StepEffects, NEW w, NEW s, Settled(w)
  PROVE  WeekView(w, s)' = WeekView(w, s) /\ Thin(w, s)' = Thin(w, s)
<1>1. \A c \in Comments : WeekOf[c] = w => (c \in ReportComment' <=> c \in ReportComment)
  BY WeekIsFrozen DEF ReportComment, Answered, HoldsNoVerdict
<1>2. ReportComment \subseteq Comments /\ ReportComment' \subseteq Comments
  BY DEF ReportComment, Answered
<1>3. WeekView(w, s)' = WeekView(w, s)
  BY <1>1, <1>2 DEF WeekView, Slice
<1>4. QED
  BY <1>3 DEF Thin, AuthorsOf

LEMMA HiddenStays ==
  ASSUME SweepInv, StepEffects, NEW c, Hidden(c)
  PROVE  Hidden(c)'
<1>1. c \in Comments
  BY DEF Hidden, ReportComment, Answered
<1>2. c \in ReportComment'
  BY <1>1, WeekIsFrozen DEF Hidden, ReportComment, Answered, HoldsNoVerdict
<1>3. QED
  BY <1>1, <1>2, SettledStays, ViewStays DEF Hidden

-----------------------------------------------------------------------------
(* The first half of the steps: submission and moderation. *)

LEMMA PendingStaysRecent ==
  ASSUME SweepInv, PendingIsRecent, StepEffects
  PROVE  PendingIsRecent'
<1>1. \A c \in Comments : WeekOf[c] \in Nat
  BY CommentAssumption
<1>2. /\ closed \in Nat /\ closed' \in Nat
      /\ pending \in [Authors -> SUBSET Comments]
  BY CommentAssumption DEF SweepInv, TypeOK, StepEffects
<1>3. closed \in Nat /\ closed' \in Nat /\ closed <= closed'
  BY <1>2 DEF StepEffects
<1>4. closed + 1 <= closed' + 1
  <2>1. \A m, n \in Nat : m <= n => m + 1 <= n + 1
    OBVIOUS
  <2>2. QED
    BY <1>3, <2>1
<1>5. ASSUME NEW a \in Authors, NEW c \in pending'[a]
      PROVE  WeekOf[c] <= closed' + 1
  <2>1. c \in pending[a] \/ WeekOf[c] = closed + 1
    BY <1>5 DEF StepEffects
  <2>2. CASE c \in pending[a]
    <3>1. c \in Comments /\ WeekOf[c] <= closed + 1
      BY <1>2, <2>2 DEF PendingIsRecent
    <3>2. WeekOf[c] \in Nat
      BY <1>1, <3>1
    <3>3. QED
      BY <1>3, <3>1, <3>2
  <2>3. CASE WeekOf[c] = closed + 1
    BY <1>4, <2>3
  <2>4. QED
    BY <2>1, <2>2, <2>3
<1>6. QED
  BY <1>5 DEF PendingIsRecent

(* What the sweep does to its own lists. *)
LEMMA SweepStaysLate ==
  ASSUME InFlightDrains, SweepInv, StepEffects, SweepIsLate, [Next]_vars
  PROVE  SweepIsLate'
<1> USE DEF SweepInv
<1>1. \A k \in Sweepers : \A c \in queue[k] : c \in Comments /\ Final(c)'
  BY FinalStays DEF SweepIsLate, TypeOK
<1>2. \A k \in Sweepers : \A q \in asking[k] :
        q.comment \in Comments /\ Final(q.comment)' /\ q.of = text'[q.comment]
  BY FinalStays DEF SweepIsLate, TypeOK
<1>3. ASSUME NEW k \in Sweepers, Sweeping(k)
      PROVE  SweepIsLate'
  <2>1. CASE StartSweep(k)
    <3>1. \A c \in AwaitingModeration : c \in Comments /\ Final(c)
      BY <2>1, CommentAssumption
      DEF StartSweep, Settling, AwaitingModeration, Answered, Final, TypeOK
    <3>2. \A c \in AwaitingModeration : Final(c)'
      BY <3>1, FinalStays
    <3>3. queue' = [queue EXCEPT ![k] = AwaitingModeration] /\ asking' = asking
      BY <2>1 DEF StartSweep
    <3>4. QED
      BY <1>1, <1>2, <3>2, <3>3 DEF SweepIsLate, TypeOK
  <2>2. ASSUME NEW c \in Comments, AskModel(k, c)
        PROVE  SweepIsLate'
    <3>1. /\ asking' = [asking EXCEPT ![k] = {[comment |-> c, of |-> text[c]]}]
          /\ queue' = [queue EXCEPT ![k] = queue[k] \ {c}]
          /\ c \in queue[k] /\ text' = text
      BY <2>2 DEF AskModel, submission
    <3>2. QED
      BY <1>1, <1>2, <3>1 DEF SweepIsLate, TypeOK
  <2>3. CASE /\ \A j \in Sweepers : queue'[j] \subseteq queue[j]
             /\ \A j \in Sweepers : asking'[j] \subseteq asking[j]
    BY <1>1, <1>2, <2>3 DEF SweepIsLate
  <2>4. QED
    BY <1>3, <2>1, <2>2, <2>3
    DEF Sweeping, RouteVerdict, CountUnusableAnswer, LeaveForNextRun, EndSweep,
        SweeperDies, TypeOK
<1>4. CASE UNCHANGED <<queue, asking>>
  BY <1>1, <1>2, <1>4 DEF SweepIsLate
<1>5. QED
  BY <1>3, <1>4
  DEF Next, vars, CloseWeek, Submitting, BeginSubmission, StoreSubmission, RefuseSubmission,
      Cutting, StartCut, ReadDue, ReadAnswers, CommitCut, CutterDies, Reporting,
      ReadModerated, ReadSuppressed, ReadCards, ReadReleased, moderation

LEMMA VerdictsStayCurrent ==
  ASSUME SweepInv, StepEffects, SweepIsLate, VerdictsAreCurrent, [Next]_vars
  PROVE  VerdictsAreCurrent'
<1> USE DEF SweepInv
<1>1. ASSUME NEW c \in Comments, NEW v \in verdicts[c]
      PROVE  (text[c] # 0 /\ Final(c) /\ v.of = text[c])'
  BY <1>1, FinalStays DEF VerdictsAreCurrent
<1>2. ASSUME NEW k \in Sweepers, NEW kind \in Kinds, RouteVerdict(k, kind)
      PROVE  VerdictsAreCurrent'
  <2>1. PICK q \in asking[k] :
          verdicts' = [verdicts EXCEPT ![q.comment] = @ \cup {[kind |-> kind, of |-> q.of]}]
    BY <1>2 DEF RouteVerdict
  <2>2. q.comment \in Comments /\ Final(q.comment) /\ q.of = text[q.comment] /\ text[q.comment] # 0
    BY DEF SweepIsLate, AskedIsAskable, Askable, TypeOK
  <2>3. Final(q.comment)' /\ q.of = text'[q.comment] /\ text'[q.comment] # 0
    BY <2>2, FinalStays
  <2>4. \A c \in Comments : \A v \in verdicts'[c] :
          v \in verdicts[c] \/ (c = q.comment /\ v.of = q.of)
    BY <2>1 DEF TypeOK
  <2>5. QED
    BY <1>1, <2>3, <2>4 DEF VerdictsAreCurrent
<1>3. CASE verdicts' = verdicts
  BY <1>1, <1>3 DEF VerdictsAreCurrent
<1>4. QED
  BY <1>2, <1>3
  DEF Next, vars, CloseWeek, Submitting, BeginSubmission, StoreSubmission, RefuseSubmission,
      Sweeping, StartSweep, AskModel, CountUnusableAnswer, LeaveForNextRun, EndSweep,
      SweeperDies, Cutting, StartCut, ReadDue, ReadAnswers, CommitCut, CutterDies,
      Reporting, ReadModerated, ReadSuppressed, ReadCards, ReadReleased, moderation

-----------------------------------------------------------------------------
(* The second half: the report and the cut. *)

Unreleased(w, s) == {c \in WeekView(w, s) : InNoBatch(c)}

LEMMA ViewIsComments ==
  ASSUME NEW w, NEW s
  PROVE  WeekView(w, s) \in SUBSET Comments /\ Unreleased(w, s) \in SUBSET WeekView(w, s)
BY DEF WeekView, Unreleased, Slice, ReportComment, Answered

(* Nothing of a stream that has its threshold was ever released. *)
LEMMA FullViewIsUnreleased ==
  ASSUME ReleasedIsHidden, NEW w, NEW s, ~ Thin(w, s)
  PROVE  Unreleased(w, s) = WeekView(w, s)
<1>1. ASSUME NEW c \in WeekView(w, s), c \in Released
      PROVE  FALSE
  BY <1>1 DEF ReleasedIsHidden, Hidden, WeekView, Slice
<1>2. QED
  BY <1>1 DEF Unreleased, InNoBatch

(* A stream with too few unreleased authors has too few authors. *)
LEMMA FewUnreleasedIsThin ==
  ASSUME ReleasedIsHidden, NEW w, NEW s, Commenters(w, s) < Threshold
  PROVE  Thin(w, s)
<1>1. SUFFICES ASSUME ~ Thin(w, s) PROVE FALSE
  OBVIOUS
<1>2. Unreleased(w, s) = WeekView(w, s)
  BY <1>1, FullViewIsUnreleased
<1>3. Commenters(w, s) = Cardinality(AuthorsOf(WeekView(w, s)))
  BY <1>2 DEF Commenters, Unreleased, WeekView
<1>4. QED
  BY <1>1, <1>3 DEF Thin

LEMMA EnoughUnreleasedIsFull ==
  ASSUME NEW w, NEW s, ~ (Commenters(w, s) < Threshold)
  PROVE  ~ Thin(w, s)
<1>1. Cardinality(AuthorsOf(Unreleased(w, s))) <= Cardinality(AuthorsOf(WeekView(w, s)))
  BY ViewIsComments, AuthorsGrow
<1>2. /\ Cardinality(AuthorsOf(Unreleased(w, s))) \in Nat
      /\ Cardinality(AuthorsOf(WeekView(w, s))) \in Nat
  BY ViewIsComments, AuthorsAreCounted
<1>3. Commenters(w, s) = Cardinality(AuthorsOf(Unreleased(w, s)))
  BY DEF Commenters, Unreleased, WeekView
<1>4. QED
  BY <1>1, <1>2, <1>3, BoundAssumption DEF Thin

LEMMA ReaderStaysSettled ==
  ASSUME InFlightDrains, SweepInv, StepEffects, ReaderSeesSettled, [Next]_vars
  PROVE  ReaderSeesSettled'
<1>1. CASE reader' = reader
  BY <1>1, SettledStays, ViewStays DEF ReaderSeesSettled
<1>2. CASE reader' = NoReader
  BY <1>2 DEF ReaderSeesSettled, NoReader
<1>3. ASSUME NEW w \in Weeks, NEW s \in Streams, ReadModerated(w, s)
      PROVE  ReaderSeesSettled'
  <2>1. Settled(w) /\ reader' = [stage |-> "moderated", week |-> w, stream |-> s]
    BY <1>3 DEF ReadModerated, Settled
  <2>2. QED
    BY <2>1, SettledStays DEF ReaderSeesSettled
<1>4. CASE ReadSuppressed
  <2>1. reader \in Reader /\ reader.stage = "moderated"
    BY <1>4 DEF SweepInv, TypeOK, ReadSuppressed
  <2>2. CASE Commenters(reader.week, reader.stream) < Threshold
    BY <1>2, <1>4, <2>2 DEF ReadSuppressed
  <2>3. CASE ~ (Commenters(reader.week, reader.stream) < Threshold)
    <3> DEFINE counted == [reader EXCEPT !.stage = "counted"]
    <3>1. /\ counted.stage = "counted"
          /\ counted.week = reader.week /\ counted.stream = reader.stream
      BY <2>1 DEF Reader
    <3>2. reader' = counted
      BY <1>4, <2>3 DEF ReadSuppressed
    <3> HIDE DEF counted
    <3>3. Settled(reader.week) /\ ~ Thin(reader.week, reader.stream)
      BY <2>1, <2>3, EnoughUnreleasedIsFull DEF ReaderSeesSettled
    <3>4. QED
      BY <3>1, <3>2, <3>3, SettledStays, ViewStays DEF ReaderSeesSettled
  <2>4. QED
    BY <2>2, <2>3
<1>5. QED
  BY <1>1, <1>2, <1>3, <1>4
  DEF Next, vars, CloseWeek, Submitting, BeginSubmission, StoreSubmission, RefuseSubmission,
      Sweeping, StartSweep, AskModel, RouteVerdict, CountUnusableAnswer, LeaveForNextRun,
      EndSweep, SweeperDies, Cutting, StartCut, ReadDue, ReadAnswers, CommitCut, CutterDies,
      Reporting, ReadCards, ReadReleased, reading

LEMMA ShownStaysWhole ==
  ASSUME SweepInv, StepEffects, ReaderSeesSettled, ReleasedIsHidden, ShownIsWhole,
         [Next]_vars
  PROVE  ShownIsWhole'
<1>1. ASSUME NEW r \in shown
      PROVE  (/\ Settled(r.week)
              /\ ~ Thin(r.week, r.stream)
              /\ r.cards = WeekView(r.week, r.stream))'
  BY <1>1, SettledStays, ViewStays DEF ShownIsWhole
<1>2. CASE ReadCards
  <2>1. PICK w, s : w = reader.week /\ s = reader.stream
    OBVIOUS
  <2> DEFINE r == [week |-> w, stream |-> s, cards |-> Unreleased(w, s)]
  <2>2. shown' = shown \/ shown' = shown \cup {r}
    BY <1>2, <2>1 DEF ReadCards, Unreleased, WeekView
  <2>3. Settled(w) /\ ~ Thin(w, s) /\ Unreleased(w, s) = WeekView(w, s)
    BY <1>2, <2>1, FullViewIsUnreleased DEF ReadCards, ReaderSeesSettled
  <2>4. /\ Settled(w)' /\ ~ Thin(w, s)'
        /\ Unreleased(w, s) = WeekView(w, s)'
    BY <2>3, SettledStays, ViewStays
  <2>5. QED
    BY <1>1, <2>2, <2>4 DEF ShownIsWhole
<1>3. CASE shown' = shown
  BY <1>1, <1>3 DEF ShownIsWhole
<1>4. QED
  BY <1>2, <1>3
  DEF Next, vars, CloseWeek, Submitting, BeginSubmission, StoreSubmission, RefuseSubmission,
      Sweeping, StartSweep, AskModel, RouteVerdict, CountUnusableAnswer, LeaveForNextRun,
      EndSweep, SweeperDies, Cutting, StartCut, ReadDue, ReadAnswers, CommitCut, CutterDies,
      Reporting, ReadModerated, ReadSuppressed, ReadReleased, reading

(* What the cut holds is hidden in its week for good. *)
LEMMA HeldIsHidden ==
  ASSUME ReleasedIsHidden, CutSeesSettled, NEW k \in Cutters,
         NEW c \in Held(cut[k].now, cut[k].unmoderated)
  PROVE  Hidden(c)
<1>1. c \in ReportComment /\ WeekOf[c] \in Weeks
  BY CommentAssumption DEF Held, ReportComment, Answered, Weeks
<1>2. Settled(WeekOf[c])
  BY <1>1 DEF CutSeesSettled, Held
<1>3. Thin(WeekOf[c], StreamOf[c])
  BY FewUnreleasedIsThin DEF Held
<1>4. QED
  BY <1>1, <1>2, <1>3 DEF Hidden

LEMMA CutStaysSettled ==
  ASSUME InFlightDrains, SweepInv, StepEffects, ReleasedIsHidden, CutSeesSettled,
         [Next]_vars
  PROVE  CutSeesSettled'
<1> USE DEF SweepInv
<1> DEFINE Good(j) ==
      /\ \A w \in Weeks : w <= cut[j].now /\ w \notin cut[j].unmoderated => Settled(w)
      /\ \A c \in cut[j].answers : Hidden(c)
<1>1. ASSUME NEW j \in Cutters, cut'[j] = cut[j]
      PROVE  Good(j)'
  BY <1>1, SettledStays, HiddenStays DEF CutSeesSettled
<1>2. ASSUME NEW j \in Cutters, cut'[j] = NoCut
      PROVE  Good(j)'
  BY <1>2 DEF NoCut, Weeks
<1>3. ASSUME NEW k \in Cutters, StartCut(k)
      PROVE  Good(k)'
  <2>1. cut'[k] = [NoCut EXCEPT !.stage = "moderation read", !.now = closed,
                                !.unmoderated = UnmoderatedWeeks]
    BY <1>3 DEF StartCut, TypeOK
  <2>2. /\ cut'[k].now = closed /\ cut'[k].unmoderated = UnmoderatedWeeks
        /\ cut'[k].answers = {}
    BY <2>1 DEF NoCut
  <2>3. \A w \in Weeks : w <= closed /\ w \notin UnmoderatedWeeks => Settled(w)
    BY <1>3, CommentAssumption DEF StartCut, Settling, Settled, Weeks, TypeOK
  <2>4. QED
    BY <2>2, <2>3, SettledStays
<1>4. ASSUME NEW k \in Cutters, ReadDue(k), cut'[k] # NoCut
      PROVE  Good(k)'
  <2>1. PICK due : cut'[k] = [cut[k] EXCEPT !.stage = "due read", !.due = due]
    BY <1>4 DEF ReadDue, TypeOK
  <2>2. cut[k] \in Cut
    BY DEF TypeOK
  <2>3. /\ cut'[k].now = cut[k].now /\ cut'[k].unmoderated = cut[k].unmoderated
        /\ cut'[k].answers = cut[k].answers
    BY <2>1, <2>2 DEF Cut
  <2>4. QED
    BY <2>3, SettledStays, HiddenStays DEF CutSeesSettled
<1>5. ASSUME NEW k \in Cutters, ReadAnswers(k)
      PROVE  Good(k)'
  <2>1. PICK A : A = {c \in Held(cut[k].now, cut[k].unmoderated) : StreamOf[c] \in cut[k].due}
    OBVIOUS
  <2>2. cut'[k] = [cut[k] EXCEPT !.stage = "answers read", !.answers = A]
    BY <1>5, <2>1 DEF ReadAnswers, TypeOK
  <2>3. cut[k] \in Cut
    BY DEF TypeOK
  <2>4. /\ cut'[k].now = cut[k].now /\ cut'[k].unmoderated = cut[k].unmoderated
        /\ cut'[k].answers = A
    BY <2>2, <2>3 DEF Cut
  <2>5. \A c \in A : Hidden(c)
    BY <2>1, HeldIsHidden
  <2>6. QED
    BY <2>4, <2>5, SettledStays, HiddenStays DEF CutSeesSettled
<1>6. ASSUME NEW k \in Cutters, Cutting(k), NEW j \in Cutters, j # k
      PROVE  cut'[j] = cut[j]
  BY <1>6 DEF Cutting, StartCut, ReadDue, ReadAnswers, CommitCut, CutterDies, TypeOK
<1>7. ASSUME NEW k \in Cutters, CommitCut(k) \/ CutterDies(k)
      PROVE  cut'[k] = NoCut
  BY <1>7 DEF CommitCut, CutterDies, TypeOK
<1>8. ASSUME NEW k \in Cutters, Cutting(k), NEW j \in Cutters
      PROVE  Good(j)'
  BY <1>1, <1>2, <1>3, <1>4, <1>5, <1>6, <1>7, <1>8 DEF Cutting
<1>9. CASE cut' = cut
  BY <1>1, <1>9 DEF CutSeesSettled
<1>10. QED
  BY <1>8, <1>9
  DEF CutSeesSettled, Next, vars, CloseWeek, Submitting, BeginSubmission, StoreSubmission,
      RefuseSubmission, Sweeping, StartSweep, AskModel, RouteVerdict, CountUnusableAnswer,
      LeaveForNextRun, EndSweep, SweeperDies, Reporting, ReadModerated, ReadSuppressed,
      ReadCards, ReadReleased, release

LEMMA ReleasedAfterAppend ==
  ASSUME TypeOK, NEW A, batches' = Append(batches, A)
  PROVE  Released' \subseteq Released \cup A
<1>1. batches \in Seq(SUBSET Comments)
  BY DEF TypeOK
<1>2. \A i \in DOMAIN batches' : batches'[i] = A \/ (i \in DOMAIN batches /\ batches'[i] = batches[i])
  BY <1>1
<1>3. QED
  BY <1>2 DEF Released

LEMMA ReleasedStaysHidden ==
  ASSUME SweepInv, StepEffects, ReleasedIsHidden, CutSeesSettled, [Next]_vars
  PROVE  ReleasedIsHidden'
<1>1. CASE batches' = batches
  BY <1>1, HiddenStays DEF ReleasedIsHidden, Released
<1>2. ASSUME NEW k \in Cutters, CommitCut(k), batches' # batches
      PROVE  ReleasedIsHidden'
  <2>1. PICK A : A = cut[k].answers
    OBVIOUS
  <2>2. batches' = Append(batches, A)
    BY <1>2, <2>1 DEF CommitCut
  <2>3. \A c \in A : Hidden(c)
    BY <2>1 DEF CutSeesSettled
  <2>4. Released' \subseteq Released \cup A
    BY <2>2, ReleasedAfterAppend DEF SweepInv
  <2>5. QED
    BY <2>3, <2>4, HiddenStays DEF ReleasedIsHidden
<1>3. QED
  BY <1>1, <1>2
  DEF Next, vars, CloseWeek, Submitting, BeginSubmission, StoreSubmission, RefuseSubmission,
      Sweeping, StartSweep, AskModel, RouteVerdict, CountUnusableAnswer, LeaveForNextRun,
      EndSweep, SweeperDies, Cutting, StartCut, ReadDue, ReadAnswers, CutterDies, Reporting,
      ReadModerated, ReadSuppressed, ReadCards, ReadReleased, release

(* What the view shows was judged once, readable, in its present words. *)
LEMMA ViewIsJudged ==
  ASSUME SweepInv, VerdictsAreCurrent, NEW c \in ReportComment
  PROVE  verdicts[c] = {[kind |-> "readable", of |-> text[c]]}
<1>1. c \in Comments /\ verdicts[c] # {} /\ \A v \in verdicts[c] : v.kind # "care"
  BY DEF ReportComment, Answered, HoldsNoVerdict
<1>2. verdicts[c] \in SUBSET Verdict /\ Cardinality(verdicts[c]) <= 1
  BY <1>1 DEF SweepInv, TypeOK, SettledOnce
<1>3. PICK v \in verdicts[c] : TRUE
  BY <1>1
<1>4. verdicts[c] = {v}
  <2>1. SUFFICES ASSUME NEW u \in verdicts[c], u # v PROVE FALSE
    BY <1>3
  <2>2. verdicts[c] \in SUBSET [kind : Kinds, of : {text[c]}]
    BY <1>1, <1>2 DEF VerdictsAreCurrent, Verdict
  <2>3. u.kind = "readable" /\ v.kind = "readable" /\ u.of = text[c] /\ v.of = text[c]
    BY <1>1, <2>2 DEF Kinds
  <2>4. QED
    BY <2>1, <2>2, <2>3
<1>5. v = [kind |-> "readable", of |-> text[c]]
  BY <1>1, <1>2, <1>3 DEF VerdictsAreCurrent, Verdict, Kinds
<1>6. QED
  BY <1>4, <1>5

LEMMA ReadTextStaysModerated ==
  ASSUME SweepInv, StepEffects, VerdictsAreCurrent, ReadTextWasModerated, [Next]_vars
  PROVE  ReadTextWasModerated'
<1>1. ASSUME NEW c \in Comments, verdicts[c] # {}
      PROVE  verdicts'[c] = verdicts[c]
  BY <1>1 DEF StepEffects, SweepInv, AskedIsAskable, Askable, HoldsNoVerdict
<1>2. ASSUME NEW r \in readTexts
      PROVE  verdicts'[r[1]] = {[kind |-> "readable", of |-> r[2]]}
  <2>1. r[1] \in Comments
    BY DEF SweepInv, TypeOK
  <2>2. verdicts[r[1]] = {[kind |-> "readable", of |-> r[2]]}
    BY DEF ReadTextWasModerated
  <2>3. QED
    BY <1>1, <2>1, <2>2
<1>3. CASE readTexts' = readTexts
  BY <1>2, <1>3 DEF ReadTextWasModerated
<1>4. ASSUME NEW S \in SUBSET ReportComment,
             readTexts' = readTexts \cup {<<c, text[c]>> : c \in S},
             UNCHANGED <<text, verdicts>>
      PROVE  ReadTextWasModerated'
  BY <1>2, <1>4, ViewIsJudged DEF ReadTextWasModerated
<1>5. CASE ReadCards
  <2> DEFINE S == {c \in Slice(ReportComment, reader.week, reader.stream) : InNoBatch(c)}
  <2>1. S \in SUBSET ReportComment
    BY DEF Slice
  <2>2. readTexts' = readTexts \cup {<<c, text[c]>> : c \in S} /\ UNCHANGED <<text, verdicts>>
    BY <1>5 DEF ReadCards, submission, moderation
  <2>3. QED
    BY <1>4, <2>1, <2>2
<1>6. CASE ReadReleased
  BY <1>4, <1>6 DEF ReadReleased, submission, moderation
<1>7. QED
  BY <1>3, <1>5, <1>6
  DEF Next, vars, CloseWeek, Submitting, BeginSubmission, StoreSubmission, RefuseSubmission,
      Sweeping, StartSweep, AskModel, RouteVerdict, CountUnusableAnswer, LeaveForNextRun,
      EndSweep, SweeperDies, Cutting, StartCut, ReadDue, ReadAnswers, CommitCut, CutterDies,
      Reporting, ReadModerated, ReadSuppressed, reading

-----------------------------------------------------------------------------
LEMMA ReleaseInit == Init => ReleaseInv
<1> SUFFICES ASSUME Init PROVE ReleaseInv
  OBVIOUS
<1>1. SweepInv
  BY SweepInit
<1>2. Released = {}
  BY DEF Init, Released
<1>3. QED
  BY <1>1, <1>2
  DEF Init, ReleaseInv, PendingIsRecent, SweepIsLate, VerdictsAreCurrent, ReaderSeesSettled,
      ShownIsWhole, ReleasedIsHidden, CutSeesSettled, ReadTextWasModerated, NoReader, NoCut,
      Weeks

LEMMA NextKeepsReleaseInv ==
  ASSUME InFlightDrains
  PROVE  ReleaseInv /\ [Next]_vars => ReleaseInv'
<1> SUFFICES ASSUME ReleaseInv, [Next]_vars PROVE ReleaseInv'
  OBVIOUS
<1>1. SweepInv' /\ StepEffects
  BY NextKeepsSweepInv, StepsHaveEffects DEF ReleaseInv, SweepInv
<1>2. QED
  BY <1>1, PendingStaysRecent, SweepStaysLate, VerdictsStayCurrent, ReaderStaysSettled,
     ShownStaysWhole, ReleasedStaysHidden, CutStaysSettled, ReadTextStaysModerated
  DEF ReleaseInv

LEMMA ReleaseInvHolds ==
  ASSUME InFlightDrains
  PROVE  Spec => []ReleaseInv
BY ReleaseInit, NextKeepsReleaseInv, PTL DEF Spec

(* A comment shown under its week is never released in a batch, and one    *)
(* released in a batch is never shown under its week.                      *)
THEOREM ShownIsNeverReleased ==
  ASSUME InFlightDrains
  PROVE  Spec => []NeverShownTwice
<1>1. ReleaseInv => NeverShownTwice
  <2>1. SUFFICES ASSUME ReleaseInv,
                        \E r \in shown : \E c \in r.cards : c \in Released
                 PROVE  FALSE
    BY DEF NeverShownTwice
  <2> PICK r \in shown : \E c \in r.cards : c \in Released
    BY <2>1
  <2> PICK c \in r.cards : c \in Released
    OBVIOUS
  <2>2. Thin(WeekOf[c], StreamOf[c])
    BY <2>1 DEF ReleaseInv, ReleasedIsHidden, Hidden
  <2>3. WeekOf[c] = r.week /\ StreamOf[c] = r.stream /\ ~ Thin(r.week, r.stream)
    BY <2>1 DEF ReleaseInv, ShownIsWhole, WeekView, Slice
  <2>4. QED
    BY <2>2, <2>3
<1>2. QED
  BY <1>1, ReleaseInvHolds, PTL

(* Each report of a stream of a week carries the same whole set of         *)
(* comments, by a threshold of people or more.                             *)
THEOREM WeeksAreShownWhole ==
  ASSUME InFlightDrains
  PROVE  Spec => []NoPartialWeek
<1>1. ReleaseInv => NoPartialWeek
  <2>1. SUFFICES ASSUME ReleaseInv, NEW r \in shown
                 PROVE  /\ Cardinality(AuthorsOf(r.cards)) >= Threshold
                        /\ \A q \in shown : q.week = r.week /\ q.stream = r.stream =>
                                              q.cards = r.cards
    BY DEF NoPartialWeek
  <2>2. ~ Thin(r.week, r.stream) /\ r.cards = WeekView(r.week, r.stream)
    BY <2>1 DEF ReleaseInv, ShownIsWhole
  <2>3. Cardinality(AuthorsOf(r.cards)) \in Nat
    BY <2>2, ViewIsComments, AuthorsAreCounted
  <2>4. Cardinality(AuthorsOf(r.cards)) >= Threshold
    BY <2>2, <2>3, BoundAssumption DEF Thin
  <2>5. QED
    BY <2>1, <2>2, <2>4 DEF ReleaseInv, ShownIsWhole
<1>2. QED
  BY <1>1, ReleaseInvHolds, PTL

(* No report, by week or by batch, carried words that were not judged, nor *)
(* a comment judged a threat or self-harm.                                 *)
THEOREM ReadersSeeModeratedText ==
  ASSUME InFlightDrains
  PROVE  Spec => []ReadTextWasModerated
BY ReleaseInvHolds, PTL DEF ReleaseInv

-----------------------------------------------------------------------------
(* Batches. *)

BatchesChangeOnCommit ==
  batches' # batches =>
    \E k \in Cutters : /\ CommitCut(k)
                       /\ batches' = Append(batches, cut[k].answers)
                       /\ \A c \in cut[k].answers : InNoBatch(c)

LEMMA OnlyCommitsChangeBatches ==
  ASSUME [Next]_vars
  PROVE  BatchesChangeOnCommit
<1>1. ASSUME NEW k \in Cutters, CommitCut(k), batches' # batches
      PROVE  /\ batches' = Append(batches, cut[k].answers)
             /\ \A c \in cut[k].answers : InNoBatch(c)
  BY <1>1 DEF CommitCut, BatchIsWritable
<1>2. batches' # batches => \E k \in Cutters : CommitCut(k)
  BY DEF Next, vars, CloseWeek, Submitting, BeginSubmission, StoreSubmission, RefuseSubmission,
      Sweeping, StartSweep, AskModel, RouteVerdict, CountUnusableAnswer, LeaveForNextRun,
      EndSweep, SweeperDies, Cutting, StartCut, ReadDue, ReadAnswers, CutterDies, Reporting,
      ReadModerated, ReadSuppressed, ReadCards, ReadReleased, release
<1>3. QED
  BY <1>1, <1>2 DEF BatchesChangeOnCommit

LEMMA AppendedBatch ==
  ASSUME TypeOK, NEW A, batches' = Append(batches, A), NEW i \in DOMAIN batches'
  PROVE  \/ i \in DOMAIN batches /\ batches'[i] = batches[i]
         \/ i = Len(batches) + 1 /\ batches'[i] = A
<1>1. batches \in Seq(SUBSET Comments)
  BY DEF TypeOK
<1>2. QED
  BY <1>1

(* No comment is in two batches, however many runs of the cut overlap and  *)
(* whichever of them dies: the membership key refuses the second batch.    *)
THEOREM NothingIsReleasedTwice == Spec => []ReleasedOnce
<1>1. Init => ReleasedOnce
  BY DEF Init, ReleasedOnce
<1>2. SweepInv /\ ReleasedOnce /\ [Next]_vars => ReleasedOnce'
  <2>1. SUFFICES ASSUME SweepInv, ReleasedOnce, [Next]_vars, batches' # batches
                 PROVE  ReleasedOnce'
    BY DEF ReleasedOnce
  <2>2. PICK k \in Cutters : /\ batches' = Append(batches, cut[k].answers)
                             /\ \A c \in cut[k].answers : InNoBatch(c)
    BY <2>1, OnlyCommitsChangeBatches DEF BatchesChangeOnCommit
  <2>3. PICK A : A = cut[k].answers
    OBVIOUS
  <2>4. TypeOK /\ batches' = Append(batches, A)
    BY <2>1, <2>2, <2>3 DEF SweepInv
  <2>5. \A i \in DOMAIN batches' :
          \/ i \in DOMAIN batches /\ batches'[i] = batches[i]
          \/ i = Len(batches) + 1 /\ batches'[i] = A
    BY <2>4, AppendedBatch
  <2>6. \A i \in DOMAIN batches : A \cap batches[i] = {}
    BY <2>2, <2>3 DEF InNoBatch, Released
  <2>7. QED
    BY <2>1, <2>5, <2>6 DEF ReleasedOnce
<1>3. QED
  BY <1>1, <1>2, SweepInvHolds, PTL DEF Spec

HidesItsAuthors(S) == EnoughRespondents(S) /\ SpansEnoughWeeks(S)

(* What one run of the cut has read stands on a threshold of authors. *)
CutIsExact ==
  \A k \in Cutters :
    /\ cut[k].stage = "due read" =>
         \A s \in cut[k].due :
           HidesItsAuthors(HeldIn(Held(cut[k].now, cut[k].unmoderated), s))
    /\ cut[k].stage = "answers read" =>
         \A s \in Streams :
           HeldIn(cut[k].answers, s) # {} => HidesItsAuthors(HeldIn(cut[k].answers, s))

(* The held set of settled weeks only changes when a batch is written. *)
LEMMA HeldStays ==
  ASSUME SweepInv, StepEffects, batches' = batches, NEW now, NEW U,
         \A w \in Weeks : w <= now /\ w \notin U => Settled(w)
  PROVE  Held(now, U)' = Held(now, U)
<1>1. \A c \in Comments : WeekOf[c] \in Weeks
  BY CommentAssumption DEF Weeks
<1>2. ReportComment \subseteq Comments /\ ReportComment' \subseteq Comments
  BY DEF ReportComment, Answered
<1>3. \A c \in Comments : InNoBatch(c)' <=> InNoBatch(c)
  BY DEF InNoBatch, Released
<1>4. ASSUME NEW w \in Weeks, NEW s, w <= now, w \notin U
      PROVE  WeekView(w, s)' = WeekView(w, s) /\ Commenters(w, s)' = Commenters(w, s)
  <2>1. WeekView(w, s)' = WeekView(w, s)
    BY <1>4, ViewStays
  <2>2. {c \in WeekView(w, s) : InNoBatch(c)}' = {c \in WeekView(w, s) : InNoBatch(c)}
    BY <2>1, <1>3 DEF WeekView, Slice, ReportComment, Answered, InNoBatch, Released
  <2>3. QED
    BY <2>1, <2>2 DEF Commenters, WeekView, AuthorsOf
<1>5. ASSUME NEW c \in Comments, WeekOf[c] <= now, WeekOf[c] \notin U
      PROVE  c \in ReportComment' <=> c \in ReportComment
  BY <1>1, <1>4, <1>5 DEF WeekView, Slice
<1>6. ASSUME NEW c \in Comments
      PROVE  c \in Held(now, U)' <=> c \in Held(now, U)
  BY <1>1, <1>3, <1>4, <1>5 DEF Held
<1>7. QED
  BY <1>2, <1>6 DEF Held

OneCutter == \A j, k \in Cutters : j = k

LEMMA CutStaysExact ==
  ASSUME OneCutter, ReleaseInv, StepEffects, CutIsExact, [Next]_vars
  PROVE  CutIsExact'
<1> DEFINE Good(j) ==
      /\ cut[j].stage = "due read" =>
           \A s \in cut[j].due :
             HidesItsAuthors(HeldIn(Held(cut[j].now, cut[j].unmoderated), s))
      /\ cut[j].stage = "answers read" =>
           \A s \in Streams :
             HeldIn(cut[j].answers, s) # {} => HidesItsAuthors(HeldIn(cut[j].answers, s))
<1>1. ASSUME NEW j \in Cutters, batches' = batches, NEW now, NEW U,
             now = cut[j].now, U = cut[j].unmoderated
      PROVE  Held(now, U)' = Held(now, U)
  BY <1>1, HeldStays DEF ReleaseInv, CutSeesSettled
<1>2. ASSUME NEW j \in Cutters, cut'[j] = cut[j], batches' = batches
      PROVE  Good(j)'
  <2>1. PICK now, U : now = cut[j].now /\ U = cut[j].unmoderated
    OBVIOUS
  <2>2. Held(now, U)' = Held(now, U)
    BY <1>1, <1>2, <2>1
  <2>3. Good(j)
    BY DEF CutIsExact
  <2>4. QED
    BY <1>2, <2>1, <2>2, <2>3 DEF HeldIn, HidesItsAuthors, EnoughRespondents, AuthorsOf, SpansEnoughWeeks
<1>3. ASSUME NEW k \in Cutters, Cutting(k)
      PROVE  Good(k)'
  <2>1. cut \in [Cutters -> Cut] /\ cut[k] \in Cut
    BY DEF ReleaseInv, SweepInv, TypeOK
  <2>2. CASE cut'[k] = NoCut \/ cut'[k].stage = "moderation read"
    <3> DEFINE stage == cut'[k].stage
    <3>1. NoCut.stage = "idle"
      BY DEF NoCut
    <3>2. stage = "idle" \/ stage = "moderation read"
      BY <2>2, <3>1
    <3> HIDE DEF stage
    <3>3. stage # "due read" /\ stage # "answers read"
      BY <3>2
    <3>4. QED
      BY <3>3 DEF stage
  <2>3. CASE ReadDue(k) /\ cut'[k] # NoCut
    <3>1. PICK now, U : now = cut[k].now /\ U = cut[k].unmoderated
      OBVIOUS
    <3>2. PICK due : due = Due(Held(now, U))
      OBVIOUS
    <3>3. cut'[k] = [cut[k] EXCEPT !.stage = "due read", !.due = due] /\ batches' = batches
      BY <2>1, <2>3, <3>1, <3>2 DEF ReadDue
    <3>4. /\ cut'[k].stage = "due read" /\ cut'[k].due = due
          /\ cut'[k].now = now /\ cut'[k].unmoderated = U
      BY <2>1, <3>1, <3>3 DEF Cut
    <3>5. \A s \in due : HidesItsAuthors(HeldIn(Held(now, U), s))
      BY <3>2 DEF Due, HidesItsAuthors
    <3>6. Held(now, U)' = Held(now, U)
      BY <1>1, <3>1, <3>3
    <3>7. QED
      BY <3>4, <3>5, <3>6
      DEF HeldIn, HidesItsAuthors, EnoughRespondents, AuthorsOf, SpansEnoughWeeks
  <2>4. CASE ReadAnswers(k)
    <3>1. PICK now, U : now = cut[k].now /\ U = cut[k].unmoderated
      OBVIOUS
    <3>2. PICK A : A = {c \in Held(now, U) : StreamOf[c] \in cut[k].due}
      OBVIOUS
    <3>3. cut'[k] = [cut[k] EXCEPT !.stage = "answers read", !.answers = A]
      BY <2>1, <2>4, <3>1, <3>2 DEF ReadAnswers
    <3>4. cut'[k].stage = "answers read" /\ cut'[k].answers = A
      BY <2>1, <3>3 DEF Cut
    <3>5. ASSUME NEW s \in Streams, HeldIn(A, s) # {}
          PROVE  HidesItsAuthors(HeldIn(A, s))
      <4>1. s \in cut[k].due
        BY <3>2, <3>5 DEF HeldIn
      <4>2. HeldIn(A, s) = HeldIn(Held(now, U), s)
        BY <3>2, <4>1 DEF HeldIn
      <4>3. HidesItsAuthors(HeldIn(Held(now, U), s))
        BY <2>4, <3>1, <4>1 DEF ReadAnswers, CutIsExact
      <4>4. QED
        BY <4>2, <4>3
    <3>6. QED
      BY <3>4, <3>5
      DEF HeldIn, HidesItsAuthors, EnoughRespondents, AuthorsOf, SpansEnoughWeeks
  <2>5. QED
    BY <1>3, <2>1, <2>2, <2>3, <2>4
    DEF Cutting, StartCut, CommitCut, CutterDies, ReadDue, NoCut
<1>4. ASSUME NEW k \in Cutters, Cutting(k), NEW j \in Cutters
      PROVE  Good(j)'
  BY <1>3, <1>4 DEF OneCutter
<1>5. CASE UNCHANGED <<cut, batches>>
  BY <1>2, <1>5 DEF CutIsExact
<1>6. QED
  BY <1>4, <1>5
  DEF CutIsExact, Next, vars, CloseWeek, Submitting, BeginSubmission, StoreSubmission,
      RefuseSubmission, Sweeping, StartSweep, AskModel, RouteVerdict, CountUnusableAnswer,
      LeaveForNextRun, EndSweep, SweeperDies, Reporting, ReadModerated, ReadSuppressed,
      ReadCards, ReadReleased, release

(* With one run of the cut at a time, each stream's slice of every batch   *)
(* stands on a threshold of its own authors and on two weeks.  Two runs    *)
(* that overlap can break it.                                              *)
THEOREM BatchesHideTheirAuthors ==
  ASSUME InFlightDrains, OneCutter
  PROVE  Spec => []BatchHidesItsAuthors
<1> DEFINE BatchInv == ReleaseInv /\ CutIsExact /\ BatchHidesItsAuthors
<1>1. Init => BatchInv
  <2>1. SUFFICES ASSUME Init PROVE BatchInv
    OBVIOUS
  <2>2. \A k \in Cutters : cut[k].stage = "idle"
    BY <2>1 DEF Init, NoCut
  <2>3. CutIsExact
    BY <2>2 DEF CutIsExact
  <2>4. BatchHidesItsAuthors
    BY <2>1 DEF Init, BatchHidesItsAuthors
  <2>5. QED
    BY <2>1, <2>3, <2>4, ReleaseInit
<1>2. BatchInv /\ [Next]_vars => BatchInv'
  <2>1. SUFFICES ASSUME BatchInv, [Next]_vars PROVE BatchInv'
    OBVIOUS
  <2>2. StepEffects /\ ReleaseInv'
    BY <2>1, StepsHaveEffects, NextKeepsReleaseInv DEF ReleaseInv, SweepInv
  <2>3. CutIsExact'
    BY <2>1, <2>2, CutStaysExact
  <2>4. CASE batches' = batches
    BY <2>1, <2>2, <2>3, <2>4
    DEF BatchHidesItsAuthors, HeldIn, EnoughRespondents, AuthorsOf, SpansEnoughWeeks
  <2>5. CASE batches' # batches
    <3>1. PICK k \in Cutters : CommitCut(k) /\ batches' = Append(batches, cut[k].answers)
      BY <2>1, <2>5, OnlyCommitsChangeBatches DEF BatchesChangeOnCommit
    <3>2. PICK A : A = cut[k].answers
      OBVIOUS
    <3>3. TypeOK /\ batches' = Append(batches, A)
      BY <2>1, <3>1, <3>2 DEF ReleaseInv, SweepInv
    <3>4. \A i \in DOMAIN batches' :
            \/ i \in DOMAIN batches /\ batches'[i] = batches[i]
            \/ i = Len(batches) + 1 /\ batches'[i] = A
      BY <3>3, AppendedBatch
    <3>5. \A s \in Streams : HeldIn(A, s) # {} => HidesItsAuthors(HeldIn(A, s))
      BY <2>1, <3>1, <3>2 DEF CommitCut, CutIsExact
    <3>6. BatchHidesItsAuthors'
      BY <2>1, <3>4, <3>5
      DEF BatchHidesItsAuthors, HidesItsAuthors, HeldIn, EnoughRespondents, AuthorsOf,
          SpansEnoughWeeks
    <3>7. QED
      BY <2>2, <2>3, <3>6
  <2>6. QED
    BY <2>4, <2>5
<1>3. QED
  BY <1>1, <1>2, PTL DEF Spec

-----------------------------------------------------------------------------
(* The implementation of CommentHold.  The steps that only read are        *)
(* stutters of it; a report shows when it reads its cards, and a batch is  *)
(* released when it commits, on what was read before: the invariant says   *)
(* that this still stands.                                                 *)

OpenWeeks == {w \in Weeks : w <= closed => ~ Drained(w)}

(* An instance has its own name for what a set counts. *)
LEMMA CountsAgree ==
  ASSUME NEW S
  PROVE  Promise!Cardinality(S) = Cardinality(S)
BY DEF Promise!Cardinality, Cardinality

LEMMA OpenShrinks ==
  ASSUME TypeOK, StepEffects
  PROVE  OpenWeeks' \in SUBSET OpenWeeks
<1>1. SUFFICES ASSUME NEW w \in Weeks, w <= closed, Drained(w)
               PROVE  w <= closed' /\ Drained(w)'
  BY DEF OpenWeeks, Weeks
<1>2. w \in Nat /\ closed \in Nat /\ closed' \in Nat /\ closed <= closed'
  BY CommentAssumption DEF Weeks, TypeOK, StepEffects
<1> QED  BY <1>1, <1>2 DEF Drained, StepEffects

(* The week's view, read off the verdicts. *)
LEMMA ReadableIsView ==
  ASSUME SweepInv, VerdictsAreCurrent, NEW w, NEW s
  PROVE  Promise!Readable(w, s) = WeekView(w, s)
<1>1. ASSUME NEW c \in Comments
      PROVE  VerdictOn(c) = "readable" <=> c \in ReportComment
  BY DEF VerdictOn, ReportComment, Answered, HoldsNoVerdict, VerdictsAreCurrent
<1>2. Promise!Readable(w, s) =
        {c \in Comments : WeekOf[c] = w /\ StreamOf[c] = s /\ VerdictOn(c) = "readable"}
  BY DEF Promise!Readable
<1> QED  BY <1>1, <1>2 DEF WeekView, Slice, ReportComment, Answered

LEMMA ThinIsThin ==
  ASSUME SweepInv, VerdictsAreCurrent, NEW w, NEW s
  PROVE  Promise!Thin(w, s) <=> Thin(w, s)
BY ReadableIsView, CountsAgree DEF Promise!Thin, Thin, Promise!AuthorsOf, AuthorsOf

LEMMA SettledIsComplete ==
  ASSUME NEW w, Settled(w)
  PROVE  Promise!Complete(w)
<1>1. w \notin OpenWeeks
  BY DEF OpenWeeks, Settled
<1>2. ASSUME NEW c \in Comments, WeekOf[c] = w, text[c] # 0 PROVE VerdictOn(c) # "none"
  BY <1>2 DEF Settled, UnmoderatedWeeks, Answered, VerdictOn
<1> QED  BY <1>1, <1>2 DEF Promise!Complete, OpenWeeks

LEMMA StoreIsWrite ==
  ASSUME ReleaseInv, StepEffects, NEW a \in Authors, Submitting(a)
  PROVE  Promise!Close \/ \E S \in SUBSET Comments : Promise!Write(S)
<1>1. OpenWeeks' \in SUBSET OpenWeeks
  BY OpenShrinks DEF ReleaseInv, SweepInv
<1>2. UNCHANGED <<closed, verdicts, release, reading>>
  BY DEF Submitting, BeginSubmission, StoreSubmission, RefuseSubmission, moderation
<1>3. UNCHANGED [c \in Comments |-> VerdictOn(c)]
  BY <1>2 DEF VerdictOn, HoldsNoVerdict
<1>4. CASE BeginSubmission(a) \/ RefuseSubmission(a)
  BY <1>1, <1>2, <1>3, <1>4
  DEF BeginSubmission, RefuseSubmission, Promise!Close, OpenWeeks, release, reading
<1>5. CASE StoreSubmission(a)
  <2> DEFINE S == pending[a]
  <2>1. S \in SUBSET Comments
    BY DEF ReleaseInv, SweepInv, TypeOK
  <2>2. \A c \in S : WeekOf[c] \in OpenWeeks
    BY <2>1, CommentAssumption DEF OpenWeeks, Drained, Weeks
  <2>3. text' = [c \in Comments |-> IF c \in S THEN text[c] + 1 ELSE text[c]]
    BY <1>5 DEF StoreSubmission
  <2>4. PICK T : T = S
    OBVIOUS
  <2>5. Promise!Write(T)
    BY <1>1, <1>2, <1>3, <2>2, <2>3, <2>4 DEF Promise!Write, OpenWeeks, release, reading
  <2>6. T \in SUBSET Comments
    BY <2>1, <2>4
  <2> HIDE DEF S
  <2> QED  BY <2>5, <2>6
<1> QED  BY <1>4, <1>5 DEF Submitting

LEMMA RouteIsJudge ==
  ASSUME ReleaseInv, NEW k \in Sweepers, NEW kind \in Kinds, RouteVerdict(k, kind)
  PROVE  \E c \in Comments, m \in {"readable", "care"} : Promise!Judge(c, m)
<1>1. PICK q \in asking[k] :
        verdicts' = [verdicts EXCEPT ![q.comment] = @ \cup {[kind |-> kind, of |-> q.of]}]
  BY DEF RouteVerdict
<1>2. PICK c : c = q.comment
  OBVIOUS
<1>3. c \in Comments /\ Askable(c) /\ Final(c)
  BY <1>2 DEF ReleaseInv, SweepInv, TypeOK, AskedIsAskable, SweepIsLate
<1>4. WeekOf[c] \notin OpenWeeks /\ VerdictOn(c) = "none"
  BY <1>3 DEF OpenWeeks, Final, Askable, VerdictOn
<1>5. verdicts' = [verdicts EXCEPT ![c] = {[kind |-> kind, of |-> q.of]}]
  BY <1>1, <1>2, <1>3 DEF Askable, HoldsNoVerdict
<1>6. verdicts \in [Comments -> SUBSET Verdict]
  BY DEF ReleaseInv, SweepInv, TypeOK
<1>7. VerdictOn(c)' = kind
  <2>1. verdicts'[c] = {[kind |-> kind, of |-> q.of]}
    BY <1>3, <1>5, <1>6
  <2>2. (\E v \in verdicts'[c] : v.kind = "care") <=> kind = "care"
    BY <2>1
  <2>3. verdicts'[c] # {}
    BY <2>1
  <2> QED  BY <2>2, <2>3 DEF VerdictOn, HoldsNoVerdict, Kinds
<1>8. \A d \in Comments \ {c} : VerdictOn(d)' = VerdictOn(d)
  BY <1>5, <1>6 DEF VerdictOn, HoldsNoVerdict
<1>9. [d \in Comments |-> VerdictOn(d)]' = [[d \in Comments |-> VerdictOn(d)] EXCEPT ![c] = kind]
  BY <1>7, <1>8
<1>10. UNCHANGED <<closed, pending, text, batches, shown, readTexts>>
  BY DEF RouteVerdict, submission, release, reading
<1>11. OpenWeeks' = OpenWeeks
  BY <1>10 DEF OpenWeeks, Drained
<1>12. text[c] # 0
  BY <1>3 DEF Askable
<1>13. Promise!Judge(c, kind)
  BY <1>3, <1>4, <1>9, <1>10, <1>11, <1>12 DEF Promise!Judge, OpenWeeks
<1> QED  BY <1>3, <1>13 DEF Kinds

LEMMA CardsAreShow ==
  ASSUME ReleaseInv, ReadCards
  PROVE  \E w \in Weeks, s \in Streams : Promise!Show(w, s)
<1>1. PICK w, s : w = reader.week /\ s = reader.stream
  OBVIOUS
<1>2. Settled(w) /\ ~ Thin(w, s) /\ Unreleased(w, s) = WeekView(w, s)
  BY <1>1, FullViewIsUnreleased DEF ReadCards, ReleaseInv, ReaderSeesSettled
<1>3. WeekView(w, s) # {}
  <2>1. SUFFICES ASSUME WeekView(w, s) = {} PROVE FALSE
    OBVIOUS
  <2>2. AuthorsOf(WeekView(w, s)) = {}
    BY <2>1 DEF AuthorsOf
  <2> QED  BY <1>2, <2>2, FS_EmptySet, BoundAssumption DEF Thin
<1>4. w \in Weeks /\ s \in Streams
  BY <1>2, <1>3, CommentAssumption DEF Settled, WeekView, Slice, ReportComment, Answered
<1>5. shown' = shown \cup {[week |-> w, stream |-> s, cards |-> WeekView(w, s)]}
  BY <1>1, <1>2, <1>3 DEF ReadCards, Unreleased, WeekView
<1>6. readTexts' = readTexts \cup {<<c, text[c]>> : c \in WeekView(w, s)}
  BY <1>1, <1>2 DEF ReadCards, Unreleased, WeekView
<1>7. Promise!Readable(w, s) = WeekView(w, s) /\ ~ Promise!Thin(w, s) /\ Promise!Complete(w)
  BY <1>2, ReadableIsView, ThinIsThin, SettledIsComplete DEF ReleaseInv
<1>8. UNCHANGED <<closed, pending, text, verdicts, batches>>
  BY DEF ReadCards, submission, moderation, release
<1>9. UNCHANGED <<OpenWeeks, [c \in Comments |-> VerdictOn(c)]>>
  BY <1>8 DEF OpenWeeks, Drained, VerdictOn, HoldsNoVerdict
<1>10. Promise!Show(w, s)
  BY <1>5, <1>6, <1>7, <1>8, <1>9 DEF Promise!Show, Promise!Wordings, OpenWeeks
<1> QED  BY <1>4, <1>10

(* A released comment is read for good. *)
LEMMA BatchesAreRead ==
  ASSUME ReleaseInv, ReadReleased
  PROVE  Promise!ReadBatches
<1>1. ReportComment \cap Released = Promise!Released
  BY DEF ReleaseInv, ReleasedIsHidden, Hidden, Released, Promise!Released
<1>2. readTexts' = readTexts \cup {<<c, text[c]>> : c \in Promise!Released}
  BY <1>1 DEF ReadReleased
<1>3. UNCHANGED <<closed, pending, text, verdicts, batches, shown>>
  BY DEF ReadReleased, submission, moderation, release
<1>4. UNCHANGED <<OpenWeeks, [c \in Comments |-> VerdictOn(c)]>>
  BY <1>3 DEF OpenWeeks, Drained, VerdictOn, HoldsNoVerdict
<1> QED  BY <1>2, <1>3, <1>4 DEF Promise!ReadBatches, Promise!Wordings, OpenWeeks

LEMMA CommitIsRelease ==
  ASSUME ReleaseInv, CutIsExact, NEW k \in Cutters, CommitCut(k), batches' # batches
  PROVE  \E S \in SUBSET Promise!Kept : Promise!Release(S)
<1>1. PICK A : A = cut[k].answers
  OBVIOUS
<1>2. batches' = Append(batches, A) /\ \A c \in A : InNoBatch(c)
  BY <1>1 DEF CommitCut, BatchIsWritable
<1>3. ASSUME NEW c \in A PROVE c \in Promise!Kept
  <2>1. Hidden(c) /\ c \in Comments
    BY <1>1 DEF ReleaseInv, CutSeesSettled, Hidden, ReportComment, Answered
  <2>2. VerdictOn(c) = "readable"
    BY <2>1 DEF Hidden, ReportComment, VerdictOn, HoldsNoVerdict
  <2>3. Promise!Complete(WeekOf[c]) /\ Promise!Thin(WeekOf[c], StreamOf[c])
    BY <2>1, SettledIsComplete, ThinIsThin DEF Hidden, ReleaseInv
  <2>4. c \notin Promise!Released
    BY <1>2 DEF InNoBatch, Released, Promise!Released
  <2> QED  BY <2>1, <2>2, <2>3, <2>4 DEF Promise!Kept
<1>4. ASSUME NEW s \in Streams, {c \in A : StreamOf[c] = s} # {}
      PROVE  Promise!Hides({c \in A : StreamOf[c] = s})
  <2>1. HidesItsAuthors(HeldIn(A, s))
    BY <1>1, <1>4 DEF CommitCut, CutIsExact, HeldIn
  <2> QED  BY <2>1, CountsAgree
      DEF HidesItsAuthors, HeldIn, EnoughRespondents, SpansEnoughWeeks, AuthorsOf,
          Promise!Hides, Promise!AuthorsOf
<1>5. UNCHANGED <<closed, pending, text, verdicts, shown, readTexts>>
  BY DEF CommitCut, submission, moderation, reading
<1>6. UNCHANGED <<OpenWeeks, [c \in Comments |-> VerdictOn(c)]>>
  BY <1>5 DEF OpenWeeks, Drained, VerdictOn, HoldsNoVerdict
<1>7. Promise!Release(A)
  BY <1>2, <1>4, <1>5, <1>6 DEF Promise!Release, OpenWeeks
<1> QED  BY <1>3, <1>7

LEMMA RestIsUnseen ==
  ASSUME UNCHANGED <<submission, verdicts, batches, shown, readTexts>>
  PROVE  UNCHANGED Promise!vars
<1>1. UNCHANGED <<OpenWeeks, [c \in Comments |-> VerdictOn(c)], text>>
  BY DEF OpenWeeks, Drained, VerdictOn, HoldsNoVerdict, submission
<1> QED  BY <1>1 DEF Promise!vars, OpenWeeks

LEMMA HoldStep ==
  ASSUME ReleaseInv, CutIsExact, [Next]_vars
  PROVE  [Promise!Next]_Promise!vars
<1>1. StepEffects
  BY StepsHaveEffects DEF ReleaseInv, SweepInv
<1>2. ASSUME NEW a \in Authors, Submitting(a) PROVE Promise!Next
  BY <1>1, <1>2, StoreIsWrite DEF Promise!Next
<1>3. CASE CloseWeek
  <2>1. OpenWeeks' \in SUBSET OpenWeeks
    BY <1>1, OpenShrinks DEF ReleaseInv, SweepInv
  <2>2. UNCHANGED <<text, verdicts, batches, shown, readTexts>>
    BY <1>3 DEF CloseWeek, moderation, release, reading
  <2>3. UNCHANGED [c \in Comments |-> VerdictOn(c)]
    BY <2>2 DEF VerdictOn, HoldsNoVerdict
  <2>4. Promise!Close
    BY <2>1, <2>2, <2>3 DEF Promise!Close, OpenWeeks
  <2> QED  BY <2>4 DEF Promise!Next
<1>4. ASSUME NEW k \in Sweepers, Sweeping(k) PROVE [Promise!Next]_Promise!vars
  <2>1. CASE \E kind \in Kinds : RouteVerdict(k, kind)
    BY <2>1, RouteIsJudge DEF Promise!Next
  <2>2. CASE ~ \E kind \in Kinds : RouteVerdict(k, kind)
    <3>1. UNCHANGED <<submission, verdicts, batches, shown, readTexts>>
      BY <1>4, <2>2
      DEF Sweeping, StartSweep, AskModel, CountUnusableAnswer, LeaveForNextRun, EndSweep,
          SweeperDies, release, reading
    <3> QED  BY <3>1, RestIsUnseen
  <2> QED  BY <2>1, <2>2
<1>5. ASSUME NEW k \in Cutters, Cutting(k) PROVE [Promise!Next]_Promise!vars
  <2>1. CASE CommitCut(k) /\ batches' # batches
    BY <2>1, CommitIsRelease DEF Promise!Next
  <2>2. CASE ~ (CommitCut(k) /\ batches' # batches)
    <3>1. UNCHANGED <<submission, verdicts, batches, shown, readTexts>>
      BY <1>5, <2>2
      DEF Cutting, StartCut, ReadDue, ReadAnswers, CommitCut, CutterDies, moderation, reading
    <3> QED  BY <3>1, RestIsUnseen
  <2> QED  BY <2>1, <2>2
<1>6. CASE Reporting
  <2>1. CASE ReadCards
    BY <2>1, CardsAreShow DEF Promise!Next
  <2>2. CASE ReadReleased
    BY <2>2, BatchesAreRead DEF Promise!Next
  <2>3. CASE ~ ReadCards /\ ~ ReadReleased
    <3>1. UNCHANGED <<submission, verdicts, batches, shown, readTexts>>
      BY <1>6, <2>3 DEF Reporting, ReadModerated, ReadSuppressed, moderation, release
    <3> QED  BY <3>1, RestIsUnseen
  <2> QED  BY <2>1, <2>2, <2>3
<1>7. CASE UNCHANGED vars
  <2>1. UNCHANGED <<submission, verdicts, batches, shown, readTexts>>
    BY <1>7 DEF vars, submission
  <2> QED  BY <2>1, RestIsUnseen
<1> QED  BY <1>2, <1>3, <1>4, <1>5, <1>6, <1>7 DEF Next

(* Reads that are not one step show and release what one step would have:  *)
(* with one run of the cut at a time and requests that drain after a       *)
(* close, the code implements CommentHold, for every class and threshold   *)
(* and whichever worker dies.                                              *)
THEOREM KeepsTheHold ==
  ASSUME InFlightDrains, OneCutter
  PROVE  Spec => HoldKept
<1> DEFINE HoldInv == ReleaseInv /\ CutIsExact
<1>1. Init => HoldInv
  <2>1. Init => \A k \in Cutters : cut[k].stage = "idle"
    BY DEF Init, NoCut
  <2>2. Init => CutIsExact
    BY <2>1 DEF CutIsExact
  <2> QED  BY <2>2, ReleaseInit
<1>2. HoldInv /\ [Next]_vars => HoldInv'
  <2>1. SUFFICES ASSUME HoldInv, [Next]_vars PROVE HoldInv'
    OBVIOUS
  <2>2. StepEffects /\ ReleaseInv'
    BY <2>1, StepsHaveEffects, NextKeepsReleaseInv DEF ReleaseInv, SweepInv
  <2> QED  BY <2>1, <2>2, CutStaysExact
<1>3. Init => Promise!Init
  <2>1. SUFFICES ASSUME Init PROVE Promise!Init
    OBVIOUS
  <2>2. OpenWeeks = Weeks
    BY <2>1, CommentAssumption DEF Init, OpenWeeks, Weeks
  <2>3. [c \in Comments |-> VerdictOn(c)] = [c \in Comments |-> "none"]
    BY <2>1 DEF Init, VerdictOn, HoldsNoVerdict
  <2> QED  BY <2>1, <2>2, <2>3 DEF Init, Promise!Init, OpenWeeks
<1>4. HoldInv /\ [Next]_vars => [Promise!Next]_Promise!vars
  BY HoldStep
<1> QED  BY <1>1, <1>2, <1>3, <1>4, PTL DEF Spec, HoldKept, Promise!Spec

-----------------------------------------------------------------------------
(* All that is read, by week and by batch.  The two ways to the reader     *)
(* share one set of comments, and each crowd stands by itself only because *)
(* no comment is ever in two: the theorems above come together here.       *)

(* The sets of comments a reader is handed: a stream of a week, or a       *)
(* stream of a batch.                                                      *)
Crowds ==
  {r.cards : r \in shown} \cup {HeldIn(batches[i], s) : i \in DOMAIN batches, s \in Streams}

(* Every comment a report ever carried belongs to one crowd and no other,  *)
(* and the crowd has a threshold of authors: nothing read twice narrows    *)
(* down who wrote it.                                                      *)
ReadInOneCrowd ==
  \A r \in readTexts : \E G \in Crowds :
    /\ r[1] \in G
    /\ EnoughRespondents(G)
    /\ \A H \in Crowds : r[1] \in H => H = G

ReadIsHandedOut ==
  \A r \in readTexts : r[1] \in Released \/ \E q \in shown : r[1] \in q.cards

LEMMA HandedOutGrows ==
  ASSUME TypeOK, [Next]_vars
  PROVE  Released \subseteq Released' /\ shown \subseteq shown'
<1>1. ASSUME batches' = batches PROVE Released \subseteq Released'
  BY <1>1 DEF Released
<1>2. ASSUME batches' # batches PROVE Released \subseteq Released'
  <2>1. PICK k \in Cutters : batches' = Append(batches, cut[k].answers)
    BY <1>2, OnlyCommitsChangeBatches DEF BatchesChangeOnCommit
  <2>2. PICK A : A = cut[k].answers
    OBVIOUS
  <2>3. batches \in Seq(SUBSET Comments)
    BY DEF TypeOK
  <2>4. \A i \in DOMAIN batches : i \in DOMAIN batches' /\ batches'[i] = batches[i]
    BY <2>1, <2>2, <2>3
  <2> QED  BY <2>4 DEF Released
<1>3. shown \subseteq shown'
  BY DEF Next, vars, CloseWeek, Submitting, BeginSubmission, StoreSubmission, RefuseSubmission,
      Sweeping, StartSweep, AskModel, RouteVerdict, CountUnusableAnswer, LeaveForNextRun,
      EndSweep, SweeperDies, Cutting, StartCut, ReadDue, ReadAnswers, CommitCut, CutterDies,
      Reporting, ReadModerated, ReadSuppressed, ReadCards, ReadReleased, reading
<1> QED  BY <1>1, <1>2, <1>3

LEMMA ReadStaysHandedOut ==
  ASSUME TypeOK, ReadIsHandedOut, [Next]_vars
  PROVE  ReadIsHandedOut'
<1>1. ASSUME NEW r \in readTexts
      PROVE  r[1] \in Released' \/ \E q \in shown' : r[1] \in q.cards
  BY HandedOutGrows DEF ReadIsHandedOut
<1>2. CASE readTexts' = readTexts
  BY <1>1, <1>2 DEF ReadIsHandedOut
<1>3. CASE ReadCards
  <2> DEFINE cards == {c \in Slice(ReportComment, reader.week, reader.stream) : InNoBatch(c)}
             q == [week |-> reader.week, stream |-> reader.stream, cards |-> cards]
  <2>1. readTexts' = readTexts \cup {<<c, text[c]>> : c \in cards}
    BY <1>3 DEF ReadCards
  <2>2. cards # {} => q \in shown' /\ q.cards = cards
    BY <1>3 DEF ReadCards
  <2> HIDE DEF cards, q
  <2> QED  BY <1>1, <2>1, <2>2 DEF ReadIsHandedOut
<1>4. CASE ReadReleased
  <2>1. readTexts' = readTexts \cup {<<c, text[c]>> : c \in ReportComment \cap Released}
    BY <1>4 DEF ReadReleased
  <2>2. \A c \in ReportComment \cap Released : c \in Released'
    BY HandedOutGrows
  <2> QED  BY <1>1, <2>1, <2>2 DEF ReadIsHandedOut
<1> QED
  BY <1>2, <1>3, <1>4
  DEF Next, vars, CloseWeek, Submitting, BeginSubmission, StoreSubmission, RefuseSubmission,
      Sweeping, StartSweep, AskModel, RouteVerdict, CountUnusableAnswer, LeaveForNextRun,
      EndSweep, SweeperDies, Cutting, StartCut, ReadDue, ReadAnswers, CommitCut, CutterDies,
      Reporting, ReadModerated, ReadSuppressed, reading

(* A comment of a shown week is in that week's crowd only. *)
LEMMA ShownCrowdIsOne ==
  ASSUME ReleaseInv, NeverShownTwice, NEW q \in shown, NEW c \in q.cards, NEW H \in Crowds,
         c \in H
  PROVE  H = q.cards
<1>1. WeekOf[c] = q.week /\ StreamOf[c] = q.stream
  BY DEF ReleaseInv, ShownIsWhole, WeekView, Slice
<1>2. ASSUME NEW p \in shown, H = p.cards PROVE H = q.cards
  <2>1. WeekOf[c] = p.week /\ StreamOf[c] = p.stream
    BY <1>2 DEF ReleaseInv, ShownIsWhole, WeekView, Slice
  <2> QED  BY <1>1, <1>2, <2>1 DEF ReleaseInv, ShownIsWhole
<1>3. ASSUME NEW i \in DOMAIN batches, NEW s \in Streams, H = HeldIn(batches[i], s)
      PROVE  FALSE
  <2>1. c \in Released
    BY <1>3 DEF HeldIn, Released
  <2> QED  BY <2>1 DEF NeverShownTwice
<1> QED  BY <1>2, <1>3 DEF Crowds

(* A released comment is in its batch's crowd only. *)
LEMMA BatchCrowdIsOne ==
  ASSUME ReleasedOnce, NeverShownTwice, NEW i \in DOMAIN batches, NEW c \in batches[i],
         NEW H \in Crowds, c \in H
  PROVE  H = HeldIn(batches[i], StreamOf[c])
<1>1. \A q \in shown : H # q.cards
  BY DEF NeverShownTwice, Released
<1>2. PICK j \in DOMAIN batches, s \in Streams : H = HeldIn(batches[j], s)
  BY <1>1 DEF Crowds
<1>3. c \in batches[j] /\ StreamOf[c] = s
  BY <1>2 DEF HeldIn
<1>4. i = j
  BY <1>3 DEF ReleasedOnce
<1> QED  BY <1>2, <1>3, <1>4

(* With one run of the cut at a time, a report carries no comment outside  *)
(* a crowd of a threshold of authors, and none in two crowds that could be *)
(* compared, whatever it reads, how often and in which order.              *)
THEOREM NothingReadNarrowsItsAuthors ==
  ASSUME InFlightDrains, OneCutter
  PROVE  Spec => []ReadInOneCrowd
<1>1. Init => ReadIsHandedOut
  BY DEF Init, ReadIsHandedOut
<1>2. ReleaseInv /\ ReadIsHandedOut /\ [Next]_vars => ReadIsHandedOut'
  BY ReadStaysHandedOut DEF ReleaseInv, SweepInv
<1>3. ASSUME ReleaseInv, ReadIsHandedOut, NeverShownTwice, NoPartialWeek, ReleasedOnce,
             BatchHidesItsAuthors
      PROVE  ReadInOneCrowd
  <2> SUFFICES ASSUME NEW r \in readTexts
               PROVE  \E G \in Crowds : /\ r[1] \in G
                                        /\ EnoughRespondents(G)
                                        /\ \A H \in Crowds : r[1] \in H => H = G
    BY DEF ReadInOneCrowd
  <2>1. PICK c : c = r[1] /\ c \in Comments
    BY <1>3 DEF ReleaseInv, SweepInv, TypeOK
  <2>2. ASSUME NEW q \in shown, c \in q.cards
        PROVE  \E G \in Crowds : /\ c \in G
                                 /\ EnoughRespondents(G)
                                 /\ \A H \in Crowds : c \in H => H = G
    <3>1. q.cards \in Crowds
      BY DEF Crowds
    <3>2. EnoughRespondents(q.cards)
      BY <1>3 DEF NoPartialWeek, EnoughRespondents
    <3> QED  BY <1>3, <2>2, <3>1, <3>2, ShownCrowdIsOne
  <2>3. ASSUME NEW i \in DOMAIN batches, c \in batches[i]
        PROVE  \E G \in Crowds : /\ c \in G
                                 /\ EnoughRespondents(G)
                                 /\ \A H \in Crowds : c \in H => H = G
    <3> DEFINE G == HeldIn(batches[i], StreamOf[c])
    <3>1. StreamOf[c] \in Streams
      BY <2>1, CommentAssumption
    <3>2. c \in G
      BY <2>3 DEF HeldIn
    <3>3. G \in Crowds
      BY <3>1 DEF Crowds
    <3>4. EnoughRespondents(G)
      BY <1>3, <3>1, <3>2 DEF BatchHidesItsAuthors
    <3>5. \A H \in Crowds : c \in H => H = G
      BY <1>3, <2>3, BatchCrowdIsOne
    <3> QED  BY <3>2, <3>3, <3>4, <3>5
  <2>4. c \in Released \/ \E q \in shown : c \in q.cards
    BY <1>3, <2>1 DEF ReadIsHandedOut
  <2> QED  BY <2>1, <2>2, <2>3, <2>4 DEF Released
<1> QED
  BY <1>1, <1>2, <1>3, ReleaseInvHolds, ShownIsNeverReleased, WeeksAreShownWhole,
     NothingIsReleasedTwice, BatchesHideTheirAuthors, PTL DEF Spec

=============================================================================
