--------------------------- MODULE CommentRelease ---------------------------
(***************************************************************************)
(* Which comments of one section and term reach a reader, and when.        *)
(*                                                                         *)
(* Students submit comments into the open week; the hourly moderation      *)
(* sweep gives each comment of a closed week one verdict; the report shows *)
(* a stream of a week once the whole week is moderated and the stream has  *)
(* a threshold of distinct authors; the Monday cut releases the comments   *)
(* of thin streams in batches that name no week.  A comment slot stands    *)
(* for the answer row of one student, week and stream, and is revised in   *)
(* place.  The reads a job or a request makes one SQL statement at a time  *)
(* are separate actions, so the others run in between.                     *)
(***************************************************************************)
EXTENDS Naturals, FiniteSets, Sequences

CONSTANTS
  Comments,       \* comment slots: the answer rows the section can hold
  Authors,        \* students
  Streams,        \* question.stream
  LastWeek,       \* the term's weeks are 1..LastWeek
  AuthorOf,       \* [Comments -> Authors]
  WeekOf,         \* [Comments -> 1..LastWeek]
  StreamOf,       \* [Comments -> Streams]
  Threshold,      \* n_threshold_default
  AttemptCap,     \* MODERATION_ATTEMPT_CAP
  MaxText,        \* bound: how many texts one slot can hold, one after another
  Sweepers,       \* worker processes that may run the moderation sweep
  Cutters,        \* worker processes that may run the release cut
  InFlightDrains  \* a request is answered before the sweep after its close

WeeksSpanned == 2 \* WEEKS_A_RELEASE_MUST_SPAN

ASSUME CommentAssumption ==
  /\ AuthorOf \in [Comments -> Authors]
  /\ WeekOf \in [Comments -> 1..LastWeek]
  /\ StreamOf \in [Comments -> Streams]
  /\ IsFiniteSet(Comments)
  /\ LastWeek \in Nat

ASSUME BoundAssumption ==
  /\ Threshold \in Nat \ {0}
  /\ AttemptCap \in Nat \ {0}
  /\ MaxText \in Nat \ {0}
  /\ InFlightDrains \in BOOLEAN

VARIABLES
  closed,     \* weeks 1..closed are closed, week closed + 1 takes responses
  pending,    \* [Authors -> SUBSET Comments] requests past the window check
  text,       \* [Comments -> 0..MaxText] which text the row holds; 0: no row
  verdicts,   \* MODERATION rows: [Comments -> set of verdict and text judged]
  attempts,   \* moderation_attempt rows per comment
  lock,       \* the sweepers holding the advisory lock
  queue,      \* [Sweepers -> SUBSET Comments] comments a run still has to ask
  asking,     \* [Sweepers -> set of at most one comment and the text sent]
  batches,    \* release_batch rows in the order cut, each as its members
  cut,        \* [Cutters -> what a run of the cut has read so far]
  reader,     \* the report request being answered
  shown,      \* history: every non-empty read of a stream under its week
  readTexts   \* history: every comment and text a report has carried

vars == <<closed, pending, text, verdicts, attempts, lock, queue, asking,
          batches, cut, reader, shown, readTexts>>

submission == <<closed, pending, text>>
moderation == <<verdicts, attempts, lock, queue, asking>>
release    == <<batches, cut>>
reading    == <<reader, shown, readTexts>>

Weeks == 1..LastWeek

(* Care is threat and self_harm; every other verdict leaves the comment    *)
(* readable, and flagging is the decision door's concern.                  *)
Kinds == {"readable", "care"}

Verdict == [kind : Kinds, of : 1..MaxText]

CutStages == {"idle", "moderation read", "due read", "answers read"}

Cut == [stage : CutStages, now : 0..LastWeek, unmoderated : SUBSET Weeks,
        due : SUBSET Streams, answers : SUBSET Comments]

NoCut == [stage |-> "idle", now |-> 0, unmoderated |-> {}, due |-> {},
          answers |-> {}]

Reader == [stage : {"idle", "moderated", "counted"}, week : 0..LastWeek,
           stream : Streams \cup {"none"}]

NoReader == [stage |-> "idle", week |-> 0, stream |-> "none"]

-----------------------------------------------------------------------------
(* The reads. *)

Answered == {c \in Comments : text[c] # 0}

HoldsNoVerdict(c) == verdicts[c] = {}

(* Mutant: the view without its Care condition. *)
ReportCommentWithCare == {c \in Answered : ~ HoldsNoVerdict(c)}

(* The view public.report_comment: judged, and never judged a Care class.  *)
ReportComment ==
  {c \in Answered : /\ ~ HoldsNoVerdict(c)
                    /\ \A v \in verdicts[c] : v.kind # "care"}

UnmoderatedWeeks == {WeekOf[c] : c \in {d \in Answered : HoldsNoVerdict(d)}}

Released == UNION {batches[i] : i \in DOMAIN batches}

InNoBatch(c) == c \notin Released

Slice(S, w, s) == {c \in S : WeekOf[c] = w /\ StreamOf[c] = s}

AuthorsOf(S) == {AuthorOf[c] : c \in S}

(* Distinct people behind a stream's unreleased comments of one week. *)
Commenters(w, s) ==
  Cardinality(AuthorsOf({c \in Slice(ReportComment, w, s) : InNoBatch(c)}))

(* Mutant: every unreleased comment of a moderated week, thin or not. *)
HeldWhateverItsCount(now, unmoderated) ==
  {c \in ReportComment : /\ WeekOf[c] <= now
                         /\ InNoBatch(c)
                         /\ WeekOf[c] \notin unmoderated}

(* Mutant: a cut that does not wait for the verdicts on the whole week. *)
HeldBeforeItsWeek(now, unmoderated) ==
  {c \in ReportComment : /\ Commenters(WeekOf[c], StreamOf[c]) < Threshold
                         /\ WeekOf[c] <= now
                         /\ InNoBatch(c)}

(* What the cut holds: in a thin stream of a closed, wholly moderated week. *)
Held(now, unmoderated) ==
  {c \in ReportComment : /\ Commenters(WeekOf[c], StreamOf[c]) < Threshold
                         /\ WeekOf[c] <= now
                         /\ InNoBatch(c)
                         /\ WeekOf[c] \notin unmoderated}

HeldIn(H, s) == {c \in H : StreamOf[c] = s}

(* The three legs of the release gate over a held set. *)
VolumeHasCrossed(s) ==
  Cardinality({c \in ReportComment : StreamOf[c] = s}) >= Threshold

EnoughRespondents(S) == Cardinality(AuthorsOf(S)) >= Threshold

SpansEnoughWeeks(S) == Cardinality({WeekOf[c] : c \in S}) >= WeeksSpanned

(* Mutant: the legs counted over both streams together, before ADR 0182. *)
DuePooled(H) ==
  IF /\ Cardinality(ReportComment) >= Threshold
     /\ EnoughRespondents(H)
     /\ SpansEnoughWeeks(H)
  THEN {s \in Streams : HeldIn(H, s) # {}} ELSE {}

Due(H) == {s \in Streams : /\ VolumeHasCrossed(s)
                           /\ EnoughRespondents(HeldIn(H, s))
                           /\ SpansEnoughWeeks(HeldIn(H, s))}

(* Mutant: a selection that never stops asking. *)
AwaitingWithoutCap ==
  {c \in Answered : WeekOf[c] <= closed /\ HoldsNoVerdict(c)}

(* Mutant: closed read one week short. *)
AwaitingOneWeekShort ==
  {c \in Answered : /\ WeekOf[c] < closed
                    /\ HoldsNoVerdict(c)
                    /\ attempts[c] < AttemptCap}

AwaitingModeration ==
  {c \in Answered : /\ WeekOf[c] <= closed
                    /\ HoldsNoVerdict(c)
                    /\ attempts[c] < AttemptCap}

(* No request that passed a closed week's window check is still running.   *)
(* The sweep runs ten minutes after a close, the cut three hours and the   *)
(* report six, while a request makes two model calls of four seconds.      *)
Drained(w) == \A a \in Authors : \A c \in pending[a] : WeekOf[c] # w

Settling == InFlightDrains => \A w \in 1..closed : Drained(w)

-----------------------------------------------------------------------------
(* Submission. *)

(* The window is read once, before the model is asked about the comments.  *)
BeginSubmission(a) ==
  /\ pending[a] = {}
  /\ \E S \in SUBSET {c \in Comments : AuthorOf[c] = a /\ WeekOf[c] = closed + 1} :
       /\ S # {}
       /\ \A c \in S : text[c] < MaxText
       /\ pending' = [pending EXCEPT ![a] = S]
  /\ UNCHANGED <<closed, text, moderation, release, reading>>

(* The write revises answers in place and reads no window again.  A        *)
(* submission that leaves out a comment already judged is refused.         *)
StoreSubmission(a) ==
  LET S == pending[a]
      weeks == {WeekOf[c] : c \in S}
      stored == {c \in Answered : AuthorOf[c] = a /\ WeekOf[c] \in weeks}
  IN  /\ S # {}
      /\ stored \subseteq S
      /\ text' = [c \in Comments |-> IF c \in S THEN text[c] + 1 ELSE text[c]]
      /\ pending' = [pending EXCEPT ![a] = {}]
      /\ UNCHANGED <<closed, moderation, release, reading>>

(* Bounced, provider down, or a judged comment withdrawn: nothing stored.  *)
RefuseSubmission(a) ==
  /\ pending[a] # {}
  /\ pending' = [pending EXCEPT ![a] = {}]
  /\ UNCHANGED <<closed, text, moderation, release, reading>>

CloseWeek ==
  /\ closed < LastWeek
  /\ closed' = closed + 1
  /\ UNCHANGED <<pending, text, moderation, release, reading>>

-----------------------------------------------------------------------------
(* The moderation sweep. *)

(* Mutant: a sweep that takes no lock. *)
StartSweepUnlocked(k) ==
  /\ k \notin lock
  /\ Settling
  /\ AwaitingModeration # {}
  /\ lock' = lock \cup {k}
  /\ queue' = [queue EXCEPT ![k] = AwaitingModeration]
  /\ UNCHANGED <<verdicts, attempts, asking, submission, release, reading>>

(* A run that finds the lock held does nothing.  The list is read once.    *)
StartSweep(k) ==
  /\ lock = {}
  /\ Settling
  /\ AwaitingModeration # {}
  /\ lock' = {k}
  /\ queue' = [queue EXCEPT ![k] = AwaitingModeration]
  /\ UNCHANGED <<verdicts, attempts, asking, submission, release, reading>>

(* The comment's text is read again before it is sent. *)
AskModel(k, c) ==
  /\ k \in lock
  /\ asking[k] = {}
  /\ c \in queue[k]
  /\ asking' = [asking EXCEPT ![k] = {[comment |-> c, of |-> text[c]]}]
  /\ queue' = [queue EXCEPT ![k] = @ \ {c}]
  /\ UNCHANGED <<verdicts, attempts, lock, submission, release, reading>>

(* route_verdict refuses an open window, then the verdict is committed.    *)
RouteVerdict(k, kind) ==
  /\ \E q \in asking[k] :
       /\ WeekOf[q.comment] <= closed
       /\ verdicts' = [verdicts EXCEPT ![q.comment] =
                         @ \cup {[kind |-> kind, of |-> q.of]}]
  /\ asking' = [asking EXCEPT ![k] = {}]
  /\ UNCHANGED <<attempts, lock, queue, submission, release, reading>>

(* Only an answer that is not the contract counts toward the cap. *)
CountUnusableAnswer(k) ==
  /\ \E q \in asking[k] : attempts' = [attempts EXCEPT ![q.comment] = @ + 1]
  /\ asking' = [asking EXCEPT ![k] = {}]
  /\ UNCHANGED <<verdicts, lock, queue, submission, release, reading>>

(* Refused, unavailable or unreachable: left for the next run. *)
LeaveForNextRun(k) ==
  /\ asking[k] # {}
  /\ asking' = [asking EXCEPT ![k] = {}]
  /\ UNCHANGED <<verdicts, attempts, lock, queue, submission, release, reading>>

(* The walk is over and the lock is released. *)
EndSweep(k) ==
  /\ k \in lock
  /\ queue[k] = {} /\ asking[k] = {}
  /\ lock' = lock \ {k}
  /\ UNCHANGED <<queue, asking, verdicts, attempts, submission, release, reading>>

(* The worker dies anywhere in its walk, and the lock with its connection. *)
SweeperDies(k) ==
  /\ k \in lock
  /\ lock' = lock \ {k}
  /\ queue' = [queue EXCEPT ![k] = {}]
  /\ asking' = [asking EXCEPT ![k] = {}]
  /\ UNCHANGED <<verdicts, attempts, submission, release, reading>>

-----------------------------------------------------------------------------
(* The release cut. *)

(* Mutant: a close that is read one week short. *)
StartCutOneWeekShort(k) ==
  /\ cut[k].stage = "idle"
  /\ Settling
  /\ closed > 0
  /\ cut' = [cut EXCEPT ![k] = [NoCut EXCEPT !.stage = "moderation read",
                                             !.now = closed - 1,
                                             !.unmoderated = UnmoderatedWeeks]]
  /\ UNCHANGED <<batches, submission, moderation, reading>>

StartCut(k) ==
  /\ cut[k].stage = "idle"
  /\ Settling
  /\ cut' = [cut EXCEPT ![k] = [NoCut EXCEPT !.stage = "moderation read",
                                             !.now = closed,
                                             !.unmoderated = UnmoderatedWeeks]]
  /\ UNCHANGED <<batches, submission, moderation, reading>>

(* A run that finds nothing due is over. *)
ReadDue(k) ==
  LET due == Due(Held(cut[k].now, cut[k].unmoderated))
  IN  /\ cut[k].stage = "moderation read"
      /\ cut' = [cut EXCEPT ![k] = IF due = {} THEN NoCut
                                  ELSE [@ EXCEPT !.stage = "due read", !.due = due]]
      /\ UNCHANGED <<batches, submission, moderation, reading>>

ReadAnswers(k) ==
  /\ cut[k].stage = "due read"
  /\ cut' = [cut EXCEPT ![k].stage = "answers read",
                        ![k].answers =
                           {c \in Held(cut[k].now, cut[k].unmoderated) :
                              StreamOf[c] \in cut[k].due}]
  /\ UNCHANGED <<batches, submission, moderation, reading>>

(* The membership key is unique per answer, and a due stream that has lost *)
(* its answers is a lookup error: either way the whole batch is given up.  *)
BatchIsWritable(answers, due) ==
  /\ \A s \in due : HeldIn(answers, s) # {}
  /\ \A c \in answers : InNoBatch(c)

(* One batch carries every due stream, in one transaction. *)
CommitCut(k) ==
  /\ cut[k].stage = "answers read"
  /\ batches' = IF BatchIsWritable(cut[k].answers, cut[k].due)
                THEN Append(batches, cut[k].answers) ELSE batches
  /\ cut' = [cut EXCEPT ![k] = NoCut]
  /\ UNCHANGED <<submission, moderation, reading>>

(* The worker dies before its commit. *)
CutterDies(k) ==
  /\ cut[k].stage # "idle"
  /\ cut' = [cut EXCEPT ![k] = NoCut]
  /\ UNCHANGED <<batches, submission, moderation, reading>>

-----------------------------------------------------------------------------
(* The instructor's report. *)

(* Mutant: a read that does not wait for the whole week. *)
ReadModeratedInPart(w, s) ==
  /\ reader.stage = "idle"
  /\ w <= closed
  /\ InFlightDrains => Drained(w)
  /\ reader' = [stage |-> "moderated", week |-> w, stream |-> s]
  /\ UNCHANGED <<shown, readTexts, submission, moderation, release>>

(* A week's report opens the morning after its close. *)
ReadModerated(w, s) ==
  /\ reader.stage = "idle"
  /\ w <= closed
  /\ InFlightDrains => Drained(w)
  /\ w \notin UnmoderatedWeeks
  /\ reader' = [stage |-> "moderated", week |-> w, stream |-> s]
  /\ UNCHANGED <<shown, readTexts, submission, moderation, release>>

(* Mutant: the week's people counted over both streams, before ADR 0182. *)
ReadSuppressedPooled ==
  LET people == AuthorsOf({c \in ReportComment : WeekOf[c] = reader.week /\ InNoBatch(c)})
  IN  /\ reader.stage = "moderated"
      /\ reader' = IF Cardinality(people) < Threshold
                   THEN NoReader ELSE [reader EXCEPT !.stage = "counted"]
      /\ UNCHANGED <<shown, readTexts, submission, moderation, release>>

ReadSuppressed ==
  /\ reader.stage = "moderated"
  /\ reader' = IF Commenters(reader.week, reader.stream) < Threshold
               THEN NoReader ELSE [reader EXCEPT !.stage = "counted"]
  /\ UNCHANGED <<shown, readTexts, submission, moderation, release>>

ReadCards ==
  LET cards == {c \in Slice(ReportComment, reader.week, reader.stream) : InNoBatch(c)}
  IN  /\ reader.stage = "counted"
      /\ shown' = IF cards = {} THEN shown ELSE
                  shown \cup {[week |-> reader.week, stream |-> reader.stream,
                               cards |-> cards]}
      /\ readTexts' = readTexts \cup {<<c, text[c]>> : c \in cards}
      /\ reader' = NoReader
      /\ UNCHANGED <<submission, moderation, release>>

(* A released comment is read through its batch, whatever its week holds.  *)
ReadReleased ==
  /\ readTexts' = readTexts \cup {<<c, text[c]>> : c \in ReportComment \cap Released}
  /\ UNCHANGED <<reader, shown, submission, moderation, release>>

-----------------------------------------------------------------------------
Init ==
  /\ closed = 0
  /\ pending = [a \in Authors |-> {}]
  /\ text = [c \in Comments |-> 0]
  /\ verdicts = [c \in Comments |-> {}]
  /\ attempts = [c \in Comments |-> 0]
  /\ lock = {}
  /\ queue = [k \in Sweepers |-> {}]
  /\ asking = [k \in Sweepers |-> {}]
  /\ batches = <<>>
  /\ cut = [k \in Cutters |-> NoCut]
  /\ reader = NoReader
  /\ shown = {}
  /\ readTexts = {}

Submitting(a) == BeginSubmission(a) \/ StoreSubmission(a) \/ RefuseSubmission(a)

Sweeping(k) ==
  \/ StartSweep(k)
  \/ \E c \in Comments : AskModel(k, c)
  \/ \E kind \in Kinds : RouteVerdict(k, kind)
  \/ CountUnusableAnswer(k)
  \/ LeaveForNextRun(k)
  \/ EndSweep(k)
  \/ SweeperDies(k)

Cutting(k) ==
  StartCut(k) \/ ReadDue(k) \/ ReadAnswers(k) \/ CommitCut(k) \/ CutterDies(k)

Reporting ==
  \/ \E w \in Weeks, s \in Streams : ReadModerated(w, s)
  \/ ReadSuppressed
  \/ ReadCards
  \/ ReadReleased

Next ==
  \/ \E a \in Authors : Submitting(a)
  \/ CloseWeek
  \/ \E k \in Sweepers : Sweeping(k)
  \/ \E k \in Cutters : Cutting(k)
  \/ Reporting

Spec == Init /\ [][Next]_vars

(* The beat starts a sweep every hour and a cut every week, a worker that  *)
(* started one goes on, and a provider asked for ever answers in the end;  *)
(* a worker may die, but not at every try.  Students and readers owe       *)
(* nothing, and a week closes by the clock.                                *)
Fairness ==
  /\ WF_vars(CloseWeek)
  /\ \A a \in Authors : WF_vars(StoreSubmission(a) \/ RefuseSubmission(a))
  /\ \A k \in Sweepers : WF_vars(EndSweep(k))
  /\ WF_vars(\E k \in Sweepers : StartSweep(k))
  /\ \A c \in Comments :
       /\ SF_vars(\E k \in Sweepers : AskModel(k, c))
       /\ SF_vars(\E k \in Sweepers : /\ \E q \in asking[k] : q.comment = c
                                      /\ \/ \E kind \in Kinds : RouteVerdict(k, kind)
                                         \/ CountUnusableAnswer(k))
  /\ \A k \in Cutters : /\ WF_vars(StartCut(k))
                         /\ SF_vars(ReadDue(k))
                         /\ SF_vars(ReadAnswers(k))
                         /\ SF_vars(CommitCut(k))

FairSpec == Spec /\ Fairness

-----------------------------------------------------------------------------
(* Properties. *)

TypeOK ==
  /\ closed \in 0..LastWeek
  /\ pending \in [Authors -> SUBSET Comments]
  /\ text \in [Comments -> 0..MaxText]
  /\ verdicts \in [Comments -> SUBSET Verdict]
  /\ attempts \in [Comments -> 0..AttemptCap]
  /\ lock \in SUBSET Sweepers
  /\ queue \in [Sweepers -> SUBSET Comments]
  /\ asking \in [Sweepers -> SUBSET [comment : Comments, of : 1..MaxText]]
  /\ batches \in Seq(SUBSET Comments)
  /\ cut \in [Cutters -> Cut]
  /\ reader \in Reader
  /\ shown \in SUBSET [week : Weeks, stream : Streams, cards : SUBSET Comments]
  /\ readTexts \in SUBSET (Comments \X (0..MaxText))

(* No comment is ever read under its week and released in a batch too, in  *)
(* either order and whatever runs between the cut's reads: the same words  *)
(* twice would tie the released card to its week.                          *)
NeverShownTwice ==
  \A r \in shown : r.cards \cap Released = {}

(* A stream of a week is read whole or not at all, and the same each time, *)
(* by no fewer than a threshold of people: a reader who keeps each report  *)
(* learns nothing from the difference of two of them.                      *)
NoPartialWeek ==
  \A r \in shown :
    /\ Cardinality(AuthorsOf(r.cards)) >= Threshold
    /\ \A q \in shown : q.week = r.week /\ q.stream = r.stream => q.cards = r.cards

(* Each stream's slice of a batch stands on a threshold of its own authors *)
(* and on two weeks, even when two runs of the cut overlap.                *)
BatchHidesItsAuthors ==
  \A i \in DOMAIN batches, s \in Streams :
    LET S == HeldIn(batches[i], s)
    IN  S # {} => EnoughRespondents(S) /\ SpansEnoughWeeks(S)

(* A comment is in at most one batch. *)
ReleasedOnce ==
  \A i, j \in DOMAIN batches : i # j => batches[i] \cap batches[j] = {}

(* Every text a report ever carried was judged, in that very wording, and  *)
(* no Care-class comment was ever carried, before its verdict or after.    *)
ReadTextWasModerated ==
  \A r \in readTexts : verdicts[r[1]] = {[kind |-> "readable", of |-> r[2]]}

(* A comment gets one verdict or is capped, never both and never twice,    *)
(* whichever workers run the sweep and wherever they die.                  *)
SettledOnce ==
  \A c \in Comments :
    /\ Cardinality(verdicts[c]) <= 1
    /\ attempts[c] = AttemptCap => HoldsNoVerdict(c)

(* The claim that counting people is enough: a held set with a threshold   *)
(* of authors has the volume and the two weeks as well.                    *)
PeopleImplyVolumeAndWeeks ==
  \A s \in Streams :
    LET S == HeldIn(Held(closed, UnmoderatedWeeks), s)
    IN  EnoughRespondents(S) => VolumeHasCrossed(s) /\ SpansEnoughWeeks(S)

(* Every comment of a closed week is judged or capped in the end. *)
EveryCommentSettles ==
  \A c \in Comments :
    (text[c] # 0 /\ WeekOf[c] <= closed) ~> (~ HoldsNoVerdict(c) \/ attempts[c] = AttemptCap)

(* A stream whose held comments open the gate is released in the end: the  *)
(* hold is a delay and never a loss.                                       *)
DueIsReleased ==
  \A c \in Comments :
    (c \in Held(closed, UnmoderatedWeeks) /\ StreamOf[c] \in Due(Held(closed, UnmoderatedWeeks)))
      ~> ~ InNoBatch(c)

(* What a reader gathers is what the abstract specification promises,      *)
(* where a week is shown and a batch released in one step: the cut and the *)
(* report read in several, and between these a sweep, a request or another *)
(* reader may run or a worker die.                                         *)
VerdictOn(c) ==
  IF HoldsNoVerdict(c) THEN "none"
  ELSE IF \E v \in verdicts[c] : v.kind = "care" THEN "care" ELSE "readable"

Promise == INSTANCE CommentHold WITH
  open <- {w \in Weeks : w <= closed => ~ Drained(w)},
  verdict <- [c \in Comments |-> VerdictOn(c)],
  carried <- readTexts

HoldKept == Promise!Spec

=============================================================================
