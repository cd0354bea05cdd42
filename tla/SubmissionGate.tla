--------------------------- MODULE SubmissionGate ---------------------------
(***************************************************************************)
(* One student's submissions for one section and week, the validity        *)
(* verdicts of their comments, and response.is_valid.                      *)
(*                                                                         *)
(* A request asks the model about each comment inside its transaction and  *)
(* then stores answers, verdicts and the validity it computed from the     *)
(* latest verdicts.  When the model times out a length heuristic, the      *)
(* floor, decides instead, and the re-classification sweep asks again      *)
(* later.  The sweep is one transaction over all the floored comments, and *)
(* no lock keeps it from running beside a request or another sweep.        *)
(*                                                                         *)
(* A verdict row is stamped with the start of the transaction that wrote   *)
(* it (a server default of now()) and the latest stamp governs.            *)
(***************************************************************************)
EXTENDS Integers, FiniteSets, FiniteSetsExt

CONSTANTS
  Questions,   \* the comment questions of the week's survey
  Requests,    \* the student's submit requests
  Sweeps,      \* worker processes that may run the sweep
  MaxFaults    \* bound: questions of a sweep that time out, and its deaths

ASSUME GateAssumption ==
  /\ IsFiniteSet(Questions)
  /\ IsFiniteSet(Requests) /\ IsFiniteSet(Sweeps)
  /\ Requests \cap Sweeps = {}
  /\ MaxFaults \in Nat

VARIABLES
  text,      \* [Questions -> set of at most one text] answer.comment_text, as the
             \* request that sent it
  rows,      \* classification rows of these answers
  stored,    \* the response row exists
  isValid,   \* response.is_valid, FALSE while there is no row
  lock,      \* the transaction holding the response row, at most one
  request,   \* [Requests -> what a request has judged and read]
  sweep,     \* [Sweeps -> what a sweep has listed, asked and written]
  overlapped, \* history: a sweep ran beside a request or another sweep
  faults     \* bound: timed-out questions and deaths of sweeps so far

vars == <<text, rows, stored, isValid, lock, request, sweep, overlapped, faults>>

database == <<text, rows, stored, isValid>>

Kinds == {"accepted", "refused"}

(* A text is told apart by the request that sent it.  insufficient and     *)
(* nonsense are refused; the floor's audit pair is its source.             *)
Row == [question : Questions, of : Requests, kind : Kinds,
        source : {"model", "floor"}, at : Nat]

Request == [stage : {"new", "begun", "judged", "writing", "recomputed", "done"},
            at : Nat, own : SUBSET Row, found : BOOLEAN, seen : BOOLEAN,
            value : BOOLEAN]

NewRequest == [stage |-> "new", at |-> 0, own |-> {}, found |-> FALSE,
               seen |-> TRUE, value |-> TRUE]

Sweep == [stage : {"idle", "walking", "asking", "updating"},
          at : Nat, list : SUBSET Questions,
          asked : SUBSET (Questions \X Requests), own : SUBSET Row,
          seen : SUBSET BOOLEAN, value : BOOLEAN, wrote : BOOLEAN]

NoSweep == [stage |-> "idle", at |-> 0, list |-> {}, asked |-> {}, own |-> {},
            seen |-> {}, value |-> TRUE, wrote |-> FALSE]

-----------------------------------------------------------------------------
(* The reads. *)

Open(r) == request[r].stage \notin {"new", "done"}

Running(k) == sweep[k].stage # "idle"

Stamps == {v.at : v \in rows}
            \cup {request[r].at : r \in {q \in Requests : Open(q)}}
            \cup {sweep[k].at : k \in {j \in Sweeps : Running(j)}}

(* now(), later than the start of every transaction that left a trace. *)
Now == Max(Stamps \cup {0}) + 1

(* The latest verdict of a comment among the rows a transaction can see. *)
Governs(v, R) ==
  /\ v \in R
  /\ \A u \in R : u.question = v.question => u.at <= v.at

LatestVerdicts(answered, R) == {v \in R : v.question \in answered /\ Governs(v, R)}

Validity(answered, R) == \A v \in LatestVerdicts(answered, R) : v.kind = "accepted"

Answered == {q \in Questions : text[q] # {}}

(* Mutant: an answer leaves the list with its second row, whoever wrote it. *)
UnresolvedUntilAskedAgain ==
  {q \in Questions : \E v \in rows : /\ v.question = q /\ v.source = "floor"
                                     /\ \A u \in rows : u.question = q => u = v}

(* Answers the floor judged and no model ever did. *)
UnresolvedFloored ==
  {q \in Questions : /\ \E v \in rows : v.question = q /\ v.source = "floor"
                     /\ \A v \in rows : v.question = q => v.source = "floor"}

-----------------------------------------------------------------------------
(* A submit request. *)

(* The transaction, and with it now(), starts at the request's first read. *)
Begin(r) ==
  /\ request[r].stage = "new"
  /\ request' = [request EXCEPT ![r].stage = "begun", ![r].at = Now]
  /\ overlapped' = (overlapped \/ \E k \in Sweeps : Running(k))
  /\ UNCHANGED <<database, lock, sweep, faults>>

(* Every comment is judged good enough, by the model or, where it times    *)
(* out, by the floor; then the response is looked up, without a lock.      *)
Judge(r) ==
  /\ request[r].stage = "begun"
  /\ \E S \in SUBSET Questions :
       \E source \in [S -> {"model", "floor"}] :
         request' = [request EXCEPT
           ![r] = [@ EXCEPT
              !.stage = "judged",
              !.own = {[question |-> q, of |-> r, kind |-> "accepted",
                        source |-> source[q], at |-> request[r].at] : q \in S},
              !.found = stored,
              !.seen = IF stored THEN isValid ELSE TRUE]]
  /\ UNCHANGED <<database, lock, sweep, overlapped, faults>>

(* Bounced, the provider down, or the process dies: nothing is stored.     *)
(* (A bounce keeps its verdicts against no answer, which nothing reads.)   *)
GiveUp(r) ==
  /\ Open(r)
  /\ request' = [request EXCEPT ![r] = [NewRequest EXCEPT !.stage = "done"]]
  /\ lock' = lock \ {r}
  /\ UNCHANGED <<database, sweep, overlapped, faults>>

Submitted(r) == {v.question : v \in request[r].own}

(* Mutant: a comment left out stays as it was. *)
WriteAnswersKeepingOthers(r) ==
  /\ request[r].stage = "judged"
  /\ lock = {}
  /\ request[r].found \/ ~ stored
  /\ lock' = {r}
  /\ request' = [request EXCEPT ![r].stage = "writing"]
  /\ UNCHANGED <<database, sweep, overlapped, faults>>

(* The insert of a first response, or the update of a stored one, holds    *)
(* the row until the end; the answers are then read and revised in place.  *)
WriteAnswers(r) ==
  /\ request[r].stage = "judged"
  /\ lock = {}
  /\ request[r].found \/ ~ stored
  /\ Answered \subseteq Submitted(r)
  /\ lock' = {r}
  /\ request' = [request EXCEPT ![r].stage = "writing"]
  /\ UNCHANGED <<database, sweep, overlapped, faults>>

(* Another first submission won the unique key, or a comment that holds a  *)
(* verdict, as every stored one does, was left out.                        *)
RefuseWrite(r) ==
  /\ request[r].stage = "judged"
  /\ \/ ~ request[r].found /\ stored
     \/ request[r].found /\ lock = {} /\ ~ (Answered \subseteq Submitted(r))
  /\ request' = [request EXCEPT ![r] = [NewRequest EXCEPT !.stage = "done"]]
  /\ UNCHANGED <<database, lock, sweep, overlapped, faults>>

(* Over the committed rows and its own. *)
RecomputeAtSubmit(r) ==
  /\ request[r].stage = "writing"
  /\ request' = [request EXCEPT
       ![r].stage = "recomputed",
       ![r].value = Validity(Submitted(r), rows \cup request[r].own)]
  /\ UNCHANGED <<database, lock, sweep, overlapped, faults>>

(* Mutant: the value computed is answered and never assigned. *)
CommitKeepingValidity(r) ==
  /\ request[r].stage = "recomputed"
  /\ text' = [q \in Questions |->
                IF q \in Submitted(r) THEN {r} ELSE text[q]]
  /\ rows' = rows \cup request[r].own
  /\ stored' = TRUE
  /\ isValid' = (isValid \/ ~ stored)
  /\ lock' = {}
  /\ request' = [request EXCEPT ![r] = [NewRequest EXCEPT !.stage = "done"]]
  /\ UNCHANGED <<sweep, overlapped, faults>>

(* The mapper writes is_valid only where it differs from what it loaded. *)
CommitSubmission(r) ==
  /\ request[r].stage = "recomputed"
  /\ text' = [q \in Questions |->
                IF q \in Submitted(r) THEN {r} ELSE text[q]]
  /\ rows' = rows \cup request[r].own
  /\ stored' = TRUE
  /\ isValid' = IF request[r].found /\ request[r].value = request[r].seen
                THEN isValid ELSE request[r].value
  /\ lock' = {}
  /\ request' = [request EXCEPT ![r] = [NewRequest EXCEPT !.stage = "done"]]
  /\ UNCHANGED <<sweep, overlapped, faults>>

-----------------------------------------------------------------------------
(* The re-classification sweep: hourly, and once after a floored submit.   *)

StartSweep(k) ==
  /\ ~ Running(k)
  /\ UnresolvedFloored # {}
  /\ sweep' = [sweep EXCEPT ![k] = [NoSweep EXCEPT !.stage = "walking", !.at = Now,
                                                   !.list = UnresolvedFloored]]
  /\ overlapped' = (overlapped \/ (\E r \in Requests : Open(r)) \/ (\E j \in Sweeps : Running(j)))
  /\ UNCHANGED <<database, lock, request, faults>>

(* The comment is read as it stands now, not as it was listed. *)
AskAgain(k, q) ==
  /\ sweep[k].stage = "walking"
  /\ q \in sweep[k].list
  /\ sweep' = [sweep EXCEPT ![k].stage = "asking",
                            ![k].list = @ \ {q},
                            ![k].asked = {q} \X text[q]]
  /\ UNCHANGED <<database, lock, request, overlapped, faults>>

(* The verdict is inserted and the validity recomputed over the committed  *)
(* rows and the sweep's own.  The response is loaded once in the           *)
(* transaction, and written only where the value differs from the loaded.  *)
RecordVerdict(k, v) ==
  LET own    == sweep[k].own \cup {v}
      loaded == IF sweep[k].seen = {} THEN {isValid} ELSE sweep[k].seen
      value  == Validity(Answered, rows \cup own)
  IN  sweep' = [sweep EXCEPT
        ![k] = [@ EXCEPT !.stage = IF value \in loaded THEN "walking" ELSE "updating",
                         !.asked = {}, !.own = own, !.seen = loaded, !.value = value]]

ModelAnswers(k, kind) ==
  /\ sweep[k].stage = "asking"
  /\ \E a \in sweep[k].asked :
       RecordVerdict(k, [question |-> a[1], of |-> a[2], kind |-> kind,
                         source |-> "model", at |-> sweep[k].at])
  /\ UNCHANGED <<database, lock, request, overlapped, faults>>

(* The floor reads only the text's length: one it accepted it accepts      *)
(* again, and one the model accepted may be too short for it.              *)
FloorAnswers(k, kind) ==
  /\ sweep[k].stage = "asking"
  /\ faults < MaxFaults
  /\ \E a \in sweep[k].asked :
       /\ \/ kind = "accepted"
          \/ \A v \in rows : v.question = a[1] /\ v.of = a[2] => v.source = "model"
       /\ RecordVerdict(k, [question |-> a[1], of |-> a[2], kind |-> kind,
                            source |-> "floor", at |-> sweep[k].at])
  /\ faults' = faults + 1
  /\ UNCHANGED <<database, lock, request, overlapped>>

(* Any other failure rolls back this comment's savepoint and goes on. *)
AskingFails(k) ==
  /\ sweep[k].stage = "asking"
  /\ sweep' = [sweep EXCEPT ![k].stage = "walking", ![k].asked = {}]
  /\ UNCHANGED <<database, lock, request, overlapped, faults>>

(* The update waits for the row and holds it until the sweep commits. *)
UpdateValidity(k) ==
  /\ sweep[k].stage = "updating"
  /\ lock \subseteq {k}
  /\ lock' = {k}
  /\ sweep' = [sweep EXCEPT ![k] = [@ EXCEPT !.stage = "walking", !.wrote = TRUE,
                                             !.seen = {sweep[k].value}]]
  /\ UNCHANGED <<database, request, overlapped, faults>>

(* One commit after the whole walk. *)
CommitSweep(k) ==
  /\ sweep[k].stage = "walking"
  /\ sweep[k].list = {}
  /\ rows' = rows \cup sweep[k].own
  /\ isValid' = IF sweep[k].wrote THEN sweep[k].value ELSE isValid
  /\ lock' = lock \ {k}
  /\ sweep' = [sweep EXCEPT ![k] = NoSweep]
  /\ UNCHANGED <<text, stored, request, overlapped, faults>>

(* The worker dies anywhere in its walk, and the whole walk is lost. *)
SweepDies(k) ==
  /\ Running(k)
  /\ faults < MaxFaults
  /\ lock' = lock \ {k}
  /\ sweep' = [sweep EXCEPT ![k] = NoSweep]
  /\ faults' = faults + 1
  /\ UNCHANGED <<database, request, overlapped>>

-----------------------------------------------------------------------------
Init ==
  /\ text = [q \in Questions |-> {}]
  /\ rows = {}
  /\ stored = FALSE
  /\ isValid = FALSE
  /\ lock = {}
  /\ request = [r \in Requests |-> NewRequest]
  /\ sweep = [k \in Sweeps |-> NoSweep]
  /\ overlapped = FALSE
  /\ faults = 0

Submitting(r) ==
  \/ Begin(r) \/ Judge(r) \/ GiveUp(r)
  \/ WriteAnswers(r) \/ RefuseWrite(r) \/ RecomputeAtSubmit(r) \/ CommitSubmission(r)

Sweeping(k) ==
  \/ StartSweep(k)
  \/ \E q \in Questions : AskAgain(k, q)
  \/ \E kind \in Kinds : ModelAnswers(k, kind) \/ FloorAnswers(k, kind)
  \/ AskingFails(k) \/ UpdateValidity(k) \/ CommitSweep(k) \/ SweepDies(k)

Next == (\E r \in Requests : Submitting(r)) \/ (\E k \in Sweeps : Sweeping(k))

Spec == Init /\ [][Next]_vars

(* The beat starts a sweep every hour, a request is answered, a walk that  *)
(* its worker survives goes on to its commit, and a provider asked for     *)
(* ever about a comment judges it in the end.                              *)
Fairness ==
  /\ \A r \in Requests :
       WF_vars(Judge(r) \/ GiveUp(r) \/ WriteAnswers(r) \/ RefuseWrite(r)
               \/ RecomputeAtSubmit(r) \/ CommitSubmission(r))
  /\ \A k \in Sweeps :
       /\ WF_vars(StartSweep(k))
       /\ WF_vars(\/ \E q \in Questions : AskAgain(k, q)
                  \/ \E kind \in Kinds : ModelAnswers(k, kind)
                  \/ AskingFails(k) \/ UpdateValidity(k) \/ CommitSweep(k))
       /\ \A q \in Questions :
            SF_vars(/\ \E a \in sweep[k].asked : a[1] = q
                    /\ \E kind \in Kinds : ModelAnswers(k, kind))

FairSpec == Spec /\ Fairness

-----------------------------------------------------------------------------
(* Properties. *)

TypeOK ==
  /\ text \in [Questions -> SUBSET Requests]
  /\ \A q \in Questions : Cardinality(text[q]) <= 1
  /\ rows \in SUBSET Row
  /\ stored \in BOOLEAN
  /\ isValid \in BOOLEAN
  /\ lock \in SUBSET (Requests \cup Sweeps) /\ Cardinality(lock) <= 1
  /\ request \in [Requests -> Request]
  /\ sweep \in [Sweeps -> Sweep]
  /\ overlapped \in BOOLEAN
  /\ faults \in 0..MaxFaults

(* What is stored is one submission, whole: comments of two requests never *)
(* stand side by side, whichever of them was begun, judged or committed    *)
(* first.                                                                  *)
OneSubmissionWhole ==
  \A p, q \in Questions : \A t \in text[p], u \in text[q] : t = u

(* is_valid says what the latest verdicts of the stored comments say, and  *)
(* nothing else, although it is written from a value read earlier and only *)
(* where it differs from one read earlier still.                           *)
ValidityFollowsVerdicts ==
  stored => isValid = Validity(Answered, rows)

(* A student is not penalized for words a later submission replaced: when  *)
(* a refusal governs a comment, it is about the stored wording, and that   *)
(* wording was stored on the floor.                                        *)
RefusalIsAboutStoredText ==
  \A v \in LatestVerdicts(Answered, rows) :
    v.kind = "refused" =>
      /\ v.of \in text[v.question]
      /\ \E u \in rows : /\ u.question = v.question /\ u.of = v.of
                         /\ u.source = "floor" /\ u.kind = "accepted"

(* The two of them, for as long as no sweep has overlapped a request or    *)
(* another sweep: requests may overlap each other in any way.              *)
SweepsApartKeepValidity ==
  ~ overlapped => ValidityFollowsVerdicts /\ RefusalIsAboutStoredText

(* Accepted on the floor, then classified: a stored comment is judged by a *)
(* model in the end, whatever the provider and the workers do at first.    *)
FlooredIsJudged ==
  \A q \in Questions :
    text[q] # {} ~> \E v \in rows : v.question = q /\ v.source = "model"

(* The stored wording was judged by a model, or the sweep will find it.    *)
FloorIsRevisited ==
  \A q \in Questions : \A t \in text[q] :
    \/ q \in UnresolvedFloored
    \/ \E v \in rows : v.question = q /\ v.of = t /\ v.source = "model"

=============================================================================
