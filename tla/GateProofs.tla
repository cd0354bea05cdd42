----------------------------- MODULE GateProofs -----------------------------
(***************************************************************************)
(* Proofs about the submission gate: for every set of questions, requests  *)
(* and sweeps, a student has one whole response, and as long as no sweep   *)
(* runs beside a request the validity it stores is what its latest         *)
(* verdicts say.                                                           *)
(***************************************************************************)
EXTENDS SubmissionGate, FiniteNumbers

(* Types.                                                                  *)
GateTypeOK ==
  /\ text \in [Questions -> SUBSET Requests]
  /\ rows \subseteq Row /\ IsFiniteSet(rows)
  /\ stored \in BOOLEAN /\ isValid \in BOOLEAN /\ overlapped \in BOOLEAN
  /\ lock \subseteq Requests \cup Sweeps
  /\ request \in [Requests -> Request] /\ \A r \in Requests : IsFiniteSet(request[r].own)
  /\ sweep \in [Sweeps -> Sweep] /\ \A k \in Sweeps : IsFiniteSet(sweep[k].own)

(* A request that writes has the row, and sent every comment stored.       *)
WritersHoldTheRow ==
  \A r \in Requests : request[r].stage \in {"writing", "recomputed"} =>
     lock = {r} /\ Answered \subseteq Submitted(r)

WholeInv == GateTypeOK /\ WritersHoldTheRow /\ OneSubmissionWhole

-----------------------------------------------------------------------------
(* What a request brings is an acceptance of its own wording.              *)
OwnAccepted ==
  \A r \in Requests :
     /\ request[r].stage \in {"new", "begun", "done"} => request[r].own = {} /\ ~ request[r].found
     /\ \A v \in request[r].own : v.of = r /\ v.kind = "accepted" /\ v.at = request[r].at

(* Every stored wording was accepted when it was stored.                   *)
StoredWasAccepted ==
  \A q \in Questions : \A t \in text[q] :
     \E u \in rows : u.question = q /\ u.of = t /\ u.kind = "accepted"

SweepRunsAlone ==
  \A k \in Sweeps : Running(k) =>
     /\ \A r \in Requests : ~ Open(r)
     /\ \A j \in Sweeps : Running(j) => j = k

(* No refusal is as late as a request in progress.                         *)
RefusalsAreEarlier ==
  \A r \in Requests : Open(r) => \A v \in rows : v.kind = "refused" => v.at < request[r].at

(* What a request reckons with.                                            *)
RequestReckons ==
  \A r \in Requests :
     /\ request[r].stage = "recomputed" => request[r].value
     /\ request[r].found /\ request[r].seen => isValid

(* A refused wording that is stored and that the floor had accepted.       *)
AboutStoredText(v) ==
  /\ v.of \in text[v.question]
  /\ \E u \in rows : /\ u.question = v.question /\ u.of = v.of
                     /\ u.source = "floor" /\ u.kind = "accepted"

(* What a sweep has listed, asked and answered.                            *)
Asks(t) ==
  /\ t.list \subseteq UnresolvedFloored
  /\ \A a \in t.asked : a[1] \in UnresolvedFloored /\ a[2] \in text[a[1]]
  /\ \A v \in t.own : v.kind = "refused" => AboutStoredText(v)

(* What it will leave in the row is what the verdicts will say.            *)
Reckons(t) ==
  /\ t.seen = {} => t.own = {} /\ ~ t.wrote /\ t.stage # "updating"
  /\ t.seen # {} =>
       /\ t.value = Validity(Answered, rows \cup t.own)
       /\ t.stage # "updating" => t.seen = {t.value}
       /\ ~ t.wrote => t.seen = {isValid}

SweepReckons == \A k \in Sweeps : Running(k) => Asks(sweep[k]) /\ Reckons(sweep[k])

Apart ==
  /\ SweepRunsAlone /\ SweepReckons
  /\ RefusalsAreEarlier /\ RequestReckons
  /\ ValidityFollowsVerdicts /\ RefusalIsAboutStoredText

ApartInv ==
  /\ WholeInv /\ OwnAccepted /\ StoredWasAccepted
  /\ ~ overlapped => Apart

-----------------------------------------------------------------------------
LEMMA RequestShape ==
  ASSUME NEW t \in Request
  PROVE  /\ t = [stage |-> t.stage, at |-> t.at, own |-> t.own, found |-> t.found,
                 seen |-> t.seen, value |-> t.value]
         /\ t.stage \in {"new", "begun", "judged", "writing", "recomputed", "done"}
         /\ t.at \in Nat /\ t.own \subseteq Row
         /\ t.found \in BOOLEAN /\ t.seen \in BOOLEAN /\ t.value \in BOOLEAN
  BY DEF Request

LEMMA RequestIs ==
  ASSUME NEW stage \in {"new", "begun", "judged", "writing", "recomputed", "done"}, NEW at \in Nat,
         NEW own \in SUBSET Row, NEW found \in BOOLEAN, NEW seen \in BOOLEAN, NEW value \in BOOLEAN,
         NEW t, t = [stage |-> stage, at |-> at, own |-> own, found |-> found, seen |-> seen, value |-> value]
  PROVE  /\ t \in Request
         /\ t.stage = stage /\ t.at = at /\ t.own = own
         /\ t.found = found /\ t.seen = seen /\ t.value = value
<1>1. t \in Request
  BY Zenon DEF Request
<1> QED  BY <1>1

LEMMA SweepIs ==
  ASSUME NEW stage \in {"idle", "walking", "asking", "updating"}, NEW at \in Nat,
         NEW list \in SUBSET Questions, NEW asked \in SUBSET (Questions \X Requests),
         NEW own \in SUBSET Row, NEW seen \in SUBSET BOOLEAN, NEW value \in BOOLEAN, NEW wrote \in BOOLEAN,
         NEW t, t = [stage |-> stage, at |-> at, list |-> list, asked |-> asked, own |-> own,
                     seen |-> seen, value |-> value, wrote |-> wrote]
  PROVE  /\ t \in Sweep
         /\ t.stage = stage /\ t.at = at /\ t.list = list /\ t.asked = asked /\ t.own = own
         /\ t.seen = seen /\ t.value = value /\ t.wrote = wrote
<1>1. t \in Sweep
  BY Zenon DEF Sweep
<1> QED  BY <1>1

LEMMA SweepShape ==
  ASSUME NEW t \in Sweep
  PROVE  /\ t = [stage |-> t.stage, at |-> t.at, list |-> t.list, asked |-> t.asked, own |-> t.own,
                 seen |-> t.seen, value |-> t.value, wrote |-> t.wrote]
         /\ t.stage \in {"idle", "walking", "asking", "updating"}
         /\ t.at \in Nat /\ t.list \subseteq Questions /\ t.asked \subseteq Questions \X Requests
         /\ t.own \subseteq Row /\ t.seen \subseteq BOOLEAN
         /\ t.value \in BOOLEAN /\ t.wrote \in BOOLEAN
  BY DEF Sweep

(* now() is later than everything that left a trace.                       *)
LEMMA NowIsLater ==
  ASSUME GateTypeOK
  PROVE  /\ Now \in Nat
         /\ \A v \in rows : v.at < Now
         /\ \A r \in Requests : Open(r) => request[r].at < Now
         /\ \A k \in Sweeps : Running(k) => sweep[k].at < Now
<1> DEFINE A == {v.at : v \in rows}
           B == {request[r].at : r \in {q \in Requests : Open(q)}}
           C == {sweep[k].at : k \in {j \in Sweeps : Running(j)}}
           S == Stamps \cup {0}
<1>1. IsFiniteSet(A)
  <2> DEFINE f == [v \in rows |-> v.at]
  <2>1. A = {f[v] : v \in rows}
    OBVIOUS
  <2> HIDE DEF A, f
  <2> QED  BY <2>1, FiniteImage DEF GateTypeOK
<1>2. IsFiniteSet(B)
  <2> DEFINE D == {q \in Requests : Open(q)}
             f == [r \in D |-> request[r].at]
  <2>1. IsFiniteSet(D)
    BY GateAssumption, FS_Subset
  <2>2. B = {f[r] : r \in D}
    OBVIOUS
  <2> HIDE DEF B, D, f
  <2> QED  BY <2>1, <2>2, FiniteImage
<1>3. IsFiniteSet(C)
  <2> DEFINE D == {j \in Sweeps : Running(j)}
             f == [k \in D |-> sweep[k].at]
  <2>1. IsFiniteSet(D)
    BY GateAssumption, FS_Subset
  <2>2. C = {f[k] : k \in D}
    OBVIOUS
  <2> HIDE DEF C, D, f
  <2> QED  BY <2>1, <2>2, FiniteImage
<1>4. Stamps = A \cup B \cup C
  BY DEF Stamps
<1>5. A \subseteq Nat
  BY DEF GateTypeOK, Row
<1>6. B \subseteq Nat
  BY RequestShape DEF GateTypeOK
<1>7. C \subseteq Nat
  BY SweepShape DEF GateTypeOK
<1>8. IsFiniteSet(S) /\ S \subseteq Nat /\ S # {}
  <2> HIDE DEF A, B, C
  <2>1. IsFiniteSet(Stamps)
    BY <1>1, <1>2, <1>3, <1>4, FS_Union
  <2> QED  BY <2>1, <1>4, <1>5, <1>6, <1>7, FS_AddElement
<1>9. Max(S) \in Nat /\ \A x \in S : x <= Max(S)
  <2> HIDE DEF S
  <2> QED  BY <1>8, MaxOfFinite
<1>10. Now = Max(S) + 1
  BY DEF Now
<1>11. \A x \in A \cup B \cup C : x \in Nat /\ x <= Max(S)
  BY <1>4, <1>5, <1>6, <1>7, <1>9
<1> HIDE DEF S
<1>12. \A x \in A \cup B \cup C : x < Now
  <2> HIDE DEF A, B, C
  <2> QED  BY <1>9, <1>10, <1>11
<1> QED  BY <1>9, <1>10, <1>12

-----------------------------------------------------------------------------
(* One request goes on, and nothing is stored.                             *)
LEMMA RequestGoes ==
  ASSUME WholeInv, NEW r \in Requests, NEW t \in Request, IsFiniteSet(t.own),
         request' = [request EXCEPT ![r] = t], UNCHANGED <<database, sweep>>,
         lock' \subseteq Requests \cup Sweeps, overlapped' \in BOOLEAN,
         \A q \in Requests : q # r /\ lock = {q} => lock' = {q},
         t.stage \in {"writing", "recomputed"} => lock' = {r} /\ Answered \subseteq {v.question : v \in t.own}
  PROVE  /\ WholeInv'
         /\ request'[r] = t /\ \A q \in Requests : q # r => request'[q] = request[q]
<1> USE DEF database
<1>1. request'[r] = t /\ \A q \in Requests : q # r => request'[q] = request[q]
  BY DEF WholeInv, GateTypeOK
<1>2. GateTypeOK'
  <2>1. request' \in [Requests -> Request]
    BY DEF WholeInv, GateTypeOK
  <2>2. \A q \in Requests : IsFiniteSet(request'[q].own)
    BY <1>1 DEF WholeInv, GateTypeOK
  <2> QED  BY <2>1, <2>2 DEF WholeInv, GateTypeOK
<1>3. WritersHoldTheRow'
  <2> SUFFICES ASSUME NEW q \in Requests, request'[q].stage \in {"writing", "recomputed"}
               PROVE  lock' = {q} /\ Answered' \subseteq Submitted(q)'
    BY DEF WritersHoldTheRow
  <2>1. Answered' = Answered
    BY DEF Answered
  <2>2. CASE q = r
    BY <1>1, <2>1, <2>2 DEF Submitted
  <2>3. CASE q # r
    BY <1>1, <2>1, <2>3 DEF Submitted, WholeInv, WritersHoldTheRow
  <2> QED  BY <2>2, <2>3
<1>4. OneSubmissionWhole'
  BY DEF WholeInv, OneSubmissionWhole
<1> QED  BY <1>1, <1>2, <1>3, <1>4 DEF WholeInv

(* A sweep goes on, and no text is stored.                                 *)
LEMMA SweepGoes ==
  ASSUME WholeInv, NEW k \in Sweeps, NEW t \in Sweep, IsFiniteSet(t.own),
         sweep' = [sweep EXCEPT ![k] = t], UNCHANGED <<text, stored, request>>,
         rows' \subseteq Row, IsFiniteSet(rows'), isValid' \in BOOLEAN, overlapped' \in BOOLEAN,
         lock' \subseteq Requests \cup Sweeps,
         \A q \in Requests : lock = {q} => lock' = {q}
  PROVE  /\ WholeInv'
         /\ sweep'[k] = t /\ \A j \in Sweeps : j # k => sweep'[j] = sweep[j]
<1>1. sweep'[k] = t /\ \A j \in Sweeps : j # k => sweep'[j] = sweep[j]
  BY DEF WholeInv, GateTypeOK
<1>2. GateTypeOK'
  <2>1. sweep' \in [Sweeps -> Sweep]
    BY DEF WholeInv, GateTypeOK
  <2>2. \A j \in Sweeps : IsFiniteSet(sweep'[j].own)
    BY <1>1 DEF WholeInv, GateTypeOK
  <2> QED  BY <2>1, <2>2 DEF WholeInv, GateTypeOK
<1>3. WritersHoldTheRow'
  <2>1. Answered' = Answered
    BY DEF Answered
  <2>2. \A q \in Requests : Submitted(q)' = Submitted(q)
    BY DEF Submitted
  <2> QED  BY <2>1, <2>2 DEF WholeInv, WritersHoldTheRow
<1>4. OneSubmissionWhole'
  BY DEF WholeInv, OneSubmissionWhole
<1> QED  BY <1>1, <1>2, <1>3, <1>4 DEF WholeInv

(* The states a request and a sweep begin and end in.                      *)
LEMMA NewRequestIs ==
  ASSUME NEW stage \in {"new", "done"}, NEW no \in BOOLEAN, NEW yes \in BOOLEAN, NEW t,
         t = [stage |-> stage, at |-> 0, own |-> {}, found |-> no, seen |-> yes, value |-> yes]
  PROVE  t \in Request /\ t.own = {} /\ IsFiniteSet(t.own) /\ t.stage = stage /\ t.found = no
<1>1. 0 \in Nat /\ {} \in SUBSET Row /\ stage \in {"new", "begun", "judged", "writing", "recomputed", "done"}
  OBVIOUS
<1>2. t \in Request /\ t.own = {} /\ t.stage = stage /\ t.found = no
  BY <1>1, RequestIs
<1> QED  BY <1>2, FS_EmptySet

LEMMA NewRequestIsNew == NewRequest \in Request /\ NewRequest.own = {} /\ NewRequest.stage = "new" /\ ~ NewRequest.found
                           /\ IsFiniteSet(NewRequest.own)
<1>1. PICK no \in BOOLEAN, yes \in BOOLEAN : no = FALSE /\ yes = TRUE
  BY Zenon
<1>2. NewRequest = [stage |-> "new", at |-> 0, own |-> {}, found |-> no, seen |-> yes, value |-> yes]
  BY <1>1, Zenon DEF NewRequest
<1>3. NewRequest \in Request /\ NewRequest.own = {} /\ NewRequest.stage = "new" /\ NewRequest.found = no
        /\ IsFiniteSet(NewRequest.own)
  BY <1>2, NewRequestIs
<1> QED  BY <1>1, <1>3, Zenon

LEMMA DoneIs ==
  ASSUME NEW t, t = [NewRequest EXCEPT !.stage = "done"]
  PROVE  t \in Request /\ t.own = {} /\ IsFiniteSet(t.own) /\ t.stage = "done" /\ ~ t.found
<1>1. PICK no \in BOOLEAN, yes \in BOOLEAN : no = FALSE /\ yes = TRUE
  BY Zenon
<1>2. NewRequest = [stage |-> "new", at |-> 0, own |-> {}, found |-> no, seen |-> yes, value |-> yes]
  BY <1>1, Zenon DEF NewRequest
<1>3. t = [stage |-> "done", at |-> 0, own |-> {}, found |-> no, seen |-> yes, value |-> yes]
  BY <1>2
<1>4. t \in Request /\ t.own = {} /\ IsFiniteSet(t.own) /\ t.stage = "done" /\ t.found = no
  BY <1>3, NewRequestIs
<1> QED  BY <1>1, <1>4, Zenon

LEMMA NoSweepIs ==
  NoSweep \in Sweep /\ NoSweep.own = {} /\ NoSweep.stage = "idle" /\ IsFiniteSet(NoSweep.own)
<1>1. PICK no \in BOOLEAN, yes \in BOOLEAN : no = FALSE /\ yes = TRUE
  BY Zenon
<1>2. NoSweep = [stage |-> "idle", at |-> 0, list |-> {}, asked |-> {}, own |-> {}, seen |-> {},
                 value |-> yes, wrote |-> no]
  BY <1>1, Zenon DEF NoSweep
<1>3. /\ 0 \in Nat /\ {} \in SUBSET Row /\ {} \in SUBSET Questions /\ {} \in SUBSET BOOLEAN
      /\ {} \in SUBSET (Questions \X Requests) /\ "idle" \in {"idle", "walking", "asking", "updating"}
  OBVIOUS
<1> QED  BY <1>2, <1>3, SweepIs, FS_EmptySet

(* What each step of a request leaves of it.                               *)
LEMMA Begun ==
  ASSUME GateTypeOK, NEW r \in Requests, Begin(r)
  PROVE  \E t \in Request : /\ request' = [request EXCEPT ![r] = t]
                            /\ t.stage = "begun" /\ t.at = Now
                            /\ t.own = request[r].own /\ t.found = request[r].found
<1> DEFINE u == request[r]
<1>1. u \in Request
  BY DEF GateTypeOK
<1>2. PICK t : t = [u EXCEPT !.stage = "begun", !.at = Now]
  OBVIOUS
<1>3. request' = [request EXCEPT ![r] = t]
  BY <1>2 DEF Begin, GateTypeOK
<1>4. t = [stage |-> "begun", at |-> Now, own |-> u.own, found |-> u.found, seen |-> u.seen, value |-> u.value]
  <2>1. u = [stage |-> u.stage, at |-> u.at, own |-> u.own, found |-> u.found, seen |-> u.seen, value |-> u.value]
    BY <1>1, RequestShape
  <2> HIDE DEF u
  <2> QED  BY <1>2, <2>1
<1>5. t \in Request /\ t.stage = "begun" /\ t.at = Now /\ t.own = u.own /\ t.found = u.found
  <2> HIDE DEF u
  <2> QED  BY <1>1, <1>4, RequestShape, RequestIs, NowIsLater
<1> QED  BY <1>3, <1>5

LEMMA Judged ==
  ASSUME GateTypeOK, NEW r \in Requests, Judge(r)
  PROVE  \E t \in Request : /\ request' = [request EXCEPT ![r] = t]
                            /\ t.stage = "judged" /\ t.at = request[r].at /\ IsFiniteSet(t.own)
                            /\ \A v \in t.own : v.of = r /\ v.kind = "accepted" /\ v.at = t.at
                            /\ t.found = stored /\ (t.found /\ t.seen => isValid)
<1> DEFINE u == request[r]
<1>1. u \in Request
  BY DEF GateTypeOK
<1>2. PICK S \in SUBSET Questions : \E source \in [S -> {"model", "floor"}] :
        request' = [request EXCEPT ![r] = [u EXCEPT
              !.stage = "judged",
              !.own = {[question |-> q, of |-> r, kind |-> "accepted",
                        source |-> source[q], at |-> u.at] : q \in S},
              !.found = stored,
              !.seen = IF stored THEN isValid ELSE TRUE]]
  BY Zenon DEF Judge
<1>3. PICK source \in [S -> {"model", "floor"}] :
        request' = [request EXCEPT ![r] = [u EXCEPT
              !.stage = "judged",
              !.own = {[question |-> q, of |-> r, kind |-> "accepted",
                        source |-> source[q], at |-> u.at] : q \in S},
              !.found = stored,
              !.seen = IF stored THEN isValid ELSE TRUE]]
  BY <1>2, Zenon
<1>4. PICK own : own = {[question |-> q, of |-> r, kind |-> "accepted",
                         source |-> source[q], at |-> u.at] : q \in S}
  OBVIOUS
<1>5. PICK seen : seen = IF stored THEN isValid ELSE TRUE
  BY Zenon
<1>6. seen \in BOOLEAN /\ (stored /\ seen => isValid) /\ stored \in BOOLEAN
  BY <1>5, Zenon DEF GateTypeOK
<1>7. PICK t : t = [u EXCEPT !.stage = "judged", !.own = own, !.found = stored, !.seen = seen]
  OBVIOUS
<1>8. request' = [request EXCEPT ![r] = t]
  BY <1>3, <1>4, <1>5, <1>7, Zenon
<1>9. own \in SUBSET Row
  BY <1>1, <1>4, RequestShape DEF Row, Kinds
<1>10. \A v \in own : v.of = r /\ v.kind = "accepted" /\ v.at = u.at
  BY <1>4
<1>11. IsFiniteSet(own)
  <2> DEFINE f == [q \in S |-> [question |-> q, of |-> r, kind |-> "accepted", source |-> source[q], at |-> u.at]]
  <2>1. own = {f[q] : q \in S}
    BY <1>4
  <2>2. IsFiniteSet(S)
    BY GateAssumption, FS_Subset
  <2> HIDE DEF f
  <2> QED  BY <2>1, <2>2, FiniteImage
<1>12. t = [stage |-> "judged", at |-> u.at, own |-> own, found |-> stored, seen |-> seen, value |-> u.value]
  <2>1. u = [stage |-> u.stage, at |-> u.at, own |-> u.own, found |-> u.found, seen |-> u.seen, value |-> u.value]
    BY <1>1, RequestShape
  <2> HIDE DEF u
  <2> QED  BY ONLY <1>7, <2>1
<1>13. t \in Request /\ t.stage = "judged" /\ t.at = u.at /\ t.own = own /\ t.found = stored /\ t.seen = seen
  <2>1. u.at \in Nat /\ u.value \in BOOLEAN /\ "judged" \in {"new", "begun", "judged", "writing", "recomputed", "done"}
    BY <1>1, RequestShape
  <2> HIDE DEF u
  <2> QED  BY <1>6, <1>9, <1>12, <2>1, RequestIs
<1> QED  BY <1>6, <1>8, <1>10, <1>11, <1>13, Zenon

LEMMA Wrote ==
  ASSUME GateTypeOK, NEW r \in Requests, WriteAnswers(r)
  PROVE  \E t \in Request : /\ request' = [request EXCEPT ![r] = t]
                            /\ t.stage = "writing" /\ t.at = request[r].at /\ t.own = request[r].own
                            /\ t.found = request[r].found /\ t.seen = request[r].seen
<1> DEFINE u == request[r]
<1>1. u \in Request
  BY DEF GateTypeOK
<1>2. PICK t : t = [u EXCEPT !.stage = "writing"]
  OBVIOUS
<1>3. request' = [request EXCEPT ![r] = t]
  BY <1>2 DEF WriteAnswers, GateTypeOK
<1>4. t = [stage |-> "writing", at |-> u.at, own |-> u.own, found |-> u.found, seen |-> u.seen, value |-> u.value]
  BY <1>1, <1>2, RequestShape
<1>5. t \in Request /\ t.stage = "writing" /\ t.at = u.at /\ t.own = u.own /\ t.found = u.found /\ t.seen = u.seen
  <2> HIDE DEF u
  <2> QED  BY <1>1, <1>4, RequestShape, RequestIs
<1> QED  BY <1>3, <1>5

LEMMA Recomputed ==
  ASSUME GateTypeOK, NEW r \in Requests, RecomputeAtSubmit(r)
  PROVE  \E t \in Request : /\ request' = [request EXCEPT ![r] = t]
                            /\ t.stage = "recomputed" /\ t.at = request[r].at /\ t.own = request[r].own
                            /\ t.found = request[r].found /\ t.seen = request[r].seen
                            /\ t.value = Validity(Submitted(r), rows \cup request[r].own)
<1> DEFINE u == request[r]
<1>1. u \in Request
  BY DEF GateTypeOK
<1>2. PICK value \in BOOLEAN : value = Validity(Submitted(r), rows \cup u.own)
  BY Zenon DEF Validity
<1>3. PICK t : t = [u EXCEPT !.stage = "recomputed", !.value = value]
  OBVIOUS
<1>4. request' = [request EXCEPT ![r].stage = "recomputed", ![r].value = value]
  BY <1>2, Zenon DEF RecomputeAtSubmit
<1>5. request' = [request EXCEPT ![r] = t]
  BY <1>3, <1>4 DEF GateTypeOK
<1>6. t = [stage |-> "recomputed", at |-> u.at, own |-> u.own, found |-> u.found, seen |-> u.seen, value |-> value]
  <2>1. u = [stage |-> u.stage, at |-> u.at, own |-> u.own, found |-> u.found, seen |-> u.seen, value |-> u.value]
    BY <1>1, RequestShape
  <2> HIDE DEF u
  <2> QED  BY ONLY <1>3, <2>1
<1>7. t \in Request /\ t.stage = "recomputed" /\ t.at = u.at /\ t.own = u.own /\ t.found = u.found
        /\ t.seen = u.seen /\ t.value = value
  <2> HIDE DEF u
  <2> QED  BY <1>1, <1>6, RequestShape, RequestIs
<1> QED  BY <1>2, <1>5, <1>7, Zenon

(* What each step of a sweep leaves of it.                                 *)
LEMMA SweepFields ==
  ASSUME GateTypeOK, NEW k \in Sweeps
  PROVE  LET u == sweep[k] IN
         /\ u \in Sweep /\ IsFiniteSet(u.own)
         /\ u = [stage |-> u.stage, at |-> u.at, list |-> u.list, asked |-> u.asked, own |-> u.own,
                 seen |-> u.seen, value |-> u.value, wrote |-> u.wrote]
         /\ u.at \in Nat /\ u.list \in SUBSET Questions /\ u.asked \in SUBSET (Questions \X Requests)
         /\ u.own \in SUBSET Row /\ u.seen \in SUBSET BOOLEAN /\ u.value \in BOOLEAN /\ u.wrote \in BOOLEAN
         /\ DOMAIN sweep = Sweeps
<1>1. sweep[k] \in Sweep /\ IsFiniteSet(sweep[k].own) /\ DOMAIN sweep = Sweeps
  BY DEF GateTypeOK
<1> QED  BY <1>1, SweepShape

LEMMA SweepStarted ==
  ASSUME GateTypeOK, NEW k \in Sweeps, StartSweep(k)
  PROVE  \E t \in Sweep : /\ sweep' = [sweep EXCEPT ![k] = t]
                          /\ t.stage = "walking" /\ t.list = UnresolvedFloored /\ t.asked = {} /\ t.own = {}
                          /\ t.seen = {} /\ ~ t.wrote /\ IsFiniteSet(t.own)
<1>1. PICK no \in BOOLEAN, yes \in BOOLEAN : no = FALSE /\ yes = TRUE
  BY Zenon
<1>2. NoSweep = [stage |-> "idle", at |-> 0, list |-> {}, asked |-> {}, own |-> {}, seen |-> {},
                 value |-> yes, wrote |-> no]
  BY <1>1, Zenon DEF NoSweep
<1>3. PICK t : t = [NoSweep EXCEPT !.stage = "walking", !.at = Now, !.list = UnresolvedFloored]
  OBVIOUS
<1>4. sweep' = [sweep EXCEPT ![k] = t]
  BY <1>3, Zenon DEF StartSweep
<1>5. t = [stage |-> "walking", at |-> Now, list |-> UnresolvedFloored, asked |-> {}, own |-> {}, seen |-> {},
           value |-> yes, wrote |-> no]
  BY <1>2, <1>3
<1>6. UnresolvedFloored \in SUBSET Questions /\ Now \in Nat
  BY NowIsLater DEF UnresolvedFloored
<1>7. {} \in SUBSET Row /\ {} \in SUBSET BOOLEAN /\ {} \in SUBSET (Questions \X Requests)
  OBVIOUS
<1>8. /\ t \in Sweep /\ t.stage = "walking" /\ t.list = UnresolvedFloored /\ t.asked = {} /\ t.own = {}
      /\ t.seen = {} /\ t.wrote = no
  BY <1>5, <1>6, <1>7, SweepIs
<1> QED  BY <1>1, <1>4, <1>8, FS_EmptySet, Zenon

LEMMA SweepAsked ==
  ASSUME GateTypeOK, NEW k \in Sweeps, NEW q \in Questions, AskAgain(k, q)
  PROVE  \E t \in Sweep : /\ sweep' = [sweep EXCEPT ![k] = t]
                          /\ t.stage = "asking" /\ t.list = sweep[k].list \ {q} /\ t.asked = {q} \X text[q]
                          /\ t.own = sweep[k].own /\ t.seen = sweep[k].seen
                          /\ t.value = sweep[k].value /\ t.wrote = sweep[k].wrote
<1> DEFINE u == sweep[k]
<1>1. /\ u = [stage |-> u.stage, at |-> u.at, list |-> u.list, asked |-> u.asked, own |-> u.own,
              seen |-> u.seen, value |-> u.value, wrote |-> u.wrote]
      /\ u.at \in Nat /\ u.list \in SUBSET Questions
      /\ u.own \in SUBSET Row /\ u.seen \in SUBSET BOOLEAN /\ u.value \in BOOLEAN /\ u.wrote \in BOOLEAN
      /\ DOMAIN sweep = Sweeps
  BY SweepFields
<1>2. PICK list, asked : list = u.list \ {q} /\ asked = {q} \X text[q]
  OBVIOUS
<1>3. PICK t : t = [u EXCEPT !.stage = "asking", !.list = list, !.asked = asked]
  OBVIOUS
<1>4. sweep' = [sweep EXCEPT ![k].stage = "asking", ![k].list = list, ![k].asked = asked]
  BY <1>2 DEF AskAgain
<1>5. sweep' = [sweep EXCEPT ![k] = t]
  BY <1>1, <1>3, <1>4
<1>6. list \in SUBSET Questions /\ asked \in SUBSET (Questions \X Requests)
  BY <1>1, <1>2 DEF GateTypeOK
<1>7. t = [stage |-> "asking", at |-> u.at, list |-> list, asked |-> asked, own |-> u.own,
           seen |-> u.seen, value |-> u.value, wrote |-> u.wrote]
  <2> HIDE DEF u
  <2> QED  BY ONLY <1>1, <1>3
<1>8. /\ t \in Sweep /\ t.stage = "asking" /\ t.list = list /\ t.asked = asked /\ t.own = u.own
      /\ t.seen = u.seen /\ t.value = u.value /\ t.wrote = u.wrote
  <2> HIDE DEF u
  <2> QED  BY <1>1, <1>6, <1>7, SweepIs
<1> QED  BY <1>2, <1>5, <1>8

LEMMA SweepRecorded ==
  ASSUME GateTypeOK, NEW k \in Sweeps, NEW v \in Row, RecordVerdict(k, v)
  PROVE  \E t \in Sweep : /\ sweep' = [sweep EXCEPT ![k] = t]
                          /\ t.list = sweep[k].list /\ t.asked = {} /\ t.own = sweep[k].own \cup {v}
                          /\ t.seen = IF sweep[k].seen = {} THEN {isValid} ELSE sweep[k].seen
                          /\ t.value = Validity(Answered, rows \cup t.own)
                          /\ t.stage = IF t.value \in t.seen THEN "walking" ELSE "updating"
                          /\ t.wrote = sweep[k].wrote /\ IsFiniteSet(t.own)
<1> DEFINE u == sweep[k]
<1>1. /\ u = [stage |-> u.stage, at |-> u.at, list |-> u.list, asked |-> u.asked, own |-> u.own,
              seen |-> u.seen, value |-> u.value, wrote |-> u.wrote]
      /\ u.at \in Nat /\ u.list \in SUBSET Questions
      /\ u.own \in SUBSET Row /\ u.seen \in SUBSET BOOLEAN /\ u.wrote \in BOOLEAN
      /\ IsFiniteSet(u.own)
  BY SweepFields
<1>2. PICK own : own = u.own \cup {v}
  OBVIOUS
<1>3. PICK seen : seen = IF u.seen = {} THEN {isValid} ELSE u.seen
  OBVIOUS
<1>4. PICK value \in BOOLEAN : value = Validity(Answered, rows \cup own)
  BY Zenon DEF Validity
<1>5. PICK stage : stage = IF value \in seen THEN "walking" ELSE "updating"
  OBVIOUS
<1>6. PICK t : t = [u EXCEPT !.stage = stage, !.asked = {}, !.own = own, !.seen = seen, !.value = value]
  OBVIOUS
<1>7. sweep' = [sweep EXCEPT ![k] = t]
  BY <1>2, <1>3, <1>4, <1>5, <1>6, Zenon DEF RecordVerdict
<1>8. own \in SUBSET Row /\ IsFiniteSet(own)
  BY <1>1, <1>2, FS_AddElement
<1>9. seen \in SUBSET BOOLEAN
  <2>1. {isValid} \in SUBSET BOOLEAN
    BY Zenon DEF GateTypeOK
  <2>2. u.seen \in SUBSET BOOLEAN
    BY <1>1
  <2> QED  BY <1>3, <2>1, <2>2, Zenon
<1>10. t = [stage |-> stage, at |-> u.at, list |-> u.list, asked |-> {}, own |-> own,
            seen |-> seen, value |-> value, wrote |-> u.wrote]
  <2> HIDE DEF u
  <2> QED  BY ONLY <1>1, <1>6
<1>11. /\ t \in Sweep /\ t.stage = stage /\ t.list = u.list /\ t.asked = {} /\ t.own = own
       /\ t.seen = seen /\ t.value = value /\ t.wrote = u.wrote
  <2>1. {} \in SUBSET (Questions \X Requests) /\ stage \in {"idle", "walking", "asking", "updating"}
    BY <1>5
  <2>2. u.at \in Nat /\ u.list \in SUBSET Questions /\ u.wrote \in BOOLEAN /\ value \in BOOLEAN
    BY <1>1
  <2> HIDE DEF u
  <2>3. t \in Sweep
    BY ONLY <1>8, <1>9, <1>10, <2>1, <2>2, Zenon DEF Sweep
  <2>4. /\ t.stage = stage /\ t.list = u.list /\ t.asked = {} /\ t.own = own
        /\ t.seen = seen /\ t.value = value /\ t.wrote = u.wrote
    BY ONLY <1>10
  <2> QED  BY <2>3, <2>4, Zenon
<1> QED  BY <1>2, <1>3, <1>4, <1>5, <1>7, <1>8, <1>11, Zenon

LEMMA SweepTurnedAway ==
  ASSUME GateTypeOK, NEW k \in Sweeps, AskingFails(k)
  PROVE  \E t \in Sweep : /\ sweep' = [sweep EXCEPT ![k] = t]
                          /\ t.stage = "walking" /\ t.list = sweep[k].list /\ t.asked = {}
                          /\ t.own = sweep[k].own /\ t.seen = sweep[k].seen
                          /\ t.value = sweep[k].value /\ t.wrote = sweep[k].wrote
<1> DEFINE u == sweep[k]
<1>1. /\ u = [stage |-> u.stage, at |-> u.at, list |-> u.list, asked |-> u.asked, own |-> u.own,
              seen |-> u.seen, value |-> u.value, wrote |-> u.wrote]
      /\ u.at \in Nat /\ u.list \in SUBSET Questions
      /\ u.own \in SUBSET Row /\ u.seen \in SUBSET BOOLEAN /\ u.value \in BOOLEAN /\ u.wrote \in BOOLEAN
      /\ DOMAIN sweep = Sweeps
  BY SweepFields
<1>2. PICK t : t = [u EXCEPT !.stage = "walking", !.asked = {}]
  OBVIOUS
<1>3. sweep' = [sweep EXCEPT ![k] = t]
  BY <1>1, <1>2 DEF AskingFails
<1>4. t = [stage |-> "walking", at |-> u.at, list |-> u.list, asked |-> {}, own |-> u.own,
           seen |-> u.seen, value |-> u.value, wrote |-> u.wrote]
  <2> HIDE DEF u
  <2> QED  BY ONLY <1>1, <1>2
<1>5. /\ t \in Sweep /\ t.stage = "walking" /\ t.list = u.list /\ t.asked = {} /\ t.own = u.own
      /\ t.seen = u.seen /\ t.value = u.value /\ t.wrote = u.wrote
  <2>1. {} \in SUBSET (Questions \X Requests)
    OBVIOUS
  <2> HIDE DEF u
  <2> QED  BY <1>1, <1>4, <2>1, SweepIs
<1> QED  BY <1>3, <1>5

LEMMA SweepUpdated ==
  ASSUME GateTypeOK, NEW k \in Sweeps, UpdateValidity(k)
  PROVE  \E t \in Sweep : /\ sweep' = [sweep EXCEPT ![k] = t]
                          /\ t.stage = "walking" /\ t.list = sweep[k].list /\ t.asked = sweep[k].asked
                          /\ t.own = sweep[k].own /\ t.seen = {sweep[k].value}
                          /\ t.value = sweep[k].value /\ t.wrote
<1> DEFINE u == sweep[k]
<1>1. /\ u = [stage |-> u.stage, at |-> u.at, list |-> u.list, asked |-> u.asked, own |-> u.own,
              seen |-> u.seen, value |-> u.value, wrote |-> u.wrote]
      /\ u.at \in Nat /\ u.list \in SUBSET Questions /\ u.asked \in SUBSET (Questions \X Requests)
      /\ u.own \in SUBSET Row /\ u.value \in BOOLEAN
  BY SweepFields
<1>2. PICK yes \in BOOLEAN : yes = TRUE
  BY Zenon
<1>3. PICK seen : seen = {u.value}
  OBVIOUS
<1>4. PICK t : t = [u EXCEPT !.stage = "walking", !.wrote = yes, !.seen = seen]
  OBVIOUS
<1>5. sweep' = [sweep EXCEPT ![k] = t]
  BY <1>2, <1>3, <1>4, Zenon DEF UpdateValidity
<1>6. t = [stage |-> "walking", at |-> u.at, list |-> u.list, asked |-> u.asked, own |-> u.own,
           seen |-> seen, value |-> u.value, wrote |-> yes]
  <2> HIDE DEF u
  <2> QED  BY ONLY <1>1, <1>4
<1>7. /\ t \in Sweep /\ t.stage = "walking" /\ t.list = u.list /\ t.asked = u.asked /\ t.own = u.own
      /\ t.seen = seen /\ t.value = u.value /\ t.wrote = yes
  <2>1. seen \in SUBSET BOOLEAN
    BY <1>1, <1>3, Zenon
  <2> HIDE DEF u
  <2> QED  BY <1>1, <1>6, <2>1, SweepIs
<1> QED  BY <1>2, <1>3, <1>5, <1>7, Zenon

-----------------------------------------------------------------------------
LEMMA WholeInit == Init => WholeInv
<1> SUFFICES ASSUME Init PROVE WholeInv
  OBVIOUS
<1>1. GateTypeOK
  <2>1. \A r \in Requests : request[r] = NewRequest
    BY DEF Init
  <2>2. \A k \in Sweeps : sweep[k] = NoSweep
    BY DEF Init
  <2>3. request \in [Requests -> Request] /\ sweep \in [Sweeps -> Sweep]
    BY NewRequestIsNew, NoSweepIs DEF Init
  <2>4. text \in [Questions -> SUBSET Requests] /\ rows = {} /\ lock = {}
    BY DEF Init
  <2>5. stored \in BOOLEAN /\ isValid \in BOOLEAN /\ overlapped \in BOOLEAN
    BY Zenon DEF Init
  <2> QED  BY <2>1, <2>2, <2>3, <2>4, <2>5, NewRequestIsNew, NoSweepIs, FS_EmptySet DEF GateTypeOK
<1>2. WritersHoldTheRow
  BY NewRequestIsNew DEF Init, WritersHoldTheRow
<1>3. OneSubmissionWhole
  BY DEF Init, OneSubmissionWhole
<1> QED  BY <1>1, <1>2, <1>3 DEF WholeInv

(* A submission is stored whole: it holds the row, and leaves nothing of   *)
(* another.                                                                *)
LEMMA CommitIsWhole ==
  ASSUME WholeInv, NEW r \in Requests, CommitSubmission(r)
  PROVE  /\ WholeInv' /\ lock = {r}
         /\ \A q \in Questions : text'[q] = IF q \in Submitted(r) THEN {r} ELSE {}
         /\ \E t \in Request : /\ request' = [request EXCEPT ![r] = t] /\ request'[r] = t
                               /\ t.own = {} /\ t.stage = "done" /\ ~ t.found
         /\ \A q \in Requests : q # r => request'[q] = request[q]
<1>1. request[r].stage = "recomputed" /\ lock = {r} /\ Answered \subseteq Submitted(r)
  BY DEF CommitSubmission, WholeInv, WritersHoldTheRow
<1>2. \A q \in Questions : text'[q] = IF q \in Submitted(r) THEN {r} ELSE text[q]
  BY DEF CommitSubmission
<1>3. \A q \in Questions : text'[q] = IF q \in Submitted(r) THEN {r} ELSE {}
  BY <1>1, <1>2 DEF Answered
<1>4. PICK t : t = [NewRequest EXCEPT !.stage = "done"]
  OBVIOUS
<1>5. t \in Request /\ t.own = {} /\ IsFiniteSet(t.own) /\ t.stage = "done" /\ ~ t.found
  BY <1>4, DoneIs
<1>6. request' = [request EXCEPT ![r] = t]
  BY <1>4, Zenon DEF CommitSubmission
<1>7. request'[r] = t /\ \A q \in Requests : q # r => request'[q] = request[q]
  BY <1>6 DEF WholeInv, GateTypeOK
<1>8. GateTypeOK'
  <2>1. text' \in [Questions -> SUBSET Requests]
    BY <1>2 DEF CommitSubmission, WholeInv, GateTypeOK
  <2>2. rows' \subseteq Row /\ IsFiniteSet(rows')
    BY RequestShape, FS_Union DEF CommitSubmission, WholeInv, GateTypeOK
  <2>3. stored' \in BOOLEAN /\ isValid' \in BOOLEAN /\ overlapped' \in BOOLEAN
    <3>1. request[r].value \in BOOLEAN
      BY RequestShape DEF WholeInv, GateTypeOK
    <3> QED  BY <3>1, Zenon DEF CommitSubmission, WholeInv, GateTypeOK
  <2>4. request' \in [Requests -> Request] /\ \A q \in Requests : IsFiniteSet(request'[q].own)
    BY <1>5, <1>6, <1>7 DEF WholeInv, GateTypeOK
  <2>5. lock' \subseteq Requests \cup Sweeps /\ UNCHANGED sweep
    BY DEF CommitSubmission
  <2> QED  BY <2>1, <2>2, <2>3, <2>4, <2>5 DEF WholeInv, GateTypeOK
<1>9. WritersHoldTheRow'
  <2>1. \A q \in Requests : request'[q].stage \notin {"writing", "recomputed"}
    BY <1>1, <1>5, <1>7 DEF WholeInv, WritersHoldTheRow
  <2> QED  BY <2>1 DEF WritersHoldTheRow
<1>10. OneSubmissionWhole'
  BY <1>3 DEF OneSubmissionWhole
<1> QED  BY <1>1, <1>3, <1>5, <1>6, <1>7, <1>8, <1>9, <1>10 DEF WholeInv

LEMMA RequestStepIsWhole ==
  ASSUME WholeInv, NEW r \in Requests, Submitting(r)
  PROVE  WholeInv'
<1> USE DEF database
<1>0. GateTypeOK /\ overlapped \in BOOLEAN /\ lock \subseteq Requests \cup Sweeps /\ IsFiniteSet(request[r].own)
  BY DEF WholeInv, GateTypeOK
<1>1. CASE Begin(r)
  <2>1. overlapped' \in BOOLEAN
    BY <1>0, <1>1, Zenon DEF Begin
  <2>2. UNCHANGED <<database, lock, sweep>>
    BY <1>1 DEF Begin
  <2>3. PICK t \in Request : /\ request' = [request EXCEPT ![r] = t]
                             /\ t.stage = "begun" /\ t.own = request[r].own
    BY <1>0, <1>1, Begun
  <2> QED  BY <1>0, <2>1, <2>2, <2>3, RequestGoes
<1>2. CASE Judge(r)
  <2>1. UNCHANGED <<database, lock, sweep, overlapped>>
    BY <1>2 DEF Judge
  <2>2. PICK t \in Request : /\ request' = [request EXCEPT ![r] = t]
                             /\ t.stage = "judged" /\ IsFiniteSet(t.own)
    BY <1>0, <1>2, Judged
  <2> QED  BY <1>0, <2>1, <2>2, RequestGoes
<1>3. CASE GiveUp(r)
  <2>1. UNCHANGED <<database, sweep, overlapped>> /\ lock' = lock \ {r}
    BY <1>3 DEF GiveUp
  <2>2. PICK t : t = [NewRequest EXCEPT !.stage = "done"]
    OBVIOUS
  <2>3. request' = [request EXCEPT ![r] = t]
    BY <1>3, <2>2, Zenon DEF GiveUp
  <2>4. t \in Request /\ IsFiniteSet(t.own) /\ t.stage = "done"
    BY <2>2, DoneIs
  <2>5. \A q \in Requests : q # r /\ lock = {q} => lock' = {q}
    BY <2>1
  <2> QED  BY <1>0, <2>1, <2>3, <2>4, <2>5, RequestGoes
<1>4. CASE WriteAnswers(r)
  <2>1. UNCHANGED <<database, sweep, overlapped>> /\ lock = {} /\ lock' = {r} /\ Answered \subseteq Submitted(r)
    BY <1>4 DEF WriteAnswers
  <2>2. PICK t \in Request : request' = [request EXCEPT ![r] = t] /\ t.own = request[r].own
    BY <1>0, <1>4, Wrote
  <2>3. Answered \subseteq {v.question : v \in t.own}
    BY <2>1, <2>2 DEF Submitted
  <2> QED  BY <1>0, <2>1, <2>2, <2>3, RequestGoes
<1>5. CASE RefuseWrite(r)
  <2>1. UNCHANGED <<database, lock, sweep, overlapped>>
    BY <1>5 DEF RefuseWrite
  <2>2. PICK t : t = [NewRequest EXCEPT !.stage = "done"]
    OBVIOUS
  <2>3. request' = [request EXCEPT ![r] = t]
    BY <1>5, <2>2, Zenon DEF RefuseWrite
  <2>4. t \in Request /\ IsFiniteSet(t.own) /\ t.stage = "done"
    BY <2>2, DoneIs
  <2> QED  BY <1>0, <2>1, <2>3, <2>4, RequestGoes
<1>6. CASE RecomputeAtSubmit(r)
  <2>1. UNCHANGED <<database, lock, sweep, overlapped>> /\ lock = {r} /\ Answered \subseteq Submitted(r)
    BY <1>6 DEF RecomputeAtSubmit, WholeInv, WritersHoldTheRow
  <2>2. PICK t \in Request : request' = [request EXCEPT ![r] = t] /\ t.own = request[r].own
    BY <1>0, <1>6, Recomputed
  <2>3. Answered \subseteq {v.question : v \in t.own}
    BY <2>1, <2>2 DEF Submitted
  <2> QED  BY <1>0, <2>1, <2>2, <2>3, RequestGoes
<1>7. CASE CommitSubmission(r)
  BY <1>7, CommitIsWhole
<1> QED  BY <1>1, <1>2, <1>3, <1>4, <1>5, <1>6, <1>7 DEF Submitting

(* What a sweep may do to the lock: nothing to a request's.                *)
LEMMA SweepStepIsWhole ==
  ASSUME WholeInv, NEW k \in Sweeps, Sweeping(k)
  PROVE  WholeInv'
<1> USE DEF database
<1>0. /\ GateTypeOK /\ overlapped \in BOOLEAN /\ isValid \in BOOLEAN
      /\ lock \subseteq Requests \cup Sweeps /\ IsFiniteSet(sweep[k].own)
      /\ rows \subseteq Row /\ IsFiniteSet(rows)
  BY DEF WholeInv, GateTypeOK
<1>1. k \notin Requests
  BY GateAssumption
<1>2. CASE StartSweep(k)
  <2>1. overlapped' \in BOOLEAN
    BY <1>0, <1>2, Zenon DEF StartSweep
  <2>2. UNCHANGED <<database, lock, request>>
    BY <1>2 DEF StartSweep
  <2>3. PICK t \in Sweep : sweep' = [sweep EXCEPT ![k] = t] /\ IsFiniteSet(t.own)
    BY <1>0, <1>2, SweepStarted
  <2> QED  BY <1>0, <2>1, <2>2, <2>3, SweepGoes
<1>3. ASSUME NEW q \in Questions, AskAgain(k, q)
      PROVE  WholeInv'
  <2>1. UNCHANGED <<database, lock, request, overlapped>>
    BY <1>3 DEF AskAgain
  <2>2. PICK t \in Sweep : sweep' = [sweep EXCEPT ![k] = t] /\ t.own = sweep[k].own
    BY <1>0, <1>3, SweepAsked
  <2> QED  BY <1>0, <2>1, <2>2, SweepGoes
<1>4. ASSUME NEW v \in Row, RecordVerdict(k, v), UNCHANGED <<database, lock, request, overlapped>>
      PROVE  WholeInv'
  <2>1. PICK t \in Sweep : sweep' = [sweep EXCEPT ![k] = t] /\ IsFiniteSet(t.own)
    BY <1>0, <1>4, SweepRecorded
  <2> QED  BY <1>0, <1>4, <2>1, SweepGoes
<1>5. ASSUME NEW kind \in Kinds, ModelAnswers(k, kind) \/ FloorAnswers(k, kind)
      PROVE  WholeInv'
  <2>1. \A a \in sweep[k].asked, source \in {"model", "floor"} :
           [question |-> a[1], of |-> a[2], kind |-> kind, source |-> source, at |-> sweep[k].at] \in Row
    BY <1>0, SweepShape DEF GateTypeOK, Row
  <2>2. PICK v \in Row : RecordVerdict(k, v)
    BY <1>5, <2>1 DEF ModelAnswers, FloorAnswers
  <2>3. UNCHANGED <<database, lock, request, overlapped>>
    BY <1>5 DEF ModelAnswers, FloorAnswers
  <2> QED  BY <1>4, <2>2, <2>3
<1>6. CASE AskingFails(k)
  <2>1. UNCHANGED <<database, lock, request, overlapped>>
    BY <1>6 DEF AskingFails
  <2>2. PICK t \in Sweep : sweep' = [sweep EXCEPT ![k] = t] /\ t.own = sweep[k].own
    BY <1>0, <1>6, SweepTurnedAway
  <2> QED  BY <1>0, <2>1, <2>2, SweepGoes
<1>7. CASE UpdateValidity(k)
  <2>1. UNCHANGED <<database, request, overlapped>> /\ lock \subseteq {k} /\ lock' = {k}
    BY <1>7 DEF UpdateValidity
  <2>2. PICK t \in Sweep : sweep' = [sweep EXCEPT ![k] = t] /\ t.own = sweep[k].own
    BY <1>0, <1>7, SweepUpdated
  <2>3. \A q \in Requests : lock # {q}
    BY <1>1, <2>1
  <2> QED  BY <1>0, <2>1, <2>2, <2>3, SweepGoes
<1>8. CASE CommitSweep(k) \/ SweepDies(k)
  <2>1. /\ sweep' = [sweep EXCEPT ![k] = NoSweep] /\ lock' = lock \ {k}
        /\ UNCHANGED <<text, stored, request, overlapped>>
    BY <1>8 DEF CommitSweep, SweepDies
  <2>2. rows' \subseteq Row /\ IsFiniteSet(rows')
    <3>1. sweep[k].own \subseteq Row
      BY <1>0, SweepFields
    <3>2. rows' = rows \/ rows' = rows \cup sweep[k].own
      BY <1>8 DEF CommitSweep, SweepDies
    <3>3. IsFiniteSet(rows \cup sweep[k].own)
      BY <1>0, FS_Union
    <3> QED  BY <1>0, <3>1, <3>2, <3>3
  <2>3. isValid' \in BOOLEAN
    <3>1. sweep[k].value \in BOOLEAN
      BY <1>0, SweepFields
    <3> QED  BY <1>0, <1>8, <3>1, Zenon DEF CommitSweep, SweepDies
  <2>4. \A q \in Requests : lock = {q} => lock' = {q}
    BY <1>1, <2>1
  <2>5. lock' \subseteq Requests \cup Sweeps
    BY <1>0, <2>1
  <2> QED  BY <1>0, <2>1, <2>2, <2>3, <2>4, <2>5, NoSweepIs, SweepGoes
<1> QED  BY <1>2, <1>3, <1>5, <1>6, <1>7, <1>8 DEF Sweeping

LEMMA WholeStep == WholeInv /\ [Next]_vars => WholeInv'
<1> SUFFICES ASSUME WholeInv, [Next]_vars PROVE WholeInv'
  OBVIOUS
<1>1. CASE UNCHANGED vars
  BY <1>1 DEF vars, WholeInv, GateTypeOK, WritersHoldTheRow, OneSubmissionWhole, Answered, Submitted
<1> QED  BY <1>1, RequestStepIsWhole, SweepStepIsWhole DEF Next

(* However submissions are begun, judged and committed, what is stored is  *)
(* one of them: comments of two requests never stand side by side          *)
(* (services/submissions.py, the row held from the first write on).        *)
THEOREM SubmissionsAreWhole == Spec => []OneSubmissionWhole
<1>1. WholeInv => OneSubmissionWhole
  BY DEF WholeInv
<1> QED  BY <1>1, WholeInit, WholeStep, PTL DEF Spec

-----------------------------------------------------------------------------
(* A request keeps the rest apart, as long as nothing is stored and it     *)
(* keeps to itself what it must.                                           *)
LEMMA RequestKeeps ==
  ASSUME ApartInv, WholeInv', NEW r \in Requests, NEW t, request'[r] = t,
         \A q \in Requests : q # r => request'[q] = request[q],
         UNCHANGED <<text, rows, stored, isValid, sweep>>,
         t.stage \in {"new", "begun", "done"} => t.own = {} /\ ~ t.found,
         \A v \in t.own : v.of = r /\ v.kind = "accepted" /\ v.at = t.at,
         ~ overlapped' => ~ overlapped /\ \A k \in Sweeps : ~ Running(k),
         ~ overlapped' =>
            /\ t.stage \notin {"new", "done"} => \A v \in rows : v.kind = "refused" => v.at < t.at
            /\ t.stage = "recomputed" => t.value
            /\ t.found /\ t.seen => isValid
  PROVE  ApartInv'
<1>1. OwnAccepted'
  BY DEF ApartInv, OwnAccepted
<1>2. StoredWasAccepted'
  BY DEF ApartInv, StoredWasAccepted
<1>3. ASSUME ~ overlapped' PROVE Apart'
  <2>1. Apart /\ \A k \in Sweeps : ~ Running(k)'
    BY <1>3 DEF ApartInv, Running
  <2>2. SweepRunsAlone' /\ SweepReckons'
    BY <2>1 DEF SweepRunsAlone, SweepReckons
  <2>3. RefusalsAreEarlier'
    BY <1>3, <2>1 DEF Apart, RefusalsAreEarlier, Open
  <2>4. RequestReckons'
    <3> SUFFICES ASSUME NEW q \in Requests
                 PROVE  /\ request'[q].stage = "recomputed" => request'[q].value
                        /\ request'[q].found /\ request'[q].seen => isValid
      BY DEF RequestReckons
    <3>1. CASE q = r
      BY <1>3, <3>1, Zenon
    <3>2. CASE q # r
      BY <2>1, <3>2, Zenon DEF Apart, RequestReckons
    <3> QED  BY <3>1, <3>2
  <2>5. Answered' = Answered
    BY DEF Answered
  <2>6. ValidityFollowsVerdicts'
    BY <2>1, <2>5, Zenon DEF Apart, ValidityFollowsVerdicts, Validity, LatestVerdicts, Governs
  <2>7. RefusalIsAboutStoredText'
    BY <2>1, <2>5, Zenon DEF Apart, RefusalIsAboutStoredText, LatestVerdicts, Governs
  <2> QED  BY <2>2, <2>3, <2>4, <2>6, <2>7 DEF Apart
<1> QED  BY <1>1, <1>2, <1>3 DEF ApartInv

(* So does a sweep.                                                        *)
LEMMA SweepKeeps ==
  ASSUME ApartInv, WholeInv', NEW k \in Sweeps, NEW t, sweep'[k] = t,
         \A j \in Sweeps : j # k => sweep'[j] = sweep[j],
         UNCHANGED <<text, rows, stored, isValid, request>>,
         ~ overlapped' => /\ ~ overlapped /\ \A r \in Requests : ~ Open(r)
                          /\ \A j \in Sweeps : Running(j) => j = k,
         ~ overlapped' /\ t.stage # "idle" => Asks(t) /\ Reckons(t)
  PROVE  ApartInv'
<1>1. OwnAccepted'
  BY DEF ApartInv, OwnAccepted
<1>2. StoredWasAccepted'
  BY DEF ApartInv, StoredWasAccepted
<1>3. ASSUME ~ overlapped' PROVE Apart'
  <2>1. /\ Apart /\ \A r \in Requests : ~ Open(r)'
        /\ \A j \in Sweeps : Running(j)' => j = k
    BY <1>3 DEF ApartInv, Running, Open
  <2>2. SweepRunsAlone'
    BY <2>1 DEF SweepRunsAlone
  <2>3. UnresolvedFloored' = UnresolvedFloored /\ Answered' = Answered
    BY DEF UnresolvedFloored, Answered
  <2>4. SweepReckons'
    <3> SUFFICES ASSUME Running(k)' PROVE Asks(sweep[k])' /\ Reckons(sweep[k])'
      BY <2>1 DEF SweepReckons
    <3>1. Asks(t) /\ Reckons(t)
      BY <1>3 DEF Running
    <3>2. Asks(sweep[k])'
      BY <2>3, <3>1 DEF Asks, AboutStoredText
    <3>3. Reckons(sweep[k])'
      BY <2>3, <3>1, Zenon DEF Reckons, Validity, LatestVerdicts, Governs
    <3> QED  BY <3>2, <3>3
  <2>5. RefusalsAreEarlier'
    BY <2>1 DEF RefusalsAreEarlier
  <2>6. RequestReckons'
    BY <2>1, Zenon DEF Apart, RequestReckons
  <2>7. ValidityFollowsVerdicts'
    BY <2>1, <2>3, Zenon DEF Apart, ValidityFollowsVerdicts, Validity, LatestVerdicts, Governs
  <2>8. RefusalIsAboutStoredText'
    BY <2>1, <2>3, Zenon DEF Apart, RefusalIsAboutStoredText, LatestVerdicts, Governs
  <2> QED  BY <2>2, <2>4, <2>5, <2>6, <2>7, <2>8 DEF Apart
<1> QED  BY <1>1, <1>2, <1>3 DEF ApartInv

(* Apart from sweeps, whoever submits is valid: no refusal is as late as   *)
(* the verdicts a request brings.                                          *)
LEMMA SubmittersAreValid ==
  ASSUME ApartInv, ~ overlapped, NEW r \in Requests, Open(r)
  PROVE  /\ \A v \in LatestVerdicts(Submitted(r), rows \cup request[r].own) : v.kind = "accepted"
         /\ Validity(Submitted(r), rows \cup request[r].own)
<1> DEFINE own == request[r].own
<1>1. own \subseteq Row /\ rows \subseteq Row /\ request[r].at \in Nat
  BY RequestShape DEF ApartInv, WholeInv, GateTypeOK
<1>2. \A v \in own : v.kind = "accepted" /\ v.at = request[r].at
  BY DEF ApartInv, OwnAccepted
<1>3. \A v \in rows : v.kind = "refused" => v.at < request[r].at
  BY DEF ApartInv, Apart, RefusalsAreEarlier
<1>4. ASSUME NEW v \in LatestVerdicts(Submitted(r), rows \cup own)
      PROVE  v.kind = "accepted"
  <2>1. v \in rows \cup own /\ v.question \in Submitted(r)
          /\ \A u \in rows \cup own : u.question = v.question => u.at <= v.at
    BY DEF LatestVerdicts, Governs
  <2>2. PICK w \in own : w.question = v.question
    BY <2>1 DEF Submitted
  <2>3. request[r].at <= v.at
    BY <1>2, <2>1, <2>2
  <2>4. v.at \in Nat /\ v.kind \in Kinds
    BY <1>1, <2>1 DEF Row
  <2> QED  BY <1>1, <1>2, <1>3, <2>1, <2>3, <2>4 DEF Kinds
<1> QED  BY <1>4, Zenon DEF Validity

LEMMA CommitSubmissionKeeps ==
  ASSUME ApartInv, NEW r \in Requests, CommitSubmission(r)
  PROVE  ApartInv'
<1> DEFINE own == request[r].own
<1>1. /\ WholeInv' /\ lock = {r}
      /\ \A q \in Questions : text'[q] = IF q \in Submitted(r) THEN {r} ELSE {}
      /\ \A q \in Requests : q # r => request'[q] = request[q]
  BY CommitIsWhole DEF ApartInv
<1>2. PICK t \in Request : request'[r] = t /\ t.own = {} /\ t.stage = "done" /\ ~ t.found
  BY CommitIsWhole DEF ApartInv
<1>3. rows' = rows \cup own /\ UNCHANGED <<sweep, overlapped>> /\ request[r].stage = "recomputed"
  BY DEF CommitSubmission
<1>4. OwnAccepted'
  BY <1>1, <1>2 DEF ApartInv, OwnAccepted
<1>5. own \subseteq Row /\ \A v \in own : v.of = r /\ v.kind = "accepted"
  BY RequestShape DEF ApartInv, WholeInv, GateTypeOK, OwnAccepted
<1>6. Submitted(r) \subseteq Questions
  BY <1>5 DEF Submitted, Row
<1>7. Answered' = Submitted(r)
  BY <1>1, <1>6 DEF Answered
<1>8. StoredWasAccepted'
  <2> SUFFICES ASSUME NEW q \in Questions, NEW a \in text'[q]
               PROVE  \E u \in rows' : u.question = q /\ u.of = a /\ u.kind = "accepted"
    BY DEF StoredWasAccepted
  <2>1. a = r /\ q \in Submitted(r)
    BY <1>1
  <2>2. PICK u \in own : u.question = q
    BY <2>1 DEF Submitted
  <2> QED  BY <1>3, <1>5, <2>1, <2>2
<1>9. ASSUME ~ overlapped' PROVE Apart'
  <2>1. Apart /\ ~ overlapped /\ Open(r)
    BY <1>3, <1>9 DEF ApartInv, Open
  <2>2. /\ \A v \in LatestVerdicts(Submitted(r), rows \cup own) : v.kind = "accepted"
        /\ Validity(Submitted(r), rows \cup own)
    BY <2>1, SubmittersAreValid
  <2>3. isValid'
    <3>1. request[r].value /\ (request[r].found /\ request[r].seen => isValid)
      BY <1>3, <2>1, Zenon DEF Apart, RequestReckons
    <3>2. request[r].value \in BOOLEAN /\ request[r].seen \in BOOLEAN
      BY RequestShape DEF ApartInv, WholeInv, GateTypeOK
    <3>3. isValid' = IF request[r].found /\ request[r].value = request[r].seen THEN isValid ELSE request[r].value
      BY Zenon DEF CommitSubmission
    <3> QED  BY <3>1, <3>2, <3>3, Zenon
  <2>4. \A k \in Sweeps : ~ Running(k) /\ ~ Running(k)'
    BY <1>3, <2>1 DEF Apart, SweepRunsAlone, Running
  <2>5. SweepRunsAlone' /\ SweepReckons'
    BY <2>4 DEF SweepRunsAlone, SweepReckons
  <2>6. RefusalsAreEarlier'
    <3> SUFFICES ASSUME NEW q \in Requests, Open(q)', NEW v \in rows', v.kind = "refused"
                 PROVE  v.at < request'[q].at
      BY DEF RefusalsAreEarlier
    <3>1. q # r /\ v \in rows
      BY <1>2, <1>3, <1>5 DEF Open
    <3> QED  BY <1>1, <2>1, <3>1 DEF Apart, RefusalsAreEarlier, Open
  <2>7. RequestReckons'
    <3> SUFFICES ASSUME NEW q \in Requests
                 PROVE  /\ request'[q].stage = "recomputed" => request'[q].value
                        /\ request'[q].found /\ request'[q].seen => isValid'
      BY DEF RequestReckons
    <3>1. CASE q = r
      <4>1. request'[q].stage # "recomputed"
        BY <1>2, <3>1
      <4> QED  BY <2>3, <4>1, Zenon
    <3>2. CASE q # r
      BY <1>1, <2>1, <2>3, <3>2, Zenon DEF Apart, RequestReckons
    <3> QED  BY <3>1, <3>2
  <2>8. ValidityFollowsVerdicts'
    <3>1. Validity(Answered, rows)'
      BY <1>3, <1>7, <2>2, Zenon DEF Validity, LatestVerdicts, Governs
    <3>2. Validity(Answered, rows)' \in BOOLEAN /\ isValid' \in BOOLEAN
      BY <1>1, Zenon DEF Validity, WholeInv, GateTypeOK
    <3> QED  BY <2>3, <3>1, <3>2, Zenon DEF ValidityFollowsVerdicts
  <2>9. RefusalIsAboutStoredText'
    <3>1. \A v \in LatestVerdicts(Answered, rows)' : v.kind = "accepted"
      BY <1>3, <1>7, <2>2, Zenon DEF LatestVerdicts, Governs
    <3>2. \A v \in LatestVerdicts(Answered, rows)' : v.kind # "refused"
      BY <3>1
    <3> QED  BY <3>2, Zenon DEF RefusalIsAboutStoredText
  <2> QED  BY <2>5, <2>6, <2>7, <2>8, <2>9 DEF Apart
<1> QED  BY <1>1, <1>4, <1>8, <1>9 DEF ApartInv

LEMMA RequestStepKeeps ==
  ASSUME ApartInv, NEW r \in Requests, Submitting(r)
  PROVE  ApartInv'
<1> USE DEF database
<1>0. WholeInv' /\ GateTypeOK /\ DOMAIN request = Requests /\ request[r] \in Request
  BY RequestStepIsWhole DEF ApartInv, WholeInv, GateTypeOK
<1>1. ASSUME NEW t, request' = [request EXCEPT ![r] = t]
      PROVE  request'[r] = t /\ \A q \in Requests : q # r => request'[q] = request[q]
  BY <1>0, <1>1
<1>2. /\ request[r].stage \in {"new", "begun", "done"} => request[r].own = {} /\ ~ request[r].found
      /\ \A v \in request[r].own : v.of = r /\ v.kind = "accepted" /\ v.at = request[r].at
  BY DEF ApartInv, OwnAccepted
<1>3. ~ overlapped /\ Open(r) =>
         /\ \A k \in Sweeps : ~ Running(k)
         /\ \A v \in rows : v.kind = "refused" => v.at < request[r].at
         /\ request[r].found /\ request[r].seen => isValid
  <2> SUFFICES ASSUME ~ overlapped, Open(r)
               PROVE  /\ \A k \in Sweeps : ~ Running(k)
                      /\ \A v \in rows : v.kind = "refused" => v.at < request[r].at
                      /\ request[r].found /\ request[r].seen => isValid
    BY Zenon
  <2>1. Apart
    BY DEF ApartInv
  <2> QED  BY <2>1, Zenon DEF Apart, SweepRunsAlone, RefusalsAreEarlier, RequestReckons
<1>4. CASE Begin(r)
  <2>1. PICK t \in Request : /\ request' = [request EXCEPT ![r] = t]
                             /\ t.stage = "begun" /\ t.at = Now
                             /\ t.own = request[r].own /\ t.found = request[r].found
    BY <1>0, <1>4, Begun
  <2>2. UNCHANGED <<text, rows, stored, isValid, sweep>> /\ request[r].stage = "new"
    BY <1>4 DEF Begin
  <2>3. t.own = {} /\ ~ t.found
    BY <1>2, <2>1, <2>2, Zenon
  <2>4. ~ overlapped' => ~ overlapped /\ \A k \in Sweeps : ~ Running(k)
    BY <1>4, Zenon DEF Begin
  <2>5. \A v \in rows : v.at < t.at
    BY <1>0, <2>1, NowIsLater
  <2>6. \A v \in t.own : v.of = r /\ v.kind = "accepted" /\ v.at = t.at
    BY <2>3
  <2>7. t.stage # "recomputed"
    BY <2>1
  <2>8. request'[r] = t /\ \A q \in Requests : q # r => request'[q] = request[q]
    BY <1>1, <2>1
  <2>9. ~ overlapped' => /\ t.stage \notin {"new", "done"} => \A v \in rows : v.kind = "refused" => v.at < t.at
                         /\ t.stage = "recomputed" => t.value
                         /\ t.found /\ t.seen => isValid
    BY <2>3, <2>5, <2>7, Zenon
  <2> QED  BY <1>0, <2>2, <2>3, <2>4, <2>6, <2>8, <2>9, RequestKeeps
<1>5. CASE Judge(r)
  <2>1. PICK t \in Request : /\ request' = [request EXCEPT ![r] = t]
                             /\ t.stage = "judged" /\ t.at = request[r].at /\ IsFiniteSet(t.own)
                             /\ \A v \in t.own : v.of = r /\ v.kind = "accepted" /\ v.at = t.at
                             /\ t.found = stored /\ (t.found /\ t.seen => isValid)
    BY <1>0, <1>5, Judged
  <2>2. UNCHANGED <<text, rows, stored, isValid, sweep, overlapped>> /\ Open(r)
    BY <1>5 DEF Judge, Open
  <2>3. request'[r] = t /\ \A q \in Requests : q # r => request'[q] = request[q]
    BY <1>1, <2>1
  <2>4. t.stage # "recomputed" /\ t.stage \notin {"new", "begun", "done"}
    BY <2>1
  <2>5. ~ overlapped' => ~ overlapped /\ \A k \in Sweeps : ~ Running(k)
    BY <1>3, <2>2
  <2>6. ~ overlapped' => /\ t.stage \notin {"new", "done"} => \A v \in rows : v.kind = "refused" => v.at < t.at
                         /\ t.stage = "recomputed" => t.value
                         /\ t.found /\ t.seen => isValid
    <3>1. ~ overlapped' => \A v \in rows : v.kind = "refused" => v.at < t.at
      BY <1>3, <2>1, <2>2
    <3> QED  BY <2>1, <2>4, <3>1, Zenon
  <2> QED  BY <1>0, <2>1, <2>2, <2>3, <2>4, <2>5, <2>6, RequestKeeps
<1>6. CASE GiveUp(r) \/ RefuseWrite(r)
  <2>1. PICK t : t = [NewRequest EXCEPT !.stage = "done"]
    OBVIOUS
  <2>2. request' = [request EXCEPT ![r] = t]
    BY <1>6, <2>1, Zenon DEF GiveUp, RefuseWrite
  <2>3. UNCHANGED <<text, rows, stored, isValid, sweep, overlapped>> /\ Open(r)
    BY <1>6 DEF GiveUp, RefuseWrite, Open
  <2>4. t.own = {} /\ t.stage = "done" /\ ~ t.found
    BY <2>1, DoneIs
  <2>5. request'[r] = t /\ \A q \in Requests : q # r => request'[q] = request[q]
    BY <1>1, <2>2
  <2>6. ~ overlapped' => ~ overlapped /\ \A k \in Sweeps : ~ Running(k)
    BY <1>3, <2>3
  <2>7. t.stage # "recomputed" /\ ~ (t.stage \notin {"new", "done"})
    BY <2>4
  <2>8. ~ overlapped' => /\ t.stage \notin {"new", "done"} => \A v \in rows : v.kind = "refused" => v.at < t.at
                         /\ t.stage = "recomputed" => t.value
                         /\ t.found /\ t.seen => isValid
    BY <2>4, <2>7, Zenon
  <2>9. \A v \in t.own : v.of = r /\ v.kind = "accepted" /\ v.at = t.at
    BY <2>4
  <2> QED  BY <1>0, <2>3, <2>4, <2>5, <2>6, <2>8, <2>9, RequestKeeps
<1>7. CASE WriteAnswers(r)
  <2>1. PICK t \in Request : /\ request' = [request EXCEPT ![r] = t]
                             /\ t.stage = "writing" /\ t.at = request[r].at /\ t.own = request[r].own
                             /\ t.found = request[r].found /\ t.seen = request[r].seen
    BY <1>0, <1>7, Wrote
  <2>2. UNCHANGED <<text, rows, stored, isValid, sweep, overlapped>> /\ Open(r)
    BY <1>7 DEF WriteAnswers, Open
  <2>3. request'[r] = t /\ \A q \in Requests : q # r => request'[q] = request[q]
    BY <1>1, <2>1
  <2>4. t.stage # "recomputed" /\ t.stage \notin {"new", "begun", "done"}
    BY <2>1
  <2>5. ~ overlapped' => ~ overlapped /\ \A k \in Sweeps : ~ Running(k)
    BY <1>3, <2>2
  <2>6. \A v \in t.own : v.of = r /\ v.kind = "accepted" /\ v.at = t.at
    BY <1>2, <2>1
  <2>7. ~ overlapped' => /\ t.stage \notin {"new", "done"} => \A v \in rows : v.kind = "refused" => v.at < t.at
                         /\ t.stage = "recomputed" => t.value
                         /\ t.found /\ t.seen => isValid
    <3>1. ~ overlapped' => \A v \in rows : v.kind = "refused" => v.at < t.at
      BY <1>3, <2>1, <2>2
    <3>2. ~ overlapped' => (t.found /\ t.seen => isValid)
      BY <1>3, <2>1, <2>2, Zenon
    <3> QED  BY <2>4, <3>1, <3>2, Zenon
  <2> QED  BY <1>0, <2>2, <2>3, <2>4, <2>5, <2>6, <2>7, RequestKeeps
<1>8. CASE RecomputeAtSubmit(r)
  <2>1. PICK t \in Request : /\ request' = [request EXCEPT ![r] = t]
                             /\ t.stage = "recomputed" /\ t.at = request[r].at /\ t.own = request[r].own
                             /\ t.found = request[r].found /\ t.seen = request[r].seen
                             /\ t.value = Validity(Submitted(r), rows \cup request[r].own)
    BY <1>0, <1>8, Recomputed
  <2>2. UNCHANGED <<text, rows, stored, isValid, sweep, overlapped>> /\ Open(r)
    BY <1>8 DEF RecomputeAtSubmit, Open
  <2>3. request'[r] = t /\ \A q \in Requests : q # r => request'[q] = request[q]
    BY <1>1, <2>1
  <2>4. t.stage \notin {"new", "begun", "done"}
    BY <2>1
  <2>5. ~ overlapped' => ~ overlapped /\ \A k \in Sweeps : ~ Running(k)
    BY <1>3, <2>2
  <2>6. \A v \in t.own : v.of = r /\ v.kind = "accepted" /\ v.at = t.at
    BY <1>2, <2>1
  <2>7. ~ overlapped' => /\ t.stage \notin {"new", "done"} => \A v \in rows : v.kind = "refused" => v.at < t.at
                         /\ t.stage = "recomputed" => t.value
                         /\ t.found /\ t.seen => isValid
    <3>1. ~ overlapped' => \A v \in rows : v.kind = "refused" => v.at < t.at
      BY <1>3, <2>1, <2>2
    <3>2. ~ overlapped' => (t.found /\ t.seen => isValid)
      BY <1>3, <2>1, <2>2, Zenon
    <3>3. ~ overlapped' => Validity(Submitted(r), rows \cup request[r].own)
      BY <2>2, SubmittersAreValid
    <3> QED  BY <2>1, <3>1, <3>2, <3>3, Zenon
  <2> QED  BY <1>0, <2>2, <2>3, <2>4, <2>5, <2>6, <2>7, RequestKeeps
<1>9. CASE CommitSubmission(r)
  BY <1>9, CommitSubmissionKeeps
<1> QED  BY <1>4, <1>5, <1>6, <1>7, <1>8, <1>9 DEF Submitting

(* A verdict of the sweep about a wording it found floored.                *)
LEMMA RecordKeeps ==
  ASSUME ApartInv, WholeInv', NEW k \in Sweeps, sweep[k].stage = "asking",
         NEW a \in sweep[k].asked, NEW v \in Row, v.question = a[1], v.of = a[2],
         RecordVerdict(k, v), UNCHANGED <<text, rows, stored, isValid, request, overlapped>>
  PROVE  ApartInv'
<1> DEFINE u == sweep[k]
<1>0. GateTypeOK /\ DOMAIN sweep = Sweeps /\ isValid \in BOOLEAN
  BY DEF ApartInv, WholeInv, GateTypeOK
<1>1. PICK t \in Sweep : /\ sweep' = [sweep EXCEPT ![k] = t]
                         /\ t.list = sweep[k].list /\ t.asked = {} /\ t.own = sweep[k].own \cup {v}
                         /\ t.seen = IF sweep[k].seen = {} THEN {isValid} ELSE sweep[k].seen
                         /\ t.value = Validity(Answered, rows \cup t.own)
                         /\ t.stage = IF t.value \in t.seen THEN "walking" ELSE "updating"
                         /\ t.wrote = sweep[k].wrote /\ IsFiniteSet(t.own)
  BY <1>0, SweepRecorded, Zenon
<1>2. sweep'[k] = t /\ \A j \in Sweeps : j # k => sweep'[j] = sweep[j]
  BY <1>0, <1>1
<1>3. ASSUME ~ overlapped'
      PROVE  /\ ~ overlapped /\ \A r \in Requests : ~ Open(r)
             /\ \A j \in Sweeps : Running(j) => j = k
             /\ Asks(t) /\ Reckons(t)
  <2>1. Apart /\ ~ overlapped /\ Running(k)
    BY <1>3 DEF ApartInv, Running
  <2>2. /\ \A r \in Requests : ~ Open(r)
        /\ \A j \in Sweeps : Running(j) => j = k
        /\ Asks(u) /\ Reckons(u)
    BY <2>1 DEF Apart, SweepRunsAlone, SweepReckons
  <2>3. AboutStoredText(v)
    <3>1. a[1] \in UnresolvedFloored /\ a[2] \in text[a[1]]
      BY <2>2 DEF Asks
    <3>2. a[1] \in Questions /\ \A w \in rows : w.question = a[1] => w.source = "floor"
      BY <3>1 DEF UnresolvedFloored
    <3>3. PICK w \in rows : w.question = a[1] /\ w.of = a[2] /\ w.kind = "accepted"
      BY <3>1, <3>2 DEF ApartInv, StoredWasAccepted
    <3> QED  BY <3>1, <3>2, <3>3 DEF AboutStoredText
  <2>4. Asks(t)
    BY <1>1, <2>2, <2>3 DEF Asks
  <2>5. Reckons(t)
    <3>1. t.seen # {}
      BY <1>1
    <3>2. t.stage # "updating" => t.value \in t.seen
      BY <1>1
    <3>3. CASE u.seen = {}
      <4>1. t.seen = {isValid}
        BY <1>1, <3>3
      <4>2. t.stage # "updating" => t.seen = {t.value}
        BY <3>2, <4>1
      <4> QED  BY <1>1, <3>1, <4>1, <4>2, Zenon DEF Reckons
    <3>4. CASE u.seen # {}
      <4>1. t.seen = u.seen /\ u.seen = {u.value}
        BY <1>1, <2>2, <3>4 DEF Reckons
      <4>2. t.stage # "updating" => t.seen = {t.value}
        BY <3>2, <4>1
      <4>3. ~ t.wrote => t.seen = {isValid}
        BY <1>1, <2>2, <3>4, <4>1, Zenon DEF Reckons
      <4> QED  BY <1>1, <3>1, <4>2, <4>3, Zenon DEF Reckons
    <3> QED  BY <3>3, <3>4
  <2> QED  BY <2>1, <2>2, <2>4, <2>5
<1> QED  BY <1>2, <1>3, SweepKeeps

(* One commit after the walk leaves what it reckoned.                      *)
LEMMA CommitSweepKeeps ==
  ASSUME ApartInv, WholeInv', NEW k \in Sweeps, CommitSweep(k)
  PROVE  ApartInv'
<1> DEFINE u == sweep[k]
<1>1. /\ rows' = rows \cup u.own /\ UNCHANGED <<text, stored, request, overlapped>>
      /\ u.stage = "walking" /\ Running(k)
  BY DEF CommitSweep, Running
<1>2. sweep'[k] = NoSweep /\ \A j \in Sweeps : j # k => sweep'[j] = sweep[j]
  BY DEF CommitSweep, ApartInv, WholeInv, GateTypeOK
<1>3. OwnAccepted'
  BY <1>1 DEF ApartInv, OwnAccepted
<1>4. StoredWasAccepted'
  BY <1>1 DEF ApartInv, StoredWasAccepted
<1>5. Answered' = Answered
  BY <1>1 DEF Answered
<1>6. ASSUME ~ overlapped' PROVE Apart'
  <2>1. Apart
    BY <1>1, <1>6 DEF ApartInv
  <2>2. /\ \A r \in Requests : ~ Open(r) /\ ~ Open(r)'
        /\ \A j \in Sweeps : Running(j) => j = k
        /\ Asks(u) /\ Reckons(u)
    BY <1>1, <2>1 DEF Apart, SweepRunsAlone, SweepReckons, Open
  <2>3. \A j \in Sweeps : ~ Running(j)'
    BY <1>2, <2>2, NoSweepIs DEF Running
  <2>4. SweepRunsAlone' /\ SweepReckons' /\ RefusalsAreEarlier'
    BY <2>2, <2>3 DEF SweepRunsAlone, SweepReckons, RefusalsAreEarlier
  <2>5. RequestReckons'
    <3> SUFFICES ASSUME NEW r \in Requests
                 PROVE  /\ request'[r].stage = "recomputed" => request'[r].value
                        /\ request'[r].found /\ request'[r].seen => isValid'
      BY DEF RequestReckons
    <3>1. request[r].stage \in {"new", "done"}
      BY <2>2 DEF Open
    <3>2. request[r].stage # "recomputed" /\ ~ request[r].found
      BY <3>1, Zenon DEF ApartInv, OwnAccepted
    <3> QED  BY <1>1, <3>2, Zenon
  <2>6. isValid' = IF u.wrote THEN u.value ELSE isValid
    BY Zenon DEF CommitSweep
  <2>7. stored => isValid' = Validity(Answered, rows \cup u.own)
    <3>1. CASE u.seen = {}
      <4>1. u.own = {} /\ ~ u.wrote
        BY <2>2, <3>1, Zenon DEF Reckons
      <4>2. rows \cup u.own = rows
        BY <4>1
      <4> QED  BY <2>1, <2>6, <4>1, <4>2, Zenon DEF Apart, ValidityFollowsVerdicts
    <3>2. CASE u.seen # {}
      <4>1. /\ u.value = Validity(Answered, rows \cup u.own) /\ u.seen = {u.value}
            /\ ~ u.wrote => u.seen = {isValid}
        BY <1>1, <2>2, <3>2, Zenon DEF Reckons
      <4>2. ~ u.wrote => isValid = u.value
        BY <4>1
      <4> QED  BY <2>6, <4>1, <4>2, Zenon
    <3> QED  BY <3>1, <3>2
  <2>8. ValidityFollowsVerdicts'
    BY <1>1, <1>5, <2>7, Zenon DEF ValidityFollowsVerdicts, Validity, LatestVerdicts, Governs
  <2>9. RefusalIsAboutStoredText'
    <3> SUFFICES ASSUME NEW v \in LatestVerdicts(Answered, rows)', v.kind = "refused"
                 PROVE  AboutStoredText(v)'
      BY DEF RefusalIsAboutStoredText, AboutStoredText
    <3>1. v \in rows \cup u.own /\ v.question \in Answered /\ \A w \in rows : w.question = v.question => w.at <= v.at
      BY <1>1, <1>5 DEF LatestVerdicts, Governs
    <3>2. AboutStoredText(v)
      <4>1. CASE v \in u.own
        BY <2>2, <4>1 DEF Asks
      <4>2. CASE v \in rows
        <5>1. v \in LatestVerdicts(Answered, rows)
          BY <3>1, <4>2 DEF LatestVerdicts, Governs
        <5> QED  BY <2>1, <5>1 DEF Apart, RefusalIsAboutStoredText, AboutStoredText
      <4> QED  BY <3>1, <4>1, <4>2
    <3> QED  BY <1>1, <3>2 DEF AboutStoredText
  <2> QED  BY <2>4, <2>5, <2>8, <2>9 DEF Apart
<1> QED  BY <1>3, <1>4, <1>6 DEF ApartInv

LEMMA SweepStepKeeps ==
  ASSUME ApartInv, NEW k \in Sweeps, Sweeping(k)
  PROVE  ApartInv'
<1> USE DEF database
<1> DEFINE u == sweep[k]
<1>0. WholeInv' /\ GateTypeOK /\ DOMAIN sweep = Sweeps
  BY SweepStepIsWhole DEF ApartInv, WholeInv, GateTypeOK
<1>1. ASSUME NEW t, sweep' = [sweep EXCEPT ![k] = t]
      PROVE  sweep'[k] = t /\ \A j \in Sweeps : j # k => sweep'[j] = sweep[j]
  BY <1>0, <1>1
<1>2. ~ overlapped /\ Running(k) =>
         /\ \A r \in Requests : ~ Open(r)
         /\ \A j \in Sweeps : Running(j) => j = k
         /\ Asks(u) /\ Reckons(u)
  BY DEF ApartInv, Apart, SweepRunsAlone, SweepReckons
<1>3. CASE StartSweep(k)
  <2>1. PICK t \in Sweep : /\ sweep' = [sweep EXCEPT ![k] = t]
                           /\ t.stage = "walking" /\ t.list = UnresolvedFloored /\ t.asked = {} /\ t.own = {}
                           /\ t.seen = {} /\ ~ t.wrote
    BY <1>0, <1>3, SweepStarted
  <2>2. UNCHANGED <<text, rows, stored, isValid, request>>
    BY <1>3 DEF StartSweep
  <2>3. ~ overlapped' => /\ ~ overlapped /\ \A r \in Requests : ~ Open(r)
                         /\ \A j \in Sweeps : Running(j) => j = k
    BY <1>3, Zenon DEF StartSweep
  <2>4. Asks(t)
    BY <2>1 DEF Asks
  <2>5. t.stage # "updating"
    BY <2>1
  <2>6. Reckons(t)
    BY <2>1, <2>5, Zenon DEF Reckons
  <2>7. sweep'[k] = t /\ \A j \in Sweeps : j # k => sweep'[j] = sweep[j]
    BY <1>1, <2>1
  <2> QED  BY <1>0, <2>2, <2>3, <2>4, <2>6, <2>7, SweepKeeps
<1>4. ASSUME NEW q \in Questions, AskAgain(k, q)
      PROVE  ApartInv'
  <2>1. PICK t \in Sweep : /\ sweep' = [sweep EXCEPT ![k] = t]
                           /\ t.stage = "asking" /\ t.list = u.list \ {q} /\ t.asked = {q} \X text[q]
                           /\ t.own = u.own /\ t.seen = u.seen
                           /\ t.value = u.value /\ t.wrote = u.wrote
    BY <1>0, <1>4, SweepAsked
  <2>2. UNCHANGED <<text, rows, stored, isValid, request, overlapped>> /\ Running(k)
          /\ u.stage = "walking" /\ q \in u.list
    BY <1>4 DEF AskAgain, Running
  <2>3. ~ overlapped => Asks(t)
    BY <1>2, <2>1, <2>2 DEF Asks
  <2>4. t.stage # "updating" /\ u.stage # "updating"
    BY <2>1, <2>2
  <2>5. ~ overlapped => Reckons(t)
    BY <1>2, <2>1, <2>2, <2>4, Zenon DEF Reckons
  <2>6. sweep'[k] = t /\ \A j \in Sweeps : j # k => sweep'[j] = sweep[j]
    BY <1>1, <2>1
  <2> QED  BY <1>0, <1>2, <2>2, <2>3, <2>5, <2>6, SweepKeeps
<1>5. ASSUME NEW kind \in Kinds, ModelAnswers(k, kind) \/ FloorAnswers(k, kind)
      PROVE  ApartInv'
  <2>1. PICK a \in u.asked, source \in {"model", "floor"} :
           RecordVerdict(k, [question |-> a[1], of |-> a[2], kind |-> kind, source |-> source, at |-> u.at])
    BY <1>5 DEF ModelAnswers, FloorAnswers
  <2>2. PICK v : v = [question |-> a[1], of |-> a[2], kind |-> kind, source |-> source, at |-> u.at]
    OBVIOUS
  <2>3. v \in Row /\ v.question = a[1] /\ v.of = a[2]
    BY <1>0, <2>2, SweepShape DEF GateTypeOK, Row
  <2>4. UNCHANGED <<text, rows, stored, isValid, request, overlapped>> /\ u.stage = "asking"
    BY <1>5 DEF ModelAnswers, FloorAnswers
  <2> QED  BY <1>0, <2>1, <2>2, <2>3, <2>4, RecordKeeps
<1>6. CASE AskingFails(k)
  <2>1. PICK t \in Sweep : /\ sweep' = [sweep EXCEPT ![k] = t]
                           /\ t.stage = "walking" /\ t.list = u.list /\ t.asked = {}
                           /\ t.own = u.own /\ t.seen = u.seen
                           /\ t.value = u.value /\ t.wrote = u.wrote
    BY <1>0, <1>6, SweepTurnedAway
  <2>2. UNCHANGED <<text, rows, stored, isValid, request, overlapped>> /\ Running(k) /\ u.stage = "asking"
    BY <1>6 DEF AskingFails, Running
  <2>3. ~ overlapped => Asks(t)
    BY <1>2, <2>1, <2>2 DEF Asks
  <2>4. t.stage # "updating" /\ u.stage # "updating"
    BY <2>1, <2>2
  <2>5. ~ overlapped => Reckons(t)
    BY <1>2, <2>1, <2>2, <2>4, Zenon DEF Reckons
  <2>6. sweep'[k] = t /\ \A j \in Sweeps : j # k => sweep'[j] = sweep[j]
    BY <1>1, <2>1
  <2> QED  BY <1>0, <1>2, <2>2, <2>3, <2>5, <2>6, SweepKeeps
<1>7. CASE UpdateValidity(k)
  <2>1. PICK t \in Sweep : /\ sweep' = [sweep EXCEPT ![k] = t]
                           /\ t.stage = "walking" /\ t.list = u.list /\ t.asked = u.asked
                           /\ t.own = u.own /\ t.seen = {u.value}
                           /\ t.value = u.value /\ t.wrote
    BY <1>0, <1>7, SweepUpdated
  <2>2. UNCHANGED <<text, rows, stored, isValid, request, overlapped>> /\ Running(k) /\ u.stage = "updating"
    BY <1>7 DEF UpdateValidity, Running
  <2>3. ~ overlapped => Asks(t)
    BY <1>2, <2>1, <2>2 DEF Asks
  <2>4. t.seen # {} /\ t.seen = {t.value}
    BY <2>1
  <2>5. ~ overlapped => Reckons(t)
    BY <1>2, <2>1, <2>2, <2>4, Zenon DEF Reckons
  <2>6. sweep'[k] = t /\ \A j \in Sweeps : j # k => sweep'[j] = sweep[j]
    BY <1>1, <2>1
  <2> QED  BY <1>0, <1>2, <2>2, <2>3, <2>5, <2>6, SweepKeeps
<1>8. CASE CommitSweep(k)
  BY <1>0, <1>8, CommitSweepKeeps
<1>9. CASE SweepDies(k)
  <2>1. UNCHANGED <<text, rows, stored, isValid, request, overlapped>> /\ Running(k)
          /\ sweep' = [sweep EXCEPT ![k] = NoSweep]
    BY <1>9 DEF SweepDies
  <2>2. sweep'[k] = NoSweep /\ \A j \in Sweeps : j # k => sweep'[j] = sweep[j]
    BY <1>1, <2>1
  <2> QED  BY <1>0, <1>2, <2>1, <2>2, NoSweepIs, SweepKeeps
<1> QED  BY <1>3, <1>4, <1>5, <1>6, <1>7, <1>8, <1>9 DEF Sweeping

LEMMA ApartInit == Init => ApartInv
<1> SUFFICES ASSUME Init PROVE ApartInv
  OBVIOUS
<1>1. (\A r \in Requests : request[r] = NewRequest) /\ (\A k \in Sweeps : sweep[k] = NoSweep)
  BY DEF Init
<1>2. OwnAccepted
  <2>1. \A v \in NewRequest.own : FALSE
    BY NewRequestIsNew
  <2> QED  BY <1>1, <2>1, NewRequestIsNew, Zenon DEF OwnAccepted
<1>3. StoredWasAccepted
  BY DEF Init, StoredWasAccepted
<1>4. \A k \in Sweeps : ~ Running(k)
  BY <1>1, NoSweepIs DEF Running
<1>5. \A r \in Requests : ~ Open(r) /\ request[r].stage # "recomputed" /\ ~ request[r].found
  BY <1>1, NewRequestIsNew DEF Open
<1>6. SweepRunsAlone /\ SweepReckons /\ RefusalsAreEarlier
  BY <1>4, <1>5 DEF SweepRunsAlone, SweepReckons, RefusalsAreEarlier
<1>7. RequestReckons
  BY <1>5, Zenon DEF RequestReckons
<1>8. ValidityFollowsVerdicts
  BY Zenon DEF Init, ValidityFollowsVerdicts
<1>9. RefusalIsAboutStoredText
  BY DEF Init, RefusalIsAboutStoredText, LatestVerdicts
<1> QED  BY <1>2, <1>3, <1>6, <1>7, <1>8, <1>9, WholeInit DEF ApartInv, Apart

LEMMA ApartStep == ApartInv /\ [Next]_vars => ApartInv'
<1> SUFFICES ASSUME ApartInv, [Next]_vars PROVE ApartInv'
  OBVIOUS
<1>1. CASE UNCHANGED vars
  <2>1. WholeInv'
    BY <1>1, WholeStep DEF ApartInv
  <2>2. UNCHANGED <<text, rows, stored, isValid, request, sweep, overlapped>>
    BY <1>1 DEF vars
  <2>3. /\ Answered' = Answered /\ UnresolvedFloored' = UnresolvedFloored
        /\ OwnAccepted' = OwnAccepted /\ StoredWasAccepted' = StoredWasAccepted
    BY <2>2 DEF Answered, UnresolvedFloored, OwnAccepted, StoredWasAccepted
  <2>4. SweepRunsAlone' = SweepRunsAlone /\ RefusalsAreEarlier' = RefusalsAreEarlier
    BY <2>2 DEF SweepRunsAlone, RefusalsAreEarlier, Open, Running
  <2>5. RequestReckons => RequestReckons'
    BY <2>2, Zenon DEF RequestReckons
  <2>6. SweepReckons => SweepReckons'
    <3> SUFFICES ASSUME SweepReckons, NEW k \in Sweeps, Running(k)'
                 PROVE  Asks(sweep[k])' /\ Reckons(sweep[k])'
      BY DEF SweepReckons
    <3>1. Asks(sweep[k]) /\ Reckons(sweep[k])
      BY <2>2 DEF SweepReckons, Running
    <3>2. Asks(sweep[k])'
      BY <2>2, <2>3, <3>1 DEF Asks, AboutStoredText
    <3>3. Reckons(sweep[k])'
      BY <2>2, <2>3, <3>1, Zenon DEF Reckons, Validity, LatestVerdicts, Governs
    <3> QED  BY <3>2, <3>3
  <2>7. ValidityFollowsVerdicts => ValidityFollowsVerdicts'
    BY <2>2, <2>3, Zenon DEF ValidityFollowsVerdicts, Validity, LatestVerdicts, Governs
  <2>8. RefusalIsAboutStoredText => RefusalIsAboutStoredText'
    BY <2>2, <2>3, Zenon DEF RefusalIsAboutStoredText, LatestVerdicts, Governs
  <2>9. Apart => Apart'
    BY <2>4, <2>5, <2>6, <2>7, <2>8 DEF Apart
  <2> QED  BY <2>1, <2>2, <2>3, <2>9 DEF ApartInv
<1> QED  BY <1>1, RequestStepKeeps, SweepStepKeeps DEF Next

(* As long as no sweep has run beside a request or another sweep, is_valid *)
(* says what the latest verdicts say, and a student is refused only for    *)
(* words that are stored and that the floor had accepted: requests may     *)
(* overlap each other in any way (services/validity.py).                   *)
THEOREM ValidityIsKeptApart == Spec => []SweepsApartKeepValidity
<1>1. ApartInv => SweepsApartKeepValidity
  BY DEF ApartInv, Apart, SweepsApartKeepValidity
<1> QED  BY <1>1, ApartInit, ApartStep, PTL DEF Spec
=============================================================================
