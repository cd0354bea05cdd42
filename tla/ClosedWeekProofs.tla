-------------------------- MODULE ClosedWeekProofs --------------------------
(***************************************************************************)
(* Proofs about a week whose survey has closed: the decisions about its    *)
(* comments and the summaries drawn from them, the answers to it, the      *)
(* rosters that say whose week it was, and the figures it is compared      *)
(* with; for every number of leaders, walkers, instructors, pupils and     *)
(* sections.  The four specifications share no variable, and each theorem  *)
(* is of one of them.                                                      *)
(***************************************************************************)
EXTENDS ModerationDecisions, ResponseLoop, EnrolledWeeks, BenchmarkSeal, FiniteNumbers,
        SequenceTheorems

(* ModerationDecisions.                                                    *)

LogTypes ==
  /\ log \subseteq Row /\ IsFiniteSet(log)
  /\ next \in Nat \ {0}
  /\ deciding \in [Slots -> SUBSET Row]

(* A sequence is drawn once, and a request has one open row.               *)
DrawnOnce ==
  /\ \A r \in log : 0 < r.seq /\ r.seq < next
  /\ \A q, r \in log : q.seq = r.seq => q = r
  /\ \A s \in Slots : \A r \in deciding[s] :
       /\ 0 < r.seq /\ r.seq < next
       /\ \A q \in deciding[s] : q = r
       /\ \A q \in log : q.seq # r.seq
       /\ \A t \in Slots \ {s} : \A q \in deciding[t] : q.seq # r.seq

(* What DecisionsFollowTheLog says of a row, given the rows before it and  *)
(* those before the last of these.                                         *)
Follows(r, before, undone) ==
  /\ r.by \in Leaders =>
       flag[r.comment] = "harmful" /\ StateIn(before) = "FLAGGED_COLLAPSED"
  /\ \/ ~ r.undo /\ r.state = "EXCLUDED" /\ StateIn(before) \in Excludable
     \/ ~ r.undo /\ r.state = "KEPT" /\ StateIn(before) \in Keepable
     \/ /\ r.undo /\ before # {}
        /\ Newest(before).by = r.by /\ Newest(before).as = r.as /\ ~ Newest(before).undo
        /\ r.state = StateIn(undone)

Earlier(r, R) == {q \in R : q.seq < r.seq}

(* An open row has its comment to itself, is later than the comment's      *)
(* rows, and was judged against them.                                      *)
OpenRowsFollow ==
  \A s \in Slots : \A r \in deciding[s] :
     LET R == RowsOf(r.comment, log)
     IN  /\ r.by # Nobody
         /\ \A t \in Slots : \A q \in deciding[t] : q.comment = r.comment => t = s
         /\ \A q \in R : q.seq < r.seq
         /\ Follows(r, R, Earlier(Newest(R), R))

RowsFollow ==
  \A r \in log : r.by # Nobody =>
     Follows(r, RowsBefore(r), Earlier(Newest(RowsBefore(r)), RowsBefore(r)))

LogInv == LogTypes /\ DrawnOnce /\ OpenRowsFollow /\ RowsFollow

(* A run's rows are of the first streams, one each, against one sequence.  *)
DrawnInOrder(w, run) ==
  /\ IsFiniteSet(run.drawn) /\ Cardinality(run.drawn) <= Len(ReportStreams)
  /\ {r.stream : r \in run.drawn} = {ReportStreams[i] : i \in 1..Cardinality(run.drawn)}
  /\ \A q, r \in run.drawn : q.stream = r.stream => q = r
  /\ \A r \in run.drawn : r.walker = w /\ r.seen = run.seen
  /\ run.stage # "reading" => run.drawn = {}

WalkInv ==
  /\ LogInv
  /\ walk \in [Walkers -> Run] /\ summaries \subseteq Summary
  /\ \A w \in Walkers : DrawnInOrder(w, walk[w])
  /\ SummariesAreOneWalks

(* What a reader saw of the log is behind every row still to be committed. *)
Behind(n) ==
  /\ n < next
  /\ ~ raced => \A s \in Slots : \A r \in deciding[s] : n < r.seq

(* A comment that is removed though a summary carries it was removed by    *)
(* somebody, after what the summary was drawn against.                     *)
RemovedSince(r) ==
  \A c \in r.carried : StateOf(c) \in Held =>
     \E q \in log : q.by # Nobody /\ q.state \in Held /\ r.seen < q.seq

Omits(r) == Behind(r.seen) /\ (~ raced => RemovedSince(r))

OpenRowsAreLater ==
  ~ raced => \A s \in Slots : \A r \in deciding[s] : \A q \in log : q.seq < r.seq

RemovalInv ==
  /\ WalkInv /\ OpenRowsAreLater
  /\ \A w \in Walkers : /\ walk[w].stage = "reading" => Behind(walk[w].seen)
                        /\ \A r \in walk[w].drawn : Omits(r)
  /\ \A r \in summaries : Omits(r)

-----------------------------------------------------------------------------
LEMMA RowShape ==
  ASSUME NEW r \in Row
  PROVE  /\ r.seq \in Nat /\ r.comment \in Comments /\ r.state \in States
         /\ r.by \in People \cup {Nobody} /\ r.as \in DeciderRoles \cup {"router"}
         /\ r.undo \in BOOLEAN
  BY DEF Row

LEMMA RowIs ==
  ASSUME NEW seq \in Nat, NEW comment \in Comments, NEW state \in States, NEW by \in People \cup {Nobody},
         NEW as \in DeciderRoles \cup {"router"}, NEW undo \in BOOLEAN,
         NEW r, r = [seq |-> seq, comment |-> comment, state |-> state, by |-> by, as |-> as, undo |-> undo]
  PROVE  /\ r \in Row
         /\ r.seq = seq /\ r.comment = comment /\ r.state = state /\ r.by = by /\ r.as = as /\ r.undo = undo
<1>1. r \in Row
  BY Zenon DEF Row
<1> QED  BY <1>1

(* Of finitely many rows one has the greatest sequence.                    *)
LEMMA NewestIs ==
  ASSUME NEW R, R \subseteq Row, IsFiniteSet(R), R # {}
  PROVE  Newest(R) \in R /\ \A q \in R : q.seq <= Newest(R).seq
<1> DEFINE f == [r \in R |-> r.seq]
           S == {f[r] : r \in R}
<1>1. \A r \in R : f[r] = r.seq /\ f[r] \in Nat
  BY RowShape
<1>2. IsFiniteSet(S)
  <2> HIDE DEF f
  <2> QED  BY FiniteImage
<1>3. S \subseteq Nat /\ S # {}
  BY <1>1
<1>4. PICK m : m \in S /\ \A n \in S : n <= m
  <2> HIDE DEF S
  <2> QED  BY <1>2, <1>3, MaxOfFinite
<1>5. PICK r \in R : f[r] = m
  BY <1>4
<1>6. \A q \in R : q.seq <= r.seq
  <2> HIDE DEF f
  <2> QED  BY <1>1, <1>4, <1>5
<1> QED  BY <1>6 DEF Newest

LEMMA StateInIs ==
  ASSUME NEW R, R \subseteq Row, IsFiniteSet(R)
  PROVE  StateIn(R) \in States
  BY NewestIs, RowShape DEF StateIn, States

LEMMA RowsOfLog ==
  ASSUME LogTypes, NEW c
  PROVE  RowsOf(c, log) \subseteq Row /\ IsFiniteSet(RowsOf(c, log)) /\ RowsOf(c, log) \subseteq log
<1>1. RowsOf(c, log) \subseteq log
  BY DEF RowsOf
<1> QED  BY <1>1, FS_Subset DEF LogTypes

(* What an action leaves follows from the rows it found.                   *)
LEMMA WrittenFollows ==
  ASSUME LogInv, NEW c \in Comments, NEW p \in People, MayDecide(p, c),
         NEW a \in Roles(p), NEW action \in ActionsOf(p)
  PROVE  /\ Written(c, p, a, action) \subseteq Row
         /\ \A q, r \in Written(c, p, a, action) : q = r
         /\ \A r \in Written(c, p, a, action) :
              /\ r.seq = next /\ r.comment = c /\ r.by # Nobody
              /\ Follows(r, RowsOf(c, log), Earlier(Newest(RowsOf(c, log)), RowsOf(c, log)))
<1>1. PICK R : R = RowsOf(c, log)
  OBVIOUS
<1>2. /\ R \subseteq Row /\ IsFiniteSet(R) /\ R \subseteq log
      /\ \A q, r \in R : q.seq = r.seq => q = r
  BY <1>1, RowsOfLog DEF LogInv, DrawnOnce
<1>3. action \in {"exclude", "keep", "undo"} /\ a \in DeciderRoles \cup {"router"}
  BY DecisionAssumption DEF ActionsOf, Roles, DeciderRoles, People
<1>4. PICK undo \in BOOLEAN : undo = (action = "undo")
  BY Zenon
<1>5. Written(c, p, a, action) =
        {[seq |-> next, comment |-> c, state |-> state, by |-> p, as |-> a, undo |-> undo] :
           state \in Outcome(R, action, p, a)}
  BY <1>1, <1>4, Zenon DEF Written
<1>6. \A x, y \in Outcome(R, action, p, a) : x = y
  BY <1>3 DEF Outcome, Exclusion, Keeping, Restored
<1>7. Outcome(R, action, p, a) \subseteq States
  <2>1. StateIn(R \ {Newest(R)}) \in States
    BY <1>2, FS_Subset, StateInIs
  <2> QED  BY <1>3, <2>1 DEF Outcome, Exclusion, Keeping, Restored, States
<1>8. R # {} => Earlier(Newest(R), R) = R \ {Newest(R)}
  <2> SUFFICES ASSUME R # {} PROVE Earlier(Newest(R), R) = R \ {Newest(R)}
    OBVIOUS
  <2>1. PICK n : n = Newest(R)
    OBVIOUS
  <2>2. n \in R /\ \A q \in R : q.seq <= n.seq
    BY <1>2, <2>1, NewestIs
  <2>3. \A q \in R : q.seq \in Nat
    BY <1>2, RowShape
  <2>4. \A q \in R : q.seq < n.seq <=> q # n
    BY <1>2, <2>2, <2>3
  <2>5. Earlier(n, R) = R \ {n}
    BY <2>4 DEF Earlier
  <2> QED  BY <2>1, <2>5
<1>9. ASSUME NEW r \in Written(c, p, a, action)
      PROVE  /\ r \in Row /\ r.seq = next /\ r.comment = c /\ r.by # Nobody
             /\ Follows(r, R, Earlier(Newest(R), R))
  <2>1. PICK state \in Outcome(R, action, p, a) :
          r = [seq |-> next, comment |-> c, state |-> state, by |-> p, as |-> a, undo |-> undo]
    BY <1>5, <1>9, Zenon
  <2>2. next \in Nat /\ state \in States /\ p \in People \cup {Nobody} /\ p # Nobody
    BY <1>7, DecisionAssumption DEF LogInv, LogTypes
  <2>3. /\ r \in Row
        /\ r.seq = next /\ r.comment = c /\ r.state = state /\ r.by = p /\ r.as = a /\ r.undo = undo
    BY <1>3, <2>1, <2>2, RowIs
  <2>4. p \in Leaders => flag[c] = "harmful" /\ StateIn(R) = "FLAGGED_COLLAPSED"
    BY <1>1 DEF MayDecide, InQueue, StateOf
  <2>5. CASE action = "exclude"
    <3>1. state = "EXCLUDED" /\ StateIn(R) \in Excludable
      BY <2>5 DEF Outcome, Exclusion
    <3>2. ~ undo
      BY <1>4, <2>5
    <3> QED  BY <2>2, <2>3, <2>4, <3>1, <3>2, Zenon DEF Follows
  <2>6. CASE action = "keep"
    <3>1. state = "KEPT" /\ StateIn(R) \in Keepable
      BY <2>6 DEF Outcome, Keeping
    <3>2. ~ undo
      BY <1>4, <2>6
    <3> QED  BY <2>2, <2>3, <2>4, <3>1, <3>2, Zenon DEF Follows
  <2>7. CASE action = "undo"
    <3>1. /\ R # {} /\ ~ Newest(R).undo /\ Newest(R).by = p /\ Newest(R).as = a
          /\ state = StateIn(R \ {Newest(R)})
      BY <2>7 DEF Outcome, Restored
    <3>2. undo
      BY <1>4, <2>7
    <3> QED  BY <1>8, <2>2, <2>3, <2>4, <3>1, <3>2, Zenon DEF Follows
  <2> QED  BY <1>3, <2>2, <2>3, <2>5, <2>6, <2>7
<1>10. \A q, r \in Written(c, p, a, action) : q = r
  BY <1>5, <1>6, Zenon
<1> QED  BY <1>1, <1>9, <1>10, Zenon

-----------------------------------------------------------------------------
(* A request writes its row, or takes it back.                             *)
LEMMA OpenRowsMove ==
  ASSUME LogInv, NEW s \in Slots, NEW W \in SUBSET Row, deciding' = [deciding EXCEPT ![s] = W],
         UNCHANGED <<flag, log>>, next' \in Nat \ {0}, next <= next',
         \A q, r \in W : q = r,
         \A r \in W : /\ 0 < r.seq /\ r.seq < next'
                      /\ \A q \in log : q.seq # r.seq
                      /\ \A t \in Slots \ {s} : \A q \in deciding[t] :
                           q.seq # r.seq /\ q.comment # r.comment
                      /\ r.by # Nobody
                      /\ \A q \in RowsOf(r.comment, log) : q.seq < r.seq
                      /\ Follows(r, RowsOf(r.comment, log),
                                 Earlier(Newest(RowsOf(r.comment, log)), RowsOf(r.comment, log)))
  PROVE  LogInv'
<1>1. deciding'[s] = W /\ \A t \in Slots : t # s => deciding'[t] = deciding[t]
  BY DEF LogInv, LogTypes
<1>2. LogTypes'
  BY DEF LogInv, LogTypes
<1>3. \A r \in log : r.seq \in Nat
  BY RowShape DEF LogInv, LogTypes
<1>4. \A t \in Slots : \A r \in deciding[t] : r.seq \in Nat
  BY RowShape DEF LogInv, LogTypes
<1>5. DrawnOnce'
  <2>1. \A r \in log : 0 < r.seq /\ r.seq < next'
    BY <1>2, <1>3 DEF LogInv, DrawnOnce, LogTypes
  <2>2. ASSUME NEW t \in Slots, NEW r \in deciding'[t]
        PROVE  /\ 0 < r.seq /\ r.seq < next' /\ \A q \in deciding'[t] : q = r
               /\ \A q \in log : q.seq # r.seq
               /\ \A v \in Slots \ {t} : \A q \in deciding'[v] : q.seq # r.seq
    <3>1. CASE t = s
      BY <1>1, <2>2, <3>1
    <3>2. CASE t # s
      <4>1. /\ r \in deciding[t] /\ 0 < r.seq /\ r.seq < next /\ \A q \in deciding[t] : q = r
            /\ \A q \in log : q.seq # r.seq
            /\ \A v \in Slots \ {t} : \A q \in deciding[v] : q.seq # r.seq
        BY <1>1, <2>2, <3>2 DEF LogInv, DrawnOnce
      <4>2. r.seq \in Nat /\ next \in Nat
        BY <1>4, <4>1 DEF LogInv, LogTypes
      <4>3. \A q \in W : q.seq # r.seq
        BY <3>2, <4>1
      <4> QED  BY <1>1, <3>2, <4>1, <4>2, <4>3
    <3> QED  BY <3>1, <3>2
  <2> QED  BY <2>1, <2>2 DEF LogInv, DrawnOnce
<1>6. OpenRowsFollow'
  <2> SUFFICES ASSUME NEW t \in Slots, NEW r \in deciding'[t], NEW R, R = RowsOf(r.comment, log)
               PROVE  /\ r.by # Nobody
                      /\ \A v \in Slots : \A q \in deciding'[v] : q.comment = r.comment => v = t
                      /\ \A q \in R : q.seq < r.seq
                      /\ Follows(r, R, Earlier(Newest(R), R))'
    BY Zenon DEF OpenRowsFollow, RowsOf
  <2>1. CASE t = s
    <3>1. /\ r \in W /\ r.by # Nobody /\ \A q \in R : q.seq < r.seq
          /\ Follows(r, R, Earlier(Newest(R), R))
      BY <1>1, <2>1
    <3>2. Follows(r, R, Earlier(Newest(R), R))'
      BY <3>1, Zenon DEF Follows
    <3> QED  BY <1>1, <2>1, <3>1, <3>2
  <2>2. CASE t # s
    <3>1. /\ r \in deciding[t] /\ r.by # Nobody /\ \A q \in R : q.seq < r.seq
          /\ \A v \in Slots : \A q \in deciding[v] : q.comment = r.comment => v = t
          /\ Follows(r, R, Earlier(Newest(R), R))
      BY <1>1, <2>2, Zenon DEF LogInv, OpenRowsFollow
    <3>2. Follows(r, R, Earlier(Newest(R), R))'
      BY <3>1, Zenon DEF Follows
    <3>3. \A q \in W : q.comment # r.comment
      BY <2>2, <3>1
    <3> QED  BY <1>1, <3>1, <3>2, <3>3
  <2> QED  BY <2>1, <2>2
<1>7. RowsFollow'
  BY Zenon DEF LogInv, RowsFollow, RowsBefore, RowsOf, Follows
<1> QED  BY <1>2, <1>5, <1>6, <1>7 DEF LogInv

LEMMA RecordKeeps ==
  ASSUME LogInv, NEW s \in Slots, Record(s)
  PROVE  LogInv'
<1>1. PICK c \in Comments, p \in People :
        /\ \A t \in Slots : ~ HasLock(t, c)
        /\ MayDecide(p, c)
        /\ \E a \in Roles(p), action \in ActionsOf(p) :
             /\ Written(c, p, a, action) # {}
             /\ deciding' = [deciding EXCEPT ![s] = Written(c, p, a, action)]
  BY Zenon DEF Record
<1>2. PICK a \in Roles(p), action \in ActionsOf(p) :
        deciding' = [deciding EXCEPT ![s] = Written(c, p, a, action)]
  BY <1>1
<1>3. PICK W : W = Written(c, p, a, action)
  OBVIOUS
<1>4. /\ W \subseteq Row /\ \A q, r \in W : q = r
      /\ \A r \in W : /\ r.seq = next /\ r.comment = c /\ r.by # Nobody
                      /\ Follows(r, RowsOf(c, log), Earlier(Newest(RowsOf(c, log)), RowsOf(c, log)))
  BY <1>1, <1>3, WrittenFollows, Zenon
<1>5. next' = next + 1 /\ next \in Nat \ {0} /\ UNCHANGED <<flag, log>>
  BY Zenon DEF Record, LogInv, LogTypes
<1>6. \A t \in Slots : \A q \in deciding[t] : q.comment # c
  BY <1>1 DEF HasLock
<1>7. /\ \A q \in log : q.seq \in Nat /\ q.seq < next
      /\ \A t \in Slots : \A q \in deciding[t] : q.seq \in Nat /\ q.seq < next
  BY RowShape DEF LogInv, LogTypes, DrawnOnce
<1>8. ASSUME NEW r \in W
      PROVE  /\ 0 < r.seq /\ r.seq < next'
             /\ \A q \in log : q.seq # r.seq
             /\ \A t \in Slots \ {s} : \A q \in deciding[t] : q.seq # r.seq /\ q.comment # r.comment
             /\ r.by # Nobody
             /\ \A q \in RowsOf(r.comment, log) : q.seq < r.seq
             /\ Follows(r, RowsOf(r.comment, log),
                        Earlier(Newest(RowsOf(r.comment, log)), RowsOf(r.comment, log)))
  <2>1. r.seq = next /\ r.comment = c /\ r.by # Nobody
    BY <1>4
  <2>2. 0 < r.seq /\ r.seq < next'
    BY <1>5, <2>1
  <2>3. /\ \A q \in log : q.seq # r.seq
        /\ \A t \in Slots \ {s} : \A q \in deciding[t] : q.seq # r.seq /\ q.comment # r.comment
    BY <1>5, <1>6, <1>7, <2>1
  <2>4. \A q \in RowsOf(r.comment, log) : q.seq < r.seq
    BY <1>7, <2>1 DEF RowsOf
  <2>5. Follows(r, RowsOf(r.comment, log), Earlier(Newest(RowsOf(r.comment, log)), RowsOf(r.comment, log)))
    BY <1>4, <2>1, Zenon
  <2> QED  BY <2>1, <2>2, <2>3, <2>4, <2>5
<1>9. deciding' = [deciding EXCEPT ![s] = W] /\ W \in SUBSET Row
  BY <1>2, <1>3, <1>4
<1>10. next' \in Nat \ {0} /\ next <= next'
  BY <1>5
<1> QED  BY <1>4, <1>5, <1>8, <1>9, <1>10, OpenRowsMove, Zenon

LEMMA RollBackKeeps ==
  ASSUME LogInv, NEW s \in Slots, RollBack(s)
  PROVE  LogInv'
<1>1. deciding' = [deciding EXCEPT ![s] = {}] /\ UNCHANGED <<flag, log, next>>
  BY DEF RollBack
<1>2. next \in Nat \ {0}
  BY DEF LogInv, LogTypes
<1>3. next <= next' /\ next' \in Nat \ {0}
  BY <1>1, <1>2
<1>4. PICK W \in SUBSET Row : W = {}
  OBVIOUS
<1>5. (\A q, r \in W : q = r) /\ \A r \in W : FALSE
  BY <1>4
<1> QED  BY <1>1, <1>3, <1>4, <1>5, OpenRowsMove, Zenon

(* What a commit adds comes after the rows of its comment.                 *)
LEMMA CommitDecisionKeeps ==
  ASSUME LogInv, NEW s \in Slots, CommitDecision(s)
  PROVE  LogInv'
<1>1. /\ log' = log \cup deciding[s] /\ deciding' = [deciding EXCEPT ![s] = {}]
      /\ UNCHANGED <<flag, next>>
  BY DEF CommitDecision
<1>2. PICK d \in deciding[s] : deciding[s] = {d}
  BY DEF CommitDecision, LogInv, DrawnOnce
<1>3. PICK R : R = RowsOf(d.comment, log)
  OBVIOUS
<1>4. /\ d \in Row /\ d.seq \in Nat /\ 0 < d.seq /\ d.seq < next /\ d.by # Nobody
      /\ \A q \in R : q.seq < d.seq
      /\ Follows(d, R, Earlier(Newest(R), R))
      /\ \A t \in Slots : \A q \in deciding[t] : q.comment = d.comment => t = s
  BY <1>2, <1>3, RowShape, Zenon DEF LogInv, LogTypes, DrawnOnce, OpenRowsFollow
<1>5. deciding'[s] = {} /\ \A t \in Slots : t # s => deciding'[t] = deciding[t]
  BY <1>1 DEF LogInv, LogTypes
<1>6. log' = log \cup {d} /\ \A r \in log : r.seq \in Nat
  BY <1>1, <1>2, RowShape DEF LogInv, LogTypes
<1>7. LogTypes'
  <2>1. IsFiniteSet(log')
    BY <1>6, FS_AddElement DEF LogInv, LogTypes
  <2> QED  BY <1>1, <1>4, <1>6, <2>1 DEF LogInv, LogTypes
<1>8. /\ \A q \in log : q.seq # d.seq
      /\ \A t \in Slots \ {s} : \A q \in deciding[t] : q.seq # d.seq
  BY DEF LogInv, DrawnOnce
<1>9. DrawnOnce'
  <2>1. \A r \in log' : 0 < r.seq /\ r.seq < next'
    BY <1>1, <1>4, <1>6 DEF LogInv, DrawnOnce
  <2>2. \A q, r \in log' : q.seq = r.seq => q = r
    BY <1>6, <1>8 DEF LogInv, DrawnOnce
  <2>3. ASSUME NEW t \in Slots, NEW r \in deciding'[t]
        PROVE  /\ 0 < r.seq /\ r.seq < next' /\ \A q \in deciding'[t] : q = r
               /\ \A q \in log' : q.seq # r.seq
               /\ \A v \in Slots \ {t} : \A q \in deciding'[v] : q.seq # r.seq
    <3>1. t # s /\ r \in deciding[t]
      BY <1>5, <2>3
    <3>2. /\ 0 < r.seq /\ r.seq < next /\ \A q \in deciding[t] : q = r
          /\ \A q \in log : q.seq # r.seq
          /\ \A v \in Slots \ {t} : \A q \in deciding[v] : q.seq # r.seq
      BY <3>1 DEF LogInv, DrawnOnce
    <3> QED  BY <1>1, <1>5, <1>6, <1>8, <3>1, <3>2
  <2> QED  BY <2>1, <2>2, <2>3 DEF DrawnOnce
<1>10. \A c : c # d.comment => RowsOf(c, log') = RowsOf(c, log)
  BY <1>6 DEF RowsOf
<1>11. OpenRowsFollow'
  <2> SUFFICES ASSUME NEW t \in Slots, NEW r \in deciding'[t], NEW S, S = RowsOf(r.comment, log')
               PROVE  /\ r.by # Nobody
                      /\ \A v \in Slots : \A q \in deciding'[v] : q.comment = r.comment => v = t
                      /\ \A q \in S : q.seq < r.seq
                      /\ Follows(r, S, Earlier(Newest(S), S))'
    BY Zenon DEF OpenRowsFollow, RowsOf
  <2>1. t # s /\ r \in deciding[t]
    BY <1>5
  <2>2. r.comment # d.comment
    BY <1>4, <2>1
  <2>3. S = RowsOf(r.comment, log)
    BY <1>10, <2>2
  <2>4. /\ r.by # Nobody /\ \A q \in S : q.seq < r.seq
        /\ \A v \in Slots : \A q \in deciding[v] : q.comment = r.comment => v = t
        /\ Follows(r, S, Earlier(Newest(S), S))
    BY <2>1, <2>3, Zenon DEF LogInv, OpenRowsFollow
  <2>5. Follows(r, S, Earlier(Newest(S), S))'
    BY <1>1, <2>4, Zenon DEF Follows
  <2> QED  BY <1>5, <2>4, <2>5
<1>12. RowsFollow'
  <2> SUFFICES ASSUME NEW r \in log', r.by # Nobody, NEW B, B = RowsBefore(r)'
               PROVE  Follows(r, B, Earlier(Newest(B), B))'
    BY Zenon DEF RowsFollow
  <2>1. CASE r \in log
    <3>1. B = RowsBefore(r)
      <4>1. CASE r.comment # d.comment
        BY <1>6, <2>1, <4>1 DEF RowsBefore, RowsOf
      <4>2. CASE r.comment = d.comment
        <5>1. r.seq < d.seq
          BY <1>3, <1>4, <2>1, <4>2 DEF RowsOf
        <5>2. ~ (d.seq < r.seq)
          BY <1>4, <1>6, <2>1, <5>1
        <5> QED  BY <1>6, <5>2 DEF RowsBefore, RowsOf
      <4> QED  BY <4>1, <4>2
    <3>2. Follows(r, B, Earlier(Newest(B), B))
      BY <2>1, <3>1, Zenon DEF LogInv, RowsFollow
    <3> QED  BY <1>1, <3>2, Zenon DEF Follows
  <2>2. CASE r = d
    <3>1. B = R
      BY <1>3, <1>4, <1>6, <2>2 DEF RowsBefore, RowsOf
    <3> QED  BY <1>1, <1>4, <2>2, <3>1, Zenon DEF Follows
  <2> QED  BY <1>6, <2>1, <2>2
<1> QED  BY <1>7, <1>9, <1>11, <1>12 DEF LogInv

LEMMA LogInit == DecisionInit => LogInv
<1> SUFFICES ASSUME DecisionInit PROVE LogInv
  OBVIOUS
<1>1. PICK g \in RoutedRows(flag) :
        /\ log = {[seq |-> g[c], comment |-> c, state |-> "FLAGGED_COLLAPSED",
                   by |-> Nobody, as |-> "router", undo |-> FALSE] : c \in DOMAIN g}
        /\ next = Cardinality(DOMAIN g) + 1
  BY Zenon DEF DecisionInit
<1>2. PICK D : D = FlaggedBy(flag)
  OBVIOUS
<1>3. /\ D \subseteq Comments /\ IsFiniteSet(D) /\ Cardinality(D) \in Nat
      /\ g \in [D -> 1..Cardinality(D)] /\ \A c, d \in D : c # d => g[c] # g[d]
  <2>1. D \subseteq Comments
    BY <1>2 DEF FlaggedBy
  <2>2. IsFiniteSet(D) /\ Cardinality(D) \in Nat
    BY <2>1, DecisionAssumption, FS_Subset, FS_CardinalityType
  <2>3. g \in [D -> 1..Cardinality(D)] /\ \A c, d \in D : c # d => g[c] # g[d]
    BY <1>2 DEF RoutedRows
  <2> QED  BY <2>1, <2>2, <2>3
<1>4. PICK no \in BOOLEAN : no = FALSE
  BY Zenon
<1>5. PICK f : f = [c \in D |-> [seq |-> g[c], comment |-> c, state |-> "FLAGGED_COLLAPSED",
                                 by |-> Nobody, as |-> "router", undo |-> no]]
  OBVIOUS
<1>6. log = {f[c] : c \in D}
  <2>1. DOMAIN g = D
    BY <1>3
  <2>2. \A c \in D : f[c] = [seq |-> g[c], comment |-> c, state |-> "FLAGGED_COLLAPSED",
                             by |-> Nobody, as |-> "router", undo |-> no]
    BY <1>5
  <2> QED  BY <1>1, <1>4, <2>1, <2>2, Zenon
<1>7. \A c \in D : f[c] \in Row /\ f[c].seq = g[c] /\ f[c].by = Nobody /\ g[c] \in 1..Cardinality(D)
  <2> SUFFICES ASSUME NEW c \in D
               PROVE  f[c] \in Row /\ f[c].seq = g[c] /\ f[c].by = Nobody /\ g[c] \in 1..Cardinality(D)
    OBVIOUS
  <2>1. f[c] = [seq |-> g[c], comment |-> c, state |-> "FLAGGED_COLLAPSED",
                by |-> Nobody, as |-> "router", undo |-> no]
    BY <1>5
  <2>2. /\ g[c] \in Nat /\ c \in Comments /\ "FLAGGED_COLLAPSED" \in States
        /\ Nobody \in People \cup {Nobody} /\ "router" \in DeciderRoles \cup {"router"}
    BY <1>3 DEF States
  <2> QED  BY <1>3, <2>1, <2>2, RowIs
<1>8. /\ deciding = [s \in Slots |-> {}] /\ next = Cardinality(D) + 1
  <2>1. DOMAIN g = D
    BY <1>3
  <2> QED  BY <1>1, <2>1, Zenon DEF DecisionInit
<1>9. LogTypes
  <2>1. IsFiniteSet(log)
    BY <1>3, <1>6, FiniteImage
  <2> QED  BY <1>3, <1>6, <1>7, <1>8, <2>1 DEF LogTypes
<1>10. DrawnOnce
  BY <1>3, <1>6, <1>7, <1>8 DEF DrawnOnce
<1>11. OpenRowsFollow /\ RowsFollow
  BY <1>6, <1>7, <1>8 DEF OpenRowsFollow, RowsFollow
<1> QED  BY <1>9, <1>10, <1>11 DEF LogInv

(* The walk leaves the log alone.                                          *)
LEMMA LogStays ==
  ASSUME LogInv, UNCHANGED <<flag, log, next, deciding>>
  PROVE  LogInv'
<1>1. LogTypes' /\ DrawnOnce'
  BY DEF LogInv, LogTypes, DrawnOnce
<1>2. OpenRowsFollow'
  <2> SUFFICES ASSUME NEW t \in Slots, NEW r \in deciding[t], NEW R, R = RowsOf(r.comment, log)
               PROVE  /\ r.by # Nobody
                      /\ \A v \in Slots : \A q \in deciding[v] : q.comment = r.comment => v = t
                      /\ \A q \in R : q.seq < r.seq
                      /\ Follows(r, R, Earlier(Newest(R), R))'
    BY Zenon DEF OpenRowsFollow, RowsOf
  <2>1. /\ r.by # Nobody /\ \A q \in R : q.seq < r.seq
        /\ \A v \in Slots : \A q \in deciding[v] : q.comment = r.comment => v = t
        /\ Follows(r, R, Earlier(Newest(R), R))
    BY Zenon DEF LogInv, OpenRowsFollow
  <2>2. Follows(r, R, Earlier(Newest(R), R))'
    BY <2>1, Zenon DEF Follows
  <2> QED  BY <2>1, <2>2
<1>3. RowsFollow'
  BY Zenon DEF LogInv, RowsFollow, RowsBefore, RowsOf, Follows
<1> QED  BY <1>1, <1>2, <1>3 DEF LogInv

LEMMA DecisionSteps ==
  ASSUME [DecisionNext]_decisionVars
  PROVE  \/ \E s \in Slots : Record(s) \/ RollBack(s) \/ CommitDecision(s)
         \/ \E w \in Walkers : \/ StartWalk(w) \/ ReadSequence(w) \/ Summarize(w)
                               \/ CommitSummaries(w) \/ LeaveWeek(w)
         \/ UNCHANGED decisionVars
  BY Zenon DEF DecisionNext

LEMMA WalksLeaveTheLog ==
  ASSUME NEW w \in Walkers,
         StartWalk(w) \/ ReadSequence(w) \/ Summarize(w) \/ CommitSummaries(w) \/ LeaveWeek(w)
  PROVE  UNCHANGED <<flag, log, next, deciding, raced>>
  BY Zenon DEF StartWalk, ReadSequence, Summarize, CommitSummaries, LeaveWeek

LEMMA DecisionsLeaveTheWalks ==
  ASSUME NEW s \in Slots, Record(s) \/ RollBack(s) \/ CommitDecision(s)
  PROVE  UNCHANGED <<flag, walk, summaries>>
  BY Zenon DEF Record, RollBack, CommitDecision

LEMMA LogStep == LogInv /\ [DecisionNext]_decisionVars => LogInv'
<1> SUFFICES ASSUME LogInv, [DecisionNext]_decisionVars PROVE LogInv'
  OBVIOUS
<1>1. ASSUME NEW s \in Slots, Record(s) \/ RollBack(s) \/ CommitDecision(s)
      PROVE  LogInv'
  BY <1>1, RecordKeeps, RollBackKeeps, CommitDecisionKeeps
<1>2. ASSUME NEW w \in Walkers,
             StartWalk(w) \/ ReadSequence(w) \/ Summarize(w) \/ CommitSummaries(w) \/ LeaveWeek(w)
      PROVE  LogInv'
  BY <1>2, WalksLeaveTheLog, LogStays
<1>3. CASE UNCHANGED decisionVars
  BY <1>3, LogStays DEF decisionVars
<1> QED  BY <1>1, <1>2, <1>3, DecisionSteps, Zenon

(* However decisions overlap, each was allowed from what the row before it *)
(* left (services/moderation.py, the advisory lock on the comment).        *)
THEOREM DecisionsWereAllowed == DecisionSpec => []DecisionsFollowTheLog
<1>1. LogInv => DecisionsFollowTheLog
  <2> SUFFICES ASSUME LogInv, NEW r \in log, r.by # Nobody,
                      NEW B, B = RowsBefore(r), NEW n, n = Newest(B)
               PROVE  /\ r.by \in Leaders =>
                           flag[r.comment] = "harmful" /\ StateIn(B) = "FLAGGED_COLLAPSED"
                      /\ \/ ~ r.undo /\ r.state = "EXCLUDED" /\ StateIn(B) \in Excludable
                         \/ ~ r.undo /\ r.state = "KEPT" /\ StateIn(B) \in Keepable
                         \/ /\ r.undo /\ B # {}
                            /\ n.by = r.by /\ n.as = r.as /\ ~ n.undo
                            /\ r.state = StateIn(RowsBefore(n))
    BY Zenon DEF DecisionsFollowTheLog
  <2>1. Follows(r, B, Earlier(n, B))
    BY Zenon DEF LogInv, RowsFollow
  <2>2. ASSUME B # {} PROVE Earlier(n, B) = RowsBefore(n)
    <3>1. B \subseteq log /\ B \subseteq Row /\ IsFiniteSet(B)
      BY FS_Subset DEF LogInv, LogTypes, RowsBefore, RowsOf
    <3>2. n \in B
      BY <2>2, <3>1, NewestIs
    <3>3. /\ n.comment = r.comment /\ n.seq < r.seq
          /\ r.seq \in Nat /\ n.seq \in Nat /\ \A q \in log : q.seq \in Nat
      BY <3>1, <3>2, RowShape DEF LogInv, LogTypes, RowsBefore, RowsOf
    <3>4. \A q \in log : q.seq < n.seq => q.seq < r.seq
      BY <3>3
    <3> QED  BY <3>3, <3>4 DEF Earlier, RowsBefore, RowsOf
  <2> QED  BY <2>1, <2>2, Zenon DEF Follows
<1> QED  BY <1>1, LogInit, LogStep, PTL DEF DecisionSpec

-----------------------------------------------------------------------------
LEMMA RunShape ==
  ASSUME NEW t \in Run
  PROVE  /\ t = [stage |-> t.stage, seen |-> t.seen, drawn |-> t.drawn]
         /\ t.stage \in {"idle", "listed", "reading"} /\ t.seen \in Nat /\ t.drawn \subseteq Summary
  BY DEF Run

LEMMA RunIs ==
  ASSUME NEW stage \in {"idle", "listed", "reading"}, NEW n \in Nat, NEW drawn \in SUBSET Summary,
         NEW t, t = [stage |-> stage, seen |-> n, drawn |-> drawn]
  PROVE  t \in Run /\ t.stage = stage /\ t.seen = n /\ t.drawn = drawn
<1>1. t \in Run
  BY Zenon DEF Run
<1> QED  BY <1>1

LEMMA SummaryShape ==
  ASSUME NEW r \in Summary
  PROVE  r.stream \in Streams /\ r.seen \in Nat /\ r.carried \subseteq Comments /\ r.walker \in Walkers
  BY DEF Summary

(* The greatest sequence of some rows, 0 where there are none.             *)
LEMMA GreatestSequence ==
  ASSUME NEW R, R \subseteq Row, IsFiniteSet(R), NEW m, m = Max({r.seq : r \in R} \cup {0})
  PROVE  /\ m \in Nat /\ \A r \in R : r.seq <= m
         /\ m = 0 \/ \E r \in R : m = r.seq
<1> DEFINE f == [r \in R |-> r.seq]
           S == {f[r] : r \in R} \cup {0}
<1>1. \A r \in R : f[r] = r.seq /\ f[r] \in Nat
  BY RowShape
<1>2. S = {r.seq : r \in R} \cup {0}
  OBVIOUS
<1>3. IsFiniteSet(S) /\ S \subseteq Nat /\ S # {}
  <2>1. PICK T : T = {f[r] : r \in R}
    OBVIOUS
  <2>2. IsFiniteSet(T)
    <3> HIDE DEF f
    <3> QED  BY <2>1, FiniteImage
  <2>3. T \subseteq Nat /\ S = T \cup {0}
    BY <1>1, <2>1
  <2> HIDE DEF S
  <2> QED  BY <2>2, <2>3, FS_AddElement
<1>4. m \in S /\ \A n \in S : n <= m
  <2> HIDE DEF S
  <2> QED  BY <1>2, <1>3, MaxOfFinite
<1>5. \A r \in R : r.seq \in S
  BY <1>2
<1>6. m = 0 \/ \E r \in R : m = f[r]
  <2> HIDE DEF f
  <2> QED  BY <1>4
<1>7. m \in Nat /\ \A r \in R : r.seq <= m
  <2> HIDE DEF S
  <2> QED  BY <1>3, <1>4, <1>5
<1> QED  BY <1>1, <1>6, <1>7

LEMMA LatestSequenceIs ==
  ASSUME LogTypes
  PROVE  /\ LatestSequence \in Nat /\ \A r \in log : r.seq <= LatestSequence
         /\ LatestSequence = 0 \/ \E r \in log : LatestSequence = r.seq
<1>1. PICK m : m = Max({r.seq : r \in log} \cup {0})
  OBVIOUS
<1>2. LatestSequence = m
  BY <1>1 DEF LatestSequence
<1>3. log \subseteq Row /\ IsFiniteSet(log)
  BY DEF LogTypes
<1>4. /\ m \in Nat /\ \A r \in log : r.seq <= m
      /\ m = 0 \/ \E r \in log : m = r.seq
  BY <1>1, <1>3, GreatestSequence, SMTT(30)
<1> QED  BY <1>2, <1>4

LEMMA NoRunIs ==
  /\ NoRun \in Run /\ NoRun.stage = "idle" /\ NoRun.drawn = {}
  /\ \A w : DrawnInOrder(w, NoRun)
<1>1. NoRun \in Run /\ NoRun.stage = "idle" /\ NoRun.drawn = {}
  BY RunIs DEF NoRun
<1>2. Len(ReportStreams) \in Nat
  BY DecisionAssumption, LenProperties
<1>3. IsFiniteSet({}) /\ Cardinality({}) = 0
  BY FS_EmptySet
<1> QED  BY <1>1, <1>2, <1>3 DEF DrawnInOrder

(* What a step of a walk leaves of it.                                     *)
LEMMA WalkStarted ==
  ASSUME NEW w \in Walkers, walk[w] \in Run, DrawnInOrder(w, walk[w]), StartWalk(w)
  PROVE  \E t \in Run : /\ walk' = [walk EXCEPT ![w] = t] /\ DrawnInOrder(w, t)
                        /\ t.stage # "reading" /\ t.drawn = {}
<1>1. PICK u : u = walk[w]
  OBVIOUS
<1>2. PICK t : t = [u EXCEPT !.stage = "listed"]
  OBVIOUS
<1>3. walk' = [walk EXCEPT ![w] = t] /\ u.stage = "idle"
  BY <1>1, <1>2 DEF StartWalk
<1>4. t = [stage |-> "listed", seen |-> u.seen, drawn |-> u.drawn]
  BY <1>1, <1>2, RunShape
<1>5. t \in Run /\ t.stage = "listed" /\ t.seen = u.seen /\ t.drawn = u.drawn
  BY <1>1, <1>4, RunShape, RunIs
<1>6. DrawnInOrder(w, t) /\ t.drawn = {}
  BY <1>1, <1>3, <1>5, Zenon DEF DrawnInOrder
<1> QED  BY <1>3, <1>5, <1>6

LEMMA SequenceRead ==
  ASSUME LogTypes, NEW w \in Walkers, walk[w] \in Run, DrawnInOrder(w, walk[w]), ReadSequence(w)
  PROVE  \E t \in Run : /\ walk' = [walk EXCEPT ![w] = t] /\ DrawnInOrder(w, t)
                        /\ t.seen = LatestSequence /\ t.drawn = {}
<1>1. PICK u : u = walk[w]
  OBVIOUS
<1>2. PICK t : t = [u EXCEPT !.stage = "reading", !.seen = LatestSequence]
  OBVIOUS
<1>3. walk' = [walk EXCEPT ![w] = t] /\ u.stage = "listed"
  BY <1>1, <1>2 DEF ReadSequence
<1>4. t = [stage |-> "reading", seen |-> LatestSequence, drawn |-> u.drawn]
  <2>1. u = [stage |-> u.stage, seen |-> u.seen, drawn |-> u.drawn]
    BY <1>1, RunShape
  <2> QED  BY ONLY <1>2, <2>1
<1>5. t \in Run /\ t.stage = "reading" /\ t.seen = LatestSequence /\ t.drawn = u.drawn
  BY <1>1, <1>4, LatestSequenceIs, RunShape, RunIs
<1>6. u.drawn = {}
  BY <1>1, <1>3 DEF DrawnInOrder
<1>7. DrawnInOrder(w, t)
  BY <1>1, <1>5, <1>6 DEF DrawnInOrder
<1> QED  BY <1>3, <1>5, <1>6, <1>7

LEMMA Summarized ==
  ASSUME NEW w \in Walkers, walk[w] \in Run, DrawnInOrder(w, walk[w]), Summarize(w)
  PROVE  \E t \in Run : /\ walk' = [walk EXCEPT ![w] = t] /\ DrawnInOrder(w, t)
                        /\ walk[w].stage = "reading" /\ t.stage = "reading" /\ t.seen = walk[w].seen
                        /\ \A r \in t.drawn :
                             \/ r \in walk[w].drawn
                             \/ r.seen = t.seen /\ \A c \in r.carried : StateOf(c) \notin Held
<1>1. PICK u : u = walk[w]
  OBVIOUS
<1>2. PICK n, x : n = Cardinality(u.drawn) /\ x = Draw(w)
  OBVIOUS
<1>3. PICK drawn : drawn = u.drawn \cup {x}
  OBVIOUS
<1>4. PICK t : t = [u EXCEPT !.drawn = drawn]
  OBVIOUS
<1>5. walk' = [walk EXCEPT ![w] = t] /\ u.stage = "reading" /\ n < Len(ReportStreams)
  BY <1>1, <1>2, <1>3, <1>4 DEF Summarize, Drawn
<1>6. /\ IsFiniteSet(u.drawn) /\ n \in Nat /\ Len(ReportStreams) \in Nat
      /\ DOMAIN ReportStreams = 1..Len(ReportStreams)
  BY <1>1, <1>2, FS_CardinalityType, DecisionAssumption, LenProperties DEF DrawnInOrder
<1>7. /\ x = [stream |-> ReportStreams[n + 1], seen |-> u.seen,
              carried |-> ReachTheModel(ReportStreams[n + 1]), walker |-> w]
      /\ ReportStreams[n + 1] \in Streams
  BY <1>1, <1>2, <1>5, <1>6 DEF Draw, Drawn, Streams
<1>8. ReachTheModel(ReportStreams[n + 1]) \subseteq {c \in Comments : StateOf(c) \notin Held}
  BY DEF ReachTheModel
<1>9. /\ x \in Summary /\ x.stream = ReportStreams[n + 1] /\ x.seen = u.seen /\ x.walker = w
      /\ \A c \in x.carried : StateOf(c) \notin Held
  <2>1. u.seen \in Nat
    BY <1>1, RunShape
  <2> QED  BY <1>7, <1>8, <2>1 DEF Summary
<1>10. \A r \in u.drawn : r.stream # x.stream
  <2>1. \A i \in 1..n : ReportStreams[i] # ReportStreams[n + 1]
    BY <1>5, <1>6, DecisionAssumption DEF IsInjective
  <2> QED  BY <1>1, <1>2, <1>9, <2>1 DEF DrawnInOrder
<1>11. IsFiniteSet(drawn) /\ Cardinality(drawn) = n + 1
  BY <1>2, <1>3, <1>6, <1>10, FS_AddElement
<1>12. t = [stage |-> u.stage, seen |-> u.seen, drawn |-> drawn]
  BY <1>1, <1>4, RunShape
<1>13. t \in Run /\ t.stage = u.stage /\ t.seen = u.seen /\ t.drawn = drawn
  <2>1. u.stage \in {"idle", "listed", "reading"} /\ u.seen \in Nat /\ drawn \in SUBSET Summary
    BY <1>1, <1>3, <1>9, RunShape
  <2> QED  BY <1>12, <2>1, RunIs
<1>14. {r.stream : r \in drawn} = {ReportStreams[i] : i \in 1..(n + 1)}
  <2>1. {r.stream : r \in drawn} = {r.stream : r \in u.drawn} \cup {ReportStreams[n + 1]}
    BY <1>3, <1>9
  <2>2. {r.stream : r \in u.drawn} = {ReportStreams[i] : i \in 1..n}
    BY <1>1, <1>2 DEF DrawnInOrder
  <2>3. 1..(n + 1) = 1..n \cup {n + 1}
    BY <1>6
  <2> QED  BY <2>1, <2>2, <2>3
<1>15. /\ \A q, r \in drawn : q.stream = r.stream => q = r
       /\ \A r \in drawn : r.walker = w /\ r.seen = u.seen
  BY <1>1, <1>3, <1>9, <1>10 DEF DrawnInOrder
<1>16. DrawnInOrder(w, t)
  <2>1. Cardinality(drawn) <= Len(ReportStreams)
    BY <1>5, <1>6, <1>11
  <2>2. {r.stream : r \in drawn} = {ReportStreams[i] : i \in 1..Cardinality(drawn)}
    BY <1>11, <1>14
  <2> QED  BY <1>5, <1>11, <1>13, <1>15, <2>1, <2>2, Zenon DEF DrawnInOrder
<1>17. \A r \in drawn : \/ r \in u.drawn
                        \/ r.seen = u.seen /\ \A c \in r.carried : StateOf(c) \notin Held
  <2> SUFFICES ASSUME NEW r \in drawn
               PROVE  \/ r \in u.drawn
                      \/ r.seen = u.seen /\ \A c \in r.carried : StateOf(c) \notin Held
    OBVIOUS
  <2>1. CASE r = x
    BY <1>9, <2>1
  <2> QED  BY <1>3, <2>1
<1> QED  BY <1>1, <1>5, <1>13, <1>16, <1>17, Zenon

(* One walk goes on, and nothing is stored.                                *)
LEMMA WalkGoes ==
  ASSUME WalkInv, LogInv', NEW w \in Walkers, NEW t \in Run, walk' = [walk EXCEPT ![w] = t],
         DrawnInOrder(w, t), summaries' = summaries
  PROVE  WalkInv'
<1>1. walk'[w] = t /\ \A v \in Walkers : v # w => walk'[v] = walk[v]
  BY DEF WalkInv
<1>2. walk' \in [Walkers -> Run] /\ summaries' \subseteq Summary
  BY DEF WalkInv
<1>3. \A v \in Walkers : DrawnInOrder(v, walk'[v])
  BY <1>1 DEF WalkInv
<1>4. SummariesAreOneWalks'
  BY Zenon DEF WalkInv, SummariesAreOneWalks
<1> QED  BY <1>2, <1>3, <1>4 DEF WalkInv

(* What is stored is all of one walk.                                      *)
LEMMA SummariesAreWhole ==
  ASSUME WalkInv, LogInv', NEW w \in Walkers, CommitSummaries(w)
  PROVE  WalkInv'
<1>1. /\ walk[w].stage = "reading" /\ Cardinality(walk[w].drawn) = Len(ReportStreams)
      /\ summaries' = walk[w].drawn /\ walk' = [walk EXCEPT ![w] = NoRun]
  BY Zenon DEF CommitSummaries, Drawn
<1>2. walk[w] \in Run /\ DrawnInOrder(w, walk[w])
  BY DEF WalkInv
<1>3. walk'[w] = NoRun /\ \A v \in Walkers : v # w => walk'[v] = walk[v]
  BY <1>1 DEF WalkInv
<1>4. walk' \in [Walkers -> Run] /\ summaries' \subseteq Summary
  BY <1>1, <1>2, NoRunIs, RunShape DEF WalkInv
<1>5. \A v \in Walkers : DrawnInOrder(v, walk'[v])
  BY <1>3, NoRunIs DEF WalkInv
<1>6. {r.stream : r \in summaries'} = Streams
  <2>1. DOMAIN ReportStreams = 1..Len(ReportStreams)
    BY DecisionAssumption, LenProperties
  <2>2. {r.stream : r \in summaries'} = {ReportStreams[i] : i \in 1..Len(ReportStreams)}
    BY <1>1, <1>2 DEF DrawnInOrder
  <2> QED  BY <2>1, <2>2 DEF Streams
<1>7. \A q, r \in summaries' : /\ q.stream = r.stream => q = r
                               /\ q.walker = r.walker /\ q.seen = r.seen
  BY <1>1, <1>2 DEF DrawnInOrder
<1>8. SummariesAreOneWalks'
  BY <1>6, <1>7 DEF SummariesAreOneWalks
<1> QED  BY <1>4, <1>5, <1>8 DEF WalkInv

LEMMA WalkStep == WalkInv /\ [DecisionNext]_decisionVars => WalkInv'
<1> SUFFICES ASSUME WalkInv, [DecisionNext]_decisionVars PROVE WalkInv'
  OBVIOUS
<1>1. LogInv' /\ LogInv
  BY LogStep DEF WalkInv
<1>2. ASSUME UNCHANGED <<walk, summaries>> PROVE WalkInv'
  <2>1. /\ walk' \in [Walkers -> Run] /\ summaries' \subseteq Summary
        /\ \A w \in Walkers : DrawnInOrder(w, walk'[w])
    BY <1>2 DEF WalkInv
  <2>2. SummariesAreOneWalks'
    BY <1>2, Zenon DEF WalkInv, SummariesAreOneWalks
  <2> QED  BY <1>1, <2>1, <2>2 DEF WalkInv
<1>3. ASSUME NEW w \in Walkers,
             StartWalk(w) \/ ReadSequence(w) \/ Summarize(w) \/ CommitSummaries(w) \/ LeaveWeek(w)
      PROVE  WalkInv'
  <2>1. walk[w] \in Run /\ DrawnInOrder(w, walk[w]) /\ LogTypes
    BY DEF WalkInv, LogInv
  <2>2. CASE StartWalk(w)
    <3>1. summaries' = summaries
      BY <2>2 DEF StartWalk
    <3>2. PICK t \in Run : walk' = [walk EXCEPT ![w] = t] /\ DrawnInOrder(w, t)
      BY <2>1, <2>2, WalkStarted
    <3> QED  BY <1>1, <3>1, <3>2, WalkGoes
  <2>3. CASE ReadSequence(w)
    <3>1. summaries' = summaries
      BY <2>3 DEF ReadSequence
    <3>2. PICK t \in Run : walk' = [walk EXCEPT ![w] = t] /\ DrawnInOrder(w, t)
      BY <2>1, <2>3, SequenceRead
    <3> QED  BY <1>1, <3>1, <3>2, WalkGoes
  <2>4. CASE Summarize(w)
    <3>1. summaries' = summaries
      BY <2>4 DEF Summarize
    <3>2. PICK t \in Run : walk' = [walk EXCEPT ![w] = t] /\ DrawnInOrder(w, t)
      BY <2>1, <2>4, Summarized
    <3> QED  BY <1>1, <3>1, <3>2, WalkGoes
  <2>5. CASE CommitSummaries(w)
    BY <1>1, <2>5, SummariesAreWhole
  <2>6. CASE LeaveWeek(w)
    <3>1. summaries' = summaries /\ walk' = [walk EXCEPT ![w] = NoRun]
      BY <2>6 DEF LeaveWeek
    <3> QED  BY <1>1, <3>1, NoRunIs, WalkGoes
  <2> QED  BY <1>3, <2>2, <2>3, <2>4, <2>5, <2>6
<1>4. ASSUME NEW s \in Slots, Record(s) \/ RollBack(s) \/ CommitDecision(s)
      PROVE  WalkInv'
  BY <1>2, <1>4, DecisionsLeaveTheWalks
<1>5. CASE UNCHANGED decisionVars
  BY <1>2, <1>5 DEF decisionVars
<1> QED  BY <1>3, <1>4, <1>5, DecisionSteps, Zenon

LEMMA WalkInit == DecisionInit => WalkInv
<1> SUFFICES ASSUME DecisionInit PROVE WalkInv
  OBVIOUS
<1>1. walk = [w \in Walkers |-> NoRun] /\ summaries = {}
  BY DEF DecisionInit
<1>2. walk \in [Walkers -> Run] /\ \A w \in Walkers : DrawnInOrder(w, walk[w])
  BY <1>1, NoRunIs
<1>3. SummariesAreOneWalks
  BY <1>1 DEF SummariesAreOneWalks
<1> QED  BY <1>1, <1>2, <1>3, LogInit DEF WalkInv

(* However walks overlap and fail, what is stored of a week's summaries is *)
(* nothing or the whole of one walk (services/reporting.py).               *)
THEOREM SummariesComeWhole == DecisionSpec => []SummariesAreOneWalks
<1>1. WalkInv => SummariesAreOneWalks
  BY DEF WalkInv
<1> QED  BY <1>1, WalkInit, WalkStep, PTL DEF DecisionSpec

-----------------------------------------------------------------------------
LEMMA Recorded ==
  ASSUME LogInv, NEW s \in Slots, Record(s)
  PROVE  \E W \in SUBSET Row : deciding' = [deciding EXCEPT ![s] = W] /\ \A r \in W : r.seq = next
<1>1. PICK c \in Comments, p \in People :
        /\ MayDecide(p, c)
        /\ \E a \in Roles(p), action \in ActionsOf(p) :
             deciding' = [deciding EXCEPT ![s] = Written(c, p, a, action)]
  BY Zenon DEF Record
<1>2. PICK a \in Roles(p), action \in ActionsOf(p) :
        deciding' = [deciding EXCEPT ![s] = Written(c, p, a, action)]
  BY <1>1
<1>3. Written(c, p, a, action) \subseteq Row /\ \A r \in Written(c, p, a, action) : r.seq = next
  BY <1>1, WrittenFollows, Zenon
<1> QED  BY <1>2, <1>3

(* A row that was opened has a later sequence than what was seen before;   *)
(* one that commits past no earlier row leaves the others later than it.   *)
LEMMA BehindStays ==
  ASSUME LogInv, NEW s \in Slots, Record(s) \/ RollBack(s) \/ CommitDecision(s), NEW n \in Nat, Behind(n)
  PROVE  Behind(n)'
<1>1. next \in Nat /\ deciding \in [Slots -> SUBSET Row]
  BY DEF LogInv, LogTypes
<1>2. (~ raced' => ~ raced) /\ next <= next' /\ next' \in Nat
  <2>1. ~ raced' => ~ raced
    BY Zenon DEF Record, RollBack, CommitDecision
  <2>2. next' = next \/ next' = next + 1
    BY Zenon DEF Record, RollBack, CommitDecision
  <2> QED  BY <1>1, <2>1, <2>2
<1>3. \A t \in Slots : \A r \in deciding'[t] : r \in deciding[t] \/ r.seq = next
  <2>1. CASE Record(s)
    <3>1. PICK W : deciding' = [deciding EXCEPT ![s] = W] /\ \A r \in W : r.seq = next
      BY <2>1, Recorded
    <3> QED  BY <1>1, <3>1
  <2>2. CASE RollBack(s) \/ CommitDecision(s)
    <3>1. deciding' = [deciding EXCEPT ![s] = {}]
      BY <2>2 DEF RollBack, CommitDecision
    <3> QED  BY <1>1, <3>1
  <2> QED  BY <2>1, <2>2
<1> QED  BY <1>1, <1>2, <1>3 DEF Behind

LEMMA OpenRowsStayLater ==
  ASSUME LogInv, OpenRowsAreLater, NEW s \in Slots, Record(s) \/ RollBack(s) \/ CommitDecision(s)
  PROVE  OpenRowsAreLater'
<1>1. deciding \in [Slots -> SUBSET Row]
  BY DEF LogInv, LogTypes
<1>2. CASE Record(s)
  <2>3. PICK W : deciding' = [deciding EXCEPT ![s] = W] /\ \A r \in W : r.seq = next
    BY <1>2, Recorded
  <2>4. UNCHANGED <<log, raced>>
    BY <1>2, Zenon DEF Record
  <2>5. \A q \in log : q.seq < next
    BY DEF LogInv, DrawnOnce
  <2>6. \A t \in Slots : \A r \in deciding'[t] : r \in deciding[t] \/ r.seq = next
    BY <1>1, <2>3
  <2> QED  BY <2>4, <2>5, <2>6 DEF OpenRowsAreLater
<1>3. CASE RollBack(s)
  BY <1>1, <1>3 DEF RollBack, OpenRowsAreLater
<1>4. CASE CommitDecision(s)
  <2>1. log' = log \cup deciding[s] /\ deciding' = [deciding EXCEPT ![s] = {}]
    BY <1>4 DEF CommitDecision
  <2>2. ~ raced' => ~ raced /\ ~ Overtaken(s)
    BY <1>4, Zenon DEF CommitDecision
  <2> SUFFICES ASSUME ~ raced', NEW t \in Slots, NEW r \in deciding'[t], NEW q \in log'
               PROVE  q.seq < r.seq
    BY DEF OpenRowsAreLater
  <2>3. t # s /\ r \in deciding[t]
    BY <1>1, <2>1
  <2>4. CASE q \in log
    BY <2>2, <2>3, <2>4 DEF OpenRowsAreLater
  <2>5. CASE q \in deciding[s]
    <3>1. ~ (r.seq < q.seq)
      BY <2>2, <2>3, <2>5 DEF Overtaken
    <3>2. r.seq # q.seq
      BY <2>3, <2>5 DEF LogInv, DrawnOnce
    <3>3. r.seq \in Nat /\ q.seq \in Nat
      BY <1>1, <2>3, <2>5, RowShape
    <3> QED  BY <3>1, <3>2, <3>3
  <2> QED  BY <2>1, <2>4, <2>5
<1> QED  BY <1>2, <1>3, <1>4

(* A decision that removes a comment is later than the summaries drawn     *)
(* from it.                                                                *)
LEMMA RemovedSinceStays ==
  ASSUME LogInv, NEW s \in Slots, Record(s) \/ RollBack(s) \/ CommitDecision(s),
         NEW r, Omits(r), ~ raced'
  PROVE  RemovedSince(r)'
<1>1. CASE Record(s) \/ RollBack(s)
  <2>1. UNCHANGED <<log, raced>>
    BY <1>1, Zenon DEF Record, RollBack
  <2> QED  BY <2>1, Zenon DEF Omits, RemovedSince, StateOf, RowsOf
<1>2. CASE CommitDecision(s)
  <2>1. ~ raced /\ log' = log \cup deciding[s]
    BY <1>2, Zenon DEF CommitDecision
  <2>2. PICK d \in deciding[s] : deciding[s] = {d}
    BY <1>2 DEF CommitDecision, LogInv, DrawnOnce
  <2>3. PICK R : R = RowsOf(d.comment, log)
    OBVIOUS
  <2>4. d \in Row /\ d.by # Nobody /\ \A q \in R : q.seq < d.seq
    BY <2>3 DEF LogInv, LogTypes, OpenRowsFollow
  <2>5. r.seen < d.seq /\ RemovedSince(r)
    BY <2>1, <2>2 DEF Omits, Behind
  <2> SUFFICES ASSUME NEW c \in r.carried, StateOf(c)' \in Held
               PROVE  \E q \in log' : q.by # Nobody /\ q.state \in Held /\ r.seen < q.seq
    BY DEF RemovedSince
  <2>6. CASE c = d.comment
    <3>1. RowsOf(c, log)' = R \cup {d}
      BY <2>1, <2>2, <2>3, <2>6 DEF RowsOf
    <3>2. R \subseteq Row /\ IsFiniteSet(R)
      BY <2>3, RowsOfLog DEF LogInv
    <3>3. Newest(R \cup {d}) = d
      <4>1. IsFiniteSet(R \cup {d}) /\ R \cup {d} \subseteq Row
        BY <2>4, <3>2, FS_AddElement
      <4>2. PICK n : n = Newest(R \cup {d})
        OBVIOUS
      <4>3. n \in R \cup {d} /\ \A q \in R \cup {d} : q.seq <= n.seq
        BY <4>1, <4>2, NewestIs
      <4>4. d.seq \in Nat /\ \A q \in R : q.seq \in Nat
        BY <2>4, <3>2, RowShape
      <4>5. n \notin R
        BY <2>4, <4>3, <4>4
      <4> QED  BY <4>2, <4>3, <4>5
    <3>4. d.state \in Held
      BY <3>1, <3>3 DEF StateOf, StateIn
    <3> QED  BY <2>1, <2>4, <2>5, <3>4
  <2>7. CASE c # d.comment
    <3>1. StateOf(c)' = StateOf(c)
      BY <2>1, <2>2, <2>7 DEF StateOf, RowsOf
    <3> QED  BY <2>1, <2>5, <3>1 DEF RemovedSince
  <2> QED  BY <2>6, <2>7
<1> QED  BY <1>1, <1>2

LEMMA OmitsStays ==
  ASSUME LogInv, UNCHANGED <<flag, log, next, deciding, raced>>, NEW r, Omits(r)
  PROVE  Omits(r)'
  BY Zenon DEF Omits, Behind, RemovedSince, StateOf, RowsOf

LEMMA SeenIsBehind ==
  ASSUME LogInv, OpenRowsAreLater
  PROVE  LatestSequence \in Nat /\ Behind(LatestSequence)
<1>1. PICK m \in Nat : /\ m = LatestSequence /\ \A r \in log : r.seq <= m
                       /\ m = 0 \/ \E r \in log : m = r.seq
  BY LatestSequenceIs DEF LogInv
<1>2. m < next
  <2>1. next \in Nat \ {0} /\ \A r \in log : r.seq < next
    BY DEF LogInv, LogTypes, DrawnOnce
  <2> QED  BY <1>1, <2>1
<1>3. ~ raced => \A s \in Slots : \A r \in deciding[s] : m < r.seq
  BY <1>1 DEF OpenRowsAreLater, LogInv, DrawnOnce
<1>4. Behind(m)
  BY <1>2, <1>3 DEF Behind
<1> QED  BY <1>1, <1>4

LEMMA RemovalStep == RemovalInv /\ [DecisionNext]_decisionVars => RemovalInv'
<1> SUFFICES ASSUME RemovalInv, [DecisionNext]_decisionVars PROVE RemovalInv'
  OBVIOUS
<1>1. WalkInv' /\ WalkInv /\ LogInv
  BY WalkStep DEF RemovalInv, WalkInv
<1>2. ASSUME NEW w \in Walkers
      PROVE  walk[w] \in Run /\ walk[w].seen \in Nat /\ DrawnInOrder(w, walk[w])
  BY <1>1, RunShape DEF WalkInv
<1>3. ASSUME NEW s \in Slots, Record(s) \/ RollBack(s) \/ CommitDecision(s)
      PROVE  RemovalInv'
  <2>1. UNCHANGED <<walk, summaries>>
    BY <1>3, DecisionsLeaveTheWalks
  <2>2. OpenRowsAreLater'
    BY <1>1, <1>3, OpenRowsStayLater DEF RemovalInv
  <2>3. ASSUME NEW r \in Summary, Omits(r) PROVE Omits(r)'
    <3>1. Behind(r.seen)'
      BY <1>1, <1>3, <2>3, SummaryShape, BehindStays DEF Omits
    <3>2. ~ raced' => RemovedSince(r)'
      BY <1>1, <1>3, <2>3, RemovedSinceStays
    <3> QED  BY <3>1, <3>2 DEF Omits
  <2>4. ASSUME NEW w \in Walkers
        PROVE  /\ walk[w].stage = "reading" => Behind(walk[w].seen)'
               /\ \A r \in walk[w].drawn : Omits(r)'
    <3>1. walk[w].stage = "reading" => Behind(walk[w].seen)'
      <4>1. PICK n \in Nat : n = walk[w].seen
        BY <1>2
      <4>2. walk'[w].seen = n
        BY <2>1, <4>1
      <4>3. walk[w].stage = "reading" => Behind(n)'
        BY <1>1, <1>3, <4>1, BehindStays DEF RemovalInv
      <4> QED  BY <4>2, <4>3, Zenon DEF Behind
    <3>2. walk[w].drawn \subseteq Summary
      BY <1>2, RunShape
    <3> QED  BY <2>3, <3>1, <3>2 DEF RemovalInv
  <2>5. \A r \in summaries : Omits(r)'
    BY <1>1, <2>3 DEF RemovalInv, WalkInv
  <2> QED  BY <1>1, <2>1, <2>2, <2>4, <2>5, Zenon DEF RemovalInv
<1>4. ASSUME UNCHANGED <<flag, log, next, deciding, raced>>
      PROVE  /\ OpenRowsAreLater'
             /\ \A r : Omits(r) => Omits(r)'
             /\ \A n : Behind(n) => Behind(n)'
  <2>1. OpenRowsAreLater'
    BY <1>4, Zenon DEF RemovalInv, OpenRowsAreLater
  <2>2. \A n : Behind(n) => Behind(n)'
    BY <1>4, Zenon DEF Behind
  <2> QED  BY <1>1, <1>4, <2>1, <2>2, OmitsStays, Zenon
<1>5. ASSUME NEW w \in Walkers, NEW t \in Run, walk' = [walk EXCEPT ![w] = t],
             UNCHANGED <<flag, log, next, deciding, raced>>,
             \A r \in summaries' : Omits(r),
             t.stage = "reading" => Behind(t.seen), \A r \in t.drawn : Omits(r)
      PROVE  RemovalInv'
  <2>1. walk'[w] = t /\ \A v \in Walkers : v # w => walk'[v] = walk[v]
    BY <1>1, <1>5 DEF WalkInv
  <2>2. ASSUME NEW v \in Walkers
        PROVE  /\ walk'[v].stage = "reading" => Behind(walk'[v].seen)
               /\ \A r \in walk'[v].drawn : Omits(r)
    BY <1>5, <2>1 DEF RemovalInv
  <2>3. /\ OpenRowsAreLater'
        /\ \A r : Omits(r) => Omits(r)'
        /\ \A n : Behind(n) => Behind(n)'
    BY <1>4, <1>5
  <2>4. ASSUME NEW v \in Walkers
        PROVE  /\ walk'[v].stage = "reading" => Behind(walk[v].seen)'
               /\ \A r \in walk'[v].drawn : Omits(r)'
    <3>1. PICK n : n = walk'[v].seen
      OBVIOUS
    <3>2. walk'[v].stage = "reading" => Behind(n)'
      BY <2>2, <2>3, <3>1
    <3>3. walk'[v].stage = "reading" => Behind(walk[v].seen)'
      BY <3>1, <3>2, Zenon DEF Behind
    <3> QED  BY <2>2, <2>3, <3>3
  <2>5. \A r \in summaries' : Omits(r)'
    BY <1>5, <2>3
  <2> QED  BY <1>1, <2>3, <2>4, <2>5, Zenon DEF RemovalInv
<1>6. ASSUME NEW w \in Walkers,
             StartWalk(w) \/ ReadSequence(w) \/ Summarize(w) \/ CommitSummaries(w) \/ LeaveWeek(w)
      PROVE  RemovalInv'
  <2>1. UNCHANGED <<flag, log, next, deciding, raced>>
    BY <1>6, WalksLeaveTheLog
  <2>2. \A r \in summaries : Omits(r)
    BY DEF RemovalInv
  <2>3. \A r \in walk[w].drawn : Omits(r)
    BY DEF RemovalInv
  <2>4. CASE StartWalk(w)
    <3>1. PICK t \in Run : walk' = [walk EXCEPT ![w] = t] /\ t.stage # "reading" /\ t.drawn = {}
      BY <1>2, <2>4, WalkStarted
    <3>2. summaries' = summaries
      BY <2>4 DEF StartWalk
    <3> QED  BY <1>5, <2>1, <2>2, <3>1, <3>2
  <2>5. CASE ReadSequence(w)
    <3>1. PICK t \in Run : walk' = [walk EXCEPT ![w] = t] /\ t.seen = LatestSequence /\ t.drawn = {}
      BY <1>1, <1>2, <2>5, SequenceRead DEF LogInv
    <3>2. Behind(t.seen)
      BY <1>1, <3>1, SeenIsBehind DEF RemovalInv
    <3>3. summaries' = summaries
      BY <2>5 DEF ReadSequence
    <3> QED  BY <1>5, <2>1, <2>2, <3>1, <3>2, <3>3
  <2>6. CASE Summarize(w)
    <3>1. PICK t \in Run : /\ walk' = [walk EXCEPT ![w] = t] /\ walk[w].stage = "reading"
                           /\ t.seen = walk[w].seen
                           /\ \A r \in t.drawn :
                                \/ r \in walk[w].drawn
                                \/ r.seen = t.seen /\ \A c \in r.carried : StateOf(c) \notin Held
      BY <1>2, <2>6, Summarized
    <3>2. Behind(t.seen)
      BY <3>1 DEF RemovalInv
    <3>3. \A r \in t.drawn : Omits(r)
      <4> SUFFICES ASSUME NEW r \in t.drawn PROVE Omits(r)
        OBVIOUS
      <4>1. CASE r \in walk[w].drawn
        BY <2>3, <4>1
      <4>2. CASE r.seen = t.seen /\ \A c \in r.carried : StateOf(c) \notin Held
        BY <3>2, <4>2 DEF Omits, RemovedSince
      <4> QED  BY <3>1, <4>1, <4>2
    <3>4. summaries' = summaries
      BY <2>6 DEF Summarize
    <3> QED  BY <1>5, <2>1, <2>2, <3>1, <3>2, <3>3, <3>4
  <2>7. CASE CommitSummaries(w)
    <3>1. summaries' = walk[w].drawn /\ walk' = [walk EXCEPT ![w] = NoRun]
      BY <2>7 DEF CommitSummaries
    <3> QED  BY <1>5, <2>1, <2>3, <3>1, NoRunIs
  <2>8. CASE LeaveWeek(w)
    <3>1. summaries' = summaries /\ walk' = [walk EXCEPT ![w] = NoRun]
      BY <2>8 DEF LeaveWeek
    <3> QED  BY <1>5, <2>1, <2>2, <3>1, NoRunIs
  <2> QED  BY <1>6, <2>4, <2>5, <2>6, <2>7, <2>8
<1>7. CASE UNCHANGED decisionVars
  <2>1. UNCHANGED <<flag, log, next, deciding, raced, walk, summaries>>
    BY <1>7 DEF decisionVars
  <2>2. /\ OpenRowsAreLater'
        /\ \A r : Omits(r) => Omits(r)'
        /\ \A n : Behind(n) => Behind(n)'
    BY <1>4, <2>1
  <2>3. ASSUME NEW w \in Walkers
        PROVE  /\ walk'[w].stage = "reading" => Behind(walk[w].seen)'
               /\ \A r \in walk'[w].drawn : Omits(r)'
    <3>1. PICK n : n = walk[w].seen
      OBVIOUS
    <3>2. walk[w].stage = "reading" => Behind(n)'
      BY <2>2, <3>1 DEF RemovalInv
    <3>3. walk[w].stage = "reading" => Behind(walk[w].seen)'
      BY <2>1, <3>1, <3>2, Zenon DEF Behind
    <3> QED  BY <2>1, <2>2, <3>3 DEF RemovalInv
  <2>4. \A r \in summaries' : Omits(r)'
    BY <2>1, <2>2 DEF RemovalInv
  <2> QED  BY <1>1, <2>2, <2>3, <2>4, Zenon DEF RemovalInv
<1> QED  BY <1>3, <1>6, <1>7, DecisionSteps, Zenon

LEMMA RemovalInit == DecisionInit => RemovalInv
<1> SUFFICES ASSUME DecisionInit PROVE RemovalInv
  OBVIOUS
<1>1. /\ walk = [w \in Walkers |-> NoRun] /\ summaries = {} /\ deciding = [s \in Slots |-> {}]
  BY DEF DecisionInit
<1>2. \A w \in Walkers : walk[w].stage # "reading" /\ walk[w].drawn = {}
  BY <1>1, NoRunIs
<1>3. OpenRowsAreLater
  BY <1>1 DEF OpenRowsAreLater
<1> QED  BY <1>1, <1>2, <1>3, WalkInit DEF RemovalInv

(* Unless two decisions raced, no summary that a reader above the          *)
(* instructor is given was drawn from a comment that is removed now        *)
(* (services/reporting.py, latest_removal_into against the sequence seen). *)
THEOREM RemovedIsNotServed == DecisionSpec => []ServedSummariesOmitTheRemoved
<1>1. RemovalInv => ServedSummariesOmitTheRemoved
  <2> SUFFICES ASSUME RemovalInv, ~ raced, NEW r \in ServedUpChain, NEW c \in r.carried, StateOf(c) \in Held
               PROVE  FALSE
    BY DEF ServedSummariesOmitTheRemoved
  <2>1. r \in summaries /\ r.seen >= LatestRemoval
    BY DEF ServedUpChain
  <2>2. PICK q \in log : q.by # Nobody /\ q.state \in Held /\ r.seen < q.seq
    BY <2>1 DEF RemovalInv, Omits, RemovedSince
  <2>3. PICK R : R = {v \in log : v.by # Nobody /\ v.state \in Held}
    OBVIOUS
  <2>4. PICK m : m = Max({v.seq : v \in R} \cup {0})
    OBVIOUS
  <2>5. LatestRemoval = m
    BY <2>3, <2>4, Zenon DEF LatestRemoval
  <2>6. R \subseteq Row /\ IsFiniteSet(R) /\ q \in R
    <3>1. R \subseteq log /\ log \subseteq Row /\ IsFiniteSet(log)
      BY <2>3 DEF RemovalInv, WalkInv, LogInv, LogTypes
    <3> QED  BY <2>2, <2>3, <3>1, FS_Subset
  <2>7. m \in Nat /\ q.seq <= m
    BY <2>4, <2>6, GreatestSequence
  <2>8. r.seen \in Nat /\ q.seq \in Nat
    BY <2>1, <2>6, RowShape, SummaryShape DEF RemovalInv, WalkInv
  <2> QED  BY <2>1, <2>2, <2>5, <2>7, <2>8
<1> QED  BY <1>1, RemovalInit, RemovalStep, PTL DEF DecisionSpec

-----------------------------------------------------------------------------
(* ResponseLoop.                                                           *)

LoopTypes ==
  /\ now \in Nat
  /\ answers \subseteq Answer /\ IsFiniteSet(answers)
  /\ door \in [Doors -> Passage \cup {NoPassage}]

(* One writer at a time adds to a week, after and for its author.          *)
OneWriter ==
  /\ \A a, b \in answers : a.week = b.week => a.by = b.by /\ (a.seq = b.seq => a = b)
  /\ \A d \in Doors : door[d].stage = "written" =>
       /\ \A e \in Doors : door[e].stage = "written" /\ door[e].answer.week = door[d].answer.week => e = d
       /\ \A a \in AnswersTo(door[d].answer.week) :
            a.by = door[d].answer.by /\ a.seq < door[d].answer.seq

(* The week's policy of record was settled when it opened.                 *)
Required(w) == w \notin straddled => ModeInForce(w) = "REQUIRED"

OnBehalfIsDue ==
  /\ \A a \in answers : a.week \in Published
  /\ \A w \in Weeks : AnsweredOnBehalf(w) => FirstAnswer(w).overdue /\ Required(w)
  /\ \A d \in Doors : door[d].stage # "outside" =>
       LET w == door[d].answer.week
       IN  /\ w \in Published
           /\ door[d].answer.role \in OnBehalfRoles =>
                \/ AnswersTo(w) # {}
                \/ /\ now >= OpensAt[w] + OnBehalfAfter /\ Required(w)
                   /\ door[d].stage = "written" => door[d].answer.overdue

AnswerInv == LoopTypes /\ OneWriter /\ OnBehalfIsDue

PageInv ==
  /\ now \in Nat
  /\ \A p \in page : /\ p.published \subseteq Published /\ p.week \in Published
                     /\ p.week \notin straddled => ~ Awaiting(p.week)
  /\ \A p \in pages : p.published \subseteq Published /\ p.trend \subseteq Published /\ p.week \in Published
  /\ ShownWeeksStayShown

-----------------------------------------------------------------------------
LEMMA PassageIs ==
  ASSUME NEW stage \in {"passed", "written"}, NEW seq \in Nat, NEW week \in Weeks, NEW by \in Authors,
         NEW role \in OnBehalfRoles \cup {"INSTRUCTOR"}, NEW late \in BOOLEAN,
         NEW t, t = [stage |-> stage, answer |-> [seq |-> seq, week |-> week, by |-> by,
                                                  role |-> role, overdue |-> late]]
  PROVE  /\ t \in Passage /\ t.stage = stage
         /\ t.answer.seq = seq /\ t.answer.week = week /\ t.answer.by = by
         /\ t.answer.role = role /\ t.answer.overdue = late
<1>1. PICK a : a = [seq |-> seq, week |-> week, by |-> by, role |-> role, overdue |-> late]
  OBVIOUS
<1>2. a \in Answer
  BY <1>1, Zenon DEF Answer
<1>3. t = [stage |-> stage, answer |-> a]
  BY <1>1
<1>4. t \in Passage /\ t.stage = stage /\ t.answer = a
  BY <1>2, <1>3 DEF Passage
<1>5. a.seq = seq /\ a.week = week /\ a.by = by /\ a.role = role /\ a.overdue = late
  BY <1>1
<1> QED  BY <1>4, <1>5

LEMMA PassageShape ==
  ASSUME NEW t \in Passage \cup {NoPassage}
  PROVE  /\ t.stage \in {"outside", "passed", "written"}
         /\ t.stage = "outside" <=> t = NoPassage
         /\ t.stage # "outside" =>
              /\ t \in Passage /\ t.answer \in Answer
              /\ t = [stage |-> t.stage, answer |-> t.answer]
  BY DEF Passage, NoPassage

LEMMA AnswerShape ==
  ASSUME NEW a \in Answer
  PROVE  /\ a = [seq |-> a.seq, week |-> a.week, by |-> a.by, role |-> a.role, overdue |-> a.overdue]
         /\ a.seq \in Nat /\ a.week \in Weeks /\ a.by \in Authors
         /\ a.role \in OnBehalfRoles \cup {"INSTRUCTOR"} /\ a.overdue \in BOOLEAN
  BY DEF Answer

(* The sequence of the next answer is later than all that were drawn.      *)
LEMMA NextAnswerIsNew ==
  ASSUME LoopTypes
  PROVE  NextAnswer \in Nat /\ \A a \in answers : a.seq < NextAnswer
<1> DEFINE D == {e \in Doors : door[e].stage = "written"}
           f == [d \in D |-> door[d].answer]
           B == {f[d] : d \in D}
           W == answers \cup B
           g == [a \in W |-> a.seq]
           S == {g[a] : a \in W} \cup {0}
<1>1. AnswersWritten = W /\ {a.seq : a \in AnswersWritten} \cup {0} = S
  BY DEF AnswersWritten
<1>2. IsFiniteSet(D)
  BY LoopAssumption, FS_Subset
<1>3. W \subseteq Answer
  BY PassageShape DEF LoopTypes
<1>4. \A a \in W : g[a] = a.seq /\ g[a] \in Nat
  BY <1>3, AnswerShape
<1>5. IsFiniteSet(B)
  <2> HIDE DEF D, f
  <2> QED  BY <1>2, FiniteImage
<1>6. IsFiniteSet(W)
  <2> HIDE DEF B
  <2> QED  BY <1>5, FS_Union DEF LoopTypes
<1>7. IsFiniteSet({g[a] : a \in W})
  <2> HIDE DEF W, g
  <2> QED  BY <1>6, FiniteImage
<1>8. IsFiniteSet(S) /\ S # {} /\ S \subseteq Nat
  <2>1. {g[a] : a \in W} \subseteq Nat
    BY <1>4
  <2> HIDE DEF W, g
  <2> QED  BY <1>7, <2>1, FS_AddElement
<1>9. Max(S) \in Nat /\ \A n \in S : n <= Max(S)
  <2> HIDE DEF S
  <2> QED  BY <1>8, MaxOfFinite
<1>10. NextAnswer = Max(S) + 1
  BY <1>1 DEF NextAnswer
<1>11. \A a \in answers : a.seq \in S
  <2> SUFFICES ASSUME NEW a \in answers PROVE a.seq \in S
    OBVIOUS
  <2>1. a \in W
    OBVIOUS
  <2>2. g[a] = a.seq
    BY <1>4, <2>1
  <2> HIDE DEF W, g
  <2> QED  BY <2>1, <2>2
<1> HIDE DEF S
<1>12. \A a \in answers : a.seq \in Nat
  BY AnswerShape DEF LoopTypes
<1> QED  BY <1>9, <1>10, <1>11, <1>12

-----------------------------------------------------------------------------
(* A row of the policy that is committed late counts for the weeks that    *)
(* opened meanwhile; of the others the mode is settled.                    *)
LEMMA HoldIsSettled ==
  ASSUME now \in Nat, [LoopNext]_loopVars
  PROVE  /\ now' \in Nat /\ now <= now'
         /\ answers \subseteq answers' /\ straddled \subseteq straddled'
         /\ Published \subseteq Published'
         /\ \A w \in Published : w \notin straddled' => ModeInForce(w)' = ModeInForce(w)
<1>1. /\ now' \in Nat /\ now <= now' /\ answers \subseteq answers' /\ straddled \subseteq straddled'
      /\ policies' = policies \/ CommitSwitch
  <2>1. CASE Tick \/ \E p \in LeadPool \cup {NoLead} : MapLead(p)
    BY <2>1 DEF Tick, MapLead
  <2>3. CASE CommitSwitch \/ \E p \in LeadPool \cup Chairs : Switch(p)
    BY <2>3 DEF CommitSwitch, Switch
  <2>4. CASE FinishPage \/ \E w \in Weeks : OpenPage(w)
    <3>1. UNCHANGED <<now, policies, answers, straddled>>
      BY <2>4, Zenon DEF FinishPage, OpenPage
    <3> QED  BY <3>1
  <2>5. ASSUME NEW d \in Doors, EnterDoor(d) \/ Insert(d) \/ CommitAnswer(d) \/ LeaveDoor(d)
        PROVE  /\ now' \in Nat /\ now <= now' /\ answers \subseteq answers' /\ straddled \subseteq straddled'
               /\ policies' = policies
    <3>1. UNCHANGED <<now, policies, straddled>> /\ answers \subseteq answers'
      BY <2>5, Zenon DEF EnterDoor, Insert, CommitAnswer, LeaveDoor
    <3> QED  BY <3>1
  <2>2. CASE UNCHANGED loopVars
    BY <2>2 DEF loopVars
  <2> QED  BY <2>1, <2>2, <2>3, <2>4, <2>5 DEF LoopNext
<1>2. Published \subseteq Published'
  BY <1>1, LoopAssumption DEF Published
<1>3. ASSUME NEW w \in Published, w \notin straddled'
      PROVE  {p \in policies' : p.setAt <= OpensAt[w]} = {p \in policies : p.setAt <= OpensAt[w]}
  <2>1. CASE policies' = policies
    BY <2>1
  <2>2. CASE CommitSwitch
    <3>1. \A p \in switching : ~ (p.setAt <= OpensAt[w])
      BY <1>3, <2>2 DEF CommitSwitch
    <3> QED  BY <2>2, <3>1 DEF CommitSwitch
  <2> QED  BY <1>1, <2>1, <2>2
<1>4. \A w \in Published : w \notin straddled' => ModeInForce(w)' = ModeInForce(w)
  BY <1>3 DEF ModeInForce
<1> QED  BY <1>1, <1>2, <1>4

LEMMA LoopNow == LoopInit => now \in Nat
  BY DEF LoopInit

(* Once a week is published only an answer to it moves its hold.           *)
THEOREM TheHoldIsSettled == LoopSpec => OnlyAnAnswerMovesTheHold
<1>1. now \in Nat /\ [LoopNext]_loopVars => (now \in Nat)'
  BY HoldIsSettled
<1>2. now \in Nat /\ [LoopNext]_loopVars =>
        [\A w \in Published \ straddled' :
           Awaiting(w)' # Awaiting(w) => AnswersTo(w)' # AnswersTo(w)]_loopVars
  <2> SUFFICES ASSUME now \in Nat, [LoopNext]_loopVars, NEW w \in Published \ straddled',
                      AnswersTo(w)' = AnswersTo(w)
               PROVE  Awaiting(w)' = Awaiting(w)
    BY Zenon
  <2>1. ModeInForce(w)' = ModeInForce(w)
    BY HoldIsSettled
  <2> QED  BY <2>1, Zenon DEF Awaiting
<1> QED  BY <1>1, <1>2, LoopNow, PTL DEF LoopSpec, OnlyAnAnswerMovesTheHold

-----------------------------------------------------------------------------
(* A step that neither answers nor moves a door.                           *)
LEMMA AnswersStay ==
  ASSUME AnswerInv, [LoopNext]_loopVars, UNCHANGED <<answers, door>>
  PROVE  AnswerInv'
<1>1. LoopTypes' /\ OneWriter'
  BY HoldIsSettled DEF AnswerInv, LoopTypes, OneWriter, AnswersTo
<1>2. \A w \in Weeks : AnswersTo(w)' = AnswersTo(w) /\ FirstAnswer(w)' = FirstAnswer(w)
  BY DEF AnswersTo, FirstAnswer
<1>3. \A w \in Published : w \in Published' /\ (Required(w) => Required(w)')
  BY HoldIsSettled, Zenon DEF AnswerInv, LoopTypes, Required
<1>4. \A a \in answers' : a.week \in Published'
  BY <1>3 DEF AnswerInv, OnBehalfIsDue
<1>5. ASSUME NEW w \in Weeks, AnsweredOnBehalf(w)'
      PROVE  FirstAnswer(w).overdue' /\ Required(w)'
  <2>1. AnsweredOnBehalf(w)
    BY <1>2, <1>5, Zenon DEF AnsweredOnBehalf, FirstAnswer
  <2>2. w \in Published
    BY <2>1 DEF AnsweredOnBehalf, AnswersTo, AnswerInv, OnBehalfIsDue
  <2> QED  BY <1>2, <1>3, <2>1, <2>2, Zenon DEF AnswerInv, OnBehalfIsDue
<1>6. ASSUME NEW d \in Doors, door[d].stage # "outside", NEW w, w = door[d].answer.week
      PROVE  /\ w \in Published'
             /\ door[d].answer.role \in OnBehalfRoles =>
                  \/ AnswersTo(w)' # {}
                  \/ /\ now' >= OpensAt[w] + OnBehalfAfter /\ Required(w)'
                     /\ door[d].stage = "written" => door[d].answer.overdue
  <2>1. /\ w \in Published
        /\ door[d].answer.role \in OnBehalfRoles =>
             \/ AnswersTo(w) # {}
             \/ /\ now >= OpensAt[w] + OnBehalfAfter /\ Required(w)
                /\ door[d].stage = "written" => door[d].answer.overdue
    BY <1>6, Zenon DEF AnswerInv, OnBehalfIsDue
  <2>2. w \in Published' /\ AnswersTo(w)' = AnswersTo(w) /\ (Required(w) => Required(w)')
    BY <1>2, <1>3, <2>1 DEF Published
  <2>3. now >= OpensAt[w] + OnBehalfAfter => now' >= OpensAt[w] + OnBehalfAfter
    BY <2>1, HoldIsSettled, LoopAssumption DEF AnswerInv, LoopTypes, Published, OnBehalfAfter
  <2> QED  BY <2>1, <2>2, <2>3, Zenon
<1>7. OnBehalfIsDue'
  BY <1>4, <1>5, <1>6, Zenon DEF OnBehalfIsDue
<1> QED  BY <1>1, <1>7 DEF AnswerInv

(* One door moves, and nothing is answered.                                *)
LEMMA DoorGoes ==
  ASSUME AnswerInv, NEW d \in Doors, NEW t \in Passage \cup {NoPassage},
         door' = [door EXCEPT ![d] = t], UNCHANGED <<now, policies, answers, straddled>>,
         t.stage = "written" =>
           /\ \A e \in Doors \ {d} : door[e].stage = "written" => door[e].answer.week # t.answer.week
           /\ \A a \in AnswersTo(t.answer.week) : a.by = t.answer.by /\ a.seq < t.answer.seq,
         t.stage # "outside" =>
           /\ t.answer.week \in Published
           /\ t.answer.role \in OnBehalfRoles =>
                \/ AnswersTo(t.answer.week) # {}
                \/ /\ now >= OpensAt[t.answer.week] + OnBehalfAfter /\ Required(t.answer.week)
                   /\ t.stage = "written" => t.answer.overdue
  PROVE  AnswerInv'
<1>1. door'[d] = t /\ \A e \in Doors : e # d => door'[e] = door[e]
  BY DEF AnswerInv, LoopTypes
<1>2. LoopTypes'
  BY DEF AnswerInv, LoopTypes
<1>3. \A w \in Weeks : AnswersTo(w)' = AnswersTo(w)
  BY DEF AnswersTo
<1>4. \A e \in Doors : door[e].stage # "outside" => door[e].answer.week \in Weeks
  BY DEF AnswerInv, OnBehalfIsDue, Published
<1>5. OneWriter'
  <2>1. \A a, b \in answers : a.week = b.week => a.by = b.by /\ (a.seq = b.seq => a = b)
    BY DEF AnswerInv, OneWriter
  <2>2. ASSUME NEW e \in Doors, door'[e].stage = "written"
        PROVE  /\ \A c \in Doors : door'[c].stage = "written" /\ door'[c].answer.week = door'[e].answer.week => c = e
               /\ \A a \in AnswersTo(door'[e].answer.week) : a.by = door'[e].answer.by /\ a.seq < door'[e].answer.seq
    <3>1. CASE e = d
      BY <1>1, <2>2, <3>1
    <3>2. CASE e # d
      BY <1>1, <2>2, <3>2 DEF AnswerInv, OneWriter
    <3> QED  BY <3>1, <3>2
  <2> QED  BY <2>1, <2>2 DEF OneWriter, AnswersTo
<1>6. \A w \in Weeks : /\ AnsweredOnBehalf(w)' = AnsweredOnBehalf(w) /\ FirstAnswer(w)' = FirstAnswer(w)
                       /\ Required(w)' = Required(w)
  BY <1>3, Zenon DEF AnsweredOnBehalf, FirstAnswer, Required, ModeInForce
<1>7. Published' = Published
  BY DEF Published
<1>8. ASSUME NEW e \in Doors, door'[e].stage # "outside", NEW w, w = door'[e].answer.week
      PROVE  /\ w \in Published
             /\ door'[e].answer.role \in OnBehalfRoles =>
                  \/ AnswersTo(w) # {}
                  \/ /\ now >= OpensAt[w] + OnBehalfAfter /\ Required(w)
                     /\ door'[e].stage = "written" => door'[e].answer.overdue
  <2>1. CASE e = d
    BY <1>1, <1>8, <2>1, Zenon
  <2>2. CASE e # d
    BY <1>1, <1>8, <2>2, Zenon DEF AnswerInv, OnBehalfIsDue
  <2> QED  BY <2>1, <2>2
<1>9. OnBehalfIsDue'
  <2>1. \A a \in answers' : a.week \in Published'
    BY <1>7 DEF AnswerInv, OnBehalfIsDue
  <2>2. \A w \in Weeks : AnsweredOnBehalf(w)' => FirstAnswer(w).overdue' /\ Required(w)'
    BY <1>6, Zenon DEF AnswerInv, OnBehalfIsDue
  <2>3. ASSUME NEW e \in Doors, door'[e].stage # "outside", NEW w, w = door'[e].answer.week
        PROVE  /\ w \in Published'
               /\ door'[e].answer.role \in OnBehalfRoles =>
                    \/ AnswersTo(w)' # {}
                    \/ /\ now' >= OpensAt[w] + OnBehalfAfter /\ Required(w)'
                       /\ door'[e].stage = "written" => door'[e].answer.overdue
    <3>1. w \in Published /\ w \in Weeks
      BY <1>8, <2>3 DEF Published
    <3> QED  BY <1>3, <1>6, <1>7, <1>8, <2>3, <3>1, Zenon
  <2> QED  BY <2>1, <2>2, <2>3, Zenon DEF OnBehalfIsDue
<1> QED  BY <1>2, <1>5, <1>9 DEF AnswerInv

(* Who passes the door on behalf found the week answered, or overdue.      *)
LEMMA EnterDoorKeeps ==
  ASSUME AnswerInv, NEW d \in Doors, EnterDoor(d)
  PROVE  AnswerInv'
<1>1. PICK p \in Authors, w \in Published :
        /\ InstructorMay(p, w) \/ LeaderMay(p, w)
        /\ door' = [door EXCEPT ![d] =
             [stage |-> "passed",
              answer |-> [seq |-> 0, week |-> w, by |-> p, overdue |-> FALSE,
                          role |-> IF p \in Teachers THEN "INSTRUCTOR" ELSE RoleFor(p)]]]
  BY Zenon DEF EnterDoor
<1>2. PICK no \in BOOLEAN : no = FALSE
  BY Zenon
<1>3. PICK role \in OnBehalfRoles \cup {"INSTRUCTOR"} :
        role = IF p \in Teachers THEN "INSTRUCTOR" ELSE RoleFor(p)
  BY DEF OnBehalfRoles, RoleFor
<1>4. PICK t : t = [stage |-> "passed", answer |-> [seq |-> 0, week |-> w, by |-> p,
                                                    role |-> role, overdue |-> no]]
  OBVIOUS
<1>5. door' = [door EXCEPT ![d] = t]
  BY <1>1, <1>2, <1>3, <1>4, Zenon
<1>6. /\ t \in Passage /\ t.stage = "passed" /\ t.answer.week = w /\ t.answer.role = role
  <2>1. w \in Weeks
    BY DEF Published
  <2> QED  BY <1>4, <2>1, PassageIs
<1>7. role \in OnBehalfRoles => LeaderMay(p, w)
  BY <1>1, <1>3 DEF OnBehalfRoles, InstructorMay
<1>8. LeaderMay(p, w) => AnswersTo(w) # {} \/ OpenOnBehalf(w)
  BY DEF LeaderMay
<1>9. OpenOnBehalf(w) => now >= OpensAt[w] + OnBehalfAfter /\ Required(w)
  BY DEF OpenOnBehalf, Awaiting, Required
<1>10. UNCHANGED <<now, policies, answers, straddled>>
  BY Zenon DEF EnterDoor
<1> QED  BY <1>5, <1>6, <1>7, <1>8, <1>9, <1>10, DoorGoes

(* A row is written under the week's lock, against the week's rows.        *)
LEMMA InsertKeeps ==
  ASSUME AnswerInv, NEW d \in Doors, Insert(d)
  PROVE  AnswerInv'
<1> DEFINE a == door[d].answer
<1>1. /\ door[d].stage = "passed" /\ ~ WeekLocked(a.week) /\ NobodyElses(a)
      /\ UNCHANGED <<now, policies, answers, straddled>>
      /\ door' = [door EXCEPT ![d].stage = "written", ![d].answer.seq = NextAnswer,
           ![d].answer.overdue = now >= OpensAt[door[d].answer.week] + OnBehalfAfter]
  BY Zenon DEF Insert
<1>2. PICK late \in BOOLEAN : late = (now >= OpensAt[a.week] + OnBehalfAfter)
  <2>1. (now >= OpensAt[a.week] + OnBehalfAfter) \in BOOLEAN
    OBVIOUS
  <2> QED  BY <2>1, Zenon
<1>3. /\ door[d] = [stage |-> door[d].stage, answer |-> a]
      /\ a = [seq |-> a.seq, week |-> a.week, by |-> a.by, role |-> a.role, overdue |-> a.overdue]
      /\ a.week \in Weeks /\ a.by \in Authors /\ a.role \in OnBehalfRoles \cup {"INSTRUCTOR"}
  BY <1>1, PassageShape, AnswerShape DEF AnswerInv, LoopTypes
<1>4. PICK t : t = [stage |-> "written", answer |-> [seq |-> NextAnswer, week |-> a.week, by |-> a.by,
                                                     role |-> a.role, overdue |-> late]]
  OBVIOUS
<1>5. door' = [door EXCEPT ![d] = t]
  <2>1. door' = [door EXCEPT ![d].stage = "written", ![d].answer.seq = NextAnswer,
           ![d].answer.overdue = late]
    BY <1>1, <1>2, Zenon
  <2>2. PICK stage, seq, overdue :
          door[d] = [stage |-> stage, answer |-> [seq |-> seq, week |-> a.week, by |-> a.by,
                                                  role |-> a.role, overdue |-> overdue]]
    BY <1>3, Zenon
  <2>3. PICK week, by, role : week = a.week /\ by = a.by /\ role = a.role
    OBVIOUS
  <2>4. t = [door[d] EXCEPT !.stage = "written", !.answer.seq = NextAnswer, !.answer.overdue = late]
    <3>1. PICK b : b = [seq |-> seq, week |-> week, by |-> by, role |-> role, overdue |-> overdue]
      OBVIOUS
    <3>2. PICK r : r = [stage |-> stage, answer |-> b]
      OBVIOUS
    <3>3. PICK c : c = [b EXCEPT !.seq = NextAnswer, !.overdue = late]
      OBVIOUS
    <3>4. c = [seq |-> NextAnswer, week |-> week, by |-> by, role |-> role, overdue |-> late]
      BY ONLY <3>1, <3>3
    <3>5. PICK u : u = [r EXCEPT !.stage = "written", !.answer = c]
      OBVIOUS
    <3>6. u = [stage |-> "written", answer |-> c]
      BY ONLY <3>2, <3>5
    <3>7. u = [r EXCEPT !.stage = "written", !.answer.seq = NextAnswer, !.answer.overdue = late]
      BY ONLY <3>2, <3>3, <3>5
    <3> QED  BY <1>4, <2>2, <2>3, <3>1, <3>2, <3>4, <3>6, <3>7, Zenon
  <2> QED  BY <2>1, <2>4
<1>6. NextAnswer \in Nat /\ \A b \in answers : b.seq < NextAnswer
  BY NextAnswerIsNew DEF AnswerInv
<1>7. /\ t \in Passage /\ t.stage = "written" /\ t.answer.seq = NextAnswer /\ t.answer.week = a.week
      /\ t.answer.by = a.by /\ t.answer.role = a.role /\ t.answer.overdue = late
  BY <1>3, <1>4, <1>6, PassageIs
<1>8. /\ \A e \in Doors \ {d} : door[e].stage = "written" => door[e].answer.week # t.answer.week
      /\ \A b \in AnswersTo(t.answer.week) : b.by = t.answer.by /\ b.seq < t.answer.seq
  BY <1>1, <1>6, <1>7 DEF WeekLocked, NobodyElses, AnswersTo
<1>9. /\ a.week \in Published
      /\ a.role \in OnBehalfRoles =>
           \/ AnswersTo(a.week) # {}
           \/ now >= OpensAt[a.week] + OnBehalfAfter /\ Required(a.week)
  BY <1>1, Zenon DEF AnswerInv, OnBehalfIsDue
<1>10. /\ t.answer.week \in Published
       /\ t.answer.role \in OnBehalfRoles =>
            \/ AnswersTo(t.answer.week) # {}
            \/ /\ now >= OpensAt[t.answer.week] + OnBehalfAfter /\ Required(t.answer.week)
               /\ t.stage = "written" => t.answer.overdue
  BY <1>2, <1>7, <1>9, Zenon
<1>11. t \in Passage \cup {NoPassage}
  BY <1>7
<1> QED  BY <1>1, <1>5, <1>8, <1>10, <1>11, DoorGoes

LEMMA LeaveDoorKeeps ==
  ASSUME AnswerInv, NEW d \in Doors, LeaveDoor(d)
  PROVE  AnswerInv'
<1>1. door' = [door EXCEPT ![d] = NoPassage] /\ UNCHANGED <<now, policies, answers, straddled>>
  BY Zenon DEF LeaveDoor
<1>2. NoPassage \in Passage \cup {NoPassage} /\ NoPassage.stage = "outside"
  BY DEF NoPassage
<1> QED  BY <1>1, <1>2, DoorGoes

(* The row committed is the week's first, or after its author's first.     *)
LEMMA CommitAnswerKeeps ==
  ASSUME AnswerInv, NEW d \in Doors, CommitAnswer(d)
  PROVE  AnswerInv'
<1>n. PICK n : n = door[d].answer
  OBVIOUS
<1>1. /\ door[d].stage = "written" /\ answers' = answers \cup {n}
      /\ door' = [door EXCEPT ![d] = NoPassage]
      /\ UNCHANGED <<now, policies, straddled>>
  BY <1>n, Zenon DEF CommitAnswer
<1>2. n \in Answer /\ n.week \in Weeks /\ n.seq \in Nat
  BY <1>n, <1>1, PassageShape, AnswerShape DEF AnswerInv, LoopTypes
<1>3. /\ door'[d].stage = "outside" /\ \A e \in Doors : e # d => door'[e] = door[e]
      /\ \A e \in Doors : door'[e].stage # "outside" => door'[e] = door[e] /\ e # d
  BY <1>1 DEF AnswerInv, LoopTypes, NoPassage
<1>4. LoopTypes'
  <2>1. IsFiniteSet(answers')
    BY <1>1, FS_AddElement DEF AnswerInv, LoopTypes
  <2> QED  BY <1>1, <1>2, <2>1 DEF AnswerInv, LoopTypes
<1>5. \A a \in answers : a.seq \in Nat
  BY AnswerShape DEF AnswerInv, LoopTypes
<1>6. \A a \in AnswersTo(n.week) : a.by = n.by /\ a.seq < n.seq
  BY <1>n, <1>1 DEF AnswerInv, OneWriter
<1>7. OneWriter'
  <2>1. \A a, b \in answers' : a.week = b.week => a.by = b.by /\ (a.seq = b.seq => a = b)
    <3> SUFFICES ASSUME NEW a \in answers', NEW b \in answers', a.week = b.week
                 PROVE  a.by = b.by /\ (a.seq = b.seq => a = b)
      OBVIOUS
    <3>1. CASE a \in answers /\ b \in answers
      BY <3>1 DEF AnswerInv, OneWriter
    <3>2. CASE a = n /\ b \in answers
      BY <1>2, <1>5, <1>6, <3>2 DEF AnswersTo
    <3>3. CASE a \in answers /\ b = n
      BY <1>2, <1>5, <1>6, <3>3 DEF AnswersTo
    <3> QED  BY <1>1, <3>1, <3>2, <3>3
  <2>2. ASSUME NEW e \in Doors, door'[e].stage = "written", NEW w, w = door'[e].answer.week
        PROVE  /\ \A c \in Doors : door'[c].stage = "written" /\ door'[c].answer.week = w => c = e
               /\ \A a \in AnswersTo(w)' : a.by = door'[e].answer.by /\ a.seq < door'[e].answer.seq
    <3>1. e # d /\ door'[e] = door[e]
      BY <1>3, <2>2
    <3>2. w # n.week
      BY <1>n, <1>1, <2>2, <3>1 DEF AnswerInv, OneWriter
    <3>3. AnswersTo(w)' = AnswersTo(w)
      BY <1>1, <3>2 DEF AnswersTo
    <3>4. /\ \A c \in Doors : door[c].stage = "written" /\ door[c].answer.week = w => c = e
          /\ \A a \in AnswersTo(w) : a.by = door[e].answer.by /\ a.seq < door[e].answer.seq
      BY <2>2, <3>1 DEF AnswerInv, OneWriter
    <3> QED  BY <1>3, <3>1, <3>3, <3>4
  <2> QED  BY <2>1, <2>2, Zenon DEF OneWriter, AnswersTo
<1>8. /\ Published' = Published /\ \A w \in Weeks : Required(w)' = Required(w)
      /\ \A w \in Weeks : w # n.week => AnswersTo(w)' = AnswersTo(w)
      /\ AnswersTo(n.week)' = AnswersTo(n.week) \cup {n}
  <2>1. Published' = Published
    BY <1>1 DEF Published
  <2>2. \A w \in Weeks : Required(w)' = Required(w)
    BY <1>1, Zenon DEF Required, ModeInForce
  <2>3. /\ \A w \in Weeks : w # n.week => AnswersTo(w)' = AnswersTo(w)
        /\ AnswersTo(n.week)' = AnswersTo(n.week) \cup {n}
    BY <1>1 DEF AnswersTo
  <2> QED  BY <2>1, <2>2, <2>3
<1>9. n.week \in Published
  BY <1>n, <1>1 DEF AnswerInv, OnBehalfIsDue
<1>10. ASSUME NEW w \in Weeks, AnsweredOnBehalf(w)'
       PROVE  FirstAnswer(w).overdue' /\ Required(w)'
  <2>1. CASE w # n.week
    <3>1. AnswersTo(w)' = AnswersTo(w) /\ Required(w)' = Required(w)
      BY <1>8, <2>1
    <3>2. AnsweredOnBehalf(w)
      BY <1>10, <3>1, Zenon DEF AnsweredOnBehalf
    <3> QED  BY <3>1, <3>2, Zenon DEF AnswerInv, OnBehalfIsDue, FirstAnswer
  <2>2. CASE w = n.week /\ AnswersTo(w) = {}
    <3>1. AnswersTo(w)' = {n}
      BY <1>8, <2>2
    <3>2. FirstAnswer(w)' = n
      BY <1>2, <3>1 DEF FirstAnswer, Earliest
    <3>3. n.role \in OnBehalfRoles
      BY <1>10, <3>2, Zenon DEF AnsweredOnBehalf, FirstAnswer
    <3>4. n.overdue /\ Required(w)
      BY <1>n, <1>1, <2>2, <3>3, Zenon DEF AnswerInv, OnBehalfIsDue
    <3> QED  BY <1>8, <2>2, <3>2, <3>4, Zenon
  <2>3. CASE w = n.week /\ AnswersTo(w) # {}
    <3>1. AnswersTo(w) \subseteq answers /\ \A a \in AnswersTo(w) : a.seq \in Nat /\ a.week = w
      BY <1>5 DEF AnswersTo
    <3>2. FirstAnswer(w) \in AnswersTo(w) /\ \A a \in AnswersTo(w) : FirstAnswer(w).seq <= a.seq
      <4> DEFINE S == {a.seq : a \in AnswersTo(w)}
      <4>1. PICK m \in S : \A k \in S : m <= k
        <5>1. S \subseteq Nat /\ S # {}
          BY <2>3, <3>1
        <5> HIDE DEF S
        <5> QED  BY <5>1, LeastNat
      <4>2. PICK a \in AnswersTo(w) : a.seq = m
        OBVIOUS
      <4>3. \A b \in AnswersTo(w) : a.seq <= b.seq
        BY <4>1, <4>2
      <4> QED  BY <4>3 DEF FirstAnswer, Earliest
    <3>3. FirstAnswer(w)' = FirstAnswer(w)
      <4>1. \A r \in AnswersTo(w)' :
              (\A q \in AnswersTo(w)' : r.seq <= q.seq) <=> r = FirstAnswer(w)
        <5> SUFFICES ASSUME NEW r \in AnswersTo(w) \cup {n}
                     PROVE  (\A q \in AnswersTo(w) \cup {n} : r.seq <= q.seq) <=> r = FirstAnswer(w)
          BY <1>8, <2>3
        <5>1. \A q \in AnswersTo(w) : q.seq < n.seq
          BY <1>6, <2>3
        <5>2. r = FirstAnswer(w) => \A q \in AnswersTo(w) \cup {n} : r.seq <= q.seq
          BY <1>2, <3>1, <3>2, <5>1
        <5>3. ASSUME \A q \in AnswersTo(w) \cup {n} : r.seq <= q.seq
              PROVE  r = FirstAnswer(w)
          <6>1. r \in AnswersTo(w)
            BY <1>2, <3>1, <3>2, <5>1, <5>3
          <6>2. r.seq = FirstAnswer(w).seq
            BY <3>1, <3>2, <5>3, <6>1
          <6> QED  BY <3>1, <3>2, <6>1, <6>2 DEF AnswerInv, OneWriter
        <5> QED  BY <5>2, <5>3
      <4>2. FirstAnswer(w) \in AnswersTo(w)'
        BY <1>8, <2>3, <3>2
      <4> QED  BY <4>1, <4>2 DEF FirstAnswer, Earliest
    <3>4. AnsweredOnBehalf(w)
      BY <1>10, <2>3, <3>3, Zenon DEF AnsweredOnBehalf, FirstAnswer
    <3> QED  BY <1>8, <3>3, <3>4, Zenon DEF AnswerInv, OnBehalfIsDue
  <2> QED  BY <2>1, <2>2, <2>3
<1>11. ASSUME NEW e \in Doors, door'[e].stage # "outside", NEW w, w = door'[e].answer.week
       PROVE  /\ w \in Published'
              /\ door'[e].answer.role \in OnBehalfRoles =>
                   \/ AnswersTo(w)' # {}
                   \/ /\ now' >= OpensAt[w] + OnBehalfAfter /\ Required(w)'
                      /\ door'[e].stage = "written" => door'[e].answer.overdue
  <2>1. door'[e] = door[e]
    BY <1>3, <1>11
  <2>2. /\ w \in Published
        /\ door[e].answer.role \in OnBehalfRoles =>
             \/ AnswersTo(w) # {}
             \/ /\ now >= OpensAt[w] + OnBehalfAfter /\ Required(w)
                /\ door[e].stage = "written" => door[e].answer.overdue
    BY <1>11, <2>1, Zenon DEF AnswerInv, OnBehalfIsDue
  <2>3. w \in Weeks /\ AnswersTo(w) \subseteq AnswersTo(w)' /\ Required(w)' = Required(w)
    BY <1>8, <2>2 DEF Published
  <2> QED  BY <1>1, <1>8, <2>1, <2>2, <2>3, Zenon
<1>12. OnBehalfIsDue'
  <2>1. \A a \in answers' : a.week \in Published'
    BY <1>1, <1>8, <1>9 DEF AnswerInv, OnBehalfIsDue
  <2> QED  BY <1>10, <1>11, <2>1, Zenon DEF OnBehalfIsDue
<1> QED  BY <1>4, <1>7, <1>12 DEF AnswerInv

LEMMA AnswerInit == LoopInit => AnswerInv
<1> SUFFICES ASSUME LoopInit PROVE AnswerInv
  OBVIOUS
<1>1. /\ now = 0 /\ answers = {} /\ NoPassage.stage = "outside"
      /\ door \in [Doors -> {NoPassage}] /\ \A d \in Doors : door[d].stage = "outside"
  BY DEF LoopInit, NoPassage
<1>2. LoopTypes
  BY <1>1, FS_EmptySet DEF LoopTypes
<1>3. OneWriter
  BY <1>1 DEF OneWriter
<1>4. \A w \in Weeks : ~ AnsweredOnBehalf(w)
  BY <1>1 DEF AnsweredOnBehalf, AnswersTo
<1>5. OnBehalfIsDue
  BY <1>1, <1>4, Zenon DEF OnBehalfIsDue
<1> QED  BY <1>2, <1>3, <1>5 DEF AnswerInv

LEMMA AnswerStep == AnswerInv /\ [LoopNext]_loopVars => AnswerInv'
<1> SUFFICES ASSUME AnswerInv, [LoopNext]_loopVars PROVE AnswerInv'
  OBVIOUS
<1>1. CASE UNCHANGED <<answers, door>>
  BY <1>1, AnswersStay
<1>2. ASSUME NEW d \in Doors, EnterDoor(d) \/ Insert(d) \/ CommitAnswer(d) \/ LeaveDoor(d)
      PROVE  AnswerInv'
  BY <1>2, EnterDoorKeeps, InsertKeeps, CommitAnswerKeeps, LeaveDoorKeeps
<1>3. CASE LoopNext
  <2>1. CASE \/ Tick \/ CommitSwitch \/ FinishPage
             \/ \E p \in LeadPool \cup {NoLead} : MapLead(p)
             \/ \E p \in LeadPool \cup Chairs : Switch(p)
             \/ \E w \in Weeks : OpenPage(w)
    <3>1. UNCHANGED <<answers, door>>
      BY <2>1, Zenon DEF Tick, CommitSwitch, FinishPage, MapLead, Switch, OpenPage
    <3> QED  BY <1>1, <3>1
  <2> QED  BY <1>2, <1>3, <2>1 DEF LoopNext
<1>4. CASE UNCHANGED loopVars
  BY <1>1, <1>4 DEF loopVars
<1> QED  BY <1>3, <1>4

(* However instructors, colleagues and leaders race to answer a week, its  *)
(* rows are one author's, and an answer on somebody's behalf was required  *)
(* and overdue when it was written (services/response_loop.py).            *)
THEOREM RightfulAuthorsAnswer == LoopSpec => []OneRightfulAuthor
<1>1. AnswerInv => OneRightfulAuthor
  <2> SUFFICES ASSUME AnswerInv PROVE OneRightfulAuthor
    OBVIOUS
  <2>1. \A a, b \in answers : a.week = b.week => a.by = b.by
    BY DEF AnswerInv, OneWriter
  <2>2. \A w \in Weeks : AnsweredOnBehalf(w) =>
           FirstAnswer(w).overdue /\ (w \notin straddled => ModeInForce(w) = "REQUIRED")
    BY Zenon DEF AnswerInv, OnBehalfIsDue, Required
  <2> QED  BY <2>1, <2>2, Zenon DEF OneRightfulAuthor
<1> QED  BY <1>1, AnswerInit, AnswerStep, PTL DEF LoopSpec

-----------------------------------------------------------------------------
(* What was shown of a week stays so: its mode is settled, and an answer   *)
(* is never taken back.                                                    *)
LEMMA ShownStays ==
  ASSUME now \in Nat, [LoopNext]_loopVars, NEW w \in Published, w \notin straddled', ~ Awaiting(w)
  PROVE  ~ Awaiting(w)'
<1>1. ModeInForce(w)' = ModeInForce(w) /\ AnswersTo(w) \subseteq AnswersTo(w)'
  BY HoldIsSettled DEF AnswersTo
<1> QED  BY <1>1, Zenon DEF Awaiting

LEMMA PageStep == PageInv /\ [LoopNext]_loopVars => PageInv'
<1> SUFFICES ASSUME PageInv, [LoopNext]_loopVars PROVE PageInv'
  OBVIOUS
<1>1. /\ now \in Nat /\ now' \in Nat /\ Published \subseteq Published' /\ straddled \subseteq straddled'
  BY HoldIsSettled DEF PageInv
<1>2. ASSUME NEW w \in Published, w \notin straddled', w \notin straddled => ~ Awaiting(w)
      PROVE  ~ Awaiting(w)'
  BY <1>1, <1>2, ShownStays
<1>3. \/ page' = page
      \/ page' = {} \/ \E w \in Weeks : OpenPage(w)
  <2>1. CASE \E d \in Doors : EnterDoor(d) \/ Insert(d) \/ CommitAnswer(d) \/ LeaveDoor(d)
    BY <2>1, Zenon DEF EnterDoor, Insert, CommitAnswer, LeaveDoor
  <2>2. CASE \/ Tick \/ CommitSwitch \/ FinishPage
             \/ \E p \in LeadPool \cup {NoLead} : MapLead(p)
             \/ \E p \in LeadPool \cup Chairs : Switch(p)
    BY <2>2, Zenon DEF Tick, CommitSwitch, FinishPage, MapLead, Switch
  <2> QED  BY <2>1, <2>2 DEF LoopNext, loopVars
<1>4. pages' = pages \/ FinishPage
  <2>1. CASE \E d \in Doors : EnterDoor(d) \/ Insert(d) \/ CommitAnswer(d) \/ LeaveDoor(d)
    BY <2>1, Zenon DEF EnterDoor, Insert, CommitAnswer, LeaveDoor
  <2>2. CASE \/ Tick \/ CommitSwitch
             \/ \E p \in LeadPool \cup {NoLead} : MapLead(p)
             \/ \E p \in LeadPool \cup Chairs : Switch(p)
             \/ \E w \in Weeks : OpenPage(w)
    BY <2>2, Zenon DEF Tick, CommitSwitch, OpenPage, MapLead, Switch
  <2> QED  BY <2>1, <2>2 DEF LoopNext, loopVars
<1>5. \A p \in page' : /\ p.published \subseteq Published' /\ p.week \in Published'
                       /\ p.week \notin straddled' => ~ Awaiting(p.week)'
  <2>1. ASSUME NEW p \in page
        PROVE  /\ p.published \subseteq Published' /\ p.week \in Published'
               /\ p.week \notin straddled' => ~ Awaiting(p.week)'
    <3>1. /\ p.published \subseteq Published /\ p.week \in Published
          /\ p.week \notin straddled => ~ Awaiting(p.week)
      BY Zenon DEF PageInv
    <3> QED  BY <1>1, <1>2, <3>1
  <2>2. ASSUME NEW w \in Weeks, OpenPage(w), NEW p \in page'
        PROVE  /\ p.published \subseteq Published' /\ p.week \in Published'
               /\ p.week \notin straddled' => ~ Awaiting(p.week)'
    <3>1. w \in Published /\ ~ Awaiting(w) /\ page' = {[week |-> w, published |-> Published]}
      BY <2>2, Zenon DEF OpenPage
    <3>2. p.week = w /\ p.published = Published
      BY <2>2, <3>1
    <3> QED  BY <1>1, <1>2, <3>1, <3>2
  <2> QED  BY <1>3, <2>1, <2>2
<1>6. ASSUME NEW p \in pages'
      PROVE  /\ p.published \subseteq Published' /\ p.trend \subseteq Published' /\ p.week \in Published'
             /\ \A w \in (p.trend \cup {p.week}) \ straddled' : ~ Awaiting(w)'
             /\ p.released => \A w \in p.published \ straddled' : ~ Awaiting(w)'
  <2>1. CASE p \in pages
    <3>1. /\ p.published \subseteq Published /\ p.trend \subseteq Published /\ p.week \in Published
          /\ \A w \in (p.trend \cup {p.week}) \ straddled : ~ Awaiting(w)
          /\ p.released => \A w \in p.published \ straddled : ~ Awaiting(w)
      BY <2>1, Zenon DEF PageInv, ShownWeeksStayShown
    <3>2. \A w \in (p.trend \cup {p.week}) \ straddled' : ~ Awaiting(w)'
      BY <1>1, <1>2, <3>1
    <3>3. p.released => \A w \in p.published \ straddled' : ~ Awaiting(w)'
      <4>1. \A w \in p.published \ straddled' : w \in Published /\ w \notin straddled
        BY <1>1, <3>1
      <4> QED  BY <1>2, <3>1, <4>1, Zenon
    <3>4. p.published \subseteq Published' /\ p.trend \subseteq Published' /\ p.week \in Published'
      BY <1>1, <3>1
    <3> QED  BY <3>2, <3>3, <3>4, Zenon
  <2>2. CASE FinishPage
    <3>1. PICK q \in page :
            LET readable == {w \in q.published : ~ Awaiting(w)} IN
              pages' =
                {[week |-> q.week, published |-> q.published,
                  trend |-> {w \in readable : w <= q.week},
                  released |-> q.week = Max(q.published) /\ readable = q.published]}
      BY <2>2, Zenon DEF FinishPage
    <3>2. PICK readable : readable = {w \in q.published : ~ Awaiting(w)}
      OBVIOUS
    <3>3. PICK trend : trend = {w \in readable : w <= q.week}
      OBVIOUS
    <3>4. PICK released \in BOOLEAN : released = (q.week = Max(q.published) /\ readable = q.published)
      BY Zenon
    <3>5. pages' = {[week |-> q.week, published |-> q.published, trend |-> trend, released |-> released]}
      BY <3>1, <3>2, <3>3, <3>4, Zenon
    <3>6. p.week = q.week /\ p.published = q.published /\ p.trend = trend /\ p.released = released
      BY <1>6, <3>5
    <3>7. /\ q.published \subseteq Published /\ q.week \in Published
          /\ q.week \notin straddled => ~ Awaiting(q.week)
      BY Zenon DEF PageInv
    <3>8. /\ readable \subseteq q.published /\ trend \subseteq readable
          /\ \A w \in readable : ~ Awaiting(w)
      BY <3>2, <3>3
    <3>9. \A w \in trend \cup {q.week} : w \notin straddled' => ~ Awaiting(w)'
      BY <1>1, <1>2, <3>7, <3>8
    <3>10. released => \A w \in q.published \ straddled' : ~ Awaiting(w)'
      <4>1. ASSUME readable = q.published, NEW w \in q.published \ straddled'
            PROVE  ~ Awaiting(w)'
        BY <1>2, <3>7, <3>8, <4>1
      <4> QED  BY <3>4, <4>1, Zenon
    <3>11. p.published \subseteq Published' /\ p.trend \subseteq Published' /\ p.week \in Published'
      BY <1>1, <3>6, <3>7, <3>8
    <3>12. \A w \in (p.trend \cup {p.week}) \ straddled' : ~ Awaiting(w)'
      BY <3>6, <3>9
    <3> QED  BY <3>6, <3>10, <3>11, <3>12, Zenon
  <2> QED  BY <1>4, <1>6, <2>1, <2>2
<1>7. ShownWeeksStayShown'
  BY <1>6, Zenon DEF ShownWeeksStayShown
<1> QED  BY <1>1, <1>5, <1>6, <1>7, Zenon DEF PageInv

(* What a student was shown of a week is not held back later, and no       *)
(* released comment is shown while a week behind it is held                *)
(* (services/student_results.py).                                          *)
THEOREM ShownIsNotTakenBack == LoopSpec => []ShownWeeksStayShown
<1>1. LoopInit => PageInv
  BY DEF LoopInit, PageInv, ShownWeeksStayShown
<1>2. PageInv => ShownWeeksStayShown
  BY DEF PageInv
<1> QED  BY <1>1, <1>2, PageStep, PTL DEF LoopSpec

-----------------------------------------------------------------------------
(* EnrolledWeeks.                                                          *)

PlaceRow == [of : Pupils, from : Nat, to : Nat, begins : Nat]

WeekTypes ==
  /\ today \in Nat \ {0}
  /\ says \in [Pupils -> Said]
  /\ firstSync \in Nat /\ firstSync = readOn
  /\ places \subseteq PlaceRow
  /\ places # {} => firstSync # 0
  /\ items \in [Pupils -> [CourseWeeks -> Int]]

(* Unless revised, nobody's place is dated past the day it began, and      *)
(* whoever answered had one that overlaps the window.                      *)
AnsweredInPlace ==
  /\ staff \subseteq revised
  /\ \A r \in places : r.of \notin revised => r.begins <= r.from
  /\ \A p \in Pupils \ revised : \A w \in CourseWeeks : items[p][w] > 0 =>
       /\ OpensOn(w) <= today
       /\ \E r \in PlacesOf(p) : r.from <= ClosesOn(w) /\ (r.to = 0 \/ OpensOn(w) <= r.to)

CountedInv == WeekTypes /\ AnsweredInPlace

(* Nobody has a place before the platform lists them, and whom a complete  *)
(* walk read has one by then.                                              *)
ListedFirst ==
  /\ listed \in [Pupils -> Nat] /\ seen \in [Pupils -> Nat]
  /\ \A p \in Pupils : /\ listed[p] <= today
                       /\ says[p].kind = "student" => listed[p] # 0
                       /\ seen[p] # 0 => \E r \in PlacesOf(p) : r.from <= seen[p]
  /\ \A r \in places : /\ listed[r.of] # 0 /\ listed[r.of] <= r.from
                       /\ r.from <= today

ListedInv == WeekTypes /\ ListedFirst

LEMMA ProductGrows ==
  ASSUME NEW a \in Nat, NEW b \in Nat, NEW k \in Nat, a <= b
  PROVE  a * k \in Nat /\ a * k <= b * k
<1>1. PICK c \in Nat : b = a + c
  <2>1. b - a \in Nat /\ b = a + (b - a)
    OBVIOUS
  <2> QED  BY <2>1
<1>2. b * k = a * k + c * k
  BY <1>1
<1>3. a * k \in Nat /\ c * k \in Nat
  OBVIOUS
<1> QED  BY <1>2, <1>3

(* The windows of a calendar open in order, each before it closes.         *)
LEMMA Windows ==
  ASSUME NEW w \in CourseWeeks, NEW v \in 1..w
  PROVE  /\ OpensOn(w) \in Nat /\ ClosesOn(w) \in Nat /\ ClosesOn(v) \in Nat
         /\ OpensOn(w) <= ClosesOn(w) /\ ClosesOn(v) <= ClosesOn(w)
<1>1. PICK k : k = (SectionStart - TermStart) \div DaysPerWeek
  OBVIOUS
<1>2. k \in Nat
  <2>1. SectionStart - TermStart \in Nat /\ DaysPerWeek \in Nat /\ DaysPerWeek > 0
    BY WeekAssumption
  <2> QED  BY <1>1, <2>1
<1>3. w \in Nat /\ v \in Nat /\ 1 <= v /\ v <= w
  BY WeekAssumption DEF CourseWeeks
<1>4. /\ (v + k - 1) * DaysPerWeek \in Nat /\ (w + k - 1) * DaysPerWeek \in Nat
      /\ (v + k - 1) * DaysPerWeek <= (w + k - 1) * DaysPerWeek
  <2>1. v + k - 1 \in Nat /\ w + k - 1 \in Nat /\ v + k - 1 <= w + k - 1
    BY <1>2, <1>3
  <2>2. w + k - 1 <= w + k - 1 /\ DaysPerWeek \in Nat
    BY <2>1, WeekAssumption
  <2> QED  BY <2>1, <2>2, ProductGrows
<1>5. PICK x \in Nat, y \in Nat : /\ x = (v + k - 1) * DaysPerWeek /\ y = (w + k - 1) * DaysPerWeek
                                  /\ x <= y
  BY <1>4
<1>6. Monday(v) = TermStart + x /\ Monday(w) = TermStart + y
  <2>1. WeekOfTheTerm(v) = v + k /\ WeekOfTheTerm(w) = w + k
    BY <1>1, Zenon DEF WeekOfTheTerm
  <2>2. /\ Monday(v) = TermStart + (WeekOfTheTerm(v) - 1) * DaysPerWeek
        /\ Monday(w) = TermStart + (WeekOfTheTerm(w) - 1) * DaysPerWeek
    BY Zenon DEF Monday
  <2>3. WeekOfTheTerm(v) - 1 = v + k - 1 /\ WeekOfTheTerm(w) - 1 = w + k - 1
    BY <1>2, <1>3, <2>1
  <2> QED  BY <1>5, <2>2, <2>3, Zenon
<1> QED  BY <1>5, <1>6, WeekAssumption DEF OpensOn, ClosesOn

LEMMA PlaceShape ==
  ASSUME NEW r \in PlaceRow
  PROVE  /\ r = [of |-> r.of, from |-> r.from, to |-> r.to, begins |-> r.begins]
         /\ r.of \in Pupils /\ r.from \in Nat /\ r.to \in Nat /\ r.begins \in Nat
  BY DEF PlaceRow

LEMMA PlaceIs ==
  ASSUME NEW of \in Pupils, NEW from \in Nat, NEW to \in Nat, NEW begins \in Nat,
         NEW r, r = [of |-> of, from |-> from, to |-> to, begins |-> begins]
  PROVE  r \in PlaceRow /\ r.of = of /\ r.from = from /\ r.to = to /\ r.begins = begins
  BY DEF PlaceRow

LEMMA SaidShape ==
  ASSUME NEW s \in Said
  PROVE  s.start \in Nat /\ s.ended \in Nat
  BY DEF Said

LEMMA LaterOfTwo ==
  ASSUME NEW a \in Nat, NEW b \in Nat
  PROVE  Max({a, b}) \in Nat
<1>1. PICK A : A = {a}
  OBVIOUS
<1>2. PICK B : B = {a, b}
  OBVIOUS
<1>3. IsFiniteSet(A)
  BY <1>1, FS_Singleton
<1>4. B = A \cup {b}
  BY <1>1, <1>2
<1>5. IsFiniteSet(B) /\ B # {} /\ B \subseteq Nat
  BY <1>2, <1>3, <1>4, FS_AddElement
<1>6. Max(B) \in B
  BY <1>5, MaxOfFinite
<1> QED  BY <1>2, <1>5, <1>6

(* An open row is kept as it was, or closed or dated anew.                 *)
LEMMA KeptIs ==
  ASSUME WeekTypes, NEW n, NEW r \in OpenPlaces
  PROVE  \E q \in Kept(n) :
           /\ q = [r EXCEPT !.to = Closed(n, r), !.begins = Followed(n, r)]
           /\ q \in PlaceRow /\ q.of = r.of /\ q.from = r.from
           /\ q.to = Closed(n, r) /\ q.begins = Followed(n, r)
<1>0. PICK q : q = [r EXCEPT !.to = Closed(n, r), !.begins = Followed(n, r)]
  OBVIOUS
<1>1. r \in PlaceRow /\ says[r.of] \in Said
  BY PlaceShape DEF WeekTypes, OpenPlaces
<1>2. Closed(n, r) \in Nat
  <2>1. Max({r.from, today - 1}) \in Nat
    <3>1. r.from \in Nat /\ today - 1 \in Nat
      BY <1>1, PlaceShape DEF WeekTypes
    <3> QED  BY <3>1, LaterOfTwo
  <2>2. today \in Nat /\ says[r.of].ended \in Nat
    BY <1>1, SaidShape DEF WeekTypes
  <2> QED  BY <2>1, <2>2 DEF Closed
<1>3. Followed(n, r) \in Nat
  BY <1>1, PlaceShape, SaidShape DEF Followed
<1>4. PICK to, begins : to = Closed(n, r) /\ begins = Followed(n, r)
  OBVIOUS
<1>5. q = [r EXCEPT !.to = to, !.begins = begins]
  BY <1>0, <1>4
<1>6. r = [of |-> r.of, from |-> r.from, to |-> r.to, begins |-> r.begins]
  BY <1>1, PlaceShape
<1>7. q = [of |-> r.of, from |-> r.from, to |-> to, begins |-> begins]
  BY ONLY <1>5, <1>6
<1>8. r.of \in Pupils /\ r.from \in Nat
  BY <1>1, PlaceShape
<1>9. to \in Nat /\ begins \in Nat
  BY <1>2, <1>3, <1>4
<1>10. /\ q.of = r.of /\ q.from = r.from
       /\ q.to = to /\ q.begins = begins
  BY ONLY <1>7
<1>11. q \in PlaceRow
  BY <1>7, <1>8, <1>9, Zenon DEF PlaceRow
<1>12. q \in Kept(n)
  BY <1>0, Zenon DEF Kept
<1> QED  BY <1>0, <1>4, <1>10, <1>11, <1>12, Zenon

LEMMA RowsAfter ==
  ASSUME WeekTypes, NEW n, NEW q \in PlacesAfter(n)
  PROVE  /\ q \in PlaceRow
         /\ \/ q \in places /\ q.to # 0
            \/ /\ q \in Kept(n)
               /\ \E r \in places : r.to = 0 /\ q.of = r.of /\ q.from = r.from
            \/ /\ q \in Opened(n) /\ q.of \in ReadAs(n, "student")
               /\ q.from = today /\ q.to = 0
<1>1. CASE q \in places \ OpenPlaces
  BY <1>1 DEF WeekTypes, OpenPlaces
<1>2. CASE q \in Kept(n)
  <2>1. PICK r \in OpenPlaces : q = [r EXCEPT !.to = Closed(n, r), !.begins = Followed(n, r)]
    BY <1>2, Zenon DEF Kept
  <2>2. r \in places /\ r.to = 0
    BY DEF OpenPlaces
  <2>3. PICK k \in Kept(n) :
          /\ k = [r EXCEPT !.to = Closed(n, r), !.begins = Followed(n, r)]
          /\ k \in PlaceRow /\ k.of = r.of /\ k.from = r.from
    BY KeptIs, Zenon
  <2>4. q = k
    BY <2>1, <2>3, Zenon
  <2> QED  BY <1>2, <2>2, <2>3, <2>4
<1>3. CASE q \in Opened(n)
  <2>1. PICK p \in ReadAs(n, "student") :
          q = [of |-> p, from |-> today, to |-> 0, begins |-> says[p].start]
    BY <1>3 DEF Opened
  <2>2. p \in Pupils /\ says[p].start \in Nat /\ today \in Nat
    BY SaidShape DEF WeekTypes, ReadAs, ReadOn
  <2> QED  BY <1>3, <2>1, <2>2, PlaceIs
<1> QED  BY <1>1, <1>2, <1>3 DEF PlacesAfter

LEMMA RowsStay ==
  ASSUME WeekTypes, NEW n, NEW r \in places
  PROVE  \E q \in PlacesAfter(n) :
           /\ q.of = r.of /\ q.from = r.from
           /\ q = r \/ (r.to = 0 /\ q \in Kept(n))
<1>1. CASE r \notin OpenPlaces
  BY <1>1 DEF PlacesAfter
<1>2. CASE r \in OpenPlaces
  <2>1. PICK q \in Kept(n) :
          /\ q = [r EXCEPT !.to = Closed(n, r), !.begins = Followed(n, r)]
          /\ q \in PlaceRow /\ q.of = r.of /\ q.from = r.from
          /\ q.to = Closed(n, r) /\ q.begins = Followed(n, r)
    BY <1>2, KeptIs, Zenon
  <2> QED  BY <1>2, <2>1 DEF PlacesAfter, OpenPlaces
<1> QED  BY <1>1, <1>2

LEMMA ItemsAfter ==
  ASSUME WeekTypes, NEW p \in Pupils, NEW w \in CourseWeeks, NEW c \in Int,
         NEW t, t = [items EXCEPT ![p][w] = c]
  PROVE  /\ t \in [Pupils -> [CourseWeeks -> Int]]
         /\ \A x \in Pupils : \A v \in CourseWeeks :
              t[x][v] = IF x = p /\ v = w THEN c ELSE items[x][v]
  BY DEF WeekTypes

LEMMA WeeksBegin == WeeksInit => CountedInv /\ ListedInv
<1> SUFFICES ASSUME WeeksInit PROVE CountedInv /\ ListedInv
  OBVIOUS
<1>1. [kind |-> "absent", start |-> 0, ended |-> 0] \in Said
  BY DEF Said
<1>2. today \in Nat \ {0} /\ firstSync \in Nat /\ firstSync = readOn
  BY WeekAssumption DEF WeeksInit
<1>3. says \in [Pupils -> Said] /\ \A p \in Pupils : says[p].kind = "absent"
  BY <1>1 DEF WeeksInit
<1>4. /\ items \in [Pupils -> [CourseWeeks -> Int]]
      /\ \A p \in Pupils : \A w \in CourseWeeks : items[p][w] = 0
  BY DEF WeeksInit
<1>5. WeekTypes
  BY <1>2, <1>3, <1>4 DEF WeekTypes, WeeksInit
<1>6. AnsweredInPlace
  BY <1>4 DEF AnsweredInPlace, WeeksInit
<1>7. ListedFirst
  BY <1>2, <1>3 DEF ListedFirst, WeeksInit
<1> QED  BY <1>5, <1>6, <1>7 DEF CountedInv, ListedInv

(* What a pull leaves of the day of the first sync.                        *)
LEMMA SyncStays ==
  ASSUME WeekTypes, NEW n \in 0..Pages, Pull(n)
  PROVE  /\ firstSync' \in Nat /\ firstSync' = readOn'
         /\ n # 0 => firstSync' # 0
         /\ firstSync # 0 => firstSync' = firstSync
<1>1. n \in Nat
  BY WeekAssumption
<1>2. CASE n = 0
  BY <1>2 DEF Pull, SyncedOn, WeekTypes
<1>3. CASE n # 0
  BY <1>1, <1>3 DEF Pull, SyncedOn, WeekTypes
<1> QED  BY <1>2, <1>3

LEMMA WeekTypesKept == WeekTypes /\ [WeeksNext]_weekVars => WeekTypes'
<1> SUFFICES ASSUME WeekTypes, [WeeksNext]_weekVars PROVE WeekTypes'
  OBVIOUS
<1> USE DEF WeekTypes
<1>1. CASE NextDay
  BY <1>1 DEF NextDay
<1>2. ASSUME NEW n \in 0..Pages, Pull(n) PROVE WeekTypes'
  <2>1. today' \in Nat \ {0} /\ says' \in [Pupils -> Said] /\ items' \in [Pupils -> [CourseWeeks -> Int]]
    BY <1>2 DEF Pull
  <2>2. /\ firstSync' \in Nat /\ firstSync' = readOn'
        /\ n # 0 => firstSync' # 0
        /\ firstSync # 0 => firstSync' = firstSync
    BY <1>2, SyncStays
  <2>3. CASE n = 0
    BY <1>2, <2>1, <2>2, <2>3 DEF Pull
  <2>4. CASE n # 0
    <3>1. places' = PlacesAfter(n)
      BY <1>2, <2>4 DEF Pull
    <3>2. \A q \in PlacesAfter(n) : q \in PlaceRow
      BY RowsAfter
    <3> QED  BY <2>1, <2>2, <2>4, <3>1, <3>2
  <2> QED  BY <2>3, <2>4
<1>3. ASSUME NEW p \in Pupils, NEW said \in Sayings[p], PlatformSays(p, said) PROVE WeekTypes'
  <2>1. said \in Said
    BY WeekAssumption
  <2>2. says' = [says EXCEPT ![p] = said]
    BY <1>3 DEF PlatformSays
  <2> QED  BY <1>3, <2>1, <2>2 DEF PlatformSays
<1>4. ASSUME NEW p \in Pupils, NEW w \in CourseWeeks, RefuseComment(p, w) PROVE WeekTypes'
  <2>1. PICK c \in Int : c = items[p][w] - 1
    OBVIOUS
  <2>2. items' = [items EXCEPT ![p][w] = c]
    BY <1>4, <2>1 DEF RefuseComment
  <2>3. items' \in [Pupils -> [CourseWeeks -> Int]]
    BY <2>2, ItemsAfter
  <2> QED  BY <1>4, <2>3 DEF RefuseComment
<1>5. ASSUME NEW p \in Pupils, NEW w \in CourseWeeks, NEW n \in 1..Items, Submit(p, w, n)
      PROVE  WeekTypes'
  <2>1. n \in Int
    BY WeekAssumption
  <2>2. items' \in [Pupils -> [CourseWeeks -> Int]]
    BY <1>5, <2>1, ItemsAfter DEF Submit
  <2> QED  BY <1>5, <2>2 DEF Submit
<1>6. CASE UNCHANGED weekVars
  BY <1>6 DEF weekVars
<1> QED  BY <1>1, <1>2, <1>3, <1>4, <1>5, <1>6 DEF WeeksNext
(* What a pull takes for granted of a past day, it puts on record.         *)
LEMMA RevisedSays ==
  ASSUME WeekTypes, NEW n, NEW q \in PlaceRow, q \in Kept(n) \cup Opened(n), q.of \notin Revised(n)
  PROVE  /\ q.begins <= q.from
         /\ q.to = 0 \/ today <= q.to
<1>1. ~ (q.begins > q.from) /\ q.to \notin 1..(today - 1)
  BY DEF Revised
<1>2. q.begins \in Nat /\ q.from \in Nat /\ q.to \in Nat /\ today \in Nat
  BY PlaceShape DEF WeekTypes
<1> QED  BY <1>1, <1>2

LEMMA AnswersStayInPlace ==
  CountedInv /\ [WeeksNext]_weekVars => AnsweredInPlace'
<1> SUFFICES ASSUME WeekTypes, AnsweredInPlace, [WeeksNext]_weekVars PROVE AnsweredInPlace'
  BY DEF CountedInv
<1> USE DEF PlacesOf
<1>1. CASE NextDay
  <2>1. today' = today + 1 /\ UNCHANGED <<places, staff, items, revised>>
    BY <1>1 DEF NextDay
  <2>2. \A w \in CourseWeeks : OpensOn(w) \in Nat
    BY Windows DEF CourseWeeks
  <2>3. \A w \in CourseWeeks : OpensOn(w) <= today => OpensOn(w) <= today'
    BY <2>1, <2>2 DEF WeekTypes
  <2> QED  BY <2>1, <2>3 DEF AnsweredInPlace
<1>2. ASSUME NEW n \in 0..Pages, Pull(n) PROVE AnsweredInPlace'
  <2>0. UNCHANGED <<today, items>>
    BY <1>2 DEF Pull
  <2>1. CASE n = 0
    BY <1>2, <2>0, <2>1 DEF Pull, AnsweredInPlace
  <2>2. CASE n # 0
    <3>1. /\ places' = PlacesAfter(n) /\ staff' = StaffAfter(n)
          /\ revised' = revised \cup Revised(n)
      BY <1>2, <2>2 DEF Pull
    <3>2. staff' \subseteq revised'
      BY <3>1 DEF StaffAfter, Revised, AnsweredInPlace
    <3>3. ASSUME NEW q \in places', q.of \notin revised' PROVE q.begins <= q.from
      <4>1. /\ q \in PlaceRow
            /\ q \in places \/ q \in Kept(n) \cup Opened(n)
        BY <3>1, RowsAfter
      <4>2. CASE q \in places
        BY <3>1, <3>3, <4>2 DEF AnsweredInPlace
      <4>3. CASE q \in Kept(n) \cup Opened(n)
        BY <3>1, <3>3, <4>1, <4>3, RevisedSays
      <4> QED  BY <4>1, <4>2, <4>3
    <3>4. ASSUME NEW p \in Pupils \ revised', NEW w \in CourseWeeks, items'[p][w] > 0
          PROVE  /\ OpensOn(w) <= today
                 /\ \E q \in places' : q.of = p /\ q.from <= ClosesOn(w) /\ (q.to = 0 \/ OpensOn(w) <= q.to)
      <4>1. /\ OpensOn(w) <= today
            /\ \E r \in PlacesOf(p) : r.from <= ClosesOn(w) /\ (r.to = 0 \/ OpensOn(w) <= r.to)
        BY <2>0, <3>1, <3>4 DEF AnsweredInPlace
      <4>2. PICK r \in places : /\ r.of = p /\ r.from <= ClosesOn(w)
                                /\ r.to = 0 \/ OpensOn(w) <= r.to
        BY <4>1
      <4>3. PICK q \in PlacesAfter(n) : /\ q.of = r.of /\ q.from = r.from
                                        /\ q = r \/ (r.to = 0 /\ q \in Kept(n))
        BY RowsStay, Zenon
      <4>4. CASE q = r
        BY <3>1, <4>1, <4>2, <4>3, <4>4
      <4>5. CASE q \in Kept(n)
        <5>1. q \in PlaceRow
          BY RowsAfter
        <5>2. q.to = 0 \/ today <= q.to
          BY <3>1, <3>4, <4>2, <4>3, <4>5, <5>1, RevisedSays
        <5>3. OpensOn(w) \in Nat /\ today \in Nat /\ q.to \in Nat
          BY <5>1, Windows, PlaceShape DEF WeekTypes, CourseWeeks
        <5>4. q.to = 0 \/ OpensOn(w) <= q.to
          BY <4>1, <5>2, <5>3
        <5> QED  BY <3>1, <4>1, <4>2, <4>3, <5>4
      <4> QED  BY <4>3, <4>4, <4>5
    <3> QED  BY <2>0, <3>2, <3>3, <3>4 DEF AnsweredInPlace
  <2> QED  BY <2>1, <2>2
<1>3. ASSUME NEW p \in Pupils, NEW said \in Sayings[p], PlatformSays(p, said)
      PROVE  AnsweredInPlace'
  BY <1>3 DEF PlatformSays, AnsweredInPlace
<1>4. ASSUME NEW p \in Pupils, NEW w \in CourseWeeks, RefuseComment(p, w) PROVE AnsweredInPlace'
  <2>1. PICK c \in Int : c = items[p][w] - 1
    BY DEF WeekTypes
  <2>2. items' = [items EXCEPT ![p][w] = c] /\ UNCHANGED <<today, places, staff, revised>>
    BY <1>4, <2>1 DEF RefuseComment
  <2>3. \A x \in Pupils : \A v \in CourseWeeks :
          items'[x][v] = IF x = p /\ v = w THEN c ELSE items[x][v]
    BY <2>2, ItemsAfter
  <2>4. \A x \in Pupils : \A v \in CourseWeeks : items'[x][v] > 0 => items[x][v] > 0
    BY <2>1, <2>3 DEF WeekTypes
  <2> QED  BY <2>2, <2>4 DEF AnsweredInPlace
<1>5. ASSUME NEW p \in Pupils, NEW w \in CourseWeeks, NEW n \in 1..Items, Submit(p, w, n)
      PROVE  AnsweredInPlace'
  <2>1. n \in Int
    BY WeekAssumption
  <2>2. items' = [items EXCEPT ![p][w] = n] /\ UNCHANGED <<today, places, staff, revised>>
    BY <1>5 DEF Submit
  <2>3. \A x \in Pupils : \A v \in CourseWeeks :
          items'[x][v] = IF x = p /\ v = w THEN n ELSE items[x][v]
    BY <2>1, <2>2, ItemsAfter
  <2>4. PICK r \in PlacesOf(p) : r.from <= today /\ (r.to = 0 \/ today <= r.to)
    BY <1>5 DEF Submit, LiveOn
  <2>5. OpensOn(w) <= today /\ today <= ClosesOn(w)
    BY <1>5 DEF Submit
  <2>6. r.from \in Nat /\ r.to \in Nat /\ today \in Nat /\ OpensOn(w) \in Nat /\ ClosesOn(w) \in Nat
    BY Windows, PlaceShape DEF WeekTypes, CourseWeeks
  <2>7. r.from <= ClosesOn(w) /\ (r.to = 0 \/ OpensOn(w) <= r.to)
    BY <2>4, <2>5, <2>6
  <2>8. ASSUME NEW x \in Pupils \ revised, NEW v \in CourseWeeks, items'[x][v] > 0
        PROVE  /\ OpensOn(v) <= today
               /\ \E q \in PlacesOf(x) : q.from <= ClosesOn(v) /\ (q.to = 0 \/ OpensOn(v) <= q.to)
    <3>1. CASE x = p /\ v = w
      BY <2>5, <2>7, <3>1
    <3>2. CASE ~ (x = p /\ v = w)
      BY <2>3, <2>8, <3>2 DEF AnsweredInPlace
    <3> QED  BY <3>1, <3>2
  <2> QED  BY <2>2, <2>8 DEF AnsweredInPlace
<1>6. CASE UNCHANGED weekVars
  BY <1>6 DEF weekVars, AnsweredInPlace
<1> QED  BY <1>1, <1>2, <1>3, <1>4, <1>5, <1>6 DEF WeeksNext

LEMMA CountedSays == CountedInv => WhoAnsweredIsCounted
<1> SUFFICES ASSUME WeekTypes, AnsweredInPlace,
                    NEW p \in Pupils \ revised, NEW w \in Elapsed, items[p][w] > 0
             PROVE  w \in Credited(p) /\ p \in EnrolledStudents(w)
  BY DEF CountedInv, WhoAnsweredIsCounted
<1>1. w \in CourseWeeks
  BY DEF Elapsed
<1>2. PICK r \in PlacesOf(p) : r.from <= ClosesOn(w) /\ (r.to = 0 \/ OpensOn(w) <= r.to)
  BY <1>1 DEF AnsweredInPlace
<1>3. r \in places /\ r.of = p /\ r.begins <= r.from
  BY DEF PlacesOf, AnsweredInPlace
<1>4. /\ r.from \in Nat /\ r.begins \in Nat /\ firstSync \in Nat
      /\ ClosesOn(w) \in Nat /\ w \in Nat /\ 1 <= w
  <2>1. r.from \in Nat /\ r.begins \in Nat /\ firstSync \in Nat
    BY <1>3, PlaceShape DEF WeekTypes
  <2>2. w \in Nat /\ 1 <= w /\ w \in 1..w
    BY <1>1, WeekAssumption DEF CourseWeeks
  <2> QED  BY <1>1, <2>1, <2>2, Windows
<1>5. EnrolledFrom(r) \in Nat /\ EnrolledFrom(r) <= r.from
  BY <1>3, <1>4 DEF EnrolledFrom
<1>6. BeganBy(r, w)
  BY <1>2, <1>4, <1>5 DEF BeganBy
<1>7. w \in Credited(p)
  BY <1>4, <1>6 DEF Credited
<1>8. p \notin staff
  BY DEF AnsweredInPlace
<1> QED  BY <1>2, <1>3, <1>6, <1>7, <1>8 DEF EnrolledStudents

(* Whoever answered a closed week is counted in its response rate and      *)
(* credited with the week, whatever later rosters say: apart from whom the *)
(* platform takes a past day from.                                         *)
THEOREM WhoAnsweredStaysCounted == WeeksSpec => []WhoAnsweredIsCounted
<1>1. WeeksInit => CountedInv
  BY WeeksBegin
<1>2. CountedInv /\ [WeeksNext]_weekVars => CountedInv'
  BY WeekTypesKept, AnswersStayInPlace DEF CountedInv
<1>3. CountedInv => WhoAnsweredIsCounted
  BY CountedSays
<1> QED  BY <1>1, <1>2, <1>3, PTL DEF WeeksSpec

LEMMA ListedStaysFirst ==
  ListedInv /\ [WeeksNext]_weekVars => ListedFirst'
<1> SUFFICES ASSUME WeekTypes, ListedFirst, [WeeksNext]_weekVars PROVE ListedFirst'
  BY DEF ListedInv
<1>0. /\ listed \in [Pupils -> Nat] /\ seen \in [Pupils -> Nat] /\ today \in Nat \ {0}
      /\ \A r \in places : r.of \in Pupils /\ r.from \in Nat
  BY PlaceShape DEF WeekTypes, ListedFirst
<1>1. CASE NextDay
  <2>1. today' = today + 1 /\ UNCHANGED <<says, places, listed, seen>>
    BY <1>1 DEF NextDay
  <2>2. \A m \in Nat : m <= today => m <= today'
    BY <1>0, <2>1
  <2> QED  BY <1>0, <2>1, <2>2 DEF ListedFirst, PlacesOf
<1>2. ASSUME NEW n \in 0..Pages, Pull(n) PROVE ListedFirst'
  <2>1. UNCHANGED <<today, says, listed>>
    BY <1>2 DEF Pull
  <2>2. /\ seen' \in [Pupils -> Nat]
        /\ \A p \in Pupils : seen'[p] = IF seen[p] = 0 /\ IsComplete(n) /\ p \in ReadAs(n, "student")
                                        THEN today ELSE seen[p]
    BY <1>0, <1>2 DEF Pull
  <2>3. CASE n = 0
    <3>1. \A p \in Pupils : p \notin ReadAs(n, "student")
      BY <2>3, WeekAssumption DEF ReadAs, ReadOn
    <3> QED  BY <1>2, <2>1, <2>2, <2>3, <3>1 DEF Pull, ListedFirst, PlacesOf
  <2>4. CASE n # 0
    <3>1. places' = PlacesAfter(n)
      BY <1>2, <2>4 DEF Pull
    <3>2. ASSUME NEW q \in PlacesAfter(n)
          PROVE  listed[q.of] # 0 /\ listed[q.of] <= q.from /\ q.from <= today
      <4>1. \/ q \in places
            \/ \E r \in places : q.of = r.of /\ q.from = r.from
            \/ q \in PlaceRow /\ q.of \in ReadAs(n, "student") /\ q.from = today
        BY RowsAfter
      <4>2. CASE q \in places
        BY <4>2 DEF ListedFirst
      <4>3. ASSUME NEW r \in places, q.of = r.of, q.from = r.from
            PROVE  listed[q.of] # 0 /\ listed[q.of] <= q.from /\ q.from <= today
        BY <4>3 DEF ListedFirst
      <4>4. CASE q \in PlaceRow /\ q.of \in ReadAs(n, "student") /\ q.from = today
        <5>1. q.of \in Pupils /\ says[q.of].kind = "student"
          BY <4>4 DEF ReadAs, ReadOn
        <5> QED  BY <1>0, <4>4, <5>1 DEF ListedFirst
      <4> QED  BY <4>1, <4>2, <4>3, <4>4
    <3>3. ASSUME NEW p \in Pupils, seen'[p] # 0
          PROVE  \E q \in PlacesAfter(n) : q.of = p /\ q.from <= seen'[p]
      <4>1. CASE seen[p] # 0
        <5>1. PICK r \in places : r.of = p /\ r.from <= seen[p]
          BY <4>1 DEF ListedFirst, PlacesOf
        <5>2. PICK q \in PlacesAfter(n) : /\ q.of = r.of /\ q.from = r.from
                                          /\ q = r \/ (r.to = 0 /\ q \in Kept(n))
          BY RowsStay, Zenon
        <5> QED  BY <2>2, <4>1, <5>1, <5>2
      <4>2. CASE seen[p] = 0
        <5>1. seen'[p] = today /\ p \in ReadAs(n, "student")
          BY <2>2, <3>3, <4>2
        <5>2. CASE p \in {r.of : r \in OpenPlaces}
          <6>1. PICK r \in places : r.of = p
            BY <5>2 DEF OpenPlaces
          <6>2. PICK q \in PlacesAfter(n) : /\ q.of = r.of /\ q.from = r.from
                                            /\ q = r \/ (r.to = 0 /\ q \in Kept(n))
            BY RowsStay, Zenon
          <6> QED  BY <3>2, <5>1, <6>1, <6>2
        <5>3. CASE p \notin {r.of : r \in OpenPlaces}
          <6>1. PICK q \in Opened(n) : q = [of |-> p, from |-> today, to |-> 0, begins |-> says[p].start]
            BY <5>1, <5>3 DEF Opened
          <6>2. q \in PlacesAfter(n) /\ q.of = p /\ q.from = today
            BY <6>1 DEF PlacesAfter
          <6> QED  BY <1>0, <5>1, <6>2
        <5> QED  BY <5>2, <5>3
      <4> QED  BY <4>1, <4>2
    <3> QED  BY <2>1, <2>2, <3>1, <3>2, <3>3 DEF ListedFirst, PlacesOf
  <2> QED  BY <2>3, <2>4
<1>3. ASSUME NEW p \in Pupils, NEW said \in Sayings[p], PlatformSays(p, said) PROVE ListedFirst'
  <2>1. said \in Said
    BY WeekAssumption
  <2>2. says' = [says EXCEPT ![p] = said] /\ UNCHANGED <<today, places, seen>>
    BY <1>3 DEF PlatformSays
  <2>3. PICK c : c = IF listed[p] = 0 /\ said.kind = "student" THEN today ELSE listed[p]
    OBVIOUS
  <2>4. c \in Nat /\ c <= today /\ (listed[p] # 0 => c = listed[p]) /\ (said.kind = "student" => c # 0)
    BY <1>0, <2>3 DEF ListedFirst
  <2>5. listed' = [listed EXCEPT ![p] = c]
    BY <1>3, <2>3 DEF PlatformSays
  <2>6. \A x \in Pupils : says'[x] = IF x = p THEN said ELSE says[x]
    BY <2>2 DEF WeekTypes
  <2>7. /\ listed' \in [Pupils -> Nat]
        /\ \A x \in Pupils : listed'[x] = IF x = p THEN c ELSE listed[x]
    BY <1>0, <2>4, <2>5
  <2> QED  BY <1>0, <2>2, <2>4, <2>6, <2>7 DEF ListedFirst, PlacesOf
<1>4. ASSUME NEW p \in Pupils, NEW w \in CourseWeeks, RefuseComment(p, w) PROVE ListedFirst'
  BY <1>4 DEF RefuseComment, ListedFirst, PlacesOf
<1>5. ASSUME NEW p \in Pupils, NEW w \in CourseWeeks, NEW n \in 1..Items, Submit(p, w, n)
      PROVE  ListedFirst'
  BY <1>5 DEF Submit, ListedFirst, PlacesOf
<1>6. CASE UNCHANGED weekVars
  BY <1>6 DEF weekVars, ListedFirst, PlacesOf
<1> QED  BY <1>1, <1>2, <1>3, <1>4, <1>5, <1>6 DEF WeeksNext

LEMMA ListedSays == ListedInv => OnlyLateAddsAreExcused
<1> SUFFICES ASSUME WeekTypes, ListedFirst, NEW p \in Pupils \ revised, NEW w \in Elapsed,
                    \A r \in PlacesOf(p) : r.begins = 0
             PROVE  /\ w \in Credited(p) => listed[p] <= ClosesOn(w) \/ listed[p] <= readOn
                    /\ w \notin Credited(p) /\ seen[p] # 0 => seen[p] > ClosesOn(w) /\ seen[p] # readOn
  BY DEF ListedInv, OnlyLateAddsAreExcused
<1>1. w \in CourseWeeks /\ w \in Nat /\ w \in 1..w /\ firstSync = readOn
  BY WeekAssumption DEF Elapsed, CourseWeeks, WeekTypes
<1>2. ASSUME NEW r \in PlacesOf(p)
      PROVE  /\ r.of = p /\ r.from \in Nat /\ firstSync # 0 /\ listed[p] <= r.from
             /\ EnrolledFrom(r) = IF r.from > firstSync THEN r.from ELSE 0
  <2>1. r \in places /\ r \in PlaceRow /\ r.of = p /\ r.begins = 0 /\ firstSync # 0
    BY DEF PlacesOf, WeekTypes
  <2> QED  BY <2>1, PlaceShape DEF EnrolledFrom, ListedFirst
<1>3. listed[p] \in Nat /\ seen[p] \in Nat /\ firstSync \in Nat /\ ClosesOn(w) \in Nat
  BY <1>1, Windows DEF ListedFirst, WeekTypes
<1>4. ASSUME w \in Credited(p) PROVE listed[p] <= ClosesOn(w) \/ listed[p] <= readOn
  <2>1. PICK r \in PlacesOf(p), v \in 1..w : ClosesOn(v) >= EnrolledFrom(r)
    BY <1>4 DEF Credited, BeganBy
  <2>2. ClosesOn(v) \in Nat /\ ClosesOn(v) <= ClosesOn(w)
    BY <1>1, Windows
  <2>3. CASE r.from > firstSync
    BY <1>2, <1>3, <2>1, <2>2, <2>3
  <2>4. CASE ~ (r.from > firstSync)
    BY <1>1, <1>2, <1>3, <2>4
  <2> QED  BY <2>3, <2>4
<1>5. ASSUME w \notin Credited(p), seen[p] # 0 PROVE seen[p] > ClosesOn(w) /\ seen[p] # readOn
  <2>1. PICK r \in PlacesOf(p) : r.from <= seen[p]
    BY <1>5 DEF ListedFirst
  <2>2. ~ (ClosesOn(w) >= EnrolledFrom(r))
    BY <1>1, <1>5 DEF Credited, BeganBy
  <2>3. r.from > firstSync /\ EnrolledFrom(r) = r.from
    BY <1>2, <1>3, <2>2
  <2> QED  BY <1>1, <1>2, <1>3, <2>1, <2>2, <2>3
<1> QED  BY <1>4, <1>5

(* A student the platform dates nowhere owes a closed week exactly if they *)
(* were listed by its close or by the first walk that read anything.       *)
THEOREM LateAddsAloneAreExcused == WeeksSpec => []OnlyLateAddsAreExcused
<1>1. WeeksInit => ListedInv
  BY WeeksBegin
<1>2. ListedInv /\ [WeeksNext]_weekVars => ListedInv'
  BY WeekTypesKept, ListedStaysFirst DEF ListedInv
<1>3. ListedInv => OnlyLateAddsAreExcused
  BY ListedSays
<1> QED  BY <1>1, <1>2, <1>3, PTL DEF WeeksSpec

(* A place stays, begun on the day it was, and the first sync with it.     *)
LEMMA PlacesStay ==
  ASSUME WeekTypes, [WeeksNext]_weekVars, NEW r \in places
  PROVE  /\ firstSync # 0 /\ firstSync' = firstSync
         /\ \E q \in places' : q.of = r.of /\ q.from = r.from
<1>0. firstSync # 0
  BY DEF WeekTypes
<1>1. ASSUME NEW n \in 0..Pages, Pull(n)
      PROVE  firstSync' = firstSync /\ \E q \in places' : q.of = r.of /\ q.from = r.from
  <2>1. firstSync' = firstSync
    BY <1>0, <1>1, SyncStays
  <2>2. CASE n = 0
    BY <1>1, <2>1, <2>2 DEF Pull
  <2>3. CASE n # 0
    <3>1. PICK q \in PlacesAfter(n) : /\ q.of = r.of /\ q.from = r.from
                                      /\ q = r \/ (r.to = 0 /\ q \in Kept(n))
      BY RowsStay, Zenon
    <3> QED  BY <1>1, <2>1, <2>3, <3>1 DEF Pull
  <2> QED  BY <2>2, <2>3
<1>2. NextDay => UNCHANGED <<firstSync, places>>
  BY DEF NextDay
<1>3. ASSUME NEW p \in Pupils, NEW said \in Sayings[p], PlatformSays(p, said)
      PROVE  UNCHANGED <<firstSync, places>>
  BY <1>3 DEF PlatformSays
<1>4. ASSUME NEW p \in Pupils, NEW w \in CourseWeeks, RefuseComment(p, w)
      PROVE  UNCHANGED <<firstSync, places>>
  BY <1>4 DEF RefuseComment
<1>5. ASSUME NEW p \in Pupils, NEW w \in CourseWeeks, NEW n \in 1..Items, Submit(p, w, n)
      PROVE  UNCHANGED <<firstSync, places>>
  BY <1>5 DEF Submit
<1>6. UNCHANGED weekVars => UNCHANGED <<firstSync, places>>
  BY DEF weekVars
<1> QED  BY <1>0, <1>1, <1>2, <1>3, <1>4, <1>5, <1>6 DEF WeeksNext

(* What was answered in a week that has closed can only be refused.        *)
LEMMA ClosedWeeksFall ==
  ASSUME WeekTypes, [WeeksNext]_weekVars, NEW p \in Pupils, NEW w \in Elapsed
  PROVE  w \in Elapsed' /\ items'[p][w] <= items[p][w]
<1>0. /\ w \in CourseWeeks /\ ClosesOn(w) \in Nat /\ ClosesOn(w) < today /\ today \in Nat
      /\ items[p][w] \in Int
  <2>1. w \in CourseWeeks /\ ClosesOn(w) < today
    BY DEF Elapsed
  <2>2. w \in 1..w
    BY <2>1, WeekAssumption DEF CourseWeeks
  <2>3. ClosesOn(w) \in Nat
    BY <2>1, <2>2, Windows
  <2> QED  BY <2>1, <2>3 DEF WeekTypes
<1>1. CASE NextDay
  BY <1>0, <1>1 DEF NextDay, Elapsed
<1>2. ASSUME NEW n \in 0..Pages, Pull(n) PROVE UNCHANGED <<today, items>>
  BY <1>2 DEF Pull
<1>3. ASSUME NEW q \in Pupils, NEW said \in Sayings[q], PlatformSays(q, said)
      PROVE  UNCHANGED <<today, items>>
  BY <1>3 DEF PlatformSays
<1>4. ASSUME NEW q \in Pupils, NEW v \in CourseWeeks, RefuseComment(q, v)
      PROVE  today' = today /\ items'[p][w] <= items[p][w]
  <2>1. PICK c \in Int : c = items[q][v] - 1
    BY DEF WeekTypes
  <2>2. items' = [items EXCEPT ![q][v] = c] /\ today' = today
    BY <1>4, <2>1 DEF RefuseComment
  <2>3. \A x \in Pupils : \A u \in CourseWeeks :
          items'[x][u] = IF x = q /\ u = v THEN c ELSE items[x][u]
    BY <2>2, ItemsAfter
  <2> QED  BY <1>0, <2>1, <2>2, <2>3
<1>5. ASSUME NEW q \in Pupils, NEW v \in CourseWeeks, NEW n \in 1..Items, Submit(q, v, n)
      PROVE  today' = today /\ items'[p][w] <= items[p][w]
  <2>1. n \in Int
    BY WeekAssumption
  <2>2. items' = [items EXCEPT ![q][v] = n] /\ today' = today /\ today <= ClosesOn(v)
    BY <1>5 DEF Submit
  <2>3. \A x \in Pupils : \A u \in CourseWeeks :
          items'[x][u] = IF x = q /\ u = v THEN n ELSE items[x][u]
    BY <2>1, <2>2, ItemsAfter
  <2>4. v # w
    BY <1>0, <2>2
  <2> QED  BY <1>0, <2>2, <2>3, <2>4
<1>6. CASE UNCHANGED weekVars
  BY <1>0, <1>6 DEF weekVars, Elapsed
<1> QED  BY <1>0, <1>1, <1>2, <1>3, <1>4, <1>5, <1>6 DEF WeeksNext, Elapsed

LEMMA LedgerMovesOn ==
  ASSUME WeekTypes, [WeeksNext]_weekVars, NEW p \in Pupils, ~ Redated(p),
         NEW w \in DOMAIN Ledger(p)
  PROVE  w \in DOMAIN Ledger(p)' /\ Ledger(p)'[w] <= Ledger(p)[w]
<1>1. w \in Credited(p) /\ Ledger(p)[w] = items[p][w]
  BY DEF Ledger
<1>2. w \in Elapsed' /\ items'[p][w] <= items[p][w]
  BY <1>1, ClosedWeeksFall DEF Credited
<1>3. PICK r \in PlacesOf(p), v \in 1..w : BeganBy(r, v)
  BY <1>1 DEF Credited
<1>4. r \in places /\ r.of = p
  BY DEF PlacesOf
<1>5. /\ firstSync' = firstSync
      /\ \E q \in places' : q.of = r.of /\ q.from = r.from
  BY <1>4, PlacesStay
<1>6. PICK q \in places' : q.of = r.of /\ q.from = r.from
  BY <1>5
<1>7. q \in PlacesOf(p)'
  BY <1>4, <1>6 DEF PlacesOf
<1>8. q.begins = r.begins
  BY <1>6, <1>7 DEF Redated
<1>9. ClosesOn(v) >= EnrolledFrom(q)'
  BY <1>3, <1>5, <1>6, <1>8 DEF BeganBy, EnrolledFrom
<1>10. w \in Credited(p)'
  BY <1>2, <1>7, <1>9 DEF Credited, BeganBy
<1> QED  BY <1>1, <1>2, <1>10 DEF Ledger

(* No step takes a week off a ledger or gives more for a closed one,       *)
(* unless the platform dates a place anew: a pair of a score and its total *)
(* does not come back.                                                     *)
THEOREM LedgersOnlyMoveOn == WeeksSpec => LedgersMoveOn
<1>1. WeeksInit => WeekTypes
  BY WeeksBegin DEF CountedInv
<1>2. WeekTypes /\ [WeeksNext]_weekVars => WeekTypes'
  BY WeekTypesKept
<1>3. WeekTypes /\ [WeeksNext]_weekVars =>
        [\A p \in Pupils : Redated(p) \/
            \A w \in DOMAIN Ledger(p) :
                w \in DOMAIN Ledger(p)' /\ Ledger(p)'[w] <= Ledger(p)[w]]_weekVars
  BY LedgerMovesOn
<1> QED  BY <1>1, <1>2, <1>3, PTL DEF WeeksSpec, LedgersMoveOn

-----------------------------------------------------------------------------
(* BenchmarkSeal.                                                          *)

(* A set of sections about which there is nothing to protect.              *)
Thick(X) == LET counts == Contributors(X) IN counts.respondents = 0 \/ Clears(counts)

(* What was shown was a population at one of her reports, and each of what *)
(* its readers would have left was thick.                                  *)
ShownClear(p, X) ==
  \E t \in Known(p) \cap ThisTerm :
    \/ X = DefaultSet(t) /\ \A Z \in DefaultRemainders(p, t) : Thick(Z)
    \/ X = University /\ \A Z \in UniversityRemainders(p, t) : Thick(Z)

FiguresClear ==
  /\ turnout \in [Comparable -> Nat]
  /\ DOMAIN figures = Readers
  /\ \A p \in Readers : \A X \in figures[p] : ShownClear(p, X)

(* Counting a part counts no more than counting the whole.                 *)
LEMMA ContributorsGrow ==
  ASSUME SealAssumption, turnout \in [Comparable -> Nat],
         NEW X \in SUBSET Comparable, NEW Y \in SUBSET X
  PROVE  /\ Contributors(X).sections \in Nat /\ Contributors(X).respondents \in Nat
         /\ Contributors(Y).sections <= Contributors(X).sections
         /\ Contributors(Y).respondents <= Contributors(X).respondents
<1>1. IsFiniteSet(X) /\ IsFiniteSet(Y) /\ \A x \in X : turnout[x] \in Nat
  BY FS_Subset DEF SealAssumption
<1>2. SumFunctionOnSet(turnout, X) \in Nat /\ SumFunctionOnSet(turnout, Y) <= SumFunctionOnSet(turnout, X)
  BY <1>1, SumGrows, SumTakesOut
<1>3. ASSUME NEW Z \in {X, Y}
      PROVE  Contributors(Z).sections = Cardinality({s \in Z : turnout[s] > 0})
             /\ Contributors(Z).respondents = SumFunctionOnSet(turnout, Z)
  BY DEF Contributors
<1>4. {s \in Y : turnout[s] > 0} \subseteq {s \in X : turnout[s] > 0}
  OBVIOUS
<1>5. IsFiniteSet({s \in X : turnout[s] > 0})
  BY <1>1, FS_Subset
<1>6. Cardinality({s \in X : turnout[s] > 0}) \in Nat
      /\ Cardinality({s \in Y : turnout[s] > 0}) <= Cardinality({s \in X : turnout[s] > 0})
  BY <1>4, <1>5, FS_Subset, FS_CardinalityType
<1> QED  BY <1>2, <1>3, <1>6

(* What holds enough people besides its thick part is thick.               *)
LEMMA ThickGrows ==
  ASSUME SealAssumption, turnout \in [Comparable -> Nat],
         NEW X \in SUBSET Comparable, NEW Y \in SUBSET X, Thick(Y),
         NEW s \in Y, turnout[s] > 0
  PROVE  Thick(X)
<1>1. Contributors(Y).respondents # 0
  <2>1. IsFiniteSet(Y) /\ \A x \in Y : turnout[x] \in Nat
    BY FS_Subset DEF SealAssumption
  <2>2. SumFunctionOnSet(turnout, Y) # 0
    BY <2>1, SumZero
  <2> QED  BY <2>2 DEF Contributors
<1>2. Clears(Contributors(Y))
  BY <1>1 DEF Thick
<1>3. /\ Contributors(X).sections \in Nat /\ Contributors(X).respondents \in Nat
      /\ Contributors(Y).sections \in Nat /\ Contributors(Y).respondents \in Nat
      /\ Contributors(Y).sections <= Contributors(X).sections
      /\ Contributors(Y).respondents <= Contributors(X).respondents
  BY ContributorsGrow
<1>4. MinSections \in Nat /\ MinRespondents \in Nat
  BY DEF SealAssumption
<1>5. Clears(Contributors(X))
  BY <1>2, <1>3, <1>4 DEF Clears
<1> QED  BY <1>5 DEF Thick

LEMMA LeastOfSome ==
  ASSUME NEW S, S \subseteq Nat, NEW x \in S
  PROVE  Min(S) \in Nat /\ Min(S) <= x
<1>1. \E m \in S : \A y \in S : m <= y
  BY LeastNat
<1>2. Min(S) \in S /\ \A y \in S : Min(S) <= y
  BY <1>1 DEF Min
<1> QED  BY <1>2

(* The tightest counts clear only where each remainder is thick.           *)
LEMMA TightestIsTight ==
  ASSUME SealAssumption, turnout \in [Comparable -> Nat],
         NEW X \in SUBSET Comparable, NEW R, R \subseteq SUBSET Comparable,
         Clears(Tightest(X, R)), NEW Z \in R
  PROVE  Thick(Z)
<1> SUFFICES ASSUME Contributors(Z).respondents # 0 PROVE Clears(Contributors(Z))
  BY DEF Thick
<1> DEFINE counted == {Contributors(Y) :
                      Y \in {X} \cup {W \in R : Contributors(W).respondents > 0}}
           A == {c.sections : c \in counted}
           B == {c.respondents : c \in counted}
<1>1. ASSUME NEW Y \in SUBSET Comparable
      PROVE  Contributors(Y).sections \in Nat /\ Contributors(Y).respondents \in Nat
  BY ContributorsGrow
<1>2. Contributors(Z) \in counted
  BY <1>1
<1>3. \A c \in counted : c.sections \in Nat /\ c.respondents \in Nat
  BY <1>1
<1> HIDE DEF counted
<1>4. A \subseteq Nat /\ B \subseteq Nat /\ Contributors(Z).sections \in A
      /\ Contributors(Z).respondents \in B
  BY <1>2, <1>3
<1> HIDE DEF A, B
<1>5. Min(A) \in Nat /\ Min(A) <= Contributors(Z).sections
      /\ Min(B) \in Nat /\ Min(B) <= Contributors(Z).respondents
  BY <1>4, LeastOfSome
<1>6. Tightest(X, R) = [sections |-> Min(A), respondents |-> Min(B)]
  BY DEF Tightest, A, B, counted
<1>7. Min(A) >= MinSections /\ Min(B) >= MinRespondents
  BY <1>6 DEF Clears
<1>8. MinSections \in Nat /\ MinRespondents \in Nat
  BY DEF SealAssumption
<1> QED  BY <1>1, <1>4, <1>5, <1>7, <1>8 DEF Clears

(* A reader subtracts her own sections at each of her reports.             *)
LEMMA HersAreKnown ==
  ASSUME NEW p, NEW t
  PROVE  /\ DefaultSet(t) \ Known(p) \in DefaultRemainders(p, t)
         /\ (University \ Known(p)) \ UNION LeadSetsSeen(Known(p)) \in UniversityRemainders(p, t)
         /\ \A u \in Known(p) \cap ThisTerm :
              DefaultSet(u) \ Known(p) \in UniversityRemainders(p, t)
<1>1. Known(p) \in KnownByReader(p, t)
  BY DEF KnownByReader
<1>2. \A u \in Known(p) \cap ThisTerm : DefaultSet(u) \in LeadSetsSeen(Known(p))
  BY DEF LeadSetsSeen
<1> DEFINE left(hers) == {University \ hers, (University \ hers) \ UNION LeadSetsSeen(hers)}
                           \cup {D \ hers : D \in LeadSetsSeen(hers)}
<1>3. left(Known(p)) \subseteq UniversityRemainders(p, t)
  BY <1>1 DEF UniversityRemainders
<1>4. (University \ Known(p)) \ UNION LeadSetsSeen(Known(p)) \in left(Known(p))
  OBVIOUS
<1>5. \A u \in Known(p) \cap ThisTerm : DefaultSet(u) \ Known(p) \in left(Known(p))
  BY <1>2
<1>6. DefaultSet(t) \ Known(p) \in DefaultRemainders(p, t)
  BY <1>1 DEF DefaultRemainders
<1> QED  BY <1>3, <1>4, <1>5, <1>6

(* Whatever she adds and subtracts, and however often: where somebody      *)
(* answered in what is left, a whole remainder one of her figures was      *)
(* sealed against is in it.                                                *)
LEMMA WhatSheComputesIsThick ==
  ASSUME SealAssumption, FiguresClear, NEW p \in Readers, NEW k, DOMAIN k = figures[p]
  PROVE  Thick(LeftOver(k, p))
<1> DEFINE L == LeftOver(k, p)
<1> SUFFICES ASSUME Contributors(L).respondents # 0 PROVE Thick(L)
  BY DEF Thick
<1>1. L \subseteq Comparable \ Known(p) /\ turnout \in [Comparable -> Nat]
  BY DEF LeftOver, FiguresClear
<1>2. PICK s \in L : turnout[s] > 0
  <2>1. IsFiniteSet(L) /\ \A x \in L : turnout[x] \in Nat
    BY <1>1, FS_Subset DEF SealAssumption
  <2>2. SumFunctionOnSet(turnout, L) # 0
    BY DEF Contributors
  <2> HIDE DEF L
  <2>3. PICK s \in L : turnout[s] # 0
    BY <2>1, <2>2, SumZero
  <2> QED  BY <2>1, <2>3
<1>3. s \in Comparable \ Known(p) /\ Weight(k, s) # 0
  BY <1>2 DEF LeftOver
<1>4. ASSUME NEW m \in Comparable \ Known(p), \A X \in figures[p] : m \in X <=> s \in X
      PROVE  m \in L
  <2>1. {X \in DOMAIN k : m \in X} = {X \in DOMAIN k : s \in X}
    BY <1>4
  <2>2. Weight(k, m) = Weight(k, s)
    BY <2>1 DEF Weight
  <2> QED  BY <1>3, <2>2 DEF LeftOver
<1>5. ASSUME NEW m \in Comparable \ Known(p), leading[m] = leading[s], NEW t \in Known(p)
      PROVE  m \in DefaultSet(t) <=> s \in DefaultSet(t)
  BY <1>3, <1>5 DEF DefaultSet
<1>6. \A X \in figures[p] : ShownClear(p, X)
  BY DEF FiguresClear
<1>7. ASSUME NEW m \in Comparable \ Known(p), leading[m] = leading[s] PROVE m \in L
  <2>1. ASSUME NEW X \in figures[p] PROVE m \in X <=> s \in X
    BY <1>3, <1>5, <1>6, <1>7 DEF ShownClear, University
  <2> QED  BY <1>4, <2>1
<1>8. ASSUME NEW t \in Known(p), s \in DefaultSet(t), Thick(DefaultSet(t) \ Known(p)) PROVE Thick(L)
  <2>1. DefaultSet(t) \ Known(p) \subseteq L
    BY <1>3, <1>7, <1>8 DEF DefaultSet
  <2>2. s \in DefaultSet(t) \ Known(p)
    BY <1>3, <1>8
  <2> HIDE DEF L
  <2> QED  BY <1>1, <1>2, <1>8, <2>1, <2>2, ThickGrows
<1>9. PICK F \in figures[p] : s \in F
  <2>1. ASSUME {X \in DOMAIN k : s \in X} = {} PROVE FALSE
    <3>1. SumFunctionOnSet(k, {}) = 0
      BY SumIs, FS_EmptySet
    <3>2. Weight(k, s) = 0
      BY <2>1, <3>1 DEF Weight
    <3> QED  BY <1>3, <3>2
  <2> QED  BY <2>1
<1>10. PICK t \in Known(p) \cap ThisTerm :
         \/ F = DefaultSet(t) /\ \A Z \in DefaultRemainders(p, t) : Thick(Z)
         \/ F = University /\ \A Z \in UniversityRemainders(p, t) : Thick(Z)
  BY <1>6 DEF ShownClear
<1>11. CASE F = DefaultSet(t) /\ \A Z \in DefaultRemainders(p, t) : Thick(Z)
  BY <1>8, <1>9, <1>11, HersAreKnown
<1>12. CASE F = University /\ \A Z \in UniversityRemainders(p, t) : Thick(Z)
  <2>1. CASE \E u \in Known(p) \cap ThisTerm : s \in DefaultSet(u)
    BY <1>8, <1>12, <2>1, HersAreKnown
  <2>2. CASE \A u \in Known(p) \cap ThisTerm : s \notin DefaultSet(u)
    <3> DEFINE Z == (University \ Known(p)) \ UNION LeadSetsSeen(Known(p))
    <3>1. Thick(Z)
      BY <1>12, HersAreKnown
    <3>2. s \in Z /\ Z \subseteq Comparable \ Known(p)
      BY <1>3, <2>2 DEF University, LeadSetsSeen
    <3>3. ASSUME NEW m \in Z PROVE m \in L
      <4>1. \A u \in Known(p) \cap ThisTerm : m \notin DefaultSet(u)
        BY DEF LeadSetsSeen
      <4>2. \A X \in figures[p] : m \in X <=> s \in X
        BY <1>3, <1>6, <2>2, <3>2, <4>1 DEF ShownClear, University
      <4> QED  BY <1>4, <3>2, <4>2
    <3> HIDE DEF Z, L
    <3> QED  BY <1>1, <1>2, <3>1, <3>2, <3>3, ThickGrows
  <2> QED  BY <2>1, <2>2
<1> QED  BY <1>10, <1>11, <1>12

LEMMA FiguresBegin == ASSUME SealAssumption, SealInit PROVE FiguresClear
BY DEF SealAssumption, SealInit, FiguresClear

LEMMA ReportShows ==
  ASSUME SealAssumption, FiguresClear, NEW p \in Readers, NEW s \in Known(p) \cap ThisTerm,
         NEW X \in ShownBeside(p, s)
  PROVE  ShownClear(p, X)
<1>1. \A m : DefaultSet(m) \in SUBSET Comparable
  BY DEF DefaultSet
<1>2. University \in SUBSET Comparable
  BY DEF University
<1>3. DefaultRemainders(p, s) \subseteq SUBSET Comparable
  BY <1>1 DEF DefaultRemainders
<1>4. UniversityRemainders(p, s) \subseteq SUBSET Comparable
  BY <1>1 DEF UniversityRemainders, University, LeadSetsSeen
<1>5. turnout \in [Comparable -> Nat]
  BY DEF FiguresClear
<1>6. CASE X = DefaultSet(s) /\ Clears(Tightest(X, DefaultRemainders(p, s)))
  BY <1>1, <1>3, <1>5, <1>6, TightestIsTight DEF ShownClear
<1>7. CASE X = University /\ Clears(Tightest(X, UniversityRemainders(p, s)))
  BY <1>2, <1>4, <1>5, <1>7, TightestIsTight DEF ShownClear
<1> QED  BY <1>6, <1>7 DEF ShownBeside

(* What a figure says of its readers does not change: who teaches and      *)
(* leads what, and the frozen counts, are fixed here.                      *)
LEMMA ShownStaysClear ==
  ASSUME UNCHANGED <<leading, teaches, purview, turnout>>, NEW p, NEW X
  PROVE  ShownClear(p, X)' <=> ShownClear(p, X)
<1>1. /\ \A q : Known(q)' = Known(q)
      /\ \A t : DefaultSet(t)' = DefaultSet(t)
      /\ University' = University
  BY DEF Known, DefaultSet, University
<1>2. ASSUME NEW Z PROVE Thick(Z)' <=> Thick(Z)
  <2>1. {s \in Z : turnout[s] > 0}' = {s \in Z : turnout[s] > 0}
    OBVIOUS
  <2>2. SumFunctionOnSet(turnout', Z) = SumFunctionOnSet(turnout, Z)
    OBVIOUS
  <2>3. Contributors(Z)' = Contributors(Z)
    BY <2>1, <2>2 DEF Contributors
  <2> QED  BY <2>3 DEF Thick, Clears
<1>3. \A t : KnownByReader(p, t)' = KnownByReader(p, t)
  BY <1>1 DEF KnownByReader, Known
<1>4. \A hers : LeadSetsSeen(hers)' = LeadSetsSeen(hers)
  BY <1>1 DEF LeadSetsSeen
<1>5. \A t : DefaultRemainders(p, t)' = DefaultRemainders(p, t)
  BY <1>1, <1>3 DEF DefaultRemainders
<1>6. \A t : UniversityRemainders(p, t)' = UniversityRemainders(p, t)
  BY <1>1, <1>3, <1>4 DEF UniversityRemainders
<1> QED  BY <1>1, <1>2, <1>5, <1>6 DEF ShownClear

LEMMA FiguresStayClear ==
  ASSUME SealAssumption, FiguresClear, [SealNext]_sealVars PROVE FiguresClear'
<1>1. UNCHANGED <<leading, teaches, purview, turnout>>
  BY DEF SealNext, OpenReport, sealVars
<1>2. turnout' \in [Comparable -> Nat] /\ DOMAIN figures' = Readers
  BY <1>1 DEF FiguresClear, SealNext, OpenReport, sealVars
<1>3. ASSUME NEW p \in Readers, NEW X \in figures'[p] PROVE ShownClear(p, X)
  <2>1. CASE X \in figures[p]
    BY <2>1 DEF FiguresClear
  <2>2. CASE X \notin figures[p]
    <3>1. PICK q \in Readers, s \in Comparable : OpenReport(q, s)
      BY <1>3, <2>2 DEF SealNext, sealVars
    <3>2. p = q /\ X \in ShownBeside(p, s) /\ s \in Known(p) \cap ThisTerm
      BY <1>3, <2>2, <3>1 DEF OpenReport, FiguresClear
    <3> QED  BY <3>2, ReportShows
  <2> QED  BY <2>1, <2>2
<1>4. \A p \in Readers : \A X \in figures'[p] : ShownClear(p, X)'
  BY <1>1, <1>3, ShownStaysClear
<1> QED  BY <1>2, <1>4 DEF FiguresClear

(* However many reports a reader opens and whatever she subtracts, a       *)
(* number she can compute about sections not hers is about nobody or about *)
(* enough sections and enough people: for every way of leading and of      *)
(* teaching, however many sections and whatever the two minimums.          *)
THEOREM NothingThinIsComputed == SealSpec => []NothingThinCanBeComputed
<1>1. SealInit => FiguresClear
  BY FiguresBegin, SealAssumption
<1>2. FiguresClear /\ [SealNext]_sealVars => FiguresClear'
  BY FiguresStayClear, SealAssumption
<1>3. FiguresClear => NothingThinCanBeComputed
  <2> SUFFICES ASSUME FiguresClear, NEW p \in Readers, NEW k \in Combinations(p)
               PROVE  Thick(LeftOver(k, p))
    BY DEF NothingThinCanBeComputed, Thick
  <2>1. DOMAIN k = figures[p]
    BY DEF Combinations
  <2> QED  BY <2>1, WhatSheComputesIsThick, SealAssumption
<1> QED  BY <1>1, <1>2, <1>3, PTL DEF SealSpec

=============================================================================
