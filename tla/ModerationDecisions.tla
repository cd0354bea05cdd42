------------------------ MODULE ModerationDecisions ------------------------
(***************************************************************************)
(* The decisions about the comments of one published section-week, and the *)
(* weekly summaries that must not outlive them.                            *)
(*                                                                         *)
(* A decision is a row of an append-only log.  The instructor excludes,    *)
(* keeps and undoes from the report; a leader decides what the queue       *)
(* shows.  Each decision is one transaction under an advisory lock on its  *)
(* comment, so its row is judged against the row it replaces.  The         *)
(* sequence of a row is drawn when it is inserted, not when it commits.    *)
(*                                                                         *)
(* The summary walk takes no lock.  It keeps the greatest sequence it saw  *)
(* beside each summary it stores, and the readers above the instructor are *)
(* given a summary only when no removal is later than that.                *)
(***************************************************************************)
EXTENDS Integers, FiniteSets, Sequences, FiniteSetsExt

CONSTANTS
  Comments,      \* the comments of the section-week, all on the report
  Instructors,   \* who teaches the section
  Leaders,       \* who reviews the course and never taught the section
  LeadingAs,     \* [Leaders -> the role of the grant that covers the course]
  Slots,         \* requests in progress at one time
  ReportStreams, \* REPORT_STREAMS, in order
  StreamOf,      \* [Comments -> the stream of the comment's question]
  Walkers,       \* worker processes that may run the summary walk
  Nobody,        \* the decider of a row the moderation sweep routed
  Flaggings,     \* what the sweep may have made of the comments
  MaxDecisions   \* bound: decision rows drawn from the identity column

Streams == {ReportStreams[i] : i \in DOMAIN ReportStreams}

People == Instructors \cup Leaders

ASSUME DecisionAssumption ==
  /\ IsFiniteSet(Comments) /\ IsFiniteSet(Slots)
  /\ Instructors \cap Leaders = {}
  /\ Nobody \notin People
  /\ LeadingAs \in [Leaders -> {"LEAD_FACULTY", "CHAIR"}]
  /\ ReportStreams \in Seq(Streams) /\ IsInjective(ReportStreams)
  /\ StreamOf \in [Comments -> Streams]
  /\ Flaggings \subseteq [Comments -> {"none", "harmful", "privacy"}]
  /\ MaxDecisions \in Nat

VARIABLES
  flag,      \* [Comments -> the MODERATION verdict that flagged it, or none]
  log,       \* committed moderation_state rows
  next,      \* the next value of moderation_state.sequence
  deciding,  \* [Slots -> the uncommitted row of a request, at most one]
  walk,      \* [Walkers -> a run of the summary walk]
  summaries, \* committed weekly_summary rows
  raced      \* history: a decision committed past an open one it had overtaken

decisionVars == <<flag, log, next, deciding, walk, summaries, raced>>

-----------------------------------------------------------------------------
(* Types. *)

States == {"PUBLISHED", "FLAGGED_COLLAPSED", "EXCLUDED", "KEPT"}

(* HELD_MODERATION_STATES: neither summarized nor read by a student. *)
Held == {"FLAGGED_COLLAPSED", "EXCLUDED"}

DeciderRoles == {"INSTRUCTOR", "LEAD_FACULTY", "CHAIR"}

Row == [seq : Nat, comment : Comments, state : States, by : People \cup {Nobody},
        as : DeciderRoles \cup {"router"}, undo : BOOLEAN]

Summary == [stream : Streams, seen : Nat, carried : SUBSET Comments,
            walker : Walkers]

Run == [stage : {"idle", "listed", "reading"}, seen : Nat, drawn : SUBSET Summary]

NoRun == [stage |-> "idle", seen |-> 0, drawn |-> {}]

-----------------------------------------------------------------------------
(* The log. *)

FlaggedBy(f) == {c \in Comments : f[c] # "none"}

RowsOf(c, R) == {r \in R : r.comment = c}

Newest(R) == CHOOSE r \in R : \A q \in R : q.seq <= r.seq

(* reported_status_of: the newest row, and PUBLISHED where there is none. *)
StateIn(R) == IF R = {} THEN "PUBLISHED" ELSE Newest(R).state

StateOf(c) == StateIn(RowsOf(c, log))

Excludable == {"PUBLISHED", "FLAGGED_COLLAPSED", "KEPT"}

Keepable == {"FLAGGED_COLLAPSED", "EXCLUDED"}

(* What an action by person p under role a leaves of a comment whose rows   *)
(* are R; a refused action leaves nothing.                                  *)
Exclusion(R) == IF StateIn(R) \in Excludable THEN {"EXCLUDED"} ELSE {}

Keeping(R) == IF StateIn(R) \in Keepable THEN {"KEPT"} ELSE {}

(* Mutant: anybody takes back whatever stands. *)
RestoreAnybodys(R, p, a) ==
  IF R # {} /\ ~ Newest(R).undo THEN {StateIn(R \ {Newest(R)})} ELSE {}

(* An undo takes back the newest row, when it is the person's own decision  *)
(* under the same role and no undo itself.                                  *)
Restored(R, p, a) ==
  IF /\ R # {}
     /\ ~ Newest(R).undo
     /\ Newest(R).by = p
     /\ Newest(R).as = a
  THEN {StateIn(R \ {Newest(R)})}
  ELSE {}

Outcome(R, action, p, a) ==
  CASE action = "exclude" -> Exclusion(R)
    [] action = "keep" -> Keeping(R)
    [] action = "undo" -> Restored(R, p, a)

(* _queue_select: harmful and still collapsed. *)
InQueue(c) == flag[c] = "harmful" /\ StateOf(c) = "FLAGGED_COLLAPSED"

-----------------------------------------------------------------------------
(* A decision.  Of what a request reads before it has the comment's lock,   *)
(* the report card and the grant that covers the course, nothing that bears *)
(* on the outcome changes; the rest it reads under the lock, where nobody   *)
(* adds to the comment's rows.  So a request is its uncommitted row.        *)

HasLock(s, c) == \E r \in deciding[s] : r.comment = c

Roles(p) == IF p \in Instructors THEN {"INSTRUCTOR"} ELSE {LeadingAs[p]}

(* Leaders have no undo. *)
ActionsOf(p) == IF p \in Instructors THEN {"exclude", "keep", "undo"}
                ELSE {"exclude", "keep"}

(* Mutant: what the queue showed when it was read is still in it. *)
TrustsTheQueue(p, c) == p \in Leaders => flag[c] = "harmful"

(* A leader's comment is looked up in the queue again, under the lock. *)
MayDecide(p, c) == p \in Leaders => InQueue(c)

Written(c, p, a, action) ==
  {[seq |-> next, comment |-> c, state |-> state, by |-> p, as |-> a,
    undo |-> action = "undo"] :
     state \in Outcome(RowsOf(c, log), action, p, a)}

(* Mutant: two decisions about one comment go on side by side. *)
RecordUnlocked(s) ==
  /\ deciding[s] = {}
  /\ next <= Cardinality(FlaggedBy(flag)) + MaxDecisions
  /\ \E c \in Comments, p \in People :
       /\ MayDecide(p, c)
       /\ \E a \in Roles(p), action \in ActionsOf(p) :
            /\ Written(c, p, a, action) # {}
            /\ deciding' = [deciding EXCEPT ![s] = Written(c, p, a, action)]
  /\ next' = next + 1
  /\ UNCHANGED <<flag, log, walk, summaries, raced>>

(* The lock, the queue, the newest rows and the insert. *)
Record(s) ==
  /\ deciding[s] = {}
  /\ next <= Cardinality(FlaggedBy(flag)) + MaxDecisions
  /\ \E c \in Comments, p \in People :
       /\ \A t \in Slots : ~ HasLock(t, c)
       /\ MayDecide(p, c)
       /\ \E a \in Roles(p), action \in ActionsOf(p) :
            /\ Written(c, p, a, action) # {}
            /\ deciding' = [deciding EXCEPT ![s] = Written(c, p, a, action)]
  /\ next' = next + 1
  /\ UNCHANGED <<flag, log, walk, summaries, raced>>

(* The process dies before its commit: the row is gone, its sequence used.  *)
(* (A reason that is missing or too long is refused before the insert.)    *)
RollBack(s) ==
  /\ deciding[s] # {}
  /\ deciding' = [deciding EXCEPT ![s] = {}]
  /\ UNCHANGED <<flag, log, next, walk, summaries, raced>>

Overtaken(s) ==
  \E t \in Slots \ {s} : \E r \in deciding[t], q \in deciding[s] : r.seq < q.seq

CommitDecision(s) ==
  /\ deciding[s] # {}
  /\ log' = log \cup deciding[s]
  /\ raced' = (raced \/ Overtaken(s))
  /\ deciding' = [deciding EXCEPT ![s] = {}]
  /\ UNCHANGED <<flag, next, walk, summaries>>

-----------------------------------------------------------------------------
(* The summary walk. *)

(* The list: the week is closed and moderated, and has no summary. *)
StartWalk(w) ==
  /\ walk[w].stage = "idle"
  /\ summaries = {}
  /\ walk' = [walk EXCEPT ![w].stage = "listed"]
  /\ UNCHANGED <<flag, log, next, deciding, summaries, raced>>

(* latest_sequence_of: rows nobody decided count too. *)
LatestSequence == Max({r.seq : r \in log} \cup {0})

ReadSequence(w) ==
  /\ walk[w].stage = "listed"
  /\ walk' = [walk EXCEPT ![w].stage = "reading", ![w].seen = LatestSequence]
  /\ UNCHANGED <<flag, log, next, deciding, summaries, raced>>

Drawn(w) == Cardinality(walk[w].drawn)

(* The rows drawn so far are flushed by the next statement of the session. *)
Flushed(w) == Drawn(w) > 1

(* The unique key on section, week and stream makes a second writer wait.  *)
NoneInTheWay(w) == \A v \in Walkers \ {w} : ~ Flushed(v)

ReachTheModel(stream) == {c \in Comments : StreamOf[c] = stream /\ StateOf(c) \notin Held}

Draw(w) ==
  [stream |-> ReportStreams[Drawn(w) + 1], seen |-> walk[w].seen,
   carried |-> ReachTheModel(ReportStreams[Drawn(w) + 1]), walker |-> w]

(* Mutant: a stream's row is committed as soon as it is drawn. *)
SummarizeAndCommit(w) ==
  /\ walk[w].stage = "reading"
  /\ Drawn(w) < Len(ReportStreams)
  /\ walk' = [walk EXCEPT ![w].drawn = @ \cup {Draw(w)}]
  /\ summaries' = IF \E r \in summaries : r.stream = Draw(w).stream THEN summaries
                  ELSE summaries \cup {Draw(w)}
  /\ UNCHANGED <<flag, log, next, deciding, raced>>

(* One stream's comments as they stand now, through the model. *)
Summarize(w) ==
  /\ walk[w].stage = "reading"
  /\ Drawn(w) < Len(ReportStreams)
  /\ Drawn(w) > 0 => summaries = {} /\ NoneInTheWay(w)
  /\ walk' = [walk EXCEPT ![w].drawn = @ \cup {Draw(w)}]
  /\ UNCHANGED <<flag, log, next, deciding, summaries, raced>>

(* Mutant: the sequence is read when the summaries are written. *)
CommitAsOfNow(w) ==
  /\ walk[w].stage = "reading"
  /\ Drawn(w) = Len(ReportStreams)
  /\ summaries = {} /\ NoneInTheWay(w)
  /\ summaries' = {[r EXCEPT !.seen = LatestSequence] : r \in walk[w].drawn}
  /\ walk' = [walk EXCEPT ![w] = NoRun]
  /\ UNCHANGED <<flag, log, next, deciding, raced>>

CommitSummaries(w) ==
  /\ walk[w].stage = "reading"
  /\ Drawn(w) = Len(ReportStreams)
  /\ summaries = {} /\ NoneInTheWay(w)
  /\ summaries' = walk[w].drawn
  /\ walk' = [walk EXCEPT ![w] = NoRun]
  /\ UNCHANGED <<flag, log, next, deciding, raced>>

(* The gateway fails, a thin week's summary reuses a comment, another walk  *)
(* holds the key, or the worker dies: the section-week is rolled back.      *)
LeaveWeek(w) ==
  /\ walk[w].stage # "idle"
  /\ walk' = [walk EXCEPT ![w] = NoRun]
  /\ UNCHANGED <<flag, log, next, deciding, summaries, raced>>

(* latest_removal_into: of the rows somebody decided. *)
LatestRemoval ==
  Max({r.seq : r \in {q \in log : q.by # Nobody /\ q.state \in Held}} \cup {0})

(* What a reader above the instructor is given of the stored summaries. *)
ServedUpChain == {r \in summaries : r.seen >= LatestRemoval}

-----------------------------------------------------------------------------
(* The sweep has flagged the harmful and the private, each with one row. *)
RoutedRows(f) ==
  {g \in [FlaggedBy(f) -> 1..Cardinality(FlaggedBy(f))] :
     \A c, d \in FlaggedBy(f) : c # d => g[c] # g[d]}

DecisionInit ==
  /\ flag \in Flaggings
  /\ \E g \in RoutedRows(flag) :
       /\ log = {[seq |-> g[c], comment |-> c, state |-> "FLAGGED_COLLAPSED",
                  by |-> Nobody, as |-> "router", undo |-> FALSE] : c \in DOMAIN g}
       /\ next = Cardinality(DOMAIN g) + 1
  /\ deciding = [s \in Slots |-> {}]
  /\ walk = [w \in Walkers |-> NoRun]
  /\ summaries = {}
  /\ raced = FALSE

DecisionNext ==
  \/ \E s \in Slots : Record(s) \/ RollBack(s) \/ CommitDecision(s)
  \/ \E w \in Walkers : \/ StartWalk(w) \/ ReadSequence(w) \/ Summarize(w)
                        \/ CommitSummaries(w) \/ LeaveWeek(w)

DecisionSpec == DecisionInit /\ [][DecisionNext]_decisionVars

-----------------------------------------------------------------------------
(* Types. *)
DecisionTypeOK ==
  /\ flag \in Flaggings
  /\ log \subseteq Row
  /\ next \in Nat
  /\ deciding \in [Slots -> SUBSET Row]
  /\ walk \in [Walkers -> Run]
  /\ summaries \subseteq Summary
  /\ raced \in BOOLEAN

RowsBefore(r) == {q \in RowsOf(r.comment, log) : q.seq < r.seq}

(* However the requests overlapped, every exclusion and every keeping in    *)
(* the log was allowed from the state the row before it left, and an undo   *)
(* stands directly after a decision of the same person in the same role and *)
(* brings back the state that decision found.  A leader's row replaces a    *)
(* harmful flag nobody had decided on yet or that was put back in review:   *)
(* two leaders, or a leader and the instructor, never both decide about one *)
(* flag.                                                                    *)
DecisionsFollowTheLog ==
  \A r \in log : r.by # Nobody =>
    LET before == RowsBefore(r)
        last == Newest(before)
    IN  /\ r.by \in Leaders =>
             flag[r.comment] = "harmful" /\ StateIn(before) = "FLAGGED_COLLAPSED"
        /\ \/ ~ r.undo /\ r.state = "EXCLUDED" /\ StateIn(before) \in Excludable
           \/ ~ r.undo /\ r.state = "KEPT" /\ StateIn(before) \in Keepable
           \/ /\ r.undo /\ before # {}
              /\ last.by = r.by /\ last.as = r.as /\ ~ last.undo
              /\ r.state = StateIn(RowsBefore(last))

(* Unless two decisions raced in the way ADR 0206 accepts, no summary given *)
(* to a reader above the instructor was drawn from a comment that is        *)
(* removed now, whenever the removal fell during the walk.                  *)
ServedSummariesOmitTheRemoved ==
  ~ raced => \A r \in ServedUpChain, c \in Comments :
               c \in r.carried => StateOf(c) \notin Held

(* Overlapping and failing walks leave no summary or the whole of one       *)
(* walk's: one row per stream, all drawn against one sequence.              *)
SummariesAreOneWalks ==
  /\ summaries = {} \/ {r.stream : r \in summaries} = Streams
  /\ \A q, r \in summaries : /\ q.stream = r.stream => q = r
                             /\ q.walker = r.walker /\ q.seen = r.seen

=============================================================================
