--------------------------- MODULE MCClosedWeek ---------------------------
(* What happens to a week after its report opened: the decisions about its  *)
(* comments and its summaries, the answers to it, the figures it is         *)
(* compared with, and the rosters that say whose week it was.  No two of    *)
(* these share a variable, so a behaviour moves one of them and the others  *)
(* stay where they began: the run is the sum of their state spaces, not the *)
(* product.                                                                 *)
EXTENDS ModerationDecisions, ResponseLoop, BenchmarkSeal, EnrolledWeeks, TLC

CONSTANTS c1, c2, t1, l1, l2, h1, s1, s2, w1, w2, d1, d2, q1, q2, u1, u2

MCStreamOf == (c1 :> "COURSE") @@ (c2 :> "INSTRUCTOR")

MCReportStreams == <<"COURSE", "INSTRUCTOR">>

(* Two chairs of a course with no lead: both are given its queue. *)
MCLeadingAs == [l \in Leaders |-> "CHAIR"]

MCFlaggings == {(c1 :> "harmful") @@ (c2 :> "none")}

(* A week opens every fourth day; the longer week of the code only spreads  *)
(* the same comparisons out.                                                *)
MCOpensAt == [w \in 1..LastWeek |-> 2 * w - 1]

(* Six sections, the last of an earlier term; two leads, or one of them and *)
(* a course nobody leads.                                                   *)
MCLeadMaps == {<<l1, l2, l1, l1, l2, NoOne>>, <<l1, l2, l1, l1, l1, l2>>}

(* One reader teaches or leads up to three sections; a colleague teaches    *)
(* one of them and, or not, two others.                                     *)
MCGrants == {q1 :> mine @@ q2 :> hers :
               mine \in {{1}, {1, 2}}, hers \in {{2}, {2, 3, 6}}}

MCPurviews == {q1 :> mine @@ q2 :> {} : mine \in {{}, {2, 5}}}

MCTurnouts == [Comparable -> 0..2]

NothingRead ==
  /\ leading = <<l1, l2, l1, l1, l2, NoOne>>
  /\ teaches = [p \in Readers |-> {}]
  /\ purview = [p \in Readers |-> {}]
  /\ turnout = [s \in Comparable |-> 0]
  /\ figures = [p \in Readers |-> {}]

(* Two people at the door while the policy is switched once, or one while   *)
(* it is switched twice.                                                    *)
OneSwitch == Cardinality(policies' \cup switching') <= 1
OneDoor == door'[d2] = NoPassage

(* One pupil on either page.  The first, who answers, is on the page that a *)
(* walk cut short misses, leaves and comes back, or is dropped with a date; *)
(* the second is dated by the platform, or turns teacher.                   *)
MCPageFor == u1 :> 2 @@ u2 :> 1

Place(kind, start, ended) == [kind |-> kind, start |-> start, ended |-> ended]

MCSayings ==
  u1 :> {Place("student", 0, 0), Place("absent", 0, 0), Place("dropped", 0, 3)}
    @@ u2 :> {Place("student", 3, 0), Place("teacher", 0, 0)}

FirstAnswers == items'[u2] = items[u2]

VARIABLE part

ClosedWeekInit ==
  /\ part \in {"decisions", "answers", "switches", "figures", "rosters"}
  /\ DecisionInit
  /\ LoopInit
  /\ WeeksInit
  /\ IF part = "figures" THEN SealInit ELSE NothingRead

ClosedWeekNext ==
  /\ UNCHANGED part
  /\ \/ part = "decisions" /\ DecisionNext /\ UNCHANGED <<loopVars, sealVars, weekVars>>
     \/ /\ part = "answers" /\ LoopNext /\ OneSwitch
        /\ UNCHANGED <<decisionVars, sealVars, weekVars>>
     \/ /\ part = "switches" /\ LoopNext /\ OneDoor
        /\ UNCHANGED <<decisionVars, sealVars, weekVars>>
     \/ part = "figures" /\ SealNext /\ UNCHANGED <<decisionVars, loopVars, weekVars>>
     \/ /\ part = "rosters" /\ WeeksNext /\ FirstAnswers
        /\ UNCHANGED <<decisionVars, loopVars, sealVars>>

ClosedWeekSpec ==
  ClosedWeekInit
    /\ [][ClosedWeekNext]_<<decisionVars, loopVars, sealVars, weekVars, part>>

Interchangeable ==
  Permutations(Slots) \cup Permutations(Walkers)

=============================================================================
