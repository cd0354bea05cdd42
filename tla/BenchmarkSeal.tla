---------------------------- MODULE BenchmarkSeal ----------------------------
(***************************************************************************)
(* The comparison figures of a report (app/services/benchmarks.py) and     *)
(* what their readers can compute from several of them.                    *)
(*                                                                         *)
(* One length and level, one course week and one figure of it, counted as  *)
(* the cutoff froze it.  Beside a section's report stand the figure of its *)
(* default set (the other sections its course's lead leads) and that of    *)
(* the university (all sections).  A reader knows her own sections, those  *)
(* she teaches and those in her leadership purview, and can subtract; so a *)
(* figure is sealed on what each of its readers would have left.  Who      *)
(* leads and who teaches what is fixed here: the code reads both anew at   *)
(* every report, and its docstring carries what changes between two.       *)
(***************************************************************************)
EXTENDS Integers, FiniteSets, FiniteSetsExt, Functions

CONSTANTS
    Readers,
    Comparable,     \* the sections of one length and level, of every term
    ThisTerm,       \* those of the term reported on
    NoOne,          \* the lead of a course that has none
    LeadMaps,       \* who may lead the course of each section
    Grants,         \* what each reader may teach
    Purviews,       \* what each reader may hold as a leader
    Turnouts,       \* how many people may have answered in each section
    MinSections,    \* benchmark_min_sections_default
    MinRespondents  \* benchmark_min_respondents_default

ASSUME SealAssumption ==
    /\ ThisTerm \subseteq Comparable /\ IsFiniteSet(Comparable)
    /\ Turnouts \subseteq [Comparable -> Nat]
    /\ {MinSections, MinRespondents} \subseteq Nat \ {0}

VARIABLES
    leading,        \* the lead of each section's course
    teaches,        \* each reader's teaching grants
    purview,        \* each reader's leadership purview
    turnout,        \* how many people answered in each section
    figures         \* the populations whose figure each reader was shown

sealVars == <<leading, teaches, purview, turnout, figures>>

Known(p) == teaches[p] \cup purview[p]

-----------------------------------------------------------------------------
(* The populations.                                                        *)

DefaultSet(s) ==
    {m \in Comparable \ {s} : leading[s] # NoOne /\ leading[m] = leading[s]}

University == Comparable

(* Who reads the report of s when p does: its teachers, each for herself.  *)
KnownByReader(p, s) ==
    {Known(q) : q \in {q \in Readers : s \in teaches[q]} \cup {p}}

LeadSetsSeen(hers) == {DefaultSet(s) : s \in hers \cap ThisTerm}

-----------------------------------------------------------------------------
(* The seal.                                                               *)

Contributors(X) ==
    [sections    |-> Cardinality({s \in X : turnout[s] > 0}),
     respondents |-> SumFunctionOnSet(turnout, X)]

(* The counts a figure over X is sealed against: the least of its own and  *)
(* of every remainder somebody answered in.                                *)
Tightest(X, remainders) ==
    LET counted == {Contributors(Y) :
                      Y \in {X} \cup {Z \in remainders : Contributors(Z).respondents > 0}} IN
    [sections    |-> Min({c.sections : c \in counted}),
     respondents |-> Min({c.respondents : c \in counted})]

Clears(counts) ==
    counts.sections >= MinSections /\ counts.respondents >= MinRespondents

DefaultRemainders(p, s) == {DefaultSet(s) \ hers : hers \in KnownByReader(p, s)}

(* Mutant: the sets she sees are not looked at one by one.                 *)
BeyondWhatSheSees(p, s) ==
    UNION {{University \ hers, (University \ hers) \ UNION LeadSetsSeen(hers)} :
              hers \in KnownByReader(p, s)}

(* For each reader: what is beyond hers, what is beyond every lead's set   *)
(* she sees as well, and each of those sets less hers.                     *)
UniversityRemainders(p, s) ==
    UNION {{University \ hers, (University \ hers) \ UNION LeadSetsSeen(hers)}
             \cup {seen \ hers : seen \in LeadSetsSeen(hers)} : hers \in KnownByReader(p, s)}

ShownBeside(p, s) ==
    {X \in {DefaultSet(s)} : Clears(Tightest(X, DefaultRemainders(p, s)))}
      \cup {X \in {University} : Clears(Tightest(X, UniversityRemainders(p, s)))}

(* The report of one of her sections, as its teacher or in the drill-down. *)
OpenReport(p, s) ==
    /\ s \in Known(p) \cap ThisTerm
    /\ figures' = [figures EXCEPT ![p] = @ \cup ShownBeside(p, s)]
    /\ UNCHANGED <<leading, teaches, purview, turnout>>

SealInit ==
    /\ leading \in LeadMaps
    /\ teaches \in Grants
    /\ purview \in Purviews
    /\ turnout \in Turnouts
    /\ figures = [p \in Readers |-> {}]

SealNext == \E p \in Readers, s \in Comparable : OpenReport(p, s)

SealSpec == SealInit /\ [][SealNext]_sealVars

-----------------------------------------------------------------------------
(* What she can compute: the figures she was shown, added and subtracted,  *)
(* and any of her own sections besides.  A combination is known by how     *)
(* often each section of somebody else's counts in it.                     *)
Combinations(p) == [figures[p] -> {-1, 0, 1}]

Weight(k, s) == SumFunctionOnSet(k, {X \in DOMAIN k : s \in X})

LeftOver(k, p) == {s \in Comparable \ Known(p) : Weight(k, s) # 0}

(* However many reports she reads and whatever she subtracts, a number she *)
(* can compute about sections not hers is about nobody or about enough     *)
(* sections and enough people (benchmarks.py docstring: every combination  *)
(* of figures she can compute is over atoms that clear both minimums).     *)
NothingThinCanBeComputed ==
    \A p \in Readers : \A k \in Combinations(p) :
        LET left == Contributors(LeftOver(k, p)) IN
        left.respondents = 0 \/ Clears(left)

=============================================================================
