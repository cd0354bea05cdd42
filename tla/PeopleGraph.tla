----------------------------- MODULE PeopleGraph -----------------------------
(***************************************************************************)
(* Who leads a course: the People editor (app/services/people.py) over its *)
(* definers (app/views_sql/people_graph_v001.sql to v003.sql).             *)
(*                                                                         *)
(* A course is mapped to at most one lead, who must hold a LEAD_FACULTY    *)
(* assignment.  Single edits run at READ COMMITTED and lock the rows they  *)
(* rely on.  A mapping file is previewed by writing it at READ COMMITTED   *)
(* and rolling back, and applied at SERIALIZABLE against the digest of the *)
(* state its preview started from.  Each                                   *)
(* desk is one administrator's session, with one transaction at a time;    *)
(* Abandon is a refusal of another kind, a deadlock victim or a crash.     *)
(*                                                                         *)
(* Rows are told apart by the commit that wrote them, so a row removed and *)
(* written again is another row.                                           *)
(***************************************************************************)
EXTENDS Naturals

CONSTANTS
    Desks,
    Faculty,        \* the people who may hold the role
    Catalog,        \* the courses
    Unled,          \* no lead
    Files,          \* mapping files: some courses, each with a lead or Unled
    MaxCommits      \* bound: transactions committed

ASSUME PeopleAssumption ==
    /\ Unled \notin Faculty
    /\ \A f \in Files : DOMAIN f \subseteq Catalog /\ \A c \in DOMAIN f : f[c] \in Faculty \cup {Unled}
    /\ MaxCommits \in Nat

VARIABLES
    commits,        \* transactions committed
    held,           \* the LEAD_FACULTY row of each person: its commit, or 0
    mapping,        \* the lead of each course and the commit that mapped it
    previewed,      \* what each desk was shown last
    desk            \* its open transaction

peopleVars == <<commits, held, mapping, previewed, desk>>

LeadOf(c) == mapping[c].lead
Holds(p) == held[p] # 0
LedBy(p) == {c \in Catalog : LeadOf(c) = p}

Free == [doing |-> "nothing"]
Doing(a, what) == desk[a].doing = what
Others(a) == Desks \ {a}

NothingShown == [file |-> << >>, state |-> << >>, diff |-> << >>]

(* Locks are held until the commit: the mapping rows a transaction wrote,  *)
(* FOR KEY SHARE on the role of the leads it mapped, FOR UPDATE on the     *)
(* role it revokes.                                                        *)
Writes(a) == IF desk[a].doing \in {"editing", "previewing", "importing"} THEN desk[a].writes ELSE << >>
Shares(a) == {Writes(a)[c] : c \in DOMAIN Writes(a)} \ {Unled}
Revokes(a) == IF Doing(a, "revoking") THEN {desk[a].person} ELSE {}

NobodyWrites(a, cs) == \A b \in Others(a) : DOMAIN Writes(b) \cap cs = {}
NobodyRevokes(a, ps) == \A b \in Others(a) : Revokes(b) \cap ps = {}
NobodyRelies(a, p) == \A b \in Others(a) : p \notin Shares(b) \cup Revokes(b)

(* For a mutant: only another revocation is waited for.                    *)
CountsAlone(a, p) == \A b \in Others(a) : p \notin Revokes(b)

Take(a, transaction) ==
    /\ desk' = [desk EXCEPT ![a] = transaction]
    /\ UNCHANGED <<commits, held, mapping, previewed>>

(* The mapping with some courses' rows written by commit number n.         *)
Overlaid(writes, n) ==
    [c \in Catalog |-> IF c \in DOMAIN writes THEN [lead |-> writes[c], since |-> n]
                       ELSE mapping[c]]

-----------------------------------------------------------------------------
(* Single edits.                                                           *)

(* map_lead reads the course's lead first, and is a no-op if it is p.      *)
MapLeadTo(a, c, p) ==
    /\ Doing(a, "nothing")
    /\ LeadOf(c) # p
    /\ Take(a, [doing |-> "mapping", course |-> c, person |-> p, read |-> mapping[c]])

(* Of a lead that was read: the unmap finds a row and the insert none, and *)
(* the new lead holds the role.                                            *)
MayReplace(lead, c, p) ==
    /\ p # Unled => Holds(p)
    /\ (lead = Unled) = (LeadOf(c) = Unled)

MayMap(a) == MayReplace(desk[a].read.lead, desk[a].course, desk[a].person)

WriteMapping(a) ==
    LET c == desk[a].course IN
    /\ Doing(a, "mapping")
    /\ NobodyWrites(a, {c})
    /\ NobodyRevokes(a, {desk[a].person})
    /\ \/ MayMap(a)
          /\ Take(a, [doing |-> "editing",
                      writes |-> [x \in {c} |-> desk[a].person]])
       \/ (~MayMap(a) \/ mapping[c] # desk[a].read) /\ Take(a, Free)

UnmapLead(a, c) ==
    /\ Doing(a, "nothing")
    /\ LeadOf(c) # Unled
    /\ NobodyWrites(a, {c})
    /\ Take(a, [doing |-> "editing", writes |-> [x \in {c} |-> Unled]])

CommitEdit(a) ==
    /\ Doing(a, "editing")
    /\ commits < MaxCommits
    /\ commits' = commits + 1
    /\ mapping' = Overlaid(desk[a].writes, commits + 1)
    /\ desk' = [desk EXCEPT ![a] = Free]
    /\ UNCHANGED <<held, previewed>>

GrantLead(p) ==
    /\ ~Holds(p)
    /\ commits < MaxCommits
    /\ commits' = commits + 1
    /\ held' = [held EXCEPT ![p] = commits + 1]
    /\ UNCHANGED <<mapping, previewed, desk>>

(* Mutant: the courses are counted without waiting for who relies on it.   *)
RevokeUnlocked(a, p) ==
    /\ Doing(a, "nothing")
    /\ Holds(p)
    /\ CountsAlone(a, p)
    /\ LedBy(p) = {}
    /\ Take(a, [doing |-> "revoking", person |-> p])

(* The role is locked, then the courses its holder leads are counted.      *)
RevokeRole(a, p) ==
    /\ Doing(a, "nothing")
    /\ Holds(p)
    /\ NobodyRelies(a, p)
    /\ LedBy(p) = {}
    /\ Take(a, [doing |-> "revoking", person |-> p])

CommitRevoke(a) ==
    /\ Doing(a, "revoking")
    /\ commits < MaxCommits
    /\ commits' = commits + 1
    /\ held' = [held EXCEPT ![desk[a].person] = 0]
    /\ desk' = [desk EXCEPT ![a] = Free]
    /\ UNCHANGED <<mapping, previewed>>

-----------------------------------------------------------------------------
(* A mapping file.                                                         *)

Leads(f, seen) == [c \in DOMAIN f |-> seen[c].lead]
Differing(f, state) == {c \in DOMAIN f : state[c] # f[c]}
Newly(f, cs) == {f[c] : c \in cs} \ {Unled}

(* The dry run reads the mapping, for the digest and for what to write.    *)
StartDryRun(a, f) ==
    LET state == Leads(f, mapping) IN
    /\ Doing(a, "nothing")
    /\ Take(a, [doing |-> "previewing", file |-> f, state |-> state,
                left |-> Differing(f, state), writes |-> << >>])

(* One line that differed is written; one that did not locks nothing.  A   *)
(* refused line is answered and nothing is shown.                          *)
PreviewLine(a, c) ==
    LET p == desk[a].file[c] IN
    /\ Doing(a, "previewing")
    /\ c \in desk[a].left
    /\ NobodyWrites(a, {c}) /\ NobodyRevokes(a, {p})
    /\ IF MayReplace(desk[a].state[c], c, p)
       THEN Take(a, [desk[a] EXCEPT !.left = @ \ {c},
                       !.writes = [x \in DOMAIN @ \cup {c} |-> desk[a].file[x]]])
       ELSE Take(a, Free)

(* The courses that are led otherwise after than before.                   *)
Diff(before, after) ==
    [c \in {c \in DOMAIN before : before[c] # after[c]} |->
        [before |-> before[c], after |-> after[c]]]

(* The mapping is read again, with its own writes over what others have    *)
(* committed since, and the difference is shown beside the digest.         *)
ShowDryRun(a) ==
    LET f == desk[a].file
        written == desk[a].writes
        after == [c \in DOMAIN f |-> IF c \in DOMAIN written THEN written[c] ELSE LeadOf(c)] IN
    /\ Doing(a, "previewing")
    /\ desk[a].left = {}
    /\ previewed' = [previewed EXCEPT ![a] =
          [file |-> f, state |-> desk[a].state, diff |-> Diff(desk[a].state, after)]]
    /\ desk' = [desk EXCEPT ![a] = Free]
    /\ UNCHANGED <<commits, held, mapping>>

(* The snapshot of the apply.                                              *)
BeginApply(a) ==
    /\ Doing(a, "nothing")
    /\ previewed[a] # NothingShown
    /\ Take(a, [doing |-> "applying", seen |-> mapping, roles |-> held, overtaken |-> FALSE])

(* Mutant: the digest is not looked at.                                    *)
NeverStale(a) == FALSE

(* The digest sent is not the one the file and the snapshot give.          *)
Stale(a) == Leads(previewed[a].file, desk[a].seen) # previewed[a].state

(* A row the snapshot sees and a commit since replaced cannot be written   *)
(* or locked, and neither can one the snapshot does not see.               *)
WriteImport(a) ==
    LET f == previewed[a].file
        cs == Differing(f, Leads(f, desk[a].seen)) IN
    /\ Doing(a, "applying")
    /\ NobodyWrites(a, cs) /\ NobodyRevokes(a, Newly(f, cs))
    /\ IF /\ \A c \in cs : mapping[c] = desk[a].seen[c]
          /\ \A p \in Newly(f, cs) : Holds(p) /\ held[p] = desk[a].roles[p]
          /\ ~Stale(a)
       THEN Take(a, [doing |-> "importing", writes |-> [c \in cs |-> f[c]],
                     overtaken |-> desk[a].overtaken])
       ELSE Take(a, Free)

(* Of two overlapping applies that both write, the first committer wins.   *)
Overtake(a) ==
    [b \in Desks |->
        IF b = a THEN Free
        ELSE IF desk[a].writes # << >> /\ desk[b].doing \in {"applying", "importing"}
        THEN [desk[b] EXCEPT !.overtaken = TRUE]
        ELSE desk[b]]

CommitImport(a) ==
    /\ Doing(a, "importing")
    /\ commits < MaxCommits
    /\ desk[a].overtaken => desk[a].writes = << >>
    /\ commits' = commits + 1
    /\ mapping' = Overlaid(desk[a].writes, commits + 1)
    /\ desk' = Overtake(a)
    /\ UNCHANGED <<held, previewed>>

Abandon(a) ==
    /\ ~Doing(a, "nothing")
    /\ Take(a, Free)

-----------------------------------------------------------------------------
PeopleInit ==
    /\ commits = 1
    /\ held = [p \in Faculty |-> 1]
    /\ mapping = [c \in Catalog |-> [lead |-> Unled, since |-> 0]]
    /\ previewed = [a \in Desks |-> NothingShown]
    /\ desk = [a \in Desks |-> Free]

PeopleNext ==
    \/ \E a \in Desks :
          \/ \E c \in Catalog : UnmapLead(a, c) \/ \E p \in Faculty : MapLeadTo(a, c, p)
          \/ WriteMapping(a) \/ CommitEdit(a)
          \/ \E p \in Faculty : RevokeRole(a, p)
          \/ CommitRevoke(a)
          \/ \E f \in Files : StartDryRun(a, f)
          \/ \E c \in Catalog : PreviewLine(a, c)
          \/ ShowDryRun(a)
          \/ BeginApply(a) \/ WriteImport(a) \/ CommitImport(a)
          \/ Abandon(a)
    \/ \E p \in Faculty : GrantLead(p)

PeopleSpec == PeopleInit /\ [][PeopleNext]_peopleVars

-----------------------------------------------------------------------------
(* A course's lead holds the Lead Faculty role: an unled course falls to   *)
(* its chair, and one led by somebody without the role falls to nobody, so *)
(* its harmful comments are in no queue (people_graph_v003.sql:3-11).      *)
MappedLeadsHoldTheRole == \A c \in Catalog : LeadOf(c) # Unled => Holds(LeadOf(c))

(* Of what its preview showed, an apply changes exactly the courses whose  *)
(* line asks for another lead than they had, from and to what was shown,   *)
(* and nothing else, whoever edits or imports meanwhile (people.py:748).   *)
(* The other lines shown are edits committed between the dry run's two     *)
(* reads, which the digest does not bind (people.py:891): an apply after   *)
(* they were undone goes through without them.                             *)
ApplyChangesWhatWasPreviewed ==
    [][\A a \in Desks : CommitImport(a) =>
         LET shown == previewed[a]
             changed == {c \in Catalog : LeadOf(c) # mapping'[c].lead} IN
         /\ changed = {c \in DOMAIN shown.diff : shown.diff[c].before # shown.file[c]}
         /\ \A c \in changed : shown.diff[c] = [before |-> LeadOf(c), after |-> mapping'[c].lead]
      ]_peopleVars
=============================================================================
