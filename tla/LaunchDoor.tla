----------------------------- MODULE LaunchDoor -----------------------------
(***************************************************************************)
(* The LTI launch door (app/api/lti.py) and everything one launch writes.  *)
(*                                                                         *)
(* A login issues a state and a nonce and remembers them for InFlight      *)
(* units (app/lti/in_flight.py); the platform signs them into a launch and *)
(* the browser delivers it, perhaps more than once and at once.  A         *)
(* delivery looks the state up, verifies the token, claims the nonce in a  *)
(* ledger a unique index guards (app/lti/replay_guard.py) and commits.  In *)
(* a second transaction a staff launch provisions its course and its       *)
(* section (app/services/provisioning.py), behind one savepoint.  Each     *)
(* action is one statement, or a run of statements nobody else can come    *)
(* between, of one delivery; a delivery may die after any of them.         *)
(*                                                                         *)
(* What the token says is a constant of the launch: the context it came    *)
(* from, the course and the section code its label parses to, the address  *)
(* of its roster, and how its sender may provision.  The term is fixed.    *)
(***************************************************************************)
EXTENDS Naturals, FiniteSets

CONSTANTS
    Launches,      \* signed launches, one per login
    Deliveries,    \* requests at the door; each carries one launch at a time
    ContextOf,     \* the context (deployment and context id) of a launch
    CourseOf,      \* the course its label names
    CodeOf,        \* the section code its label names
    AddressOf,     \* the roster address it advertises, or Unstated
    Unstated,
    LimbOf,        \* "student", "claim", "leader" (in purview) or "stranger"
    Unreadable,    \* launches whose context cannot be read: a defect each
    Underivable,   \* launches whose section code has no calendar
    InFlight,      \* how long a login stays usable
    Remembered,    \* how long the ledger keeps a nonce
    Patience,      \* how long a delivery runs at most: the outbound timeout
    MaxNow         \* bound of the clock

ASSUME LedgerOutlivesTheLogin ==
    /\ {InFlight, Remembered, Patience, MaxNow} \subseteq Nat
    /\ InFlight + Patience < Remembered

VARIABLES
    instant,       \* the real clock
    begun,         \* launches whose login happened
    inFlight,      \* lti_launch_state: when each row expires, 0 for no row
    ledger,        \* lti_launch_nonce: the same
    delivery,      \* what each delivery is doing
    admitted,      \* how often each launch was let in
    courses,       \* committed course rows
    sections,      \* committed section rows
    defects,       \* launches that recorded a launch_defect
    silent,        \* staff launches that ended with no section and no defect
    beaten         \* launches whose section insert met a row already there

doorVars == <<instant, begun, inFlight, ledger, delivery, admitted, courses,
              sections, defects, silent, beaten>>

Idle == [step |-> "idle"]
At(d, step) == delivery[d].step = step
Carries(d) == delivery[d].launch
Busy(d) == ~At(d, "idle")

DoorInit ==
    /\ instant = 0
    /\ begun = {}
    /\ inFlight = [l \in Launches |-> 0]
    /\ ledger = [l \in Launches |-> 0]
    /\ delivery = [d \in Deliveries |-> Idle]
    /\ admitted = [l \in Launches |-> 0]
    /\ courses = {}
    /\ sections = {}
    /\ defects = {}
    /\ silent = {}
    /\ beaten = {}

provisioned == <<courses, sections, defects, silent, beaten>>

-----------------------------------------------------------------------------
(* The first transaction: verify, claim, commit.                           *)

Login(l) ==
    /\ l \notin begun
    /\ begun' = begun \cup {l}
    /\ inFlight' = [inFlight EXCEPT ![l] = instant + InFlight]
    /\ UNCHANGED <<instant, ledger, delivery, admitted, provisioned>>

(* A refusal consumes the state it was delivered with, and commits.        *)
RefuseLaunch(d, l) ==
    /\ inFlight' = [inFlight EXCEPT ![l] = 0]
    /\ delivery' = [delivery EXCEPT ![d] = Idle]
    /\ UNCHANGED <<instant, begun, ledger, admitted, provisioned>>

(* The state is looked up without a lock, so two deliveries may both pass. *)
LookUp(d, l) ==
    /\ At(d, "idle")
    /\ l \in begun
    /\ IF inFlight[l] > instant
       THEN /\ delivery' = [delivery EXCEPT ![d] =
                   [step |-> "verifying", launch |-> l, since |-> instant]]
            /\ UNCHANGED <<instant, begun, inFlight, ledger, admitted, provisioned>>
       ELSE RefuseLaunch(d, l)

(* Any check between the look-up and the claim may refuse: the clock, the  *)
(* registration, the key set, the signature, the deployment, the subject.  *)
FailVerification(d) == At(d, "verifying") /\ RefuseLaunch(d, Carries(d))

(* Mutant: the ledger keeps a nonce no longer than this instant.           *)
ForgetAtOnce == instant

ClaimExpires == instant + Remembered

(* Mutant: the claim commits at once, before the launch does.              *)
ClaimInItsOwnTransaction(d) ==
    LET l == Carries(d) IN
    /\ At(d, "verifying")
    /\ IF ledger[l] # 0
       THEN RefuseLaunch(d, l)
       ELSE /\ delivery' = [delivery EXCEPT ![d] =
                   [step |-> "claimed", launch |-> l, since |-> delivery[d].since,
                    expires |-> ClaimExpires]]
            /\ ledger' = [ledger EXCEPT ![l] = ClaimExpires]
            /\ UNCHANGED <<instant, begun, inFlight, admitted, provisioned>>

(* The unique index on the nonce: an insert waits for another delivery's   *)
(* uncommitted claim, and a committed one makes this delivery a replay.    *)
ClaimNonce(d) ==
    LET l == Carries(d) IN
    /\ At(d, "verifying")
    /\ \A e \in Deliveries \ {d} : At(e, "claimed") => Carries(e) # l
    /\ IF ledger[l] # 0
       THEN RefuseLaunch(d, l)
       ELSE /\ delivery' = [delivery EXCEPT ![d] =
                   [step |-> "claimed", launch |-> l, since |-> delivery[d].since,
                    expires |-> ClaimExpires]]
            /\ UNCHANGED <<instant, begun, inFlight, ledger, admitted, provisioned>>

AdmitLaunch(d) ==
    LET l == Carries(d) IN
    /\ At(d, "claimed")
    /\ ledger' = [ledger EXCEPT ![l] = delivery[d].expires]
    /\ admitted' = [admitted EXCEPT ![l] = @ + 1]
    /\ delivery' = [delivery EXCEPT ![d] =
           [step |-> "admitted", launch |-> l, since |-> delivery[d].since]]
    /\ UNCHANGED <<instant, begun, inFlight, provisioned>>

-----------------------------------------------------------------------------
(* The second transaction: provision what the context names.               *)

BoundTo(c) == {s \in sections : s.context = c}
Named(l) == {s \in sections : s.course = CourseOf[l] /\ s.code = CodeOf[l]}

MayIngest(l) == LimbOf[l] # "student"

(* Every defect that is decided before anything is written.                *)
IsDefective(l) ==
    \/ l \in Unreadable
    \/ BoundTo(ContextOf[l]) # Named(l)      \* a context collision
    \/ LimbOf[l] = "stranger"                \* outside the leader's purview

ResolveContext(d) ==
    LET l == Carries(d) IN
    /\ At(d, "admitted")
    /\ IF MayIngest(l) /\ ~IsDefective(l)
       THEN /\ delivery' = [delivery EXCEPT ![d] =
                   [step |-> "course", launch |-> l, since |-> delivery[d].since,
                    bound |-> BoundTo(ContextOf[l]), course |-> {}, section |-> {},
                    defect |-> FALSE, beaten |-> FALSE]]
            /\ UNCHANGED defects
       ELSE /\ delivery' = [delivery EXCEPT ![d] = Idle]
            /\ defects' = IF MayIngest(l) THEN defects \cup {l} ELSE defects
    /\ UNCHANGED <<instant, begun, inFlight, ledger, admitted, courses, sections,
                   silent, beaten>>

OtherWriters(d) ==
    {e \in Deliveries \ {d} : delivery[e].step \in {"course", "section", "stored"}}
OthersCourses(d) == UNION {delivery[e].course : e \in OtherWriters(d)}
OthersSections(d) == UNION {delivery[e].section : e \in OtherWriters(d)}

(* A course insert waits for another launch's uncommitted one, and finds   *)
(* the row there when that launch commits.                                 *)
UpsertCourse(d) ==
    LET c == CourseOf[Carries(d)] IN
    /\ At(d, "course")
    /\ c \notin OthersCourses(d)
    /\ delivery' = [delivery EXCEPT ![d].step = "section",
                                    ![d].course = {c} \ courses]
    /\ UNCHANGED <<instant, begun, inFlight, ledger, admitted, provisioned>>

(* The two unique keys of a section: its context, and its name.            *)
Conflicts(s, l) ==
    \/ s.context = ContextOf[l]
    \/ s.course = CourseOf[l] /\ s.code = CodeOf[l]

NewSection(l) ==
    [context |-> ContextOf[l], course |-> CourseOf[l], code |-> CodeOf[l],
     address |-> AddressOf[l]]

(* An advertised address replaces the one read; none leaves what is there. *)
Corrections(bound, l) ==
    {[s EXCEPT !.address = AddressOf[l]] :
        s \in {s \in bound : AddressOf[l] \notin {Unstated, s.address}}}

(* Mutant: no savepoint around the two rows.                               *)
KeepTheCourse(d) == [delivery[d] EXCEPT !.step = "stored", !.defect = TRUE]

(* What the savepoint keeps when the section code has no calendar.         *)
RolledBack(d) == [delivery[d] EXCEPT !.step = "stored", !.course = {}, !.defect = TRUE]

CorrectSection(d) ==
    LET corrected == Corrections(delivery[d].bound, Carries(d)) IN
    /\ delivery[d].bound # {}
    /\ corrected # {} => \A s \in OthersSections(d) : ~Conflicts(s, Carries(d))
    /\ delivery' = [delivery EXCEPT ![d].step = "stored", ![d].section = corrected]

InsertSection(d) ==
    LET l == Carries(d)
        there == \E s \in sections : Conflicts(s, l) IN
    /\ delivery[d].bound = {}
    /\ IF l \in Underivable
       THEN delivery' = [delivery EXCEPT ![d] = RolledBack(d)]
       ELSE /\ \A s \in OthersSections(d) : ~Conflicts(s, l)
            /\ delivery' = [delivery EXCEPT ![d].step = "stored", ![d].beaten = there,
                   ![d].section = IF there THEN {} ELSE {NewSection(l)}]

UpsertSection(d) ==
    /\ At(d, "section")
    /\ CorrectSection(d) \/ InsertSection(d)
    /\ UNCHANGED <<instant, begun, inFlight, ledger, admitted, provisioned>>

(* Mutant: the launch answers with what its own insert returned.           *)
AnsweredByTheInsert(d) == delivery[d].section

(* The section this launch resolves to is read again before the commit.    *)
SectionAnswered(d) ==
    {s \in sections \cup delivery[d].section : s.context = ContextOf[Carries(d)]}

CommitProvisioning(d) ==
    LET l == Carries(d)
        mine == delivery[d].section IN
    /\ At(d, "stored")
    /\ courses' = courses \cup delivery[d].course
    /\ sections' = {s \in sections : \A m \in mine : m.context # s.context} \cup mine
    /\ defects' = IF delivery[d].defect THEN defects \cup {l} ELSE defects
    /\ beaten' = IF delivery[d].beaten THEN beaten \cup {l} ELSE beaten
    /\ silent' = IF SectionAnswered(d) = {} /\ ~delivery[d].defect
                 THEN silent \cup {l} ELSE silent
    /\ delivery' = [delivery EXCEPT ![d] = Idle]
    /\ UNCHANGED <<instant, begun, inFlight, ledger, admitted>>

-----------------------------------------------------------------------------
(* A process dies and its open transaction is rolled back.                 *)
LoseDelivery(d) ==
    /\ Busy(d)
    /\ delivery' = [delivery EXCEPT ![d] = Idle]
    /\ UNCHANGED <<instant, begun, inFlight, ledger, admitted, provisioned>>

(* The daily purge of both tables, in one transaction, by the real clock.  *)
PurgeLaunches ==
    /\ ledger' = [l \in Launches |-> IF ledger[l] < instant THEN 0 ELSE ledger[l]]
    /\ inFlight' = [l \in Launches |-> IF inFlight[l] < instant THEN 0 ELSE inFlight[l]]
    /\ UNCHANGED <<instant, begun, delivery, admitted, provisioned>>

PassTime ==
    /\ instant < MaxNow
    /\ \A d \in Deliveries : Busy(d) => instant - delivery[d].since < Patience
    /\ instant' = instant + 1
    /\ UNCHANGED <<begun, inFlight, ledger, delivery, admitted, provisioned>>

DoorNext ==
    \/ \E l \in Launches : Login(l)
    \/ \E d \in Deliveries, l \in Launches : LookUp(d, l)
    \/ \E d \in Deliveries :
          \/ FailVerification(d) \/ ClaimNonce(d) \/ AdmitLaunch(d)
          \/ ResolveContext(d) \/ UpsertCourse(d) \/ UpsertSection(d)
          \/ CommitProvisioning(d) \/ LoseDelivery(d)
    \/ PurgeLaunches
    \/ PassTime

DoorSpec == DoorInit /\ [][DoorNext]_doorVars

-----------------------------------------------------------------------------
(* A signed launch lets one person in once, however often and however late *)
(* it is delivered, whatever dies and whenever the purge runs              *)
(* (app/lti/launch.py:164: a nonce the ledger has purged is always a nonce *)
(* whose in-flight state is already dead); and its nonce is spent by that  *)
(* and by nothing less, so that a delivery which dies after its claim      *)
(* leaves the retry open (app/lti/replay_guard.py:65).                     *)
AdmittedOnce ==
    \A l \in Launches : /\ admitted[l] <= 1
                        /\ ledger[l] # 0 => admitted[l] = 1

(* A staff launch that ends with no section and records no defect is one   *)
(* whose section another launch wrote, under another context, while it was *)
(* provisioning: the one case _ingest_the_context leaves unexplained.  It  *)
(* is also the one way a course is left with no section, as the savepoint  *)
(* writes both or neither (app/services/provisioning.py:522).              *)
NoHalfProvisioned ==
    /\ \A l \in silent : \E s \in Named(l) : s.context # ContextOf[l]
    /\ \A c \in courses :
          \/ \E s \in sections : s.course = c
          \/ \E l \in beaten : CourseOf[l] = c

=============================================================================
