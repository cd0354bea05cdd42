---------------------------- MODULE IdentityReveal ----------------------------
(***************************************************************************)
(* How a student's name is read (app/services/safety.py reveal_identity    *)
(* and its definers).  Care staff name a comment, never a student; the     *)
(* author is derived, the access is recorded and committed, and only then  *)
(* is the name read against the committed record.  Every statement may be  *)
(* the last one before the process dies, and the Care role may be given    *)
(* and taken, and comments routed to Care, between any two.                *)
(***************************************************************************)
EXTENDS Naturals

CONSTANTS
    CareStaff,      \* people who may hold the Care role
    Notes,          \* comments
    Students,
    WriterOf,       \* the author of a comment
    Reveals         \* reveals in flight, one session of the Care engine each

ASSUME RevealAssumption == WriterOf \in [Notes -> Students]

VARIABLES
    care,           \* holders of a live CARE assignment
    routed,         \* comments with a verdict that routes them to Care
    audit,          \* committed IDENTITY_REVEAL records
    reveal,         \* what each reveal has done
    told            \* the names read: who read whose

revealVars == <<care, routed, audit, reveal, told>>

Closed == [at |-> "closed"]
Stands(r, at) == reveal[r].at = at
Accessed(r) == [actor |-> reveal[r].actor, subject |-> reveal[r].subject]

Goes(r, state) == reveal' = [reveal EXCEPT ![r] = state]

GiveOrTakeCare(p) ==
    /\ care' = IF p \in care THEN care \ {p} ELSE care \cup {p}
    /\ UNCHANGED <<routed, audit, reveal, told>>

(* A later verdict never takes a comment back from Care.                   *)
RouteToCare(n) ==
    /\ routed' = routed \cup {n}
    /\ UNCHANGED <<care, audit, reveal, told>>

(* Nobody without the role learns whether the comment exists.              *)
AskForReveal(r, p, n) ==
    /\ Stands(r, "closed")
    /\ p \in care
    /\ Goes(r, [at |-> "asked", actor |-> p, note |-> n])
    /\ UNCHANGED <<care, routed, audit, told>>

(* The door answers for no other comment, and then nothing is recorded.    *)
DeriveSubject(r) ==
    /\ Stands(r, "asked")
    /\ Goes(r, IF reveal[r].note \in routed
               THEN [at |-> "derived", actor |-> reveal[r].actor,
                     subject |-> WriterOf[reveal[r].note]]
               ELSE Closed)
    /\ UNCHANGED <<care, routed, audit, told>>

(* The definer asks for the role again before it inserts.                  *)
RecordReveal(r) ==
    /\ Stands(r, "derived")
    /\ Goes(r, IF reveal[r].actor \in care THEN [reveal[r] EXCEPT !.at = "recorded"] ELSE Closed)
    /\ UNCHANGED <<care, routed, audit, told>>

CommitReveal(r) ==
    /\ Stands(r, "recorded")
    /\ audit' = audit \cup {Accessed(r)}
    /\ Goes(r, [reveal[r] EXCEPT !.at = "committed"])
    /\ UNCHANGED <<care, routed, told>>

(* Mutant: a record its own transaction can see is enough.                 *)
SpendableAsSoonAsWritten(r) == Stands(r, "committed") \/ Stands(r, "recorded")

(* The definer refuses a record that is not committed, which its own       *)
(* transaction could still take back.                                      *)
Spendable(r) == Stands(r, "committed")

ReadTheName(r) ==
    /\ Spendable(r)
    /\ told' = IF reveal[r].actor \in care THEN told \cup {Accessed(r)} ELSE told
    /\ Goes(r, Closed)
    /\ UNCHANGED <<care, routed, audit>>

LoseReveal(r) ==
    /\ ~Stands(r, "closed")
    /\ Goes(r, Closed)
    /\ UNCHANGED <<care, routed, audit, told>>

RevealInit ==
    /\ care = {}
    /\ routed = {}
    /\ audit = {}
    /\ reveal = [r \in Reveals |-> Closed]
    /\ told = {}

RevealNext ==
    \/ \E p \in CareStaff : GiveOrTakeCare(p)
    \/ \E n \in Notes : RouteToCare(n)
    \/ \E r \in Reveals :
          \/ \E p \in CareStaff, n \in Notes : AskForReveal(r, p, n)
          \/ DeriveSubject(r) \/ RecordReveal(r) \/ CommitReveal(r)
          \/ ReadTheName(r) \/ LoseReveal(r)

RevealSpec == RevealInit /\ [][RevealNext]_revealVars

-----------------------------------------------------------------------------
(* Every name that was read is on the committed record, with who read it,  *)
(* and is the name of somebody whose comment was routed to Care, whatever  *)
(* died in between (safety.py:307-321).                                    *)
EveryNameIsOnRecord ==
    \A t \in told :
        /\ t \in audit
        /\ \E n \in routed : WriterOf[n] = t.subject
=============================================================================
