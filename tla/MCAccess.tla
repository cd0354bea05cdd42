------------------------------ MODULE MCAccess ------------------------------
(* Who gets in and as whom: launches, sessions, rosters, course leads and   *)
(* reveals.  No two of these share a variable, so a behaviour moves one of  *)
(* them and the rest stay where they began: the run is the sum of their     *)
(* state spaces, not the product.                                           *)
EXTENDS LaunchDoor, SessionChain, MCRosterSync, PeopleGraph, IdentityReveal

CONSTANTS d1, d2, x, y, r1, r2, a1, a2, p1, p2, q1, q2, g1, g2, n1, n2,
          st1, st2, v1, v2

(* Two staff launches of one context, the later with no roster address; a   *)
(* launch of another context under the same name; and one whose section     *)
(* code has no calendar, which is the first to name its course.             *)
MCContextOf == <<x, y, x, y>>
MCCourseOf == <<q1, q1, q1, q2>>
MCCodeOf == <<1, 1, 1, 1>>
MCAddressOf == <<p1, p2, Unstated, p2>>
MCLimbOf == <<"claim", "leader", "leader", "claim">>

(* One file, which two administrators upload: a course nobody is to lead,   *)
(* as it is at first, and one that changes its lead.                        *)
MCFiles == {q1 :> Unled @@ q2 :> p1}

MCWriterOf == n1 :> st1 @@ n2 :> st2

VARIABLE moving

AccessInit ==
  /\ moving \in {"door", "provisioning", "session", "roster", "people", "reveal"}
  /\ DoorInit /\ SessionInit /\ RosterInit /\ PeopleInit /\ RevealInit
  /\ listing = [m \in Members |-> Said("student")] /\ place = MCPlace

AccessNext ==
  /\ UNCHANGED moving
  /\ \/ /\ moving = "door"
        /\ DoorNext /\ begun' \subseteq {1, 2}
        /\ UNCHANGED <<sessionVars, rosterVars, peopleVars, revealVars>>
     \/ /\ moving = "provisioning"
        /\ DoorNext /\ instant' = 0
        /\ UNCHANGED <<sessionVars, rosterVars, peopleVars, revealVars>>
     \/ /\ moving = "session" /\ SessionNext
        /\ UNCHANGED <<doorVars, rosterVars, peopleVars, revealVars>>
     \/ /\ moving = "roster" /\ RosterNext
        /\ UNCHANGED <<doorVars, sessionVars, peopleVars, revealVars>>
     \/ /\ moving = "people" /\ PeopleNext
        /\ UNCHANGED <<doorVars, sessionVars, rosterVars, revealVars>>
     \/ /\ moving = "reveal" /\ RevealNext
        /\ UNCHANGED <<doorVars, sessionVars, rosterVars, peopleVars>>

AccessSpec ==
  AccessInit /\ [][AccessNext]_<<doorVars, sessionVars, rosterVars, peopleVars,
                                 revealVars, moving>>

AccessSymmetry == Permutations(Deliveries) \cup Permutations(Desks)

=============================================================================
