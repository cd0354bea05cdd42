------------------------------ MODULE MCPurview ------------------------------
(* A college with two departments, the seeded chain of a vice president, a *)
(* dean, an assistant dean, two chairs and two leads, and what makes it    *)
(* hard: a dean who chairs, an assistant dean who leads, a lead who        *)
(* teaches under her own lead role, a chair who may come to teach, courses *)
(* with and without a lead, and a course and two sections that no launch   *)
(* has discovered yet.                                                     *)
EXTENDS Purview, TLC

CONSTANTS
    vic, dee, ada, cho, lee,
    vp, dean, adean, chairA, chairB, leadX, leadZ, teachX, teachY,
    univ, coll, depA, depB, preA, preB, cX, cY, cZ, cW, sX, sY, sZ, sW

MCRoleOf ==
    vp :> "VP_ACADEMICS" @@ dean :> "DEAN" @@ adean :> "ASSISTANT_DEAN"
      @@ chairA :> "CHAIR" @@ chairB :> "CHAIR"
      @@ leadX :> "LEAD_FACULTY" @@ leadZ :> "LEAD_FACULTY"
      @@ teachX :> "INSTRUCTOR" @@ teachY :> "INSTRUCTOR"

MCHolderOf ==
    vp :> vic @@ dean :> dee @@ adean :> ada @@ chairA :> cho @@ chairB :> dee
      @@ leadX :> lee @@ leadZ :> ada @@ teachX :> cho @@ teachY :> lee

MCScopeOf ==
    vp :> univ @@ dean :> coll @@ adean :> coll @@ chairA :> depA @@ chairB :> depB
      @@ leadX :> cX @@ leadZ :> cZ @@ teachX :> sX @@ teachY :> sY

MCCourseAbove == sX :> cX @@ sY :> cY @@ sZ :> cZ @@ sW :> cW
MCPrefixAbove == sX :> preA @@ sY :> preA @@ sZ :> preB @@ sW :> preA

MCPathOf ==
    LET inA == {depA, coll, univ}
        inB == {depB, coll, univ}
        course == cX :> {cX, preA} \cup inA @@ cY :> {cY, preA} \cup inA
                    @@ cZ :> {cZ, preB} \cup inB @@ cW :> {cW, preA} \cup inA
        section == [s \in OrgSections |-> {s} \cup course[MCCourseAbove[s]]]
    IN  univ :> {univ} @@ coll :> {coll, univ} @@ depA :> inA @@ depB :> inB
          @@ preA :> {preA} \cup inA @@ preB :> {preB} \cup inB
          @@ course @@ section

MCSeededGrants == Assignments \ {teachX}

MCSeededEdges ==
    vp :> NoParent @@ dean :> vp @@ adean :> dean @@ chairA :> adean @@ chairB :> dean
      @@ leadX :> chairA @@ leadZ :> chairB @@ teachX :> NoParent @@ teachY :> leadX

MCSeededLeads == cX :> lee @@ cY :> NoLead @@ cZ :> ada @@ cW :> NoLead

MCSeededOrg == OrgNodes \ {cW, sW, sZ}

(* By a lead under a prefix that is not theirs, by the chair of that       *)
(* prefix, and into a course the launcher leads.                           *)
MCLaunchable == {<<lee, sW>>, <<cho, sW>>, <<ada, sZ>>}

=============================================================================
