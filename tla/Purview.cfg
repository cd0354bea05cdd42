SPECIFICATION PurviewSpec
CONSTANTS
  vic = vic
  dee = dee
  ada = ada
  cho = cho
  lee = lee
  vp = vp
  dean = dean
  adean = adean
  chairA = chairA
  chairB = chairB
  leadX = leadX
  leadZ = leadZ
  teachX = teachX
  teachY = teachY
  univ = univ
  coll = coll
  depA = depA
  depB = depB
  preA = preA
  preB = preB
  cX = cX
  cY = cY
  cZ = cZ
  cW = cW
  sX = sX
  sY = sY
  sZ = sZ
  sW = sW
  NoParent = NoParent
  NoLead = NoLead
  Persons = {vic, dee, ada, cho, lee}
  Assignments = {vp, dean, adean, chairA, chairB, leadX, leadZ, teachX, teachY}
  RoleOf <- MCRoleOf
  HolderOf <- MCHolderOf
  ScopeOf <- MCScopeOf
  OrgNodes = {univ, coll, depA, depB, preA, preB, cX, cY, cZ, cW, sX, sY, sZ, sW}
  OrgCourses = {cX, cY, cZ, cW}
  OrgSections = {sX, sY, sZ, sW}
  PathOf <- MCPathOf
  CourseAbove <- MCCourseAbove
  PrefixAbove <- MCPrefixAbove
  SeededGrants <- MCSeededGrants
  SeededEdges <- MCSeededEdges
  SeededLeads <- MCSeededLeads
  SeededOrg <- MCSeededOrg
  Launchable <- MCLaunchable
  MaxEdits = 3
INVARIANTS
  PurviewIsTheChains
  OneReviewerPerCourse
  OwnSectionsStayOut
  BoundIsInPurview
CHECK_DEADLOCK FALSE
