---------------------------- MODULE MCRosterSync ----------------------------
(* Two sections pulled by the hourly round and by one task, a member to a   *)
(* page: the first with a student who may leave and come back and a person  *)
(* who may turn out to teach; the second with a student nobody moves, who   *)
(* must keep his place whatever happens to the first.                       *)
EXTENDS RosterSync, TLC

CONSTANTS m1, m2, m3, sa, sb, b1, k1

MCSectionOf == m1 :> sa @@ m2 :> sa @@ m3 :> sb

(* The first section on two pages, its students in this order. *)
MCPlace == m1 :> 1 @@ m2 :> 2 @@ m3 :> 3

MCEndDate == sa :> 2 @@ sb :> 1

MCListings ==
  m1 :> {Said("student"), Said("absent"), Dropped(0)}
    @@ m2 :> {Said("student"), Said("teacher")}
    @@ m3 :> {Said("student")}

(* A platform that dates its drops, as it pleases. *)
DatedListings ==
  m1 :> {Said("student"), Said("absent"), Dropped(1)}
    @@ m2 :> {Said("student")}
    @@ m3 :> {Said("student")}

=============================================================================
