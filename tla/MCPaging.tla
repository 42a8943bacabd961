------------------------------- MODULE MCPaging -------------------------------
(***************************************************************************)
(* The readers of the three adapters, for TLC.  Row 2 is of tenant T2 and  *)
(* the others are of T1.                                                   *)
(***************************************************************************)
EXTENDS Pagers

CONSTANTS T1, T2

MCNext ==
  /\ PagersNext
  /\ \A r \in DOMAIN rows' : rows'[r].tenant = IF r = 2 THEN T2 ELSE T1

MCSpec == PagersInit /\ [][MCNext]_pagersvars
===============================================================================
