---------------------------- MODULE MCJobsService ----------------------------
(* Two people, one job, two requests at a time: each may hold every role.   *)
EXTENDS JobsService

CONSTANTS p1, p2, j1, s1, s2
=============================================================================
