------------------------------ MODULE MCMaster ------------------------------
(***************************************************************************)
(* Two hosts and an application of two levels, the first with two jobs.    *)
(***************************************************************************)
EXTENDS Master

MCHosts == <<"a", "b">>

MCLevels == << <<"m1", "m2">>, <<"m3">> >>

MCModules == {"m1", "m2", "m3"}
=============================================================================
