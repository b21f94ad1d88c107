----------------------------- MODULE MCMoldUdp64 -----------------------------
(* Sessions with and without a send callback, in a build that converts the *)
(* numbers of requests and in one that does not, with an empty message in  *)
(* the middle.                                                             *)
EXTENDS MoldUdp64

MCCallbacks == BOOLEAN
MCBuilds == BOOLEAN
MCEmpties == {{2}}

=============================================================================
