---------------------------- MODULE MCRegionSweep ----------------------------
(* Two sweeps on one provider, three regions over two slots.  The account  *)
(* has all of them enabled; the credentials name one or none.              *)
EXTENDS RegionSweep

CONSTANTS network, secrets, east, south, west

MCRequests == {{}, {east, west}, {west, ""}, {""}}
=============================================================================
