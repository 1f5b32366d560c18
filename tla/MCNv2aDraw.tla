------------------------------ MODULE MCNv2aDraw ------------------------------
(* Nv2aDraw with constants a configuration file cannot write. *)
EXTENDS Nv2aDraw

(* Two ranges that continue each other in one order only. *)
MCRanges == {<<0, 1>>, <<1, 2>>}

=============================================================================
