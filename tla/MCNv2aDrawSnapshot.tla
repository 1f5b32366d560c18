-------------------------- MODULE MCNv2aDrawSnapshot --------------------------
(* Nv2aDrawSnapshot with constants a configuration file cannot write. *)
EXTENDS Nv2aDrawSnapshot

(* Two ranges that continue each other in one order only. *)
MCRanges == {<<0, 1>>, <<1, 2>>}

=============================================================================
