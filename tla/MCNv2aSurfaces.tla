---------------------------- MODULE MCNv2aSurfaces ----------------------------
(* Nv2aSurfaces with constants a configuration file cannot write. *)
EXTENDS Nv2aSurfaces

MCDraw(color, zeta, width, writes, value) ==
  [color |-> color, zeta |-> zeta, width |-> width, writes |-> writes, value |-> value]

MCDraws ==
  {MCDraw(0, 2, 2, {"color", "zeta"}, 1),
   MCDraw(0, 2, 1, {"color", "zeta"}, 0),
   MCDraw(3, 2, 1, {"color", "zeta"}, 1),
   MCDraw(3, 0, 1, {"color", "zeta"}, 0)}

MCTextures == {[addr |-> 0, width |-> 2], [addr |-> 2, width |-> 2]}

MCBlits == {[src |-> 0, dst |-> 0, from |-> 1, to |-> 0]}

=============================================================================
