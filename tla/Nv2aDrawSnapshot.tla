--------------------------- MODULE Nv2aDrawSnapshot ---------------------------
(***************************************************************************)
(* Nv2aDraw with snapshots.  A snapshot is taken and loaded between two    *)
(* methods (Nv2aFifo: SnapshotAtRest), which may be inside a block.  Of    *)
(* the batch, vmstate_nv2a has the ranges, their upper bound, the elements *)
(* and the array; it has neither draw_arrays_min_start nor                 *)
(* draw_arrays_prevent_connect, and of the inline buffer only the length.  *)
(***************************************************************************)
EXTENDS Nv2aDraw, SequencesExt

VARIABLE saved   \* the snapshot: the machine and what it had drawn

None == [taken |-> FALSE]

SnapshotInit == Init /\ saved = None

Run == Next /\ UNCHANGED saved

(* What vmstate_nv2a holds, with the guest's memory and the picture. *)
Save ==
  /\ saved = None
  /\ saved' = [taken |-> TRUE, stream |-> stream, guest |-> guest,
               rendered |-> rendered, prim |-> prim, draws |-> draws,
               maxCount |-> maxCount, elements |-> elements, array |-> array,
               length |-> Len(buffer)]
  /\ UNCHANGED vars

Restored ==
  /\ stream' = saved.stream /\ guest' = saved.guest
  /\ rendered' = saved.rendered /\ prim' = saved.prim
  /\ draws' = saved.draws /\ maxCount' = saved.maxCount
  /\ array' = saved.array

(* The inline buffer keeps the vertices of the machine that is replaced. *)
StaleBuffer ==
  [i \in 1..saved.length |-> IF i <= Len(buffer) THEN buffer[i] ELSE <<0, 0>>]

(* Mutated: the elements are not in the snapshot. *)
Load_KeepsElements ==
  /\ saved.taken /\ Restored
  /\ buffer' = StaleBuffer
  /\ UNCHANGED <<minStart, prevent, elements, saved>>

(* The device state is loaded over that of the running machine, whose batch
   nv2a_reset has left alone. *)
Load ==
  /\ saved.taken /\ Restored
  /\ elements' = saved.elements
  /\ buffer' = StaleBuffer
  /\ UNCHANGED <<minStart, prevent, saved>>

SnapshotSpec == SnapshotInit /\ [][Run \/ Save \/ Load]_<<vars, saved>>

(* Every vertex is drawn exactly once and in order: those drawn, those in the
   batch and those still in the stream are together what the guest sent.
   Squashing, connecting and expanding lose, repeat and reorder none. *)
VerticesOnce ==
  FlattenSeq(rendered) \o FlattenSeq(draws) \o elements \o array \o buffer
    \o FlattenSeq([i \in 1..Len(stream) |-> stream[i].vertices])
  = guest.submitted

=============================================================================
