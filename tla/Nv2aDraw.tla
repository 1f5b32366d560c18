------------------------------- MODULE Nv2aDraw -------------------------------
(***************************************************************************)
(* How PGRAPH turns the methods of BEGIN/END blocks into primitives.       *)
(* Vertices are collected in a batch, of ranges (DRAW_ARRAYS), elements,   *)
(* inline array words or inline buffer vertices, and drawn at END.  Ranges *)
(* that continue each other are connected; a whole END, BEGIN between two  *)
(* DRAW_ARRAYS is squashed, so that the ranges of several blocks are drawn *)
(* by one call; a batch of ranges that meets an element becomes a batch of *)
(* elements.                                                               *)
(*                                                                         *)
(* A vertex is <<block, index>>: the number of its block, which only the   *)
(* properties look at, and its index.  The target surface is bound and its *)
(* write mask not empty, so every draw reaches it.                         *)
(***************************************************************************)
EXTENDS Naturals, Sequences, Functions

CONSTANTS
  Kinds,       \* what a block may hold, a set of sets of OpKinds
  Ranges,      \* the <<start, count>> of the guest's DRAW_ARRAYS
  Prims,       \* primitive modes, PRIM_TYPE_INVALID being 0
  MaxDraws,    \* ARRAY_SIZE(draw_arrays_start), 1250 in the code
  PerBlock,    \* bound: vertex methods of a block
  MaxOps,      \* bound: methods the guest sends
  Ahead        \* bound: methods sent and not yet processed

OpKinds == {"draw", "element", "element16", "array", "vertex"}

ASSUME KindsAssumption == Kinds \subseteq SUBSET OpKinds
ASSUME RangesAssumption == Ranges \subseteq Nat \X (Nat \ {0})
ASSUME PrimsAssumption == Prims \subseteq Nat \ {0}
ASSUME DrawBoundsAssumption ==
  MaxDraws \in Nat \ {0} /\ PerBlock \in Nat /\ MaxOps \in Nat /\ Ahead \in Nat

VARIABLES
  stream,      \* methods released to PGRAPH, oldest first
  prim,        \* pg->primitive_mode
  draws,       \* draw_arrays_start and _count: each range as its vertices
  minStart, maxCount,  \* draw_arrays_min_start, draw_arrays_max_count
  prevent,     \* draw_arrays_prevent_connect
  elements, array, buffer, \* inline_elements, inline_array, inline_buffer
  rendered,    \* the primitives drawn, each as its vertices
  guest        \* the guest: its block, what it holds, methods sent

batch == <<draws, minStart, maxCount, prevent, elements, array, buffer>>
vars == <<stream, prim, batch, rendered, guest>>

NoStart == 1000  \* draw_arrays_min_start = -1, as unsigned

Init ==
  /\ stream = <<>> /\ prim = 0 /\ rendered = <<>>
  /\ draws = <<>> /\ minStart = NoStart /\ maxCount = 0 /\ prevent = FALSE
  /\ elements = <<>> /\ array = <<>> /\ buffer = <<>>
  /\ guest = [block |-> 0, kinds |-> {}, open |-> FALSE, held |-> 0,
              ops |-> 0, submitted |-> <<>>]

-----------------------------------------------------------------------------
(* The guest.  Vertices are sent inside a block; BEGIN inside a block and END
   outside one may be sent too. *)
Op(op, arg, vertices) == [op |-> op, arg |-> arg, vertices |-> vertices]

Send(m, g) ==
  /\ guest.ops < MaxOps /\ Len(stream) < Ahead
  /\ stream' = Append(stream, m)
  /\ guest' = [g EXCEPT !.ops = @ + 1, !.submitted = @ \o m.vertices]
  /\ UNCHANGED <<prim, batch, rendered>>

GuestBegin(p, kinds) ==
  Send(Op("begin", p, <<>>),
       IF guest.open THEN guest
       ELSE [guest EXCEPT !.open = TRUE, !.kinds = kinds, !.held = 0,
                          !.block = @ + 1])

GuestEnd == Send(Op("end", 0, <<>>), [guest EXCEPT !.open = FALSE])

GuestVertices(op, start, count) ==
  /\ guest.open /\ op \in guest.kinds /\ guest.held < PerBlock
  /\ Send(Op(op, start, [i \in 1..count |-> <<guest.block, start + i - 1>>]),
          [guest EXCEPT !.held = @ + 1])

Guest ==
  \/ \E p \in Prims, kinds \in Kinds : GuestBegin(p, kinds)
  \/ GuestEnd
  \/ \E r \in Ranges : GuestVertices("draw", r[1], r[2])
  \/ GuestVertices("element", 0, 1)
  \/ GuestVertices("element16", 0, 2)
  \/ GuestVertices("array", 0, 1)
  \/ GuestVertices("vertex", 0, 1)

-----------------------------------------------------------------------------
Meth(op) == stream # <<>> /\ Head(stream).op = op

(* The primitives flush_draw draws: one for each range, or one of what else
   the batch holds. *)
Drawn ==
  IF draws # <<>> THEN draws
  ELSE IF elements # <<>> THEN <<elements>>
  ELSE IF buffer # <<>> THEN <<buffer>>
  ELSE IF array # <<>> THEN <<array>>
  ELSE <<>>

ResetDrawArrays ==
  draws' = <<>> /\ minStart' = NoStart /\ maxCount' = 0 /\ prevent' = FALSE

ResetInlineBuffers ==
  ResetDrawArrays /\ elements' = <<>> /\ array' = <<>> /\ buffer' = <<>>

(* SET_BEGIN_END with a primitive: ignored inside a block. *)
Begin ==
  /\ Meth("begin") /\ stream' = Tail(stream)
  /\ IF prim # 0 THEN UNCHANGED <<prim, batch>>
     ELSE prim' = Head(stream).arg /\ ResetInlineBuffers
  /\ UNCHANGED <<rendered, guest>>

(* SET_BEGIN_END with OP_END: outside a block nothing is drawn. *)
End ==
  /\ Meth("end") /\ stream' = Tail(stream)
  /\ rendered' = IF prim = 0 THEN rendered ELSE rendered \o Drawn
  /\ prim' = 0 /\ ResetInlineBuffers
  /\ UNCHANGED guest

(* Mutated: no word is kept free for the next block. *)
Squashes_LeavesNoRoom ==
  /\ elements' = <<>> /\ Len(draws') < MaxDraws
  /\ Len(stream) >= 4
  /\ stream[2].op = "end" /\ stream[3] = Op("begin", prim, <<>>)
  /\ stream[4].op = "draw"

(* pgraph_method, once DRAW_ARRAYS is done: the next methods are END, BEGIN of
   the same primitive and DRAW_ARRAYS, and there is room for more ranges. *)
Squashes ==
  /\ elements' = <<>> /\ Len(draws') < MaxDraws - 1
  /\ Len(stream) >= 4
  /\ stream[2].op = "end" /\ stream[3] = Op("begin", prim, <<>>)
  /\ stream[4].op = "draw"

Lesser(a, b) == IF a < b THEN a ELSE b
Greater(a, b) == IF a < b THEN b ELSE a

LastRange == draws[Len(draws)]

(* The range continues the last one of the batch. *)
Continues(start) ==
  draws # <<>> /\ LastRange[Len(LastRange)][2] + 1 = start

Connects(start) == ~prevent /\ Continues(start)

(* Mutated: squashed blocks are connected. *)
DrawArrays_ConnectsBlocks ==
  /\ Meth("draw") /\ elements = <<>> /\ Len(draws) < MaxDraws
  /\ LET start == Head(stream).arg
         vertices == Head(stream).vertices
     IN /\ minStart' = Lesser(minStart, start)
        /\ maxCount' = Greater(maxCount, start + Len(vertices))
        /\ draws' = IF Continues(start)
                      THEN [draws EXCEPT ![Len(draws)] = @ \o vertices]
                      ELSE Append(draws, vertices)
        /\ elements' = elements
        /\ stream' = SubSeq(stream, IF Squashes THEN 4 ELSE 2, Len(stream))
        /\ prevent' = Squashes
  /\ UNCHANGED <<prim, array, buffer, rendered, guest>>

(* Mutated: the bounds are taken from the range that starts a primitive. *)
DrawArrays_ConnectKeepsBounds ==
  /\ Meth("draw") /\ elements = <<>> /\ Len(draws) < MaxDraws
  /\ LET start == Head(stream).arg
         vertices == Head(stream).vertices
     IN /\ minStart' = Lesser(minStart, start)
        /\ maxCount' = IF Connects(start) THEN maxCount
                       ELSE Greater(maxCount, start + Len(vertices))
        /\ draws' = IF Connects(start)
                      THEN [draws EXCEPT ![Len(draws)] = @ \o vertices]
                      ELSE Append(draws, vertices)
        /\ elements' = elements
        /\ stream' = SubSeq(stream, IF Squashes THEN 4 ELSE 2, Len(stream))
        /\ prevent' = Squashes
  /\ UNCHANGED <<prim, array, buffer, rendered, guest>>

(* DRAW_ARRAYS.  The assertion on the size of draw_arrays_start ends the
   program where the guard on MaxDraws fails. *)
DrawArrays ==
  /\ Meth("draw")
  /\ LET start == Head(stream).arg
         vertices == Head(stream).vertices
     IN IF elements # <<>>
          THEN /\ elements' = elements \o vertices
               /\ UNCHANGED <<draws, minStart, maxCount, prevent>>
               /\ stream' = Tail(stream)
          ELSE /\ Len(draws) < MaxDraws
               /\ minStart' = Lesser(minStart, start)
               /\ maxCount' = Greater(maxCount, start + Len(vertices))
               /\ draws' = IF Connects(start)
                             THEN [draws EXCEPT ![Len(draws)] = @ \o vertices]
                             ELSE Append(draws, vertices)
               /\ elements' = elements
               /\ stream' = SubSeq(stream, IF Squashes THEN 4 ELSE 2, Len(stream))
               /\ prevent' = Squashes
  /\ UNCHANGED <<prim, array, buffer, rendered, guest>>

(* Mutated: ranges stay in the batch next to the elements. *)
ArrayElement_KeepsRanges ==
  /\ Meth("element") \/ Meth("element16")
  /\ stream' = Tail(stream)
  /\ elements' = elements \o Head(stream).vertices
  /\ UNCHANGED <<draws, minStart, maxCount, prevent, array, buffer, prim, rendered, guest>>

(* ARRAY_ELEMENT16 and ARRAY_ELEMENT32.  pgraph_expand_draw_arrays turns the
   last range into elements; with more than one range it first draws the
   batch, the last range included. *)
ArrayElement ==
  /\ Meth("element") \/ Meth("element16")
  /\ stream' = Tail(stream)
  /\ \/ /\ draws = <<>>
        /\ elements' = elements \o Head(stream).vertices
        /\ UNCHANGED <<draws, minStart, maxCount, prevent, array, buffer, rendered>>
     \/ /\ Len(draws) = 1
        /\ elements' = elements \o LastRange \o Head(stream).vertices
        /\ ResetDrawArrays
        /\ UNCHANGED <<array, buffer, rendered>>
     \/ /\ Len(draws) > 1
        /\ rendered' = rendered \o Drawn
        /\ elements' = LastRange \o Head(stream).vertices
        /\ ResetDrawArrays /\ array' = <<>> /\ buffer' = <<>>
  /\ UNCHANGED <<prim, guest>>

(* INLINE_ARRAY. *)
InlineArray ==
  /\ Meth("array") /\ stream' = Tail(stream)
  /\ array' = array \o Head(stream).vertices
  /\ UNCHANGED <<draws, minStart, maxCount, prevent, elements, buffer, prim, rendered, guest>>

(* The last part of attribute 0: pgraph_finish_inline_buffer_vertex. *)
FinishVertex ==
  /\ Meth("vertex") /\ stream' = Tail(stream)
  /\ buffer' = buffer \o Head(stream).vertices
  /\ UNCHANGED <<draws, minStart, maxCount, prevent, elements, array, prim, rendered, guest>>

Next ==
  \/ Guest \/ Begin \/ End \/ DrawArrays \/ ArrayElement
  \/ InlineArray \/ FinishVertex

Spec == Init /\ [][Next]_vars

-----------------------------------------------------------------------------
(* A primitive never mixes vertices of two blocks, although squashing makes
   one batch of several: a range is not connected across a squashed END. *)
BlocksStayApart ==
  \A primitive \in Range(rendered) \cup Range(draws) \cup {elements} :
    \A i, j \in DOMAIN primitive : primitive[i][1] = primitive[j][1]

(* The assertions of flush_draw and of DRAW_ARRAYS: a batch holds one kind of
   vertices, and one of elements never forbids connecting. *)
BatchIsOneKind ==
  /\ draws # <<>> => elements = <<>> /\ array = <<>> /\ buffer = <<>>
  /\ elements # <<>> => array = <<>> /\ buffer = <<>> /\ ~prevent
  /\ buffer # <<>> => array = <<>>

(* The indices that flush_draw uploads, draw_arrays_min_start up to
   draw_arrays_max_count, include every index of every range. *)
RangesAreBound ==
  \A range \in Range(draws) : \A i \in DOMAIN range :
    range[i][2] \in minStart..(maxCount - 1)

(* The assertion of DRAW_ARRAYS on ARRAY_SIZE(draw_arrays_start): squashing
   leaves room for the ranges of the next block. *)
DrawsFit == Meth("draw") /\ elements = <<>> => Len(draws) < MaxDraws

=============================================================================
