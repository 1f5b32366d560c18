--------------------------- MODULE Nv2aInlineBuffer ---------------------------
(***************************************************************************)
(* Vertices sent attribute by attribute.  Setting an attribute changes its *)
(* current value; setting the last part of the position issues a vertex    *)
(* with the current values of all.  An attribute gets a buffer of its own, *)
(* filled with its old value, only when it changes after the first vertex  *)
(* of a batch; until then its one value stands for all vertices.           *)
(***************************************************************************)
EXTENDS Naturals

CONSTANTS
  Attributes,   \* 0..NV2A_VERTEXSHADER_ATTRIBUTES-1
  Position,     \* NV2A_VERTEX_ATTR_POSITION
  Values,       \* what an attribute can be
  Default,      \* its value when the machine starts
  MaxVertices   \* NV2A_MAX_BATCH_LENGTH

ASSUME PositionAssumption == Position \in Attributes
ASSUME DefaultAssumption == Default \in Values
ASSUME MaxVerticesAssumption == MaxVertices \in Nat

VARIABLES
  value,        \* attribute -> inline_value
  populated,    \* attribute -> inline_buffer_populated
  inlineBuffer, \* attribute -> inline_buffer, a value for each vertex
  length,       \* inline_buffer_length
  inBlock,      \* primitive_mode # PRIM_TYPE_INVALID
  issued        \* the values each vertex of the batch was issued with

inlineVars == <<value, populated, inlineBuffer, length, inBlock, issued>>

Slots == 0..(MaxVertices - 1)

InlineTypeOK ==
  /\ value \in [Attributes -> Values]
  /\ populated \in [Attributes -> BOOLEAN]
  /\ inlineBuffer \in [Attributes -> [Slots -> Values]]
  /\ length \in 0..MaxVertices
  /\ inBlock \in BOOLEAN
  /\ issued \in [Slots -> [Attributes -> Values]]

InlineInit ==
  /\ value = [a \in Attributes |-> Default]
  /\ populated = [a \in Attributes |-> FALSE]
  /\ inlineBuffer = [a \in Attributes |-> [i \in Slots |-> Default]]
  /\ length = 0 /\ inBlock = FALSE
  /\ issued = [i \in Slots |-> [a \in Attributes |-> Default]]

-----------------------------------------------------------------------------
(* Mutated: the vertices already issued are not given the old value. *)
Allocated_NoFill(a) == inlineBuffer[a]

(* pgraph_allocate_inline_buffer_vertices: attribute a's buffer afterwards. *)
Allocated(a) ==
  IF populated[a] \/ length = 0 THEN inlineBuffer[a]
  ELSE [i \in Slots |-> IF i < length THEN value[a] ELSE inlineBuffer[a][i]]

(* A part of an attribute that issues no vertex is set. *)
SetAttribute(a, v) ==
  /\ populated' = [populated EXCEPT ![a] = @ \/ length > 0]
  /\ inlineBuffer' = [inlineBuffer EXCEPT ![a] = Allocated(a)]
  /\ value' = [value EXCEPT ![a] = v]
  /\ UNCHANGED <<length, inBlock, issued>>

(* Mutated: the room in the buffers is not looked at. *)
SetPosition_NoBound(v) ==
  /\ populated' = [populated EXCEPT ![Position] = @ \/ length > 0]
  /\ value' = [value EXCEPT ![Position] = v]
  /\ LET full == [inlineBuffer EXCEPT ![Position] = Allocated(Position)] IN
     inlineBuffer' = [a \in Attributes |->
                 IF populated'[a] THEN [full[a] EXCEPT ![length] = value'[a]]
                 ELSE full[a]]
  /\ length' = length + 1
  /\ issued' = [issued EXCEPT ![length] = value']
  /\ UNCHANGED inBlock

(* The last part of the position is set: pgraph_finish_inline_buffer_vertex
   adds the current values to every buffer in use. *)
SetPosition(v) ==
  /\ length < MaxVertices
  /\ populated' = [populated EXCEPT ![Position] = @ \/ length > 0]
  /\ value' = [value EXCEPT ![Position] = v]
  /\ LET full == [inlineBuffer EXCEPT ![Position] = Allocated(Position)] IN
     inlineBuffer' = [a \in Attributes |->
                 IF populated'[a] THEN [full[a] EXCEPT ![length] = value'[a]]
                 ELSE full[a]]
  /\ length' = length + 1
  /\ issued' = [issued EXCEPT ![length] = value']
  /\ UNCHANGED inBlock

(* SET_BEGIN_END, a primitive: the batch is emptied, but attributes that a
   batch never drawn has left populated stay so. *)
InlineBegin ==
  /\ inBlock' = TRUE
  /\ length' = IF inBlock THEN length ELSE 0
  /\ UNCHANGED <<value, populated, inlineBuffer, issued>>

(* SET_BEGIN_END, OP_END, when the batch is drawn: the buffers in use become
   free and their attributes take the values of the last vertex. *)
EndDrawn ==
  /\ inBlock /\ inBlock' = FALSE
  /\ length > 0 /\ length' = 0
  /\ populated' = [a \in Attributes |-> FALSE]
  /\ value' = [a \in Attributes |->
                IF populated[a] THEN inlineBuffer[a][length - 1] ELSE value[a]]
  /\ UNCHANGED <<inlineBuffer, issued>>

(* OP_END when it is not: outside a block, with an empty batch, with no
   surface bound or all writes masked. *)
EndDropped ==
  /\ inBlock' = FALSE /\ length' = 0
  /\ UNCHANGED <<value, populated, inlineBuffer, issued>>

(* A batch of ranges or elements is drawn instead, at END or to expand it:
   pgraph_update_inline_value gives attributes the values of a vertex in
   memory. *)
DrawFromMemory(new, ends) ==
  /\ inBlock /\ length = 0
  /\ value' = new
  /\ inBlock' = ~ends
  /\ UNCHANGED <<populated, inlineBuffer, length, issued>>

InlineNext ==
  \/ \E a \in Attributes, v \in Values : SetAttribute(a, v)
  \/ \E v \in Values : SetPosition(v)
  \/ InlineBegin \/ EndDrawn \/ EndDropped
  \/ \E new \in [Attributes -> Values], ends \in BOOLEAN : DrawFromMemory(new, ends)

InlineSpec == InlineInit /\ [][InlineNext]_inlineVars

-----------------------------------------------------------------------------
(* What attribute a of vertex i is drawn with: its buffer, or its one value. *)
DrawnWith(i, a) == IF populated[a] THEN inlineBuffer[a][i] ELSE value[a]

(* Every vertex of the batch is drawn with the attributes it was issued with,
   whichever attributes change afterwards, and whatever a dropped batch left
   in the buffers and in inline_buffer_populated. *)
DrawnAsIssued ==
  \A i \in Slots : i < length =>
    \A a \in Attributes : DrawnWith(i, a) = issued[i][a]

=============================================================================
