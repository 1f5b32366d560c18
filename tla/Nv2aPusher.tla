------------------------------ MODULE Nv2aPusher ------------------------------
(***************************************************************************)
(* pfifo_run_pusher word by word: the DMA engine that reads the driver's   *)
(* push buffer, a ring of command headers, data words, jumps and calls,    *)
(* and hands methods to PGRAPH, several words at a time where a handler    *)
(* takes them.  Nv2aFifo has the threads and locks around one step of it.  *)
(*                                                                         *)
(* Addresses count words.  The ring is 0..Ring-1; behind it, at Ring, is a *)
(* subroutine of four words.                                               *)
(***************************************************************************)
EXTENDS Integers, Sequences

CONSTANTS
  Ring,         \* words in the ring
  Commands,     \* the commands the driver writes, members of CommandKinds
  MaxCommands   \* bound: commands written in a behaviour

VARIABLES
  mem,          \* the words
  get, put,     \* NV_PFIFO_CACHE1_DMA_GET, NV_PFIFO_CACHE1_DMA_PUT
  state,        \* NV_PFIFO_CACHE1_DMA_STATE: method, type, count
  subroutine,   \* NV_PFIFO_CACHE1_DMA_SUBROUTINE: return address or NoReturn
  error,        \* NV_PFIFO_CACHE1_DMA_STATE_ERROR is set
  prim,         \* pg->primitive_mode, 0 being invalid
  wr,           \* where the driver writes next
  commands,     \* how many commands it has written
  sent, delivered  \* methods written by the driver, consumed by PGRAPH

driver == <<mem, wr, commands, sent>>
pusher == <<get, state, subroutine, error, prim, delivered>>
vars == <<driver, put, pusher>>

-----------------------------------------------------------------------------
(* Words: a header, a jump of either form, a call, a return or data. *)
Word(kind, arg, count) == [kind |-> kind, arg |-> arg, count |-> count]
Data(val) == Word("data", val, 0)

(* Method addresses.  SET_MATRIX stands for the methods of DEF_METHOD_INC, a
   range of consecutive ones; INLINE_ARRAY for those of DEF_METHOD_NON_INC. *)
SET_MATRIX == 20
SET_MATRIX_END == 22
INLINE_ARRAY == 30
SET_BEGIN_END == 40
DRAW_ARRAYS == 50

OP_END == 0
NoReturn == Ring + 4

CommandKinds ==
  [matrix |-> <<Word("inc", SET_MATRIX, 2), Data(1), Data(2)>>,
   begin  |-> <<Word("inc", SET_BEGIN_END, 1), Data(3)>>,
   end    |-> <<Word("inc", SET_BEGIN_END, 1), Data(OP_END)>>,
   draws  |-> <<Word("non", DRAW_ARRAYS, 2), Data(1), Data(2)>>,
   call   |-> <<Word("call", Ring, 0)>>]

Subroutine ==
  <<Word("non", INLINE_ARRAY, 2), Data(1), Data(2), Word("return", 0, 0)>>

(* The words 32 bits of byte address can reach: 2^30. *)
AddressSpace == 1073741824

ASSUME RingAssumption ==
  Ring \in Nat /\ Ring > 4 /\ Ring + 4 <= AddressSpace
ASSUME CommandsAssumption == Commands \subseteq DOMAIN CommandKinds
ASSUME BoundAssumption == MaxCommands \in Nat

(* The methods a command stands for: its header's method with each data word,
   the method growing with each word of an increasing command. *)
Methods(words) ==
  IF words[1].kind = "call" THEN <<<<INLINE_ARRAY, 1>>, <<INLINE_ARRAY, 2>>>>
  ELSE [i \in 1..words[1].count |->
         <<words[1].arg + (IF words[1].kind = "inc" THEN i - 1 ELSE 0),
           words[i + 1].arg>>]

Init ==
  /\ mem = [a \in 0..Ring+3 |-> IF a < Ring THEN Data(0) ELSE Subroutine[a - Ring + 1]]
  /\ get = 0 /\ put = 0 /\ wr = 0 /\ commands = 0
  /\ state = [method |-> 0, type |-> "inc", count |-> 0]
  /\ subroutine = NoReturn /\ error = FALSE /\ prim = 0
  /\ sent = <<>> /\ delivered = <<>>

-----------------------------------------------------------------------------
(* The driver (external): it writes a whole command where there is room, the
   last word of the ring being kept for a jump back to its start, and moves PUT
   over what it has written, by whole commands or a word at a time. *)
HasRoom(n) ==
  IF wr >= get THEN wr + n < Ring ELSE wr + n < get

Written(a, words) ==
  [i \in DOMAIN mem |-> IF i \in a..(a + Len(words) - 1) THEN words[i - a + 1] ELSE mem[i]]

Write(c) ==
  LET words == CommandKinds[c] IN
  /\ commands < MaxCommands
  /\ get < Ring /\ HasRoom(Len(words))
  /\ mem' = Written(wr, words)
  /\ wr' = wr + Len(words)
  /\ commands' = commands + 1
  /\ sent' = sent \o Methods(words)
  /\ UNCHANGED <<put, pusher>>

(* Near its end the ring is closed with a jump, of either form, to its start. *)
Wrap(kind) ==
  /\ commands < MaxCommands
  /\ get \in 1..wr /\ wr >= Ring - 4
  /\ mem' = [mem EXCEPT ![wr] = Word(kind, 0, 0)]
  /\ wr' = 0
  /\ UNCHANGED <<put, commands, sent, pusher>>

(* user_write(NV_USER_DMA_PUT). *)
Put(a) ==
  /\ a # put
  /\ IF put <= wr THEN a \in put..wr
     ELSE a \in 0..wr \/ (a > put /\ \A i \in put..(a - 1) : mem[i].kind \notin {"jump", "oldjump"})
  /\ put' = a
  /\ UNCHANGED <<driver, pusher>>

-----------------------------------------------------------------------------
(* size_t num_words_available = (dma_put_v - dma_get_v) / 4, in 32 bits: very
   many when PUT is behind GET. *)
Available == IF put >= get THEN put - get ELSE AddressSpace - (get - put)

Least(a, b) == IF a < b THEN a ELSE b

WordAt(a) == IF a \in DOMAIN mem THEN mem[a] ELSE Data(0)

(* How many words pgraph_method's handler takes of the n it is offered:
   pgraph_method_inc, pgraph_method_non_inc, or one. *)
Consumed(m, type, n) ==
  IF m \in SET_MATRIX..(SET_MATRIX_END - 1) /\ type = "inc"
    THEN Least(n, SET_MATRIX_END - m)
  ELSE IF m = INLINE_ARRAY /\ type = "non" THEN n
  ELSE 1

(* "Squash repeated BEGIN,DRAW_ARRAYS,END": after a DRAW_ARRAYS the words
   ahead are an END, a BEGIN with the same primitive and a DRAW_ARRAYS. *)
IsHeader(a, m) == WordAt(a).kind \in {"inc", "non"} /\ WordAt(a).arg = m

(* Mutated: the words ahead need not have been released. *)
Squashable_LooksAhead ==
  /\ state.method = DRAW_ARRAYS
  /\ IsHeader(get + 1, SET_BEGIN_END) /\ WordAt(get + 2) = Data(OP_END)
  /\ IsHeader(get + 3, SET_BEGIN_END) /\ WordAt(get + 4) = Data(prim)
  /\ IsHeader(get + 5, DRAW_ARRAYS)

Squashable ==
  /\ state.method = DRAW_ARRAYS /\ Available >= 7
  /\ IsHeader(get + 1, SET_BEGIN_END) /\ WordAt(get + 2) = Data(OP_END)
  /\ IsHeader(get + 3, SET_BEGIN_END) /\ WordAt(get + 4) = Data(prim)
  /\ IsHeader(get + 5, DRAW_ARRAYS)

(* Two method and parameter pairs skipped by a squash. *)
Squashed == <<<<WordAt(get + 1).arg, WordAt(get + 2).arg>>,
              <<WordAt(get + 3).arg, WordAt(get + 4).arg>>>>

(* SET_BEGIN_END keeps the first BEGIN of nested ones. *)
NextPrim(m, val) ==
  IF m # SET_BEGIN_END THEN prim
  ELSE IF val = OP_END THEN 0 ELSE IF prim = 0 THEN val ELSE prim

(* The method calls made for n data words. *)
Taken(n) ==
  [i \in 1..n |-> <<state.method + (IF state.type = "inc" THEN i - 1 ELSE 0),
                   WordAt(get + i - 1).arg>>]

(* Mutated: a squash skips one pair. *)
DataWord_SkipsOnePair(squash) ==
  /\ get # put /\ ~error /\ state.count > 0
  /\ squash => Squashable
  /\ delivered' = delivered \o Taken(1) \o (IF squash THEN Squashed ELSE <<>>)
  /\ prim' = NextPrim(state.method, WordAt(get).arg)
  /\ get' = get + 1 + (IF squash THEN 2 ELSE 0)
  /\ state' = [state EXCEPT !.count = @ - 1]
  /\ UNCHANGED <<driver, put, subroutine, error>>

(* A data word: the puller is given the rest of the command that PUT has
   released, and GET moves over all that was taken.  Whether PGRAPH's batch
   allows a squash is Nv2aDraw's business. *)
DataWord(squash) ==
  /\ get # put /\ ~error /\ state.count > 0
  /\ squash => Squashable
  /\ LET n == Consumed(state.method, state.type, Least(state.count, Available))
         k == n + IF squash THEN 4 ELSE 0
     IN /\ delivered' = delivered \o Taken(n) \o (IF squash THEN Squashed ELSE <<>>)
        /\ prim' = NextPrim(state.method, WordAt(get).arg)
        /\ get' = get + k
        /\ state' = [state EXCEPT
             !.method = IF state.type = "inc" THEN @ + k ELSE @,
             !.count = @ - Least(@, k)]
  /\ UNCHANGED <<driver, put, subroutine, error>>

(* The first word of a command. *)
Header ==
  /\ get # put /\ ~error /\ state.count = 0
  /\ WordAt(get).kind \in {"inc", "non"}
  /\ state' = [method |-> WordAt(get).arg, type |-> WordAt(get).kind,
               count |-> WordAt(get).count]
  /\ get' = get + 1
  /\ UNCHANGED <<driver, put, subroutine, error, prim, delivered>>

(* Mutated: a jump does not move GET. *)
Jump_Stays ==
  /\ get # put /\ ~error /\ state.count = 0
  /\ WordAt(get).kind \in {"jump", "oldjump"}
  /\ UNCHANGED vars

Jump ==
  /\ get # put /\ ~error /\ state.count = 0
  /\ WordAt(get).kind \in {"jump", "oldjump"}
  /\ get' = WordAt(get).arg
  /\ UNCHANGED <<driver, put, state, subroutine, error, prim, delivered>>

(* Mutated: the call is passed over. *)
Call_PassedOver ==
  /\ get # put /\ ~error /\ state.count = 0
  /\ WordAt(get).kind = "call"
  /\ get' = get + 1
  /\ UNCHANGED <<driver, put, state, subroutine, error, prim, delivered>>

(* A call inside a subroutine is an error and GET stays. *)
Call ==
  /\ get # put /\ ~error /\ state.count = 0
  /\ WordAt(get).kind = "call"
  /\ IF subroutine # NoReturn
       THEN error' = TRUE /\ UNCHANGED <<get, subroutine>>
       ELSE /\ subroutine' = get + 1
            /\ get' = WordAt(get).arg
            /\ UNCHANGED error
  /\ UNCHANGED <<driver, put, state, prim, delivered>>

(* Mutated: the subroutine state is not cleared. *)
Return_KeepsState ==
  /\ get # put /\ ~error /\ state.count = 0
  /\ WordAt(get).kind = "return" /\ subroutine # NoReturn
  /\ get' = subroutine
  /\ UNCHANGED <<driver, put, state, subroutine, error, prim, delivered>>

(* A return outside a subroutine is an error too, and GET moves on. *)
Return ==
  /\ get # put /\ ~error /\ state.count = 0
  /\ WordAt(get).kind = "return"
  /\ IF subroutine = NoReturn
       THEN error' = TRUE /\ get' = get + 1 /\ UNCHANGED subroutine
       ELSE get' = subroutine /\ subroutine' = NoReturn /\ UNCHANGED error
  /\ UNCHANGED <<driver, put, state, prim, delivered>>

Pusher == (\E squash \in BOOLEAN : DataWord(squash)) \/ Header \/ Jump \/ Call \/ Return

Next ==
  \/ \E c \in Commands : Write(c)
  \/ \E kind \in {"jump", "oldjump"} : Wrap(kind)
  \/ \E a \in 0..Ring : Put(a)
  \/ Pusher

Spec == Init /\ [][Next]_vars /\ WF_vars(Pusher)

-----------------------------------------------------------------------------
(* The push buffer is a channel: methods reach PGRAPH once and in order,
   whatever way PUT cuts the commands, handlers take several words, the ring
   wraps or a squash skips words. *)
Channel == INSTANCE MethodChannel WITH Method <- Nat \X Nat

IsChannel == Channel!Spec

(* A well-formed push buffer never puts the DMA engine in its error state,
   which the code treats as fatal. *)
NoError == ~error

(* The pusher never reads a word the driver has not released: going round the
   ring, PUT is met before the driver's write position. *)
NeverAhead ==
  get < Ring =>
    \/ get <= put /\ put <= wr
    \/ wr < get /\ get <= put
    \/ put <= wr /\ wr < get

(* When GET meets PUT, nothing written is left undelivered and no command is
   half read, so a driver may wait for GET to learn that its work is done. *)
IdleIsDone ==
  get = put /\ put = wr => Len(delivered) = Len(sent) /\ state.count = 0

(* The words that PUT has released are all consumed in the end. *)
Drains == []<>(get = put)
=============================================================================
