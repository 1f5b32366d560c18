--------------------------- MODULE Nv2aPusherProofs ---------------------------
(* For a ring of any size, any commands and any number of them: the pusher
   stays between the driver and PUT, never meets a call or a return where it is
   an error, and hands PGRAPH the methods sent, once and in order. *)
EXTENDS Nv2aPusher, TLAPS

(* Memory x holds a whole command from a up to e. *)
Command(x, a, e) ==
  \/ x[a].kind = "call" /\ x[a].arg = Ring /\ e = a + 1
  \/ /\ x[a].kind \in {"inc", "non"} /\ x[a].arg \in Nat /\ x[a].count \in 1..2
     /\ x[a].arg = SET_BEGIN_END => x[a].count = 1
     /\ e = a + x[a].count + 1
     /\ \A i \in (a + 1)..(e - 1) : x[i].kind = "data"

(* Where the pusher is in the ring, or will be when the subroutine returns. *)
Place == IF get < Ring THEN get ELSE subroutine

(* Behind the ring is the subroutine. *)
Loaded ==
  /\ mem = [a \in 0..Ring+3 |-> mem[a]]
  /\ mem[Ring] = Word("non", INLINE_ARRAY, 2)
  /\ mem[Ring + 1] = Data(1) /\ mem[Ring + 2] = Data(2)
  /\ mem[Ring + 3].kind = "return"

Types ==
  /\ get \in 0..Ring+3 /\ put \in 0..Ring-1 /\ wr \in 0..Ring-1
  /\ subroutine \in 0..Ring-1 \cup {NoReturn}
  /\ subroutine = NoReturn <=> get < Ring
  /\ state \in [method : Nat, type : {"inc", "non"}, count : Nat]

(* Inside the subroutine, where in it. *)
InSubroutine ==
  \/ get \in {Ring, Ring + 3} /\ state.count = 0
  \/ /\ get \in {Ring + 1, Ring + 2} /\ state.count = Ring + 3 - get
     /\ state.method = INLINE_ARRAY /\ state.type = "non"

(* In the ring, the rest of a command is data. *)
InRing(S) ==
  /\ get + state.count \in S
  /\ \A i \in get..(get + state.count - 1) : mem[i].kind = "data"

(* S are the places in the ring where a command begins, from the pusher to the
   driver.  When the driver is ahead by less than a turn, these lie between
   the two; when it has wrapped, they go up to the jump at J and on from 0. *)
Between(S, J) ==
  \/ Place <= wr /\ J = wr /\ S \subseteq Place..wr
  \/ /\ wr < Place /\ Place <= J /\ 0 \in S /\ S \subseteq 0..wr \cup Place..J
     /\ mem[J].kind \in {"jump", "oldjump"} /\ mem[J].arg = 0

(* PUT is between the pusher and the driver too. *)
Released(J) ==
  \/ Place <= put /\ put <= wr
  \/ wr < Place /\ Place <= put /\ put <= J
  \/ put <= wr /\ wr < Place

(* From every place of S but the driver's and the jump, a whole command leads
   to another one. *)
Chain(S, J) ==
  /\ wr \in S /\ J \in S
  /\ \A a \in S \ {wr, J} :
       \E e \in S : a < e /\ (a < wr => e <= wr) /\ Command(mem, a, e)
  /\ Between(S, J) /\ Released(J)

Position(S) ==
  IF get < Ring THEN InRing(S) ELSE InSubroutine /\ subroutine \in S

(* The commands of the ring and the pusher's place among them. *)
Laid(S, J) ==
  Types /\ Loaded /\ error = FALSE /\ Chain(S, J) /\ Position(S)

(* The methods sent after the first `from` are k of method m, with the words
   from g on. *)
Listed(from, k, m, type, g) ==
  \A i \in 1..k :
    sent[from + i] = <<m + (IF type = "inc" THEN i - 1 ELSE 0), mem[g + i - 1].arg>>

(* D[a] methods had been sent when the driver came to a: so has the command at
   a been counted. *)
Piece(a, D) ==
  /\ mem[a].kind \in {"jump", "oldjump"} => D[0] = D[a]
  /\ mem[a].kind = "call" =>
       D[a + 1] = D[a] + 2 /\ Listed(D[a], 2, INLINE_ARRAY, "non", Ring + 1)
  /\ mem[a].kind \in {"inc", "non"} =>
       /\ D[a + mem[a].count + 1] = D[a] + mem[a].count
       /\ Listed(D[a], mem[a].count, mem[a].arg, mem[a].kind, a + 1)

Numbered(S, D) ==
  /\ D \in [0..Ring-1 -> Nat] /\ D[wr] = Len(sent)
  /\ \A a \in S : D[a] <= Len(sent)
  /\ \A a \in S \ {wr} : Piece(a, D)

(* PGRAPH has had the methods sent, up to the place the pusher is at. *)
Delivered(D) ==
  LET d == Len(delivered) IN
  /\ \A i \in 1..d : delivered[i] = sent[i]
  /\ get < Ring =>
       /\ d + state.count = D[get + state.count]
       /\ Listed(d, state.count, state.method, state.type, get)
  /\ get = Ring =>
       d + 2 = D[subroutine] /\ Listed(d, 2, INLINE_ARRAY, "non", Ring + 1)
  /\ Ring < get =>
       /\ d + state.count = D[subroutine]
       /\ Listed(d, state.count, INLINE_ARRAY, "non", get)

Lists == sent \in Seq(Nat \X Nat) /\ delivered \in Seq(Nat \X Nat)

(* The inductive invariant. *)
Inv ==
  /\ Lists
  /\ \E S \in SUBSET (0..Ring-1), J \in 0..Ring-1 :
       Laid(S, J) /\ \E D : Numbered(S, D) /\ Delivered(D)

-----------------------------------------------------------------------------
(* What the driver writes is a command. *)
LEMMA WrittenIsCommand ==
  ASSUME NEW c \in Commands, NEW x, NEW a \in Nat,
         \A i \in 1..Len(CommandKinds[c]) : x[a + i - 1] = CommandKinds[c][i]
  PROVE  /\ Command(x, a, a + Len(CommandKinds[c]))
         /\ Len(CommandKinds[c]) \in 1..3
<1>1. c \in {"matrix", "begin", "end", "draws", "call"}
  BY CommandsAssumption DEF CommandKinds
<1> DEFINE w == CommandKinds[c]
<1>2. CASE c = "call"
  <2>1. Len(w) = 1 /\ w[1] = Word("call", Ring, 0)
    BY <1>2 DEF CommandKinds
  <2>2. x[a] = w[1]
    BY <2>1
  <2> QED
    BY <2>1, <2>2 DEF Command, Word
<1>3. CASE c \in {"begin", "end"}
  <2>1. Len(w) = 2 /\ w[1] = Word("inc", SET_BEGIN_END, 1) /\ w[2].kind = "data"
    BY <1>3 DEF CommandKinds, Data, Word
  <2>2. x[a] = w[1] /\ x[a + 1] = w[2]
    BY <2>1
  <2> QED
    BY <2>1, <2>2 DEF Command, Word, SET_BEGIN_END
<1>4. CASE c \in {"matrix", "draws"}
  <2>1. /\ Len(w) = 3 /\ w[2].kind = "data" /\ w[3].kind = "data"
        /\ w[1] \in {Word("inc", SET_MATRIX, 2), Word("non", DRAW_ARRAYS, 2)}
    BY <1>4 DEF CommandKinds, Data, Word
  <2>2. x[a] = w[1] /\ x[a + 1] = w[2] /\ x[a + 2] = w[3]
    BY <2>1
  <2> QED
    BY <2>1, <2>2 DEF Command, Word, SET_BEGIN_END, SET_MATRIX, DRAW_ARRAYS
<1> QED
  BY <1>1, <1>2, <1>3, <1>4

(* Memory that differs elsewhere holds the command too. *)
LEMMA CommandStays ==
  ASSUME NEW x, NEW y, NEW a \in Nat, NEW e \in Nat, a < e,
         Command(x, a, e), \A i \in a..(e - 1) : y[i] = x[i]
  PROVE  Command(y, a, e)
BY DEF Command

(* Init: an empty ring. *)
LEMMA InitLaid == Init => Laid({0}, 0)
<1> SUFFICES ASSUME Init PROVE Laid({0}, 0)
  OBVIOUS
<1>1. Types
  BY RingAssumption DEF Init, Types, NoReturn
<1>2. Chain({0}, 0) /\ Position({0})
  <2>1. /\ get = 0 /\ put = 0 /\ wr = 0 /\ state.count = 0
        /\ Ring \in Nat /\ 0 < Ring
    BY RingAssumption DEF Init
  <2>2. Place = 0
    BY <2>1 DEF Place
  <2>3. Between({0}, 0) /\ Released(0)
    BY <2>1, <2>2 DEF Between, Released
  <2>4. Chain({0}, 0)
    BY <2>1, <2>3 DEF Chain
  <2> QED
    BY <2>1, <2>4 DEF Position, InRing
<1>3. Loaded
  <2>1. /\ Subroutine[1] = Word("non", INLINE_ARRAY, 2) /\ Subroutine[2] = Data(1)
        /\ Subroutine[3] = Data(2) /\ Subroutine[4].kind = "return"
    BY DEF Subroutine, Word
  <2>2. \A i \in 0..3 : mem[Ring + i] = Subroutine[i + 1]
    BY RingAssumption DEF Init
  <2>3. Ring + 0 = Ring
    BY RingAssumption
  <2>4. mem = [a \in 0..Ring+3 |-> mem[a]]
    BY DEF Init
  <2> QED
    BY <2>1, <2>2, <2>3, <2>4 DEF Loaded
<1> QED
  BY <1>1, <1>2, <1>3 DEF Laid, Init

-----------------------------------------------------------------------------
(* The driver. *)

(* Write leaves what it does not write. *)
LEMMA WrittenElsewhere ==
  ASSUME Loaded, Types, NEW c \in Commands, Write(c)
  PROVE  /\ get < Ring /\ wr + Len(CommandKinds[c]) < Ring
         /\ Len(CommandKinds[c]) \in 1..3
         /\ mem' = [a \in 0..Ring+3 |-> mem'[a]]
         /\ \A i \in 0..Ring+3 :
              i \notin wr..(wr + Len(CommandKinds[c]) - 1) => mem'[i] = mem[i]
         /\ Command(mem', wr, wr + Len(CommandKinds[c]))
         /\ \A i \in 1..Len(CommandKinds[c]) : mem'[wr + i - 1] = CommandKinds[c][i]
<1> DEFINE n == Len(CommandKinds[c])
<1>0. n \in 1..3
  <2>1. c \in {"matrix", "begin", "end", "draws", "call"}
    BY CommandsAssumption DEF CommandKinds
  <2> QED
    BY <2>1 DEF CommandKinds
<1> HIDE DEF n
<1>1. get < Ring /\ wr + n < Ring
  BY <1>0, RingAssumption DEF Write, HasRoom, Types, n
<1>2. mem' = [i \in 0..Ring+3 |-> IF i \in wr..(wr + n - 1)
                                  THEN CommandKinds[c][i - wr + 1] ELSE mem[i]]
  BY DEF Write, Written, Loaded, n
<1>3. \A i \in 0..Ring+3 : i \notin wr..(wr + n - 1) => mem'[i] = mem[i]
  BY <1>2
<1>4. \A i \in 1..n : mem'[wr + i - 1] = CommandKinds[c][i]
  <2> SUFFICES ASSUME NEW i \in 1..n PROVE mem'[wr + i - 1] = CommandKinds[c][i]
    OBVIOUS
  <2>1. wr + i - 1 \in 0..Ring+3 /\ wr + i - 1 \in wr..(wr + n - 1)
        /\ (wr + i - 1) - wr + 1 = i
    BY <1>0, <1>1, RingAssumption DEF Types
  <2> QED
    BY <1>2, <2>1
<1>5. Command(mem', wr, wr + n)
  <2>1. wr \in Nat
    BY RingAssumption DEF Types
  <2> QED
    BY <1>4, <2>1, WrittenIsCommand, Zenon DEF n
<1>6. mem' = [a \in 0..Ring+3 |-> mem'[a]]
  BY <1>2
<1> QED
  BY <1>0, <1>1, <1>3, <1>4, <1>5, <1>6 DEF n

(* What is written where the driver is, n words with room for them, leaves the
   commands alone. *)
LEMMA Away ==
  ASSUME NEW S \in SUBSET (0..Ring-1), NEW J \in 0..Ring-1, Laid(S, J),
         get < Ring, NEW n \in Nat, 0 < n,
         get <= wr \/ wr + n < get,
         \A i \in 0..Ring+3 : i \notin wr..(wr + n - 1) => mem'[i] = mem[i]
  PROVE  /\ \/ get <= wr /\ J = wr /\ S \subseteq get..wr
            \/ /\ wr + n < get /\ get <= J /\ 0 \in S /\ S \subseteq 0..wr \cup get..J
               /\ mem[J].kind \in {"jump", "oldjump"} /\ mem[J].arg = 0 /\ mem'[J] = mem[J]
         /\ \A a \in S \ {wr, J} : \E e \in S :
              /\ a < e /\ (e <= wr \/ wr + n < a) /\ Command(mem, a, e)
              /\ \A i \in a..(e - 1) : mem'[i] = mem[i]
         /\ \A i \in get..(get + state.count - 1) : mem'[i] = mem[i]
<1>0. Types /\ Chain(S, J) /\ Position(S)
  BY DEF Laid
<1>1. /\ Ring \in Nat /\ get \in Nat /\ wr \in Nat /\ wr < Ring /\ state.count \in Nat
      /\ Place = get
  BY <1>0, RingAssumption DEF Types, Place
<1>2. \/ get <= wr /\ J = wr /\ S \subseteq get..wr
      \/ /\ wr + n < get /\ get <= J /\ 0 \in S /\ S \subseteq 0..wr \cup get..J
         /\ mem[J].kind \in {"jump", "oldjump"} /\ mem[J].arg = 0
  <2>1. Between(S, J)
    BY <1>0 DEF Chain
  <2> QED
    BY <1>1, <2>1 DEF Between
<1>3. wr + n < get => mem'[J] = mem[J]
  BY <1>1, <1>2
<1>4. ASSUME NEW a \in S \ {wr, J}
      PROVE  \E e \in S : /\ a < e /\ (e <= wr \/ wr + n < a) /\ Command(mem, a, e)
                          /\ \A i \in a..(e - 1) : mem'[i] = mem[i]
  <2>1. PICK e \in S : a < e /\ (a < wr => e <= wr) /\ Command(mem, a, e)
    BY <1>0 DEF Chain
  <2>2. a \in Nat /\ e \in Nat /\ a < e /\ e < Ring
    BY <1>1, <2>1
  <2>3. e <= wr \/ wr + n < a
    BY <1>1, <1>2, <2>1, <2>2
  <2>4. \A i \in a..(e - 1) : mem'[i] = mem[i]
    BY <1>1, <2>2, <2>3
  <2> QED
    BY <2>1, <2>3, <2>4
<1>5. \A i \in get..(get + state.count - 1) : mem'[i] = mem[i]
  <2>1. get + state.count \in S
    BY <1>0 DEF Position, InRing
  <2>2. get + state.count <= wr \/ wr + n < get
    BY <1>1, <1>2, <2>1
  <2> QED
    BY <1>1, <2>1, <2>2
<1> QED
  BY <1>2, <1>3, <1>4, <1>5, Zenon

(* Write puts a command at the end of the chain. *)
LEMMA WriteLaid ==
  ASSUME NEW S \in SUBSET (0..Ring-1), NEW J \in 0..Ring-1, Laid(S, J),
         NEW c \in Commands, Write(c)
  PROVE  \E T \in SUBSET (0..Ring-1), K \in 0..Ring-1 :
           T = S \cup {wr'} /\ Laid(T, K)'
<1> DEFINE n == Len(CommandKinds[c])
<1>0. Types /\ Loaded /\ error = FALSE
  BY DEF Laid
<1>1. /\ get < Ring /\ wr + n < Ring /\ n \in 1..3
      /\ mem' = [a \in 0..Ring+3 |-> mem'[a]]
      /\ \A i \in 0..Ring+3 : i \notin wr..(wr + n - 1) => mem'[i] = mem[i]
      /\ Command(mem', wr, wr + n)
  BY <1>0, WrittenElsewhere
<1>2. /\ wr' = wr + n
      /\ UNCHANGED <<put, get, state, subroutine, error>>
      /\ IF wr >= get THEN wr + n < Ring ELSE wr + n < get
  BY DEF Write, HasRoom, pusher
<1> HIDE DEF n
<1>3. /\ Ring \in Nat /\ n \in 1..3 /\ get \in Nat /\ get < Ring /\ put \in Nat
      /\ wr \in Nat /\ wr + n < Ring /\ state.count \in Nat
  BY <1>0, <1>1, RingAssumption DEF Types
<1>4. \A i \in 0..Ring+3 : i \notin wr..(wr + n - 1) => mem'[i] = mem[i]
  BY <1>1
<1>5. Types'
  BY <1>0, <1>2, <1>3 DEF Types
<1>6. Loaded'
  <2>1. \A i \in {Ring, Ring + 1, Ring + 2, Ring + 3} : mem'[i] = mem[i]
    BY <1>3, <1>4
  <2> QED
    BY <1>0, <1>1, <2>1 DEF Loaded
<1>7. Chain(S, J) /\ Position(S)
  BY DEF Laid
<1>8. Place = get /\ Place' = get
  BY <1>1, <1>2 DEF Place
<1>9. /\ \/ get <= wr /\ J = wr /\ S \subseteq get..wr
         \/ /\ wr + n < get /\ get <= J /\ 0 \in S /\ S \subseteq 0..wr \cup get..J
            /\ mem[J].kind \in {"jump", "oldjump"} /\ mem[J].arg = 0 /\ mem'[J] = mem[J]
      /\ \A a \in S \ {wr, J} : \E e \in S :
           /\ a < e /\ (e <= wr \/ wr + n < a) /\ Command(mem, a, e)
           /\ \A i \in a..(e - 1) : mem'[i] = mem[i]
      /\ \A i \in get..(get + state.count - 1) : mem'[i] = mem[i]
  <2>1. n \in Nat /\ 0 < n /\ (get <= wr \/ wr + n < get)
    BY <1>2, <1>3
  <2> QED
    BY <1>1, <1>4, <2>1, Away
<1>10. PICK K \in 0..Ring-1 : K = IF get <= wr THEN wr + n ELSE J
  <2>1. wr + n \in 0..Ring-1 /\ J \in 0..Ring-1
    BY <1>3, <1>7
  <2> QED
    BY <2>1
<1>11. PICK T \in SUBSET (0..Ring-1) : T = S \cup {wr + n}
  <2>1. wr + n \in 0..Ring-1
    BY <1>3
  <2>2. S \cup {wr + n} \in SUBSET (0..Ring-1)
    BY <1>7, <2>1, Zenon
  <2> QED
    BY <2>2, Zenon
<1>12. Between(T, K)'
  <2>1. CASE get <= wr
    <3>1. S \subseteq get..wr
      BY <1>3, <1>9, <2>1
    <3>2. T \subseteq get..(wr + n) /\ K = wr + n
      BY <1>3, <1>10, <1>11, <2>1, <3>1
    <3> QED
      BY <1>2, <1>3, <1>8, <2>1, <3>2 DEF Between
  <2>2. CASE ~(get <= wr)
    <3>1. /\ wr + n < get /\ get <= J /\ 0 \in S /\ S \subseteq 0..wr \cup get..J
          /\ mem[J].kind \in {"jump", "oldjump"} /\ mem[J].arg = 0 /\ mem'[J] = mem[J]
      BY <1>9, <2>2
    <3>2. T \subseteq 0..(wr + n) \cup get..J /\ K = J /\ 0 \in T
      BY <1>3, <1>10, <1>11, <2>2, <3>1
    <3> QED
      BY <1>2, <1>3, <1>8, <2>2, <3>1, <3>2 DEF Between
  <2> QED
    BY <2>1, <2>2
<1>13. Released(K)'
  <2>1. Released(J)
    BY <1>7 DEF Chain
  <2> QED
    BY <1>2, <1>3, <1>8, <1>9, <1>10, <2>1 DEF Released
<1>14. ASSUME NEW a \in T \ {wr', K}
       PROVE  \E e \in T : a < e /\ (a < wr' => e <= wr') /\ Command(mem', a, e)
  <2>1. CASE a = wr
    BY <1>1, <1>2, <1>3, <1>11, <2>1
  <2>2. CASE a # wr
    <3>1. a \in S \ {wr, J}
      BY <1>2, <1>3, <1>9, <1>10, <1>11, <2>2
    <3>2. PICK e \in S : /\ a < e /\ (e <= wr \/ wr + n < a) /\ Command(mem, a, e)
                         /\ \A i \in a..(e - 1) : mem'[i] = mem[i]
      BY <1>9, <3>1
    <3>3. a \in Nat /\ e \in Nat
      BY <3>1, <3>2
    <3>4. Command(mem', a, e)
      BY <3>2, <3>3, CommandStays
    <3>5. a < wr' => e <= wr'
      BY <1>2, <1>3, <3>2, <3>3
    <3> QED
      BY <1>11, <3>2, <3>4, <3>5
  <2> QED
    BY <2>1, <2>2
<1>15. Chain(T, K)'
  <2>1. wr' \in T /\ K \in T
    BY <1>2, <1>7, <1>10, <1>11 DEF Chain
  <2> QED
    BY <1>12, <1>13, <1>14, <2>1 DEF Chain
<1>16. Position(T)'
  <2>1. get + state.count \in S /\ \A i \in get..(get + state.count - 1) : mem[i].kind = "data"
    BY <1>1, <1>7 DEF Position, InRing
  <2> QED
    BY <1>1, <1>2, <1>9, <1>11, <2>1 DEF Position, InRing
<1> QED
  BY <1>0, <1>2, <1>5, <1>6, <1>11, <1>15, <1>16 DEF Laid

(* Wrap puts the jump at the end of the chain and begins again at 0. *)
LEMMA WrapLaid ==
  ASSUME NEW S \in SUBSET (0..Ring-1), NEW J \in 0..Ring-1, Laid(S, J),
         NEW kind \in {"jump", "oldjump"}, Wrap(kind)
  PROVE  \E T \in SUBSET (0..Ring-1), K \in 0..Ring-1 :
           T = S \cup {wr'} /\ Laid(T, K)'
<1>0. Types /\ Loaded /\ error = FALSE
  BY DEF Laid
<1>1. /\ Ring \in Nat /\ 4 < Ring /\ get \in Nat /\ 1 <= get /\ get <= wr /\ put \in Nat
      /\ wr \in Nat /\ wr < Ring /\ state.count \in Nat
  BY <1>0, RingAssumption DEF Wrap, Types
<1>2. wr' = 0 /\ UNCHANGED <<put, get, state, subroutine, error>>
  BY DEF Wrap, pusher
<1>3. /\ mem' = [a \in 0..Ring+3 |-> mem'[a]]
      /\ \A i \in 0..Ring+3 : i # wr => mem'[i] = mem[i]
      /\ mem'[wr].kind = kind /\ mem'[wr].arg = 0
  <2>1. mem' = [mem EXCEPT ![wr] = Word(kind, 0, 0)]
    BY DEF Wrap
  <2>2. mem = [a \in 0..Ring+3 |-> mem[a]]
    BY <1>0 DEF Loaded
  <2>3. wr \in 0..Ring+3
    BY <1>1
  <2>4. mem' = [a \in 0..Ring+3 |-> IF a = wr THEN Word(kind, 0, 0) ELSE mem[a]]
    BY <2>1, <2>2, Zenon
  <2>5. Word(kind, 0, 0).kind = kind /\ Word(kind, 0, 0).arg = 0
    BY DEF Word
  <2> QED
    BY <2>3, <2>4, <2>5, Zenon
<1>4. Types'
  BY <1>0, <1>1, <1>2 DEF Types
<1>5. Loaded'
  <2>1. \A i \in {Ring, Ring + 1, Ring + 2, Ring + 3} : mem'[i] = mem[i]
    <3>1. \A i \in {Ring, Ring + 1, Ring + 2, Ring + 3} : i \in 0..Ring+3 /\ i # wr
      BY <1>1
    <3> QED
      BY <1>3, <3>1, Zenon
  <2> QED
    BY <1>0, <1>3, <2>1 DEF Loaded
<1>6. Chain(S, J) /\ Position(S)
  BY DEF Laid
<1>7. Place = get /\ Place' = get /\ get < Ring
  BY <1>1, <1>2 DEF Place
<1>8. J = wr /\ S \subseteq get..wr
  BY <1>1, <1>6, <1>7 DEF Chain, Between
<1>9. PICK T \in SUBSET (0..Ring-1) : T = S \cup {0}
  <2>1. S \cup {0} \in SUBSET (0..Ring-1)
    BY <1>1, <1>6
  <2> QED
    BY <2>1, Zenon
<1>10. Between(T, J)'
  <2>1. T \subseteq 0..0 \cup get..wr
    BY <1>1, <1>8, <1>9
  <2> QED
    BY <1>1, <1>2, <1>3, <1>7, <1>8, <1>9, <2>1 DEF Between
<1>11. Released(J)'
  BY <1>1, <1>2, <1>6, <1>7, <1>8 DEF Chain, Released
<1>12. ASSUME NEW a \in T \ {wr', J}
       PROVE  \E e \in T : a < e /\ (a < wr' => e <= wr') /\ Command(mem', a, e)
  <2>1. a \in S \ {wr, J}
    BY <1>2, <1>8, <1>9
  <2>2. PICK e \in S : a < e /\ Command(mem, a, e)
    BY <1>6, <2>1 DEF Chain
  <2>3. a \in Nat /\ e \in Nat /\ a < e /\ e <= wr
    BY <1>1, <1>8, <2>1, <2>2
  <2>4. \A i \in a..(e - 1) : mem'[i] = mem[i]
    BY <1>1, <1>3, <2>3
  <2>5. Command(mem', a, e)
    BY <2>2, <2>3, <2>4, CommandStays
  <2>6. ~(a < wr')
    BY <1>2, <2>3
  <2> QED
    BY <1>9, <2>2, <2>5, <2>6
<1>13. Chain(T, J)'
  <2>1. wr' \in T /\ J \in T
    BY <1>2, <1>6, <1>9 DEF Chain
  <2> QED
    BY <1>10, <1>11, <1>12, <2>1 DEF Chain
<1>14. Position(T)'
  <2>1. get + state.count \in S /\ \A i \in get..(get + state.count - 1) : mem[i].kind = "data"
    BY <1>6, <1>7 DEF Position, InRing
  <2>2. \A i \in get..(get + state.count - 1) : mem'[i] = mem[i]
    <3>1. get + state.count <= wr
      BY <1>1, <1>8, <2>1
    <3>2. \A i \in get..(get + state.count - 1) : i \in 0..Ring+3 /\ i # wr
      BY <1>1, <3>1
    <3> QED
      BY <1>3, <3>2, Zenon
  <2>3. get' < Ring /\ get' + state'.count \in T
    BY <1>2, <1>7, <1>9, <2>1
  <2>4. \A i \in get'..(get' + state'.count - 1) : mem'[i].kind = "data"
    BY <1>2, <2>1, <2>2
  <2> QED
    BY <2>3, <2>4 DEF Position, InRing
<1> QED
  BY <1>0, <1>2, <1>4, <1>5, <1>9, <1>13, <1>14 DEF Laid

(* Put stays between the pusher and the driver. *)
LEMMA PutLaid ==
  ASSUME NEW S \in SUBSET (0..Ring-1), NEW J \in 0..Ring-1, Laid(S, J),
         NEW a \in 0..Ring, Put(a)
  PROVE  Laid(S, J)'
<1>0. Types /\ Loaded /\ error = FALSE
  BY DEF Laid
<1>1. Chain(S, J) /\ Position(S)
  BY DEF Laid
<1>2. /\ put' = a /\ UNCHANGED <<mem, wr, get, state, subroutine, error>>
      /\ IF put <= wr THEN a \in put..wr
         ELSE \/ a \in 0..wr
              \/ a > put /\ \A i \in put..(a - 1) : mem[i].kind \notin {"jump", "oldjump"}
  BY DEF Put, driver, pusher
<1>3. Place' = Place
  BY <1>2 DEF Place
<1>4. Place \in Nat /\ wr \in 0..Ring-1 /\ put \in 0..Ring-1 /\ J \in 0..Ring-1 /\ Ring \in Nat
  BY <1>0, <1>1, RingAssumption DEF Types, Place, NoReturn
<1>5. Released(J)' /\ a \in 0..Ring-1
  <2>1. Released(J) /\ Between(S, J)
    BY <1>1 DEF Chain
  <2>2. CASE put <= wr
    BY <1>2, <1>3, <1>4, <2>1, <2>2 DEF Released
  <2>3. CASE wr < put
    <3>1. wr < Place /\ Place <= put /\ put <= J /\ mem[J].kind \in {"jump", "oldjump"}
      BY <1>4, <2>1, <2>3 DEF Released, Between
    <3>2. a \in 0..wr \/ (a > put /\ a <= J)
      BY <1>2, <1>4, <2>3, <3>1
    <3> QED
      BY <1>2, <1>3, <1>4, <3>1, <3>2 DEF Released
  <2> QED
    BY <1>4, <2>2, <2>3
<1>6. Types' /\ Loaded'
  BY <1>0, <1>2, <1>5 DEF Types, Loaded
<1>7. Between(S, J)'
  BY <1>1, <1>2, <1>3 DEF Chain, Between
<1>8. Chain(S, J)'
  BY <1>1, <1>2, <1>5, <1>7 DEF Chain
<1>9. Position(S)'
  BY <1>1, <1>2 DEF Position, InRing, InSubroutine
<1> QED
  BY <1>0, <1>1, <1>2, <1>6, <1>8, <1>9 DEF Laid

-----------------------------------------------------------------------------
(* The pusher. *)

(* Numbers, as the steps below need them. *)
LEMMA Numbers ==
  ASSUME Types
  PROVE  /\ Ring \in Nat /\ 4 < Ring /\ Ring + 4 <= AddressSpace
         /\ get \in Nat /\ put \in Nat /\ wr \in Nat /\ put < Ring /\ wr < Ring
         /\ state.count \in Nat
         /\ get < Ring => Place = get
BY RingAssumption DEF Types, Place

(* Within the ring the pusher may move to p when p is not past PUT nor past a
   place s of the chain: the chain from p on is left. *)
LEMMA Forward ==
  ASSUME Types, NEW S \in SUBSET (0..Ring-1), NEW J \in 0..Ring-1, Chain(S, J),
         UNCHANGED <<mem, put, wr>>, get < Ring,
         NEW p \in Nat, Place' = p, get <= p, NEW s \in S, p <= s,
         get <= put => p <= put
  PROVE  \E T \in SUBSET S : Chain(T, J)' /\ \A t \in S : p <= t => t \in T
<1>1. /\ Ring \in Nat /\ get \in Nat /\ put \in Nat /\ wr \in Nat /\ Place = get
      /\ wr < Ring /\ s \in Nat /\ J \in Nat
  BY Numbers
<1>2. Between(S, J) /\ Released(J) /\ wr \in S /\ J \in S
  BY DEF Chain
<1>3. CASE get <= wr
  <2>1. J = wr /\ S \subseteq get..wr /\ get <= put /\ put <= wr
    BY <1>1, <1>2, <1>3 DEF Between, Released
  <2>2. PICK T \in SUBSET S : T = S \cap p..wr
    BY <1>1, Zenon
  <2>3. p <= wr /\ wr \in T /\ T \subseteq p..wr
    BY <1>1, <1>2, <2>1, <2>2
  <2>4. Between(T, J)' /\ Released(J)'
    BY <1>1, <2>1, <2>3 DEF Between, Released
  <2>5. ASSUME NEW a \in T \ {wr', J}
        PROVE  \E e \in T : a < e /\ (a < wr' => e <= wr') /\ Command(mem', a, e)
    <3>1. PICK e \in S : a < e /\ (a < wr => e <= wr) /\ Command(mem, a, e)
      BY <2>2 DEF Chain
    <3>2. e \in T
      BY <1>1, <2>1, <2>2, <3>1
    <3> QED
      BY <3>1, <3>2
  <2>6. Chain(T, J)'
    BY <2>1, <2>3, <2>4, <2>5 DEF Chain
  <2>7. \A t \in S : p <= t => t \in T
    BY <1>1, <2>1, <2>2
  <2> QED
    BY <2>6, <2>7
<1>4. CASE wr < get
  <2>1. /\ get <= J /\ 0 \in S /\ S \subseteq 0..wr \cup get..J
        /\ mem[J].kind \in {"jump", "oldjump"} /\ mem[J].arg = 0
    BY <1>1, <1>2, <1>4 DEF Between
  <2>2. PICK T \in SUBSET S : T = S \cap (0..wr \cup p..J)
    BY <1>1, Zenon
  <2>3. p <= J /\ wr < p
    BY <1>1, <1>4, <2>1
  <2>4. wr \in T /\ J \in T /\ 0 \in T /\ T \subseteq 0..wr \cup p..J
    BY <1>1, <1>2, <2>1, <2>2, <2>3
  <2>5. Between(T, J)'
    BY <1>1, <2>1, <2>3, <2>4 DEF Between
  <2>6. Released(J)'
    BY <1>1, <1>2, <1>4, <2>3 DEF Released
  <2>7. ASSUME NEW a \in T \ {wr', J}
        PROVE  \E e \in T : a < e /\ (a < wr' => e <= wr') /\ Command(mem', a, e)
    <3>1. PICK e \in S : a < e /\ (a < wr => e <= wr) /\ Command(mem, a, e)
      BY <2>2 DEF Chain
    <3>2. e \in T
      BY <1>1, <2>1, <2>2, <2>3, <3>1
    <3> QED
      BY <3>1, <3>2
  <2>8. Chain(T, J)'
    BY <2>4, <2>5, <2>6, <2>7 DEF Chain
  <2>9. \A t \in S : p <= t => t \in T
    BY <1>1, <2>1, <2>2, <2>3
  <2> QED
    BY <2>8, <2>9
<1> QED
  BY <1>1, <1>3, <1>4

(* The driver is not at a place that PUT has released. *)
LEMMA Behind ==
  ASSUME Types, NEW S \in SUBSET (0..Ring-1), NEW J \in 0..Ring-1, Chain(S, J),
         get < Ring, NEW a \in Nat, get <= a, get <= put => a < put
  PROVE  a # wr
<1>1. Ring \in Nat /\ get \in Nat /\ put \in Nat /\ wr \in Nat /\ Place = get
  BY Numbers
<1> QED
  BY <1>1 DEF Chain, Released

(* What the pusher meets at a place of the chain that PUT has released: the
   jump, or a whole command. *)
LEMMA AtStart ==
  ASSUME Types, NEW S \in SUBSET (0..Ring-1), NEW J \in 0..Ring-1, Chain(S, J),
         get < Ring, NEW a \in S, get <= a, get <= put => a < put
  PROVE  \/ /\ a = J /\ wr < get
            /\ mem[J].kind \in {"jump", "oldjump"} /\ mem[J].arg = 0
         \/ \E e \in S : a < e /\ Command(mem, a, e)
<1>1. /\ Ring \in Nat /\ get \in Nat /\ put \in Nat /\ wr \in Nat /\ Place = get
      /\ a \in Nat
  BY Numbers
<1>2. a # wr
  BY <1>1, Behind
<1>3. CASE a # J
  BY <1>2, <1>3 DEF Chain
<1>4. CASE a = J
  BY <1>1, <1>2, <1>4 DEF Chain, Between
<1> QED
  BY <1>3, <1>4

(* The words of the ring and of the subroutine are those in memory. *)
LEMMA WordIs ==
  ASSUME Types, Loaded, NEW a \in Nat, a < Ring + 4
  PROVE  WordAt(a) = mem[a]
<1>1. DOMAIN mem = 0..Ring+3
  BY DEF Loaded
<1>2. a \in 0..Ring+3
  BY Numbers
<1> QED
  BY <1>1, <1>2 DEF WordAt

(* Between commands the pusher is at one, or at an end of the subroutine. *)
LEMMA Idle ==
  ASSUME Types, Loaded, NEW S \in SUBSET (0..Ring-1), NEW J \in 0..Ring-1,
         Chain(S, J), Position(S), get # put, state.count = 0
  PROVE  \/ get = Ring /\ WordAt(get) = Word("non", INLINE_ARRAY, 2)
         \/ get = Ring + 3 /\ WordAt(get).kind = "return"
         \/ /\ get < Ring /\ get = J /\ wr < get
            /\ WordAt(get).kind \in {"jump", "oldjump"} /\ WordAt(get).arg = 0
         \/ get < Ring /\ \E e \in S : get < e /\ Command(mem, get, e)
<1>1. Ring \in Nat /\ get \in Nat /\ put \in Nat
  BY Numbers
<1>2. CASE get < Ring
  <2>1. get \in S
    BY <1>1, <1>2 DEF Position, InRing
  <2>2. WordAt(get) = mem[get]
    BY <1>1, <1>2, WordIs
  <2>3. get <= get /\ (get <= put => get < put)
    BY <1>1
  <2> QED
    BY <1>2, <2>1, <2>2, <2>3, AtStart
<1>3. CASE ~(get < Ring)
  <2>1. get \in {Ring, Ring + 3}
    BY <1>1, <1>3 DEF Position, InSubroutine
  <2>2. WordAt(get) = mem[get]
    BY <1>1, <2>1, WordIs
  <2> QED
    BY <2>1, <2>2, Zenon DEF Loaded
<1> QED
  BY <1>2, <1>3

(* Header begins a command of the ring or the one of the subroutine. *)
LEMMA HeaderLaid ==
  ASSUME NEW S \in SUBSET (0..Ring-1), NEW J \in 0..Ring-1, Laid(S, J), Header
  PROVE  \E T \in SUBSET S, K \in 0..Ring-1 : Laid(T, K)'
<1>0. Types /\ Loaded /\ error = FALSE
  BY DEF Laid
<1>1. Chain(S, J) /\ Position(S)
  BY DEF Laid
<1>2. /\ get # put /\ state.count = 0 /\ get' = get + 1
      /\ UNCHANGED <<mem, wr, put, subroutine, error>>
      /\ WordAt(get).kind \in {"inc", "non"}
      /\ state' = [method |-> WordAt(get).arg, type |-> WordAt(get).kind,
                   count |-> WordAt(get).count]
  BY DEF Header, driver
<1>3. /\ Ring \in Nat /\ get \in Nat /\ put \in Nat /\ 4 < Ring
  BY <1>0, Numbers
<1>4. \/ get = Ring /\ WordAt(get) = Word("non", INLINE_ARRAY, 2)
      \/ get < Ring /\ \E e \in S : get < e /\ Command(mem, get, e)
  <2>1. \/ get = Ring /\ WordAt(get) = Word("non", INLINE_ARRAY, 2)
        \/ WordAt(get).kind = "return"
        \/ WordAt(get).kind \in {"jump", "oldjump"}
        \/ get < Ring /\ \E e \in S : get < e /\ Command(mem, get, e)
    BY <1>0, <1>1, <1>2, Idle
  <2> QED
    BY <1>2, <2>1
<1>5. CASE get < Ring
  <2>1. PICK e \in S : get < e /\ Command(mem, get, e)
    BY <1>3, <1>4, <1>5
  <2>2. WordAt(get) = mem[get]
    BY <1>0, <1>3, <1>5, WordIs
  <2>3. /\ mem[get].kind \in {"inc", "non"} /\ mem[get].arg \in Nat
        /\ mem[get].count \in 1..2 /\ e = get + mem[get].count + 1
        /\ \A i \in (get + 1)..(e - 1) : mem[i].kind = "data"
    BY <1>2, <2>1, <2>2 DEF Command
  <2>4. e \in Nat /\ e < Ring
    BY <1>3, <2>1
  <2>5. get + 1 < Ring /\ Place' = get + 1
    <3>1. get + 1 < Ring
      BY <1>3, <2>3, <2>4
    <3> QED
      BY <1>2, <3>1 DEF Place
  <2>6. PICK T \in SUBSET S :
          Chain(T, J)' /\ \A t \in S : get + 1 <= t => t \in T
    <3>1. get + 1 \in Nat /\ get <= get + 1 /\ get + 1 <= e
          /\ (get <= put => get + 1 <= put)
      BY <1>2, <1>3, <2>3, <2>4
    <3> QED
      BY <1>0, <1>1, <1>2, <1>5, <2>5, <3>1, Forward
  <2>7. state'.count = mem[get].count /\ get' + state'.count = e
    BY <1>2, <1>3, <2>2, <2>3
  <2>8. e \in T
    BY <1>3, <2>3, <2>4, <2>6
  <2>9. Position(T)'
    <3>1. \A i \in get'..(get' + state'.count - 1) : mem'[i].kind = "data"
      BY <1>2, <2>3, <2>7
    <3>2. get' + state'.count \in T /\ get' < Ring
      BY <1>2, <2>5, <2>7, <2>8
    <3> QED
      BY <3>1, <3>2 DEF Position, InRing
  <2>10. Types'
    BY <1>0, <1>2, <1>3, <1>5, <2>2, <2>3, <2>5 DEF Types
  <2>11. Loaded'
    BY <1>0, <1>2 DEF Loaded
  <2> QED
    BY <1>0, <1>2, <2>6, <2>9, <2>10, <2>11 DEF Laid
<1>6. CASE get = Ring
  <2>1. WordAt(get) = Word("non", INLINE_ARRAY, 2)
    BY <1>3, <1>4, <1>6
  <2>2. state' = [method |-> INLINE_ARRAY, type |-> "non", count |-> 2]
    BY <1>2, <2>1 DEF Word
  <2>3. Place' = Place
    BY <1>2, <1>3, <1>6 DEF Place
  <2>4. Between(S, J)' /\ Released(J)'
    BY <1>1, <1>2, <2>3 DEF Chain, Between, Released
  <2>5. Chain(S, J)'
    BY <1>1, <1>2, <2>4 DEF Chain
  <2>6. InSubroutine'
    BY <1>2, <1>3, <1>6, <2>2 DEF InSubroutine
  <2>7. Position(S)'
    BY <1>1, <1>2, <1>3, <1>6, <2>6 DEF Position
  <2>8. Types'
    BY <1>0, <1>2, <1>3, <1>6, <2>2 DEF Types, INLINE_ARRAY
  <2>9. Loaded'
    BY <1>0, <1>2 DEF Loaded
  <2> QED
    BY <1>0, <1>1, <1>2, <2>5, <2>7, <2>8, <2>9 DEF Laid
<1> QED
  BY <1>4, <1>5, <1>6

(* Jump goes back to where the driver began again. *)
LEMMA JumpLaid ==
  ASSUME NEW S \in SUBSET (0..Ring-1), NEW J \in 0..Ring-1, Laid(S, J), Jump
  PROVE  \E T \in SUBSET S, K \in 0..Ring-1 : Laid(T, K)'
<1>0. Types /\ Loaded /\ error = FALSE
  BY DEF Laid
<1>1. Chain(S, J) /\ Position(S)
  BY DEF Laid
<1>2. /\ get # put /\ state.count = 0 /\ get' = WordAt(get).arg
      /\ UNCHANGED <<mem, wr, put, state, subroutine, error>>
      /\ WordAt(get).kind \in {"jump", "oldjump"}
  BY DEF Jump, driver
<1>3. Ring \in Nat /\ get \in Nat /\ put \in Nat /\ 4 < Ring /\ wr \in Nat /\ wr < Ring
  BY <1>0, Numbers
<1>4. get < Ring /\ get = J /\ wr < get /\ get' = 0
  <2>1. \/ WordAt(get).kind \in {"non", "return"}
        \/ get < Ring /\ get = J /\ wr < get /\ WordAt(get).arg = 0
        \/ get < Ring /\ \E e \in S : get < e /\ Command(mem, get, e)
    BY <1>0, <1>1, <1>2, Idle DEF Word
  <2>2. ASSUME get < Ring, NEW e, Command(mem, get, e) PROVE FALSE
    BY <1>0, <1>2, <1>3, <2>2, WordIs DEF Command
  <2> QED
    BY <1>2, <2>1, <2>2
<1>5. Place = get /\ Place' = 0
  BY <1>3, <1>4 DEF Place
<1>6. /\ S \subseteq 0..wr \cup get..J /\ 0 \in S /\ wr \in S /\ put <= wr
  BY <1>1, <1>2, <1>3, <1>4, <1>5 DEF Chain, Between, Released
<1>7. PICK T \in SUBSET S : T = S \cap 0..wr
  BY <1>1, Zenon
<1>8. PICK K \in 0..Ring-1 : K = wr
  BY <1>3
<1>9. T \subseteq 0..wr /\ 0 \in T /\ wr \in T
  BY <1>3, <1>6, <1>7
<1>10. Between(T, K)' /\ Released(K)'
  BY <1>2, <1>3, <1>5, <1>6, <1>8, <1>9 DEF Between, Released
<1>11. ASSUME NEW a \in T \ {wr', K}
       PROVE  \E e \in T : a < e /\ (a < wr' => e <= wr') /\ Command(mem', a, e)
  <2>1. a \in S \ {wr, J} /\ a < wr
    BY <1>2, <1>3, <1>4, <1>7, <1>8
  <2>2. PICK e \in S : a < e /\ e <= wr /\ Command(mem, a, e)
    BY <1>1, <2>1 DEF Chain
  <2>3. e \in T
    BY <1>1, <1>3, <1>7, <2>2
  <2> QED
    BY <1>2, <2>2, <2>3
<1>12. Chain(T, K)'
  BY <1>2, <1>8, <1>9, <1>10, <1>11 DEF Chain
<1>13. Position(T)'
  BY <1>2, <1>3, <1>4, <1>9 DEF Position, InRing
<1>14. Types' /\ Loaded'
  BY <1>0, <1>2, <1>3, <1>4 DEF Types, Loaded
<1> QED
  BY <1>0, <1>2, <1>12, <1>13, <1>14 DEF Laid

(* Call leaves the ring for the subroutine, which is never left by a call. *)
LEMMA CallLaid ==
  ASSUME NEW S \in SUBSET (0..Ring-1), NEW J \in 0..Ring-1, Laid(S, J), Call
  PROVE  \E T \in SUBSET S, K \in 0..Ring-1 : Laid(T, K)'
<1>0. Types /\ Loaded /\ error = FALSE
  BY DEF Laid
<1>1. Chain(S, J) /\ Position(S)
  BY DEF Laid
<1>2. /\ get # put /\ state.count = 0 /\ WordAt(get).kind = "call"
      /\ UNCHANGED <<mem, wr, put, state>>
      /\ subroutine = NoReturn =>
           subroutine' = get + 1 /\ get' = WordAt(get).arg /\ error' = error
  BY DEF Call, driver
<1>3. Ring \in Nat /\ get \in Nat /\ put \in Nat /\ 4 < Ring
  BY <1>0, Numbers
<1>4. get < Ring /\ \E e \in S : get < e /\ Command(mem, get, e)
  <2>1. \/ WordAt(get).kind \in {"non", "return", "jump", "oldjump"}
        \/ get < Ring /\ \E e \in S : get < e /\ Command(mem, get, e)
    BY <1>0, <1>1, <1>2, Idle DEF Word
  <2> QED
    BY <1>2, <2>1
<1>5. get + 1 \in S /\ WordAt(get).arg = Ring
  <2>1. PICK e \in S : get < e /\ Command(mem, get, e)
    BY <1>4
  <2>2. WordAt(get) = mem[get]
    BY <1>0, <1>3, <1>4, WordIs
  <2> QED
    BY <1>2, <2>1, <2>2 DEF Command
<1>6. subroutine' = get + 1 /\ get' = Ring /\ error' = FALSE
  BY <1>0, <1>2, <1>4, <1>5 DEF Types
<1>7. get + 1 < Ring /\ Place' = get + 1
  BY <1>1, <1>3, <1>5, <1>6 DEF Place
<1>8. PICK T \in SUBSET S :
        Chain(T, J)' /\ \A t \in S : get + 1 <= t => t \in T
  <2>1. get + 1 \in Nat /\ get <= get + 1 /\ get + 1 <= get + 1
        /\ (get <= put => get + 1 <= put)
    BY <1>2, <1>3
  <2> QED
    BY <1>0, <1>1, <1>2, <1>4, <1>5, <1>7, <2>1, Forward
<1>9. Position(T)'
  <2>1. InSubroutine'
    BY <1>2, <1>6 DEF InSubroutine
  <2>2. subroutine' \in T
    BY <1>3, <1>5, <1>6, <1>8
  <2> QED
    BY <1>3, <1>6, <2>1, <2>2 DEF Position
<1>10. Types'
  BY <1>0, <1>2, <1>3, <1>6, <1>7 DEF Types, NoReturn
<1>11. Loaded'
  BY <1>0, <1>2 DEF Loaded
<1> QED
  BY <1>6, <1>8, <1>9, <1>10, <1>11 DEF Laid

(* Return goes back to the place in the ring the call came from. *)
LEMMA ReturnLaid ==
  ASSUME NEW S \in SUBSET (0..Ring-1), NEW J \in 0..Ring-1, Laid(S, J), Return
  PROVE  \E T \in SUBSET S, K \in 0..Ring-1 : Laid(T, K)'
<1>0. Types /\ Loaded /\ error = FALSE
  BY DEF Laid
<1>1. Chain(S, J) /\ Position(S)
  BY DEF Laid
<1>2. /\ get # put /\ state.count = 0 /\ WordAt(get).kind = "return"
      /\ UNCHANGED <<mem, wr, put, state>>
      /\ subroutine # NoReturn =>
           get' = subroutine /\ subroutine' = NoReturn /\ error' = error
  BY DEF Return, driver
<1>3. Ring \in Nat /\ get \in Nat /\ put \in Nat /\ 4 < Ring
  BY <1>0, Numbers
<1>4. get = Ring + 3
  <2>1. \/ get = Ring + 3
        \/ WordAt(get).kind \in {"non", "jump", "oldjump"}
        \/ get < Ring /\ \E e \in S : get < e /\ Command(mem, get, e)
    BY <1>0, <1>1, <1>2, Idle DEF Word
  <2>2. ASSUME get < Ring, NEW e, Command(mem, get, e) PROVE FALSE
    BY <1>0, <1>2, <1>3, <2>2, WordIs DEF Command
  <2> QED
    BY <1>2, <2>1, <2>2
<1>5. subroutine \in S /\ subroutine # NoReturn
  BY <1>0, <1>1, <1>3, <1>4 DEF Position, Types
<1>6. get' = subroutine /\ subroutine' = NoReturn /\ error' = FALSE
  BY <1>0, <1>2, <1>5
<1>7. get' \in 0..Ring-1 /\ get' < Ring /\ get' \in Nat
  BY <1>1, <1>3, <1>5, <1>6
<1>8. Place' = Place
  BY <1>3, <1>4, <1>6, <1>7 DEF Place
<1>9. Between(S, J)' /\ Released(J)'
  BY <1>1, <1>2, <1>8 DEF Chain, Between, Released
<1>10. Chain(S, J)'
  BY <1>1, <1>2, <1>9 DEF Chain
<1>11. Position(S)'
  BY <1>2, <1>5, <1>6, <1>7 DEF Position, InRing
<1>12. Types'
  BY <1>0, <1>2, <1>3, <1>6, <1>7 DEF Types
<1>13. Loaded'
  BY <1>0, <1>2 DEF Loaded
<1> QED
  BY <1>6, <1>10, <1>11, <1>12, <1>13 DEF Laid

(* What DataWord takes: one word at least, and of the command, of what PUT has
   released and of what a handler takes no more than there is. *)
LEMMA ConsumedBounds ==
  ASSUME NEW m \in Nat, NEW type, NEW n \in Nat \ {0}
  PROVE  Consumed(m, type, n) \in 1..n
BY DEF Consumed, Least, SET_MATRIX, SET_MATRIX_END, INLINE_ARRAY

(* DataWord in the ring, without a squash. *)
LEMMA TakeLaid ==
  ASSUME NEW S \in SUBSET (0..Ring-1), NEW J \in 0..Ring-1, Laid(S, J),
         get < Ring, get # put, state.count > 0,
         NEW n \in 1..state.count, get <= put => n <= put - get,
         UNCHANGED <<mem, wr, put, subroutine, error>>, get' = get + n,
         state' \in [method : Nat, type : {"inc", "non"}, count : Nat],
         state'.count = state.count - n
  PROVE  \E T \in SUBSET S, K \in 0..Ring-1 : Laid(T, K)'
<1>0. Types /\ Loaded /\ error = FALSE
  BY DEF Laid
<1>1. Chain(S, J) /\ Position(S)
  BY DEF Laid
<1>2. Ring \in Nat /\ get \in Nat /\ put \in Nat /\ state.count \in Nat /\ n \in Nat /\ 1 <= n
  BY <1>0, Numbers
<1>3. PICK e \in S : e = get + state.count
  BY <1>1, Zenon DEF Position, InRing
<1>4. \A i \in get..(e - 1) : mem[i].kind = "data"
  <2>1. \A i \in get..(get + state.count - 1) : mem[i].kind = "data"
    BY <1>1 DEF Position, InRing
  <2> QED
    BY <1>2, <1>3, <2>1
<1>5. e \in Nat /\ e < Ring /\ get + n <= e
  BY <1>2, <1>3
<1>6. get + n < Ring /\ Place' = get + n
  <2>1. get + n < Ring
    BY <1>2, <1>5
  <2> QED
    BY <2>1 DEF Place
<1>7. PICK T \in SUBSET S :
        Chain(T, J)' /\ \A t \in S : get + n <= t => t \in T
  <2>1. get + n \in Nat /\ get <= get + n /\ (get <= put => get + n <= put)
    BY <1>2
  <2> QED
    BY <1>0, <1>1, <1>5, <1>6, <2>1, Forward
<1>8. Position(T)'
  <2>1. get' + state'.count = e /\ get' < Ring
    BY <1>2, <1>3, <1>6
  <2>2. e \in T
    BY <1>5, <1>7
  <2>3. \A i \in get'..(get' + state'.count - 1) : mem'[i].kind = "data"
    BY <1>2, <1>4, <1>5, <2>1
  <2> QED
    BY <2>1, <2>2, <2>3 DEF Position, InRing
<1>9. Types'
  BY <1>0, <1>2, <1>6 DEF Types
<1>10. Loaded'
  BY <1>0 DEF Loaded
<1> QED
  BY <1>0, <1>7, <1>8, <1>9, <1>10 DEF Laid

(* Where a squash may happen, one word is left of the command and two whole
   commands of one word follow. *)
LEMMA SquashPlaces ==
  ASSUME NEW S \in SUBSET (0..Ring-1), NEW J \in 0..Ring-1, Laid(S, J),
         get < Ring, get # put, state.count > 0, Squashable
  PROVE  /\ state.count = 1 /\ (get <= put => get + 7 <= put)
         /\ \A a \in {get + 1, get + 3} :
              /\ a \in S /\ a # wr /\ a + 2 \in S
              /\ mem[a].kind \in {"inc", "non"} /\ mem[a].count = 1
<1>0. Types /\ Loaded /\ error = FALSE
  BY DEF Laid
<1>1. Chain(S, J) /\ Position(S)
  BY DEF Laid
<1>2. Ring \in Nat /\ get \in Nat /\ put \in Nat /\ state.count \in Nat
  BY <1>0, Numbers
<1>3. get <= put => get + 7 <= put
  <2>1. Available >= 7
    BY DEF Squashable
  <2> QED
    BY <1>2, <2>1 DEF Available
<1>4. /\ WordAt(get + 1).kind \in {"inc", "non"} /\ WordAt(get + 1).arg = SET_BEGIN_END
      /\ WordAt(get + 3).kind \in {"inc", "non"} /\ WordAt(get + 3).arg = SET_BEGIN_END
  BY DEF Squashable, IsHeader
<1>5. state.count = 1 /\ get + 1 \in S
  <2>1. /\ get + state.count \in S
        /\ \A i \in get..(get + state.count - 1) : mem[i].kind = "data"
    BY <1>1 DEF Position, InRing
  <2>2. get + 1 \in Nat /\ get + 1 < Ring + 4
    BY <1>2
  <2>3. WordAt(get + 1) = mem[get + 1]
    BY <1>0, <2>2, WordIs
  <2>4. mem[get + 1].kind # "data"
    BY <1>4, <2>3
  <2>5. ~(1 < state.count)
    BY <1>2, <2>1, <2>4
  <2> QED
    BY <1>2, <2>1, <2>5
<1>6. ASSUME NEW a \in S, get <= a, get <= put => a < put,
             WordAt(a).kind \in {"inc", "non"}, WordAt(a).arg = SET_BEGIN_END
      PROVE  a # wr /\ a + 2 \in S /\ mem[a].kind \in {"inc", "non"} /\ mem[a].count = 1
  <2>0. a \in Nat /\ a < Ring + 4
    BY <1>1, <1>2
  <2>1. WordAt(a) = mem[a] /\ a # wr
    BY <1>0, <1>1, <1>6, <2>0, WordIs, Behind
  <2>2. \/ mem[a].kind \in {"jump", "oldjump"}
        \/ \E e \in S : a < e /\ Command(mem, a, e)
    BY <1>0, <1>1, <1>6, AtStart
  <2>3. PICK e \in S : Command(mem, a, e)
    BY <1>6, <2>1, <2>2
  <2>4. e = a + 1 + 1 /\ mem[a].count = 1
    BY <1>6, <2>1, <2>3 DEF Command
  <2> QED
    BY <1>6, <2>0, <2>1, <2>3, <2>4
<1>7. /\ get + 1 # wr /\ get + 3 \in S
      /\ mem[get + 1].kind \in {"inc", "non"} /\ mem[get + 1].count = 1
  <2>1. get <= get + 1 /\ (get <= put => get + 1 < put) /\ (get + 1) + 2 = get + 3
    BY <1>2, <1>3
  <2> QED
    BY <1>4, <1>5, <1>6, <2>1, Zenon
<1>8. /\ get + 3 # wr /\ get + 5 \in S
      /\ mem[get + 3].kind \in {"inc", "non"} /\ mem[get + 3].count = 1
  <2>1. get <= get + 3 /\ (get <= put => get + 3 < put) /\ (get + 3) + 2 = get + 5
    BY <1>2, <1>3
  <2> QED
    BY <1>4, <1>6, <1>7, <2>1, Zenon
<1>9. (get + 1) + 2 = get + 3 /\ (get + 3) + 2 = get + 5
  BY <1>2
<1> QED
  BY <1>3, <1>5, <1>7, <1>8, <1>9

(* A squash skips an END and a BEGIN and with them two whole commands, and
   the header of the DRAW_ARRAYS after them is the next word. *)
LEMMA SquashLaid ==
  ASSUME NEW S \in SUBSET (0..Ring-1), NEW J \in 0..Ring-1, Laid(S, J),
         get < Ring, get # put, state.count > 0, Squashable,
         UNCHANGED <<mem, wr, put, subroutine, error>>, get' = get + 5,
         state' \in [method : Nat, type : {"inc", "non"}, count : Nat],
         state.count = 1 => state'.count = 0
  PROVE  \E T \in SUBSET S, K \in 0..Ring-1 : Laid(T, K)'
<1>0. Types /\ Loaded /\ error = FALSE
  BY DEF Laid
<1>1. Chain(S, J) /\ Position(S)
  BY DEF Laid
<1>2. Ring \in Nat /\ get \in Nat /\ put \in Nat /\ state.count \in Nat
  BY <1>0, Numbers
<1>3. get <= put => get + 7 <= put
  BY SquashPlaces
<1>4. state.count = 1 /\ (get + 3) + 2 \in S
  BY SquashPlaces
<1>5. get + 5 \in S
  <2>1. (get + 3) + 2 = get + 5
    BY <1>2
  <2> QED
    BY <1>4, <2>1
<1>6. get + 5 < Ring /\ Place' = get + 5
  <2>1. get + 5 < Ring
    BY <1>1, <1>2, <1>5
  <2> QED
    BY <2>1 DEF Place
<1>7. PICK T \in SUBSET S :
         Chain(T, J)' /\ \A t \in S : get + 5 <= t => t \in T
  <2>1. get + 5 \in Nat /\ get <= get + 5 /\ get + 5 <= get + 5
        /\ (get <= put => get + 5 <= put)
    BY <1>2, <1>3
  <2> QED
    BY <1>0, <1>1, <1>5, <1>6, <2>1, Forward
<1>8. Position(T)'
  <2>1. get' \in T /\ get' < Ring /\ state'.count = 0 /\ get' \in Nat
    BY <1>2, <1>4, <1>5, <1>6, <1>7
  <2> QED
    BY <2>1 DEF Position, InRing
<1>9. Types'
  BY <1>0, <1>2, <1>6 DEF Types
<1>10. Loaded'
  BY <1>0 DEF Loaded
<1> QED
  BY <1>0, <1>7, <1>8, <1>9, <1>10 DEF Laid

(* DataWord takes n words and with a squash skips four more. *)
Takes(n, squash) ==
  /\ delivered' = delivered \o Taken(n) \o (IF squash THEN Squashed ELSE <<>>)
  /\ UNCHANGED <<mem, wr, put, subroutine, error, sent>>
  /\ get' = get + n + (IF squash THEN 4 ELSE 0)
  /\ get <= put => n <= put - get
  /\ state' \in [method : Nat, type : {"inc", "non"}, count : Nat]
  /\ state'.type = state.type
  /\ squash => /\ n = 1 /\ get < Ring /\ Squashable
               /\ state.count = 1 => state'.count = 0
  /\ ~squash => /\ state'.count = state.count - n
                /\ state'.method = IF state.type = "inc" THEN state.method + n ELSE state.method
  /\ Ring <= get => n = state.count

(* So it does, and in the subroutine it takes all that is left of the one
   command there. *)
LEMMA DataWordTakes ==
  ASSUME NEW S \in SUBSET (0..Ring-1), NEW J \in 0..Ring-1, Laid(S, J),
         NEW squash \in BOOLEAN, DataWord(squash)
  PROVE  \E n \in 1..state.count : Takes(n, squash)
<1>0. Types /\ Position(S)
  BY DEF Laid
<1>1. /\ Ring \in Nat /\ get \in Nat /\ put \in Nat /\ put < Ring /\ state.count \in Nat
      /\ Ring + 4 <= AddressSpace /\ AddressSpace \in Nat
  BY <1>0, Numbers DEF AddressSpace
<1>2. /\ state.method \in Nat /\ state.type \in {"inc", "non"} /\ get \in 0..Ring+3
  BY <1>0 DEF Types
<1>3. PICK l : l = Least(state.count, Available)
  OBVIOUS
<1>4. PICK n : n = Consumed(state.method, state.type, l)
  OBVIOUS
<1>5. PICK k : k = n + IF squash THEN 4 ELSE 0
  OBVIOUS
<1>6. /\ get # put /\ state.count > 0 /\ (squash => Squashable)
      /\ delivered' = delivered \o Taken(n) \o (IF squash THEN Squashed ELSE <<>>)
      /\ get' = get + k
      /\ state' = [state EXCEPT !.method = IF state.type = "inc" THEN @ + k ELSE @,
                                !.count = @ - Least(@, k)]
      /\ UNCHANGED <<mem, wr, put, subroutine, error, sent>>
  BY <1>3, <1>4, <1>5 DEF DataWord, driver
<1>7. /\ l \in Nat \ {0} /\ l <= state.count
      /\ get <= put => l <= put - get
      /\ put < get => state.count <= l \/ Ring + 4 - get <= l
  <2>1. get # put /\ state.count > 0
    BY <1>6
  <2> QED
    BY <1>1, <1>2, <1>3, <2>1 DEF Least, Available
<1>8. n \in 1..l
  BY <1>2, <1>4, <1>7, ConsumedBounds
<1>9. k \in Nat /\ (~squash => k = n) /\ (squash => k = n + 4)
  BY <1>5, <1>7, <1>8
<1>10. /\ state' \in [method : Nat, type : {"inc", "non"}, count : Nat]
       /\ state'.count = state.count - Least(state.count, k)
       /\ state'.type = state.type
       /\ state'.method = IF state.type = "inc" THEN state.method + k ELSE state.method
  <2>1. state \in [method : Nat, type : {"inc", "non"}, count : Nat]
    BY <1>0 DEF Types
  <2>2. Least(state.count, k) \in Nat /\ Least(state.count, k) <= state.count
    BY <1>1, <1>9 DEF Least
  <2>3. /\ state.count - Least(state.count, k) \in Nat
        /\ (IF state.type = "inc" THEN state.method + k ELSE state.method) \in Nat
    BY <1>1, <1>2, <1>9, <2>2
  <2> QED
    BY <1>6, <2>1, <2>3, Zenon
<1>11. n \in 1..state.count /\ (get <= put => n <= put - get)
  BY <1>1, <1>7, <1>8
<1>12. get' = get + n + (IF squash THEN 4 ELSE 0)
  <2>1. n \in Nat /\ get' = get + k
    BY <1>1, <1>6, <1>11
  <2>2. get + (n + 4) = get + n + 4 /\ get + n = get + n + 0
    BY <1>1, <2>1
  <2> QED
    BY <1>9, <2>1, <2>2
<1>13. CASE get < Ring
  <2>1. squash => n = 1
    <3>1. squash => state.method = 50
      BY <1>6 DEF Squashable, DRAW_ARRAYS
    <3> QED
      BY <1>4, <3>1 DEF Consumed, SET_MATRIX, SET_MATRIX_END, INLINE_ARRAY
  <2>2. squash /\ state.count = 1 => state'.count = 0
    BY <1>8, <1>9, <1>10, <1>11 DEF Least
  <2>3. ~squash => state'.count = state.count - n
    BY <1>1, <1>9, <1>10, <1>11 DEF Least
  <2>4. ~squash => state'.method = IF state.type = "inc" THEN state.method + n ELSE state.method
    BY <1>9, <1>10
  <2>5. ~(Ring <= get)
    BY <1>1, <1>13
  <2> QED
    BY <1>6, <1>10, <1>11, <1>12, <1>13, <2>1, <2>2, <2>3, <2>4, <2>5, Zenon DEF Takes
<1>14. CASE ~(get < Ring)
  <2>1. /\ get \in {Ring + 1, Ring + 2} /\ state.count = Ring + 3 - get
        /\ state.method = 30 /\ state.type = "non"
    BY <1>0, <1>1, <1>6, <1>14 DEF Position, InSubroutine, INLINE_ARRAY
  <2>2. ~squash
    BY <1>6, <2>1 DEF Squashable, DRAW_ARRAYS
  <2>3. l = state.count
    BY <1>1, <1>7, <2>1
  <2>4. n = l
    BY <1>4, <2>1 DEF Consumed, SET_MATRIX, SET_MATRIX_END, INLINE_ARRAY
  <2>5. state'.count = state.count - n
    BY <1>1, <1>9, <1>10, <2>2, <2>3, <2>4 DEF Least
  <2>6. state'.method = state.method
    BY <1>10, <2>1
  <2> QED
    BY <1>6, <1>10, <1>11, <1>12, <2>1, <2>2, <2>3, <2>4, <2>5, <2>6, Zenon DEF Takes
<1> QED
  BY <1>13, <1>14

(* DataWord in the ring takes a part of a command or squashes, and in the
   subroutine it leaves its place in the ring. *)
LEMMA DataWordLaid ==
  ASSUME NEW S \in SUBSET (0..Ring-1), NEW J \in 0..Ring-1, Laid(S, J),
         NEW squash \in BOOLEAN, DataWord(squash)
  PROVE  \E T \in SUBSET S, K \in 0..Ring-1 : Laid(T, K)'
<1>0. Types /\ Loaded /\ error = FALSE
  BY DEF Laid
<1>1. Chain(S, J) /\ Position(S)
  BY DEF Laid
<1>2. Ring \in Nat /\ get \in Nat /\ put \in Nat /\ state.count \in Nat
  BY <1>0, Numbers
<1>3. get # put /\ state.count > 0
  BY DEF DataWord
<1>4. PICK n \in 1..state.count : Takes(n, squash)
  BY DataWordTakes
<1>5. /\ UNCHANGED <<mem, wr, put, subroutine, error>>
      /\ get <= put => n <= put - get
      /\ state' \in [method : Nat, type : {"inc", "non"}, count : Nat]
  BY <1>4 DEF Takes
<1>6. CASE get < Ring /\ ~squash
  <2>1. get' = get + n /\ state'.count = state.count - n
    BY <1>2, <1>4, <1>6 DEF Takes
  <2> QED
    BY <1>3, <1>5, <1>6, <2>1, TakeLaid
<1>7. CASE squash
  <2>1. /\ get' = get + 5 /\ get < Ring /\ Squashable
        /\ state.count = 1 => state'.count = 0
    BY <1>2, <1>4, <1>7 DEF Takes
  <2> QED
    BY <1>3, <1>5, <2>1, SquashLaid
<1>8. CASE ~(get < Ring)
  <2>1. /\ get \in {Ring + 1, Ring + 2} /\ state.count = Ring + 3 - get /\ subroutine \in S
    BY <1>1, <1>2, <1>3, <1>8 DEF Position, InSubroutine
  <2>2. get' = Ring + 3 /\ state'.count = 0
    BY <1>2, <1>4, <1>8, <2>1 DEF Takes
  <2>3. Place' = Place
    BY <1>2, <1>5, <1>8, <2>2 DEF Place
  <2>4. Between(S, J)' /\ Released(J)'
    BY <1>1, <1>5, <2>3 DEF Chain, Between, Released
  <2>5. Chain(S, J)'
    BY <1>1, <1>5, <2>4 DEF Chain
  <2>6. Position(S)'
    <3>1. InSubroutine' /\ ~(get' < Ring) /\ subroutine' \in S
      BY <1>2, <1>5, <2>1, <2>2 DEF InSubroutine
    <3> QED
      BY <3>1 DEF Position
  <2>7. Types'
    BY <1>0, <1>2, <1>5, <1>8, <2>2 DEF Types
  <2>8. Loaded'
    BY <1>0, <1>5 DEF Loaded
  <2> QED
    BY <1>0, <1>1, <1>5, <2>5, <2>6, <2>7, <2>8 DEF Laid
<1> QED
  BY <1>6, <1>7, <1>8

-----------------------------------------------------------------------------
(* The methods: what has been delivered is what was sent first. *)

(* ms are the methods of the n words that memory x holds from a on. *)
StandsFor(x, a, n, ms) ==
  /\ ms \in Seq(Nat \X Nat) /\ Len(ms) \in 1..2
  /\ x[a].kind \in {"call", "inc", "non"}
  /\ x[a].kind = "call" =>
       n = 1 /\ Len(ms) = 2 /\ ms[1] = <<INLINE_ARRAY, 1>> /\ ms[2] = <<INLINE_ARRAY, 2>>
  /\ x[a].kind \in {"inc", "non"} =>
       /\ n = x[a].count + 1 /\ Len(ms) = x[a].count
       /\ \A i \in 1..x[a].count :
            ms[i] = <<x[a].arg + (IF x[a].kind = "inc" THEN i - 1 ELSE 0), x[a + i].arg>>

(* So are the methods that the driver counts as sent with a command. *)
LEMMA WrittenMethods ==
  ASSUME NEW c \in Commands, NEW x, NEW a \in Nat,
         \A i \in 1..Len(CommandKinds[c]) : x[a + i - 1] = CommandKinds[c][i]
  PROVE  StandsFor(x, a, Len(CommandKinds[c]), Methods(CommandKinds[c]))
<1>1. c \in {"matrix", "begin", "end", "draws", "call"}
  BY CommandsAssumption DEF CommandKinds
<1> DEFINE w == CommandKinds[c]
<1> DEFINE ms == Methods(w)
<1>2. CASE c = "call"
  <2>1. Len(w) = 1 /\ w[1] = Word("call", Ring, 0)
    BY <1>2 DEF CommandKinds
  <2>2. x[a] = w[1]
    BY <2>1
  <2>3. ms = <<<<INLINE_ARRAY, 1>>, <<INLINE_ARRAY, 2>>>>
    BY <2>1 DEF Methods, Word
  <2>4. ms \in Seq(Nat \X Nat)
    BY <2>3 DEF INLINE_ARRAY
  <2> QED
    BY <2>1, <2>2, <2>3, <2>4 DEF Word, StandsFor
<1>3. CASE c # "call"
  <2>1. PICK k \in {"inc", "non"}, m \in Nat, q \in 1..2 :
          /\ w[1] = Word(k, m, q) /\ Len(w) = q + 1
          /\ \A i \in 2..(q + 1) : w[i].arg \in Nat
    <3>1. CASE c = "matrix"
      BY <3>1 DEF CommandKinds, Data, Word, SET_MATRIX
    <3>2. CASE c = "begin"
      BY <3>2 DEF CommandKinds, Data, Word, SET_BEGIN_END
    <3>3. CASE c = "end"
      BY <3>3 DEF CommandKinds, Data, Word, SET_BEGIN_END, OP_END
    <3>4. CASE c = "draws"
      BY <3>4 DEF CommandKinds, Data, Word, DRAW_ARRAYS
    <3> QED
      BY <1>1, <1>3, <3>1, <3>2, <3>3, <3>4
  <2> HIDE DEF w
  <2>2. w[1].kind = k /\ w[1].arg = m /\ w[1].count = q
    BY <2>1 DEF Word
  <2>3. ms = [i \in 1..q |-> <<m + (IF k = "inc" THEN i - 1 ELSE 0), w[i + 1].arg>>]
    BY <2>1, <2>2, Zenon DEF Methods
  <2>4. \A i \in 1..q : /\ w[i + 1].arg \in Nat /\ m + (IF k = "inc" THEN i - 1 ELSE 0) \in Nat
                        /\ x[a + i] = w[i + 1]
    <3>1. ASSUME NEW i \in 1..q
          PROVE  w[i + 1].arg \in Nat /\ m + (IF k = "inc" THEN i - 1 ELSE 0) \in Nat
      BY <2>1
    <3>2. ASSUME NEW i \in 1..q PROVE x[a + i] = w[i + 1]
      <4>1. i + 1 \in 1..Len(w) /\ a + (i + 1) - 1 = a + i
        BY <2>1
      <4>2. \A j \in 1..Len(w) : x[a + j - 1] = w[j]
        BY DEF w
      <4> QED
        BY <4>1, <4>2
    <3> QED
      BY <3>1, <3>2
  <2>5. x[a] = w[1]
    <3>1. 1 \in 1..Len(w) /\ a + 1 - 1 = a
      BY <2>1
    <3>2. \A j \in 1..Len(w) : x[a + j - 1] = w[j]
      BY DEF w
    <3> QED
      BY <3>1, <3>2
  <2>6. ms \in Seq(Nat \X Nat) /\ Len(ms) = q
    <3> DEFINE f == [i \in 1..q |-> <<m + (IF k = "inc" THEN i - 1 ELSE 0), w[i + 1].arg>>]
    <3>1. f \in [1..q -> Nat \X Nat]
      BY <2>4
    <3>2. q \in Nat /\ Len(f) = q
      OBVIOUS
    <3>3. f \in Seq(Nat \X Nat)
      <4> HIDE DEF f
      <4> QED
        BY <3>1, <3>2
    <3> QED
      BY <2>3, <3>2, <3>3, Zenon
  <2>7. \A i \in 1..q : ms[i] = <<m + (IF k = "inc" THEN i - 1 ELSE 0), x[a + i].arg>>
    BY <2>3, <2>4
  <2>8. x[a].kind = k /\ x[a].arg = m /\ x[a].count = q /\ Len(w) = q + 1
    BY <2>1, <2>2, <2>5
  <2> HIDE DEF ms
  <2>9. k # "call" /\ q \in 1..2
    OBVIOUS
  <2>10. /\ ms \in Seq(Nat \X Nat) /\ Len(ms) \in 1..2
         /\ x[a].kind \in {"inc", "non"}
         /\ Len(w) = x[a].count + 1 /\ Len(ms) = x[a].count
    BY <2>6, <2>8, <2>9
  <2>11. \A i \in 1..x[a].count :
           ms[i] = <<x[a].arg + (IF x[a].kind = "inc" THEN i - 1 ELSE 0), x[a + i].arg>>
    BY <2>7, <2>8
  <2> QED
    BY <2>10, <2>11 DEF w, ms, StandsFor
<1> QED
  BY <1>2, <1>3

(* List s begins list u, and t is what comes next in u. *)
Begins(s, u) == \A i \in 1..Len(s) : s[i] = u[i]
Follows(s, t, u) == \A i \in 1..Len(t) : t[i] = u[Len(s) + i]

(* A list that begins another is continued by what comes next in that one. *)
LEMMA Continued ==
  ASSUME NEW s \in Seq(Nat \X Nat), NEW t \in Seq(Nat \X Nat), NEW u,
         Begins(s, u), Follows(s, t, u)
  PROVE  /\ s \o t \in Seq(Nat \X Nat) /\ Len(s \o t) = Len(s) + Len(t)
         /\ Begins(s \o t, u)
<1>1. s \o t \in Seq(Nat \X Nat) /\ Len(s \o t) = Len(s) + Len(t)
  OBVIOUS
<1>2. ASSUME NEW i \in 1..(Len(s) + Len(t)) PROVE (s \o t)[i] = u[i]
  <2>1. CASE i <= Len(s)
    BY <2>1 DEF Begins
  <2>2. CASE i > Len(s)
    <3>1. i - Len(s) \in 1..Len(t) /\ Len(s) + (i - Len(s)) = i
      BY <2>2
    <3>2. (s \o t)[i] = t[i - Len(s)]
      BY <2>2
    <3> QED
      BY <3>1, <3>2 DEF Follows
  <2> QED
    BY <2>1, <2>2
<1> QED
  BY <1>1, <1>2 DEF Begins

(* A step leaves the words from lo to hi; it adds to the methods sent. *)
Kept(lo, hi) == \A i \in lo..hi : mem'[i] = mem[i]

Grown ==
  /\ Len(sent) \in Nat /\ Len(sent') \in Nat /\ Len(sent) <= Len(sent')
  /\ \A i \in 1..Len(sent) : sent'[i] = sent[i]

(* A command that the driver leaves alone is counted as before. *)
LEMMA PieceStays ==
  ASSUME NEW a \in 0..Ring-1, NEW e \in 0..Ring-1, Command(mem, a, e),
         NEW D \in [0..Ring-1 -> Nat], NEW E \in [0..Ring-1 -> Nat],
         Piece(a, D), D[e] <= Len(sent), E[a] = D[a], E[e] = D[e],
         Grown, Kept(a, e - 1), Kept(Ring, Ring + 3)
  PROVE  Piece(a, E)'
<1>1. Ring \in Nat /\ a \in Nat /\ e \in Nat /\ D[a] \in Nat /\ D[e] \in Nat
  BY RingAssumption
<1>2. PICK z \in Nat : z = Len(sent)
  BY DEF Grown
<1>3. D[e] <= z
  BY <1>2
<1>4. CASE mem[a].kind = "call"
  <2>1. e = a + 1 /\ D[e] = D[a] + 2
    BY <1>4 DEF Command, Piece
  <2>2. \A i \in 1..2 : sent[D[a] + i] = <<INLINE_ARRAY, mem[Ring + 1 + i - 1].arg>>
    <3>1. Listed(D[a], 2, INLINE_ARRAY, "non", Ring + 1)
      BY <1>4 DEF Piece
    <3>2. INLINE_ARRAY + 0 = INLINE_ARRAY
      BY DEF INLINE_ARRAY
    <3> QED
      BY <3>1, <3>2 DEF Listed
  <2>3. mem'[a] = mem[a]
    BY <1>1, <2>1 DEF Kept
  <2>4. ASSUME NEW i \in 1..2
        PROVE  sent'[E[a] + i] = <<INLINE_ARRAY, mem'[Ring + 1 + i - 1].arg>>
    <3>1. D[a] + i \in 1..z
      BY <1>1, <1>3, <2>1
    <3>2. sent'[E[a] + i] = sent[D[a] + i]
      BY <1>2, <3>1 DEF Grown
    <3>3. mem'[Ring + 1 + i - 1] = mem[Ring + 1 + i - 1]
      <4>1. Ring + 1 + i - 1 \in Ring..(Ring + 3)
        BY <1>1
      <4> QED
        BY <4>1 DEF Kept
    <3> QED
      BY <2>2, <3>2, <3>3
  <2>5. Listed(E[a], 2, INLINE_ARRAY, "non", Ring + 1)'
    BY <2>4 DEF Listed, INLINE_ARRAY
  <2> QED
    BY <1>4, <2>1, <2>3, <2>5 DEF Piece
<1>5. CASE mem[a].kind \in {"inc", "non"}
  <2>1. PICK q \in 1..2, m \in Nat, k \in {"inc", "non"} :
          m = mem[a].arg /\ k = mem[a].kind /\ q = mem[a].count
    BY <1>5 DEF Command
  <2>2. e = a + q + 1 /\ D[e] = D[a] + q
    BY <1>5, <2>1, Zenon DEF Command, Piece
  <2>3. \A i \in 1..q :
          sent[D[a] + i] = <<m + (IF k = "inc" THEN i - 1 ELSE 0), mem[a + 1 + i - 1].arg>>
    BY <1>5, <2>1 DEF Piece, Listed
  <2>4. mem'[a] = mem[a]
    BY <1>1, <2>2 DEF Kept
  <2>5. ASSUME NEW i \in 1..q
        PROVE  sent'[E[a] + i] = <<m + (IF k = "inc" THEN i - 1 ELSE 0), mem'[a + 1 + i - 1].arg>>
    <3>1. D[a] + i \in 1..z
      <4>1. D[a] + q <= z
        BY <1>3, <2>2
      <4>2. PICK d \in Nat : d = D[a]
        BY <1>1
      <4> QED
        BY <4>1, <4>2
    <3>2. a + 1 + i - 1 \in a..(e - 1)
      BY <1>1, <2>2
    <3>3. sent'[E[a] + i] = sent[D[a] + i]
      BY <1>2, <3>1 DEF Grown
    <3>4. mem'[a + 1 + i - 1] = mem[a + 1 + i - 1]
      BY <3>2 DEF Kept
    <3> QED
      BY <2>3, <3>3, <3>4
  <2>6. Listed(E[a], q, m, k, a + 1)'
    BY <2>5 DEF Listed
  <2> QED
    BY <1>5, <2>1, <2>2, <2>4, <2>6, Zenon DEF Piece
<1> QED
  BY <1>4, <1>5 DEF Command

(* The driver's n words from where it is leave the others. *)
Outside(n) == \A i \in 0..Ring+3 : i \notin wr..(wr + n - 1) => mem'[i] = mem[i]

(* When the driver adds a piece to the chain, the methods sent so far are the
   number of the place it comes to. *)
LEMMA Extended ==
  ASSUME NEW S \in SUBSET (0..Ring-1), NEW J \in 0..Ring-1, Laid(S, J),
         NEW D, Numbered(S, D), Delivered(D), Lists,
         get < Ring, NEW n \in Nat, 0 < n, wr + n <= Ring,
         get <= wr \/ wr + n < get, Outside(n), Grown,
         UNCHANGED <<get, state, delivered>>,
         wr' \in 0..Ring-1, wr' \notin S, NEW T, T = S \cup {wr'},
         NEW E, E = [D EXCEPT ![wr'] = Len(sent')], NEW w, w = wr, Piece(w, E)'
  PROVE  Numbered(T, E)' /\ Delivered(E)'
<1>0. Types /\ Chain(S, J) /\ Position(S)
  BY DEF Laid
<1>1. /\ D \in [0..Ring-1 -> Nat] /\ D[wr] = Len(sent)
      /\ \A a \in S : D[a] <= Len(sent)
  BY DEF Numbered
<1>2. /\ E \in [0..Ring-1 -> Nat] /\ E[wr'] = Len(sent')
      /\ \A a \in S : E[a] = D[a]
  <2>1. Len(sent') \in Nat
    BY DEF Grown
  <2>2. E = [a \in 0..Ring-1 |-> IF a = wr' THEN Len(sent') ELSE D[a]]
    BY <1>1, Zenon
  <2> QED
    BY <1>1, <2>1, <2>2
<1>3. /\ \/ get <= wr /\ J = wr /\ S \subseteq get..wr
         \/ /\ wr + n < get /\ get <= J /\ 0 \in S /\ S \subseteq 0..wr \cup get..J
            /\ mem[J].kind \in {"jump", "oldjump"} /\ mem[J].arg = 0 /\ mem'[J] = mem[J]
      /\ \A a \in S \ {wr, J} : \E e \in S :
           /\ a < e /\ (e <= wr \/ wr + n < a) /\ Command(mem, a, e)
           /\ \A i \in a..(e - 1) : mem'[i] = mem[i]
      /\ \A i \in get..(get + state.count - 1) : mem'[i] = mem[i]
  <2>1. \A i \in 0..Ring+3 : i \notin wr..(wr + n - 1) => mem'[i] = mem[i]
    BY DEF Outside
  <2> QED
    BY <2>1, Away, Zenon
<1>4. Kept(Ring, Ring + 3)
  <2>1. Ring \in Nat /\ wr \in Nat
    BY <1>0, Numbers
  <2> QED
    BY <2>1 DEF Kept, Outside
<1>5. ASSUME NEW a \in S \ {wr} PROVE Piece(a, E)'
  <2>0. Piece(a, D)
    BY DEF Numbered
  <2>1. CASE a = J
    <3>1. mem[a].kind \in {"jump", "oldjump"} /\ mem'[a] = mem[a] /\ 0 \in S
      BY <1>3, <2>1
    <3>2. D[0] = D[a]
      BY <2>0, <3>1, Zenon DEF Piece
    <3>3. E[0] = E[a]
      BY <1>2, <3>1, <3>2
    <3> QED
      BY <3>1, <3>3 DEF Piece
  <2>2. CASE a # J
    <3>1. PICK e \in S : /\ a < e /\ Command(mem, a, e)
                         /\ \A i \in a..(e - 1) : mem'[i] = mem[i]
      BY <1>3, <2>2, Zenon
    <3>2. /\ a \in 0..Ring-1 /\ e \in 0..Ring-1 /\ Kept(a, e - 1)
          /\ D[e] <= Len(sent) /\ E[a] = D[a] /\ E[e] = D[e]
      BY <1>1, <1>2, <3>1, Zenon DEF Kept
    <3> QED
      BY <1>1, <1>2, <1>4, <2>0, <3>1, <3>2, PieceStays, Zenon
  <2> QED
    BY <2>1, <2>2
<1>6. Numbered(T, E)'
  <2>1. \A a \in T : E[a] <= Len(sent')
    <3>1. Len(sent) \in Nat /\ Len(sent') \in Nat /\ Len(sent) <= Len(sent')
      BY Zenon DEF Grown
    <3>2. ASSUME NEW a \in S PROVE E[a] <= Len(sent')
      <4>1. D[a] \in Nat /\ D[a] <= Len(sent) /\ E[a] = D[a]
        BY <1>1, <1>2
      <4> QED
        BY <3>1, <4>1
    <3>3. E[wr'] <= Len(sent')
      BY <1>2, <3>1
    <3> QED
      BY <3>2, <3>3
  <2>2. ASSUME NEW a \in T \ {wr'} PROVE Piece(a, E)'
    <3>1. CASE a = wr
      BY <3>1
    <3>2. CASE a # wr
      BY <1>5, <3>2, Zenon
    <3> QED
      BY <3>1, <3>2
  <2> QED
    BY <1>2, <2>1, <2>2, Zenon DEF Numbered
<1>7. Delivered(E)'
  <2>1. PICK d \in Nat, q \in Nat, z \in Nat :
          d = Len(delivered) /\ q = state.count /\ z = Len(sent)
    BY <1>0, Numbers DEF Lists
  <2>2. get + q \in S /\ d + q = D[get + q] /\ d + q <= z
    <3>1. get + q \in S
      BY <1>0, <2>1 DEF Position, InRing
    <3>2. d + q = D[get + q]
      BY <2>1 DEF Delivered
    <3> QED
      BY <1>1, <2>1, <3>1, <3>2, Zenon
  <2>3. \A i \in 1..z : sent'[i] = sent[i]
    BY <2>1 DEF Grown
  <2>4. \A i \in 1..d : delivered[i] = sent'[i]
    <3>1. \A i \in 1..d : delivered[i] = sent[i]
      BY <2>1 DEF Delivered
    <3>2. d <= z
      BY <2>2
    <3> QED
      BY <2>3, <3>1, <3>2
  <2>5. PICK m, k : m = state.method /\ k = state.type
    OBVIOUS
  <2>6. ASSUME NEW i \in 1..q
        PROVE  sent'[d + i] = <<m + (IF k = "inc" THEN i - 1 ELSE 0), mem'[get + i - 1].arg>>
    <3>1. sent[d + i] = <<m + (IF k = "inc" THEN i - 1 ELSE 0), mem[get + i - 1].arg>>
      BY <2>1, <2>5, Zenon DEF Delivered, Listed
    <3>2. sent'[d + i] = sent[d + i]
      <4>1. d + i \in 1..z
        BY <2>2
      <4> QED
        BY <2>3, <4>1
    <3>3. mem'[get + i - 1] = mem[get + i - 1]
      <4>1. get \in Nat
        BY <1>0, Numbers
      <4>2. get + i - 1 \in get..(get + q - 1)
        BY <4>1
      <4> QED
        BY <1>3, <2>1, <4>2
    <3> QED
      BY <3>1, <3>2, <3>3
  <2>7. d + q = E[get + q]
    BY <1>2, <2>2
  <2>8. /\ get' = get /\ Len(delivered') = d /\ state'.count = q
        /\ state'.method = m /\ state'.type = k /\ delivered' = delivered
    BY <2>1, <2>5
  <2>9. ~(get = Ring) /\ ~(Ring < get)
    BY <1>0, Numbers
  <2> QED
    BY <2>4, <2>6, <2>7, <2>8, <2>9, Zenon DEF Delivered, Listed
<1> QED
  BY <1>6, <1>7

(* Write sends the methods of its command. *)
LEMMA WriteNumbered ==
  ASSUME NEW S \in SUBSET (0..Ring-1), NEW J \in 0..Ring-1, Laid(S, J),
         NEW D, Numbered(S, D), Delivered(D), Lists,
         NEW c \in Commands, Write(c), NEW T, T = S \cup {wr'}
  PROVE  Lists' /\ \E E : Numbered(T, E)' /\ Delivered(E)'
<1> DEFINE n == Len(CommandKinds[c])
<1> DEFINE ms == Methods(CommandKinds[c])
<1>0. Types /\ Loaded /\ Chain(S, J)
  BY DEF Laid
<1>1. /\ get < Ring /\ wr + n < Ring /\ n \in 1..3
      /\ Outside(n) /\ \A i \in 1..n : mem'[wr + i - 1] = CommandKinds[c][i]
  BY <1>0, WrittenElsewhere DEF Outside
<1>2. /\ wr' = wr + n /\ sent' = sent \o ms
      /\ UNCHANGED <<get, state, delivered>>
      /\ IF wr >= get THEN wr + n < Ring ELSE wr + n < get
  BY DEF Write, HasRoom, pusher
<1>3. StandsFor(mem', wr, n, ms)
  <2>1. wr \in Nat
    BY <1>0, Numbers
  <2> QED
    BY <1>1, <2>1, WrittenMethods
<1> HIDE DEF n, ms
<1>4. /\ Ring \in Nat /\ get \in Nat /\ wr \in Nat /\ n \in Nat /\ 0 < n
      /\ get < Ring /\ wr + n < Ring /\ (get <= wr \/ wr + n < get)
  BY <1>0, <1>1, <1>2, Numbers
<1>5. PICK z \in Nat, y \in 1..2 : z = Len(sent) /\ y = Len(ms)
  BY <1>3 DEF Lists, StandsFor
<1>6. /\ Lists' /\ Len(sent') = z + y /\ \A i \in 1..z : sent'[i] = sent[i]
      /\ \A i \in 1..y : sent'[z + i] = ms[i]
  <2>1. sent \in Seq(Nat \X Nat) /\ ms \in Seq(Nat \X Nat) /\ delivered' \in Seq(Nat \X Nat)
    BY <1>2, <1>3 DEF Lists, StandsFor
  <2>2. /\ sent \o ms \in Seq(Nat \X Nat) /\ Len(sent \o ms) = z + y
        /\ \A i \in 1..z : (sent \o ms)[i] = sent[i]
    BY <1>5, <2>1
  <2>3. ASSUME NEW i \in 1..y PROVE (sent \o ms)[z + i] = ms[i]
    <3>1. z + i \in 1..(z + y) /\ ~(z + i <= z) /\ z + i - z = i
      OBVIOUS
    <3> QED
      BY <1>5, <2>1, <3>1
  <2> QED
    BY <1>2, <2>1, <2>2, <2>3 DEF Lists
<1>7. Grown
  BY <1>5, <1>6 DEF Grown
<1>8. wr' \in 0..Ring-1 /\ wr' \notin S
  <2>1. \/ get <= wr /\ S \subseteq get..wr
        \/ wr + n < get /\ S \subseteq 0..wr \cup get..J
    <3>1. Place = get
      BY <1>0, <1>4, Numbers
    <3> QED
      BY <1>0, <1>4, <3>1 DEF Chain, Between
  <2> QED
    BY <1>2, <1>4, <2>1
<1>9. PICK E : E = [D EXCEPT ![wr'] = Len(sent')]
  BY Zenon
<1>10. PICK w \in Nat : w = wr
  BY <1>4
<1>11. E[w] = z /\ E[w + n] = z + y
  <2>1. D \in [0..Ring-1 -> Nat] /\ D[w] = z
    BY <1>5, <1>10 DEF Numbered
  <2>2. w \in 0..Ring-1 /\ w # wr' /\ w + n = wr'
    BY <1>2, <1>4, <1>10
  <2> QED
    BY <1>6, <1>8, <1>9, <2>1, <2>2
<1>12. Piece(w, E)'
  <2>1. CASE mem'[w].kind = "call"
    <3>1. n = 1 /\ y = 2 /\ ms[1] = <<INLINE_ARRAY, 1>> /\ ms[2] = <<INLINE_ARRAY, 2>>
      BY <1>3, <1>5, <1>10, <2>1 DEF StandsFor
    <3>2. mem'[Ring + 1].arg = 1 /\ mem'[Ring + 2].arg = 2
      <4>1. Ring + 1 \notin wr..(wr + n - 1) /\ Ring + 2 \notin wr..(wr + n - 1)
            /\ Ring + 1 \in 0..Ring+3 /\ Ring + 2 \in 0..Ring+3
        BY <1>4
      <4>2. mem'[Ring + 1] = mem[Ring + 1] /\ mem'[Ring + 2] = mem[Ring + 2]
        BY <1>1, <4>1 DEF Outside
      <4> QED
        BY <1>0, <4>2 DEF Loaded, Data, Word
    <3>3. ASSUME NEW i \in 1..2 PROVE sent'[z + i] = <<INLINE_ARRAY, mem'[Ring + 1 + i - 1].arg>>
      <4>1. \/ i = 1 /\ Ring + 1 + i - 1 = Ring + 1
            \/ i = 2 /\ Ring + 1 + i - 1 = Ring + 2
        BY <1>4
      <4> QED
        BY <1>6, <3>1, <3>2, <4>1
    <3>4. Listed(E[w], 2, INLINE_ARRAY, "non", Ring + 1)'
      BY <1>11, <3>3 DEF Listed, INLINE_ARRAY
    <3> QED
      BY <1>11, <2>1, <3>1, <3>4 DEF Piece
  <2>2. CASE mem'[w].kind \in {"inc", "non"}
    <3>1. PICK q, m, k : q = mem'[w].count /\ m = mem'[w].arg /\ k = mem'[w].kind
      BY Zenon
    <3>2. /\ n = q + 1 /\ y = q
          /\ \A i \in 1..q : ms[i] = <<m + (IF k = "inc" THEN i - 1 ELSE 0), mem'[w + i].arg>>
      BY <1>3, <1>5, <1>10, <2>2, <3>1 DEF StandsFor
    <3>3. ASSUME NEW i \in 1..q
          PROVE  sent'[z + i] = <<m + (IF k = "inc" THEN i - 1 ELSE 0), mem'[w + 1 + i - 1].arg>>
      <4>1. w + 1 + i - 1 = w + i
        BY <1>10
      <4> QED
        BY <1>6, <3>2, <4>1
    <3>4. Listed(E[w], q, m, k, w + 1)'
      BY <1>11, <3>3 DEF Listed
    <3>5. E[w + q + 1] = E[w] + q
      <4>1. w + q + 1 = w + n
        BY <1>5, <1>10, <3>2
      <4> QED
        BY <1>11, <3>2, <4>1
    <3> QED
      BY <2>2, <3>1, <3>4, <3>5 DEF Piece
  <2> QED
    BY <1>3, <1>10, <2>1, <2>2 DEF StandsFor
<1>13. wr + n <= Ring
  BY <1>4
<1> QED
  BY <1>1, <1>2, <1>4, <1>6, <1>7, <1>8, <1>9, <1>10, <1>12, <1>13, Extended, Zenon

(* Wrap sends nothing, and the ring's start has the number of its end. *)
LEMMA WrapNumbered ==
  ASSUME NEW S \in SUBSET (0..Ring-1), NEW J \in 0..Ring-1, Laid(S, J),
         NEW D, Numbered(S, D), Delivered(D), Lists,
         NEW kind \in {"jump", "oldjump"}, Wrap(kind), NEW T, T = S \cup {wr'}
  PROVE  Lists' /\ \E E : Numbered(T, E)' /\ Delivered(E)'
<1>0. Types /\ Loaded /\ Chain(S, J)
  BY DEF Laid
<1>1. /\ Ring \in Nat /\ 4 < Ring /\ get \in Nat /\ 1 <= get /\ get <= wr
      /\ wr \in Nat /\ wr < Ring /\ get < Ring
  <2>1. get \in 1..wr
    BY DEF Wrap
  <2> QED
    BY <1>0, <2>1, Numbers
<1>2. /\ wr' = 0 /\ mem' = [mem EXCEPT ![wr] = Word(kind, 0, 0)]
      /\ UNCHANGED <<get, state, delivered, sent>>
  BY DEF Wrap, pusher
<1>3. Outside(1) /\ mem'[wr].kind = kind
  <2>1. mem = [a \in 0..Ring+3 |-> mem[a]]
    BY <1>0 DEF Loaded
  <2>2. mem' = [a \in 0..Ring+3 |-> IF a = wr THEN Word(kind, 0, 0) ELSE mem[a]]
    BY <1>2, <2>1, Zenon
  <2>3. wr \in 0..Ring+3 /\ \A i \in 0..Ring+3 : i \notin wr..(wr + 1 - 1) => i # wr
    BY <1>1
  <2> QED
    BY <2>2, <2>3 DEF Outside, Word
<1>4. Lists' /\ Grown
  BY <1>2 DEF Lists, Grown
<1>5. wr' \in 0..Ring-1 /\ wr' \notin S
  <2>1. S \subseteq get..wr
    <3>1. Place = get
      BY <1>0, <1>1, Numbers
    <3> QED
      BY <1>0, <1>1, <3>1 DEF Chain, Between
  <2> QED
    BY <1>1, <1>2, <2>1
<1>6. PICK E : E = [D EXCEPT ![wr'] = Len(sent')]
  BY Zenon
<1>7. PICK w \in Nat : w = wr
  BY <1>1
<1>8. Piece(w, E)'
  <2>1. D \in [0..Ring-1 -> Nat] /\ D[w] = Len(sent)
    BY <1>7 DEF Numbered
  <2>2. w \in 0..Ring-1 /\ w # 0 /\ 0 \in 0..Ring-1
    BY <1>1, <1>7
  <2>3. E[0] = E[w]
    BY <1>2, <1>6, <2>1, <2>2
  <2> QED
    BY <1>3, <1>7, <2>3 DEF Piece
<1>9. 1 \in Nat /\ 0 < 1 /\ wr + 1 <= Ring
  BY <1>1
<1> QED
  BY <1>1, <1>2, <1>3, <1>4, <1>5, <1>6, <1>7, <1>8, <1>9, Extended, Zenon

(* The pusher's steps leave the numbers of the places that are left. *)
LEMMA NumberedStays ==
  ASSUME NEW S, NEW T \in SUBSET S, NEW D, Numbered(S, D), UNCHANGED <<mem, wr, sent>>
  PROVE  Numbered(T, D)'
<1>1. ASSUME NEW a, Piece(a, D) PROVE Piece(a, D)'
  BY <1>1 DEF Piece, Listed
<1> QED
  BY <1>1 DEF Numbered

(* Header: the methods of the command that begins are the next ones. *)
LEMMA HeaderDelivers ==
  ASSUME NEW S \in SUBSET (0..Ring-1), NEW J \in 0..Ring-1, Laid(S, J),
         NEW D, Numbered(S, D), Delivered(D), Lists, Header, Types'
  PROVE  Lists' /\ Delivered(D)'
<1>0. Types /\ Loaded /\ Chain(S, J) /\ Position(S)
  BY DEF Laid
<1>1. /\ get # put /\ state.count = 0 /\ get' = get + 1
      /\ UNCHANGED <<mem, sent, delivered, subroutine>>
      /\ WordAt(get).kind \in {"inc", "non"}
      /\ state' = [method |-> WordAt(get).arg, type |-> WordAt(get).kind,
                   count |-> WordAt(get).count]
  BY DEF Header, driver
<1>2. Lists'
  BY <1>1 DEF Lists
<1>3. /\ Ring \in Nat /\ get \in Nat /\ put \in Nat /\ get' \in Nat
      /\ (get' < Ring <=> get < Ring)
  BY <1>0, <1>1, RingAssumption DEF Types
<1>4. PICK d \in Nat : d = Len(delivered)
  BY DEF Lists
<1>5. \A i \in 1..d : delivered[i] = sent[i]
  BY <1>4, Zenon DEF Delivered
<1>6. CASE get < Ring
  <2>1. get \in S /\ get # wr
    <3>1. get <= get /\ (get <= put => get < put)
      BY <1>1, <1>3
    <3>2. get + 0 = get
      BY <1>3
    <3> QED
      BY <1>0, <1>1, <1>3, <1>6, <3>1, <3>2, Behind, Zenon DEF Position, InRing
  <2>2. WordAt(get) = mem[get]
    BY <1>0, <1>3, <1>6, WordIs
  <2>3. d = D[get]
    <3>1. get + 0 = get /\ d + 0 = d
      BY <1>3
    <3> QED
      BY <1>1, <1>4, <1>6, <3>1 DEF Delivered
  <2>4. PICK q, m, k : q = mem[get].count /\ m = mem[get].arg /\ k = mem[get].kind
    OBVIOUS
  <2>5. D[get + q + 1] = d + q /\ Listed(d, q, m, k, get + 1)
    BY <1>1, <2>1, <2>2, <2>3, <2>4, Zenon DEF Numbered, Piece
  <2>6. q \in Nat
    BY <1>1, <2>2, <2>4 DEF Types
  <2>7. get + q + 1 = get' + q
    BY <1>1, <1>3, <2>6
  <2>8. state'.count = q /\ state'.method = m /\ state'.type = k
    BY <1>1, <2>2, <2>4
  <2>9. get' < Ring /\ get' # Ring /\ ~(Ring < get')
    BY <1>3, <1>6
  <2>10. Listed(d, q, m, k, get)' /\ d + q = D[get' + q]
    BY <1>1, <2>5, <2>7, Zenon DEF Listed
  <2> QED
    BY <1>1, <1>2, <1>4, <1>5, <2>8, <2>9, <2>10, Zenon DEF Delivered
<1>7. CASE ~(get < Ring)
  <2>1. get = Ring /\ WordAt(get) = Word("non", INLINE_ARRAY, 2)
    <3>1. get \in {Ring, Ring + 3} /\ WordAt(get) = mem[get]
      <4>1. get \in {Ring, Ring + 3} /\ get < Ring + 4
        BY <1>0, <1>1, <1>3, <1>7 DEF Position, InSubroutine
      <4> QED
        BY <1>0, <1>3, <4>1, WordIs
    <3> QED
      BY <1>0, <1>1, <3>1 DEF Loaded
  <2>2. state' = [method |-> INLINE_ARRAY, type |-> "non", count |-> 2]
    BY <1>1, <2>1 DEF Word
  <2>3. d + 2 = D[subroutine] /\ Listed(d, 2, INLINE_ARRAY, "non", Ring + 1)
    BY <1>4, <2>1 DEF Delivered
  <2>4. get' = Ring + 1 /\ ~(get' < Ring) /\ Ring < get' /\ get' # Ring
    BY <1>1, <1>3, <2>1
  <2> QED
    <3>1. Listed(d, 2, INLINE_ARRAY, "non", get)'
      BY <1>1, <2>3, <2>4 DEF Listed
    <3>2. state'.count = 2 /\ Len(delivered') = d
      BY <1>1, <1>4, <2>2
    <3>3. \A i \in 1..d : delivered'[i] = sent'[i]
      BY <1>1, <1>5
    <3>4. d + 2 = D[subroutine']
      BY <1>1, <2>3
    <3> QED
      BY <1>2, <2>4, <3>1, <3>2, <3>3, <3>4, Zenon DEF Delivered
<1> QED
  BY <1>6, <1>7

(* Jump: nothing was sent between the ring's end and its start. *)
LEMMA JumpDelivers ==
  ASSUME NEW S \in SUBSET (0..Ring-1), NEW J \in 0..Ring-1, Laid(S, J),
         NEW D, Numbered(S, D), Delivered(D), Lists, Jump
  PROVE  Lists' /\ Delivered(D)'
<1>0. Types /\ Loaded /\ Chain(S, J) /\ Position(S)
  BY DEF Laid
<1>1. /\ get # put /\ state.count = 0 /\ get' = WordAt(get).arg
      /\ UNCHANGED <<mem, sent, delivered, state>>
      /\ WordAt(get).kind \in {"jump", "oldjump"}
  BY DEF Jump, driver
<1>2. Lists'
  BY <1>1 DEF Lists
<1>3. Ring \in Nat /\ 4 < Ring /\ get \in Nat /\ put \in Nat /\ wr \in Nat
  BY <1>0, Numbers
<1>4. get < Ring /\ get = J /\ wr < get /\ get' = 0
  <2>1. \/ WordAt(get).kind \in {"non", "return"}
        \/ get < Ring /\ get = J /\ wr < get /\ WordAt(get).arg = 0
        \/ get < Ring /\ \E e \in S : get < e /\ Command(mem, get, e)
    BY <1>0, <1>1, Idle DEF Word
  <2>2. ASSUME get < Ring, NEW e, Command(mem, get, e) PROVE FALSE
    BY <1>0, <1>1, <1>3, <2>2, WordIs DEF Command
  <2> QED
    BY <1>1, <2>1, <2>2
<1>5. D[0] = D[get]
  <2>1. WordAt(get) = mem[get]
    BY <1>0, <1>3, <1>4, WordIs
  <2>2. get \in S \ {wr}
    BY <1>0, <1>3, <1>4 DEF Chain
  <2> QED
    BY <1>1, <2>1, <2>2 DEF Numbered, Piece
<1>6. PICK d \in Nat : d = Len(delivered)
  BY DEF Lists
<1>7. d + 0 = D[0 + 0]
  <2>1. get + 0 = get
    BY <1>3
  <2> QED
    BY <1>1, <1>4, <1>5, <1>6, <2>1 DEF Delivered
<1>8. \A i \in 1..d : delivered'[i] = sent'[i]
  BY <1>1, <1>6 DEF Delivered
<1>9. get' = 0 /\ state'.count = 0 /\ Len(delivered') = d /\ 0 # Ring /\ ~(Ring < 0)
  BY <1>1, <1>3, <1>4, <1>6
<1>10. 1..0 = {}
  OBVIOUS
<1>11. Listed(d, 0, state.method, state.type, get)'
  BY <1>10, Zenon DEF Listed
<1> QED
  BY <1>2, <1>7, <1>8, <1>9, <1>11, Zenon DEF Delivered

(* Call: the subroutine's methods are the next ones. *)
LEMMA CallDelivers ==
  ASSUME NEW S \in SUBSET (0..Ring-1), NEW J \in 0..Ring-1, Laid(S, J),
         NEW D, Numbered(S, D), Delivered(D), Lists, Call
  PROVE  Lists' /\ Delivered(D)'
<1>0. Types /\ Loaded /\ Chain(S, J) /\ Position(S)
  BY DEF Laid
<1>1. /\ get # put /\ state.count = 0 /\ WordAt(get).kind = "call"
      /\ UNCHANGED <<mem, sent, delivered, state>>
      /\ subroutine = NoReturn => subroutine' = get + 1 /\ get' = WordAt(get).arg
  BY DEF Call, driver
<1>2. Lists'
  BY <1>1 DEF Lists
<1>3. Ring \in Nat /\ 4 < Ring /\ get \in Nat /\ put \in Nat /\ wr \in Nat
  BY <1>0, Numbers
<1>4. get < Ring /\ \E e \in S : get < e /\ Command(mem, get, e)
  <2>1. \/ WordAt(get).kind \in {"non", "return", "jump", "oldjump"}
        \/ get < Ring /\ \E e \in S : get < e /\ Command(mem, get, e)
    BY <1>0, <1>1, Idle DEF Word
  <2> QED
    BY <1>1, <2>1
<1>5. WordAt(get) = mem[get] /\ WordAt(get).arg = Ring
  <2>1. WordAt(get) = mem[get]
    BY <1>0, <1>3, <1>4, WordIs
  <2> QED
    BY <1>1, <1>4, <2>1 DEF Command
<1>6. subroutine' = get + 1 /\ get' = Ring
  BY <1>0, <1>1, <1>4, <1>5 DEF Types
<1>7. get \in S /\ get # wr
  <2>1. get <= get /\ (get <= put => get < put)
    BY <1>1, <1>3
  <2>2. get + 0 = get
    BY <1>3
  <2> QED
    BY <1>0, <1>1, <1>3, <1>4, <2>1, <2>2, Behind DEF Position, InRing
<1>8. PICK d \in Nat : d = Len(delivered)
  BY DEF Lists
<1>9. d = D[get]
  <2>1. get + 0 = get /\ d + 0 = d
    BY <1>3
  <2> QED
    BY <1>1, <1>4, <1>8, <2>1 DEF Delivered
<1>10. D[get + 1] = d + 2 /\ Listed(d, 2, INLINE_ARRAY, "non", Ring + 1)
  BY <1>1, <1>5, <1>7, <1>9 DEF Numbered, Piece
<1>11. Listed(d, 2, INLINE_ARRAY, "non", Ring + 1)'
  BY <1>1, <1>10 DEF Listed
<1>12. \A i \in 1..d : delivered'[i] = sent'[i]
  BY <1>1, <1>8 DEF Delivered
<1>13. /\ get' = Ring /\ Len(delivered') = d /\ ~(Ring < Ring)
       /\ d + 2 = D[subroutine']
  BY <1>1, <1>3, <1>6, <1>8, <1>10
<1> QED
  BY <1>2, <1>11, <1>12, <1>13 DEF Delivered

(* Return: the subroutine's methods have all been taken. *)
LEMMA ReturnDelivers ==
  ASSUME NEW S \in SUBSET (0..Ring-1), NEW J \in 0..Ring-1, Laid(S, J),
         NEW D, Numbered(S, D), Delivered(D), Lists, Return, Types'
  PROVE  Lists' /\ Delivered(D)'
<1>0. Types /\ Loaded /\ Chain(S, J) /\ Position(S)
  BY DEF Laid
<1>1. /\ get # put /\ state.count = 0 /\ WordAt(get).kind = "return"
      /\ UNCHANGED <<mem, sent, delivered, state>>
      /\ subroutine # NoReturn => get' = subroutine /\ subroutine' = NoReturn
  BY DEF Return, driver
<1>2. Lists'
  BY <1>1 DEF Lists
<1>3. Ring \in Nat /\ 4 < Ring /\ get \in Nat
  BY <1>0, Numbers
<1>4. get = Ring + 3
  <2>1. \/ get = Ring + 3
        \/ WordAt(get).kind \in {"non", "jump", "oldjump"}
        \/ get < Ring /\ \E e \in S : get < e /\ Command(mem, get, e)
    BY <1>0, <1>1, Idle DEF Word
  <2>2. ASSUME get < Ring, NEW e, Command(mem, get, e) PROVE FALSE
    BY <1>0, <1>1, <1>3, <2>2, WordIs DEF Command
  <2> QED
    BY <1>1, <2>1, <2>2
<1>5. get' = subroutine /\ get' < Ring /\ get' \in Nat
  <2>1. subroutine # NoReturn
    BY <1>0, <1>3, <1>4 DEF Types
  <2>2. get' = subroutine /\ subroutine' = NoReturn
    BY <1>1, <2>1
  <2> QED
    BY <1>3, <2>2 DEF Types
<1>6. PICK d \in Nat : d = Len(delivered)
  BY DEF Lists
<1>7. d + 0 = D[get' + 0]
  <2>1. get' + 0 = get' /\ Ring < get
    BY <1>3, <1>4, <1>5
  <2> QED
    BY <1>1, <1>5, <1>6, <2>1, Zenon DEF Delivered
<1>8. \A i \in 1..d : delivered'[i] = sent'[i]
  BY <1>1, <1>6, Zenon DEF Delivered
<1>9. state'.count = 0 /\ Len(delivered') = d /\ get' # Ring /\ ~(Ring < get')
  BY <1>1, <1>3, <1>5, <1>6
<1>10. 1..0 = {}
  OBVIOUS
<1>11. Listed(d, 0, state.method, state.type, get)'
  BY <1>10, Zenon DEF Listed
<1> QED
  BY <1>2, <1>7, <1>8, <1>9, <1>11, Zenon DEF Delivered

(* DataWord: what is taken and what is skipped are the next methods sent. *)
LEMMA DataWordDelivers ==
  ASSUME NEW S \in SUBSET (0..Ring-1), NEW J \in 0..Ring-1, Laid(S, J),
         NEW D, Numbered(S, D), Delivered(D), Lists,
         NEW squash \in BOOLEAN, DataWord(squash), Types'
  PROVE  Lists' /\ Delivered(D)' /\ Len(delivered) < Len(delivered')
<1>0. Types /\ Loaded /\ Chain(S, J) /\ Position(S)
  BY DEF Laid
<1>1. PICK n \in 1..state.count : Takes(n, squash)
  BY DataWordTakes
<1>2. PICK d \in Nat, q \in Nat, z \in Nat :
        d = Len(delivered) /\ q = state.count /\ z = Len(sent)
  BY <1>0, Numbers DEF Lists
<1>3. PICK m \in Nat, k \in {"inc", "non"}, g \in Nat :
        m = state.method /\ k = state.type /\ g = get
  BY <1>0, Numbers DEF Types
<1>4. Ring \in Nat /\ g \in 0..Ring+3 /\ n \in Nat /\ 1 <= n /\ n <= q /\ q > 0
  <2>1. n \in 1..q
    BY <1>2
  <2>2. Ring \in Nat /\ g \in 0..Ring+3
    BY <1>0, <1>3, Numbers DEF Types
  <2> QED
    BY <2>1, <2>2
<1>5. /\ UNCHANGED <<mem, sent, subroutine>> /\ state'.type = k
      /\ get' = g + n + (IF squash THEN 4 ELSE 0)
      /\ delivered' = delivered \o Taken(n) \o (IF squash THEN Squashed ELSE <<>>)
  BY <1>1, <1>3 DEF Takes
(* The rest of the command is in memory, and its methods are the next. *)
<1>6. /\ g + q <= Ring + 3
      /\ \A i \in 1..q :
           sent[d + i] = <<m + (IF k = "inc" THEN i - 1 ELSE 0), mem[g + i - 1].arg>>
      /\ g < Ring => g + q \in S /\ d + q = D[g + q]
      /\ Ring <= g => /\ subroutine \in S /\ d + q = D[subroutine]
                      /\ m = INLINE_ARRAY /\ k = "non" /\ Ring < g
  <2>1. CASE g < Ring
    <3>1. g + q \in S
      BY <1>0, <1>2, <1>3, <2>1 DEF Position, InRing
    <3>2. d + q = D[g + q] /\ Listed(d, q, m, k, g)
      BY <1>2, <1>3, <2>1 DEF Delivered
    <3>3. g + q <= Ring + 3 /\ ~(Ring <= g)
      BY <1>4, <2>1, <3>1
    <3> QED
      BY <2>1, <3>1, <3>2, <3>3 DEF Listed
  <2>2. CASE ~(g < Ring)
    <3>1. /\ g \in {Ring + 1, Ring + 2} /\ q = Ring + 3 - g /\ subroutine \in S
          /\ m = INLINE_ARRAY /\ k = "non"
      BY <1>0, <1>2, <1>3, <1>4, <2>2 DEF Position, InSubroutine
    <3>2. Ring < g /\ g + q <= Ring + 3
      BY <1>4, <3>1
    <3>3. d + q = D[subroutine] /\ Listed(d, q, m, k, g)
      BY <1>2, <1>3, <3>1, <3>2 DEF Delivered
    <3> QED
      BY <2>2, <3>1, <3>2, <3>3 DEF Listed
  <2> QED
    BY <2>1, <2>2
<1>7. d + q <= z
  <2>1. \E a \in S : d + q = D[a]
    <3>1. CASE g < Ring
      BY <1>6, <3>1, Zenon
    <3>2. CASE ~(g < Ring)
      <4>1. Ring <= g
        BY <1>4, <3>2
      <4> QED
        BY <1>6, <4>1, Zenon
    <3> QED
      BY <3>1, <3>2
  <2> QED
    BY <1>2, <2>1 DEF Numbered
<1>8. \A i \in 1..d : delivered[i] = sent[i]
  BY <1>2 DEF Delivered
(* What the handler takes. *)
<1>9. /\ Taken(n) \in Seq(Nat \X Nat) /\ Len(Taken(n)) = n
      /\ \A i \in 1..n : Taken(n)[i] = sent[d + i]
  <2>1. ASSUME NEW i \in 1..n
        PROVE  /\ sent[d + i] \in Nat \X Nat
               /\ <<state.method + (IF state.type = "inc" THEN i - 1 ELSE 0),
                    WordAt(get + i - 1).arg>> = sent[d + i]
    <3>1. i \in 1..q /\ d + i \in 1..z /\ g + i - 1 \in Nat /\ g + i - 1 < Ring + 4
      BY <1>4, <1>6, <1>7
    <3>2. WordAt(g + i - 1) = mem[g + i - 1]
      BY <1>0, <3>1, WordIs
    <3>3. sent[d + i] \in Nat \X Nat
      BY <1>2, <3>1 DEF Lists
    <3> QED
      BY <1>3, <1>6, <3>1, <3>2, <3>3
  <2>2. Taken(n) = [i \in 1..n |-> sent[d + i]]
    BY <2>1 DEF Taken
  <2>3. [i \in 1..n |-> sent[d + i]] \in [1..n -> Nat \X Nat]
    BY <2>1
  <2>4. [i \in 1..n |-> sent[d + i]] \in Seq(Nat \X Nat)
    BY <1>4, <2>3
  <2> QED
    BY <1>4, <2>2, <2>4
<1>10. PICK s : s = delivered \o Taken(n)
  BY Zenon
<1>11. /\ s \in Seq(Nat \X Nat) /\ Len(s) = d + n
       /\ \A i \in 1..(d + n) : s[i] = sent[i]
  <2>1. delivered \in Seq(Nat \X Nat)
    BY DEF Lists
  <2>2. PICK t : t = Taken(n)
    OBVIOUS
  <2>3. /\ Begins(delivered, sent) /\ Follows(delivered, t, sent)
        /\ t \in Seq(Nat \X Nat) /\ Len(t) = n
    BY <1>2, <1>8, <1>9, <2>2 DEF Begins, Follows
  <2>4. /\ s \in Seq(Nat \X Nat) /\ Len(s) = Len(delivered) + Len(t) /\ Begins(s, sent)
    BY <1>10, <2>1, <2>2, <2>3, Continued, Zenon
  <2> QED
    BY <1>2, <2>3, <2>4 DEF Begins
<1>12. get' \in Nat /\ (get' < Ring <=> g < Ring)
  BY <1>0, <1>3, <1>4, <1>5 DEF Types
<1>13. CASE ~squash
  <2>1. /\ get' = g + n /\ state'.count = q - n /\ (Ring <= g => n = q)
        /\ state'.method = IF k = "inc" THEN m + n ELSE m
    BY <1>1, <1>2, <1>3, <1>4, <1>13 DEF Takes
  <2>2. delivered' = s
    <3>1. \A u \in Seq(Nat \X Nat) : u \o <<>> = u
      OBVIOUS
    <3>2. delivered' = s \o <<>>
      BY <1>5, <1>10, <1>13, Zenon
    <3> QED
      BY <1>11, <3>1, <3>2, Zenon
  <2>3. Lists' /\ Len(delivered') = d + n /\ \A i \in 1..(d + n) : delivered'[i] = sent'[i]
    BY <1>5, <1>11, <2>2, Zenon DEF Lists
  <2>4. PICK b \in Nat, r \in Nat : b = state'.method /\ r = q - n
    BY <1>4, <2>1
  <2>5. \A i \in 1..r :
          sent'[d + n + i] = <<b + (IF k = "inc" THEN i - 1 ELSE 0), mem'[get' + i - 1].arg>>
    <3> SUFFICES ASSUME NEW i \in 1..r
                 PROVE  sent[d + n + i] = <<b + (IF k = "inc" THEN i - 1 ELSE 0),
                                            mem[g + n + i - 1].arg>>
      BY <1>5, <2>1, Zenon
    <3>1. /\ n + i \in 1..q /\ d + (n + i) = d + n + i /\ g + (n + i) - 1 = g + n + i - 1
      BY <1>4, <2>4
    <3>2. sent[d + (n + i)] = <<m + (IF k = "inc" THEN (n + i) - 1 ELSE 0),
                                mem[g + (n + i) - 1].arg>>
      BY <1>6, <3>1, Zenon
    <3>3. m + (IF k = "inc" THEN (n + i) - 1 ELSE 0) = b + (IF k = "inc" THEN i - 1 ELSE 0)
      BY <1>4, <2>1, <2>4
    <3> QED
      BY <3>1, <3>2, <3>3
  <2>6. CASE g < Ring
    <3>1. d + n + r = D[get' + r]
      <4>1. d + n + r = d + q /\ get' + r = g + q
        BY <1>4, <2>1, <2>4
      <4> QED
        BY <1>6, <2>6, <4>1
    <3>2. get' < Ring /\ get' # Ring /\ ~(Ring < get')
      BY <1>4, <1>12, <2>6
    <3> QED
      <4>1. Listed(d + n, r, b, k, get)'
        BY <2>5, Zenon DEF Listed
      <4>2. state'.count = r /\ state'.method = b /\ state'.type = k
        BY <1>5, <2>1, <2>4
      <4>3. Len(delivered) < Len(delivered')
        BY <1>2, <1>4, <2>3
      <4> QED
        BY <2>3, <3>1, <3>2, <4>1, <4>2, <4>3, Zenon DEF Delivered
  <2>7. CASE ~(g < Ring)
    <3>1. Ring <= g /\ r = 0 /\ d + n + r = d + q /\ Ring < get' /\ get' # Ring /\ ~(get' < Ring)
      BY <1>4, <1>6, <2>1, <2>4, <2>7
    <3>2. d + n + r = D[subroutine']
      BY <1>5, <1>6, <3>1, Zenon
    <3>3. Len(delivered) < Len(delivered')
      BY <1>2, <1>4, <2>3
    <3>4. 1..0 = {}
      OBVIOUS
    <3>5. Listed(d + n, 0, INLINE_ARRAY, "non", get)'
      BY <3>4, Zenon DEF Listed
    <3>6. state'.count = 0 /\ d + n + 0 = D[subroutine']
      BY <2>1, <2>4, <3>1, <3>2, Zenon
    <3> QED
      BY <2>3, <3>1, <3>3, <3>5, <3>6, Zenon DEF Delivered
  <2> QED
    BY <2>6, <2>7
<1>14. CASE squash
  <2>1. g < Ring /\ Squashable /\ n = 1 /\ get' = g + 5
    BY <1>1, <1>3, <1>4, <1>14 DEF Takes
  <2>2. get # put /\ state.count > 0
    BY DEF DataWord
  <2>3. /\ q = 1
        /\ \A a \in {g + 1, g + 3} : /\ a \in S /\ a # wr /\ a + 2 \in S
                                     /\ mem[a].kind \in {"inc", "non"} /\ mem[a].count = 1
    BY <1>2, <1>3, <2>1, <2>2, SquashPlaces, Zenon
  <2>4. state'.count = 0
    BY <1>1, <1>2, <1>14, <2>3 DEF Takes
  <2>5. \A a \in {g + 1, g + 3} : /\ D[a + 2] = D[a] + 1
                                  /\ sent[D[a] + 1] = <<mem[a].arg, mem[a + 1].arg>>
    <3> SUFFICES ASSUME NEW a \in {g + 1, g + 3}
                 PROVE  D[a + 2] = D[a] + 1 /\ sent[D[a] + 1] = <<mem[a].arg, mem[a + 1].arg>>
      OBVIOUS
    <3>1. a \in S \ {wr} /\ mem[a].kind \in {"inc", "non"} /\ mem[a].count = 1 /\ a \in Nat
      BY <1>4, <2>3
    <3>2. Piece(a, D)
      BY <3>1 DEF Numbered
    <3>3. a + 1 + 1 = a + 2 /\ a + 1 + 1 - 1 = a + 1
      BY <3>1
    <3>4. D[a + 2] = D[a] + 1 /\ Listed(D[a], 1, mem[a].arg, mem[a].kind, a + 1)
      BY <3>1, <3>2, <3>3 DEF Piece
    <3>5. mem[a].arg \in Nat
      <4>1. a = g + 1 \/ a = g + 3
        OBVIOUS
      <4>2. IsHeader(g + 1, SET_BEGIN_END) /\ IsHeader(g + 3, SET_BEGIN_END)
        BY <1>3, <2>1 DEF Squashable
      <4>3. WordAt(a) = mem[a]
        BY <1>0, <1>4, <2>1, <3>1, <4>1, WordIs
      <4> QED
        BY <4>1, <4>2, <4>3 DEF IsHeader, SET_BEGIN_END
    <3>6. mem[a].arg + (IF mem[a].kind = "inc" THEN 1 - 1 ELSE 0) = mem[a].arg
      BY <3>5
    <3>7. 1 \in 1..1
      OBVIOUS
    <3> QED
      BY <3>3, <3>4, <3>6, <3>7 DEF Listed
  <2>6. D[g + 1] = d + 1 /\ D[g + 3] = d + 2 /\ D[g + 5] = d + 3
    <3>1. g + 1 + 2 = g + 3 /\ g + 3 + 2 = g + 5 /\ d + 1 + 1 = d + 2 /\ d + 2 + 1 = d + 3
      BY <1>4
    <3> QED
      BY <1>6, <2>1, <2>3, <2>5, <3>1
  <2>7. /\ sent[d + 2] = <<mem[g + 1].arg, mem[g + 2].arg>>
        /\ sent[d + 3] = <<mem[g + 3].arg, mem[g + 4].arg>> /\ d + 3 <= z
    <3>1. /\ d + 1 + 1 = d + 2 /\ d + 2 + 1 = d + 3 /\ g + 1 + 1 = g + 2 /\ g + 3 + 1 = g + 4
          /\ g + 3 + 2 = g + 5
      BY <1>4
    <3>2. D[g + 5] <= Len(sent)
      BY <2>3, <3>1 DEF Numbered
    <3> QED
      BY <1>2, <2>5, <2>6, <3>1, <3>2, Zenon
  <2>8. Squashed = <<sent[d + 2], sent[d + 3]>>
    <3>1. /\ WordAt(g + 1) = mem[g + 1] /\ WordAt(g + 2) = mem[g + 2]
          /\ WordAt(g + 3) = mem[g + 3] /\ WordAt(g + 4) = mem[g + 4]
      <4>1. g + 3 \in 0..Ring-1
        BY <2>3
      <4>2. \A i \in 1..4 : g + i \in Nat /\ g + i < Ring + 4
        BY <1>4, <4>1
      <4> QED
        BY <1>0, <4>2, WordIs
    <3> QED
      BY <1>3, <2>7, <3>1 DEF Squashed
  <2>9. PICK t : t = <<sent[d + 2], sent[d + 3]>>
    BY Zenon
  <2>10. t \in Seq(Nat \X Nat) /\ Len(t) = 2 /\ \A i \in 1..2 : t[i] = sent[d + n + i]
    <3>1. sent[d + 2] \in Nat \X Nat /\ sent[d + 3] \in Nat \X Nat
      <4>1. d + 2 \in 1..z /\ d + 3 \in 1..z
        BY <2>7
      <4> QED
        BY <1>2, <4>1 DEF Lists
    <3>2. d + n + 1 = d + 2 /\ d + n + 2 = d + 3
      BY <2>1
    <3> QED
      BY <2>9, <3>1, <3>2
  <2>11. delivered' = s \o t
    BY <1>5, <1>10, <1>14, <2>8, <2>9
  <2>12. /\ Lists' /\ Len(delivered') = d + 3
         /\ \A i \in 1..(d + 3) : delivered'[i] = sent'[i]
    <3>1. /\ s \o t \in Seq(Nat \X Nat) /\ Len(s \o t) = Len(s) + Len(t)
          /\ Begins(s \o t, sent)
      <4>1. Begins(s, sent) /\ Follows(s, t, sent)
        BY <1>11, <2>10 DEF Begins, Follows
      <4> QED
        BY <1>11, <2>10, <4>1, Continued, Zenon
    <3>2. Len(s) + Len(t) = d + 3
      BY <1>11, <2>1, <2>10
    <3> QED
      BY <1>5, <2>11, <3>1, <3>2, Zenon DEF Lists, Begins
  <2>13. /\ get' < Ring /\ get' # Ring /\ ~(Ring < get') /\ d + 3 + 0 = D[get' + 0]
         /\ Len(delivered) < Len(delivered')
    <3>1. get' + 0 = g + 5
      BY <1>4, <2>1
    <3> QED
      BY <1>2, <1>4, <1>12, <2>1, <2>6, <2>12, <3>1
  <2>14. state'.count = 0 /\ \A from, at, type, a : Listed(from, 0, at, type, a)'
    BY <2>4 DEF Listed
  <2> QED
    BY <2>12, <2>13, <2>14, Zenon DEF Delivered
<1> QED
  BY <1>13, <1>14

-----------------------------------------------------------------------------
(* The invariant. *)

(* Nothing is written, sent or delivered yet. *)
LEMMA InitInv == Init => Inv
<1> SUFFICES ASSUME Init PROVE Inv
  OBVIOUS
<1>1. {0} \in SUBSET (0..Ring-1) /\ 0 \in 0..Ring-1
  BY RingAssumption
<1>2. Laid({0}, 0)
  BY InitLaid
<1>3. Lists
  BY DEF Init, Lists
<1>4. PICK D : D = [a \in 0..Ring-1 |-> 0]
  BY Zenon
<1>5. wr = 0 /\ get = 0 /\ state.count = 0 /\ Len(sent) = 0 /\ Len(delivered) = 0
  BY DEF Init
<1>6. D \in [0..Ring-1 -> Nat] /\ D[0] = 0
  BY <1>1, <1>4
<1>7. Numbered({0}, D)
  BY <1>5, <1>6 DEF Numbered
<1>8. Delivered(D)
  <2>1. 0 + 0 = 0 /\ 0 # Ring /\ ~(Ring < 0)
    BY RingAssumption
  <2>2. 1..0 = {}
    OBVIOUS
  <2> QED
    BY <1>5, <1>6, <2>1, <2>2, Zenon DEF Delivered, Listed
<1> QED
  BY <1>1, <1>2, <1>3, <1>7, <1>8 DEF Inv

(* What the next state must have for the invariant. *)
LEMMA InvFrom ==
  ASSUME Lists', NEW T \in SUBSET (0..Ring-1), NEW K \in 0..Ring-1, Laid(T, K)',
         NEW E, Numbered(T, E)', Delivered(E)'
  PROVE  Inv'
BY DEF Inv

(* A step of the pusher that only takes from the chain and delivers. *)
LEMMA PusherInv ==
  ASSUME Inv, Pusher
  PROVE  Inv'
<1>1. PICK S \in SUBSET (0..Ring-1), J \in 0..Ring-1 :
        Laid(S, J) /\ \E D : Numbered(S, D) /\ Delivered(D)
  BY DEF Inv
<1>2. PICK D : Numbered(S, D) /\ Delivered(D)
  BY <1>1
<1>3. Lists
  BY DEF Inv
<1>4. \E T \in SUBSET S, K \in 0..Ring-1 : Laid(T, K)'
  BY <1>1, HeaderLaid, JumpLaid, CallLaid, ReturnLaid, DataWordLaid DEF Pusher
<1>5. PICK T \in SUBSET S, K \in 0..Ring-1 : Laid(T, K)'
  BY <1>4
<1>6. Types'
  BY <1>5 DEF Laid
<1>7. Lists' /\ Delivered(D)'
  BY <1>1, <1>2, <1>3, <1>6, HeaderDelivers, JumpDelivers, CallDelivers, ReturnDelivers,
     DataWordDelivers DEF Pusher
<1>8. UNCHANGED <<mem, wr, sent>>
  BY Zenon DEF Pusher, Header, Jump, Call, Return, DataWord, driver
<1>9. Numbered(T, D)'
  BY <1>2, <1>5, <1>8, NumberedStays, Zenon
<1> QED
  BY <1>5, <1>7, <1>9, InvFrom

(* Every step keeps the invariant. *)
LEMMA StepInv == Inv /\ [Next]_vars => Inv'
<1> SUFFICES ASSUME Inv, [Next]_vars PROVE Inv'
  OBVIOUS
<1>1. PICK S \in SUBSET (0..Ring-1), J \in 0..Ring-1 :
        Laid(S, J) /\ \E D : Numbered(S, D) /\ Delivered(D)
  BY DEF Inv
<1>2. PICK D : Numbered(S, D) /\ Delivered(D)
  BY <1>1
<1>3. Lists
  BY DEF Inv
<1>4. ASSUME NEW c \in Commands, Write(c) PROVE Inv'
  <2>1. PICK T \in SUBSET (0..Ring-1), K \in 0..Ring-1 : T = S \cup {wr'} /\ Laid(T, K)'
    BY <1>1, <1>4, WriteLaid
  <2>2. Lists' /\ \E E : Numbered(T, E)' /\ Delivered(E)'
    BY <1>1, <1>2, <1>3, <1>4, <2>1, WriteNumbered, Zenon
  <2> QED
    BY <2>1, <2>2, InvFrom
<1>5. ASSUME NEW kind \in {"jump", "oldjump"}, Wrap(kind) PROVE Inv'
  <2>1. PICK T \in SUBSET (0..Ring-1), K \in 0..Ring-1 : T = S \cup {wr'} /\ Laid(T, K)'
    BY <1>1, <1>5, WrapLaid
  <2>2. Lists' /\ \E E : Numbered(T, E)' /\ Delivered(E)'
    BY <1>1, <1>2, <1>3, <1>5, <2>1, WrapNumbered, Zenon
  <2> QED
    BY <2>1, <2>2, InvFrom
<1>6. ASSUME NEW a \in 0..Ring, Put(a) PROVE Inv'
  <2>1. Laid(S, J)'
    BY <1>1, <1>6, PutLaid
  <2>2. UNCHANGED <<mem, wr, sent, get, state, subroutine, delivered>>
    BY <1>6 DEF Put, driver, pusher
  <2>3. Lists' /\ Delivered(D)'
    BY <1>2, <1>3, <2>2, Zenon DEF Lists, Delivered, Listed
  <2>4. Numbered(S, D)'
    BY <1>2, <2>2, NumberedStays
  <2> QED
    BY <2>1, <2>3, <2>4, InvFrom
<1>7. CASE UNCHANGED vars
  <2>1. UNCHANGED <<mem, wr, put, get, state, subroutine, error, sent, delivered>>
    BY <1>7 DEF vars, driver, pusher
  <2>2. Types' = Types /\ Loaded' = Loaded /\ Place' = Place
    BY <2>1 DEF Types, Loaded, Place
  <2>3. Chain(S, J)'
    BY <1>1, <2>1, <2>2 DEF Laid, Chain, Between, Released
  <2>4. Position(S)'
    BY <1>1, <2>1, Zenon DEF Laid, Position, InRing, InSubroutine
  <2>5. Laid(S, J)'
    BY <1>1, <2>1, <2>2, <2>3, <2>4 DEF Laid
  <2>6. Lists' /\ Delivered(D)'
    BY <1>2, <1>3, <2>1, Zenon DEF Lists, Delivered, Listed
  <2>7. Numbered(S, D)'
    BY <1>2, <2>1, NumberedStays
  <2> QED
    BY <2>5, <2>6, <2>7, InvFrom
<1> QED
  BY <1>4, <1>5, <1>6, <1>7, PusherInv DEF Next

(* The invariant holds in every behaviour. *)
LEMMA InvHolds == Spec => []Inv
BY InitInv, StepInv, PTL DEF Spec

-----------------------------------------------------------------------------
(* pfifo_run_pusher's error states, a call in a subroutine and a return outside
   one, are not reached through a well-formed push buffer: lookahead, partial
   commands and wrapping never make the pusher take data for a command. *)
THEOREM PusherHasNoError == Spec => []NoError
<1>1. Inv => NoError
  BY DEF Inv, Laid, NoError
<1> QED
  BY <1>1, InvHolds, PTL

(* pfifo_run_pusher reads no word before PUT releases it, whatever its handlers
   take and a squash skips at once. *)
THEOREM PusherStaysBehind == Spec => []NeverAhead
<1>1. Inv => NeverAhead
  <2> SUFFICES ASSUME Inv, get < Ring PROVE NeverAhead
    BY DEF NeverAhead
  <2>1. PICK S \in SUBSET (0..Ring-1), J \in 0..Ring-1 : Chain(S, J)
    BY DEF Inv, Laid
  <2>2. Place = get
    BY DEF Place
  <2> QED
    BY <2>1, <2>2 DEF Chain, Released, NeverAhead
<1> QED
  BY <1>1, InvHolds, PTL

(* When GET has caught up with PUT and with the driver, PGRAPH has had every
   method sent and DMA_STATE is between commands. *)
THEOREM IdleMeansDone == Spec => []IdleIsDone
<1>1. Inv => IdleIsDone
  <2> SUFFICES ASSUME Inv, get = put, put = wr
               PROVE  Len(delivered) = Len(sent) /\ state.count = 0
    BY DEF IdleIsDone
  <2>1. PICK S \in SUBSET (0..Ring-1), J \in 0..Ring-1 :
          Laid(S, J) /\ \E D : Numbered(S, D) /\ Delivered(D)
    BY DEF Inv
  <2>2. PICK D : Numbered(S, D) /\ Delivered(D)
    BY <2>1
  <2>3. Types /\ Chain(S, J) /\ Position(S)
    BY <2>1 DEF Laid
  <2>4. Ring \in Nat /\ get \in Nat /\ get < Ring /\ state.count \in Nat /\ Place = get
    BY <2>3, Numbers
  <2>5. S \subseteq get..get /\ get + state.count \in S
    BY <2>3, <2>4 DEF Chain, Between, Position, InRing
  <2>6. state.count = 0
    BY <2>4, <2>5
  <2>7. Len(delivered) + 0 = D[get + 0] /\ D[get] = Len(sent) /\ get + 0 = get
    BY <2>2, <2>4, <2>6 DEF Delivered, Numbered
  <2>8. Len(delivered) \in Nat
    BY DEF Inv, Lists
  <2> QED
    BY <2>6, <2>7, <2>8
<1> QED
  BY <1>1, InvHolds, PTL

-----------------------------------------------------------------------------
(* The refinement. *)

(* The channel's way of saying that a list begins another. *)
LEMMA BeginsContinues ==
  ASSUME NEW s \in Seq(Nat \X Nat), NEW t \in Seq(Nat \X Nat),
         Begins(s, t), Len(s) <= Len(t)
  PROVE  Channel!Continues(s, t) /\ (Len(s) # Len(t) => t # s)
<1>1. SubSeq(t, 1, Len(s)) = s
  <2>1. \A i \in 1..Len(s) : s[i] = t[i]
    BY Zenon DEF Begins
  <2>2. s = [i \in 1..Len(s) |-> s[i]]
    OBVIOUS
  <2>3. SubSeq(t, 1, Len(s)) = [i \in 1..Len(s) |-> t[i]]
    OBVIOUS
  <2> QED
    BY <2>1, <2>2, <2>3, Zenon
<1> QED
  BY <1>1 DEF Channel!Continues

(* What PGRAPH has had is the beginning of what was sent. *)
LEMMA DeliveredBegins ==
  ASSUME Inv
  PROVE  Begins(delivered, sent) /\ Len(delivered) <= Len(sent)
<1>1. PICK S \in SUBSET (0..Ring-1), J \in 0..Ring-1 :
        Laid(S, J) /\ \E D : Numbered(S, D) /\ Delivered(D)
  BY DEF Inv
<1>2. PICK D : Numbered(S, D) /\ Delivered(D)
  BY <1>1
<1>3. Types /\ Position(S)
  BY <1>1 DEF Laid
<1>4. PICK d \in Nat, z \in Nat : d = Len(delivered) /\ z = Len(sent)
  BY DEF Inv, Lists
<1>5. Ring \in Nat /\ get \in Nat /\ state.count \in Nat
  BY <1>3, Numbers
<1>6. \E a \in S, r \in Nat : d + r = D[a]
  <2>1. CASE get < Ring
    BY <1>2, <1>3, <1>4, <1>5, <2>1, Zenon DEF Delivered, Position, InRing
  <2>2. CASE ~(get < Ring)
    <3>1. subroutine \in S
      BY <1>3, <2>2 DEF Position
    <3>2. get = Ring \/ Ring < get
      BY <1>5, <2>2
    <3>3. d + 2 = D[subroutine] \/ d + state.count = D[subroutine]
      BY <1>2, <1>4, <3>2 DEF Delivered
    <3>4. 2 \in Nat
      OBVIOUS
    <3> QED
      BY <1>5, <3>1, <3>3, <3>4
  <2> QED
    BY <2>1, <2>2
<1>7. d <= z
  <2>1. PICK a \in S, r \in Nat : d + r = D[a]
    BY <1>6
  <2>2. d + r <= z
    BY <1>2, <1>4, <2>1 DEF Numbered
  <2> QED
    BY <2>2
<1> QED
  BY <1>2, <1>4, <1>7 DEF Delivered, Begins

(* The invariant and what it says of the two lists. *)
Sound == Inv /\ Begins(delivered, sent) /\ Len(delivered) <= Len(sent)

(* The driver submits the methods of a command with Write. *)
LEMMA WriteSubmits ==
  ASSUME Sound, Sound', NEW c \in Commands, Write(c)
  PROVE  Channel!Submit
<1>1. PICK S \in SUBSET (0..Ring-1), J \in 0..Ring-1 : Laid(S, J)
  BY DEF Sound, Inv
<1>2. Types /\ Loaded
  BY <1>1 DEF Laid
<1> DEFINE ms == Methods(CommandKinds[c])
<1>3. sent' = sent \o ms /\ delivered' = delivered
  BY DEF Write, pusher
<1>4. StandsFor(mem', wr, Len(CommandKinds[c]), ms)
  <2>1. wr \in Nat
    BY <1>2, Numbers
  <2>2. \A i \in 1..Len(CommandKinds[c]) : mem'[wr + i - 1] = CommandKinds[c][i]
    BY <1>2, WrittenElsewhere
  <2> QED
    BY <2>1, <2>2, WrittenMethods, Zenon
<1> HIDE DEF ms
<1>5. ms \in Seq(Nat \X Nat) /\ Len(ms) \in 1..2
  BY <1>4 DEF StandsFor
<1>6. sent \in Seq(Nat \X Nat) /\ sent' \in Seq(Nat \X Nat)
  BY DEF Sound, Inv, Lists
<1>7. Begins(sent, sent') /\ Len(sent') = Len(sent) + Len(ms)
  BY <1>3, <1>5, <1>6 DEF Begins
<1>8. Len(sent) <= Len(sent') /\ Len(sent) # Len(sent')
  <2>1. Len(sent) \in Nat
    BY <1>6
  <2> QED
    BY <1>5, <1>7, <2>1
<1>9. Channel!Continues(sent, sent') /\ sent' # sent
  BY <1>6, <1>7, <1>8, BeginsContinues
<1> QED
  BY <1>3, <1>9 DEF Channel!Submit

(* PGRAPH takes the next methods with DataWord. *)
LEMMA DataWordDeliversNext ==
  ASSUME Sound, Sound', NEW squash \in BOOLEAN, DataWord(squash)
  PROVE  Channel!Deliver
<1>1. PICK S \in SUBSET (0..Ring-1), J \in 0..Ring-1 :
        Laid(S, J) /\ \E D : Numbered(S, D) /\ Delivered(D)
  BY DEF Sound, Inv
<1>2. PICK D : Numbered(S, D) /\ Delivered(D)
  BY <1>1
<1>3. Lists /\ Lists' /\ Types'
  BY DEF Sound, Inv, Laid
<1>4. Len(delivered) < Len(delivered')
  BY <1>1, <1>2, <1>3, DataWordDelivers
<1>5. sent' = sent
  BY DEF DataWord, driver
<1>6. PICK s, t, u : s = delivered /\ t = delivered' /\ u = sent
  OBVIOUS
<1>7. /\ s \in Seq(Nat \X Nat) /\ t \in Seq(Nat \X Nat) /\ u \in Seq(Nat \X Nat)
      /\ Len(s) < Len(t) /\ Len(t) <= Len(u)
  BY <1>3, <1>4, <1>5, <1>6 DEF Lists, Sound
<1>8. Begins(s, t) /\ Begins(t, u)
  <2>1. Begins(s, u) /\ Begins(t, u)
    BY <1>5, <1>6 DEF Sound, Begins
  <2>2. Len(s) \in Nat /\ Len(t) \in Nat
    BY <1>7
  <2> QED
    BY <1>7, <2>1, <2>2 DEF Begins
<1>9. Len(s) <= Len(t) /\ Len(s) # Len(t)
  <2>1. Len(s) \in Nat /\ Len(t) \in Nat
    BY <1>7
  <2> QED
    BY <1>7, <2>1
<1>10. Channel!Continues(s, t) /\ t # s /\ Channel!Continues(t, u)
  BY <1>7, <1>8, <1>9, BeginsContinues
<1> QED
  BY <1>5, <1>6, <1>10 DEF Channel!Deliver

(* The pusher and the driver implement the channel: every method sent reaches
   PGRAPH once and in order, whatever way PUT cuts the commands, handlers take
   several words, the ring wraps or a squash skips words. *)
THEOREM RingIsChannel == Spec => IsChannel
<1>1. Init => Channel!Init
  BY DEF Init, Channel!Init
<1>2. Inv => Sound
  BY DeliveredBegins DEF Sound
<1>3. ASSUME Sound, Sound', [Next]_vars PROVE [Channel!Next]_(Channel!vars)
  <2>1. ASSUME NEW c \in Commands, Write(c) PROVE Channel!Submit
    BY <1>3, <2>1, WriteSubmits
  <2>2. ASSUME NEW squash \in BOOLEAN, DataWord(squash) PROVE Channel!Deliver
    BY <1>3, <2>2, DataWordDeliversNext
  <2>3. ASSUME \/ \E kind \in {"jump", "oldjump"} : Wrap(kind)
               \/ \E a \in 0..Ring : Put(a)
               \/ Header \/ Jump \/ Call \/ Return
               \/ UNCHANGED vars
        PROVE  UNCHANGED Channel!vars
    BY <2>3, Zenon DEF Wrap, Put, Header, Jump, Call, Return, vars, driver, pusher, Channel!vars
  <2> QED
    BY <1>3, <2>1, <2>2, <2>3 DEF Next, Pusher, Channel!Next
<1> QED
  BY <1>1, <1>2, <1>3, InvHolds, PTL DEF Spec, IsChannel, Channel!Spec
=============================================================================
