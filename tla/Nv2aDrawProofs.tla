---------------------------- MODULE Nv2aDrawProofs ----------------------------
(* For any kinds of blocks, ranges, primitives, size of draw_arrays_start and
   bounds: a primitive holds vertices of one block, and the ranges of a batch
   lie within the indices that are uploaded for it.  The assertions on the batch
   hold for guests that send a block's vertices in one way, and the one on its
   size for guests with at most two vertex methods in a block.  At the end, for
   any attributes and values, what Nv2aInlineBuffer promises. *)
EXTENDS Nv2aDraw, Nv2aInlineBuffer, TLAPS

Vertices == Seq(Nat \X Nat)

Method == [op : OpKinds \cup {"begin", "end"}, arg : Nat, vertices : Vertices]

(* The vertices of u and v are all of one block. *)
Same(u, v) == \A i \in DOMAIN u, j \in DOMAIN v : u[i][1] = v[j][1]

(* An END comes between the methods i and j of s; 0 stands for the batch and
   Len(s) + 1 for what the guest sends next. *)
Ended(s, i, j) == \E k \in (i + 1)..(j - 1) : s[k].op = "end"

(* What the next method may be added to.  A batch whose ranges may not be
   connected takes its next range as a new one. *)
Current ==
  IF draws # <<>> THEN IF prevent THEN {} ELSE {draws[Len(draws)]}
  ELSE IF elements # <<>> THEN {elements} ELSE {array, buffer}

(* Methods of s with no END between them are of one block. *)
StreamApart(s) ==
  \A i \in 1..Len(s) : \A j \in i..Len(s) :
    ~Ended(s, i, j) => Same(s[i].vertices, s[j].vertices)

(* So are v, in the batch, and the methods of s up to the first END. *)
Reaches(v, s) ==
  \A j \in 1..Len(s) : ~Ended(s, 0, j) => Same(v, s[j].vertices)

(* Without an END after method i, its vertices v are of the block the guest g
   is in. *)
Held(v, s, i, g) ==
  ~Ended(s, i, Len(s) + 1) => \A k \in DOMAIN v : g.open /\ v[k][1] = g.block

GuestType ==
  [block : Nat, kinds : SUBSET OpKinds, open : BOOLEAN, held : Nat, ops : Nat,
   submitted : Vertices]

TypeOK ==
  /\ stream \in Seq(Method) /\ prim \in Nat /\ prevent \in BOOLEAN
  /\ draws \in Seq(Vertices) /\ rendered \in Seq(Vertices)
  /\ elements \in Vertices /\ array \in Vertices /\ buffer \in Vertices
  /\ guest \in GuestType

(* v may grow by the next method of s. *)
Grows(v, s, g) == Same(v, v) /\ Reaches(v, s) /\ Held(v, s, 0, g)

(* Primitives are of one block. *)
Whole ==
  /\ \A i \in 1..Len(rendered) : Same(rendered[i], rendered[i])
  /\ \A i \in 1..Len(draws) : Same(draws[i], draws[i])
  /\ \A v \in Current : Grows(v, stream, guest)

Ordered(s, g) ==
  /\ StreamApart(s)
  /\ \A i \in 1..Len(s) :
       /\ Held(s[i].vertices, s, i, g)
       /\ s[i].op \in {"begin", "end"} => s[i].vertices = <<>>
       /\ s[i].op \in {"element", "element16"} => s[i].vertices # <<>>

(* The batch is one of ranges or of elements, and a squash is followed by the
   range it was made for. *)
Batch ==
  /\ elements # <<>> => draws = <<>>
  /\ prevent => draws # <<>> /\ stream # <<>> /\ stream[1].op = "draw"

(* The inductive invariant. *)
Inv == TypeOK /\ Whole /\ Ordered(stream, guest) /\ Batch

-----------------------------------------------------------------------------
(* s after its first n methods. *)
Rest(t, s, n) ==
  /\ n \in Nat /\ t \in Seq(Method) /\ s \in Seq(Method)
  /\ Len(s) = Len(t) + n /\ \A i \in 1..Len(t) : t[i] = s[i + n]

(* What lies between two methods is not changed by taking earlier ones. *)
LEMMA RestEnded ==
  ASSUME NEW s, NEW t, NEW n, Rest(t, s, n),
         NEW i \in 0..Len(t), NEW j \in 1..Len(t)+1
  PROVE  Ended(t, i, j) <=> Ended(s, i + n, j + n)
<1>0. n \in Nat /\ Len(t) \in Nat /\ Len(s) = Len(t) + n
  BY DEF Rest
<1>1. ASSUME NEW k \in (i + 1)..(j - 1), t[k].op = "end"
      PROVE  Ended(s, i + n, j + n)
  <2>1. k \in 1..Len(t) /\ k + n \in ((i + n) + 1)..((j + n) - 1)
    BY <1>0
  <2>2. s[k + n].op = "end"
    BY <1>1, <2>1 DEF Rest
  <2> QED
    BY <2>1, <2>2 DEF Ended
<1>2. ASSUME NEW k \in ((i + n) + 1)..((j + n) - 1), s[k].op = "end"
      PROVE  Ended(t, i, j)
  <2>1. k - n \in 1..Len(t) /\ k - n \in (i + 1)..(j - 1) /\ (k - n) + n = k
    BY <1>0
  <2>2. t[k - n].op = "end"
    BY <1>2, <2>1 DEF Rest
  <2> QED
    BY <2>1, <2>2 DEF Ended
<1>3. Ended(t, i, j) => Ended(s, i + n, j + n)
  BY <1>1 DEF Ended
<1>4. Ended(s, i + n, j + n) => Ended(t, i, j)
  BY <1>2 DEF Ended
<1> QED
  BY <1>3, <1>4

(* The methods that remain are of one block up to an END. *)
LEMMA RestOrdered ==
  ASSUME NEW s, NEW t, NEW n, NEW g, Rest(t, s, n), Ordered(s, g)
  PROVE  Ordered(t, g)
<1>1. ASSUME NEW i \in 1..Len(t), NEW j \in i..Len(t), ~Ended(t, i, j)
      PROVE  Same(t[i].vertices, t[j].vertices)
  <2>1. i + n \in 1..Len(s) /\ j + n \in (i + n)..Len(s)
        /\ t[i] = s[i + n] /\ t[j] = s[j + n]
    BY DEF Rest
  <2>2. ~Ended(s, i + n, j + n)
    <3>1. i \in 0..Len(t) /\ j \in 1..Len(t)+1
      BY DEF Rest
    <3> QED
      BY <1>1, <3>1, RestEnded
  <2> QED
    BY <2>1, <2>2 DEF Ordered, StreamApart
<1>2. ASSUME NEW i \in 1..Len(t)
      PROVE  /\ Held(t[i].vertices, t, i, g)
             /\ t[i].op \in {"begin", "end"} => t[i].vertices = <<>>
             /\ t[i].op \in {"element", "element16"} => t[i].vertices # <<>>
  <2>1. i + n \in 1..Len(s) /\ t[i] = s[i + n] /\ (Len(t) + 1) + n = Len(s) + 1
    BY DEF Rest
  <2>2. Ended(t, i, Len(t) + 1) <=> Ended(s, i + n, Len(s) + 1)
    <3>1. Len(t) \in Nat
      BY DEF Rest
    <3> QED
      BY <2>1, <3>1, RestEnded
  <2> QED
    BY <2>1, <2>2 DEF Ordered, Held
<1> QED
  BY <1>1, <1>2 DEF Ordered, StreamApart

(* A part of the batch that grows with the methods of s may grow with what
   follows a method that is no END. *)
LEMMA RestGrows ==
  ASSUME NEW s, NEW t, NEW g, NEW v, Rest(t, s, 1), s[1].op # "end", Grows(v, s, g)
  PROVE  Grows(v, t, g)
<1>1. ASSUME NEW j \in 1..Len(t)+1 PROVE Ended(t, 0, j) <=> Ended(s, 0, j + 1)
  <2>1. Ended(t, 0, j) <=> Ended(s, 0 + 1, j + 1)
    <3>1. 0 \in 0..Len(t)
      BY DEF Rest
    <3> QED
      BY <3>1, RestEnded
  <2>2. Ended(s, 0, j + 1) <=> Ended(s, 1, j + 1)
    BY DEF Ended
  <2> QED
    BY <2>1, <2>2
<1>l. Len(t) \in Nat /\ Len(s) = Len(t) + 1 /\ \A j \in 1..Len(t) : t[j] = s[j + 1]
  BY DEF Rest
<1>2. \A j \in 1..Len(t) : j + 1 \in 1..Len(s) /\ t[j] = s[j + 1]
  BY <1>l
<1>3. Len(t) + 1 \in 1..Len(t)+1 /\ (Len(t) + 1) + 1 = Len(s) + 1
  BY <1>l
<1>4. Reaches(v, t)
  <2> SUFFICES ASSUME NEW j \in 1..Len(t), ~Ended(t, 0, j) PROVE Same(v, t[j].vertices)
    BY Zenon DEF Reaches
  <2>1. j \in 1..Len(t)+1
    BY <1>l
  <2> QED
    BY <1>1, <1>2, <2>1, Zenon DEF Grows, Reaches
<1>5. Held(v, t, 0, g)
  <2>1. Ended(t, 0, Len(t) + 1) <=> Ended(s, 0, Len(s) + 1)
    BY <1>1, <1>3, Zenon
  <2> QED
    BY <2>1, Zenon DEF Grows, Held
<1> QED
  BY <1>4, <1>5, Zenon DEF Grows

(* So may the vertices of the method itself. *)
LEMMA HeadGrows ==
  ASSUME NEW s, NEW t, NEW g, Rest(t, s, 1), Ordered(s, g)
  PROVE  Grows(s[1].vertices, t, g)
<1>1. Len(t) \in Nat /\ Len(s) = Len(t) + 1
  BY DEF Rest
<1>2. ASSUME NEW j \in 1..Len(t)+1 PROVE Ended(t, 0, j) <=> Ended(s, 1, j + 1)
  BY <1>1, RestEnded
<1>3. \A j \in 1..Len(t) : j + 1 \in 1..Len(s) /\ t[j] = s[j + 1]
  BY DEF Rest
<1>4. Same(s[1].vertices, s[1].vertices)
  BY <1>1 DEF Ordered, StreamApart, Ended
<1>5. Reaches(s[1].vertices, t)
  BY <1>1, <1>2, <1>3 DEF Reaches, Ordered, StreamApart
<1>6. Held(s[1].vertices, t, 0, g)
  BY <1>1, <1>2 DEF Ordered, Held
<1> QED
  BY <1>4, <1>5, <1>6 DEF Grows

(* And so may the one followed by the other. *)
LEMMA ConcatGrows ==
  ASSUME NEW u \in Vertices, NEW v \in Vertices, NEW s, NEW g,
         Grows(u, s, g), Grows(v, s, g), Same(u, v)
  PROVE  Grows(u \o v, s, g) /\ u \o v \in Vertices
<1>1. u \o v \in Vertices /\ DOMAIN (u \o v) = 1..Len(u)+Len(v)
  BY DEF Vertices
<1>2. \A i \in DOMAIN (u \o v) :
        \/ i \in DOMAIN u /\ (u \o v)[i] = u[i]
        \/ i - Len(u) \in DOMAIN v /\ (u \o v)[i] = v[i - Len(u)]
  <2>1. /\ Len(u) \in Nat /\ Len(v) \in Nat
        /\ DOMAIN u = 1..Len(u) /\ DOMAIN v = 1..Len(v)
    BY DEF Vertices
  <2>2. \A i \in 1..Len(u)+Len(v) :
          (u \o v)[i] = IF i <= Len(u) THEN u[i] ELSE v[i - Len(u)]
    BY DEF Vertices
  <2> QED
    BY <1>1, <2>1, <2>2
<1> HIDE DEF Vertices
<1>3. Same(u \o v, u \o v)
  BY <1>2 DEF Same, Grows
<1>4. Reaches(u \o v, s)
  BY <1>2 DEF Reaches, Same, Grows
<1>5. Held(u \o v, s, 0, g)
  BY <1>2 DEF Held, Grows
<1> QED
  BY <1>1, <1>3, <1>4, <1>5 DEF Grows

(* The next method adds to the batch vertices of its block. *)
LEMMA MethodGrows ==
  ASSUME NEW s, NEW t, NEW g, NEW v \in Vertices, Rest(t, s, 1), s[1].op # "end",
         Ordered(s, g), Grows(v, s, g)
  PROVE  Grows(v \o s[1].vertices, t, g) /\ v \o s[1].vertices \in Vertices
<1>1. s[1].vertices \in Vertices
  <2>1. s[1] \in Method
    BY DEF Rest
  <2> QED
    BY <2>1 DEF Method
<1>2. Same(v, s[1].vertices)
  <2>1. ~Ended(s, 0, 1) /\ 1 \in 1..Len(s)
    BY DEF Ended, Rest
  <2> QED
    BY <2>1 DEF Grows, Reaches
<1> QED
  BY <1>1, <1>2, RestGrows, HeadGrows, ConcatGrows

-----------------------------------------------------------------------------
(* The guest sends m and becomes g: vertices only inside a block and all of that
   block, and it stays in its block until it sends an END. *)
Follows(m, g) ==
  /\ m.vertices # <<>> => guest.open
  /\ \A k \in DOMAIN m.vertices : m.vertices[k][1] = guest.block
  /\ m.op # "end" /\ guest.open => g.open /\ g.block = guest.block
  /\ m.op \in {"begin", "end"} => m.vertices = <<>>
  /\ m.op \in {"element", "element16"} => m.vertices # <<>>

(* What is between two methods that were sent before. *)
LEMMA AppendEnded ==
  ASSUME NEW s \in Seq(Method), NEW m \in Method, NEW i \in 0..Len(s)
  PROVE  /\ \A j \in 1..Len(s)+1 : Ended(Append(s, m), i, j) <=> Ended(s, i, j)
         /\ m.op = "end" => Ended(Append(s, m), i, Len(s) + 2)
         /\ Ended(s, i, Len(s) + 1) => Ended(Append(s, m), i, Len(s) + 2)
<1> DEFINE t == Append(s, m)
<1>1. /\ Len(t) = Len(s) + 1 /\ Len(s) \in Nat
      /\ t[Len(s) + 1] = m /\ \A k \in 1..Len(s) : t[k] = s[k]
  OBVIOUS
<1> HIDE DEF t
<1>2. ASSUME NEW j \in 1..Len(s)+1 PROVE Ended(t, i, j) <=> Ended(s, i, j)
  <2>1. \A k \in (i + 1)..(j - 1) : t[k] = s[k]
    BY <1>1
  <2> QED
    BY <2>1 DEF Ended
<1>3. m.op = "end" => Ended(t, i, Len(s) + 2)
  <2>1. Len(s) + 1 \in (i + 1)..(Len(s) + 2 - 1)
    BY <1>1
  <2> QED
    BY <1>1, <2>1 DEF Ended
<1>4. Ended(s, i, Len(s) + 1) => Ended(t, i, Len(s) + 2)
  <2>1. \A k \in (i + 1)..(Len(s) + 1 - 1) : t[k] = s[k] /\ k \in (i + 1)..(Len(s) + 2 - 1)
    BY <1>1
  <2> QED
    BY <2>1 DEF Ended
<1> QED
  BY <1>2, <1>3, <1>4 DEF t

(* What is sent keeps to the block of the guest. *)
LEMMA AppendHeld ==
  ASSUME NEW s \in Seq(Method), NEW m \in Method, NEW g, Follows(m, g),
         NEW i \in 0..Len(s), NEW v, Held(v, s, i, guest)
  PROVE  Held(v, Append(s, m), i, g)
<1>1. Len(Append(s, m)) = Len(s) + 1 /\ Len(s) \in Nat
  OBVIOUS
<1>2. Len(Append(s, m)) + 1 = Len(s) + 2
  BY <1>1
<1> SUFFICES ASSUME ~Ended(Append(s, m), i, Len(s) + 2), NEW k \in DOMAIN v
             PROVE  g.open /\ v[k][1] = g.block
  BY <1>2 DEF Held
<1>3. m.op # "end" /\ ~Ended(s, i, Len(s) + 1)
  BY AppendEnded
<1> QED
  BY <1>3 DEF Held, Follows

(* The stream stays ordered. *)
LEMMA AppendOrdered ==
  ASSUME NEW s \in Seq(Method), NEW m \in Method, NEW g, Follows(m, g),
         Ordered(s, guest)
  PROVE  Ordered(Append(s, m), g)
<1> DEFINE t == Append(s, m)
           n == Len(s) + 1
<1>1. /\ Len(t) = n /\ Len(s) \in Nat
      /\ t[n] = m /\ \A k \in 1..Len(s) : t[k] = s[k]
  OBVIOUS
<1>2. ASSUME NEW i \in 1..n, NEW j \in i..n, ~Ended(t, i, j)
      PROVE  Same(t[i].vertices, t[j].vertices)
  <2>1. CASE j < n
    <3>1. i \in 1..Len(s) /\ j \in i..Len(s) /\ i \in 0..Len(s) /\ j \in 1..Len(s)+1
      BY <1>1, <2>1
    <3>2. ~Ended(s, i, j)
      BY <1>2, <3>1, AppendEnded
    <3> QED
      BY <1>1, <3>1, <3>2 DEF Ordered, StreamApart
  <2>2. CASE i = n
    BY <1>1, <2>2 DEF Same, Follows
  <2>3. CASE i < n /\ j = n
    <3>1. i \in 1..Len(s) /\ i \in 0..Len(s) /\ n \in 1..Len(s)+1
      BY <1>1, <2>3
    <3>2. ~Ended(s, i, Len(s) + 1)
      BY <1>2, <2>3, <3>1, AppendEnded
    <3>3. \A k \in DOMAIN s[i].vertices : s[i].vertices[k][1] = guest.block
      BY <3>1, <3>2 DEF Ordered, Held
    <3> QED
      BY <1>1, <2>3, <3>1, <3>3 DEF Same, Follows
  <2> QED
    BY <1>1, <2>1, <2>2, <2>3
<1>3. ASSUME NEW i \in 1..n PROVE Held(t[i].vertices, t, i, g)
  <2>1. CASE i < n
    <3>1. i \in 1..Len(s) /\ i \in 0..Len(s)
      BY <1>1, <2>1
    <3>2. Held(s[i].vertices, s, i, guest)
      BY <3>1 DEF Ordered
    <3> QED
      BY <1>1, <3>1, <3>2, AppendHeld
  <2>2. CASE i = n
    <3>1. m.vertices = <<>> \/ (m.vertices # <<>> /\ m.op # "end" /\ guest.open)
      BY DEF Follows
    <3>2. m.vertices = <<>> => DOMAIN m.vertices = {}
      OBVIOUS
    <3> QED
      BY <1>1, <2>2, <3>1, <3>2 DEF Held, Follows
  <2> QED
    BY <1>1, <2>1, <2>2
<1>4. ASSUME NEW i \in 1..n
      PROVE  /\ t[i].op \in {"begin", "end"} => t[i].vertices = <<>>
             /\ t[i].op \in {"element", "element16"} => t[i].vertices # <<>>
  <2>1. i = n \/ i \in 1..Len(s)
    BY <1>1
  <2> QED
    BY <1>1, <2>1 DEF Follows, Ordered
<1> HIDE DEF t, n
<1>5. StreamApart(t)
  BY <1>1, <1>2 DEF StreamApart
<1>6. Ordered(t, g)
  BY <1>1, <1>3, <1>4, <1>5 DEF Ordered
<1> QED
  BY <1>6 DEF t

(* And so does the batch. *)
LEMMA AppendGrows ==
  ASSUME NEW s \in Seq(Method), NEW m \in Method, NEW g, Follows(m, g),
         NEW v, Grows(v, s, guest)
  PROVE  Grows(v, Append(s, m), g)
<1> DEFINE t == Append(s, m)
           n == Len(s) + 1
<1>1. /\ Len(t) = n /\ Len(s) \in Nat /\ 0 \in 0..Len(s)
      /\ t[n] = m /\ \A k \in 1..Len(s) : t[k] = s[k]
  OBVIOUS
<1>2. Held(v, t, 0, g)
  BY <1>1, AppendHeld DEF Grows
<1>3. ASSUME NEW j \in 1..n, ~Ended(t, 0, j) PROVE Same(v, t[j].vertices)
  <2>1. ~Ended(s, 0, j)
    BY <1>1, <1>3, AppendEnded
  <2>2. CASE j \in 1..Len(s)
    BY <1>1, <2>1, <2>2 DEF Grows, Reaches
  <2>3. CASE j = n
    <3>1. \A k \in DOMAIN v : v[k][1] = guest.block
      BY <2>1, <2>3 DEF Grows, Held
    <3> QED
      BY <1>1, <2>3, <3>1 DEF Same, Follows
  <2> QED
    BY <1>1, <2>2, <2>3
<1> HIDE DEF t, n
<1>4. Grows(v, t, g)
  BY <1>1, <1>2, <1>3 DEF Grows, Reaches
<1> QED
  BY <1>4 DEF t

(* At the start nothing is sent. *)
LEMMA InitInv == Init => Inv
<1> SUFFICES ASSUME Init PROVE Inv
  OBVIOUS
<1>1. <<>> \in Seq(Method) /\ <<>> \in Vertices /\ <<>> \in Seq(Vertices)
  BY DEF Vertices
<1>2. guest \in GuestType
  <2>1. guest = [block |-> 0, kinds |-> {}, open |-> FALSE, held |-> 0,
                 ops |-> 0, submitted |-> <<>>]
    BY DEF Init
  <2>2. 0 \in Nat /\ {} \in SUBSET OpKinds /\ FALSE \in BOOLEAN
    OBVIOUS
  <2> QED
    BY <1>1, <2>1, <2>2, Zenon DEF GuestType
<1>3. TypeOK
  BY <1>1, <1>2 DEF Init, TypeOK
<1>4. Current = {<<>>} /\ stream = <<>> /\ draws = <<>> /\ rendered = <<>>
  BY DEF Init, Current
<1>5. Grows(<<>>, stream, guest)
  BY <1>4 DEF Grows, Same, Reaches, Held
<1>6. Whole
  BY <1>4, <1>5 DEF Whole
<1>7. Ordered(stream, guest) /\ Batch
  BY <1>4 DEF Ordered, StreamApart, Batch, Init
<1> QED
  BY <1>3, <1>6, <1>7 DEF Inv

(* A method the guest sends. *)
LEMMA SendInv ==
  ASSUME Inv, NEW m \in Method, NEW g \in GuestType, Send(m, g), Follows(m, g)
  PROVE  Inv'
<1>1. guest' = [g EXCEPT !.ops = g.ops + 1, !.submitted = g.submitted \o m.vertices]
  BY DEF Send
<1>2. g.submitted \o m.vertices \in Vertices /\ g.ops + 1 \in Nat
  BY DEF GuestType, Method, Vertices
<1>3. guest'.open = g.open /\ guest'.block = g.block
  BY <1>1 DEF GuestType
<1>4. guest' \in GuestType
  <2>1. \A n \in Nat, v \in Vertices : [g EXCEPT !.ops = n, !.submitted = v] \in GuestType
    BY Zenon DEF GuestType
  <2> QED
    BY <1>1, <1>2, <2>1
<1>5. Follows(m, guest')
  BY <1>3 DEF Follows
<1>6. stream' = Append(stream, m) /\ UNCHANGED <<prim, batch, rendered>>
  BY DEF Send
<1>7. stream \in Seq(Method) /\ stream' \in Seq(Method)
  BY <1>6 DEF Inv, TypeOK
<1>8. TypeOK'
  BY <1>4, <1>6, <1>7 DEF Inv, TypeOK, batch
<1>9. Ordered(stream, guest)'
  BY <1>5, <1>6, <1>7, AppendOrdered DEF Inv
<1>10. Current' = Current
  BY <1>6 DEF Current, batch
<1>11. \A v \in Current' : Grows(v, stream', guest')
  BY <1>5, <1>6, <1>7, <1>10, AppendGrows DEF Inv, Whole
<1>12. Whole'
  BY <1>6, <1>11 DEF Inv, Whole, batch
<1>13. Batch'
  <2>1. stream # <<>> => stream' # <<>> /\ stream'[1] = stream[1]
    BY <1>6, <1>7
  <2> QED
    BY <1>6, <2>1 DEF Inv, Batch, batch
<1> QED
  BY <1>8, <1>9, <1>12, <1>13 DEF Inv

(* GuestVertices sends vertices of the guest's block. *)
LEMMA GuestVerticesInv ==
  ASSUME Inv, NEW op \in OpKinds, NEW start \in Nat, NEW count \in Nat \ {0},
         GuestVertices(op, start, count)
  PROVE  Inv'
<1> DEFINE vs == [i \in 1..count |-> <<guest.block, start + i - 1>>]
           m == Op(op, start, vs)
           g == [guest EXCEPT !.held = guest.held + 1]
<1>1. guest \in GuestType
  BY DEF Inv, TypeOK
<1>2. vs \in Vertices /\ vs # <<>> /\ DOMAIN vs = 1..count
  <2>1. guest.block \in Nat /\ \A i \in 1..count : start + i - 1 \in Nat
    BY <1>1 DEF GuestType
  <2>2. vs \in [1..count -> Nat \X Nat]
    BY <2>1
  <2> HIDE DEF vs
  <2>3. vs \in Seq(Nat \X Nat) /\ DOMAIN vs = 1..count
    BY <2>2
  <2>4. vs # <<>>
    <3>1. 1 \in DOMAIN vs
      BY <2>3
    <3> QED
      BY <3>1
  <2> QED
    BY <2>3, <2>4 DEF Vertices
<1>3. \A k \in DOMAIN vs : vs[k][1] = guest.block
  OBVIOUS
<1>4. Send(m, g) /\ guest.open
  BY DEF GuestVertices
<1> HIDE DEF vs
<1>5. m \in Method /\ m.op = op /\ m.vertices = vs
  BY <1>2 DEF Op, Method
<1>6. guest.held + 1 \in Nat
  BY <1>1 DEF GuestType
<1>7. g \in GuestType /\ g.open = guest.open /\ g.block = guest.block
  <2>1. \A n \in Nat : [guest EXCEPT !.held = n] \in GuestType
    BY <1>1, Zenon DEF GuestType
  <2>2. g.open = guest.open /\ g.block = guest.block
    BY <1>1 DEF GuestType
  <2> QED
    BY <1>6, <2>1, <2>2
<1> HIDE DEF m, g
<1>8. Follows(m, g)
  BY <1>2, <1>3, <1>4, <1>5, <1>7 DEF Follows, OpKinds
<1> QED
  BY <1>4, <1>5, <1>7, <1>8, SendInv

(* The guest's methods. *)
LEMMA GuestInv ==
  ASSUME Inv, Guest
  PROVE  Inv'
<1>0. guest \in GuestType /\ <<>> \in Vertices
  BY DEF Inv, TypeOK, Vertices
<1>1. ASSUME NEW p \in Prims, NEW kinds \in Kinds, GuestBegin(p, kinds) PROVE Inv'
  <2> DEFINE m == Op("begin", p, <<>>)
             g == IF guest.open THEN guest
                  ELSE [guest EXCEPT !.open = TRUE, !.kinds = kinds, !.held = 0,
                                     !.block = guest.block + 1]
  <2>1. Send(m, g)
    BY <1>1 DEF GuestBegin
  <2>2. m \in Method /\ m.op = "begin" /\ m.vertices = <<>>
    BY <1>0, PrimsAssumption DEF Op, Method
  <2>3. g \in GuestType
    <3>1. \A n \in Nat, o \in BOOLEAN, b \in Nat, ks \in SUBSET OpKinds :
            [guest EXCEPT !.open = o, !.kinds = ks, !.held = n, !.block = b] \in GuestType
      BY <1>0, Zenon DEF GuestType
    <3>2. guest.block + 1 \in Nat /\ 0 \in Nat /\ TRUE \in BOOLEAN
      BY <1>0 DEF GuestType
    <3>3. kinds \in SUBSET OpKinds
      BY KindsAssumption
    <3> QED
      BY <1>0, <3>1, <3>2, <3>3
  <2>4. guest.open => g = guest
    OBVIOUS
  <2> HIDE DEF m, g
  <2>5. Follows(m, g)
    BY <2>2, <2>4 DEF Follows
  <2> QED
    BY <2>1, <2>2, <2>3, <2>5, SendInv
<1>2. CASE GuestEnd
  <2> DEFINE m == Op("end", 0, <<>>)
             g == [guest EXCEPT !.open = FALSE]
  <2>1. Send(m, g)
    BY <1>2 DEF GuestEnd
  <2>2. m \in Method /\ m.op = "end" /\ m.vertices = <<>>
    BY <1>0 DEF Op, Method
  <2>3. g \in GuestType
    <3>1. \A o \in BOOLEAN : [guest EXCEPT !.open = o] \in GuestType
      BY <1>0, Zenon DEF GuestType
    <3>2. FALSE \in BOOLEAN
      OBVIOUS
    <3> QED
      BY <3>1, <3>2, Zenon
  <2> HIDE DEF m, g
  <2>4. Follows(m, g)
    BY <2>2 DEF Follows
  <2> QED
    BY <2>1, <2>2, <2>3, <2>4, SendInv
<1>3. ASSUME NEW r \in Ranges, GuestVertices("draw", r[1], r[2]) PROVE Inv'
  <2>1. r[1] \in Nat /\ r[2] \in Nat \ {0} /\ "draw" \in OpKinds
    BY RangesAssumption DEF OpKinds
  <2> QED
    BY <1>3, <2>1, GuestVerticesInv
<1>4. ASSUME NEW op \in OpKinds, NEW n \in {1, 2}, GuestVertices(op, 0, n) PROVE Inv'
  BY <1>4, GuestVerticesInv
<1>5. {"element", "element16", "array", "vertex"} \subseteq OpKinds
  BY DEF OpKinds
<1> HIDE DEF Inv
<1> QED
  BY <1>1, <1>2, <1>3, <1>4, <1>5 DEF Guest

-----------------------------------------------------------------------------
(* The stream without its first method. *)
LEMMA TailRest ==
  ASSUME TypeOK, stream # <<>>
  PROVE  /\ Rest(Tail(stream), stream, 1) /\ Tail(stream) \in Seq(Method)
         /\ Head(stream) = stream[1] /\ Head(stream) \in Method
         /\ Head(stream).vertices \in Vertices
<1>1. stream \in Seq(Method) /\ 1 \in Nat
  BY DEF TypeOK
<1>2. /\ Tail(stream) \in Seq(Method) /\ Len(stream) = Len(Tail(stream)) + 1
      /\ Head(stream) = stream[1] /\ Head(stream) \in Method
      /\ \A i \in 1..Len(Tail(stream)) : Tail(stream)[i] = stream[i + 1]
  BY <1>1
<1> QED
  BY <1>1, <1>2 DEF Rest, Method

(* A batch that is reset can grow with anything. *)
LEMMA ResetInv ==
  ASSUME Inv, stream # <<>>, stream' = Tail(stream), ResetInlineBuffers,
         prim' \in Nat, rendered' \in Seq(Vertices), guest' = guest,
         \A i \in 1..Len(rendered') : Same(rendered'[i], rendered'[i])
  PROVE  Inv'
<1>1. Rest(stream', stream, 1) /\ stream' \in Seq(Method)
  BY TailRest DEF Inv
<1>2. /\ draws' = <<>> /\ prevent' = FALSE /\ elements' = <<>>
      /\ array' = <<>> /\ buffer' = <<>>
  BY DEF ResetInlineBuffers, ResetDrawArrays
<1>3. <<>> \in Vertices /\ <<>> \in Seq(Vertices)
  BY DEF Vertices
<1>4. TypeOK'
  BY <1>1, <1>2, <1>3 DEF Inv, TypeOK
<1>5. Ordered(stream, guest)'
  BY <1>1, RestOrdered DEF Inv
<1>6. Grows(<<>>, stream', guest')
  BY DEF Grows, Same, Reaches, Held
<1>7. Current' = {<<>>}
  BY <1>2 DEF Current
<1>8. Whole'
  BY <1>2, <1>6, <1>7 DEF Whole
<1>9. Batch'
  BY <1>2 DEF Batch
<1> QED
  BY <1>4, <1>5, <1>8, <1>9 DEF Inv

(* SET_BEGIN_END with a primitive. *)
LEMMA BeginInv ==
  ASSUME Inv, Begin
  PROVE  Inv'
<1>1. /\ stream # <<>> /\ stream' = Tail(stream) /\ Head(stream).op = "begin"
      /\ rendered' = rendered /\ guest' = guest
  BY DEF Begin, Meth
<1>2. /\ Rest(stream', stream, 1) /\ stream' \in Seq(Method)
      /\ Head(stream) = stream[1] /\ Head(stream) \in Method
  BY <1>1, TailRest DEF Inv
<1>3. CASE prim = 0
  <2>1. prim' \in Nat /\ ResetInlineBuffers
    BY <1>2, <1>3 DEF Begin, Method
  <2> QED
    BY <1>1, <2>1, ResetInv DEF Inv, TypeOK, Whole
<1>4. CASE prim # 0
  <2>1. UNCHANGED <<prim, batch>>
    BY <1>4 DEF Begin
  <2>2. TypeOK'
    BY <1>1, <1>2, <2>1 DEF Inv, TypeOK, batch
  <2>3. Ordered(stream, guest)'
    BY <1>1, <1>2, RestOrdered DEF Inv
  <2>4. Current' = Current
    BY <2>1 DEF Current, batch
  <2>5. \A v \in Current' : Grows(v, stream', guest')
    BY <1>1, <1>2, <2>4, RestGrows DEF Inv, Whole
  <2>6. Whole'
    BY <1>1, <2>1, <2>5 DEF Inv, Whole, batch
  <2>7. Batch'
    BY <1>1, <1>2, <2>1 DEF Inv, Batch, batch
  <2> QED
    BY <2>2, <2>3, <2>6, <2>7 DEF Inv
<1> QED
  BY <1>3, <1>4

(* What flush_draw draws is of one block, primitive by primitive. *)
LEMMA DrawnWhole ==
  ASSUME Inv
  PROVE  /\ Drawn \in Seq(Vertices)
         /\ \A i \in 1..Len(Drawn) : Same(Drawn[i], Drawn[i])
<1>1. CASE draws # <<>>
  BY <1>1 DEF Inv, TypeOK, Whole, Drawn
<1>2. CASE draws = <<>>
  <2>1. \A v \in Current : Same(v, v) /\ v \in Vertices
    BY <1>2 DEF Inv, Whole, Grows, Current, TypeOK
  <2>2. Drawn = <<>> \/ \E v \in Current : Drawn = <<v>>
    BY <1>2 DEF Drawn, Current
  <2>3. CASE Drawn = <<>>
    BY <2>3
  <2>4. ASSUME NEW v \in Current, Drawn = <<v>>
        PROVE  Drawn \in Seq(Vertices) /\ \A i \in 1..Len(Drawn) : Same(Drawn[i], Drawn[i])
    <3>1. Len(Drawn) = 1 /\ Drawn[1] = v /\ Drawn \in Seq(Vertices)
      BY <2>1, <2>4
    <3> QED
      BY <2>1, <3>1
  <2> QED
    BY <2>2, <2>3, <2>4
<1> QED
  BY <1>1, <1>2

(* What is drawn is added to what was. *)
LEMMA RenderedWhole ==
  ASSUME Inv
  PROVE  LET r == rendered \o Drawn IN
         r \in Seq(Vertices) /\ \A i \in 1..Len(r) : Same(r[i], r[i])
<1> DEFINE r == rendered \o Drawn
<1>1. Drawn \in Seq(Vertices) /\ rendered \in Seq(Vertices)
  BY DrawnWhole DEF Inv, TypeOK
<1>2. r \in Seq(Vertices) /\ Len(r) = Len(rendered) + Len(Drawn)
  BY <1>1
<1>3. ASSUME NEW i \in 1..Len(r)
      PROVE  \/ i \in 1..Len(rendered) /\ r[i] = rendered[i]
             \/ i - Len(rendered) \in 1..Len(Drawn) /\ r[i] = Drawn[i - Len(rendered)]
  BY <1>1, <1>2
<1> HIDE DEF r
<1>4. \A i \in 1..Len(r) : Same(r[i], r[i])
  BY <1>3, DrawnWhole DEF Inv, Whole
<1> QED
  BY <1>2, <1>4 DEF r

(* SET_BEGIN_END with OP_END. *)
LEMMA EndInv ==
  ASSUME Inv, End
  PROVE  Inv'
<1>1. /\ stream # <<>> /\ stream' = Tail(stream) /\ guest' = guest
      /\ prim' = 0 /\ ResetInlineBuffers
      /\ rendered' = rendered \/ rendered' = rendered \o Drawn
  BY DEF End, Meth
<1>2. /\ rendered' \in Seq(Vertices)
      /\ \A i \in 1..Len(rendered') : Same(rendered'[i], rendered'[i])
  BY <1>1, RenderedWhole DEF Inv, TypeOK, Whole
<1> QED
  BY <1>1, <1>2, ResetInv

(* INLINE_ARRAY and the vertices of the inline buffer. *)
LEMMA InlineInv ==
  ASSUME Inv, InlineArray \/ FinishVertex
  PROVE  Inv'
<1> DEFINE h == stream[1].vertices
<1>1. /\ stream # <<>> /\ stream' = Tail(stream) /\ Head(stream).op \notin {"draw", "end"}
      /\ UNCHANGED <<draws, prevent, elements, prim, rendered, guest>>
      /\ \/ array' = array \o Head(stream).vertices /\ buffer' = buffer
         \/ array' = array /\ buffer' = buffer \o Head(stream).vertices
  BY DEF InlineArray, FinishVertex, Meth
<1>2. /\ Rest(stream', stream, 1) /\ stream' \in Seq(Method)
      /\ Head(stream) = stream[1] /\ h \in Vertices
  BY <1>1, TailRest DEF Inv
<1>3. array \in Vertices /\ buffer \in Vertices /\ array' \in Vertices /\ buffer' \in Vertices
  <2>1. array \in Vertices /\ buffer \in Vertices
    BY DEF Inv, TypeOK
  <2>2. array \o h \in Vertices /\ buffer \o h \in Vertices
    BY <1>2, <2>1 DEF Vertices
  <2> QED
    BY <1>1, <1>2, <2>1, <2>2
<1>4. TypeOK'
  BY <1>1, <1>2, <1>3 DEF Inv, TypeOK
<1>5. Ordered(stream, guest)'
  BY <1>1, <1>2, RestOrdered DEF Inv
<1>6. \A v \in Current : Grows(v, stream', guest')
  BY <1>1, <1>2, RestGrows DEF Inv, Whole
<1>7. \A v \in Current' : Grows(v, stream', guest')
  <2>1. CASE draws = <<>> /\ elements = <<>>
    <3>1. array \in Current /\ buffer \in Current /\ Current' = {array', buffer'}
      BY <1>1, <2>1 DEF Current
    <3>2. Grows(array \o h, stream', guest') /\ Grows(buffer \o h, stream', guest')
      BY <1>1, <1>2, <1>3, <3>1, MethodGrows DEF Inv, Whole
    <3> QED
      BY <1>1, <1>2, <1>6, <3>1, <3>2
  <2>2. CASE draws # <<>> \/ elements # <<>>
    BY <1>1, <1>6, <2>2 DEF Current
  <2> QED
    BY <2>1, <2>2
<1>8. Whole'
  BY <1>1, <1>7 DEF Inv, Whole
<1>9. Batch'
  BY <1>1, <1>2 DEF Inv, Batch
<1> QED
  BY <1>4, <1>5, <1>8, <1>9 DEF Inv

(* A step that leaves a batch of elements. *)
LEMMA ElementsInv ==
  ASSUME Inv, stream # <<>>, stream' = Tail(stream), prim' = prim, guest' = guest,
         draws' = <<>>, prevent' \in BOOLEAN, ~prevent', elements' \in Vertices,
         elements' # <<>>, Grows(elements', stream', guest'),
         array' \in Vertices, buffer' \in Vertices, rendered' \in Seq(Vertices),
         \A i \in 1..Len(rendered') : Same(rendered'[i], rendered'[i])
  PROVE  Inv'
<1>1. Rest(stream', stream, 1) /\ stream' \in Seq(Method)
  BY TailRest DEF Inv
<1>2. TypeOK'
  BY <1>1 DEF Inv, TypeOK
<1>3. Ordered(stream, guest)'
  BY <1>1, RestOrdered DEF Inv
<1>4. Current' = {elements'}
  BY DEF Current
<1>5. Whole'
  BY <1>4 DEF Whole
<1> QED
  BY <1>2, <1>3, <1>5 DEF Inv, Batch

(* ARRAY_ELEMENT16 and ARRAY_ELEMENT32. *)
LEMMA ArrayElementInv ==
  ASSUME Inv, ArrayElement
  PROVE  Inv'
<1> DEFINE h == stream[1].vertices
           last == draws[Len(draws)]
<1>1. /\ stream # <<>> /\ stream' = Tail(stream) /\ prim' = prim /\ guest' = guest
      /\ Head(stream).op \in {"element", "element16"}
  BY DEF ArrayElement, Meth
<1>2. /\ Rest(stream', stream, 1) /\ stream' \in Seq(Method)
      /\ Head(stream) = stream[1] /\ h \in Vertices /\ h # <<>>
  <2>1. /\ Rest(stream', stream, 1) /\ stream' \in Seq(Method)
        /\ Head(stream) = stream[1] /\ h \in Vertices
    BY <1>1, TailRest DEF Inv
  <2>2. 1 \in 1..Len(stream)
    BY <1>1 DEF Inv, TypeOK
  <2>3. h # <<>>
    BY <1>1, <2>1, <2>2 DEF Inv, Ordered
  <2> QED
    BY <2>1, <2>3
<1>3. ~prevent
  BY <1>1, <1>2 DEF Inv, Batch
<1>4. TypeOK /\ elements \in Vertices /\ draws \in Seq(Vertices) /\ <<>> \in Vertices
  BY DEF Inv, TypeOK, Vertices
<1>5. ASSUME NEW v \in Vertices, v \in Current
      PROVE  v \o h \in Vertices /\ v \o h # <<>> /\ Grows(v \o h, stream', guest')
  <2>1. v \o h \in Vertices /\ Grows(v \o h, stream', guest')
    BY <1>1, <1>2, <1>5, MethodGrows DEF Inv, Whole
  <2>2. v \o h # <<>>
    BY <1>2 DEF Vertices
  <2> QED
    BY <2>1, <2>2
<1>6. Grows(h, stream', guest')
  BY <1>1, <1>2, HeadGrows DEF Inv
<1>7. ASSUME NEW v \in Vertices PROVE <<>> \o v = v
  BY DEF Vertices
<1>8. CASE draws = <<>>
  <2>1. /\ elements' = elements \o h
        /\ UNCHANGED <<draws, prevent, array, buffer, rendered>>
    <3>1. Len(draws) = 0
      BY <1>8
    <3>2. Len(draws) # 1 /\ ~(Len(draws) > 1)
      BY <3>1
    <3>3. h = Head(stream).vertices
      BY <1>2
    <3> HIDE DEF h
    <3> QED
      BY <3>2, <3>3, Zenon DEF ArrayElement
  <2>2. elements' \in Vertices /\ elements' # <<>> /\ Grows(elements', stream', guest')
    <3>1. CASE elements # <<>>
      <4>1. elements \in Current
        BY <1>8, <3>1 DEF Current
      <4> QED
        BY <1>4, <1>5, <2>1, <4>1
    <3>2. CASE elements = <<>>
      BY <1>2, <1>6, <1>7, <2>1, <3>2
    <3> QED
      BY <3>1, <3>2
  <2> QED
    BY <1>1, <1>3, <1>8, <2>1, <2>2, ElementsInv DEF Inv, TypeOK, Whole
<1>9. CASE draws # <<>>
  <2>1. last \in Vertices /\ Len(draws) \in Nat /\ Len(draws) >= 1 /\ LastRange = last
    BY <1>4, <1>9 DEF LastRange
  <2>2. last \in Current
    BY <1>3, <1>9 DEF Current
  <2>3. elements = <<>>
    BY <1>9 DEF Inv, Batch
  <2>4. /\ last \o h \in Vertices /\ last \o h # <<>>
        /\ Grows(last \o h, stream', guest')
    BY <1>5, <2>1, <2>2
  <2>5. elements \o last \o h = last \o h
    BY <1>7, <2>1, <2>3
  <2> HIDE DEF h, last
  <2>6. /\ elements' = last \o h /\ draws' = <<>> /\ prevent' = FALSE
        /\ \/ UNCHANGED <<array, buffer, rendered>>
           \/ array' = <<>> /\ buffer' = <<>> /\ rendered' = rendered \o Drawn
    <3>1. h = Head(stream).vertices
      BY <1>2 DEF h
    <3> QED
      BY <1>9, <2>1, <2>5, <3>1 DEF ArrayElement, ResetDrawArrays
  <2>7. /\ array' \in Vertices /\ buffer' \in Vertices /\ rendered' \in Seq(Vertices)
        /\ \A i \in 1..Len(rendered') : Same(rendered'[i], rendered'[i])
    BY <1>4, <2>6, RenderedWhole DEF Inv, TypeOK, Whole
  <2> QED
    BY <1>1, <2>4, <2>6, <2>7, ElementsInv
<1> QED
  BY <1>8, <1>9

(* DRAW_ARRAYS. *)
LEMMA DrawArraysInv ==
  ASSUME Inv, DrawArrays
  PROVE  Inv'
<1> DEFINE h == Head(stream).vertices
           connected == [draws EXCEPT ![Len(draws)] = draws[Len(draws)] \o h]
<1>1. /\ stream # <<>> /\ Head(stream).op = "draw"
      /\ UNCHANGED <<prim, array, buffer, rendered, guest>>
  BY DEF DrawArrays, Meth
<1>2. /\ Rest(Tail(stream), stream, 1) /\ Tail(stream) \in Seq(Method)
      /\ Head(stream) = stream[1] /\ h \in Vertices
  BY <1>1, TailRest DEF Inv
<1>3. TypeOK /\ draws \in Seq(Vertices) /\ elements \in Vertices /\ stream \in Seq(Method)
  BY DEF Inv, TypeOK
<1>4. Grows(h, Tail(stream), guest)
  BY <1>2, HeadGrows DEF Inv
<1>5. CASE elements # <<>>
  <2>1. /\ stream' = Tail(stream) /\ elements' = elements \o h
        /\ draws' = draws /\ prevent' = prevent
    BY <1>5 DEF DrawArrays
  <2>2. draws = <<>> /\ ~prevent
    BY <1>5 DEF Inv, Batch
  <2>3. elements \in Current
    BY <1>5, <2>2 DEF Current
  <2>4. elements' \in Vertices /\ Grows(elements', stream', guest')
    BY <1>1, <1>2, <1>3, <2>1, <2>3, MethodGrows DEF Inv, Whole
  <2>5. elements' # <<>>
    BY <1>2, <1>3, <1>5, <2>1 DEF Vertices
  <2> QED
    BY <1>1, <2>1, <2>2, <2>4, <2>5, ElementsInv DEF Inv, TypeOK, Whole
<1>6. CASE elements = <<>>
  <2>1. /\ elements' = <<>>
        /\ \/ draws' = connected /\ ~prevent /\ draws # <<>>
           \/ draws' = Append(draws, h)
    BY <1>6 DEF DrawArrays, Connects, Continues, LastRange
  <2>2. \/ stream' = SubSeq(stream, 2, Len(stream)) /\ prevent' = FALSE
        \/ /\ stream' = SubSeq(stream, 4, Len(stream)) /\ prevent' = TRUE
           /\ Len(stream) >= 4 /\ stream[4].op = "draw"
    <3>1. /\ stream' = SubSeq(stream, IF Squashes THEN 4 ELSE 2, Len(stream))
          /\ prevent' = Squashes
      BY <1>6, Zenon DEF DrawArrays
    <3>2. Squashes => Len(stream) >= 4 /\ stream[4].op = "draw"
      BY DEF Squashes
    <3>3. Squashes \in BOOLEAN
      BY DEF Squashes
    <3> HIDE DEF Squashes
    <3> QED
      BY <3>1, <3>2, <3>3, Zenon
  <2> HIDE DEF h
  <2> DEFINE n == Len(draws')
  <2>3. /\ draws' \in Seq(Vertices) /\ draws' # <<>>
        /\ \A i \in 1..n : Same(draws'[i], draws'[i])
        /\ Grows(draws'[n], Tail(stream), guest)
    <3>1. CASE draws' = connected /\ ~prevent /\ draws # <<>>
      <4> DEFINE last == draws[Len(draws)]
      <4>1. Len(draws) \in 1..Len(draws) /\ last \in Vertices
        BY <1>3, <3>1
      <4>2. last \in Current
        BY <3>1 DEF Current
      <4>3. Grows(last \o h, Tail(stream), guest) /\ last \o h \in Vertices
        <5>1. h = stream[1].vertices /\ stream[1].op # "end"
          BY <1>1, <1>2 DEF h
        <5> HIDE DEF last
        <5>2. Grows(last, stream, guest)
          BY <4>2 DEF Inv, Whole
        <5> QED
          BY <1>2, <4>1, <5>1, <5>2, MethodGrows DEF Inv
      <4> HIDE DEF last
      <4>4. draws' = [draws EXCEPT ![Len(draws)] = last \o h]
        BY <3>1 DEF last
      <4>5. /\ draws' \in Seq(Vertices) /\ n = Len(draws) /\ draws'[n] = last \o h
            /\ \A i \in 1..n : i # n => draws'[i] = draws[i]
        BY <1>3, <4>1, <4>3, <4>4
      <4>6. draws' # <<>>
        BY <4>1, <4>5
      <4>7. \A i \in 1..n : Same(draws'[i], draws'[i])
        BY <4>3, <4>5 DEF Grows, Inv, Whole
      <4> QED
        BY <4>3, <4>5, <4>6, <4>7
    <3>2. CASE draws' = Append(draws, h)
      <4>1. /\ draws' \in Seq(Vertices) /\ n = Len(draws) + 1 /\ draws'[n] = h
            /\ Len(draws) \in Nat /\ \A i \in 1..Len(draws) : draws'[i] = draws[i]
        BY <1>2, <1>3, <3>2
      <4>2. draws' # <<>>
        BY <4>1
      <4>3. ASSUME NEW i \in 1..n PROVE Same(draws'[i], draws'[i])
        <5>1. i = n \/ i \in 1..Len(draws)
          BY <4>1
        <5> QED
          BY <1>4, <4>1, <5>1 DEF Grows, Inv, Whole, h
      <4>4. Grows(draws'[n], Tail(stream), guest)
        BY <1>4, <4>1 DEF h
      <4> QED
        BY <4>1, <4>2, <4>3, <4>4
    <3> QED
      BY <2>1, <3>1, <3>2
  <2>4. CASE stream' = SubSeq(stream, 2, Len(stream)) /\ prevent' = FALSE
    <3>1. stream' = Tail(stream)
      BY <1>1, <1>3, <2>4
    <3>2. TypeOK'
      BY <1>1, <1>2, <1>3, <1>6, <2>1, <2>3, <2>4, <3>1 DEF TypeOK
    <3>3. Ordered(stream, guest)'
      BY <1>1, <1>2, <3>1, RestOrdered DEF Inv
    <3>4. Current' = {draws'[n]}
      BY <2>3, <2>4 DEF Current
    <3>5. Whole'
      BY <1>1, <2>3, <3>1, <3>4 DEF Whole, Inv
    <3>6. Batch'
      BY <2>1, <2>4 DEF Batch
    <3> QED
      BY <3>2, <3>3, <3>5, <3>6 DEF Inv
  <2>5. CASE /\ stream' = SubSeq(stream, 4, Len(stream)) /\ prevent' = TRUE
             /\ Len(stream) >= 4 /\ stream[4].op = "draw"
    <3>1. /\ stream' \in Seq(Method) /\ Len(stream) = Len(stream') + 3
          /\ \A i \in 1..Len(stream') : stream'[i] = stream[i + 3]
          /\ stream' # <<>> /\ stream'[1] = stream[4]
      <4>1. Len(stream) \in Nat /\ 4 \in 1..Len(stream) /\ stream' = SubSeq(stream, 4, Len(stream))
        BY <1>3, <2>5
      <4>2. stream' \in Seq(Method) /\ Len(stream') = Len(stream) - 3
        BY <1>3, <4>1
      <4>3. \A i \in 1..Len(stream') : stream'[i] = stream[i + 3]
        BY <1>3, <4>1, <4>2
      <4>4. 1 \in 1..Len(stream')
        BY <4>1, <4>2
      <4>5. stream' # <<>> /\ stream'[1] = stream[4]
        <5>1. stream'[1] = stream[1 + 3]
          BY <4>3, <4>4
        <5> QED
          BY <4>4, <5>1
      <4> QED
        BY <4>1, <4>2, <4>3, <4>5
    <3>2. Rest(stream', stream, 3)
      BY <1>3, <3>1 DEF Rest
    <3>3. TypeOK'
      BY <1>1, <1>3, <1>6, <2>1, <2>3, <2>5, <3>1 DEF TypeOK
    <3>4. Ordered(stream, guest)'
      BY <1>1, <3>2, RestOrdered DEF Inv
    <3>5. Current' = {}
      BY <2>3, <2>5 DEF Current
    <3>6. Whole'
      BY <1>1, <2>3, <3>5 DEF Whole, Inv
    <3>7. Batch'
      BY <2>1, <2>3, <2>5, <3>1 DEF Batch
    <3> QED
      BY <3>3, <3>4, <3>6, <3>7 DEF Inv
  <2> QED
    BY <2>2, <2>4, <2>5
<1> QED
  BY <1>5, <1>6

(* Every step keeps the invariant. *)
LEMMA NextInv ==
  ASSUME Inv, [Next]_vars
  PROVE  Inv'
<1>1. CASE UNCHANGED vars
  BY <1>1 DEF Inv, TypeOK, Whole, Current, Batch, vars, batch
<1>2. CASE Next
  BY <1>2, GuestInv, BeginInv, EndInv, DrawArraysInv, ArrayElementInv, InlineInv, Zenon
     DEF Next
<1> QED
  BY <1>1, <1>2

(* Whatever blocks the guest sends, with nested BEGINs and ENDs outside a block,
   and however its DRAW_ARRAYS are squashed, connected and expanded to elements:
   a primitive that is drawn has the vertices of one BEGIN/END block. *)
THEOREM PrimitivesAreOfOneBlock == Spec => []BlocksStayApart
<1>1. Inv => BlocksStayApart
  <2> SUFFICES ASSUME Inv,
                      NEW v \in Range(rendered) \cup Range(draws) \cup {elements}
               PROVE  Same(v, v)
    BY DEF BlocksStayApart, Same
  <2>1. CASE v \in Range(rendered)
    BY <2>1 DEF Range, Inv, TypeOK, Whole
  <2>2. CASE v \in Range(draws)
    BY <2>2 DEF Range, Inv, TypeOK, Whole
  <2>3. CASE v = elements /\ elements # <<>>
    BY <2>3 DEF Inv, Whole, Batch, Current, Grows
  <2>4. CASE v = <<>>
    BY <2>4 DEF Same
  <2> QED
    BY <2>1, <2>2, <2>3, <2>4
<1>2. Inv /\ [Next]_vars => Inv'
  BY NextInv
<1> QED
  BY <1>1, <1>2, InitInv, PTL DEF Spec

-----------------------------------------------------------------------------
(* The indices of vs lie in lo..hi-1. *)
Within(vs, lo, hi) == \A k \in 1..Len(vs) : vs[k][2] \in lo..(hi - 1)

(* A DRAW_ARRAYS carries its range of indices. *)
Indexed(s) ==
  \A i \in 1..Len(s) : s[i].op = "draw" =>
    Within(s[i].vertices, s[i].arg, s[i].arg + Len(s[i].vertices))

Bound ==
  /\ minStart \in Nat /\ maxCount \in Nat
  /\ Indexed(stream)
  /\ \A i \in 1..Len(draws) : Within(draws[i], minStart, maxCount)

(* The methods that remain keep their ranges. *)
LEMMA RestIndexed ==
  ASSUME NEW s, NEW t, NEW n, Rest(t, s, n), Indexed(s)
  PROVE  Indexed(t)
<1>1. \A i \in 1..Len(t) : i + n \in 1..Len(s) /\ t[i] = s[i + n]
  BY DEF Rest
<1> QED
  BY <1>1 DEF Indexed

(* A range within bounds is within wider ones. *)
LEMMA WithinWider ==
  ASSUME NEW vs \in Vertices, NEW lo \in Nat, NEW hi \in Nat, NEW a \in Nat, NEW b \in Nat,
         Within(vs, lo, hi), a <= lo, hi <= b
  PROVE  Within(vs, a, b)
<1>1. ASSUME NEW k \in 1..Len(vs) PROVE vs[k][2] \in a..(b - 1)
  <2>1. vs[k][2] \in lo..(hi - 1)
    BY DEF Within
  <2> QED
    BY <2>1
<1> QED
  BY <1>1 DEF Within

(* A range and the one that continues it are within the bounds of both. *)
LEMMA ConcatWithin ==
  ASSUME NEW u \in Vertices, NEW v \in Vertices, NEW lo, NEW hi,
         Within(u, lo, hi), Within(v, lo, hi)
  PROVE  Within(u \o v, lo, hi)
<1>1. ASSUME NEW i \in 1..Len(u \o v)
      PROVE  \/ i \in 1..Len(u) /\ (u \o v)[i] = u[i]
             \/ i - Len(u) \in 1..Len(v) /\ (u \o v)[i] = v[i - Len(u)]
  BY DEF Vertices
<1> QED
  BY <1>1 DEF Within

(* DRAW_ARRAYS widens the bounds by its range. *)
LEMMA DrawArraysBound ==
  ASSUME Inv, Bound, DrawArrays
  PROVE  Bound'
<1> DEFINE h == Head(stream).vertices
           start == Head(stream).arg
           last == draws[Len(draws)]
<1>1. stream # <<>> /\ Head(stream).op = "draw"
  BY DEF DrawArrays, Meth
<1>2. /\ Rest(Tail(stream), stream, 1) /\ Head(stream) = stream[1]
      /\ Head(stream) \in Method /\ h \in Vertices
  BY <1>1, TailRest DEF Inv
<1>3. draws \in Seq(Vertices) /\ stream \in Seq(Method)
  BY DEF Inv, TypeOK
<1>4. start \in Nat /\ Len(h) \in Nat
  BY <1>2 DEF Method, Vertices
<1>5. Within(h, start, start + Len(h))
  <2>1. 1 \in 1..Len(stream)
    BY <1>1, <1>3
  <2> QED
    BY <1>1, <1>2, <2>1 DEF Bound, Indexed
<1>6. \E n \in Nat : Rest(stream', stream, n)
  <2>1. \/ stream' = Tail(stream)
        \/ stream' = SubSeq(stream, 2, Len(stream))
        \/ stream' = SubSeq(stream, 4, Len(stream)) /\ Len(stream) >= 4
    <3>1. Squashes => Len(stream) >= 4
      BY DEF Squashes
    <3>2. \/ stream' = Tail(stream)
          \/ stream' = SubSeq(stream, IF Squashes THEN 4 ELSE 2, Len(stream))
      BY Zenon DEF DrawArrays
    <3> QED
      BY <3>1, <3>2, Zenon
  <2>2. SubSeq(stream, 2, Len(stream)) = Tail(stream)
    BY <1>1, <1>3
  <2>3. CASE stream' = SubSeq(stream, 4, Len(stream)) /\ Len(stream) >= 4
    <3>1. Len(stream) \in Nat /\ 4 \in 1..Len(stream)
      BY <1>3, <2>3
    <3>2. stream' \in Seq(Method) /\ Len(stream') = Len(stream) - 3
      BY <1>3, <2>3, <3>1
    <3>3. \A i \in 1..Len(stream') : stream'[i] = stream[i + 3]
      BY <1>3, <2>3, <3>1, <3>2
    <3>4. Rest(stream', stream, 3)
      BY <1>3, <3>1, <3>2, <3>3 DEF Rest
    <3> QED
      BY <3>4
  <2> QED
    BY <1>2, <2>1, <2>2, <2>3
<1>7. Indexed(stream')
  BY <1>6, RestIndexed DEF Bound
<1>8. CASE elements # <<>>
  <2>1. UNCHANGED <<draws, minStart, maxCount>>
    BY <1>8 DEF DrawArrays
  <2> QED
    BY <1>7, <2>1 DEF Bound
<1>9. CASE elements = <<>>
  <2>1. /\ minStart' = Lesser(minStart, start)
        /\ maxCount' = Greater(maxCount, start + Len(h))
        /\ \/ draws # <<>> /\ draws' = [draws EXCEPT ![Len(draws)] = last \o h]
           \/ draws' = Append(draws, h)
    BY <1>9 DEF DrawArrays, Connects, Continues, LastRange
  <2> HIDE DEF h, start
  <2>2. /\ minStart' \in Nat /\ maxCount' \in Nat /\ start + Len(h) \in Nat
        /\ minStart' <= minStart /\ minStart' <= start
        /\ maxCount <= maxCount' /\ start + Len(h) <= maxCount'
    BY <1>4, <2>1 DEF Bound, Lesser, Greater
  <2>3. Within(h, minStart', maxCount')
    BY <1>2, <1>4, <1>5, <2>2, WithinWider DEF h, start
  <2>4. ASSUME NEW i \in 1..Len(draws) PROVE Within(draws[i], minStart', maxCount')
    <3>1. draws[i] \in Vertices
      BY <1>3
    <3> QED
      BY <2>2, <3>1, WithinWider DEF Bound
  <2>5. ASSUME NEW i \in 1..Len(draws') PROVE Within(draws'[i], minStart', maxCount')
    <3>1. CASE draws' = Append(draws, h)
      <4>1. (i \in 1..Len(draws) /\ draws'[i] = draws[i]) \/ draws'[i] = h
        <5>1. Len(draws') = Len(draws) + 1 /\ Len(draws) \in Nat
          BY <1>3, <3>1
        <5> QED
          BY <1>3, <3>1, <5>1
      <4> QED
        BY <2>3, <2>4, <4>1
    <3>2. CASE draws # <<>> /\ draws' = [draws EXCEPT ![Len(draws)] = last \o h]
      <4>1. Len(draws) \in 1..Len(draws) /\ last \in Vertices
        BY <1>3, <3>2
      <4>2. Within(last \o h, minStart', maxCount')
        BY <1>2, <2>3, <2>4, <4>1, ConcatWithin DEF h
      <4>3. Len(draws') = Len(draws)
            /\ draws'[i] = IF i = Len(draws) THEN last \o h ELSE draws[i]
        <5> HIDE DEF last
        <5>1. DOMAIN draws' = DOMAIN draws /\ DOMAIN draws = 1..Len(draws)
          BY <1>3, <3>2
        <5>2. draws' \in Seq(Vertices)
          BY DrawArraysInv DEF Inv, TypeOK
        <5>3. Len(draws') = Len(draws)
          BY <1>3, <5>1, <5>2
        <5> QED
          BY <1>3, <3>2, <5>1, <5>3
      <4> QED
        BY <2>4, <4>2, <4>3
    <3> QED
      BY <2>1, <3>1, <3>2
  <2> QED
    BY <1>7, <2>2, <2>5 DEF Bound
<1> QED
  BY <1>8, <1>9

(* What the guest sends carries its range too. *)
LEMMA SendBound ==
  ASSUME Inv, Bound, NEW m \in Method, NEW g, Send(m, g),
         m.op = "draw" => Within(m.vertices, m.arg, m.arg + Len(m.vertices))
  PROVE  Bound'
<1>1. stream' = Append(stream, m) /\ UNCHANGED <<draws, minStart, maxCount>>
  BY DEF Send, batch
<1>2. stream \in Seq(Method)
  BY DEF Inv, TypeOK
<1>3. ASSUME NEW i \in 1..Len(stream')
      PROVE  (i \in 1..Len(stream) /\ stream'[i] = stream[i]) \/ stream'[i] = m
  <2>1. Len(stream') = Len(stream) + 1 /\ Len(stream) \in Nat
    BY <1>1, <1>2
  <2> QED
    BY <1>1, <1>2, <2>1
<1>4. Indexed(stream')
  BY <1>3 DEF Bound, Indexed
<1> QED
  BY <1>1, <1>4 DEF Bound

(* GuestVertices sends count indices from start. *)
LEMMA GuestVerticesBound ==
  ASSUME Inv, Bound, NEW op \in OpKinds, NEW start \in Nat, NEW count \in Nat,
         GuestVertices(op, start, count)
  PROVE  Bound'
<1> DEFINE vs == [i \in 1..count |-> <<guest.block, start + i - 1>>]
           m == Op(op, start, vs)
           g == [guest EXCEPT !.held = guest.held + 1]
<1>1. Send(m, g)
  BY DEF GuestVertices
<1>2. guest.block \in Nat
  BY DEF Inv, TypeOK, GuestType
<1>3. vs \in [1..count -> Nat \X Nat]
  BY <1>2
<1>4. \A k \in 1..count : vs[k][2] \in start..(start + count - 1)
  OBVIOUS
<1> HIDE DEF vs
<1>5. vs \in Vertices /\ Len(vs) = count
  BY <1>3 DEF Vertices
<1>6. Within(vs, start, start + Len(vs))
  BY <1>4, <1>5 DEF Within
<1>7. m \in Method /\ m.arg = start /\ m.vertices = vs
  BY <1>5 DEF Op, Method
<1> HIDE DEF m, g
<1> QED
  BY <1>1, <1>6, <1>7, SendBound

(* The guest's methods. *)
LEMMA GuestBound ==
  ASSUME Inv, Bound, Guest
  PROVE  Bound'
<1>0. <<>> \in Vertices
  BY DEF Vertices
<1>1. ASSUME NEW p \in Prims, NEW kinds \in Kinds, GuestBegin(p, kinds) PROVE Bound'
  <2>1. \E g : Send(Op("begin", p, <<>>), g)
    BY <1>1, Zenon DEF GuestBegin
  <2>2. Op("begin", p, <<>>) \in Method /\ Op("begin", p, <<>>).op # "draw"
    BY <1>0, PrimsAssumption DEF Op, Method
  <2> QED
    BY <2>1, <2>2, SendBound
<1>2. CASE GuestEnd
  <2>1. \E g : Send(Op("end", 0, <<>>), g)
    BY <1>2, Zenon DEF GuestEnd
  <2>2. Op("end", 0, <<>>) \in Method /\ Op("end", 0, <<>>).op # "draw"
    BY <1>0 DEF Op, Method
  <2> QED
    BY <2>1, <2>2, SendBound
<1>3. ASSUME NEW r \in Ranges, GuestVertices("draw", r[1], r[2]) PROVE Bound'
  <2>1. r[1] \in Nat /\ r[2] \in Nat /\ "draw" \in OpKinds
    BY RangesAssumption DEF OpKinds
  <2> QED
    BY <1>3, <2>1, GuestVerticesBound
<1>4. ASSUME NEW op \in OpKinds, NEW n \in {1, 2}, GuestVertices(op, 0, n) PROVE Bound'
  BY <1>4, GuestVerticesBound
<1>5. {"element", "element16", "array", "vertex"} \subseteq OpKinds
  BY DEF OpKinds
<1> HIDE DEF Inv, Bound
<1> QED
  BY <1>1, <1>2, <1>3, <1>4, <1>5 DEF Guest

(* The other methods keep the ranges and their bounds or drop both. *)
LEMMA OthersBound ==
  ASSUME Inv, Bound, Begin \/ End \/ ArrayElement \/ InlineArray \/ FinishVertex
  PROVE  Bound'
<1>1. stream # <<>> /\ stream' = Tail(stream)
  BY DEF Begin, End, ArrayElement, InlineArray, FinishVertex, Meth
<1>2. Indexed(stream')
  BY <1>1, TailRest, RestIndexed DEF Inv, Bound
<1>3. UNCHANGED <<draws, minStart, maxCount>> \/ ResetDrawArrays
  BY DEF Begin, End, ArrayElement, InlineArray, FinishVertex, batch, ResetInlineBuffers
<1>4. CASE UNCHANGED <<draws, minStart, maxCount>>
  BY <1>2, <1>4 DEF Bound
<1>5. CASE ResetDrawArrays
  BY <1>2, <1>5 DEF Bound, ResetDrawArrays, NoStart
<1> QED
  BY <1>3, <1>4, <1>5

(* Whatever ranges are connected, squashed or expanded: the vertices that
   flush_draw uploads, from draw_arrays_min_start on, include every index of the
   ranges it draws. *)
THEOREM UploadCoversRanges == Spec => []RangesAreBound
<1>1. Init => Inv /\ Bound
  BY InitInv DEF Init, Bound, Indexed, NoStart
<1>2. Inv /\ Bound /\ [Next]_vars => Inv' /\ Bound'
  <2> SUFFICES ASSUME Inv, Bound, [Next]_vars PROVE Bound'
    BY NextInv
  <2>1. CASE UNCHANGED vars
    BY <2>1 DEF Bound, vars, batch
  <2>2. CASE Next
    BY <2>2, GuestBound, DrawArraysBound, OthersBound, Zenon DEF Next
  <2> QED
    BY <2>1, <2>2
<1>3. Inv /\ Bound => RangesAreBound
  <2> SUFFICES ASSUME Inv, Bound, NEW v \in Range(draws), NEW k \in DOMAIN v
               PROVE  v[k][2] \in minStart..(maxCount - 1)
    BY DEF RangesAreBound
  <2>1. draws \in Seq(Vertices)
    BY DEF Inv, TypeOK
  <2>2. PICK i \in 1..Len(draws) : v = draws[i]
    BY <2>1 DEF Range
  <2>3. v \in Vertices
    BY <2>1, <2>2
  <2>4. k \in 1..Len(v)
    BY <2>3 DEF Vertices
  <2> QED
    BY <2>2, <2>4 DEF Bound, Within
<1> QED
  BY <1>1, <1>2, <1>3, PTL DEF Spec

-----------------------------------------------------------------------------
(* The guest sends one of these. *)
LEMMA GuestMethods ==
  ASSUME Guest
  PROVE  \/ \E p \in Prims, kinds \in Kinds : GuestBegin(p, kinds)
         \/ GuestEnd
         \/ \E op \in OpKinds, start \in Nat, count \in Nat :
              GuestVertices(op, start, count)
<1>1. \A r \in Ranges : r[1] \in Nat /\ r[2] \in Nat
  BY RangesAssumption
<1>2. {"draw", "element", "element16", "array", "vertex"} = OpKinds
      /\ 0 \in Nat /\ 1 \in Nat /\ 2 \in Nat
  BY DEF OpKinds
<1> QED
  BY <1>1, <1>2 DEF Guest

(* BEGIN opens a block unless one is open. *)
LEMMA BeginMethod ==
  ASSUME NEW p \in Prims, NEW kinds \in Kinds, guest \in GuestType, GuestBegin(p, kinds)
  PROVE  \E m \in Method, g \in GuestType :
           /\ Send(m, g) /\ m.op = "begin" /\ g.open
           /\ guest.open => g = guest
           /\ ~guest.open => g.kinds = kinds /\ g.held = 0
<1> DEFINE m == Op("begin", p, <<>>)
           g == IF guest.open THEN guest
                ELSE [guest EXCEPT !.open = TRUE, !.kinds = kinds, !.held = 0,
                                   !.block = guest.block + 1]
<1>1. Send(m, g)
  BY DEF GuestBegin
<1>2. m \in Method /\ m.op = "begin"
  <2>1. <<>> \in Vertices
    BY DEF Vertices
  <2> QED
    BY <2>1, PrimsAssumption DEF Op, Method
<1>3. kinds \in SUBSET OpKinds /\ guest.block + 1 \in Nat
  BY KindsAssumption DEF GuestType
<1>4. \A n \in Nat : [guest EXCEPT !.open = TRUE, !.kinds = kinds, !.held = 0,
                                   !.block = n] \in GuestType
  BY <1>3 DEF GuestType
<1>5. g \in GuestType /\ g.open /\ (guest.open => g = guest)
  BY <1>3, <1>4 DEF GuestType
<1>6. ~guest.open => g.kinds = kinds /\ g.held = 0
  BY DEF GuestType
<1> HIDE DEF m, g
<1> QED
  BY <1>1, <1>2, <1>5, <1>6

(* END closes it. *)
LEMMA EndMethod ==
  ASSUME guest \in GuestType, GuestEnd
  PROVE  \E m \in Method, g \in GuestType : Send(m, g) /\ m.op = "end" /\ ~g.open
<1> DEFINE m == Op("end", 0, <<>>)
           g == [guest EXCEPT !.open = FALSE]
<1>1. Send(m, g)
  BY DEF GuestEnd
<1>2. m \in Method /\ m.op = "end"
  <2>1. <<>> \in Vertices
    BY DEF Vertices
  <2> QED
    BY <2>1 DEF Op, Method
<1>3. g \in GuestType /\ ~g.open
  BY DEF GuestType
<1> HIDE DEF m, g
<1> QED
  BY <1>1, <1>2, <1>3

(* Vertices are sent inside a block, of the kinds it holds and not too many. *)
LEMMA VerticesMethod ==
  ASSUME NEW op \in OpKinds, NEW start \in Nat, NEW count \in Nat,
         guest \in GuestType, GuestVertices(op, start, count)
  PROVE  /\ guest.open /\ op \in guest.kinds /\ guest.held < PerBlock
         /\ \E m \in Method, g \in GuestType :
              /\ Send(m, g) /\ m.op = op
              /\ g.open /\ g.kinds = guest.kinds /\ g.held = guest.held + 1
<1> DEFINE vs == [i \in 1..count |-> <<guest.block, start + i - 1>>]
           m == Op(op, start, vs)
           g == [guest EXCEPT !.held = guest.held + 1]
<1>1. /\ Send(m, g) /\ guest.open /\ op \in guest.kinds /\ guest.held < PerBlock
  BY DEF GuestVertices
<1>2. vs \in Vertices
  <2>1. guest.block \in Nat /\ \A i \in 1..count : start + i - 1 \in Nat
    BY DEF GuestType
  <2>2. vs \in [1..count -> Nat \X Nat]
    BY <2>1
  <2> HIDE DEF vs
  <2> QED
    BY <2>2 DEF Vertices
<1> HIDE DEF vs
<1>3. m \in Method /\ m.op = op
  BY <1>2 DEF Op, Method
<1>4. guest.held + 1 \in Nat
  BY DEF GuestType
<1>5. \A n \in Nat : [guest EXCEPT !.held = n] \in GuestType
  BY Zenon DEF GuestType
<1>6. g \in GuestType
  BY <1>4, <1>5
<1>7. g.open = guest.open /\ g.kinds = guest.kinds /\ g.held = guest.held + 1
  BY DEF GuestType
<1> HIDE DEF m, g
<1> QED
  BY <1>1, <1>3, <1>6, <1>7

(* DRAW_ARRAYS takes itself from the stream, or also an END and a BEGIN before
   another DRAW_ARRAYS. *)
LEMMA DrawArraysTakes ==
  ASSUME stream \in Seq(Method), stream # <<>>, DrawArrays
  PROVE  \/ stream' = Tail(stream)
         \/ /\ stream' = SubSeq(stream, 4, Len(stream)) /\ Len(stream) >= 4
            /\ stream[4].op = "draw" /\ Len(draws') < MaxDraws - 1
<1>1. \/ stream' = Tail(stream)
      \/ stream' = SubSeq(stream, 2, Len(stream))
      \/ stream' = SubSeq(stream, 4, Len(stream)) /\ Squashes
  BY Zenon DEF DrawArrays
<1>2. SubSeq(stream, 2, Len(stream)) = Tail(stream)
  OBVIOUS
<1>3. Squashes => /\ Len(stream) >= 4 /\ stream[4].op = "draw"
                  /\ Len(draws') < MaxDraws - 1
  BY Zenon DEF Squashes
<1> QED
  BY <1>1, <1>2, <1>3

(* What a squash leaves of the stream. *)
LEMMA SquashRest ==
  ASSUME stream \in Seq(Method), stream' = SubSeq(stream, 4, Len(stream)),
         Len(stream) >= 4, stream[4].op = "draw"
  PROVE  /\ Rest(stream', stream, 3) /\ stream' \in Seq(Method)
         /\ stream' # <<>> /\ stream'[1].op = "draw"
<1>1. Len(stream) \in Nat /\ 4 \in 1..Len(stream)
  OBVIOUS
<1>2. stream' \in Seq(Method) /\ Len(stream') = Len(stream) - 3
  BY <1>1
<1>3. \A i \in 1..Len(stream') : stream'[i] = stream[i + 3]
  BY <1>1, <1>2
<1>4. 1 \in 1..Len(stream') /\ 1 + 3 = 4
  BY <1>1, <1>2
<1>5. stream' # <<>> /\ stream'[1].op = "draw"
  <2>1. stream'[1] = stream[1 + 3]
    BY <1>3, <1>4
  <2>2. stream'[1] = stream[4]
    BY <2>1
  <2>3. \A t \in Seq(Method) : 1 \in 1..Len(t) => t # <<>>
    OBVIOUS
  <2> QED
    BY <1>2, <1>4, <2>2, <2>3, Zenon
<1>6. Rest(stream', stream, 3)
  BY <1>1, <1>2, <1>3 DEF Rest
<1> QED
  BY <1>2, <1>5, <1>6

(* The array of the batch that vertices sent by method op end up in; ranges may
   become elements. *)
Sort(op) == IF op \in {"array", "vertex"} THEN op ELSE "index"

(* The guest sends a block's vertices all in one way, ranges and elements
   counting as one. *)
BlocksAreOfOneSort == \A kinds \in Kinds : \A a, b \in kinds : Sort(a) = Sort(b)

(* Vertices after method i of s, up to the first END, are of sort x; without one
   the guest g is in a block of that sort.  0 stands for the batch. *)
KeepsTo(x, s, i, g) ==
  /\ \A j \in (i + 1)..Len(s) :
       s[j].op \in OpKinds /\ ~Ended(s, i, j) => Sort(s[j].op) = x
  /\ ~Ended(s, i, Len(s) + 1) => g.open /\ \A op \in g.kinds : Sort(op) = x

(* The sorts of vertices in the batch. *)
InBatch ==
  {x \in {"index", "array", "vertex"} :
     \/ x = "index" /\ (draws # <<>> \/ elements # <<>>)
     \/ x = "array" /\ array # <<>>
     \/ x = "vertex" /\ buffer # <<>>}

StreamSorted(s, g) ==
  \A i \in 1..Len(s) : s[i].op \in OpKinds => KeepsTo(Sort(s[i].op), s, i, g)

Sorted ==
  /\ guest.open => guest.kinds \in Kinds
  /\ StreamSorted(stream, guest)
  /\ \A x \in InBatch : KeepsTo(x, stream, 0, guest)
  /\ \A x, y \in InBatch : x = y

(* Taking earlier methods changes nothing for later ones. *)
LEMMA RestKeepsTo ==
  ASSUME NEW s, NEW t, NEW n, NEW g, NEW x, Rest(t, s, n),
         NEW i \in 0..Len(t), KeepsTo(x, s, i + n, g)
  PROVE  KeepsTo(x, t, i, g)
<1>0. n \in Nat /\ Len(t) \in Nat /\ Len(s) = Len(t) + n
  BY DEF Rest
<1>1. ASSUME NEW j \in (i + 1)..Len(t), t[j].op \in OpKinds, ~Ended(t, i, j)
      PROVE  Sort(t[j].op) = x
  <2>1. j \in 1..Len(t) /\ j \in 1..Len(t)+1 /\ j + n \in ((i + n) + 1)..Len(s)
    BY <1>0
  <2>2. t[j] = s[j + n]
    BY <2>1 DEF Rest
  <2>3. ~Ended(s, i + n, j + n)
    BY <1>1, <2>1, RestEnded
  <2> QED
    BY <1>1, <2>1, <2>2, <2>3 DEF KeepsTo
<1>2. Ended(t, i, Len(t) + 1) <=> Ended(s, i + n, Len(s) + 1)
  <2>1. Len(t) + 1 \in 1..Len(t)+1 /\ (Len(t) + 1) + n = Len(s) + 1
    BY <1>0
  <2> QED
    BY <2>1, RestEnded
<1> QED
  BY <1>1, <1>2 DEF KeepsTo

(* So does the stream. *)
LEMMA RestSorted ==
  ASSUME NEW s, NEW t, NEW n, NEW g, Rest(t, s, n), StreamSorted(s, g)
  PROVE  StreamSorted(t, g)
<1> SUFFICES ASSUME NEW i \in 1..Len(t), t[i].op \in OpKinds
             PROVE  KeepsTo(Sort(t[i].op), t, i, g)
  BY DEF StreamSorted
<1>1. i \in 0..Len(t) /\ i + n \in 1..Len(s) /\ t[i] = s[i + n]
  BY DEF Rest
<1>2. KeepsTo(Sort(s[i + n].op), s, i + n, g)
  BY <1>1 DEF StreamSorted
<1> QED
  BY <1>1, <1>2, RestKeepsTo

(* A method that is no END ends nothing. *)
LEMMA HeadKeepsTo ==
  ASSUME NEW s \in Seq(Method), s # <<>>, NEW x, NEW g, s[1].op # "end"
  PROVE  /\ KeepsTo(x, s, 0, g) => KeepsTo(x, s, 1, g)
         /\ KeepsTo(x, s, 0, g) /\ s[1].op \in OpKinds => x = Sort(s[1].op)
         /\ KeepsTo(x, s, 1, g) /\ (s[1].op \in OpKinds => x = Sort(s[1].op))
              => KeepsTo(x, s, 0, g)
<1>1. Len(s) \in Nat /\ Len(s) >= 1
  OBVIOUS
<1>2. ASSUME NEW j \in 1..Len(s)+1 PROVE Ended(s, 0, j) <=> Ended(s, 1, j)
  BY <1>1 DEF Ended
<1>3. ~Ended(s, 0, 1) /\ 1 \in (0 + 1)..Len(s)
  BY <1>1 DEF Ended
<1>4. \A j \in (1 + 1)..Len(s) : j \in (0 + 1)..Len(s) /\ j \in 1..Len(s)+1
  BY <1>1
<1>5. \A j \in (0 + 1)..Len(s) : (j = 1 \/ j \in (1 + 1)..Len(s)) /\ j \in 1..Len(s)+1
  BY <1>1
<1>6. Len(s) + 1 \in 1..Len(s)+1
  BY <1>1
<1>7. KeepsTo(x, s, 0, g) => KeepsTo(x, s, 1, g)
  BY <1>2, <1>4, <1>6, Zenon DEF KeepsTo
<1>8. KeepsTo(x, s, 0, g) /\ s[1].op \in OpKinds => x = Sort(s[1].op)
  BY <1>3, Zenon DEF KeepsTo
<1>9. KeepsTo(x, s, 1, g) /\ (s[1].op \in OpKinds => x = Sort(s[1].op))
        => KeepsTo(x, s, 0, g)
  BY <1>2, <1>5, <1>6, Zenon DEF KeepsTo
<1> QED
  BY <1>7, <1>8, <1>9

(* The next method, no END, is taken: the batch gets at most what it holds. *)
LEMMA TakeSorted ==
  ASSUME TypeOK, Sorted, stream # <<>>, stream' = Tail(stream), guest' = guest,
         stream[1].op # "end",
         \A x \in InBatch' : x \in InBatch
                             \/ (stream[1].op \in OpKinds /\ x = Sort(stream[1].op))
  PROVE  Sorted'
<1>1. /\ Rest(stream', stream, 1) /\ stream \in Seq(Method) /\ Len(stream') \in Nat
      /\ Len(stream) = Len(stream') + 1
  <2>1. Rest(stream', stream, 1) /\ stream' \in Seq(Method) /\ stream \in Seq(Method)
    BY TailRest DEF TypeOK
  <2>2. Len(stream') \in Nat
    BY <2>1
  <2>3. Len(stream) = Len(stream') + 1
    BY <2>1 DEF Rest
  <2> QED
    BY <2>1, <2>2, <2>3
<1>2. ASSUME NEW x, KeepsTo(x, stream, 1, guest) PROVE KeepsTo(x, stream', 0, guest)
  <2>1. 0 \in 0..Len(stream') /\ 0 + 1 = 1
    BY <1>1
  <2>2. KeepsTo(x, stream, 0 + 1, guest)
    BY <1>2, <2>1
  <2> QED
    BY <1>1, <2>1, <2>2, RestKeepsTo, Zenon
<1>3. StreamSorted(stream', guest)
  BY <1>1, RestSorted DEF Sorted
<1>4. stream[1].op \in OpKinds => KeepsTo(Sort(stream[1].op), stream, 1, guest)
  BY <1>1 DEF Sorted, StreamSorted
<1>5. ASSUME NEW x \in InBatch' PROVE KeepsTo(x, stream', 0, guest)
  <2>1. x \in InBatch => KeepsTo(x, stream, 1, guest)
    BY <1>1, HeadKeepsTo DEF Sorted
  <2> QED
    BY <1>2, <1>4, <2>1
<1>6. ASSUME NEW x \in InBatch', NEW y \in InBatch' PROVE x = y
  <2>1. \A z \in InBatch : stream[1].op \in OpKinds => z = Sort(stream[1].op)
    BY <1>1, HeadKeepsTo DEF Sorted
  <2> QED
    BY <2>1 DEF Sorted
<1> QED
  BY <1>3, <1>5, <1>6 DEF Sorted

(* A batch that is reset holds nothing. *)
LEMMA ResetSorted ==
  ASSUME TypeOK, Sorted, stream # <<>>, stream' = Tail(stream), guest' = guest,
         ResetInlineBuffers
  PROVE  Sorted'
<1>1. InBatch' = {}
  BY DEF ResetInlineBuffers, ResetDrawArrays, InBatch
<1>2. StreamSorted(stream', guest)
  BY TailRest, RestSorted DEF Sorted
<1> QED
  BY <1>1, <1>2 DEF Sorted

(* A stream that has grown by a method. *)
LEMMA GrownStream ==
  ASSUME NEW s \in Seq(Method), NEW m \in Method
  PROVE  /\ Len(s) \in Nat /\ Len(Append(s, m)) = Len(s) + 1
         /\ Append(s, m)[Len(s) + 1] = m
         /\ \A k \in 1..Len(s) : Append(s, m)[k] = s[k]
OBVIOUS

(* The places of a stream, and of one that has grown by a method. *)
LEMMA PositionFacts ==
  ASSUME NEW n \in Nat
  PROVE  /\ \A i \in 1..n : i \in 0..n
         /\ \A i \in 1..(n + 1) : i \in 1..n \/ i = n + 1
         /\ \A i \in 0..n : \A j \in (i + 1)..n : j \in 1..n
OBVIOUS

(* What is sent later keeps to the sort of the guest's block. *)
LEMMA AppendKeepsTo ==
  ASSUME NEW s \in Seq(Method), NEW m \in Method, NEW g, NEW x, NEW i \in 0..Len(s),
         KeepsTo(x, s, i, guest),
         m.op \in OpKinds => guest.open /\ m.op \in guest.kinds,
         m.op # "end" /\ guest.open => g.open /\ g.kinds = guest.kinds
  PROVE  KeepsTo(x, Append(s, m), i, g)
<1> DEFINE t == Append(s, m)
<1>1. /\ Len(t) = Len(s) + 1 /\ Len(s) \in Nat
      /\ t[Len(s) + 1] = m /\ \A k \in 1..Len(s) : t[k] = s[k]
  OBVIOUS
<1>2. /\ \A j \in 1..Len(s)+1 : Ended(t, i, j) <=> Ended(s, i, j)
      /\ m.op = "end" => Ended(t, i, Len(s) + 2)
      /\ Ended(s, i, Len(s) + 1) => Ended(t, i, Len(s) + 2)
  BY AppendEnded
<1> HIDE DEF t
<1>3. ASSUME NEW j \in (i + 1)..Len(t), t[j].op \in OpKinds, ~Ended(t, i, j)
      PROVE  Sort(t[j].op) = x
  <2>1. j \in 1..Len(s)+1 /\ (j \in (i + 1)..Len(s) \/ j = Len(s) + 1)
    BY <1>1
  <2>2. ~Ended(s, i, j)
    BY <1>2, <1>3, <2>1
  <2>3. CASE j \in (i + 1)..Len(s)
    <3>1. t[j] = s[j]
      BY <1>1, <2>3, PositionFacts, Zenon
    <3> QED
      BY <1>3, <2>2, <2>3, <3>1 DEF KeepsTo
  <2>4. CASE j = Len(s) + 1
    BY <1>1, <1>3, <2>2, <2>4 DEF KeepsTo
  <2> QED
    BY <2>1, <2>3, <2>4
<1>4. ~Ended(t, i, Len(t) + 1) => g.open /\ \A op \in g.kinds : Sort(op) = x
  <2>1. Len(t) + 1 = Len(s) + 2
    BY <1>1
  <2> QED
    BY <1>2, <2>1, Zenon DEF KeepsTo
<1>5. KeepsTo(x, t, i, g)
  BY <1>3, <1>4 DEF KeepsTo
<1> QED
  BY <1>5 DEF t

(* A method the guest sends. *)
LEMMA SendSorted ==
  ASSUME BlocksAreOfOneSort, TypeOK, Sorted, NEW m \in Method, NEW g \in GuestType,
         Send(m, g),
         m.op \in OpKinds => guest.open /\ m.op \in guest.kinds,
         m.op # "end" /\ guest.open => g.open /\ g.kinds = guest.kinds,
         g.open => g.kinds \in Kinds
  PROVE  Sorted'
<1>1. guest' = [g EXCEPT !.ops = g.ops + 1, !.submitted = g.submitted \o m.vertices]
  BY DEF Send
<1>2. guest'.open = g.open /\ guest'.kinds = g.kinds
  BY <1>1 DEF GuestType
<1>3. stream' = Append(stream, m) /\ UNCHANGED batch
  BY DEF Send
<1>4. /\ stream \in Seq(Method) /\ Len(stream) \in Nat /\ Len(stream') = Len(stream) + 1
      /\ stream'[Len(stream) + 1] = m /\ \A k \in 1..Len(stream) : stream'[k] = stream[k]
  BY <1>3 DEF TypeOK
<1>5. ASSUME NEW x, NEW i \in 0..Len(stream), KeepsTo(x, stream, i, guest)
      PROVE  KeepsTo(x, stream', i, guest')
  BY <1>2, <1>3, <1>4, <1>5, AppendKeepsTo
<1>6. ASSUME NEW i \in 1..Len(stream'), stream'[i].op \in OpKinds
      PROVE  KeepsTo(Sort(stream'[i].op), stream', i, guest')
  <2>1. CASE i \in 1..Len(stream)
    <3>1. i \in 0..Len(stream) /\ stream'[i] = stream[i]
      BY <1>4, <2>1, PositionFacts, Zenon
    <3>2. KeepsTo(Sort(stream[i].op), stream, i, guest)
      BY <1>6, <2>1, <3>1 DEF Sorted, StreamSorted
    <3> QED
      BY <1>5, <3>1, <3>2
  <2>2. CASE i = Len(stream')
    <3>1. m.op \in OpKinds /\ stream'[i] = m
      BY <1>4, <1>6, <2>2
    <3>2. m.op # "end"
      BY <3>1 DEF OpKinds
    <3>3. guest'.open /\ m.op \in guest'.kinds /\ guest'.kinds \in Kinds
      BY <1>2, <3>1, <3>2
    <3>4. \A op \in guest'.kinds : Sort(op) = Sort(m.op)
      BY <3>3 DEF BlocksAreOfOneSort
    <3>5. (i + 1)..Len(stream') = {}
      BY <1>4, <2>2
    <3> QED
      BY <3>1, <3>3, <3>4, <3>5, Zenon DEF KeepsTo
  <2> QED
    BY <1>4, <2>1, <2>2, PositionFacts, Zenon
<1>7. InBatch' = InBatch
  BY <1>3 DEF InBatch, batch
<1>8. \A x \in InBatch' : KeepsTo(x, stream', 0, guest')
  <2>1. 0 \in 0..Len(stream)
    BY <1>4
  <2> QED
    BY <1>5, <1>7, <2>1 DEF Sorted
<1>9. StreamSorted(stream', guest')
  BY <1>6 DEF StreamSorted
<1>10. \A x, y \in InBatch' : x = y
  BY <1>7 DEF Sorted
<1>11. guest'.open => guest'.kinds \in Kinds
  BY <1>2
<1> QED
  BY <1>8, <1>9, <1>10, <1>11, Zenon DEF Sorted

(* The guest's methods. *)
LEMMA GuestSorted ==
  ASSUME BlocksAreOfOneSort, TypeOK, Sorted, Guest
  PROVE  Sorted'
<1>0. guest \in GuestType /\ <<>> \in Vertices
  BY DEF TypeOK, Vertices
<1>1. ASSUME NEW p \in Prims, NEW kinds \in Kinds, GuestBegin(p, kinds) PROVE Sorted'
  <2>1. PICK m \in Method, g \in GuestType :
          /\ Send(m, g) /\ m.op = "begin" /\ g.open
          /\ guest.open => g = guest
          /\ ~guest.open => g.kinds = kinds /\ g.held = 0
    BY <1>0, <1>1, BeginMethod
  <2>2. m.op \notin OpKinds /\ (g.open => g.kinds \in Kinds)
    BY <2>1 DEF OpKinds, Sorted
  <2> QED
    BY <2>1, <2>2, SendSorted
<1>2. CASE GuestEnd
  <2>1. PICK m \in Method, g \in GuestType : Send(m, g) /\ m.op = "end" /\ ~g.open
    BY <1>0, <1>2, EndMethod
  <2>2. m.op \notin OpKinds
    BY <2>1 DEF OpKinds
  <2> QED
    BY <2>1, <2>2, SendSorted
<1>3. ASSUME NEW op \in OpKinds, NEW start \in Nat, NEW count \in Nat,
             GuestVertices(op, start, count)
      PROVE  Sorted'
  BY <1>0, <1>3, VerticesMethod, SendSorted DEF Sorted
<1> HIDE DEF Sorted
<1> QED
  BY <1>1, <1>2, <1>3, GuestMethods

(* DRAW_ARRAYS; after a squash the batch goes on with the next block's ranges. *)
LEMMA DrawArraysSorted ==
  ASSUME Inv, Sorted, DrawArrays
  PROVE  Sorted'
<1>1. /\ stream # <<>> /\ Head(stream).op = "draw" /\ array' = array /\ buffer' = buffer
      /\ guest' = guest
  BY DEF DrawArrays, Meth
<1>2. TypeOK /\ stream \in Seq(Method) /\ stream[1].op = "draw" /\ draws \in Seq(Vertices)
  <2>1. TypeOK /\ stream \in Seq(Method) /\ draws \in Seq(Vertices)
    BY DEF Inv, TypeOK
  <2> QED
    BY <1>1, <2>1, TailRest
<1>3. stream[1].op # "end" /\ stream[1].op \in OpKinds /\ Sort(stream[1].op) = "index"
  BY <1>2 DEF OpKinds, Sort
<1>4. \A x \in InBatch' : x \in InBatch \/ x = "index"
  BY <1>1 DEF InBatch
<1>5. \/ stream' = Tail(stream)
      \/ stream' = SubSeq(stream, 4, Len(stream)) /\ Len(stream) >= 4 /\ stream[4].op = "draw"
  BY <1>2, DrawArraysTakes
<1>6. CASE stream' = Tail(stream)
  BY <1>1, <1>2, <1>3, <1>4, <1>6, TakeSorted
<1>7. CASE stream' = SubSeq(stream, 4, Len(stream)) /\ Len(stream) >= 4 /\ stream[4].op = "draw"
  <2>1. /\ Rest(stream', stream, 3) /\ stream' \in Seq(Method)
        /\ stream' # <<>> /\ stream'[1].op = "draw"
    BY <1>2, <1>7, SquashRest
  <2>2. StreamSorted(stream', guest)
    BY <2>1, RestSorted DEF Sorted
  <2>3. \A x \in InBatch' : x = "index"
    <3>1. \A x \in InBatch : x = "index"
      BY <1>1, <1>2, <1>3, HeadKeepsTo DEF Sorted
    <3> QED
      BY <1>4, <3>1
  <2>4. stream'[1].op \in OpKinds /\ Sort(stream'[1].op) = "index" /\ stream'[1].op # "end"
    BY <2>1 DEF OpKinds, Sort
  <2>5. KeepsTo("index", stream', 1, guest)
    <3>1. 1 \in 1..Len(stream')
      BY <2>1
    <3> QED
      BY <2>2, <2>4, <3>1 DEF StreamSorted
  <2>6. KeepsTo("index", stream', 0, guest)
    BY <2>1, <2>4, <2>5, HeadKeepsTo
  <2>7. (guest.open => guest.kinds \in Kinds)'
    BY <1>1 DEF Sorted
  <2> QED
    BY <1>1, <2>2, <2>3, <2>6, <2>7 DEF Sorted
<1> QED
  BY <1>5, <1>6, <1>7

(* The other methods add to the batch what they hold, or clear it. *)
LEMMA OthersSorted ==
  ASSUME Inv, Sorted, Begin \/ End \/ ArrayElement \/ InlineArray \/ FinishVertex
  PROVE  Sorted'
<1>1. stream # <<>> /\ stream' = Tail(stream) /\ guest' = guest
  BY DEF Begin, End, ArrayElement, InlineArray, FinishVertex, Meth
<1>2. TypeOK /\ Head(stream) = stream[1]
  BY <1>1, TailRest DEF Inv
<1>3. CASE ResetInlineBuffers
  BY <1>1, <1>2, <1>3, ResetSorted
<1>4. CASE Begin /\ UNCHANGED batch
  <2>1. InBatch' = InBatch /\ stream[1].op # "end"
    BY <1>2, <1>4 DEF InBatch, batch, Begin, Meth
  <2> QED
    BY <1>1, <1>2, <2>1, TakeSorted
<1>5. CASE ArrayElement
  <2>1. stream[1].op \in {"element", "element16"}
    BY <1>2, <1>5 DEF ArrayElement, Meth
  <2>2. /\ stream[1].op # "end" /\ stream[1].op \in OpKinds
        /\ Sort(stream[1].op) = "index"
    BY <2>1 DEF OpKinds, Sort
  <2>3. /\ array' = array \/ array' = <<>>
        /\ buffer' = buffer \/ buffer' = <<>>
    BY <1>5, Zenon DEF ArrayElement
  <2>4. \A x \in InBatch' : x \in InBatch \/ x = "index"
    BY <2>3 DEF InBatch
  <2> QED
    BY <1>1, <1>2, <2>2, <2>4, TakeSorted
<1>6. CASE InlineArray
  <2>1. /\ stream[1].op = "array" /\ draws' = draws /\ elements' = elements
        /\ buffer' = buffer
    BY <1>2, <1>6 DEF InlineArray, Meth
  <2>2. /\ stream[1].op # "end" /\ stream[1].op \in OpKinds
        /\ Sort(stream[1].op) = "array"
    BY <2>1 DEF OpKinds, Sort
  <2>3. \A x \in InBatch' : x \in InBatch \/ x = "array"
    BY <2>1 DEF InBatch
  <2> QED
    BY <1>1, <1>2, <2>2, <2>3, TakeSorted
<1>7. CASE FinishVertex
  <2>1. /\ stream[1].op = "vertex" /\ draws' = draws /\ elements' = elements
        /\ array' = array
    BY <1>2, <1>7 DEF FinishVertex, Meth
  <2>2. /\ stream[1].op # "end" /\ stream[1].op \in OpKinds
        /\ Sort(stream[1].op) = "vertex"
    BY <2>1 DEF OpKinds, Sort
  <2>3. \A x \in InBatch' : x \in InBatch \/ x = "vertex"
    BY <2>1 DEF InBatch
  <2> QED
    BY <1>1, <1>2, <2>2, <2>3, TakeSorted
<1>8. Begin \/ End => ResetInlineBuffers \/ (Begin /\ UNCHANGED batch)
  BY DEF Begin, End
<1> QED
  BY <1>3, <1>4, <1>5, <1>6, <1>7, <1>8

(* When the guest sends the vertices of a block in one way, ranges and elements
   counting as one, flush_draw and DRAW_ARRAYS find in the batch what their
   assertions say: vertices in one of the four arrays only, however blocks were
   squashed and ranges expanded to elements. *)
THEOREM BatchesAreOfOneKind ==
  ASSUME BlocksAreOfOneSort
  PROVE  Spec => []BatchIsOneKind
<1>1. Init => Inv /\ Sorted
  <2>1. Init => Sorted
    BY DEF Init, Sorted, StreamSorted, InBatch
  <2> QED
    BY <2>1, InitInv
<1>2. Inv /\ Sorted /\ [Next]_vars => Inv' /\ Sorted'
  <2> SUFFICES ASSUME Inv, Sorted, [Next]_vars PROVE Sorted'
    BY NextInv
  <2>1. CASE UNCHANGED vars
    <3>1. InBatch' = InBatch /\ stream' = stream /\ guest' = guest
      BY <2>1 DEF InBatch, vars, batch
    <3> QED
      BY <3>1 DEF Sorted
  <2>2. CASE Next
    <3>1. TypeOK
      BY DEF Inv
    <3> QED
      BY <2>2, <3>1, GuestSorted, DrawArraysSorted, OthersSorted, Zenon DEF Next
  <2> QED
    BY <2>1, <2>2
<1>3. Inv /\ Sorted => BatchIsOneKind
  BY DEF Inv, Batch, Sorted, InBatch, BatchIsOneKind
<1> QED
  BY <1>1, <1>2, <1>3, PTL DEF Spec

-----------------------------------------------------------------------------
(* Vertices are sent after method i of s and before the next END; and twice. *)
Some(s, i) == \E j \in (i + 1)..Len(s) : s[j].op \in OpKinds /\ ~Ended(s, i, j)

Two(s, i) ==
  \E j \in (i + 1)..Len(s) : \E k \in (j + 1)..Len(s) :
    s[j].op \in OpKinds /\ s[k].op \in OpKinds /\ ~Ended(s, i, k)

(* How many of them there are, two standing for more. *)
Need(s, i) == IF Two(s, i) THEN 2 ELSE IF Some(s, i) THEN 1 ELSE 0

(* A block of s has at most two, and the one the guest g is in no more than it
   has sent. *)
Sparse(s, g) ==
  \A i \in 1..Len(s) : s[i].op \in OpKinds =>
    /\ Need(s, i) <= 1
    /\ ~Ended(s, i, Len(s) + 1) => g.open /\ Need(s, i) + 1 <= g.held

(* With n ranges in the batch there is room for those to come before the next
   END, the ones the guest may still send included. *)
Roomy(n, s, g) ==
  /\ n + Need(s, 0) <= MaxDraws
  /\ ~Ended(s, 0, Len(s) + 1) =>
       IF g.open THEN n + Need(s, 0) <= MaxDraws - 2 + g.held
       ELSE n = 0 /\ Need(s, 0) = 0

(* Ranges are drawn before there are too many. *)
Room == Sparse(stream, guest) /\ Roomy(Len(draws), stream, guest)

(* A count is one of three. *)
LEMMA NeedType ==
  ASSUME NEW s, NEW i
  PROVE  Need(s, i) \in {0, 1, 2}
BY DEF Need

(* Two are some. *)
LEMMA TwoSome ==
  ASSUME NEW s \in Seq(Method), NEW i \in 0..Len(s), Two(s, i)
  PROVE  Some(s, i)
<1>1. PICK j \in (i + 1)..Len(s) : \E k \in (j + 1)..Len(s) :
        s[j].op \in OpKinds /\ s[k].op \in OpKinds /\ ~Ended(s, i, k)
  BY DEF Two
<1>2. PICK k \in (j + 1)..Len(s) : s[j].op \in OpKinds /\ ~Ended(s, i, k)
  BY <1>1
<1>3. ~Ended(s, i, j)
  BY <1>2 DEF Ended
<1> QED
  BY <1>2, <1>3 DEF Some

(* Taking earlier methods changes no count. *)
LEMMA RestNeed ==
  ASSUME NEW s, NEW t, NEW n, Rest(t, s, n), NEW i \in 0..Len(t)
  PROVE  /\ Need(t, i) = Need(s, i + n)
         /\ Ended(t, i, Len(t) + 1) <=> Ended(s, i + n, Len(s) + 1)
<1>0. n \in Nat /\ Len(t) \in Nat /\ Len(s) = Len(t) + n
  BY DEF Rest
<1>1. \A j \in 1..Len(t) : t[j] = s[j + n] /\ (Ended(t, i, j) <=> Ended(s, i + n, j + n))
  <2>1. \A j \in 1..Len(t) : j \in 1..Len(t)+1
    BY <1>0
  <2> QED
    BY <2>1, RestEnded DEF Rest
<1>2. \A j \in (i + 1)..Len(t) : j \in 1..Len(t) /\ j + n \in ((i + n) + 1)..Len(s)
  BY <1>0
<1>3. \A j \in ((i + n) + 1)..Len(s) :
        j - n \in (i + 1)..Len(t) /\ j - n \in 1..Len(t) /\ (j - n) + n = j
  BY <1>0
<1>4. Some(t, i) => Some(s, i + n)
  BY <1>1, <1>2, Zenon DEF Some
<1>5. Some(s, i + n) => Some(t, i)
  <2> SUFFICES ASSUME NEW j \in ((i + n) + 1)..Len(s), s[j].op \in OpKinds,
                      ~Ended(s, i + n, j)
               PROVE  Some(t, i)
    BY DEF Some
  <2>1. t[j - n].op \in OpKinds /\ ~Ended(t, i, j - n)
    BY <1>1, <1>3
  <2> QED
    BY <1>3, <2>1 DEF Some
<1>6. Two(t, i) => Two(s, i + n)
  <2> SUFFICES ASSUME NEW j \in (i + 1)..Len(t), NEW k \in (j + 1)..Len(t),
                      t[j].op \in OpKinds, t[k].op \in OpKinds, ~Ended(t, i, k)
               PROVE  Two(s, i + n)
    BY DEF Two
  <2>1. /\ j + n \in ((i + n) + 1)..Len(s) /\ k + n \in ((j + n) + 1)..Len(s)
        /\ j \in 1..Len(t) /\ k \in 1..Len(t)
    BY <1>0
  <2>2. s[j + n].op \in OpKinds /\ s[k + n].op \in OpKinds /\ ~Ended(s, i + n, k + n)
    BY <1>1, <2>1
  <2> QED
    BY <2>1, <2>2, Zenon DEF Two
<1>7. Two(s, i + n) => Two(t, i)
  <2> SUFFICES ASSUME NEW j \in ((i + n) + 1)..Len(s), NEW k \in (j + 1)..Len(s),
                      s[j].op \in OpKinds, s[k].op \in OpKinds, ~Ended(s, i + n, k)
               PROVE  Two(t, i)
    BY DEF Two
  <2>1. /\ j - n \in (i + 1)..Len(t) /\ k - n \in ((j - n) + 1)..Len(t)
        /\ j - n \in 1..Len(t) /\ k - n \in 1..Len(t)
        /\ (j - n) + n = j /\ (k - n) + n = k
    BY <1>0
  <2>2. t[j - n].op \in OpKinds /\ t[k - n].op \in OpKinds /\ ~Ended(t, i, k - n)
    BY <1>1, <2>1
  <2> QED
    BY <2>1, <2>2, Zenon DEF Two
<1>8. Ended(t, i, Len(t) + 1) <=> Ended(s, i + n, Len(s) + 1)
  <2>1. Len(t) + 1 \in 1..Len(t)+1 /\ (Len(t) + 1) + n = Len(s) + 1
    BY <1>0
  <2> QED
    BY <2>1, RestEnded
<1> QED
  BY <1>4, <1>5, <1>6, <1>7, <1>8 DEF Need

(* Nor does taking one, for the batch. *)
LEMMA RestHeadNeed ==
  ASSUME NEW s, NEW t, Rest(t, s, 1)
  PROVE  /\ Need(t, 0) = Need(s, 1)
         /\ Ended(t, 0, Len(t) + 1) <=> Ended(s, 1, Len(s) + 1)
<1>1. 0 \in 0..Len(t) /\ 0 + 1 = 1
  BY DEF Rest
<1>2. /\ Need(t, 0) = Need(s, 0 + 1)
      /\ Ended(t, 0, Len(t) + 1) <=> Ended(s, 0 + 1, Len(s) + 1)
  BY <1>1, RestNeed
<1> QED
  BY <1>1, <1>2

(* What the next method counts for. *)
LEMMA HeadNeed ==
  ASSUME NEW s \in Seq(Method), s # <<>>
  PROVE  /\ s[1].op = "end" => Need(s, 0) <= 1
         /\ s[1].op \notin OpKinds \cup {"end"} => Need(s, 0) = Need(s, 1)
         /\ s[1].op \in OpKinds /\ Need(s, 1) <= 1 => Need(s, 0) = Need(s, 1) + 1
         /\ s[1].op # "end" => (Ended(s, 0, Len(s) + 1) <=> Ended(s, 1, Len(s) + 1))
<1>1. Len(s) \in Nat /\ Len(s) >= 1
  OBVIOUS
<1>2. s[1].op # "end" => \A j \in 1..Len(s)+1 : Ended(s, 0, j) <=> Ended(s, 1, j)
  BY <1>1 DEF Ended
<1>3. s[1].op = "end" => \A j \in 2..Len(s) : Ended(s, 0, j)
  BY <1>1 DEF Ended
<1>4. ~Ended(s, 0, 1) /\ 1 \in (0 + 1)..Len(s)
  BY <1>1 DEF Ended
<1>5. s[1].op = "end" => ~Two(s, 0)
  <2>1. \A j \in (0 + 1)..Len(s) : \A k \in (j + 1)..Len(s) : k \in 2..Len(s)
    BY <1>1
  <2> QED
    BY <1>3, <2>1, Zenon DEF Two
<1>6. ASSUME s[1].op \notin OpKinds \cup {"end"}
      PROVE  (Some(s, 0) <=> Some(s, 1)) /\ (Two(s, 0) <=> Two(s, 1))
  <2>1. \A j \in (0 + 1)..Len(s) : j = 1 \/ j \in (1 + 1)..Len(s)
    BY <1>1
  <2>2. \A j \in (1 + 1)..Len(s) : j \in (0 + 1)..Len(s)
    BY <1>1
  <2>3. \A j \in (0 + 1)..Len(s) : Ended(s, 0, j) <=> Ended(s, 1, j)
    BY <1>1, <1>2, <1>6
  <2>4. \A j \in (0 + 1)..Len(s) : \A k \in (j + 1)..Len(s) : k \in (0 + 1)..Len(s)
    BY <1>1
  <2>5. s[1].op \notin OpKinds
    BY <1>6
  <2>6. Some(s, 0) <=> Some(s, 1)
    BY <2>1, <2>2, <2>3, <2>5, Zenon DEF Some
  <2>7. Two(s, 0) => Two(s, 1)
    BY <2>1, <2>3, <2>4, <2>5, Zenon DEF Two
  <2>8. Two(s, 1) => Two(s, 0)
    BY <2>2, <2>3, <2>4, Zenon DEF Two
  <2> QED
    BY <2>6, <2>7, <2>8
<1>7. ASSUME s[1].op \in OpKinds, ~Two(s, 1)
      PROVE  Some(s, 0) /\ (Two(s, 0) <=> Some(s, 1))
  <2>1. Some(s, 0)
    BY <1>4, <1>7 DEF Some
  <2>2. s[1].op # "end"
    BY <1>7 DEF OpKinds
  <2>3. \A j \in (0 + 1)..Len(s) : Ended(s, 0, j) <=> Ended(s, 1, j)
    BY <1>1, <1>2, <2>2
  <2>4. ASSUME Some(s, 1) PROVE Two(s, 0)
    <3>1. PICK j \in (1 + 1)..Len(s) : s[j].op \in OpKinds /\ ~Ended(s, 1, j)
      BY <2>4 DEF Some
    <3>2. j \in (0 + 1)..Len(s)
      OBVIOUS
    <3> QED
      BY <1>4, <1>7, <2>3, <3>1, <3>2, Zenon DEF Two
  <2>5. ASSUME NEW j \in (0 + 1)..Len(s), NEW k \in (j + 1)..Len(s),
               s[k].op \in OpKinds, ~Ended(s, 0, k)
        PROVE  Some(s, 1)
    <3>1. k \in (1 + 1)..Len(s) /\ k \in (0 + 1)..Len(s)
      BY <1>1
    <3> QED
      BY <2>3, <2>5, <3>1, Zenon DEF Some
  <2>6. Two(s, 0) => Some(s, 1)
    BY <2>5, Zenon DEF Two
  <2> QED
    BY <2>1, <2>4, <2>6
<1>8. s[1].op = "end" => Need(s, 0) <= 1
  BY <1>5 DEF Need
<1>9. s[1].op \notin OpKinds \cup {"end"} => Need(s, 0) = Need(s, 1)
  BY <1>6 DEF Need
<1>10. s[1].op \in OpKinds /\ Need(s, 1) <= 1 => Need(s, 0) = Need(s, 1) + 1
  BY <1>7 DEF Need
<1>11. s[1].op # "end" => (Ended(s, 0, Len(s) + 1) <=> Ended(s, 1, Len(s) + 1))
  BY <1>1, <1>2
<1> QED
  BY <1>8, <1>9, <1>10, <1>11

(* A method that is sent adds one where it is seen, and none if it is a BEGIN or
   an END. *)
LEMMA AppendNeed ==
  ASSUME NEW s \in Seq(Method), NEW m \in Method, NEW i \in 0..Len(s)
  PROVE  /\ m.op \notin OpKinds \/ Ended(s, i, Len(s) + 1)
              => Need(Append(s, m), i) = Need(s, i)
         /\ Need(Append(s, m), i) <= Need(s, i) + 1
<1> DEFINE t == Append(s, m)
           n == Len(s) + 1
<1>1. /\ Len(t) = n /\ Len(s) \in Nat
      /\ t[n] = m /\ \A k \in 1..Len(s) : t[k] = s[k]
  OBVIOUS
<1>2. \A j \in 1..n : Ended(t, i, j) <=> Ended(s, i, j)
  BY AppendEnded
<1> HIDE DEF t
<1>3. \A j \in (i + 1)..Len(s) : /\ t[j] = s[j] /\ (Ended(t, i, j) <=> Ended(s, i, j))
                                 /\ j \in (i + 1)..Len(t)
  BY <1>1, <1>2
<1>4. \A j \in (i + 1)..Len(s) : \A k \in (j + 1)..Len(s) :
        k \in (i + 1)..Len(s) /\ k \in (j + 1)..Len(t)
  BY <1>1
<1>5. Some(s, i) => Some(t, i)
  BY <1>3, Zenon DEF Some
<1>6. Two(s, i) => Two(t, i)
  BY <1>3, <1>4, Zenon DEF Two
<1> DEFINE Seen == m.op \in OpKinds /\ ~Ended(s, i, n)
<1>7. ASSUME NEW j \in (i + 1)..Len(t), t[j].op \in OpKinds, ~Ended(t, i, j)
      PROVE  (j \in (i + 1)..Len(s) /\ s[j].op \in OpKinds /\ ~Ended(s, i, j))
             \/ (j = n /\ Seen)
  <2>1. j \in (i + 1)..Len(s) \/ (j = n /\ j \in 1..n)
    BY <1>1
  <2> QED
    BY <1>1, <1>2, <1>3, <1>7, <2>1, Zenon
<1>8. Some(t, i) => Some(s, i) \/ Seen
  BY <1>7, Zenon DEF Some
<1>9. ASSUME NEW j \in (i + 1)..Len(t), NEW k \in (j + 1)..Len(t),
             t[j].op \in OpKinds, t[k].op \in OpKinds, ~Ended(t, i, k)
      PROVE  Two(s, i) \/ (Some(s, i) /\ Seen)
  <2>1. k \in (i + 1)..Len(t) /\ j \in (i + 1)..Len(s)
    BY <1>1
  <2>2. ~Ended(t, i, j)
    BY <1>9 DEF Ended
  <2>3. s[j].op \in OpKinds /\ ~Ended(s, i, j)
    BY <1>3, <1>9, <2>1, <2>2
  <2>4. Some(s, i)
    BY <2>1, <2>3 DEF Some
  <2>5. CASE k = n /\ Seen
    BY <2>4, <2>5
  <2>6. CASE k \in (i + 1)..Len(s) /\ s[k].op \in OpKinds /\ ~Ended(s, i, k)
    <3>1. k \in (j + 1)..Len(s)
      BY <1>1, <2>6
    <3> QED
      BY <2>1, <2>3, <2>6, <3>1, Zenon DEF Two
  <2> QED
    BY <1>7, <1>9, <2>1, <2>5, <2>6
<1>10. Two(t, i) => Two(s, i) \/ (Some(s, i) /\ Seen)
  BY <1>9, Zenon DEF Two
<1>11. ~Seen => Need(t, i) = Need(s, i)
  BY <1>5, <1>6, <1>8, <1>10 DEF Need
<1>12. Need(t, i) <= Need(s, i) + 1
  <2>1. CASE Two(s, i)
    BY <2>1 DEF Need
  <2>2. CASE ~Two(s, i) /\ Some(s, i)
    BY <2>2 DEF Need
  <2>3. CASE ~Two(s, i) /\ ~Some(s, i)
    BY <1>10, <2>3 DEF Need
  <2> QED
    BY <2>1, <2>2, <2>3
<1> QED
  BY <1>11, <1>12 DEF t

(* The stream stays sparse. *)
LEMMA RestSparse ==
  ASSUME NEW s, NEW t, NEW n, NEW g, Rest(t, s, n), Sparse(s, g)
  PROVE  Sparse(t, g)
<1> SUFFICES ASSUME NEW i \in 1..Len(t), t[i].op \in OpKinds
             PROVE  /\ Need(t, i) <= 1
                    /\ ~Ended(t, i, Len(t) + 1) => g.open /\ Need(t, i) + 1 <= g.held
  BY DEF Sparse
<1>1. i \in 0..Len(t) /\ i + n \in 1..Len(s) /\ t[i] = s[i + n]
  BY DEF Rest
<1>2. /\ Need(t, i) = Need(s, i + n)
      /\ Ended(t, i, Len(t) + 1) <=> Ended(s, i + n, Len(s) + 1)
  BY <1>1, RestNeed
<1> QED
  BY <1>1, <1>2, Zenon DEF Sparse

(* No more vertices are to come than the guest has sent in its block. *)
LEMMA SparseNeed ==
  ASSUME NEW s \in Seq(Method), NEW g \in GuestType, Sparse(s, g),
         ~Ended(s, 0, Len(s) + 1)
  PROVE  /\ g.open => Need(s, 0) <= g.held
         /\ ~g.open => Need(s, 0) = 0
<1>0. Len(s) \in Nat /\ g.held \in Nat
  BY DEF GuestType
<1>1. CASE ~Some(s, 0)
  <2>1. 0 \in 0..Len(s)
    BY <1>0
  <2>2. ~Two(s, 0)
    BY <1>1, <2>1, TwoSome
  <2> QED
    BY <1>0, <1>1, <2>2 DEF Need
<1>2. CASE Some(s, 0) /\ ~Two(s, 0)
  <2>1. PICK j \in (0 + 1)..Len(s) : s[j].op \in OpKinds
    BY <1>2 DEF Some
  <2>2. j \in 1..Len(s) /\ ~Ended(s, j, Len(s) + 1)
    BY <1>0 DEF Ended
  <2>3. g.open /\ Need(s, j) + 1 <= g.held
    BY <2>1, <2>2, Zenon DEF Sparse
  <2>4. Need(s, 0) = 1 /\ Need(s, j) \in {0, 1, 2}
    BY <1>2, NeedType DEF Need
  <2> QED
    BY <1>0, <2>3, <2>4
<1>3. CASE Two(s, 0)
  <2>1. PICK j \in (0 + 1)..Len(s) : \E k \in (j + 1)..Len(s) :
          s[j].op \in OpKinds /\ s[k].op \in OpKinds /\ ~Ended(s, 0, k)
    BY <1>3 DEF Two
  <2>2. PICK k \in (j + 1)..Len(s) : s[k].op \in OpKinds /\ ~Ended(s, 0, k)
    BY <2>1
  <2>3. j \in 1..Len(s) /\ ~Ended(s, j, Len(s) + 1) /\ ~Ended(s, j, k)
    BY <1>0, <2>2 DEF Ended
  <2>4. Some(s, j)
    BY <2>2, <2>3 DEF Some
  <2>5. g.open /\ Need(s, j) + 1 <= g.held
    BY <2>1, <2>3, Zenon DEF Sparse
  <2>6. Need(s, 0) = 2 /\ Need(s, j) \in {1, 2}
    BY <1>3, <2>4 DEF Need
  <2> QED
    BY <1>0, <2>5, <2>6
<1> QED
  BY <1>1, <1>2, <1>3

(* An empty batch has room. *)
LEMMA EmptyRoomy ==
  ASSUME NEW s \in Seq(Method), NEW g \in GuestType, Sparse(s, g),
         NEW n \in Nat, n <= MaxDraws - 2, n = 0 \/ g.open \/ Ended(s, 0, Len(s) + 1)
  PROVE  Roomy(n, s, g)
<1>1. Need(s, 0) \in {0, 1, 2} /\ MaxDraws \in Nat /\ g.held \in Nat
  BY NeedType, DrawBoundsAssumption DEF GuestType
<1>2. n + Need(s, 0) <= MaxDraws
  BY <1>1
<1>3. ASSUME ~Ended(s, 0, Len(s) + 1), g.open
      PROVE  n + Need(s, 0) <= MaxDraws - 2 + g.held
  <2>1. Need(s, 0) <= g.held
    BY <1>3, SparseNeed
  <2> QED
    BY <1>1, <2>1
<1>4. ASSUME ~Ended(s, 0, Len(s) + 1), ~g.open
      PROVE  n = 0 /\ Need(s, 0) = 0
  BY <1>4, SparseNeed
<1> QED
  BY <1>2, <1>3, <1>4 DEF Roomy

(* The next method, no END, is taken: it adds at most one range, none if it is
   a BEGIN. *)
LEMMA TakeRoom ==
  ASSUME TypeOK, Room, stream # <<>>, stream' = Tail(stream), guest' = guest,
         stream[1].op # "end", draws' \in Seq(Vertices),
         Len(draws') <= Len(draws) + (IF stream[1].op \in OpKinds THEN 1 ELSE 0)
  PROVE  Room'
<1>1. /\ Rest(stream', stream, 1) /\ stream' \in Seq(Method) /\ stream \in Seq(Method)
      /\ Len(stream') \in Nat /\ guest.held \in Nat
  <2>1. Rest(stream', stream, 1) /\ stream' \in Seq(Method) /\ stream \in Seq(Method)
    BY TailRest DEF TypeOK
  <2> QED
    BY <2>1 DEF TypeOK, GuestType
<1>2. Sparse(stream', guest)
  BY <1>1, RestSparse DEF Room
<1>3. /\ Need(stream', 0) = Need(stream, 1)
      /\ Ended(stream', 0, Len(stream') + 1) <=> Ended(stream, 1, Len(stream) + 1)
  BY <1>1, RestHeadNeed, Zenon
<1>4. /\ Ended(stream, 0, Len(stream) + 1) <=> Ended(stream, 1, Len(stream) + 1)
      /\ stream[1].op \notin OpKinds => Need(stream, 0) = Need(stream, 1)
  <2>1. stream[1].op \notin OpKinds => stream[1].op \notin OpKinds \cup {"end"}
    OBVIOUS
  <2> QED
    BY <1>1, <2>1, HeadNeed, Zenon
<1>5. stream[1].op \in OpKinds => Need(stream, 0) = Need(stream, 1) + 1
  <2>1. 1 \in 1..Len(stream)
    BY <1>1
  <2>2. stream[1].op \in OpKinds => Need(stream, 1) <= 1
    BY <2>1, Zenon DEF Room, Sparse
  <2> QED
    BY <1>1, <2>2, HeadNeed
<1>6. Len(draws') + Need(stream', 0) <= Len(draws) + Need(stream, 0)
  <2>1. Len(draws) \in Nat /\ Len(draws') \in Nat /\ Need(stream, 1) \in {0, 1, 2}
    BY NeedType DEF TypeOK
  <2> QED
    BY <1>3, <1>4, <1>5, <2>1
<1>r. /\ Len(draws) + Need(stream, 0) <= MaxDraws
      /\ ~Ended(stream, 0, Len(stream) + 1) /\ guest.open =>
           Len(draws) + Need(stream, 0) <= MaxDraws - 2 + guest.held
      /\ ~Ended(stream, 0, Len(stream) + 1) /\ ~guest.open =>
           Len(draws) = 0 /\ Need(stream, 0) = 0
  BY Zenon DEF Room, Roomy
<1>7. ~Ended(stream, 0, Len(stream) + 1) /\ ~guest.open =>
        Len(draws') = 0 /\ Need(stream', 0) = 0
  <2>1. Len(draws) \in Nat /\ Len(draws') \in Nat /\ Need(stream', 0) \in {0, 1, 2}
    BY NeedType DEF TypeOK
  <2> QED
    BY <1>6, <1>r, <2>1
<1>8. Roomy(Len(draws'), stream', guest)
  <2>1. /\ Len(draws) \in Nat /\ Len(draws') \in Nat /\ Need(stream', 0) \in {0, 1, 2}
        /\ Need(stream, 0) \in {0, 1, 2} /\ MaxDraws \in Nat
    BY NeedType, DrawBoundsAssumption DEF TypeOK
  <2>2. Len(draws') + Need(stream', 0) <= MaxDraws
    BY <1>6, <1>r, <2>1
  <2>3. ~Ended(stream, 0, Len(stream) + 1) /\ guest.open =>
          Len(draws') + Need(stream', 0) <= MaxDraws - 2 + guest.held
    <3>1. guest.held \in Int
      BY <1>1 DEF GuestType
    <3> HAVE ~Ended(stream, 0, Len(stream) + 1) /\ guest.open
    <3>2. Len(draws) + Need(stream, 0) <= MaxDraws - 2 + guest.held
      BY <1>r, Zenon
    <3> QED
      BY <1>6, <2>1, <3>1, <3>2
  <2> QED
    BY <1>3, <1>4, <1>7, <2>2, <2>3, Zenon DEF Roomy
<1> QED
  BY <1>2, <1>8 DEF Room

(* DRAW_ARRAYS adds a range at most; it squashes where two are left free. *)
LEMMA DrawArraysRoom ==
  ASSUME Inv, Room, DrawArrays
  PROVE  Room'
<1>1. stream # <<>> /\ Head(stream).op = "draw" /\ guest' = guest
  BY DEF DrawArrays, Meth
<1>2. /\ TypeOK /\ stream \in Seq(Method) /\ draws \in Seq(Vertices)
      /\ guest \in GuestType /\ stream[1].op = "draw"
  <2>1. /\ TypeOK /\ stream \in Seq(Method) /\ draws \in Seq(Vertices)
        /\ guest \in GuestType
    BY DEF Inv, TypeOK
  <2> QED
    BY <1>1, <2>1, TailRest
<1>3. stream[1].op # "end" /\ stream[1].op \in OpKinds
  BY <1>2 DEF OpKinds
<1>4. draws' \in Seq(Vertices)
  BY DrawArraysInv DEF Inv, TypeOK
<1>5. Len(draws') \in Nat /\ Len(draws') <= Len(draws) + 1
  <2> DEFINE h == Head(stream).vertices
             last == draws[Len(draws)]
  <2>1. \/ draws' = draws
        \/ draws' = Append(draws, h)
        \/ draws' = [draws EXCEPT ![Len(draws)] = last \o h]
    BY Zenon DEF DrawArrays, LastRange
  <2> HIDE DEF h, last
  <2>2. Len(draws) \in Nat /\ Len(draws') \in Nat
    BY <1>2, <1>4
  <2>3. CASE draws' = Append(draws, h)
    <3>1. Len(Append(draws, h)) = Len(draws) + 1
      BY <1>2
    <3> QED
      BY <2>2, <2>3, <3>1
  <2>4. CASE draws' = [draws EXCEPT ![Len(draws)] = last \o h]
    <3>1. DOMAIN draws' = DOMAIN draws
      BY <2>4
    <3>2. DOMAIN draws = 1..Len(draws) /\ DOMAIN draws' = 1..Len(draws')
      BY <1>2, <1>4
    <3> QED
      BY <2>2, <3>1, <3>2
  <2> QED
    BY <2>1, <2>2, <2>3, <2>4
<1>6. CASE stream' = Tail(stream)
  BY <1>1, <1>2, <1>3, <1>4, <1>5, <1>6, TakeRoom
<1>7. CASE /\ stream' = SubSeq(stream, 4, Len(stream)) /\ Len(stream) >= 4
           /\ stream[4].op = "draw" /\ Len(draws') < MaxDraws - 1
  <2>1. /\ Rest(stream', stream, 3) /\ stream' \in Seq(Method)
        /\ stream' # <<>> /\ stream'[1].op = "draw"
    BY <1>2, <1>7, SquashRest
  <2>2. Sparse(stream', guest)
    BY <2>1, RestSparse DEF Room
  <2>3. guest.open \/ Ended(stream', 0, Len(stream') + 1)
    <3>1. stream'[1].op \in OpKinds /\ stream'[1].op # "end"
      BY <2>1 DEF OpKinds
    <3>2. 1 \in 1..Len(stream')
      BY <2>1
    <3>3. ~Ended(stream', 1, Len(stream') + 1) => guest.open
      BY <2>2, <3>1, <3>2, Zenon DEF Sparse
    <3>4. Ended(stream', 1, Len(stream') + 1) <=> Ended(stream', 0, Len(stream') + 1)
      BY <2>1, <3>1, HeadNeed, Zenon
    <3> QED
      BY <3>3, <3>4
  <2>4. Len(draws') <= MaxDraws - 2
    BY <1>5, <1>7, DrawBoundsAssumption
  <2>5. Roomy(Len(draws'), stream', guest)
    BY <1>2, <1>5, <2>1, <2>2, <2>3, <2>4, EmptyRoomy, Zenon
  <2> QED
    BY <1>1, <2>2, <2>5 DEF Room
<1> QED
  BY <1>1, <1>2, <1>6, <1>7, DrawArraysTakes

(* The other methods add no range, and END drops all. *)
LEMMA OthersRoom ==
  ASSUME MaxDraws >= 2, Inv, Room,
         Begin \/ End \/ ArrayElement \/ InlineArray \/ FinishVertex
  PROVE  Room'
<1>1. stream # <<>> /\ stream' = Tail(stream) /\ guest' = guest
  BY DEF Begin, End, ArrayElement, InlineArray, FinishVertex, Meth
<1>2. /\ TypeOK /\ Head(stream) = stream[1] /\ Rest(stream', stream, 1)
      /\ stream' \in Seq(Method)
  BY <1>1, TailRest DEF Inv
<1>3. draws \in Seq(Vertices) /\ <<>> \in Seq(Vertices) /\ guest \in GuestType
  BY <1>2 DEF TypeOK
<1>4. draws' = draws \/ draws' = <<>>
  BY DEF Begin, End, ArrayElement, InlineArray, FinishVertex, batch,
         ResetInlineBuffers, ResetDrawArrays
<1>5. CASE draws' = <<>>
  <2>1. Sparse(stream', guest)
    BY <1>2, RestSparse DEF Room
  <2>2. Len(draws') = 0 /\ 0 <= MaxDraws - 2
    BY <1>5, DrawBoundsAssumption
  <2>3. Roomy(Len(draws'), stream', guest)
    BY <1>2, <1>3, <2>1, <2>2, EmptyRoomy
  <2> QED
    BY <1>1, <2>1, <2>3 DEF Room
<1>6. CASE draws' = draws /\ draws' # <<>>
  <2>1. ~End
    BY <1>6 DEF End, ResetInlineBuffers, ResetDrawArrays
  <2>2. stream[1].op # "end"
    BY <1>2, <2>1 DEF Begin, ArrayElement, InlineArray, FinishVertex, Meth
  <2>3. Len(draws') <= Len(draws) + (IF stream[1].op \in OpKinds THEN 1 ELSE 0)
    BY <1>3, <1>6
  <2> QED
    BY <1>1, <1>2, <1>3, <1>6, <2>2, <2>3, TakeRoom
<1> QED
  BY <1>4, <1>5, <1>6

(* One range more in a block that may hold two: before it the need grows by one
   at most and the guest holds one more. *)
LEMMA OneMoreHeld ==
  ASSUME NEW old \in Nat, NEW new \in Nat, NEW h \in Nat, NEW most \in Nat,
         new <= old + 1, old + 1 <= h, h < most, most <= 2
  PROVE  new <= 1 /\ new + 1 <= h + 1
OBVIOUS

(* The same for the array of ranges, n of which are in use. *)
LEMMA OneMoreFits ==
  ASSUME NEW n \in Nat, NEW old \in Nat, NEW new \in Nat, NEW h \in Nat,
         NEW most \in Nat, NEW room \in Nat,
         new <= old + 1, n + old <= room - 2 + h, h < most, most <= 2
  PROVE  n + new <= room /\ n + new <= room - 2 + (h + 1)
OBVIOUS

(* A method the guest sends: with vertices, at most two in a block. *)
LEMMA SendRoom ==
  ASSUME PerBlock <= 2, MaxDraws >= 2, Inv, Room,
         NEW m \in Method, NEW g \in GuestType, Send(m, g),
         m.op \in OpKinds => /\ guest.open /\ guest.held < PerBlock
                             /\ g.open /\ g.held = guest.held + 1,
         m.op \notin OpKinds \cup {"end"} => g.open /\ (guest.open => g = guest)
  PROVE  Room'
<1>1. guest' = [g EXCEPT !.ops = g.ops + 1, !.submitted = g.submitted \o m.vertices]
  BY DEF Send
<1>2. guest'.open = g.open /\ guest'.held = g.held
  BY <1>1 DEF GuestType
<1>3. stream' = Append(stream, m) /\ draws' = draws
  BY DEF Send, batch
<1>4. /\ stream \in Seq(Method) /\ Len(stream) \in Nat /\ Len(stream') = Len(stream) + 1
      /\ stream'[Len(stream) + 1] = m /\ \A k \in 1..Len(stream) : stream'[k] = stream[k]
  <2>1. stream \in Seq(Method)
    BY Zenon DEF Inv, TypeOK
  <2> QED
    BY <1>3, <2>1, GrownStream, Zenon
<1>5. guest.held \in Nat /\ g.held \in Nat /\ PerBlock \in Nat /\ MaxDraws \in Nat
  BY DrawBoundsAssumption DEF Inv, TypeOK, GuestType
<1>6. ASSUME NEW i \in 0..Len(stream)
      PROVE  /\ m.op \notin OpKinds \/ Ended(stream, i, Len(stream) + 1)
                  => Need(stream', i) = Need(stream, i)
             /\ Need(stream', i) <= Need(stream, i) + 1
             /\ Need(stream, i) \in {0, 1, 2} /\ Need(stream', i) \in {0, 1, 2}
             /\ ~Ended(stream', i, Len(stream') + 1) =>
                  m.op # "end" /\ ~Ended(stream, i, Len(stream) + 1)
  <2>1. Len(stream') + 1 = Len(stream) + 2
    BY <1>4
  <2> QED
    BY <1>3, <1>4, <2>1, AppendNeed, AppendEnded, NeedType, Zenon
<1>7. m.op \in OpKinds => m.op # "end"
  BY DEF OpKinds
<1>8. Sparse(stream', guest')
  <2> SUFFICES ASSUME NEW i \in 1..Len(stream'), stream'[i].op \in OpKinds
               PROVE  /\ Need(stream', i) <= 1
                      /\ ~Ended(stream', i, Len(stream') + 1) =>
                           guest'.open /\ Need(stream', i) + 1 <= guest'.held
    BY DEF Sparse
  <2>1. CASE i = Len(stream')
    <3>1. m.op \in OpKinds
      BY <1>4, <2>1
    <3>2. (i + 1)..Len(stream') = {}
      BY <1>4, <2>1
    <3>3. ~Some(stream', i) /\ ~Two(stream', i)
      BY <3>2, Zenon DEF Some, Two
    <3>4. Need(stream', i) = 0
      BY <3>3 DEF Need
    <3>5. guest'.open /\ guest'.held = guest.held + 1
      BY <1>2, <3>1, Zenon
    <3>6. Need(stream', i) <= 1 /\ Need(stream', i) + 1 <= guest.held + 1
      BY <1>5, <3>4
    <3> QED
      BY <3>5, <3>6, Zenon
  <2>2. CASE i \in 1..Len(stream)
    <3>1. i \in 0..Len(stream) /\ stream[i].op \in OpKinds
      <4>1. Len(stream) \in Nat
        BY <1>4
      <4>2. i \in 0..Len(stream)
        BY <2>2, <4>1, PositionFacts, Zenon
      <4>3. stream'[i] = stream[i]
        BY <1>4, <2>2, Zenon
      <4> QED
        BY <4>2, <4>3, Zenon
    <3>2. /\ Need(stream, i) <= 1
          /\ ~Ended(stream, i, Len(stream) + 1) =>
               guest.open /\ Need(stream, i) + 1 <= guest.held
      BY <2>2, <3>1, Zenon DEF Room, Sparse
    <3>3. CASE m.op \notin OpKinds
      <4>1. Need(stream', i) = Need(stream, i)
        BY <1>6, <3>1, <3>3
      <4>2. ~Ended(stream', i, Len(stream') + 1) => guest'.open /\ guest'.held = guest.held
        <5>1. ~Ended(stream', i, Len(stream') + 1) => guest.open /\ m.op # "end"
          BY <1>6, <3>1, <3>2, Zenon
        <5> QED
          BY <1>2, <3>3, <5>1
      <4>3. ~Ended(stream', i, Len(stream') + 1) => ~Ended(stream, i, Len(stream) + 1)
        BY <1>6, <3>1, Zenon
      <4> QED
        BY <3>2, <4>1, <4>2, <4>3
    <3>4. CASE m.op \in OpKinds /\ Ended(stream, i, Len(stream) + 1)
      <4>1. Need(stream', i) = Need(stream, i) /\ Ended(stream', i, Len(stream') + 1)
        BY <1>6, <3>1, <3>4, Zenon
      <4> QED
        BY <3>2, <4>1
    <3>5. CASE m.op \in OpKinds /\ ~Ended(stream, i, Len(stream) + 1)
      <4>1. Need(stream, i) + 1 <= guest.held /\ guest.held < PerBlock
            /\ guest'.open /\ guest'.held = guest.held + 1
        BY <1>2, <3>2, <3>5
      <4>2. Need(stream', i) <= Need(stream, i) + 1
            /\ Need(stream, i) \in {0, 1, 2} /\ Need(stream', i) \in {0, 1, 2}
        BY <1>6, <3>1
      <4>3. Need(stream, i) \in Nat /\ Need(stream', i) \in Nat
        BY <4>2
      <4> QED
        BY <1>5, <4>1, <4>2, <4>3, OneMoreHeld, Zenon
    <3> QED
      BY <3>3, <3>4, <3>5
  <2> QED
    BY <1>4, <2>1, <2>2, PositionFacts, Zenon
<1>9. Roomy(Len(draws), stream', guest')
  <2>1. 0 \in 0..Len(stream) /\ Len(draws) \in Nat
    <3>1. draws \in Seq(Vertices)
      BY Zenon DEF Inv, TypeOK
    <3> QED
      BY <1>4, <3>1
  <2> DEFINE n == Len(draws)
             old == Need(stream, 0)
             new == Need(stream', 0)
             ended == Ended(stream, 0, Len(stream) + 1)
             over == Ended(stream', 0, Len(stream') + 1)
  <2>2. /\ m.op \notin OpKinds \/ ended => new = old
        /\ new <= old + 1 /\ old \in {0, 1, 2} /\ new \in {0, 1, 2}
        /\ ~over => m.op # "end" /\ ~ended
    BY <1>6, <2>1, Zenon
  <2>3. /\ n + old <= MaxDraws
        /\ ~ended /\ guest.open => n + old <= MaxDraws - 2 + guest.held
        /\ ~ended /\ ~guest.open => n = 0 /\ old = 0
    BY Zenon DEF Room, Roomy
  <2> SUFFICES /\ n + new <= MaxDraws
               /\ ~over => IF guest'.open THEN n + new <= MaxDraws - 2 + guest'.held
                           ELSE n = 0 /\ new = 0
    BY Zenon DEF Roomy
  <2> HIDE DEF n, old, new, ended, over
  <2>4. n \in Nat
    BY <2>1 DEF n
  <2>5. CASE m.op \in OpKinds
    <3>1. /\ guest.open /\ guest.held < PerBlock
          /\ guest'.open /\ guest'.held = guest.held + 1
      BY <1>2, <2>5
    <3>2. old \in Nat /\ new \in Nat
      BY <2>2
    <3>3. CASE ended
      <4>1. new = old /\ over
        BY <2>2, <3>3, Zenon
      <4> QED
        BY <2>3, <4>1, Zenon
    <3>4. CASE ~ended
      <4>1. new <= old + 1 /\ n + old <= MaxDraws - 2 + guest.held
        BY <2>2, <2>3, <3>1, <3>4, Zenon
      <4> QED
        BY <1>5, <2>4, <3>1, <3>2, <4>1, OneMoreFits, Zenon
    <3> QED
      BY <3>3, <3>4, Zenon
  <2>6. CASE m.op \notin OpKinds
    <3>1. new = old
      BY <2>2, <2>6
    <3>2. ~over => guest'.open /\ guest'.held \in Nat
                   /\ (guest.open => guest'.held = guest.held) /\ ~ended
      BY <1>2, <1>5, <2>2, <2>6
    <3> QED
      BY <1>5, <2>3, <2>4, <3>1, <3>2
  <2> QED
    BY <2>5, <2>6
<1> QED
  BY <1>3, <1>8, <1>9 DEF Room

(* The guest's methods. *)
LEMMA GuestRoom ==
  ASSUME PerBlock <= 2, MaxDraws >= 2, Inv, Room, Guest
  PROVE  Room'
<1>0. guest \in GuestType
  BY DEF Inv, TypeOK
<1>1. ASSUME NEW p \in Prims, NEW kinds \in Kinds, GuestBegin(p, kinds) PROVE Room'
  <2>1. PICK m \in Method, g \in GuestType :
          Send(m, g) /\ m.op = "begin" /\ g.open /\ (guest.open => g = guest)
    BY <1>0, <1>1, BeginMethod
  <2>2. m.op \notin OpKinds
    BY <2>1 DEF OpKinds
  <2> QED
    BY <2>1, <2>2, SendRoom
<1>2. CASE GuestEnd
  <2>1. PICK m \in Method, g \in GuestType : Send(m, g) /\ m.op = "end" /\ ~g.open
    BY <1>0, <1>2, EndMethod
  <2>2. m.op \notin OpKinds
    BY <2>1 DEF OpKinds
  <2> QED
    BY <2>1, <2>2, SendRoom
<1>3. ASSUME NEW op \in OpKinds, NEW start \in Nat, NEW count \in Nat,
             GuestVertices(op, start, count)
      PROVE  Room'
  BY <1>0, <1>3, VerticesMethod, SendRoom
<1> HIDE DEF Room
<1> QED
  BY <1>1, <1>2, <1>3, GuestMethods

(* With two methods of vertices to a block at most, the assertion of DRAW_ARRAYS
   on ARRAY_SIZE(draw_arrays_start) holds: the two ranges that squashing leaves
   free are all the next block needs, however many blocks are squashed. *)
THEOREM SquashLeavesRoom ==
  ASSUME PerBlock <= 2, MaxDraws >= 2
  PROVE  Spec => []DrawsFit
<1>1. Init => Inv /\ Room
  <2> SUFFICES ASSUME Init PROVE Room
    BY InitInv
  <2>1. stream = <<>> /\ draws = <<>> /\ Len(draws) = 0 /\ guest \in GuestType
    BY InitInv DEF Init, Inv, TypeOK
  <2>2. Sparse(stream, guest)
    BY <2>1 DEF Sparse
  <2>3. stream \in Seq(Method) /\ 0 \in Nat /\ 0 <= MaxDraws - 2
    BY <2>1, DrawBoundsAssumption
  <2>4. Roomy(0, stream, guest)
    BY <2>1, <2>2, <2>3, EmptyRoomy
  <2> QED
    BY <2>1, <2>2, <2>4 DEF Room
<1>2. Inv /\ Room /\ [Next]_vars => Inv' /\ Room'
  <2> SUFFICES ASSUME Inv, Room, [Next]_vars PROVE Room'
    BY NextInv
  <2>1. CASE UNCHANGED vars
    BY <2>1 DEF Room, vars, batch
  <2>2. CASE Next
    BY <2>2, GuestRoom, DrawArraysRoom, OthersRoom, Zenon DEF Next
  <2> QED
    BY <2>1, <2>2
<1>3. Inv /\ Room => DrawsFit
  <2> SUFFICES ASSUME Inv, Room, Meth("draw") PROVE Len(draws) < MaxDraws
    BY DEF DrawsFit
  <2>1. stream # <<>> /\ stream \in Seq(Method) /\ stream[1].op = "draw"
    BY TailRest DEF Meth, Inv, TypeOK
  <2>2. Some(stream, 0)
    <3>1. 1 \in (0 + 1)..Len(stream) /\ ~Ended(stream, 0, 1)
      BY <2>1 DEF Ended
    <3> QED
      BY <2>1, <3>1 DEF Some, OpKinds
  <2>3. Need(stream, 0) >= 1 /\ Need(stream, 0) \in Nat
    BY <2>2 DEF Need
  <2>4. Len(draws) + Need(stream, 0) <= MaxDraws
    BY DEF Room, Roomy
  <2>5. Len(draws) \in Nat
    BY DEF Inv, TypeOK
  <2> QED
    BY <2>3, <2>4, <2>5, DrawBoundsAssumption
<1> QED
  BY <1>1, <1>2, <1>3, PTL DEF Spec

-----------------------------------------------------------------------------
(* Vertices sent attribute by attribute (Nv2aInlineBuffer). *)

(* Types and the property are inductive together. *)
BufferInv == InlineTypeOK /\ DrawnAsIssued

(* What pgraph_allocate_inline_buffer_vertices makes of an attribute's buffer
   is a buffer, and as far as the batch goes it holds what was drawn before. *)
LEMMA AllocatedHoldsDrawn ==
  ASSUME BufferInv, NEW a \in Attributes
  PROVE  /\ Allocated(a) \in [Slots -> Values]
         /\ length > 0 =>
              \A i \in Slots : i < length => Allocated(a)[i] = DrawnWith(i, a)
  BY DEF BufferInv, InlineTypeOK, Allocated, DrawnWith

(* No slot lies before an empty batch. *)
LEMMA NoneBelowZero ==
  0 \in 0..MaxVertices /\ \A i \in Slots : ~(i < 0)
  BY MaxVerticesAssumption DEF Slots

(* An empty batch is drawn as issued. *)
LEMMA EmptyBatch ==
  ASSUME length' = 0, InlineTypeOK'
  PROVE  BufferInv'
  BY DEF BufferInv, DrawnAsIssued, Slots

(* The buffers start empty. *)
LEMMA BufferInitInv ==
  ASSUME InlineInit
  PROVE  BufferInv
<1>1. InlineTypeOK
  BY DefaultAssumption, NoneBelowZero, Zenon DEF InlineInit, InlineTypeOK
<1>2. DrawnAsIssued
  BY NoneBelowZero, Zenon DEF InlineInit, DrawnAsIssued
<1>3. QED
  BY <1>1, <1>2 DEF BufferInv

(* Setting an attribute keeps what was drawn before it. *)
LEMMA SetAttributeInv ==
  ASSUME BufferInv, NEW a \in Attributes, NEW v \in Values, SetAttribute(a, v)
  PROVE  BufferInv'
<1>1. InlineTypeOK'
  <2>1. populated' \in [Attributes -> BOOLEAN]
    BY DEF BufferInv, InlineTypeOK, SetAttribute
  <2>2. QED
    BY <2>1, AllocatedHoldsDrawn DEF BufferInv, InlineTypeOK, SetAttribute, Slots
<1>2. ASSUME NEW i \in Slots, i < length, NEW b \in Attributes
      PROVE  DrawnWith(i, b)' = issued[i][b]
  <2>1. DrawnWith(i, b) = issued[i][b]
    BY <1>2 DEF BufferInv, DrawnAsIssued
  <2>2. CASE b = a
    <3>1. length > 0
      BY <1>2 DEF BufferInv, InlineTypeOK, Slots
    <3>2. populated'[a]
      BY MaxVerticesAssumption, <3>1 DEF BufferInv, InlineTypeOK, SetAttribute
    <3>3. inlineBuffer'[a][i] = DrawnWith(i, a)
      BY <1>2, <3>1, AllocatedHoldsDrawn DEF BufferInv, InlineTypeOK, SetAttribute
    <3>4. QED
      BY <2>1, <2>2, <3>2, <3>3 DEF DrawnWith
  <2>3. CASE b # a
    BY <2>1, <2>3 DEF BufferInv, InlineTypeOK, SetAttribute, DrawnWith
  <2>4. QED
    BY <2>2, <2>3
<1>3. QED
  BY <1>1, <1>2 DEF BufferInv, DrawnAsIssued, SetAttribute, Slots

(* Issuing a vertex keeps the earlier ones and adds its own values. *)
LEMMA SetPositionInv ==
  ASSUME BufferInv, NEW v \in Values, SetPosition(v)
  PROVE  BufferInv'
<1> DEFINE full == [inlineBuffer EXCEPT ![Position] = Allocated(Position)]
<1>1. /\ length \in Slots /\ length \in Nat /\ length' = length + 1
      /\ value' \in [Attributes -> Values]
  BY PositionAssumption, MaxVerticesAssumption
     DEF BufferInv, InlineTypeOK, SetPosition, Slots
<1>2. populated' \in [Attributes -> BOOLEAN]
  BY PositionAssumption DEF BufferInv, InlineTypeOK, SetPosition
<1>3. /\ full \in [Attributes -> [Slots -> Values]]
      /\ inlineBuffer' = [a \in Attributes |->
                     IF populated'[a] THEN [full[a] EXCEPT ![length] = value'[a]]
                     ELSE full[a]]
  BY PositionAssumption, AllocatedHoldsDrawn DEF BufferInv, InlineTypeOK, SetPosition
<1> HIDE DEF full
<1>4. inlineBuffer' \in [Attributes -> [Slots -> Values]]
  BY <1>1, <1>3
<1>5. /\ issued' = [issued EXCEPT ![length] = value']
      /\ issued' \in [Slots -> [Attributes -> Values]]
  BY <1>1 DEF BufferInv, InlineTypeOK, SetPosition
<1>6. InlineTypeOK'
  BY MaxVerticesAssumption, <1>1, <1>2, <1>4, <1>5
     DEF BufferInv, InlineTypeOK, SetPosition, Slots
<1>7. ASSUME NEW i \in Slots, i < length', NEW a \in Attributes
      PROVE  DrawnWith(i, a)' = issued'[i][a]
  <2>1. CASE i = length
    BY <2>1, <1>1, <1>3, <1>5 DEF DrawnWith, BufferInv, InlineTypeOK
  <2>2. CASE i # length
    <3>1. i < length /\ length > 0
      BY <2>2, <1>7, <1>1 DEF Slots
    <3>2. DrawnWith(i, a) = issued[i][a]
      BY <3>1 DEF BufferInv, DrawnAsIssued
    <3>3. issued'[i][a] = issued[i][a]
      BY <2>2, <1>5 DEF BufferInv, InlineTypeOK
    <3>4. populated'[a] => inlineBuffer'[a][i] = full[a][i]
      BY <2>2, <1>3, <1>1
    <3>5. CASE a = Position
      <4>1. populated'[a]
        BY PositionAssumption, MaxVerticesAssumption, <3>5, <3>1
           DEF BufferInv, InlineTypeOK, SetPosition
      <4>2. full[a][i] = DrawnWith(i, a)
        BY <3>1, <3>5, AllocatedHoldsDrawn
           DEF full, BufferInv, InlineTypeOK
      <4>3. QED
        BY <4>1, <4>2, <3>2, <3>3, <3>4 DEF DrawnWith
    <3>6. CASE a # Position
      <4>1. full[a] = inlineBuffer[a]
        BY <3>6 DEF full, BufferInv, InlineTypeOK
      <4>2. populated'[a] = populated[a] /\ value'[a] = value[a]
        BY <3>6 DEF BufferInv, InlineTypeOK, SetPosition
      <4>3. QED
        BY <4>1, <4>2, <3>2, <3>3, <3>4 DEF DrawnWith
    <3>7. QED
      BY <3>5, <3>6
  <2>3. QED
    BY <2>1, <2>2
<1>8. QED
  BY <1>6, <1>7 DEF BufferInv, DrawnAsIssued, Slots

(* A batch that is emptied holds no vertex, so only types are left to see. *)
LEMMA EmptiedInv ==
  ASSUME BufferInv, EndDrawn \/ EndDropped
  PROVE  BufferInv'
<1>1. CASE EndDrawn
  <2>1. length - 1 \in Slots
    BY MaxVerticesAssumption, <1>1 DEF BufferInv, InlineTypeOK, EndDrawn, Slots
  <2>2. value' \in [Attributes -> Values] /\ populated' \in [Attributes -> BOOLEAN]
    BY <1>1, <2>1 DEF BufferInv, InlineTypeOK, EndDrawn
  <2>3. InlineTypeOK'
    BY <1>1, <2>2, NoneBelowZero, Zenon DEF BufferInv, InlineTypeOK, EndDrawn, Slots
  <2>4. QED
    BY <1>1, <2>3, EmptyBatch DEF EndDrawn
<1>2. CASE EndDropped
  <2>1. InlineTypeOK'
    BY <1>2, NoneBelowZero, Zenon DEF BufferInv, InlineTypeOK, EndDropped, Slots
  <2>2. QED
    BY <1>2, <2>1, EmptyBatch DEF EndDropped
<1>3. QED
  BY <1>1, <1>2

(* Every step keeps the invariant. *)
LEMMA BufferNextInv ==
  ASSUME BufferInv, [InlineNext]_inlineVars
  PROVE  BufferInv'
<1>1. ASSUME NEW a \in Attributes, NEW v \in Values, SetAttribute(a, v) PROVE BufferInv'
  BY <1>1, SetAttributeInv
<1>2. ASSUME NEW v \in Values, SetPosition(v) PROVE BufferInv'
  BY <1>2, SetPositionInv
<1>3. CASE InlineBegin
  BY MaxVerticesAssumption, <1>3
     DEF BufferInv, InlineTypeOK, DrawnAsIssued, DrawnWith, InlineBegin, Slots
<1>4. CASE EndDrawn \/ EndDropped
  BY <1>4, EmptiedInv
<1>5. ASSUME NEW new \in [Attributes -> Values], NEW ends \in BOOLEAN,
             DrawFromMemory(new, ends)
      PROVE  BufferInv'
  BY <1>5 DEF BufferInv, InlineTypeOK, DrawnAsIssued, DrawFromMemory, Slots
<1>6. CASE UNCHANGED inlineVars
  BY <1>6 DEF BufferInv, InlineTypeOK, DrawnAsIssued, DrawnWith, inlineVars
<1>7. QED
  BY <1>1, <1>2, <1>3, <1>4, <1>5, <1>6 DEF InlineNext

(* Type correctness: inline_buffer_length stays within the buffers. *)
THEOREM BufferTypeCorrect ==
  InlineSpec => []InlineTypeOK
<1>1. BufferInv => InlineTypeOK
  BY DEF BufferInv
<1>2. InlineInit => BufferInv
  BY BufferInitInv
<1>3. BufferInv /\ [InlineNext]_inlineVars => BufferInv'
  BY BufferNextInv
<1>4. QED
  BY <1>1, <1>2, <1>3, PTL DEF InlineSpec

(* Whatever the attributes, values and batch length, every vertex is drawn
   with the attribute values it was issued with. *)
THEOREM VerticesCorrect ==
  InlineSpec => []DrawnAsIssued
<1>1. BufferInv => DrawnAsIssued
  BY DEF BufferInv
<1>2. InlineInit => BufferInv
  BY BufferInitInv
<1>3. BufferInv /\ [InlineNext]_inlineVars => BufferInv'
  BY BufferNextInv
<1>4. QED
  BY <1>1, <1>2, <1>3, PTL DEF InlineSpec

=============================================================================
