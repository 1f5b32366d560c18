----------------------------- MODULE NvNetProofs -----------------------------
(***************************************************************************)
(* The network controller, for rings of every size and any number of       *)
(* packets, switches, resets and snapshots.                                *)
(*   The link: the guest is shown one only when there is one, and one that *)
(* is there and not shown has its negotiation under way, which is what     *)
(* LinkComesUp rests on (LinkInv).                                         *)
(*   Receiving and the interrupts: each frame is in at most one place, and *)
(* a cause the guest asked for keeps the line up (RxInv).                  *)
(*   Sending: what the guest handed over and the network has not got is in *)
(* tx_dma_buf and the ring, in order, and a packet goes out whole (TxInv). *)
(* Each needs to know what a snapshot may hold, since Load brings it back. *)
(***************************************************************************)
EXTENDS NvNet, NaturalsInduction, WellFoundedInduction, TLAPS

(* The order of the natural numbers as a relation. *)
Less == {ss \in Nat \X Nat : ss[1] < ss[2]}

(* It has no infinite descent. *)
LEMMA LessIsWellFounded == IsWellFoundedOn(Less, Nat)
<1>1. OpToRel(<, Nat) = Less
  BY Zenon DEF OpToRel, Less
<1> QED
  BY <1>1, NatLessThanWellFounded, Zenon

(* A set of numbers has a least one. *)
LEMMA Least ==
  ASSUME NEW T, T \subseteq Nat, T # {}
  PROVE  \E x \in T : \A y \in T : x <= y
<1>1. PICK x \in T : \A y \in T : ~(<<y, x>> \in Less)
  BY LessIsWellFounded, WFMin, Zenon
<1>2. ASSUME NEW m \in Nat, NEW n \in Nat, m < n PROVE <<m, n>> \in Less
  BY <1>2 DEF Less
<1>3. ASSUME NEW y \in T PROVE x <= y
  <2>1. x \in Nat /\ y \in Nat
    OBVIOUS
  <2>2. ~(y < x)
    BY <1>1, <1>2, <2>1, Zenon
  <2> QED
    BY <2>1, <2>2
<1> QED
  BY <1>3

(* Induction up to n, for the members of a set. *)
LEMMA Induction ==
  ASSUME NEW n \in Nat, NEW T, 0 \in T, \A i \in 0..(n - 1) : i \in T => i + 1 \in T
  PROVE  \A i \in 0..n : i \in T
<1> DEFINE U == {i \in 0..n : i \notin T}
<1>1. SUFFICES ASSUME U # {} PROVE FALSE
  OBVIOUS
<1>2. PICK m \in U : \A y \in U : m <= y
  <2>1. U \subseteq Nat
    OBVIOUS
  <2> HIDE DEF U
  <2> QED
    BY <1>1, <2>1, Least, Zenon
<1>3. m \in 1..n /\ m - 1 \in 0..(n - 1) /\ m - 1 \notin U /\ (m - 1) + 1 = m
  BY <1>2
<1> QED
  BY <1>2, <1>3

-----------------------------------------------------------------------------
(* The link. *)
PhyType == [auto : BOOLEAN, link : BOOLEAN, comp : BOOLEAN]

(* A link that is there is shown to the guest, or autoneg_timer will. *)
NegotiationUnderWay == ~linkDown /\ ~phy.link => timer

(* The invariant of the link. *)
LinkInv ==
  /\ phy \in PhyType
  /\ linkDown \in BOOLEAN /\ timer \in BOOLEAN
  /\ \A z \in saved : z.phy \in PhyType
  /\ LinkIsReal
  /\ NegotiationUnderWay

(* nvnet_reset leaves a link that is there up. *)
LEMMA InitLink == Init => LinkInv
<1> SUFFICES ASSUME Init PROVE LinkInv
  OBVIOUS
<1>1. phy = [auto |-> TRUE, link |-> TRUE, comp |-> TRUE]
  BY Zenon DEF Init, ResetPhy
<1>2. linkDown = FALSE /\ timer = FALSE /\ saved = {}
  BY DEF Init
<1> QED
  BY <1>1, <1>2, Zenon DEF LinkInv, PhyType, LinkIsReal, NegotiationUnderWay

(* What nvnet_set_link_status does to the PHY registers and the timer when the
   link is down: it is not shown. *)
LEMMA StatusDown ==
  ASSUME NEW k, k.phy \in PhyType, k.timer \in BOOLEAN,
         k = [phy |-> k.phy, irq |-> k.irq, timer |-> k.timer]
  PROVE  LET s == LinkStatus(k, TRUE)
         IN s.phy \in PhyType /\ ~s.phy.link /\ s.timer = k.timer
            /\ s = [phy |-> s.phy, irq |-> s.irq, timer |-> s.timer]
BY Zenon DEF LinkStatus, SetLinkDown, PhyType

(* The same with the link up: it is shown, or negotiated. *)
LEMMA StatusUp ==
  ASSUME NEW k, k.phy \in PhyType, k.timer \in BOOLEAN,
         k = [phy |-> k.phy, irq |-> k.irq, timer |-> k.timer]
  PROVE  LET s == LinkStatus(k, FALSE)
         IN s.phy \in PhyType /\ s.timer \in BOOLEAN /\ (s.phy.link \/ s.timer)
BY Zenon DEF LinkStatus, SetLinkUp, PhyType

(* Every step keeps the invariant. *)
LEMMA StepLink == LinkInv /\ [Next]_vars => LinkInv'
<1> SUFFICES ASSUME LinkInv, [Next]_vars PROVE LinkInv'
  OBVIOUS
<1> USE DEF LinkInv
<1>1. CASE UNCHANGED <<phy, linkDown, timer, saved>>
  BY <1>1 DEF LinkIsReal, NegotiationUnderWay
<1>2. CASE AutonegTimer
  <2>1. timer' = FALSE /\ linkDown' = linkDown /\ saved' = saved
    BY <1>2 DEF AutonegTimer
  <2>2. CASE linkDown /\ phy' = phy
    BY <2>1, <2>2, Zenon DEF LinkIsReal, NegotiationUnderWay
  <2>3. CASE ~linkDown /\ phy' = [SetLinkUp(Link).phy EXCEPT !.comp = TRUE]
    <3>1. phy' = [auto |-> phy.auto, link |-> TRUE, comp |-> TRUE]
      BY <2>3, Zenon DEF SetLinkUp, Link, PhyType
    <3>2. phy' \in PhyType /\ phy'.link
      BY <3>1 DEF PhyType
    <3> QED
      BY <2>1, <2>3, <3>2, Zenon DEF LinkIsReal, NegotiationUnderWay
  <2> QED
    BY <1>2, <2>2, <2>3 DEF AutonegTimer
<1>3. CASE NetEnable
  <2>1. linkDown' = FALSE /\ saved' = saved
    BY <1>3 DEF NetEnable
  <2>2. PICK works \in BOOLEAN :
          LET k == LinkStatus(IF works THEN Link ELSE LinkStatus(Link, TRUE), FALSE)
          IN phy' = k.phy /\ timer' = k.timer
    BY <1>3, Zenon DEF NetEnable
  <2>3. /\ Link.phy \in PhyType /\ Link.timer \in BOOLEAN
        /\ Link = [phy |-> Link.phy, irq |-> Link.irq, timer |-> Link.timer]
    BY DEF Link
  <2> DEFINE down == LinkStatus(Link, TRUE)
  <2>4. /\ down.phy \in PhyType /\ down.timer \in BOOLEAN
        /\ down = [phy |-> down.phy, irq |-> down.irq, timer |-> down.timer]
    BY <2>3, StatusDown, Zenon
  <2>5. phy' \in PhyType /\ timer' \in BOOLEAN /\ (phy'.link \/ timer')
    <3>1. CASE works
      BY <2>2, <2>3, <3>1, StatusUp, Zenon
    <3>2. CASE ~works
      <4> HIDE DEF down
      <4>1. phy' = LinkStatus(down, FALSE).phy /\ timer' = LinkStatus(down, FALSE).timer
        BY <2>2, <3>2 DEF down
      <4> QED
        BY <2>4, <4>1, StatusUp, Zenon
    <3> QED
      BY <3>1, <3>2
  <2> QED
    BY <2>1, <2>5, Zenon DEF LinkIsReal, NegotiationUnderWay
<1>4. CASE NetDisable
  <2>1. linkDown' = TRUE /\ saved' = saved
    BY <1>4 DEF NetDisable
  <2>2. phy' = LinkStatus(Link, TRUE).phy /\ timer' = LinkStatus(Link, TRUE).timer
    BY <1>4 DEF NetDisable
  <2>3. /\ Link.phy \in PhyType /\ Link.timer \in BOOLEAN
        /\ Link = [phy |-> Link.phy, irq |-> Link.irq, timer |-> Link.timer]
    BY DEF Link
  <2>4. phy' \in PhyType /\ ~phy'.link /\ timer' \in BOOLEAN
    BY <2>2, <2>3, StatusDown, Zenon
  <2> QED
    BY <2>1, <2>4 DEF LinkIsReal, NegotiationUnderWay
<1>5. CASE MachineReset
  <2>1. linkDown' = linkDown /\ timer' = FALSE /\ saved' = saved
    BY <1>5 DEF MachineReset
  <2>2. phy' = [auto |-> TRUE, link |-> ~linkDown, comp |-> ~linkDown]
    BY <1>5 DEF MachineReset, ResetPhy
  <2>3. phy' \in PhyType /\ phy'.link = ~linkDown
    BY <2>2 DEF PhyType
  <2> QED
    BY <2>1, <2>3, Zenon DEF LinkIsReal, NegotiationUnderWay
<1>6. CASE Save
  <2>1. phy' = phy /\ linkDown' = linkDown /\ timer' = timer
    BY <1>6 DEF Save
  <2>2. \A z \in saved' : z.phy = phy
    BY <1>6 DEF Save
  <2> QED
    BY <2>1, <2>2 DEF LinkIsReal, NegotiationUnderWay
<1>7. CASE Load
  <2>1. saved' = saved
    BY <1>7 DEF Load
  <2>2. PICK z \in saved : PostLoad(z) /\ phy' = z.phy
    BY <1>7 DEF Load
  <2>3. /\ linkDown' = (~phy'.link /\ ~Negotiates(phy'))
        /\ timer' = Negotiates(phy')
    BY <2>2 DEF PostLoad
  <2>4. phy' \in PhyType /\ Negotiates(phy') \in BOOLEAN
    BY <2>2 DEF Negotiates, PhyType
  <2> QED
    BY <2>1, <2>3, <2>4, Zenon DEF LinkIsReal, NegotiationUnderWay
<1>8. CASE GuestPhy
  <2>1. phy' = [phy EXCEPT !.auto = ~@]
    BY <1>8 DEF GuestPhy
  <2>2. linkDown' = linkDown /\ timer' = timer /\ saved' = saved
    BY <1>8 DEF GuestPhy
  <2>3. phy' \in PhyType /\ phy'.link = phy.link
    BY <2>1, Zenon DEF PhyType
  <2> QED
    BY <2>2, <2>3 DEF LinkIsReal, NegotiationUnderWay
<1>9. \/ UNCHANGED <<phy, linkDown, timer, saved>>
      \/ AutonegTimer \/ NetEnable \/ NetDisable \/ MachineReset \/ Save \/ Load
      \/ GuestPhy
  BY Zenon DEF Next, Host, Guest, Isr, vars, Arrive, GuestInit, GuestKick, GuestStop,
         GuestReset, GuestBit1, GuestMask, GuestGive, IsrRead, IsrAck, IsrTake, IsrDone
<1> QED
  BY <1>1, <1>2, <1>3, <1>4, <1>5, <1>6, <1>7, <1>8, <1>9

(* The invariant of the link. *)
THEOREM LinkInvariant == Safety => []LinkInv
BY InitLink, StepLink, PTL DEF Safety

(* The guest is shown a link only when the net client has one              *)
(* (autoneg_timer, nvnet_set_link_status, nvnet_reset, nvnet_post_load).   *)
THEOREM LinkShownIsReal == Safety => []LinkIsReal
<1>1. LinkInv => LinkIsReal
  BY DEF LinkInv
<1> QED
  BY <1>1, LinkInvariant, PTL

(* A link that is there and not shown is being negotiated.                 *)
THEOREM NegotiationIsKept == Safety => []NegotiationUnderWay
<1>1. LinkInv => NegotiationUnderWay
  BY DEF LinkInv
<1> QED
  BY <1>1, LinkInvariant, PTL

-----------------------------------------------------------------------------
(* Receiving, and the interrupts. *)

(* The registers, the frames, the receive ring and the driver. *)
CtlType == [start : BOOLEAN, stop : BOOLEAN]
IrqType == [status : SUBSET Causes, mask : SUBSET Causes, line : BOOLEAN]
Frame == [id : Nat \ {0}, kind : Kinds]
RxType == [desc : [RxSlots -> [avail : BOOLEAN, frame : Nat]], next : Nat]
GuestType == [pc : {"run", "ack", "rx"}, seen : SUBSET Causes, up : BOOLEAN,
              head : TxSlots, tail : RxSlots, given : Nat, got : SUBSET Nat]

(* The line is up while a cause the mask lets through is pending
   (update_irq). *)
Told(q) == q \in IrqType /\ (q.status \cap q.mask # {} => q.line)

(* The frames of a queue and of a receive ring, and that each is there once. *)
Ids(q) == {q[i].id : i \in 1..Len(q)}
Distinct(q) == \A i, j \in 1..Len(q) : i # j => q[i].id # q[j].id
RingIds(d) == {d[s].frame : s \in RxSlots} \ {None}
Single(d) == \A s, t \in RxSlots : s # t /\ d[s].frame # None => d[s].frame # d[t].frame

(* The frames that wait for the controller: each once, and newer ones come
   with the numbers that are left. *)
Waiting ==
  /\ queue \in Seq(Frame) /\ held \in Seq(Frame)
  /\ Distinct(queue) /\ Distinct(held) /\ Ids(queue) \cap Ids(held) = {}
  /\ \A n \in Ids(queue) \cup Ids(held) : n > left

(* A receive ring and what the guest has got from it: each frame is in one
   place, and none of them waits. *)
Lie(x, got) ==
  /\ x \in RxType /\ Single(x.desc)
  /\ RingIds(x.desc) \cap got = {}
  /\ \A n \in RingIds(x.desc) \cup got : n > left
  /\ (Ids(queue) \cup Ids(held)) \cap (RingIds(x.desc) \cup got) = {}

(* The registers and the driver are what they can be, and the line is up. *)
Plain ==
  /\ ctl \in CtlType /\ left \in Nat /\ guest \in GuestType /\ Told(irq)

(* The invariant of receiving and of the interrupts, for the controller and
   for the snapshot. *)
RxInv ==
  /\ Plain /\ Waiting /\ Lie(rx, guest.got)
  /\ \A z \in saved : /\ z.ctl \in CtlType /\ z.guest \in GuestType
                      /\ Told(z.irq) /\ Lie(z.rx, z.guest.got)

(* What nvnet_receive_iov and the queues work on. *)
ReceiverType == [rx : RxType, irq : IrqType, held : Seq(Frame),
                 open : BOOLEAN, down : BOOLEAN]

(* A receiver whose ring and queue hold each frame once, the queue frames of H
   and the ring frames of P. *)
Apart(r, P, H) ==
  /\ r \in ReceiverType /\ Told(r.irq)
  /\ Single(r.rx.desc) /\ RingIds(r.rx.desc) \subseteq P
  /\ Distinct(r.held) /\ Ids(r.held) \subseteq H /\ H \subseteq P
  /\ Ids(r.held) \cap RingIds(r.rx.desc) = {}

(* update_irq makes the line follow the causes. *)
LEMMA RaiseTold ==
  ASSUME NEW q, Told(q), NEW causes \in SUBSET Causes
  PROVE  Told(Raise(q, causes))
<1> DEFINE p == [q EXCEPT !.status = @ \cup causes]
<1>1. q \in IrqType
  BY DEF Told
<1>2. p \in IrqType
  BY <1>1 DEF IrqType
<1> HIDE DEF p
<1>3. Update(p) \in IrqType /\ Update(p).status = p.status /\ Update(p).mask = p.mask
      /\ Update(p).line = (p.status \cap p.mask # {})
  BY <1>2, Zenon DEF Update, IrqType
<1> QED
  BY <1>3, Zenon DEF Raise, Told, p

(* So it does when causes are acknowledged. *)
LEMMA AcknowledgeTold ==
  ASSUME NEW q, Told(q), NEW causes
  PROVE  Told(Acknowledge(q, causes))
<1> DEFINE p == [q EXCEPT !.status = @ \ causes]
<1>1. q \in IrqType
  BY DEF Told
<1>2. p \in IrqType
  BY <1>1 DEF IrqType
<1> HIDE DEF p
<1>3. Update(p) \in IrqType /\ Update(p).status = p.status /\ Update(p).mask = p.mask
      /\ Update(p).line = (p.status \cap p.mask # {})
  BY <1>2, Zenon DEF Update, IrqType
<1> QED
  BY <1>3, Zenon DEF Acknowledge, Told, p

(* So it does when the mask is set. *)
LEMMA SetMaskTold ==
  ASSUME NEW q, Told(q), NEW mask \in SUBSET Causes
  PROVE  Told(SetMask(q, mask))
<1> DEFINE p == [q EXCEPT !.mask = mask]
<1>1. q \in IrqType
  BY DEF Told
<1>2. p \in IrqType
  BY <1>1 DEF IrqType
<1> HIDE DEF p
<1>3. Update(p) \in IrqType /\ Update(p).status = p.status /\ Update(p).mask = p.mask
      /\ Update(p).line = (p.status \cap p.mask # {})
  BY <1>2, Zenon DEF Update, IrqType
<1> QED
  BY <1>3, Zenon DEF SetMask, Told, p

(* The descriptor in use is one of the ring, and so is the next. *)
LEMMA InSlots ==
  ASSUME NEW next \in Nat, NEW size \in Nat \ {0}
  PROVE  /\ Current(next, size) \in Base..(Base + size - 1)
         /\ next \in Base..(Base + size - 1) => Advance(next, size) \in Base..(Base + size - 1)
BY DEF Current, Advance, Base

(* What nvnet_receive_iov does with a frame: it is dropped, or is put into one
   descriptor. *)
LEMMA ReceiveFields ==
  ASSUME NEW r \in ReceiverType, Told(r.irq), NEW frame \in Frame
  PROVE  LET z == Receive(r, frame) IN
         /\ z \in ReceiverType /\ Told(z.irq)
         /\ z.held = r.held /\ z.open = r.open /\ z.down = r.down
         /\ \/ z.rx.desc = r.rx.desc
            \/ \E c \in RxSlots :
                 /\ z.rx.desc[c].frame = frame.id
                 /\ \A s \in RxSlots \ {c} : z.rx.desc[s] = r.rx.desc[s]
<1> DEFINE z == Receive(r, frame)
<1> DEFINE c == Current(r.rx.next, RxRing)
<1> DEFINE d == [r.rx.desc EXCEPT ![c] = [avail |-> FALSE, frame |-> frame.id]]
<1>1. CASE r.down \/ ~Accepts(frame) \/ ~CanReceive(r)
  <2>1. z = r
    BY <1>1 DEF Receive
  <2> QED
    BY <2>1
<1>2. CASE ~(r.down \/ ~Accepts(frame) \/ ~CanReceive(r))
  <2>1. z = [r EXCEPT !.rx = [desc |-> d, next |-> Advance(c, RxRing)],
                      !.irq = Raise(@, {"rx"})]
    BY <1>2, Zenon DEF Receive
  <2>2. r.rx \in RxType /\ r.rx.next \in Nat
        /\ r.rx.desc \in [RxSlots -> [avail : BOOLEAN, frame : Nat]]
    BY DEF ReceiverType, RxType
  <2>3. RxRing \in Nat \ {0} /\ RxSlots = Base..(Base + RxRing - 1)
    BY RingAssumption DEF RxSlots
  <2>4. c \in RxSlots /\ Advance(c, RxRing) \in RxSlots
    <3>1. c \in RxSlots
      BY <2>2, <2>3, InSlots, Zenon
    <3>2. c \in Nat
      BY <2>3, <3>1 DEF Base
    <3> QED
      BY <2>3, <3>1, <3>2, InSlots
  <2>5. Advance(c, RxRing) \in Nat
    BY <2>3, <2>4 DEF Base
  <2> HIDE DEF c
  <2>6. d \in [RxSlots -> [avail : BOOLEAN, frame : Nat]]
    BY <2>2, <2>4 DEF Frame
  <2>7. d[c].frame = frame.id /\ \A s \in RxSlots \ {c} : d[s] = r.rx.desc[s]
    BY <2>2, <2>4
  <2> HIDE DEF d, z
  <2>8. Told(Raise(r.irq, {"rx"}))
    BY RaiseTold DEF Causes
  <2>9. /\ z.rx = [desc |-> d, next |-> Advance(c, RxRing)] /\ z.irq = Raise(r.irq, {"rx"})
        /\ z.held = r.held /\ z.open = r.open /\ z.down = r.down
    BY <2>1 DEF ReceiverType
  <2>10. z.rx \in RxType /\ z.rx.desc = d
    BY <2>5, <2>6, <2>9 DEF RxType
  <2>11. z.irq \in IrqType
    BY <2>8, <2>9 DEF Told
  <2>12. z \in ReceiverType
    BY <2>1, <2>9, <2>10, <2>11, Zenon DEF ReceiverType
  <2> QED
    BY <2>4, <2>7, <2>8, <2>9, <2>10, <2>12 DEF z
<1> QED
  BY <1>1, <1>2

(* The receiver after each of the frames. *)
Receives(f, r, frames, n) ==
  f = [i \in 0..n |-> IF i = 0 THEN r ELSE Receive(f[i - 1], frames[i])]

(* There is such a receiver after each of the frames, by induction. *)
LEMMA ReceivesExists ==
  ASSUME NEW r, NEW frames, NEW n \in Nat
  PROVE  \E f : Receives(f, r, frames, n)
<1> DEFINE T == {m \in 0..n : \E f : Receives(f, r, frames, m)}
<1>1. 0 \in T
  <2>1. Receives([i \in 0..0 |-> r], r, frames, 0)
    BY DEF Receives
  <2>2. 0 \in 0..n
    OBVIOUS
  <2> QED
    BY <2>1, <2>2, Zenon
<1>2. ASSUME NEW m \in 0..(n - 1), m \in T PROVE m + 1 \in T
  <2>1. PICK f : Receives(f, r, frames, m)
    BY <1>2, Zenon
  <2> DEFINE g == [i \in 0..(m + 1) |-> IF i <= m THEN f[i] ELSE Receive(f[m], frames[m + 1])]
  <2>2. Receives(g, r, frames, m + 1)
    <3>1. ASSUME NEW i \in 0..(m + 1)
          PROVE  g[i] = IF i = 0 THEN r ELSE Receive(g[i - 1], frames[i])
      <4>1. CASE i <= m
        BY <2>1, <4>1 DEF Receives
      <4>2. CASE i = m + 1
        BY <4>2
      <4> QED
        BY <4>1, <4>2
    <3>2. g = [i \in 0..(m + 1) |-> g[i]]
      OBVIOUS
    <3> HIDE DEF g
    <3> QED
      BY <3>1, <3>2, Zenon DEF Receives
  <2>3. m + 1 \in 0..n
    OBVIOUS
  <2> QED
    BY <2>2, <2>3, Zenon
<1>3. n \in T
  <2> HIDE DEF T
  <2>1. n \in 0..n
    OBVIOUS
  <2> QED
    BY <1>1, <1>2, <2>1, Induction
<1> QED
  BY <1>3, Zenon

(* ReceiveAll, the loop of qemu_net_queue_flush, is the last of them. *)
LEMMA ReceiveAllSteps ==
  ASSUME NEW r, NEW frames, Len(frames) \in Nat
  PROVE  \E f : Receives(f, r, frames, Len(frames)) /\ ReceiveAll(r, frames) = f[Len(frames)]
<1>1. PICK g : Receives(g, r, frames, Len(frames))
  BY ReceivesExists, Zenon
<1> DEFINE f == CHOOSE f : Receives(f, r, frames, Len(frames))
<1>2. Receives(f, r, frames, Len(frames))
  BY <1>1, Zenon
<1>3. ReceiveAll(r, frames) = f[Len(frames)]
  BY Zenon DEF ReceiveAll, Receives
<1> QED
  BY <1>2, <1>3, Zenon

(* The same for the frames of the hub port. *)
Forwards(f, r, frames, n) ==
  f = [i \in 0..n |-> IF i = 0 THEN r ELSE Forward(f[i - 1], frames[i])]

(* There is one after each of these frames too. *)
LEMMA ForwardsExists ==
  ASSUME NEW r, NEW frames, NEW n \in Nat
  PROVE  \E f : Forwards(f, r, frames, n)
<1> DEFINE T == {m \in 0..n : \E f : Forwards(f, r, frames, m)}
<1>1. 0 \in T
  <2>1. Forwards([i \in 0..0 |-> r], r, frames, 0)
    BY DEF Forwards
  <2>2. 0 \in 0..n
    OBVIOUS
  <2> QED
    BY <2>1, <2>2, Zenon
<1>2. ASSUME NEW m \in 0..(n - 1), m \in T PROVE m + 1 \in T
  <2>1. PICK f : Forwards(f, r, frames, m)
    BY <1>2, Zenon
  <2> DEFINE g == [i \in 0..(m + 1) |-> IF i <= m THEN f[i] ELSE Forward(f[m], frames[m + 1])]
  <2>2. Forwards(g, r, frames, m + 1)
    <3>1. ASSUME NEW i \in 0..(m + 1)
          PROVE  g[i] = IF i = 0 THEN r ELSE Forward(g[i - 1], frames[i])
      <4>1. CASE i <= m
        BY <2>1, <4>1 DEF Forwards
      <4>2. CASE i = m + 1
        BY <4>2
      <4> QED
        BY <4>1, <4>2
    <3>2. g = [i \in 0..(m + 1) |-> g[i]]
      OBVIOUS
    <3> HIDE DEF g
    <3> QED
      BY <3>1, <3>2, Zenon DEF Forwards
  <2>3. m + 1 \in 0..n
    OBVIOUS
  <2> QED
    BY <2>2, <2>3, Zenon
<1>3. n \in T
  <2> HIDE DEF T
  <2>1. n \in 0..n
    OBVIOUS
  <2> QED
    BY <1>1, <1>2, <2>1, Induction
<1> QED
  BY <1>3, Zenon

(* ForwardAll is the last of them. *)
LEMMA ForwardAllSteps ==
  ASSUME NEW r, NEW frames, Len(frames) \in Nat
  PROVE  \E f : Forwards(f, r, frames, Len(frames)) /\ ForwardAll(r, frames) = f[Len(frames)]
<1>1. PICK g : Forwards(g, r, frames, Len(frames))
  BY ForwardsExists, Zenon
<1> DEFINE f == CHOOSE f : Forwards(f, r, frames, Len(frames))
<1>2. Forwards(f, r, frames, Len(frames))
  BY <1>1, Zenon
<1>3. ForwardAll(r, frames) = f[Len(frames)]
  BY Zenon DEF ForwardAll, Forwards
<1> QED
  BY <1>2, <1>3, Zenon

(* A frame that is nowhere yet goes to at most one place. *)
LEMMA ReceiveRing ==
  ASSUME NEW r \in ReceiverType, Told(r.irq), NEW frame \in Frame, Single(r.rx.desc),
         frame.id \notin RingIds(r.rx.desc)
  PROVE  LET z == Receive(r, frame) IN
         /\ z \in ReceiverType /\ Told(z.irq) /\ z.held = r.held
         /\ Single(z.rx.desc) /\ RingIds(z.rx.desc) \subseteq RingIds(r.rx.desc) \cup {frame.id}
<1>1. PICK z : z = Receive(r, frame)
  OBVIOUS
<1>2. /\ z \in ReceiverType /\ Told(z.irq) /\ z.held = r.held
      /\ \/ z.rx.desc = r.rx.desc
         \/ \E c \in RxSlots : /\ z.rx.desc[c].frame = frame.id
                               /\ \A s \in RxSlots \ {c} : z.rx.desc[s] = r.rx.desc[s]
  BY <1>1, ReceiveFields, Zenon
<1>3. CASE z.rx.desc = r.rx.desc
  BY <1>1, <1>2, <1>3, Zenon
<1>4. CASE \E c \in RxSlots : /\ z.rx.desc[c].frame = frame.id
                              /\ \A s \in RxSlots \ {c} : z.rx.desc[s] = r.rx.desc[s]
  <2>1. PICK c \in RxSlots : /\ z.rx.desc[c].frame = frame.id
                             /\ \A s \in RxSlots \ {c} : z.rx.desc[s] = r.rx.desc[s]
    BY <1>4, Zenon
  <2>2. PICK d, e : d = r.rx.desc /\ e = z.rx.desc
    OBVIOUS
  <2>3. e[c].frame = frame.id /\ \A s \in RxSlots \ {c} : e[s] = d[s]
    BY <2>1, <2>2
  <2>4. \A s \in RxSlots : d[s].frame # frame.id
    BY <2>2 DEF RingIds, Frame, None
  <2>5. Single(e)
    BY <2>2, <2>3, <2>4 DEF Single
  <2>6. RingIds(e) \subseteq RingIds(d) \cup {frame.id}
    BY <2>3 DEF RingIds
  <2> QED
    BY <1>1, <1>2, <2>2, <2>5, <2>6
<1> QED
  BY <1>2, <1>3, <1>4

(* nvnet_receive_iov keeps a receiver's frames apart. *)
LEMMA ReceiveApart ==
  ASSUME NEW P, NEW H, NEW r, Apart(r, P, H), NEW frame \in Frame, frame.id \notin P
  PROVE  LET z == Receive(r, frame) IN
         Apart(z, P \cup {frame.id}, H) /\ z.held = r.held
<1>1. PICK z : z = Receive(r, frame)
  OBVIOUS
<1>2. /\ r \in ReceiverType /\ Told(r.irq)
      /\ Single(r.rx.desc) /\ RingIds(r.rx.desc) \subseteq P
      /\ Distinct(r.held) /\ Ids(r.held) \subseteq H /\ H \subseteq P
      /\ Ids(r.held) \cap RingIds(r.rx.desc) = {}
  BY DEF Apart
<1>3. /\ z \in ReceiverType /\ Told(z.irq) /\ z.held = r.held
      /\ Single(z.rx.desc) /\ RingIds(z.rx.desc) \subseteq RingIds(r.rx.desc) \cup {frame.id}
  BY <1>1, <1>2, ReceiveRing, Zenon
<1>4. /\ RingIds(z.rx.desc) \subseteq P \cup {frame.id} /\ H \subseteq P \cup {frame.id}
      /\ Ids(z.held) \cap RingIds(z.rx.desc) = {}
  BY <1>2, <1>3
<1> QED
  BY <1>1, <1>2, <1>3, <1>4 DEF Apart

(* qemu_net_queue_flush: each frame of the queue goes to at most one place. *)
LEMMA FlushApart ==
  ASSUME NEW P, NEW H, NEW r, Apart(r, P, H)
  PROVE  Apart(FlushHeld(r), P, H) /\ FlushHeld(r).held = <<>>
<1>0. /\ r \in ReceiverType /\ Told(r.irq)
      /\ Single(r.rx.desc) /\ RingIds(r.rx.desc) \subseteq P
      /\ Distinct(r.held) /\ Ids(r.held) \subseteq H /\ H \subseteq P
      /\ Ids(r.held) \cap RingIds(r.rx.desc) = {}
  BY DEF Apart
<1>1. PICK q \in Seq(Frame), n \in Nat : q = r.held /\ n = Len(q)
  <2>1. r.held \in Seq(Frame)
    BY <1>0 DEF ReceiverType
  <2>2. Len(r.held) \in Nat
    BY <2>1
  <2> QED
    BY <2>1, <2>2, Zenon
<1>2. PICK f : Receives(f, r, q, n) /\ ReceiveAll(r, q) = f[n]
  BY <1>1, ReceiveAllSteps
<1>3. f[0] = r /\ \A i \in 1..n : f[i] = Receive(f[i - 1], q[i])
  BY <1>2 DEF Receives
<1> DEFINE Good(x, i) ==
      /\ x \in ReceiverType /\ Told(x.irq) /\ Single(x.rx.desc)
      /\ RingIds(x.rx.desc) \subseteq P
      /\ \A j \in (i + 1)..n : q[j].id \notin RingIds(x.rx.desc)
<1> DEFINE T == {i \in 0..n : Good(f[i], i)}
<1>4. 0 \in T
  <2>1. \A j \in 1..n : q[j].id \notin RingIds(r.rx.desc)
    BY <1>0, <1>1 DEF Ids
  <2> QED
    BY <1>0, <1>3, <2>1
<1>5. ASSUME NEW i \in 0..(n - 1), i \in T PROVE i + 1 \in T
  <2>1. Good(f[i], i) /\ i + 1 \in 1..n /\ (i + 1) - 1 = i
    BY <1>5
  <2> HIDE DEF T
  <2>2. PICK x, y : x = f[i] /\ y = f[i + 1] /\ y = Receive(x, q[i + 1])
    BY <1>3, <2>1
  <2>3. /\ x \in ReceiverType /\ Told(x.irq) /\ Single(x.rx.desc)
        /\ RingIds(x.rx.desc) \subseteq P
        /\ \A j \in (i + 1)..n : q[j].id \notin RingIds(x.rx.desc)
    BY <2>1, <2>2
  <2>4. q[i + 1] \in Frame /\ q[i + 1].id \notin RingIds(x.rx.desc)
    BY <1>1, <2>1, <2>3
  <2>5. /\ y \in ReceiverType /\ Told(y.irq)
        /\ Single(y.rx.desc)
        /\ RingIds(y.rx.desc) \subseteq RingIds(x.rx.desc) \cup {q[i + 1].id}
    BY <2>2, <2>3, <2>4, ReceiveRing, Zenon
  <2>6. q[i + 1].id \in P
    BY <1>0, <1>1, <2>1, Zenon DEF Ids
  <2>7. ASSUME NEW j \in ((i + 1) + 1)..n PROVE q[j].id \notin RingIds(y.rx.desc)
    <3>1. j \in (i + 1)..n /\ j \in 1..n /\ j # i + 1
      OBVIOUS
    <3>2. q[j].id # q[i + 1].id
      BY <1>0, <1>1, <2>1, <3>1 DEF Distinct
    <3> QED
      BY <2>3, <2>5, <3>1, <3>2
  <2>8. Good(y, i + 1)
    BY <2>3, <2>5, <2>6, <2>7
  <2>9. i + 1 \in 0..n
    OBVIOUS
  <2> HIDE DEF Good
  <2> QED
    BY <2>2, <2>8, <2>9, Zenon DEF T
<1>6. Good(f[n], n)
  <2>1. n \in 0..n
    OBVIOUS
  <2> HIDE DEF T
  <2>2. n \in T
    BY <1>4, <1>5, <2>1, Induction, Zenon
  <2> QED
    BY <2>2 DEF T
<1>7. PICK x : x = f[n]
  OBVIOUS
<1>8. /\ x \in ReceiverType /\ Told(x.irq) /\ Single(x.rx.desc)
      /\ RingIds(x.rx.desc) \subseteq P
  BY <1>6, <1>7
<1>9. PICK z : z = FlushHeld(r)
  OBVIOUS
<1>10. z = [x EXCEPT !.held = <<>>]
  BY <1>1, <1>2, <1>7, <1>9 DEF FlushHeld
<1>11. <<>> \in Seq(Frame) /\ Len(<<>>) = 0
  OBVIOUS
<1>12. /\ z \in ReceiverType /\ z.rx = x.rx /\ z.irq = x.irq /\ z.held = <<>>
  BY <1>8, <1>10, <1>11, Zenon DEF ReceiverType
<1>13. Distinct(<<>>) /\ Ids(<<>>) = {}
  BY DEF Distinct, Ids
<1> QED
  BY <1>0, <1>8, <1>9, <1>12, <1>13 DEF Apart

(* net_hub_receive hands a frame on, or puts it behind those that wait. *)
LEMMA ForwardApart ==
  ASSUME NEW P, NEW H, NEW r, Apart(r, P, H), NEW frame \in Frame, frame.id \notin P
  PROVE  Apart(Forward(r, frame), P \cup {frame.id}, H \cup {frame.id})
<1>0. /\ r \in ReceiverType /\ Told(r.irq)
      /\ Single(r.rx.desc) /\ RingIds(r.rx.desc) \subseteq P
      /\ Distinct(r.held) /\ Ids(r.held) \subseteq H /\ H \subseteq P
      /\ Ids(r.held) \cap RingIds(r.rx.desc) = {}
  BY DEF Apart
<1>1. CASE CanReceive(r)
  <2>1. PICK x, z : x = Receive(r, frame) /\ z = FlushHeld(x) /\ z = Forward(r, frame)
    BY <1>1 DEF Forward
  <2>2. Apart(x, P \cup {frame.id}, H)
    BY <2>1, ReceiveApart
  <2>3. Apart(z, P \cup {frame.id}, H) /\ z.held = <<>>
    BY <2>1, <2>2, FlushApart, Zenon
  <2>4. Ids(<<>>) = {} /\ H \cup {frame.id} \subseteq P \cup {frame.id}
    BY <1>0 DEF Ids
  <2> QED
    BY <2>1, <2>3, <2>4 DEF Apart
<1>2. CASE ~CanReceive(r)
  <2>1. PICK z : z = Forward(r, frame) /\ z = [r EXCEPT !.held = Append(@, frame)]
    BY <1>2, Zenon DEF Forward
  <2>2. PICK q \in Seq(Frame) : q = r.held
    BY <1>0 DEF ReceiverType
  <2>3. PICK p \in Seq(Frame) : p = Append(q, frame)
    <3>1. Append(q, frame) \in Seq(Frame)
      OBVIOUS
    <3> QED
      BY <3>1, Zenon
  <2>4. Len(q) \in Nat /\ Len(p) = Len(q) + 1 /\ p[Len(q) + 1] = frame
        /\ \A i \in 1..Len(q) : p[i] = q[i]
    BY <2>3
  <2>5. z \in ReceiverType /\ z.rx = r.rx /\ z.irq = r.irq /\ z.held = p
    BY <1>0, <2>1, <2>2, <2>3, Zenon DEF ReceiverType
  <2>6. Ids(p) = Ids(q) \cup {frame.id}
    <3>1. ASSUME NEW i \in 1..Len(p) PROVE p[i].id \in Ids(q) \cup {frame.id}
      <4>1. i \in 1..Len(q) \/ i = Len(q) + 1
        BY <2>4
      <4> QED
        BY <2>4, <4>1 DEF Ids
    <3>2. ASSUME NEW i \in 1..Len(q) PROVE q[i].id \in Ids(p)
      <4>1. i \in 1..Len(p) /\ p[i] = q[i]
        BY <2>4
      <4> QED
        BY <4>1 DEF Ids
    <3>3. Len(q) + 1 \in 1..Len(p)
      BY <2>4
    <3>4. frame.id \in Ids(p)
      BY <2>4, <3>3 DEF Ids
    <3> QED
      BY <3>1, <3>2, <3>4 DEF Ids
  <2>7. Distinct(p)
    <3>1. frame.id \notin Ids(q)
      BY <1>0, <2>2
    <3>2. ASSUME NEW i \in 1..Len(p), NEW j \in 1..Len(p), i # j PROVE p[i].id # p[j].id
      <4>1. \/ i \in 1..Len(q) /\ j \in 1..Len(q)
            \/ i \in 1..Len(q) /\ j = Len(q) + 1
            \/ i = Len(q) + 1 /\ j \in 1..Len(q)
        BY <2>4, <3>2
      <4>2. \A m \in 1..Len(q) : q[m].id # frame.id
        BY <3>1 DEF Ids
      <4>3. Distinct(q)
        BY <1>0, <2>2
      <4> QED
        BY <2>4, <3>2, <4>1, <4>2, <4>3, Zenon DEF Distinct
    <3> QED
      BY <3>2 DEF Distinct
  <2>8. /\ RingIds(z.rx.desc) \subseteq P \cup {frame.id}
        /\ Ids(p) \subseteq H \cup {frame.id} /\ H \cup {frame.id} \subseteq P \cup {frame.id}
        /\ Ids(p) \cap RingIds(z.rx.desc) = {}
    BY <1>0, <2>2, <2>5, <2>6
  <2> QED
    BY <1>0, <2>1, <2>5, <2>7, <2>8, Zenon DEF Apart
<1> QED
  BY <1>1, <1>2

(* qemu_net_queue_flush of the hub port's queue. *)
LEMMA ForwardAllApart ==
  ASSUME NEW P, NEW H, NEW r, Apart(r, P, H), NEW q \in Seq(Frame),
         Distinct(q), Ids(q) \cap P = {}
  PROVE  Apart(ForwardAll(r, q), P \cup Ids(q), H \cup Ids(q))
<1>1. PICK n \in Nat : n = Len(q)
  OBVIOUS
<1>2. PICK f : Forwards(f, r, q, n) /\ ForwardAll(r, q) = f[n]
  BY <1>1, ForwardAllSteps
<1>3. f[0] = r /\ \A i \in 1..n : f[i] = Forward(f[i - 1], q[i])
  BY <1>2 DEF Forwards
<1> DEFINE Gone(i) == {q[j].id : j \in 1..i}
<1> DEFINE T == {i \in 0..n : Apart(f[i], P \cup Gone(i), H \cup Gone(i))}
<1>4. 0 \in T
  <2>1. Gone(0) = {}
    OBVIOUS
  <2>2. 0 \in 0..n /\ P \cup {} = P /\ H \cup {} = H
    OBVIOUS
  <2> HIDE DEF Gone
  <2> QED
    BY <1>3, <2>1, <2>2, Zenon
<1>5. ASSUME NEW i \in 0..(n - 1), i \in T PROVE i + 1 \in T
  <2>1. i + 1 \in 1..n /\ (i + 1) - 1 = i /\ i + 1 \in 0..n
    OBVIOUS
  <2>2. PICK b \in Frame : b = q[i + 1]
    BY <1>1, <2>1
  <2>3. Gone(i + 1) = Gone(i) \cup {b.id}
    <3>1. \A j \in 1..(i + 1) : j \in 1..i \/ j = i + 1
      OBVIOUS
    <3>2. \A j \in 1..i : j \in 1..(i + 1)
      OBVIOUS
    <3>3. i + 1 \in 1..(i + 1)
      OBVIOUS
    <3> QED
      BY <2>2, <3>1, <3>2, <3>3
  <2>4. b.id \notin P \cup Gone(i)
    <3>1. b.id \in Ids(q)
      BY <1>1, <2>1, <2>2 DEF Ids
    <3>2. ASSUME NEW j \in 1..i PROVE q[j].id # b.id
      <4>1. j \in 1..n /\ j # i + 1
        OBVIOUS
      <4> QED
        BY <1>1, <2>1, <2>2, <4>1 DEF Distinct
    <3> QED
      BY <3>1, <3>2
  <2>5. Apart(f[i], P \cup Gone(i), H \cup Gone(i))
    BY <1>5, Zenon
  <2>6. f[i + 1] = Forward(f[i], b)
    BY <1>3, <2>1, <2>2
  <2> HIDE DEF Gone, T
  <2>7. Apart(f[i + 1], (P \cup Gone(i)) \cup {b.id}, (H \cup Gone(i)) \cup {b.id})
    BY <2>4, <2>5, <2>6, ForwardApart
  <2>8. (P \cup Gone(i)) \cup {b.id} = P \cup Gone(i + 1)
        /\ (H \cup Gone(i)) \cup {b.id} = H \cup Gone(i + 1)
    BY <2>3
  <2> QED
    BY <2>1, <2>7, <2>8, Zenon DEF T
<1>6. Apart(f[n], P \cup Gone(n), H \cup Gone(n))
  <2>1. n \in 0..n
    OBVIOUS
  <2> HIDE DEF T
  <2>2. n \in T
    BY <1>4, <1>5, <2>1, Induction, Zenon
  <2> QED
    BY <2>2, Zenon DEF T
<1>7. Gone(n) = Ids(q)
  BY <1>1 DEF Ids
<1> QED
  BY <1>2, <1>6, <1>7, Zenon

(* After nvnet_reset there are no frames and no causes. *)
LEMMA InitRx == Init => RxInv
<1> SUFFICES ASSUME Init PROVE RxInv
  OBVIOUS
<1>0. /\ rx = [desc |-> [s \in RxSlots |-> FreeRx], next |-> 0]
      /\ ctl = [start |-> FALSE, stop |-> FALSE]
      /\ irq = [status |-> {}, mask |-> {}, line |-> FALSE]
      /\ queue = <<>> /\ held = <<>> /\ saved = {} /\ left = MaxEvents
      /\ guest = [pc |-> "run", seen |-> {}, up |-> FALSE, head |-> Base, tail |-> Base,
                  given |-> 0, got |-> {}]
  BY DEF Init
<1>1. Base \in TxSlots /\ Base \in RxSlots
  BY RingAssumption DEF TxSlots, RxSlots, Base
<1>2. Plain
  <2>1. guest \in GuestType
    BY <1>0, <1>1 DEF GuestType
  <2>2. Told(irq)
    BY <1>0 DEF Told, IrqType
  <2>3. ctl \in CtlType
    BY <1>0 DEF CtlType
  <2>4. left \in Nat
    BY <1>0, EventsAssumption
  <2> QED
    BY <2>1, <2>2, <2>3, <2>4 DEF Plain
<1>3. <<>> \in Seq(Frame) /\ Len(<<>>) = 0
  OBVIOUS
<1>4. Ids(<<>>) = {} /\ Distinct(<<>>)
  BY DEF Ids, Distinct
<1>5. Waiting
  BY <1>0, <1>3, <1>4 DEF Waiting
<1>6. Lie(rx, guest.got)
  <2>1. rx.desc \in [RxSlots -> [avail : BOOLEAN, frame : Nat]]
        /\ \A s \in RxSlots : rx.desc[s].frame = None
    BY <1>0 DEF FreeRx, None
  <2>2. rx \in RxType
    BY <1>0, <2>1 DEF RxType
  <2>3. guest.got = {}
    BY <1>0
  <2>4. Single(rx.desc) /\ RingIds(rx.desc) = {}
    BY <2>1 DEF Single, RingIds
  <2> QED
    BY <2>2, <2>3, <2>4 DEF Lie
<1> QED
  BY <1>0, <1>2, <1>5, <1>6 DEF RxInv

(* Frames that lie somewhere stay apart from those that wait, new ones
   included. *)
LEMMA LieStays ==
  ASSUME NEW x, NEW got, Lie(x, got), left \in Nat, left' \in Nat, left' <= left,
         got \subseteq Nat,
         Ids(queue') \cup Ids(held') \subseteq Ids(queue) \cup Ids(held) \cup {left}
  PROVE  Lie(x, got)'
<1>1. /\ x \in RxType /\ Single(x.desc)
      /\ RingIds(x.desc) \cap got = {}
      /\ \A n \in RingIds(x.desc) \cup got : n > left
      /\ (Ids(queue) \cup Ids(held)) \cap (RingIds(x.desc) \cup got) = {}
  BY DEF Lie
<1>2. left \notin RingIds(x.desc) \cup got
  BY <1>1
<1>3. (Ids(queue') \cup Ids(held')) \cap (RingIds(x.desc) \cup got) = {}
  BY <1>1, <1>2
<1>4. \A n \in RingIds(x.desc) \cup got : n \in Nat
  <2>1. x.desc \in [RxSlots -> [avail : BOOLEAN, frame : Nat]]
    BY <1>1 DEF RxType
  <2> QED
    BY <2>1, Zenon DEF RingIds
<1>5. \A n \in RingIds(x.desc) \cup got : n > left'
  BY <1>1, <1>4
<1> QED
  BY <1>1, <1>3, <1>5 DEF Lie

(* Frames that wait go on waiting, or some of them. *)
LEMMA WaitingStays ==
  ASSUME Waiting, left \in Nat, left' \in Nat, left' <= left,
         UNCHANGED held, queue' = queue \/ queue' = <<>>
  PROVE  Waiting' /\ Ids(queue') \cup Ids(held') \subseteq Ids(queue) \cup Ids(held) \cup {left}
<1>0. Ids(<<>>) = {} /\ Distinct(<<>>) /\ <<>> \in Seq(Frame)
  BY DEF Ids, Distinct
<1>1. /\ queue \in Seq(Frame) /\ held \in Seq(Frame)
      /\ Distinct(queue) /\ Distinct(held) /\ Ids(queue) \cap Ids(held) = {}
      /\ \A n \in Ids(queue) \cup Ids(held) : n > left
  BY DEF Waiting
<1>2. /\ queue' \in Seq(Frame) /\ Distinct(queue') /\ Ids(queue') \subseteq Ids(queue)
  BY <1>0, <1>1, Zenon
<1>3. \A n \in Ids(queue) \cup Ids(held) : n \in Nat
  <2>1. \A q \in Seq(Frame) : \A i \in 1..Len(q) : q[i] \in Frame
    OBVIOUS
  <2>2. \A b \in Frame : b.id \in Nat
    BY DEF Frame
  <2> QED
    BY <1>1, <2>1, <2>2 DEF Ids
<1>4. \A n \in Ids(queue) \cup Ids(held) : n > left'
  BY <1>1, <1>3
<1> QED
  BY <1>1, <1>2, <1>4 DEF Waiting

(* What a step that moves no frame keeps. *)
LEMMA QuietRx ==
  ASSUME RxInv, Plain', left' <= left, UNCHANGED <<held, saved>>,
         queue' = queue \/ queue' = <<>>,
         rx' \in RxType, rx'.desc = rx.desc, guest'.got = guest.got
  PROVE  RxInv'
<1>1. Plain /\ Waiting /\ Lie(rx, guest.got) /\ left \in Nat /\ left' \in Nat
  BY DEF RxInv, Plain
<1>2. Waiting' /\ Ids(queue') \cup Ids(held') \subseteq Ids(queue) \cup Ids(held) \cup {left}
  BY <1>1, WaitingStays
<1>3. ASSUME NEW x, NEW got, Lie(x, got), got \subseteq Nat PROVE Lie(x, got)'
  BY <1>1, <1>2, <1>3, LieStays, Zenon
<1>4. Lie(rx, guest.got)'
  <2>1. PICK x, got : x = rx /\ got = guest.got
    OBVIOUS
  <2>2. got \subseteq Nat
    BY <1>1, <2>1 DEF Plain, GuestType
  <2>3. Lie(x, got)'
    BY <1>1, <1>3, <2>1, <2>2
  <2>4. rx'.desc = x.desc /\ guest'.got = got
    BY <2>1
  <2> QED
    BY <2>3, <2>4 DEF Lie
<1>5. ASSUME NEW z \in saved
      PROVE  z.ctl \in CtlType /\ z.guest \in GuestType /\ Told(z.irq) /\ Lie(z.rx, z.guest.got)'
  <2>1. z.ctl \in CtlType /\ z.guest \in GuestType /\ Told(z.irq) /\ Lie(z.rx, z.guest.got)
    BY DEF RxInv
  <2>2. z.guest.got \subseteq Nat
    BY <2>1 DEF GuestType
  <2> QED
    BY <1>3, <2>1, <2>2
<1> QED
  BY <1>2, <1>4, <1>5 DEF RxInv

(* set_link_up and set_link_down raise the interrupt with update_irq. *)
LEMMA StatusTold ==
  ASSUME NEW k, Told(k.irq), k = [phy |-> k.phy, irq |-> k.irq, timer |-> k.timer],
         NEW down \in BOOLEAN
  PROVE  Told(LinkStatus(k, down).irq)
<1>1. Told(Raise(k.irq, {"mii"}))
  BY RaiseTold DEF Causes
<1>2. /\ SetLinkDown(k).irq = Raise(k.irq, {"mii"})
      /\ SetLinkUp(k).irq = Raise(k.irq, {"mii"})
      /\ [k EXCEPT !.timer = TRUE].irq = k.irq
  BY DEF SetLinkDown, SetLinkUp
<1> QED
  BY <1>1, <1>2, Zenon DEF LinkStatus

(* A write to TX_RX_CONTROL: a packet that is sent raises the interrupt, BIT1
   clears the causes, and the receive ring's descriptors are left alone. *)
LEMMA ControlRx ==
  ASSUME NEW val, TxRxControl(val), Told(irq), ctl \in CtlType, rx \in RxType
  PROVE  Told(irq') /\ ctl' \in CtlType /\ rx' \in RxType /\ rx'.desc = rx.desc
<1> DEFINE t == [tx |-> tx, irq |-> irq, owed |-> owed]
<1> DEFINE u == IF "kick" \in val /\ CanTransmit("bit2" \in val) THEN FromGuest(t) ELSE t
<1>1. /\ ctl' = [ctl EXCEPT !.stop = "bit2" \in val]
      /\ rx' = IF "reset" \in val THEN [rx EXCEPT !.next = Base] ELSE rx
      /\ irq' = IF "bit1" \in val THEN [u.irq EXCEPT !.status = {}] ELSE u.irq
  BY Zenon DEF TxRxControl
<1>2. FromGuest(t).irq = Raise(irq, {"tx"}) \/ FromGuest(t).irq = irq
  BY DEF FromGuest
<1>3. Told(Raise(irq, {"tx"}))
  BY RaiseTold DEF Causes
<1>4. Told(u.irq)
  <2>1. t.irq = irq
    OBVIOUS
  <2> HIDE DEF t
  <2> QED
    BY <1>2, <1>3, <2>1, Zenon
<1> HIDE DEF u
<1>5. Told(irq')
  <2>1. PICK q : q = u.irq
    OBVIOUS
  <2>2. q \in IrqType /\ Told(q)
    BY <1>4, <2>1 DEF Told
  <2>3. Told([q EXCEPT !.status = {}])
    BY <2>2 DEF Told, IrqType
  <2> QED
    BY <1>1, <2>1, <2>2, <2>3, Zenon
<1>6. ctl' \in CtlType
  <2>1. ("bit2" \in val) \in BOOLEAN
    OBVIOUS
  <2>2. ASSUME NEW b \in BOOLEAN PROVE [ctl EXCEPT !.stop = b] \in CtlType
    BY DEF CtlType
  <2> QED
    BY <1>1, <2>1, <2>2, Zenon
<1>7. rx' \in RxType /\ rx'.desc = rx.desc
  BY <1>1 DEF RxType, Base
<1> QED
  BY <1>5, <1>6, <1>7

(* The steps that move no frame. *)
LEMMA QuietStepsRx ==
  ASSUME RxInv,
         \/ AutonegTimer \/ NetEnable \/ NetDisable \/ MachineReset
         \/ GuestKick \/ GuestStop \/ GuestReset \/ GuestBit1 \/ GuestMask \/ GuestPhy
         \/ \E last \in BOOLEAN : GuestGive(last)
         \/ IsrRead \/ IsrAck \/ IsrDone
  PROVE  RxInv'
<1>0. /\ ctl \in CtlType /\ left \in Nat /\ guest \in GuestType /\ Told(irq)
      /\ rx \in RxType /\ irq \in IrqType
  BY DEF RxInv, Plain, Lie, Told
<1>1. ASSUME ctl' \in CtlType, guest' \in GuestType, Told(irq'), guest'.got = guest.got,
             rx' \in RxType, rx'.desc = rx.desc,
             UNCHANGED <<held, saved>>, queue' = queue \/ queue' = <<>>,
             left' = left \/ Event
      PROVE  RxInv'
  <2>1. left' \in Nat /\ left' <= left
    BY <1>0, <1>1 DEF Event
  <2>2. Plain'
    BY <1>1, <2>1 DEF Plain
  <2> QED
    BY <1>1, <2>1, <2>2, QuietRx
<1>2. CASE AutonegTimer
  <2>1. SetLinkUp(Link).irq = Raise(irq, {"mii"})
    BY DEF SetLinkUp, Link
  <2>2. Told(Raise(irq, {"mii"}))
    BY <1>0, RaiseTold DEF Causes
  <2>3. irq' = irq \/ irq' = SetLinkUp(Link).irq
    BY <1>2, Zenon DEF AutonegTimer
  <2>4. Told(irq')
    BY <1>0, <2>1, <2>2, <2>3, Zenon
  <2>5. UNCHANGED <<rx, ctl, queue, held, guest, saved, left>>
    BY <1>2, Zenon DEF AutonegTimer
  <2> QED
    BY <1>0, <1>1, <2>4, <2>5
<1>3. Told(Link.irq) /\ Link = [phy |-> Link.phy, irq |-> Link.irq, timer |-> Link.timer]
  BY <1>0 DEF Link
<1>4. CASE NetEnable
  <2>1. PICK works \in BOOLEAN :
          irq' = LinkStatus(IF works THEN Link ELSE LinkStatus(Link, TRUE), FALSE).irq
    BY <1>4, Zenon DEF NetEnable
  <2>2. Told(LinkStatus(Link, TRUE).irq)
    BY <1>3, StatusTold, Zenon
  <2>3. LinkStatus(Link, TRUE) = [phy |-> LinkStatus(Link, TRUE).phy,
                                  irq |-> LinkStatus(Link, TRUE).irq,
                                  timer |-> LinkStatus(Link, TRUE).timer]
    BY Zenon DEF LinkStatus, SetLinkDown, Link
  <2>4. Told(irq')
    <3>1. CASE works
      BY <1>3, <2>1, <3>1, StatusTold, Zenon
    <3>2. CASE ~works
      BY <2>1, <2>2, <2>3, <3>2, StatusTold, Zenon
    <3> QED
      BY <3>1, <3>2
  <2>5. UNCHANGED <<rx, ctl, queue, held, guest, saved>> /\ Event
    BY <1>4, Zenon DEF NetEnable
  <2> QED
    BY <1>0, <1>1, <2>4, <2>5
<1>5. CASE NetDisable
  <2>1. irq' = LinkStatus(Link, TRUE).irq
    BY <1>5, Zenon DEF NetDisable
  <2>2. Told(irq')
    BY <1>3, <2>1, StatusTold, Zenon
  <2>3. UNCHANGED <<rx, ctl, held, guest, saved>> /\ Event /\ queue' = <<>>
    BY <1>5, Zenon DEF NetDisable
  <2> QED
    BY <1>0, <1>1, <2>2, <2>3
<1>6. CASE MachineReset
  <2>1. /\ rx' = [rx EXCEPT !.next = 0] /\ ctl' = [start |-> FALSE, stop |-> FALSE]
        /\ irq' = [status |-> {}, mask |-> {}, line |-> FALSE]
        /\ guest' = [guest EXCEPT !.pc = "run", !.seen = {}, !.up = FALSE]
        /\ UNCHANGED <<queue, held, saved>> /\ Event
    BY <1>6, Zenon DEF MachineReset
  <2>2. ctl' \in CtlType /\ Told(irq')
    BY <2>1 DEF CtlType, Told, IrqType
  <2>3. rx' \in RxType /\ rx'.desc = rx.desc
    BY <1>0, <2>1 DEF RxType
  <2>4. guest' \in GuestType /\ guest'.got = guest.got
    BY <1>0, <2>1, Zenon DEF GuestType
  <2> QED
    BY <1>1, <2>1, <2>2, <2>3, <2>4
<1>7. CASE GuestKick \/ GuestReset \/ GuestBit1
  <2>1. \E val : TxRxControl(val)
    BY <1>7, Zenon DEF GuestKick, GuestReset, GuestBit1
  <2>2. Told(irq') /\ ctl' \in CtlType /\ rx' \in RxType /\ rx'.desc = rx.desc
    BY <1>0, <2>1, ControlRx, Zenon
  <2>3. UNCHANGED <<queue, held, saved, left>>
        /\ (guest' = guest \/ guest' = [guest EXCEPT !.up = FALSE])
    BY <1>7, Zenon DEF GuestKick, GuestReset, GuestBit1
  <2>4. guest' \in GuestType /\ guest'.got = guest.got
    BY <1>0, <2>3, Zenon DEF GuestType
  <2> QED
    BY <1>1, <2>2, <2>3, <2>4
<1>8. CASE GuestStop \/ GuestPhy
  <2>1. UNCHANGED <<rx, irq, queue, held, guest, saved>> /\ Event
        /\ (ctl' = ctl \/ ctl' = [ctl EXCEPT !.start = FALSE])
    BY <1>8, Zenon DEF GuestStop, GuestPhy
  <2>2. ctl' \in CtlType
    BY <1>0, <2>1, Zenon DEF CtlType
  <2> QED
    BY <1>0, <1>1, <2>1, <2>2
<1>9. CASE GuestMask
  <2>1. UNCHANGED <<rx, ctl, queue, held, guest, saved>> /\ Event
        /\ \E mask \in {{}, Causes} : irq' = SetMask(irq, mask)
    BY <1>9, Zenon DEF GuestMask
  <2>2. Told(irq')
    <3>1. PICK mask \in {{}, Causes} : irq' = SetMask(irq, mask)
      BY <2>1
    <3>2. mask \in SUBSET Causes
      OBVIOUS
    <3> QED
      BY <1>0, <3>1, <3>2, SetMaskTold
  <2> QED
    BY <1>0, <1>1, <2>1, <2>2
<1>10. CASE \E last \in BOOLEAN : GuestGive(last)
  <2>1. UNCHANGED <<rx, ctl, irq, queue, held, saved>> /\ Event
        /\ guest' = [guest EXCEPT !.given = @ + 1, !.head = Advance(@, TxRing)]
    BY <1>10, Zenon DEF GuestGive
  <2>2. guest.head \in TxSlots /\ guest.given \in Nat
    BY <1>0 DEF GuestType
  <2>3. Advance(guest.head, TxRing) \in TxSlots
    <3>1. guest.head \in Nat /\ TxRing \in Nat \ {0}
      BY <2>2, RingAssumption DEF TxSlots, Base
    <3> QED
      BY <2>2, <3>1, InSlots DEF TxSlots
  <2>4. guest' \in GuestType /\ guest'.got = guest.got
    <3>1. PICK m \in Nat, h \in TxSlots :
            m = guest.given + 1 /\ h = Advance(guest.head, TxRing)
      BY <2>2, <2>3
    <3>2. guest' = [guest EXCEPT !.given = m, !.head = h]
      BY <2>1, <3>1
    <3> QED
      BY <1>0, <3>2, Zenon DEF GuestType
  <2> QED
    BY <1>0, <1>1, <2>1, <2>4
<1>11. CASE IsrRead \/ IsrAck \/ IsrDone
  <2>1. UNCHANGED <<rx, ctl, queue, held, saved, left>>
        /\ (irq' = irq \/ irq' = Acknowledge(irq, guest.seen))
    BY <1>11, Zenon DEF IsrRead, IsrAck, IsrDone
  <2>2. Told(irq')
    BY <1>0, <2>1, AcknowledgeTold, Zenon
  <2>3. \/ guest' = [guest EXCEPT !.pc = "ack", !.seen = irq.status]
        \/ guest' = [guest EXCEPT !.pc = "rx", !.seen = {}]
        \/ guest' = [guest EXCEPT !.pc = "run"]
    BY <1>11, Zenon DEF IsrRead, IsrAck, IsrDone
  <2>4. guest' \in GuestType /\ guest'.got = guest.got
    <3>1. irq.status \in SUBSET Causes
      BY <1>0 DEF IrqType
    <3> QED
      BY <1>0, <2>3, <3>1, Zenon DEF GuestType
  <2> QED
    BY <1>0, <1>1, <2>1, <2>2, <2>4
<1> QED
  BY <1>2, <1>4, <1>5, <1>6, <1>7, <1>8, <1>9, <1>10, <1>11

(* The receiver of the controller, and what waits for it. *)
LEMMA ReceiverApart ==
  ASSUME RxInv, phy \in PhyType, linkDown \in BOOLEAN
  PROVE  Apart(Receiver, RingIds(rx.desc) \cup Ids(held), Ids(held))
<1>0. /\ Told(irq) /\ ctl \in CtlType /\ irq \in IrqType
      /\ held \in Seq(Frame) /\ Distinct(held)
      /\ rx \in RxType /\ Single(rx.desc) /\ Ids(held) \cap RingIds(rx.desc) = {}
  <2>1. Plain /\ Waiting /\ Lie(rx, guest.got)
    BY DEF RxInv
  <2> QED
    BY <2>1 DEF Plain, Waiting, Lie, Told
<1>1. (ctl.start /\ ~ctl.stop /\ phy.link) \in BOOLEAN
  OBVIOUS
<1>2. /\ Receiver.rx = rx /\ Receiver.irq = irq /\ Receiver.held = held
      /\ Receiver \in ReceiverType
  <2>1. ASSUME NEW o \in BOOLEAN
        PROVE  [rx |-> rx, irq |-> irq, held |-> held, open |-> o, down |-> linkDown]
                 \in ReceiverType
    BY <1>0 DEF ReceiverType
  <2>2. Receiver \in ReceiverType
    BY <1>1, <2>1, Zenon DEF Receiver
  <2>3. Receiver.rx = rx /\ Receiver.irq = irq /\ Receiver.held = held
    BY DEF Receiver
  <2> QED
    BY <2>2, <2>3
<1> HIDE DEF Receiver
<1> QED
  BY <1>0, <1>2, Zenon DEF Apart

(* The numbers of frames. *)
LEMMA Numbers ==
  ASSUME NEW q \in Seq(Frame), NEW x \in RxType
  PROVE  Ids(q) \subseteq Nat /\ RingIds(x.desc) \subseteq Nat
<1>1. \A i \in 1..Len(q) : q[i] \in Frame
  OBVIOUS
<1>2. \A b \in Frame : b.id \in Nat
  BY DEF Frame
<1>3. Ids(q) \subseteq Nat
  BY <1>1, <1>2 DEF Ids
<1>4. x.desc \in [RxSlots -> [avail : BOOLEAN, frame : Nat]]
  BY DEF RxType
<1>5. RingIds(x.desc) \subseteq Nat
  BY <1>4 DEF RingIds
<1> QED
  BY <1>3, <1>5

(* A frame arrives: it is put into the ring with those that waited, or waits. *)
LEMMA ArriveRx ==
  ASSUME RxInv, phy \in PhyType, linkDown \in BOOLEAN, NEW kind \in Kinds, Arrive(kind)
  PROVE  RxInv'
<1>0. /\ Plain /\ Waiting /\ Lie(rx, guest.got)
      /\ left \in Nat \ {0} /\ left' = left - 1 /\ left' \in Nat /\ left' <= left
      /\ UNCHANGED <<ctl, guest, saved>>
  <2>1. Plain /\ Waiting /\ Lie(rx, guest.got) /\ left \in Nat
    BY DEF RxInv, Plain
  <2>2. Event /\ UNCHANGED <<ctl, guest, saved>>
    BY Zenon DEF Arrive
  <2> QED
    BY <2>1, <2>2 DEF Event
<1>1. /\ queue \in Seq(Frame) /\ held \in Seq(Frame)
      /\ Distinct(queue) /\ Distinct(held) /\ Ids(queue) \cap Ids(held) = {}
      /\ \A n \in Ids(queue) \cup Ids(held) : n > left
  BY <1>0 DEF Waiting
<1>2. /\ rx \in RxType /\ Single(rx.desc)
      /\ RingIds(rx.desc) \cap guest.got = {}
      /\ \A n \in RingIds(rx.desc) \cup guest.got : n > left
      /\ (Ids(queue) \cup Ids(held)) \cap (RingIds(rx.desc) \cup guest.got) = {}
  BY <1>0 DEF Lie
<1>3. ctl' \in CtlType /\ guest' \in GuestType /\ Told(irq) /\ guest.got \subseteq Nat
  BY <1>0 DEF Plain, GuestType
<1>4. PICK frame : frame = [id |-> left, kind |-> kind]
  BY Zenon
<1>5. frame \in Frame /\ frame.id = left
  BY <1>0, <1>4 DEF Frame
<1>6. Ids(queue) \subseteq Nat /\ Ids(held) \subseteq Nat /\ RingIds(rx.desc) \subseteq Nat
  BY <1>1, <1>2, Numbers
<1>7. left \notin Ids(queue) \cup Ids(held) \cup RingIds(rx.desc) \cup guest.got
  BY <1>0, <1>1, <1>2
<1>8. ASSUME Ids(queue') \cup Ids(held') \subseteq Ids(queue) \cup Ids(held) \cup {left}
      PROVE  \A z \in saved' : /\ z.ctl \in CtlType /\ z.guest \in GuestType
                               /\ Told(z.irq) /\ Lie(z.rx, z.guest.got)'
  <2>1. SUFFICES ASSUME NEW z \in saved
                 PROVE  /\ z.ctl \in CtlType /\ z.guest \in GuestType
                        /\ Told(z.irq) /\ Lie(z.rx, z.guest.got)'
    BY <1>0
  <2>2. z.ctl \in CtlType /\ z.guest \in GuestType /\ Told(z.irq) /\ Lie(z.rx, z.guest.got)
    BY DEF RxInv
  <2>3. z.guest.got \subseteq Nat
    BY <2>2 DEF GuestType
  <2>4. Lie(z.rx, z.guest.got)'
    BY <1>0, <1>8, <2>2, <2>3, LieStays
  <2> QED
    BY <2>2, <2>4
<1>9. CASE CanReceive(Receiver)
  <2>1. PICK r : r = Receiver
    OBVIOUS
  <2>2. PICK s : /\ s = ForwardAll(Forward(r, frame), queue)
                 /\ rx' = s.rx /\ irq' = s.irq /\ held' = s.held /\ queue' = <<>>
    BY <1>4, <1>9, <2>1, Zenon DEF Arrive
  <2> DEFINE P == RingIds(rx.desc) \cup Ids(held)
  <2>3. Apart(r, P, Ids(held)) /\ frame.id \notin P
    BY <1>5, <1>7, <2>1, ReceiverApart, Zenon
  <2>4. Apart(Forward(r, frame), P \cup {frame.id}, Ids(held) \cup {frame.id})
    BY <1>5, <2>3, ForwardApart
  <2>5. Ids(queue) \cap (P \cup {frame.id}) = {}
    BY <1>1, <1>2, <1>5, <1>7
  <2>6. Apart(s, (P \cup {frame.id}) \cup Ids(queue), (Ids(held) \cup {frame.id}) \cup Ids(queue))
    BY <1>1, <2>2, <2>4, <2>5, ForwardAllApart
  <2>7. /\ s \in ReceiverType /\ Told(s.irq)
        /\ Single(s.rx.desc) /\ RingIds(s.rx.desc) \subseteq (P \cup {frame.id}) \cup Ids(queue)
        /\ Distinct(s.held) /\ Ids(s.held) \subseteq (Ids(held) \cup {frame.id}) \cup Ids(queue)
        /\ Ids(s.held) \cap RingIds(s.rx.desc) = {}
    BY <2>6, Zenon DEF Apart
  <2>8. s.rx \in RxType /\ s.held \in Seq(Frame)
    BY <2>7, Zenon DEF ReceiverType
  <2>9. Ids(queue') = {} /\ Distinct(queue') /\ queue' \in Seq(Frame)
    BY <2>2 DEF Ids, Distinct
  <2>10. Ids(queue') \cup Ids(held') \subseteq Ids(queue) \cup Ids(held) \cup {left}
    BY <1>5, <2>2, <2>7, <2>9
  <2>11. \A n \in Ids(queue) \cup Ids(held) \cup {left} \cup RingIds(rx.desc) \cup guest.got :
           n > left'
    BY <1>0, <1>1, <1>2, <1>3, <1>6
  <2>12. Waiting'
    BY <2>2, <2>7, <2>8, <2>9, <2>10, <2>11 DEF Waiting
  <2>13. RingIds(rx'.desc) \subseteq RingIds(rx.desc) \cup Ids(held) \cup {left} \cup Ids(queue)
    BY <1>5, <2>2, <2>7, Zenon
  <2>14. RingIds(rx'.desc) \cap guest.got = {}
    BY <1>2, <1>7, <2>13
  <2>15. (Ids(queue') \cup Ids(held')) \cap (RingIds(rx'.desc) \cup guest.got) = {}
    <3>1. Ids(held') \cap RingIds(rx'.desc) = {}
      BY <2>2, <2>7, Zenon
    <3>2. (Ids(queue) \cup Ids(held) \cup {left}) \cap guest.got = {}
      BY <1>2, <1>7
    <3> QED
      BY <2>9, <2>10, <3>1, <3>2
  <2>16. Lie(rx, guest.got)'
    BY <1>0, <2>2, <2>7, <2>8, <2>11, <2>13, <2>14, <2>15, Zenon DEF Lie
  <2>17. Plain'
    BY <1>0, <1>3, <2>2, <2>7 DEF Plain
  <2> QED
    BY <1>8, <2>10, <2>12, <2>16, <2>17 DEF RxInv
<1>10. CASE ~CanReceive(Receiver)
  <2>1. queue' = Append(queue, frame) /\ UNCHANGED <<rx, irq, held>>
    BY <1>4, <1>10, Zenon DEF Arrive
  <2>2. PICK q \in Seq(Frame) : q = queue
    BY <1>1
  <2>3. /\ Append(q, frame) \in Seq(Frame) /\ Len(Append(q, frame)) = Len(q) + 1
        /\ Append(q, frame)[Len(q) + 1] = frame
        /\ \A i \in 1..Len(q) : Append(q, frame)[i] = q[i]
    BY <1>5
  <2>4. Ids(queue') = Ids(queue) \cup {left}
    <3>1. queue' = Append(q, frame) /\ Len(q) \in Nat
      BY <2>1, <2>2
    <3> DEFINE a == Append(q, frame)
    <3>2. 1..Len(a) = 1..Len(q) \cup {Len(q) + 1}
      BY <2>3, <3>1
    <3>3. a[Len(q) + 1].id = left /\ \A i \in 1..Len(q) : a[i].id = q[i].id
      BY <1>5, <2>3, Zenon
    <3> HIDE DEF a
    <3>4. Ids(a) = Ids(q) \cup {left}
      BY <3>2, <3>3 DEF Ids
    <3> QED
      BY <2>2, <3>1, <3>4, Zenon DEF a
  <2>5. Distinct(queue')
    <3>1. \A i \in 1..Len(q) : q[i].id # left
      BY <1>7, <2>2 DEF Ids
    <3>2. \A i, j \in 1..Len(q) : i # j => q[i].id # q[j].id
      BY <1>1, <2>2 DEF Distinct
    <3> QED
      BY <1>5, <2>1, <2>2, <2>3, <3>1, <3>2 DEF Distinct
  <2>6. \A n \in Ids(queue) \cup Ids(held) \cup {left} : n > left'
    BY <1>0, <1>1, <1>6
  <2>7. Ids(queue') \cap Ids(held') = {} /\ queue' \in Seq(Frame)
    BY <1>1, <1>7, <2>1, <2>2, <2>3, <2>4
  <2>8. Waiting'
    BY <1>1, <2>1, <2>4, <2>5, <2>6, <2>7 DEF Waiting
  <2>9. Ids(queue') \cup Ids(held') \subseteq Ids(queue) \cup Ids(held) \cup {left}
    BY <2>1, <2>4
  <2>10. Lie(rx, guest.got)'
    <3>1. PICK x, got : x = rx /\ got = guest.got
      OBVIOUS
    <3>2. Lie(x, got)'
      BY <1>0, <1>3, <2>9, <3>1, LieStays
    <3>3. rx' = x /\ guest'.got = got
      BY <1>0, <2>1, <3>1
    <3> QED
      BY <3>2, <3>3 DEF Lie
  <2>11. Plain'
    BY <1>0, <1>3, <2>1 DEF Plain
  <2> QED
    BY <1>8, <2>8, <2>9, <2>10, <2>11 DEF RxInv
<1> QED
  BY <1>9, <1>10

(* The machine runs again: the frames that wait are received, or wait on. *)
LEMMA StartApart ==
  ASSUME NEW P, NEW H, NEW r, Apart(r, P, H)
  PROVE  Apart(VmStart(r), P, H) /\ VmStart(r).held \in {r.held, <<>>}
<1>1. CASE CanReceive(r)
  <2>1. VmStart(r) = FlushHeld(r)
    BY <1>1 DEF VmStart
  <2> QED
    BY <2>1, FlushApart
<1>2. CASE ~CanReceive(r)
  <2>1. VmStart(r) = r
    BY <1>2 DEF VmStart
  <2> QED
    BY <2>1
<1> QED
  BY <1>1, <1>2

(* The machine stops: the frames that waited for the controller are received,
   those that waited for the hub port wait for the controller. *)
LEMMA StopApart ==
  ASSUME RxInv, phy \in PhyType, linkDown \in BOOLEAN
  PROVE  LET v == VmStop(Receiver) IN
         /\ v.held = queue /\ RingIds(v.rx.desc) \subseteq RingIds(rx.desc) \cup Ids(held)
         /\ Apart(v, RingIds(rx.desc) \cup Ids(held) \cup Ids(queue), Ids(queue))
<1>0. /\ queue \in Seq(Frame) /\ Distinct(queue) /\ Ids(queue) \cap Ids(held) = {}
      /\ Ids(queue) \cap RingIds(rx.desc) = {}
  BY DEF RxInv, Waiting, Lie
<1>1. PICK f : f = FlushHeld(Receiver)
  OBVIOUS
<1>2. Apart(f, RingIds(rx.desc) \cup Ids(held), Ids(held)) /\ f.held = <<>>
  BY <1>1, ReceiverApart, FlushApart
<1>3. /\ f \in ReceiverType /\ Told(f.irq)
      /\ Single(f.rx.desc) /\ RingIds(f.rx.desc) \subseteq RingIds(rx.desc) \cup Ids(held)
  BY <1>2 DEF Apart
<1>4. PICK v : v = VmStop(Receiver)
  OBVIOUS
<1>5. v = [f EXCEPT !.held = @ \o queue]
  BY <1>1, <1>4 DEF VmStop
<1>6. f.held \o queue = queue
  BY <1>0, <1>2
<1>7. v.held = queue /\ v.rx = f.rx /\ v.irq = f.irq /\ v \in ReceiverType
  BY <1>0, <1>3, <1>5, <1>6, Zenon DEF ReceiverType
<1>8. Ids(queue) \cap RingIds(f.rx.desc) = {}
  BY <1>0, <1>3
<1>9. Apart(v, RingIds(rx.desc) \cup Ids(held) \cup Ids(queue), Ids(queue))
  BY <1>0, <1>3, <1>7, <1>8 DEF Apart
<1> QED
  BY <1>3, <1>4, <1>7, <1>9

(* A snapshot: the frames of its ring are not among those that wait on. *)
LEMMA SaveRx ==
  ASSUME RxInv, phy \in PhyType, linkDown \in BOOLEAN, Save
  PROVE  RxInv'
<1>0. /\ Plain /\ Waiting /\ Lie(rx, guest.got)
      /\ left \in Nat /\ left' \in Nat /\ left' <= left
      /\ UNCHANGED <<ctl, guest>> /\ queue' = <<>>
  <2>1. Plain /\ Waiting /\ Lie(rx, guest.got) /\ left \in Nat
    BY DEF RxInv, Plain
  <2>2. Event /\ UNCHANGED <<ctl, guest>> /\ queue' = <<>>
    BY Zenon DEF Save
  <2> QED
    BY <2>1, <2>2 DEF Event
<1>1. /\ queue \in Seq(Frame) /\ held \in Seq(Frame) /\ Ids(queue) \cap Ids(held) = {}
      /\ \A n \in Ids(queue) \cup Ids(held) : n > left
  BY <1>0 DEF Waiting
<1>2. /\ rx \in RxType
      /\ RingIds(rx.desc) \cap guest.got = {}
      /\ \A n \in RingIds(rx.desc) \cup guest.got : n > left
      /\ (Ids(queue) \cup Ids(held)) \cap (RingIds(rx.desc) \cup guest.got) = {}
  BY <1>0 DEF Lie
<1>3. /\ ctl \in CtlType /\ ctl' \in CtlType /\ guest \in GuestType /\ guest' \in GuestType
      /\ guest.got \subseteq Nat
  BY <1>0 DEF Plain, GuestType
<1>4. PICK v : v = VmStop(Receiver)
  OBVIOUS
<1>5. PICK s : /\ s = VmStart(v) /\ rx' = s.rx /\ irq' = s.irq /\ held' = s.held
  BY <1>4, Zenon DEF Save
<1>6. saved' = {[tx |-> tx, rx |-> v.rx, ctl |-> ctl, irq |-> v.irq, phy |-> phy,
                 guest |-> guest, owed |-> owed, torn |-> torn]}
  BY <1>4, Zenon DEF Save
<1> DEFINE P == RingIds(rx.desc) \cup Ids(held) \cup Ids(queue)
<1>7. v.held = queue /\ RingIds(v.rx.desc) \subseteq RingIds(rx.desc) \cup Ids(held)
      /\ Apart(v, P, Ids(queue))
  BY <1>4, StopApart
<1>8. Apart(s, P, Ids(queue)) /\ s.held \in {queue, <<>>}
  BY <1>5, <1>7, StartApart
<1>9. /\ s \in ReceiverType /\ Told(s.irq) /\ Single(s.rx.desc) /\ RingIds(s.rx.desc) \subseteq P
      /\ Distinct(s.held) /\ Ids(s.held) \subseteq Ids(queue)
      /\ Ids(s.held) \cap RingIds(s.rx.desc) = {}
  BY <1>8 DEF Apart
<1>10. /\ v \in ReceiverType /\ Told(v.irq) /\ Single(v.rx.desc) /\ RingIds(v.rx.desc) \subseteq P
       /\ Ids(queue) \cap RingIds(v.rx.desc) = {}
  BY <1>7 DEF Apart
<1>11. s.rx \in RxType /\ s.held \in Seq(Frame) /\ v.rx \in RxType
  BY <1>9, <1>10 DEF ReceiverType
<1>12. Ids(queue') = {} /\ Distinct(queue') /\ queue' \in Seq(Frame)
  BY <1>0 DEF Ids, Distinct
<1>13. Ids(queue) \subseteq Nat /\ Ids(held) \subseteq Nat /\ RingIds(rx.desc) \subseteq Nat
  BY <1>1, <1>2, Numbers
<1>14. \A n \in P \cup guest.got : n > left'
  BY <1>0, <1>1, <1>2, <1>3, <1>13
<1>15. Waiting'
  <2>1. \A n \in Ids(queue') \cup Ids(held') : n > left'
    BY <1>5, <1>9, <1>12, <1>14
  <2> QED
    BY <1>5, <1>9, <1>11, <1>12, <2>1 DEF Waiting
<1>16. ASSUME NEW x, x \in RxType, Single(x.desc), RingIds(x.desc) \subseteq P,
              Ids(held') \cap RingIds(x.desc) = {},
              RingIds(x.desc) \cap guest.got = {}
       PROVE  /\ x \in RxType /\ Single(x.desc)
              /\ RingIds(x.desc) \cap guest'.got = {}
              /\ \A n \in RingIds(x.desc) \cup guest'.got : n > left'
              /\ (Ids(queue') \cup Ids(held')) \cap (RingIds(x.desc) \cup guest'.got) = {}
  <2>1. Ids(held') \cap guest.got = {}
    BY <1>2, <1>5, <1>9
  <2> QED
    BY <1>0, <1>12, <1>14, <1>16, <2>1
<1>17. P \cap guest.got = {}
  BY <1>2
<1>18. Lie(rx, guest.got)'
  <2>1. RingIds(s.rx.desc) \cap guest.got = {}
    BY <1>9, <1>17
  <2> HIDE DEF P
  <2> QED
    BY <1>5, <1>9, <1>11, <1>16, <2>1 DEF Lie
<1>19. ASSUME NEW z \in saved'
       PROVE  /\ z.ctl \in CtlType /\ z.guest \in GuestType
              /\ Told(z.irq) /\ Lie(z.rx, z.guest.got)'
  <2>1. z.ctl = ctl /\ z.guest = guest /\ z.irq = v.irq /\ z.rx = v.rx
    BY <1>6
  <2>2. RingIds(v.rx.desc) \cap guest.got = {} /\ Ids(held') \cap RingIds(v.rx.desc) = {}
    BY <1>5, <1>9, <1>10, <1>17
  <2>3. z.guest.got = guest'.got
    BY <1>0, <2>1
  <2> HIDE DEF P
  <2>4. Lie(z.rx, z.guest.got)'
    BY <1>10, <1>11, <1>16, <2>1, <2>2, <2>3 DEF Lie
  <2> QED
    BY <1>3, <1>10, <2>1, <2>4
<1>20. Plain'
  BY <1>0, <1>3, <1>5, <1>9, Zenon DEF Plain
<1> QED
  BY <1>15, <1>18, <1>19, <1>20 DEF RxInv

(* The machine goes back to a snapshot: the frames that wait were not in its
   ring, nor had its guest got them. *)
LEMMA LoadRx ==
  ASSUME RxInv, phy \in PhyType, linkDown \in BOOLEAN, linkDown' \in BOOLEAN, Load
  PROVE  RxInv'
<1>0. /\ Plain /\ Waiting /\ left \in Nat /\ left' \in Nat /\ left' <= left
      /\ saved' = saved /\ queue' = <<>>
  <2>1. Plain /\ Waiting /\ left \in Nat
    BY DEF RxInv, Plain
  <2>2. Event /\ saved' = saved /\ queue' = <<>>
    BY Zenon DEF Load
  <2> QED
    BY <2>1, <2>2 DEF Event
<1>1. /\ queue \in Seq(Frame) /\ held \in Seq(Frame) /\ Distinct(queue)
      /\ \A n \in Ids(queue) \cup Ids(held) : n > left
  BY <1>0 DEF Waiting
<1>2. PICK v : v = VmStop(Receiver)
  OBVIOUS
<1>3. v.held = queue
  BY <1>2, StopApart
<1>A. PICK z \in saved : \E s :
        /\ ctl' = z.ctl /\ guest' = z.guest
        /\ s = VmStart([rx |-> z.rx, irq |-> z.irq, held |-> v.held,
                        open |-> z.ctl.start /\ ~z.ctl.stop /\ z.phy.link,
                        down |-> linkDown'])
        /\ rx' = s.rx /\ irq' = s.irq /\ held' = s.held
  <2>1. PICK z \in saved :
          /\ ctl' = z.ctl /\ guest' = z.guest
          /\ \E r \in {VmStop(Receiver)} :
             \E s \in {VmStart([rx |-> z.rx, irq |-> z.irq, held |-> r.held,
                                open |-> z.ctl.start /\ ~z.ctl.stop /\ z.phy.link,
                                down |-> linkDown'])} :
               rx' = s.rx /\ irq' = s.irq /\ held' = s.held
    BY Zenon DEF Load
  <2>2. PICK s \in {VmStart([rx |-> z.rx, irq |-> z.irq, held |-> v.held,
                             open |-> z.ctl.start /\ ~z.ctl.stop /\ z.phy.link,
                             down |-> linkDown'])} :
          rx' = s.rx /\ irq' = s.irq /\ held' = s.held
    BY <1>2, <2>1, Zenon
  <2> QED
    BY <2>1, <2>2, Zenon
<1>4. PICK s :
        /\ ctl' = z.ctl /\ guest' = z.guest
        /\ s = VmStart([rx |-> z.rx, irq |-> z.irq, held |-> v.held,
                        open |-> z.ctl.start /\ ~z.ctl.stop /\ z.phy.link,
                        down |-> linkDown'])
        /\ rx' = s.rx /\ irq' = s.irq /\ held' = s.held
  BY <1>A, Zenon
<1>5. z.ctl \in CtlType /\ z.guest \in GuestType /\ Told(z.irq) /\ Lie(z.rx, z.guest.got)
  BY DEF RxInv
<1>6. /\ z.rx \in RxType /\ Single(z.rx.desc)
      /\ RingIds(z.rx.desc) \cap z.guest.got = {}
      /\ \A n \in RingIds(z.rx.desc) \cup z.guest.got : n > left
      /\ (Ids(queue) \cup Ids(held)) \cap (RingIds(z.rx.desc) \cup z.guest.got) = {}
  BY <1>5 DEF Lie
<1>7. PICK w : w = [rx |-> z.rx, irq |-> z.irq, held |-> queue,
                    open |-> z.ctl.start /\ ~z.ctl.stop /\ z.phy.link,
                    down |-> linkDown']
  BY Zenon
<1>8. w \in ReceiverType /\ w.rx = z.rx /\ w.irq = z.irq /\ w.held = queue
  <2>1. z.irq \in IrqType
    BY <1>5 DEF Told
  <2>2. ASSUME NEW o \in BOOLEAN
        PROVE  [rx |-> z.rx, irq |-> z.irq, held |-> queue, open |-> o, down |-> linkDown']
                 \in ReceiverType
    BY <1>1, <1>6, <2>1 DEF ReceiverType
  <2>3. (z.ctl.start /\ ~z.ctl.stop /\ z.phy.link) \in BOOLEAN
    OBVIOUS
  <2>4. w \in ReceiverType
    BY <1>7, <2>2, <2>3, Zenon
  <2> QED
    BY <1>7, <2>4
<1> DEFINE P == RingIds(z.rx.desc) \cup Ids(queue)
<1>9. Apart(w, P, Ids(queue))
  <2>1. Ids(queue) \cap RingIds(z.rx.desc) = {}
    BY <1>6
  <2> QED
    BY <1>1, <1>5, <1>6, <1>8, <2>1 DEF Apart
<1>10. s = VmStart(w)
  BY <1>3, <1>4, <1>7, Zenon
<1>11. Apart(s, P, Ids(queue))
  BY <1>9, <1>10, StartApart
<1>12. /\ s \in ReceiverType /\ Told(s.irq) /\ Single(s.rx.desc) /\ RingIds(s.rx.desc) \subseteq P
       /\ Distinct(s.held) /\ Ids(s.held) \subseteq Ids(queue)
       /\ Ids(s.held) \cap RingIds(s.rx.desc) = {}
  BY <1>11 DEF Apart
<1>13. s.rx \in RxType /\ s.held \in Seq(Frame)
  BY <1>12 DEF ReceiverType
<1>14. Ids(queue') = {} /\ Distinct(queue') /\ queue' \in Seq(Frame)
  BY <1>0 DEF Ids, Distinct
<1>15. Ids(queue) \subseteq Nat /\ RingIds(z.rx.desc) \subseteq Nat /\ z.guest.got \subseteq Nat
  BY <1>1, <1>5, <1>6, Numbers DEF GuestType
<1>16. \A n \in P \cup z.guest.got : n > left'
  BY <1>0, <1>1, <1>6, <1>15
<1>17. Waiting'
  <2>1. \A n \in Ids(queue') \cup Ids(held') : n > left'
    BY <1>4, <1>12, <1>14, <1>16, Zenon
  <2> QED
    BY <1>4, <1>12, <1>13, <1>14, <2>1, Zenon DEF Waiting
<1>18. guest'.got = z.guest.got /\ P \cap z.guest.got = {}
  BY <1>4, <1>6, Zenon
<1>19. Lie(rx, guest.got)'
  <2>1. RingIds(rx'.desc) \cap guest'.got = {}
    BY <1>4, <1>12, <1>18, Zenon
  <2>2. \A n \in RingIds(rx'.desc) \cup guest'.got : n > left'
    BY <1>4, <1>12, <1>16, <1>18, Zenon
  <2>3. (Ids(queue') \cup Ids(held')) \cap (RingIds(rx'.desc) \cup guest'.got) = {}
    BY <1>4, <1>6, <1>12, <1>14, <1>18, Zenon
  <2> QED
    BY <1>4, <1>12, <1>13, <2>1, <2>2, <2>3, Zenon DEF Lie
<1>20. Ids(queue') \cup Ids(held') \subseteq Ids(queue) \cup Ids(held) \cup {left}
  BY <1>4, <1>12, <1>14, Zenon
<1>21. ASSUME NEW y \in saved'
       PROVE  /\ y.ctl \in CtlType /\ y.guest \in GuestType
              /\ Told(y.irq) /\ Lie(y.rx, y.guest.got)'
  <2>1. y.ctl \in CtlType /\ y.guest \in GuestType /\ Told(y.irq) /\ Lie(y.rx, y.guest.got)
    BY <1>0, <1>21 DEF RxInv
  <2>2. y.guest.got \subseteq Nat
    BY <2>1 DEF GuestType
  <2>3. Lie(y.rx, y.guest.got)'
    BY <1>0, <1>20, <2>1, <2>2, LieStays
  <2> QED
    BY <2>1, <2>3
<1>22. Plain'
  BY <1>0, <1>4, <1>5, <1>12, Zenon DEF Plain
<1> QED
  BY <1>17, <1>19, <1>21, <1>22 DEF RxInv

(* The driver's handler takes a frame out of the ring, and the set-up of the
   rings takes all. *)
LEMMA GuestTakesRx ==
  ASSUME RxInv, IsrTake \/ GuestInit
  PROVE  RxInv'
<1>0. /\ Plain /\ Waiting /\ Lie(rx, guest.got) /\ left \in Nat
      /\ UNCHANGED <<queue, held, saved, left>>
  <2>1. Plain /\ Waiting /\ Lie(rx, guest.got) /\ left \in Nat
    BY DEF RxInv, Plain
  <2>2. UNCHANGED <<queue, held, saved, left>>
    BY Zenon DEF IsrTake, GuestInit
  <2> QED
    BY <2>1, <2>2
<1>1. /\ rx \in RxType /\ Single(rx.desc)
      /\ RingIds(rx.desc) \cap guest.got = {}
      /\ \A n \in RingIds(rx.desc) \cup guest.got : n > left
      /\ (Ids(queue) \cup Ids(held)) \cap (RingIds(rx.desc) \cup guest.got) = {}
  BY <1>0 DEF Lie
<1>2. ctl \in CtlType /\ guest \in GuestType /\ Told(irq)
  BY <1>0 DEF Plain
<1>3. rx.desc \in [RxSlots -> [avail : BOOLEAN, frame : Nat]]
  BY <1>1 DEF RxType
<1>4. FreeRx \in [avail : BOOLEAN, frame : Nat] /\ FreeRx.frame = None
  BY DEF FreeRx, None
<1>5. /\ Waiting'
      /\ \A z \in saved' : /\ z.ctl \in CtlType /\ z.guest \in GuestType
                           /\ Told(z.irq) /\ Lie(z.rx, z.guest.got)'
  <2>1. Waiting'
    BY <1>0 DEF Waiting
  <2>2. \A z \in saved : /\ z.ctl \in CtlType /\ z.guest \in GuestType
                         /\ Told(z.irq) /\ Lie(z.rx, z.guest.got)
    BY DEF RxInv
  <2>3. \A x, got : Lie(x, got) => Lie(x, got)'
    BY <1>0 DEF Lie
  <2> QED
    BY <1>0, <2>1, <2>2, <2>3
<1>6. CASE IsrTake
  <2>1. PICK c, n : c = guest.tail /\ n = rx.desc[c].frame
    OBVIOUS
  <2>2. c \in RxSlots /\ n \in Nat
    BY <1>2, <1>3, <2>1 DEF GuestType
  <2>3. /\ n # None /\ rx' = [rx EXCEPT !.desc = [@ EXCEPT ![c] = FreeRx]]
        /\ guest' = [guest EXCEPT !.tail = Advance(@, RxRing), !.got = @ \cup {n}]
        /\ UNCHANGED <<ctl, irq>>
    BY <1>6, <2>1 DEF IsrTake, Filled
  <2>4. PICK d : d = [rx.desc EXCEPT ![c] = FreeRx]
    BY Zenon
  <2>5. d \in [RxSlots -> [avail : BOOLEAN, frame : Nat]]
        /\ d[c] = FreeRx /\ \A s \in RxSlots \ {c} : d[s] = rx.desc[s]
    BY <1>3, <1>4, <2>2, <2>4
  <2>6. rx' \in RxType /\ rx'.desc = d
    BY <1>1, <2>3, <2>4, <2>5 DEF RxType
  <2>7. guest' \in GuestType /\ guest'.got = guest.got \cup {n}
    <3>1. Advance(c, RxRing) \in RxSlots
      <4>1. c \in Nat /\ RxRing \in Nat \ {0}
        BY <2>2, RingAssumption DEF RxSlots, Base
      <4> QED
        BY <2>2, <4>1, InSlots DEF RxSlots
    <3>2. PICK h \in RxSlots : h = Advance(c, RxRing)
      BY <3>1
    <3>3. guest' = [guest EXCEPT !.tail = h, !.got = @ \cup {n}]
      BY <2>1, <2>3, <3>2
    <3> QED
      BY <1>2, <2>2, <3>3, Zenon DEF GuestType
  <2>8. RingIds(d) \subseteq RingIds(rx.desc) \ {n} /\ n \in RingIds(rx.desc)
    <3>1. n \in RingIds(rx.desc)
      BY <2>1, <2>2, <2>3 DEF RingIds
    <3>2. ASSUME NEW s \in RxSlots, d[s].frame # None
          PROVE  d[s].frame \in RingIds(rx.desc) /\ d[s].frame # n
      <4>1. s # c /\ d[s] = rx.desc[s]
        BY <1>4, <2>5, <3>2
      <4>2. rx.desc[c].frame # rx.desc[s].frame
        BY <1>1, <2>1, <2>2, <2>3, <4>1 DEF Single
      <4> QED
        BY <2>1, <3>2, <4>1, <4>2 DEF RingIds
    <3> QED
      BY <3>1, <3>2 DEF RingIds
  <2>9. Single(d)
    <3>1. ASSUME NEW s \in RxSlots, NEW t \in RxSlots, s # t, d[s].frame # None
          PROVE  d[s].frame # d[t].frame
      <4>1. s # c /\ d[s] = rx.desc[s]
        BY <1>4, <2>5, <3>1
      <4>2. CASE t = c
        BY <1>4, <2>5, <3>1, <4>2
      <4>3. CASE t # c
        <5>1. d[t] = rx.desc[t]
          BY <2>5, <4>3
        <5> QED
          BY <1>1, <3>1, <4>1, <5>1 DEF Single
      <4> QED
        BY <4>2, <4>3
    <3> QED
      BY <3>1 DEF Single
  <2>10. Lie(rx, guest.got)'
    <3>1. RingIds(d) \cap guest'.got = {}
      BY <1>1, <2>7, <2>8
    <3>2. RingIds(d) \cup guest'.got \subseteq RingIds(rx.desc) \cup guest.got
      BY <2>7, <2>8
    <3> QED
      BY <1>0, <1>1, <2>6, <2>9, <3>1, <3>2 DEF Lie
  <2>11. Plain'
    BY <1>0, <1>2, <2>3, <2>7 DEF Plain
  <2> QED
    BY <1>5, <2>10, <2>11 DEF RxInv
<1>7. CASE GuestInit
  <2>1. /\ rx' = [rx EXCEPT !.desc = [s \in RxSlots |-> FreeRx]]
        /\ ctl' = [start |-> TRUE, stop |-> FALSE] /\ irq' = SetMask(irq, Causes)
        /\ guest' = [guest EXCEPT !.up = TRUE, !.head = Base, !.tail = Base]
    BY <1>7, Zenon DEF GuestInit
  <2>2. PICK d : d = [s \in RxSlots |-> FreeRx]
    BY Zenon
  <2>3. d \in [RxSlots -> [avail : BOOLEAN, frame : Nat]] /\ \A s \in RxSlots : d[s].frame = None
    BY <1>4, <2>2
  <2>4. rx' \in RxType /\ rx'.desc = d
    BY <1>1, <2>1, <2>2, <2>3 DEF RxType
  <2>5. RingIds(d) = {} /\ Single(d)
    BY <2>3 DEF RingIds, Single
  <2>6. Base \in TxSlots /\ Base \in RxSlots
    BY RingAssumption DEF TxSlots, RxSlots, Base
  <2>7. guest' \in GuestType /\ guest'.got = guest.got
    BY <1>2, <2>1, <2>6, Zenon DEF GuestType
  <2>8. Lie(rx, guest.got)'
    BY <1>0, <1>1, <2>4, <2>5, <2>7 DEF Lie
  <2>9. Told(irq') /\ ctl' \in CtlType
    <3>1. Causes \in SUBSET Causes
      OBVIOUS
    <3> QED
      BY <1>2, <2>1, <3>1, SetMaskTold DEF CtlType
  <2>10. Plain'
    BY <1>0, <2>7, <2>9 DEF Plain
  <2> QED
    BY <1>5, <2>8, <2>10 DEF RxInv
<1> QED
  BY <1>6, <1>7

(* Every step keeps the invariant of receiving. *)
LEMMA StepRx == RxInv /\ LinkInv /\ LinkInv' /\ [Next]_vars => RxInv'
<1> SUFFICES ASSUME RxInv, LinkInv, LinkInv', [Next]_vars PROVE RxInv'
  OBVIOUS
<1>0. phy \in PhyType /\ linkDown \in BOOLEAN /\ linkDown' \in BOOLEAN
  BY DEF LinkInv
<1>1. CASE UNCHANGED vars
  <2>1. UNCHANGED <<rx, ctl, irq, queue, held, guest, saved, left>>
    BY <1>1 DEF vars
  <2>2. \A x, got : Lie(x, got) => Lie(x, got)'
    BY <2>1 DEF Lie
  <2>3. Plain' /\ Waiting' /\ Lie(rx, guest.got)'
    BY <2>1, Zenon DEF RxInv, Plain, Waiting, Lie
  <2> QED
    BY <2>1, <2>2, <2>3 DEF RxInv
<1>2. CASE \E kind \in Kinds : Arrive(kind)
  BY <1>0, <1>2, ArriveRx
<1>3. CASE Save
  BY <1>0, <1>3, SaveRx
<1>4. CASE Load
  BY <1>0, <1>4, LoadRx
<1>5. CASE IsrTake \/ GuestInit
  BY <1>5, GuestTakesRx
<1>6. CASE \/ AutonegTimer \/ NetEnable \/ NetDisable \/ MachineReset
           \/ GuestKick \/ GuestStop \/ GuestReset \/ GuestBit1 \/ GuestMask \/ GuestPhy
           \/ \E last \in BOOLEAN : GuestGive(last)
           \/ IsrRead \/ IsrAck \/ IsrDone
  BY <1>6, QuietStepsRx
<1> QED
  BY <1>1, <1>2, <1>3, <1>4, <1>5, <1>6, Zenon DEF Next, Host, Guest, Isr

(* The invariant of receiving and of the interrupts. *)
THEOREM ReceiveInvariant == Safety => []RxInv
BY LinkInvariant, InitRx, StepRx, PTL DEF Safety

(* An enabled cause that is pending has the line up. *)
THEOREM InterruptsAreTold == Safety => []NoInterruptMissed
<1>1. RxInv => NoInterruptMissed
  BY DEF RxInv, Plain, Told, NoInterruptMissed
<1> QED
  BY <1>1, ReceiveInvariant, PTL

(* Two queues, one after the other. *)
LEMMA Concatenation ==
  ASSUME NEW S, NEW a \in Seq(S), NEW b \in Seq(S), NEW m, NEW n, m = Len(a), n = Len(b)
  PROVE  /\ Len(a \o b) = m + n /\ DOMAIN (a \o b) = 1..(m + n)
         /\ \A i \in 1..m : (a \o b)[i] = a[i]
         /\ \A i \in (m + 1)..(m + n) : (a \o b)[i] = b[i - m]
OBVIOUS

(* Every frame is in at most one place. *)
THEOREM FramesLieOnce == Safety => []OncePerFrame
<1>1. ASSUME RxInv PROVE OncePerFrame
  <2>1. Waiting /\ Lie(rx, guest.got)
    BY <1>1 DEF RxInv
  <2>2. /\ queue \in Seq(Frame) /\ held \in Seq(Frame)
        /\ Distinct(queue) /\ Distinct(held) /\ Ids(queue) \cap Ids(held) = {}
    BY <2>1 DEF Waiting
  <2>3. /\ Single(rx.desc) /\ RingIds(rx.desc) \cap guest.got = {}
        /\ (Ids(queue) \cup Ids(held)) \cap (RingIds(rx.desc) \cup guest.got) = {}
    BY <2>1 DEF Lie
  <2> DEFINE N(q) == [i \in DOMAIN q |-> q[i].id]
  <2> DEFINE waiting == N(queue) \o N(held)
  <2> DEFINE ring == {s \in RxSlots : rx.desc[s].frame # None}
  <2>4. PICK m \in Nat, n \in Nat : m = Len(queue) /\ n = Len(held)
    BY <2>2
  <2>5. ASSUME NEW q \in Seq(Frame)
        PROVE  N(q) \in Seq(Nat) /\ Len(N(q)) = Len(q) /\ \A i \in 1..Len(q) : N(q)[i] = q[i].id
    <3>1. Len(q) \in Nat /\ DOMAIN q = 1..Len(q) /\ \A i \in 1..Len(q) : q[i] \in Frame
      OBVIOUS
    <3>2. N(q) \in [1..Len(q) -> Nat] /\ \A i \in 1..Len(q) : N(q)[i] = q[i].id
      BY <3>1 DEF Frame
    <3> HIDE DEF N
    <3> QED
      BY <3>1, <3>2
  <2> HIDE DEF N
  <2>14. PICK a \in Seq(Nat), b \in Seq(Nat) : a = N(queue) /\ b = N(held)
    BY <2>2, <2>5, Zenon
  <2>15. /\ Len(a) = m /\ Len(b) = n /\ \A i \in 1..m : a[i] = queue[i].id
         /\ \A i \in 1..n : b[i] = held[i].id
    BY <2>2, <2>4, <2>5, <2>14
  <2>16. waiting = a \o b
    BY <2>14
  <2>6. /\ DOMAIN waiting = 1..(m + n)
        /\ \A i \in 1..m : waiting[i] = queue[i].id
        /\ \A i \in (m + 1)..(m + n) : waiting[i] = held[i - m].id /\ i - m \in 1..n
    <3> HIDE DEF waiting
    <3>0. m = Len(a) /\ n = Len(b)
      BY <2>15, Zenon
    <3>1. /\ Len(a \o b) = m + n /\ DOMAIN (a \o b) = 1..(m + n)
          /\ \A i \in 1..m : (a \o b)[i] = a[i]
          /\ \A i \in (m + 1)..(m + n) : (a \o b)[i] = b[i - m]
      BY <3>0, Concatenation
    <3>2. \A i \in (m + 1)..(m + n) : i - m \in 1..n
      OBVIOUS
    <3> QED
      BY <2>15, <2>16, <3>1, <3>2, Zenon
  <2> HIDE DEF waiting
  <2>7. ASSUME NEW i \in DOMAIN waiting
        PROVE  \/ i \in 1..m /\ waiting[i] \in Ids(queue)
               \/ i \in (m + 1)..(m + n) /\ waiting[i] \in Ids(held)
    <3>1. CASE i \in 1..m
      <4>1. waiting[i] = queue[i].id
        BY <2>6, <3>1, Zenon
      <4> QED
        BY <2>4, <3>1, <4>1 DEF Ids
    <3>2. CASE i \in (m + 1)..(m + n)
      <4>1. PICK j \in 1..n : j = i - m
        BY <2>6, <3>2, Zenon
      <4>2. waiting[i] = held[j].id
        BY <2>6, <3>2, <4>1, Zenon
      <4> QED
        BY <2>4, <3>2, <4>1, <4>2 DEF Ids
    <3>3. i \in 1..(m + n)
      BY <2>6, Zenon
    <3> QED
      BY <3>1, <3>2, <3>3
  <2>8. ASSUME NEW i \in DOMAIN waiting, NEW j \in DOMAIN waiting, i # j
        PROVE  waiting[i] # waiting[j]
    <3>1. CASE i \in 1..m /\ j \in 1..m
      BY <2>2, <2>4, <2>6, <2>8, <3>1 DEF Distinct
    <3>2. CASE i \in (m + 1)..(m + n) /\ j \in (m + 1)..(m + n)
      <4>1. i - m # j - m /\ i - m \in 1..Len(held) /\ j - m \in 1..Len(held)
        BY <2>4, <2>8, <3>2
      <4>2. held[i - m].id # held[j - m].id
        BY <2>2, <4>1, Zenon DEF Distinct
      <4> QED
        BY <2>6, <3>2, <4>2, Zenon
    <3>3. CASE ~(i \in 1..m <=> j \in 1..m)
      <4>1. \/ waiting[i] \in Ids(queue) /\ waiting[j] \in Ids(held)
            \/ waiting[i] \in Ids(held) /\ waiting[j] \in Ids(queue)
        BY <2>7, <3>3
      <4> QED
        BY <2>2, <4>1
    <3> QED
      BY <2>7, <3>1, <3>2, <3>3
  <2>9. {rx.desc[s].frame : s \in ring} = RingIds(rx.desc)
    BY DEF RingIds
  <2>10. ASSUME NEW i \in DOMAIN waiting
         PROVE  waiting[i] \notin guest.got \cup {rx.desc[s].frame : s \in ring}
    BY <2>3, <2>7, <2>9
  <2>11. \A s \in ring : rx.desc[s].frame \notin guest.got
    BY <2>3, <2>9
  <2>12. \A s, t \in ring : s # t => rx.desc[s].frame # rx.desc[t].frame
    BY <2>3 DEF Single
  <2> HIDE DEF ring
  <2>13. guest.up =>
           /\ \A i, j \in DOMAIN waiting : i # j => waiting[i] # waiting[j]
           /\ \A s, t \in ring : s # t => rx.desc[s].frame # rx.desc[t].frame
           /\ \A s \in ring : rx.desc[s].frame \notin guest.got
           /\ \A i \in DOMAIN waiting :
                waiting[i] \notin guest.got \cup {rx.desc[s].frame : s \in ring}
    BY <2>8, <2>10, <2>11, <2>12
  <2> QED
    BY <2>13, Zenon DEF OncePerFrame, waiting, ring, N
<1> QED
  BY <1>1, ReceiveInvariant, PTL

-----------------------------------------------------------------------------
(* Sending. *)

(* The i-th descriptor of the send ring when the first is c. *)
At(c, i) == IF c + i - 1 < Base + TxRing THEN c + i - 1 ELSE c + i - 1 - TxRing
(* The send ring with tx_dma_buf, and what the network has not got. *)
TxType == [desc : [TxSlots -> [valid : BOOLEAN, last : BOOLEAN, fragment : Nat]],
           next : Nat, buf : Seq(Nat)]
Owed == Seq([fragment : Nat, last : BOOLEAN])

(* What the guest handed over and the network has not got, o, is tx_dma_buf and
   then the first k descriptors, which are the valid ones; the guest's next is
   the one behind them. *)
HandedOver(t, o, h, k) ==
  LET c == Current(t.next, TxRing)
      b == Len(t.buf)
  IN /\ \A i \in 1..TxRing : t.desc[At(c, i)].valid <=> i <= k
     /\ h = At(c, k + 1) /\ Len(o) = b + k
     /\ \A i \in 1..b : o[i] = [fragment |-> t.buf[i], last |-> FALSE]
     /\ \A i \in 1..k : /\ o[b + i].fragment = t.desc[At(c, i)].fragment
                        /\ o[b + i].last = t.desc[At(c, i)].last

(* That, while the driver is up and no snapshot cut a packet in two; while it
   is down nothing is owed. *)
Sending(t, o, up, h, tear) ==
  /\ t \in TxType /\ o \in Owed
  /\ ~up => t.next \in {0, Base} /\ t.buf = <<>> /\ o = <<>>
  /\ up /\ ~tear => \E k \in 0..TxRing : HandedOver(t, o, h, k)

(* The invariant of sending, for the controller and for the snapshot. *)
TxInv ==
  /\ torn \in BOOLEAN
  /\ Sending(tx, owed, guest.up, guest.head, torn)
  /\ \A z \in saved : /\ z.torn \in BOOLEAN
                      /\ Sending(z.tx, z.owed, z.guest.up, z.guest.head, z.torn)

(* What is owed names a fragment and whether it ends its packet. *)
LEMMA OwedFields ==
  ASSUME NEW e, NEW a, NEW b, e = [fragment |-> a, last |-> b]
  PROVE  e.fragment = a /\ e.last = b
OBVIOUS

(* The descriptors of the send ring, in the order they are read. *)
LEMMA AtFacts ==
  ASSUME NEW c \in TxSlots
  PROVE  /\ \A i \in 1..TxRing : RingOrder(c, TxRing)[i] = At(c, i)
         /\ At(c, 1) = c /\ At(c, TxRing + 1) = c
         /\ \A i \in 1..(TxRing + 1) : At(c, i) \in TxSlots
         /\ \A i, j \in 1..TxRing : At(c, i) = At(c, j) => i = j
         /\ \A i \in 1..TxRing : Advance(At(c, i), TxRing) = At(c, i + 1)
         /\ Current(c, TxRing) = c
<1>1. TxRing \in Nat \ {0} /\ c \in Nat /\ c >= 1 /\ c <= TxRing
  BY RingAssumption DEF TxSlots, Base
<1>2. \A i \in 1..TxRing : RingOrder(c, TxRing)[i] = At(c, i)
  BY <1>1 DEF RingOrder, At, Base
<1>3. /\ At(c, 1) = c /\ At(c, TxRing + 1) = c
      /\ \A i \in 1..(TxRing + 1) : At(c, i) \in TxSlots
  BY <1>1 DEF At, Base, TxSlots
<1>4. \A i, j \in 1..TxRing : At(c, i) = At(c, j) => i = j
  BY <1>1 DEF At, Base
<1>5. \A i \in 1..TxRing : Advance(At(c, i), TxRing) = At(c, i + 1)
  BY <1>1 DEF At, Base, Advance
<1>6. Current(c, TxRing) = c
  BY <1>1 DEF Current, Base
<1> QED
  BY <1>2, <1>3, <1>4, <1>5, <1>6

(* Going on from a later descriptor. *)
LEMMA AtOn ==
  ASSUME NEW c \in TxSlots, NEW n \in 0..TxRing, NEW i \in 1..(TxRing + 1)
  PROVE  /\ n + i <= TxRing + 1 => At(At(c, n + 1), i) = At(c, n + i)
         /\ n + i > TxRing => At(At(c, n + 1), i) = At(c, n + i - TxRing)
<1>1. TxRing \in Nat \ {0} /\ c \in Nat /\ c >= 1 /\ c <= TxRing
  BY RingAssumption DEF TxSlots, Base
<1> QED
  BY <1>1 DEF At, Base

(* Where a write or a kick finds the ring. *)
LEMMA CurrentIn ==
  ASSUME NEW next \in Nat
  PROVE  Current(next, TxRing) \in TxSlots
<1>1. TxRing \in Nat \ {0}
  BY RingAssumption
<1> QED
  BY <1>1, InSlots DEF TxSlots

(* What Taken says of the loop of dma_packet_from_guest. *)
LEMMA TakenIs ==
  ASSUME NEW desc, NEW order
  PROVE  LET n == Taken(desc, order)
         IN /\ n \in 0..TxRing
            /\ \A i \in 1..n : desc[order[i]].valid
            /\ \A i \in 1..(n - 1) : ~desc[order[i]].last
            /\ \/ n = TxRing
               \/ ~desc[order[n + 1]].valid
               \/ n > 0 /\ desc[order[n]].last
<1> DEFINE V(i) == desc[order[i]].valid
<1> DEFINE L(i) == desc[order[i]].last
<1> DEFINE E(n) == n = TxRing \/ ~V(n + 1) \/ (n > 0 /\ L(n))
<1> DEFINE T == {n \in 0..TxRing : E(n)}
<1>0. TxRing \in Nat \ {0}
  BY RingAssumption
<1>1. PICK n \in T : \A m \in T : n <= m
  <2>0. E(TxRing)
    OBVIOUS
  <2> HIDE DEF E
  <2>1. T \subseteq Nat
    BY <1>0
  <2>2. TxRing \in T
    BY <1>0, <2>0
  <2> HIDE DEF T
  <2> QED
    BY <2>1, <2>2, Least, Zenon
<1>2. n \in 0..TxRing /\ E(n)
  BY <1>1
<1>3. ASSUME NEW i \in 0..(n - 1) PROVE ~E(i)
  <2> HIDE DEF E
  <2>1. i \in 0..TxRing /\ ~(n <= i)
    BY <1>0, <1>2
  <2> QED
    BY <1>1, <2>1
<1> HIDE DEF V, L
<1>4. ASSUME NEW i \in 1..n PROVE V(i)
  <2>1. i - 1 \in 0..(n - 1) /\ (i - 1) + 1 = i
    BY <1>2
  <2>2. V((i - 1) + 1)
    BY <1>3, <2>1, Zenon
  <2> QED
    BY <2>1, <2>2, Zenon
<1>5. ASSUME NEW i \in 1..(n - 1) PROVE ~L(i)
  <2>1. i \in 0..(n - 1) /\ i > 0
    BY <1>2
  <2> QED
    BY <1>3, <2>1
<1>6. \E m \in 0..TxRing :
        /\ \A i \in 1..m : V(i)
        /\ \A i \in 1..(m - 1) : ~L(i)
        /\ m = TxRing \/ ~V(m + 1) \/ (m > 0 /\ L(m))
  BY <1>2, <1>4, <1>5, Zenon
<1> QED
  BY <1>6, Zenon DEF Taken, V, L

(* The descriptors n of a kick, what it makes of the packet p, and whether the
   packet is whole. *)
Kicked(t, o, c, n, p, z) ==
  /\ z.tx.desc = [s \in TxSlots |-> IF s \in {At(c, i) : i \in 1..n}
                                    THEN [t.desc[s] EXCEPT !.valid = FALSE]
                                    ELSE t.desc[s]]
  /\ z.tx.next = IF n = 0 THEN t.next ELSE Advance(At(c, n), TxRing)
  /\ p = t.buf \o [i \in 1..n |-> t.desc[At(c, i)].fragment]
  /\ z.tx = [desc |-> z.tx.desc, next |-> z.tx.next, buf |-> z.tx.buf]
  /\ \/ /\ n > 0 /\ t.desc[At(c, n)].last
        /\ z.tx.buf = <<>>
        /\ ~linkDown => z.owed = SubSeq(o, Len(p) + 1, Len(o))
        /\ linkDown => z.owed = o
     \/ /\ ~(n > 0 /\ t.desc[At(c, n)].last)
        /\ z.tx.buf = p /\ z.owed = o

(* dma_packet_from_guest, in these words. *)
LEMMA KickedIs ==
  ASSUME NEW t \in TxType, NEW o, NEW q
  PROVE  LET z == FromGuest([tx |-> t, irq |-> q, owed |-> o])
             c == Current(t.next, TxRing)
         IN \E n \in 0..TxRing : \E p :
              /\ Kicked(t, o, c, n, p, z)
              /\ \A i \in 1..n : t.desc[At(c, i)].valid
              /\ \A i \in 1..(n - 1) : ~t.desc[At(c, i)].last
              /\ \/ n = TxRing
                 \/ ~t.desc[At(c, n + 1)].valid
                 \/ n > 0 /\ t.desc[At(c, n)].last
<1>0. TxRing \in Nat \ {0} /\ t.next \in Nat
  BY RingAssumption DEF TxType
<1>1. PICK c \in TxSlots : c = Current(t.next, TxRing)
  BY <1>0, CurrentIn
<1>2. PICK order : order = RingOrder(c, TxRing)
  OBVIOUS
<1>3. PICK n : n = Taken(t.desc, order)
  OBVIOUS
<1>4. /\ n \in 0..TxRing
      /\ \A i \in 1..n : t.desc[order[i]].valid
      /\ \A i \in 1..(n - 1) : ~t.desc[order[i]].last
      /\ \/ n = TxRing
         \/ ~t.desc[order[n + 1]].valid
         \/ n > 0 /\ t.desc[order[n]].last
  <2>1. LET l == Taken(t.desc, order)
        IN /\ l \in 0..TxRing
           /\ \A i \in 1..l : t.desc[order[i]].valid
           /\ \A i \in 1..(l - 1) : ~t.desc[order[i]].last
           /\ \/ l = TxRing
              \/ ~t.desc[order[l + 1]].valid
              \/ l > 0 /\ t.desc[order[l]].last
    BY TakenIs, Zenon
  <2> QED
    BY <1>3, <2>1, Zenon
<1>5. \A i \in 1..TxRing : order[i] = At(c, i)
  <2>1. \A i \in 1..TxRing : RingOrder(c, TxRing)[i] = At(c, i)
    BY AtFacts, Zenon
  <2> QED
    BY <1>2, <2>1, Zenon
<1>6. /\ \A i \in 1..n : i \in 1..TxRing
      /\ \A i \in 1..(n - 1) : i \in 1..TxRing
      /\ n # TxRing => n + 1 \in 1..TxRing
      /\ n > 0 => n \in 1..TxRing
      /\ n # 0 => n \in 1..TxRing
  BY <1>0, <1>4
<1>7. /\ \A i \in 1..n : t.desc[At(c, i)].valid
      /\ \A i \in 1..(n - 1) : ~t.desc[At(c, i)].last
      /\ \/ n = TxRing
         \/ ~t.desc[At(c, n + 1)].valid
         \/ n > 0 /\ t.desc[At(c, n)].last
  BY <1>4, <1>5, <1>6, Zenon
<1>8. PICK u : u = {order[i] : i \in 1..n}
  BY Zenon
<1>9. u = {At(c, i) : i \in 1..n}
  BY <1>5, <1>6, <1>8
<1>10. PICK p : p = t.buf \o [i \in 1..n |-> t.desc[order[i]].fragment]
  BY Zenon
<1>11. p = t.buf \o [i \in 1..n |-> t.desc[At(c, i)].fragment]
  <2>1. [i \in 1..n |-> t.desc[order[i]].fragment] = [i \in 1..n |-> t.desc[At(c, i)].fragment]
    BY <1>5, <1>6
  <2> QED
    BY <1>10, <2>1, Zenon
<1>12. PICK z : z = FromGuest([tx |-> t, irq |-> q, owed |-> o])
  OBVIOUS
<1> DEFINE whole == n > 0 /\ t.desc[order[n]].last
<1>13. z = [tx |-> [desc |-> [s \in TxSlots |-> IF s \in u THEN [t.desc[s] EXCEPT !.valid = FALSE]
                                                 ELSE t.desc[s]],
                    next |-> IF n = 0 THEN t.next ELSE Advance(order[n], TxRing),
                    buf |-> IF whole THEN <<>> ELSE p],
            irq |-> IF whole THEN Raise(q, {"tx"}) ELSE q,
            owed |-> IF whole /\ ~linkDown THEN SubSeq(o, Len(p) + 1, Len(o)) ELSE o]
  <2>1. PICK g : g = [tx |-> t, irq |-> q, owed |-> o]
    BY Zenon
  <2>2. g.tx = t /\ g.irq = q /\ g.owed = o
    BY <2>1
  <2>3. order = RingOrder(Current(g.tx.next, TxRing), TxRing)
    BY <1>1, <1>2, <2>2
  <2>4. z = FromGuest(g)
    BY <1>12, <2>1
  <2> QED
    BY <1>3, <1>8, <1>10, <2>2, <2>3, <2>4, Zenon DEF FromGuest
<1> HIDE DEF whole
<1>14. z.tx = [desc |-> [s \in TxSlots |-> IF s \in u THEN [t.desc[s] EXCEPT !.valid = FALSE]
                                                 ELSE t.desc[s]],
               next |-> IF n = 0 THEN t.next ELSE Advance(order[n], TxRing),
               buf |-> IF whole THEN <<>> ELSE p]
       /\ z.owed = IF whole /\ ~linkDown THEN SubSeq(o, Len(p) + 1, Len(o)) ELSE o
  BY <1>13, Zenon
<1>15. /\ z.tx.desc = [s \in TxSlots |-> IF s \in u THEN [t.desc[s] EXCEPT !.valid = FALSE]
                                         ELSE t.desc[s]]
       /\ z.tx.next = IF n = 0 THEN t.next ELSE Advance(order[n], TxRing)
       /\ z.tx.buf = IF whole THEN <<>> ELSE p
       /\ z.tx = [desc |-> z.tx.desc, next |-> z.tx.next, buf |-> z.tx.buf]
  <2>1. PICK a, b, e :
          /\ a = [s \in TxSlots |-> IF s \in u THEN [t.desc[s] EXCEPT !.valid = FALSE]
                                    ELSE t.desc[s]]
          /\ b = IF n = 0 THEN t.next ELSE Advance(order[n], TxRing)
          /\ e = IF whole THEN <<>> ELSE p
    BY Zenon
  <2>2. z.tx = [desc |-> a, next |-> b, buf |-> e]
    BY <1>14, <2>1, Zenon
  <2>3. z.tx.desc = a /\ z.tx.next = b /\ z.tx.buf = e
    BY <2>2
  <2> QED
    BY <2>1, <2>2, <2>3, Zenon
<1>16. z.tx.next = IF n = 0 THEN t.next ELSE Advance(At(c, n), TxRing)
  BY <1>5, <1>6, <1>15, Zenon
<1>17. whole <=> n > 0 /\ t.desc[At(c, n)].last
  BY <1>5, <1>6, Zenon DEF whole
<1>18. Kicked(t, o, c, n, p, z)
  BY <1>9, <1>11, <1>14, <1>15, <1>16, <1>17, Zenon DEF Kicked
<1>19. \E m \in 0..TxRing : \E r :
              /\ Kicked(t, o, c, m, r, z)
              /\ \A i \in 1..m : t.desc[At(c, i)].valid
              /\ \A i \in 1..(m - 1) : ~t.desc[At(c, i)].last
              /\ \/ m = TxRing
                 \/ ~t.desc[At(c, m + 1)].valid
                 \/ m > 0 /\ t.desc[At(c, m)].last
  BY <1>4, <1>7, <1>18, Zenon
<1> QED
  BY <1>1, <1>12, <1>19, Zenon

(* One sequence of numbers after another. *)
LEMMA Packet ==
  ASSUME NEW a \in Seq(Nat), NEW f \in Seq(Nat), NEW m, NEW n, m = Len(a), n = Len(f)
  PROVE  /\ a \o f \in Seq(Nat) /\ Len(a \o f) = m + n
         /\ \A i \in 1..m : (a \o f)[i] = a[i]
         /\ \A i \in 1..n : (a \o f)[m + i] = f[i]
<1>1. /\ Len(a \o f) = m + n
      /\ \A i \in 1..m : (a \o f)[i] = a[i]
      /\ \A i \in (m + 1)..(m + n) : (a \o f)[i] = f[i - m]
  BY Concatenation
<1>2. a \o f \in Seq(Nat) /\ m \in Nat /\ n \in Nat
  OBVIOUS
<1>3. \A i \in 1..n : m + i \in (m + 1)..(m + n) /\ (m + i) - m = i
  BY <1>2
<1>4. ASSUME NEW i \in 1..n PROVE (a \o f)[m + i] = f[i]
  <2>1. (a \o f)[m + i] = f[(m + i) - m]
    BY <1>1, <1>3, Zenon
  <2> QED
    BY <1>3, <2>1, Zenon
<1> QED
  BY <1>1, <1>2, <1>4, Zenon

(* What is left of a sequence. *)
LEMMA Remainder ==
  ASSUME NEW S, NEW o \in Seq(S), NEW m \in Nat
  PROVE  /\ SubSeq(o, m + 1, Len(o)) \in Seq(S)
         /\ m <= Len(o) => /\ Len(SubSeq(o, m + 1, Len(o))) = Len(o) - m
                           /\ \A i \in 1..(Len(o) - m) : SubSeq(o, m + 1, Len(o))[i] = o[m + i]
<1>1. SubSeq(o, m + 1, Len(o)) \in Seq(S)
  OBVIOUS
<1>2. ASSUME m <= Len(o)
      PROVE  /\ Len(SubSeq(o, m + 1, Len(o))) = Len(o) - m
             /\ \A i \in 1..(Len(o) - m) : SubSeq(o, m + 1, Len(o))[i] = o[m + i]
  BY <1>2
<1> QED
  BY <1>1, <1>2

(* p is tx_dma_buf and the first n fragments of the ring. *)
Gathered(t, c, n, p) ==
  /\ p \in Seq(Nat) /\ Len(p) = Len(t.buf) + n
  /\ \A i \in 1..Len(t.buf) : p[i] = t.buf[i]
  /\ \A i \in 1..n : p[Len(t.buf) + i] = t.desc[At(c, i)].fragment

(* A kick keeps the types of the ring and of what is owed. *)
LEMMA KickType ==
  ASSUME NEW t \in TxType, NEW o \in Owed, NEW c \in TxSlots, NEW n \in 0..TxRing, NEW p, NEW z,
         Kicked(t, o, c, n, p, z)
  PROVE  z.tx \in TxType /\ z.owed \in Owed /\ Gathered(t, c, n, p)
<1>0. /\ t.desc \in [TxSlots -> [valid : BOOLEAN, last : BOOLEAN, fragment : Nat]]
      /\ t.next \in Nat /\ t.buf \in Seq(Nat) /\ TxRing \in Nat \ {0} /\ n \in Nat
  BY RingAssumption DEF TxType
<1>1. \A i \in 1..n : At(c, i) \in TxSlots
  <2>1. \A i \in 1..n : i \in 1..(TxRing + 1)
    BY <1>0
  <2>2. \A i \in 1..(TxRing + 1) : At(c, i) \in TxSlots
    BY AtFacts, Zenon
  <2> QED
    BY <2>1, <2>2, Zenon
<1>2. PICK f : f = [i \in 1..n |-> t.desc[At(c, i)].fragment]
  BY Zenon
<1>3. f \in [1..n -> Nat] /\ \A i \in 1..n : f[i] = t.desc[At(c, i)].fragment
  <2>1. \A s \in TxSlots : t.desc[s].fragment \in Nat
    BY <1>0
  <2> QED
    BY <1>1, <1>2, <2>1, Zenon
<1>4. p = t.buf \o f
  BY <1>2, Zenon DEF Kicked
<1>5. /\ p \in Seq(Nat) /\ Len(p) = Len(t.buf) + n
      /\ \A i \in 1..Len(t.buf) : p[i] = t.buf[i]
      /\ \A i \in 1..n : p[Len(t.buf) + i] = f[i]
  <2>1. PICK a \in Seq(Nat), m \in Nat : a = t.buf /\ m = Len(a)
    <3>1. Len(t.buf) \in Nat
      BY <1>0
    <3> QED
      BY <1>0, <3>1, Zenon
  <2>2. PICK g \in Seq(Nat) : g = f /\ n = Len(g)
    <3>1. f \in Seq(Nat) /\ Len(f) = n
      BY <1>0, <1>3
    <3> QED
      BY <3>1, Zenon
  <2>3. m = Len(a) /\ n = Len(g)
    BY <2>1, <2>2, Zenon
  <2>4. /\ a \o g \in Seq(Nat) /\ Len(a \o g) = m + n
        /\ \A i \in 1..m : (a \o g)[i] = a[i]
        /\ \A i \in 1..n : (a \o g)[m + i] = g[i]
    BY <2>3, Packet
  <2>5. p = a \o g
    BY <1>4, <2>1, <2>2, Zenon
  <2> QED
    BY <2>1, <2>2, <2>4, <2>5, Zenon
<1>6. z.tx.desc \in [TxSlots -> [valid : BOOLEAN, last : BOOLEAN, fragment : Nat]]
  <2>1. PICK u : z.tx.desc = [s \in TxSlots |-> IF s \in u THEN [t.desc[s] EXCEPT !.valid = FALSE]
                                                ELSE t.desc[s]]
    BY Zenon DEF Kicked
  <2>2. \A s \in TxSlots : [t.desc[s] EXCEPT !.valid = FALSE]
                             \in [valid : BOOLEAN, last : BOOLEAN, fragment : Nat]
    BY <1>0, Zenon
  <2> QED
    BY <1>0, <2>1, <2>2
<1>7. z.tx.next \in Nat
  <2>1. CASE n = 0
    BY <1>0, <2>1, Zenon DEF Kicked
  <2>2. CASE n # 0
    <3>1. z.tx.next = Advance(At(c, n), TxRing) /\ n \in 1..TxRing
      <4>1. z.tx.next = Advance(At(c, n), TxRing)
        BY <2>2, Zenon DEF Kicked
      <4>2. n \in 1..TxRing
        BY <2>2
      <4> QED
        BY <4>1, <4>2
    <3>2. At(c, n) \in Nat
      BY <1>0, <1>1, <2>2 DEF TxSlots, Base
    <3> QED
      BY <1>0, <3>1, <3>2 DEF Advance, Base
  <2> QED
    BY <2>1, <2>2
<1>8. z.tx.buf \in Seq(Nat)
  <2>1. z.tx.buf = <<>> \/ z.tx.buf = p
    BY Zenon DEF Kicked
  <2>2. <<>> \in Seq(Nat)
    OBVIOUS
  <2> QED
    BY <1>5, <2>1, <2>2, Zenon
<1>9. z.tx \in TxType
  <2>1. z.tx = [desc |-> z.tx.desc, next |-> z.tx.next, buf |-> z.tx.buf]
    BY Zenon DEF Kicked
  <2> QED
    BY <1>6, <1>7, <1>8, <2>1, Zenon DEF TxType
<1>10. z.owed \in Owed
  <2>1. z.owed = o \/ z.owed = SubSeq(o, Len(p) + 1, Len(o))
    BY Zenon DEF Kicked
  <2>2. SubSeq(o, Len(p) + 1, Len(o)) \in Owed
    <3>1. Len(p) \in Nat
      BY <1>5
    <3> QED
      BY <3>1, Remainder, Zenon DEF Owed
  <2> QED
    BY <2>1, <2>2, Zenon
<1> QED
  BY <1>3, <1>5, <1>9, <1>10, Zenon DEF Gathered

(* What a sequence over a set holds. *)
LEMMA ElementIn ==
  ASSUME NEW S, NEW r \in Seq(S), NEW i \in 1..Len(r)
  PROVE  r[i] \in S
OBVIOUS

(* The descriptors after a kick: those it took are the guest's again. *)
Freed(t, c, n, z) ==
  /\ c = Current(t.next, TxRing) => Current(z.tx.next, TxRing) = At(c, n + 1)
  /\ \A i \in 1..n : ~z.tx.desc[At(c, i)].valid
  /\ \A i \in (n + 1)..TxRing : z.tx.desc[At(c, i)] = t.desc[At(c, i)]

(* dma_packet_from_guest clears TX_VALID of the descriptors it took and of no
   other, and goes on behind them. *)
LEMMA KickRing ==
  ASSUME NEW t \in TxType, NEW o, NEW c \in TxSlots, NEW n \in 0..TxRing, NEW p, NEW z,
         Kicked(t, o, c, n, p, z)
  PROVE  Freed(t, c, n, z)
<1>0. /\ t.desc \in [TxSlots -> [valid : BOOLEAN, last : BOOLEAN, fragment : Nat]]
      /\ TxRing \in Nat \ {0} /\ n \in Nat
  BY RingAssumption DEF TxType
<1>1. /\ At(c, 1) = c
      /\ \A i \in 1..(TxRing + 1) : At(c, i) \in TxSlots
      /\ \A i, j \in 1..TxRing : At(c, i) = At(c, j) => i = j
      /\ \A i \in 1..TxRing : Advance(At(c, i), TxRing) = At(c, i + 1)
  BY AtFacts, Zenon
<1>2. ASSUME c = Current(t.next, TxRing) PROVE Current(z.tx.next, TxRing) = At(c, n + 1)
  <2>1. CASE n = 0
    <3>1. z.tx.next = t.next
      BY <2>1, Zenon DEF Kicked
    <3>2. n + 1 = 1
      BY <2>1
    <3> QED
      BY <1>1, <1>2, <3>1, <3>2, Zenon
  <2>2. CASE n # 0
    <3>1. z.tx.next = Advance(At(c, n), TxRing)
      BY <2>2, Zenon DEF Kicked
    <3>2. n \in 1..TxRing /\ n + 1 \in 1..(TxRing + 1)
      BY <1>0, <2>2
    <3>3. z.tx.next = At(c, n + 1) /\ At(c, n + 1) \in TxSlots
      BY <1>1, <3>1, <3>2, Zenon
    <3> QED
      BY <3>3, AtFacts, Zenon
  <2> QED
    BY <2>1, <2>2
<1>3. PICK u : u = {At(c, i) : i \in 1..n}
  BY Zenon
<1>4. z.tx.desc = [s \in TxSlots |-> IF s \in u THEN [t.desc[s] EXCEPT !.valid = FALSE]
                                     ELSE t.desc[s]]
  BY <1>3, Zenon DEF Kicked
<1>5. ASSUME NEW i \in 1..n PROVE ~z.tx.desc[At(c, i)].valid
  <2>1. At(c, i) \in TxSlots /\ At(c, i) \in u
    BY <1>0, <1>1, <1>3
  <2>2. PICK s \in TxSlots : s = At(c, i) /\ s \in u
    BY <2>1
  <2>3. z.tx.desc[s] = [t.desc[s] EXCEPT !.valid = FALSE]
    BY <1>4, <2>2, Zenon
  <2>4. t.desc[s] \in [valid : BOOLEAN, last : BOOLEAN, fragment : Nat]
    BY <1>0
  <2> QED
    BY <2>2, <2>3, <2>4
<1>6. ASSUME NEW i \in (n + 1)..TxRing PROVE z.tx.desc[At(c, i)] = t.desc[At(c, i)]
  <2>1. i \in 1..TxRing /\ i \notin 1..n /\ \A j \in 1..n : j \in 1..TxRing
    BY <1>0
  <2>2. At(c, i) \in TxSlots /\ At(c, i) \notin u
    BY <1>0, <1>1, <1>3, <2>1
  <2> QED
    BY <1>4, <2>2, Zenon
<1> QED
  BY <1>2, <1>5, <1>6, Zenon DEF Freed

(* What the network got, if it got anything, is one packet, whole. *)
Whole(o, rest) ==
  o # rest => LET n == Len(o) - Len(rest)
              IN o[n].last /\ \A i \in 1..(n - 1) : ~o[i].last

(* z is what a kick makes of the ring t, with o owed. *)
Kicks(t, q, o, z) == z = FromGuest([tx |-> t, irq |-> q, owed |-> o])

(* A kick, when the net client has a link: what is handed over and not sent is
   in tx_dma_buf and the ring still, and a packet that is sent is whole. *)
LEMMA KickSends ==
  ASSUME NEW t \in TxType, NEW o \in Owed, NEW q, NEW h, NEW z,
         Kicks(t, q, o, z), ~linkDown,
         NEW k \in 0..TxRing, HandedOver(t, o, h, k)
  PROVE  (\E j \in 0..TxRing : HandedOver(z.tx, z.owed, h, j)) /\ Whole(o, z.owed)
<1>0. /\ t.desc \in [TxSlots -> [valid : BOOLEAN, last : BOOLEAN, fragment : Nat]]
      /\ t.next \in Nat /\ t.buf \in Seq(Nat) /\ TxRing \in Nat \ {0}
  BY RingAssumption DEF TxType
<1>1. PICK c \in TxSlots : c = Current(t.next, TxRing)
  BY <1>0, CurrentIn, Zenon
<1>2. PICK n \in 0..TxRing : \E p :
        /\ Kicked(t, o, c, n, p, z)
        /\ \A i \in 1..n : t.desc[At(c, i)].valid
        /\ \A i \in 1..(n - 1) : ~t.desc[At(c, i)].last
        /\ \/ n = TxRing
           \/ ~t.desc[At(c, n + 1)].valid
           \/ n > 0 /\ t.desc[At(c, n)].last
  BY <1>1, KickedIs, Zenon DEF Kicks
<1>3. PICK p :
        /\ Kicked(t, o, c, n, p, z)
        /\ \A i \in 1..n : t.desc[At(c, i)].valid
        /\ \A i \in 1..(n - 1) : ~t.desc[At(c, i)].last
        /\ \/ n = TxRing
           \/ ~t.desc[At(c, n + 1)].valid
           \/ n > 0 /\ t.desc[At(c, n)].last
  BY <1>2, Zenon
<1>18. TxRing \in Nat \ {0}
  BY RingAssumption
<1>17. Kicked(t, o, c, n, p, z)
  BY <1>3, Zenon
<1>4. PICK b \in Nat : b = Len(t.buf)
  BY <1>0
<1>5. /\ \A i \in 1..TxRing : t.desc[At(c, i)].valid <=> i <= k
      /\ h = At(c, k + 1) /\ Len(o) = b + k
      /\ \A i \in 1..b : o[i] = [fragment |-> t.buf[i], last |-> FALSE]
      /\ \A i \in 1..k : /\ o[b + i].fragment = t.desc[At(c, i)].fragment
                         /\ o[b + i].last = t.desc[At(c, i)].last
  BY <1>1, <1>4, Zenon DEF HandedOver
<1>6. n <= k
  <2>1. CASE n = 0
    BY <2>1
  <2>2. CASE n # 0
    <3>1. n \in 1..n /\ n \in 1..TxRing
      BY <1>18, <2>2
    <3> QED
      BY <1>3, <1>5, <3>1, Zenon
  <2> QED
    BY <2>1, <2>2
<1>7. /\ z.tx \in TxType /\ z.owed \in Owed /\ p \in Seq(Nat) /\ Len(p) = b + n
      /\ \A i \in 1..b : p[i] = t.buf[i]
      /\ \A i \in 1..n : p[b + i] = t.desc[At(c, i)].fragment
  <2>1. z.tx \in TxType /\ z.owed \in Owed /\ Gathered(t, c, n, p)
    BY <1>17, KickType
  <2> QED
    BY <1>4, <2>1, Zenon DEF Gathered
<1>8. /\ Current(z.tx.next, TxRing) = At(c, n + 1)
      /\ \A i \in 1..n : ~z.tx.desc[At(c, i)].valid
      /\ \A i \in (n + 1)..TxRing : z.tx.desc[At(c, i)] = t.desc[At(c, i)]
  <2>1. Freed(t, c, n, z)
    BY <1>17, KickRing
  <2> QED
    BY <1>1, <2>1, Zenon DEF Freed
<1>9. PICK d \in TxSlots : d = At(c, n + 1)
  <2>1. n + 1 \in 1..(TxRing + 1)
    BY <1>18
  <2> QED
    BY <2>1, AtFacts, Zenon
<1>10. /\ \A i \in 1..(TxRing + 1) : n + i <= TxRing + 1 => At(d, i) = At(c, n + i)
       /\ \A i \in 1..(TxRing + 1) : n + i > TxRing => At(d, i) = At(c, n + i - TxRing)
  BY <1>9, AtOn, Zenon
<1>11. ASSUME NEW i \in 1..TxRing PROVE z.tx.desc[At(d, i)].valid <=> i <= k - n
  <2>1. CASE n + i <= TxRing
    <3>1. n + i \in (n + 1)..TxRing /\ n + i \in 1..TxRing /\ n + i <= TxRing + 1
          /\ i \in 1..(TxRing + 1) /\ (n + i <= k <=> i <= k - n)
      BY <1>18, <2>1
    <3>2. z.tx.desc[At(d, i)] = t.desc[At(c, n + i)]
      BY <1>8, <1>10, <3>1, Zenon
    <3> QED
      BY <1>5, <3>1, <3>2, Zenon
  <2>2. CASE n + i > TxRing
    <3>1. n + i - TxRing \in 1..n /\ i \in 1..(TxRing + 1) /\ ~(i <= k - n)
      BY <1>18, <2>2
    <3>2. ~z.tx.desc[At(d, i)].valid
      BY <1>8, <1>10, <2>2, <3>1, Zenon
    <3> QED
      BY <3>1, <3>2
  <2>3. n + i <= TxRing \/ n + i > TxRing
    BY <1>18
  <2> QED
    BY <2>1, <2>2, <2>3, Zenon
<1>12. h = At(d, k - n + 1)
  <2>1. k - n + 1 \in 1..(TxRing + 1) /\ n + (k - n + 1) <= TxRing + 1
        /\ n + (k - n + 1) = k + 1
    BY <1>18, <1>6
  <2> QED
    BY <1>5, <1>10, <2>1, Zenon
<1>13. k - n \in 0..TxRing /\ k \in Nat /\ n \in Nat
  BY <1>18, <1>6
<1>14. ASSUME NEW i \in 1..(k - n)
       PROVE  /\ n + i \in 1..k /\ z.tx.desc[At(d, i)] = t.desc[At(c, n + i)]
              /\ b + (n + i) = (b + n) + i
  <2>1. /\ n + i \in 1..k /\ n + i \in (n + 1)..TxRing /\ i \in 1..(TxRing + 1)
        /\ n + i <= TxRing + 1 /\ b + (n + i) = (b + n) + i
    BY <1>18, <1>13
  <2> QED
    BY <1>8, <1>10, <2>1, Zenon
<1>15. CASE n > 0 /\ t.desc[At(c, n)].last
  <2>1. z.tx.buf = <<>> /\ z.owed = SubSeq(o, Len(p) + 1, Len(o))
    BY <1>3, <1>15, Zenon DEF Kicked
  <2>2. b + n \in Nat /\ b + n <= Len(o) /\ Len(o) - (b + n) = k - n
    <3>1. Len(o) = b + k
      BY <1>5, Zenon
    <3> QED
      BY <1>6, <1>13, <3>1
  <2>3. /\ Len(z.owed) = k - n
        /\ \A i \in 1..(k - n) : z.owed[i] = o[(b + n) + i]
    <3>1. z.owed = SubSeq(o, (b + n) + 1, Len(o))
      BY <1>7, <2>1, Zenon
    <3>2. o \in Seq([fragment : Nat, last : BOOLEAN])
      BY DEF Owed
    <3>3. /\ Len(SubSeq(o, (b + n) + 1, Len(o))) = Len(o) - (b + n)
          /\ \A i \in 1..(Len(o) - (b + n)) : SubSeq(o, (b + n) + 1, Len(o))[i] = o[(b + n) + i]
      BY <2>2, <3>2, Remainder, Zenon
    <3> QED
      BY <2>2, <3>1, <3>3, Zenon
  <2>4. HandedOver(z.tx, z.owed, h, k - n)
    <3>1. Len(z.tx.buf) = 0 /\ 0 + (k - n) = k - n
      BY <1>13, <2>1
    <3>2. \A i \in 1..0 : z.owed[i] = [fragment |-> z.tx.buf[i], last |-> FALSE]
      <4>1. \A i : i \notin 1..0
        OBVIOUS
      <4> QED
        BY <4>1, Zenon
    <3>3. ASSUME NEW i \in 1..(k - n)
          PROVE  /\ z.owed[0 + i].fragment = z.tx.desc[At(d, i)].fragment
                 /\ z.owed[0 + i].last = z.tx.desc[At(d, i)].last
      <4>1. 0 + i = i
        BY <1>13
      <4>2. z.owed[0 + i] = o[b + (n + i)]
        BY <1>14, <2>3, <4>1, Zenon
      <4> QED
        BY <1>5, <1>14, <4>2, Zenon
    <3>4. Current(z.tx.next, TxRing) = d
      BY <1>8, <1>9, Zenon
    <3> QED
      BY <1>11, <1>12, <2>3, <3>1, <3>2, <3>3, <3>4, Zenon DEF HandedOver
  <2>5. Len(o) - Len(z.owed) = b + n
    <3>1. Len(o) = b + k /\ Len(z.owed) = k - n
      BY <1>5, <2>3, Zenon
    <3>2. (b + k) - (k - n) = b + n
      BY <1>13
    <3> QED
      BY <3>1, <3>2, Zenon
  <2>6. o[b + n].last
    <3>1. n \in 1..k
      BY <1>6, <1>13, <1>15
    <3> QED
      BY <1>5, <1>15, <3>1, Zenon
  <2>7. ASSUME NEW i \in 1..(b + n - 1) PROVE ~o[i].last
    <3>1. CASE i <= b
      <4>1. i \in 1..b
        BY <3>1
      <4>2. o[i] = [fragment |-> t.buf[i], last |-> FALSE]
        BY <1>5, <4>1, Zenon
      <4> QED
        BY <4>2, OwedFields, Zenon
    <3>2. CASE i > b
      <4>1. PICK j \in 1..(n - 1) : i = b + j
        <5>1. i - b \in 1..(n - 1) /\ i = b + (i - b)
          BY <1>13, <3>2
        <5> QED
          BY <5>1, Zenon
      <4>2. j \in 1..k
        BY <1>6, <1>13
      <4> QED
        BY <1>3, <1>5, <4>1, <4>2, Zenon
    <3> QED
      BY <3>1, <3>2
  <2>8. o[Len(o) - Len(z.owed)].last
    BY <2>5, <2>6, Zenon
  <2>9. \A i \in 1..(Len(o) - Len(z.owed) - 1) : ~o[i].last
    <3>1. PICK v \in Nat : v = Len(o) - Len(z.owed) /\ v = b + n
      BY <1>13, <2>5
    <3>2. ASSUME NEW i \in 1..(v - 1) PROVE i \in 1..(b + n - 1)
      BY <1>13, <3>1
    <3> QED
      BY <2>7, <3>1, <3>2, Zenon
  <2>10. Whole(o, z.owed)
    BY <2>8, <2>9, Zenon DEF Whole
  <2> QED
    BY <1>13, <2>4, <2>10, Zenon
<1>16. CASE ~(n > 0 /\ t.desc[At(c, n)].last)
  <2>1. z.tx.buf = p /\ z.owed = o
    BY <1>3, <1>16, Zenon DEF Kicked
  <2>2. n = k
    <3>1. CASE n = TxRing
      BY <1>6, <3>1
    <3>2. CASE n # TxRing
      <4>1. ~t.desc[At(c, n + 1)].valid
        BY <1>3, <1>16, <3>2, Zenon
      <4>2. n + 1 \in 1..TxRing
        BY <1>18, <3>2
      <4>3. ~(n + 1 <= k)
        BY <1>5, <4>1, <4>2, Zenon
      <4> QED
        BY <1>6, <1>13, <4>3
    <3> QED
      BY <3>1, <3>2
  <2>3. HandedOver(z.tx, z.owed, h, 0)
    <3>1. Len(z.tx.buf) = b + n /\ (b + n) + 0 = b + k /\ k - n = 0
      <4>1. Len(z.tx.buf) = b + n
        BY <1>7, <2>1, Zenon
      <4> QED
        BY <1>13, <2>2, <4>1
    <3>2. ASSUME NEW i \in 1..(b + n) PROVE o[i] = [fragment |-> p[i], last |-> FALSE]
      <4>1. CASE i <= b
        <5>1. i \in 1..b
          BY <4>1
        <5> QED
          BY <1>5, <1>7, <5>1, Zenon
      <4>2. CASE i > b
        <5>1. PICK j \in 1..n : i = b + j
          <6>1. i - b \in 1..n /\ i = b + (i - b)
            BY <1>13, <4>2
          <6> QED
            BY <6>1, Zenon
        <5>2. o[i].fragment = t.desc[At(c, j)].fragment /\ o[i].last = t.desc[At(c, j)].last
          BY <1>5, <2>2, <5>1, Zenon
        <5>3. ~t.desc[At(c, j)].last
          <6>1. CASE j = n
            BY <1>13, <1>16, <6>1
          <6>2. CASE j # n
            <7>1. j \in 1..(n - 1)
              BY <1>13, <6>2
            <7> QED
              BY <1>3, <7>1, Zenon
          <6> QED
            BY <6>1, <6>2
        <5>4. p[i] = t.desc[At(c, j)].fragment
          BY <1>7, <5>1, Zenon
        <5>5. o[i] \in [fragment : Nat, last : BOOLEAN]
          <6>1. i \in 1..Len(o)
            BY <1>5, <1>13, <2>2, Zenon
          <6>2. o \in Seq([fragment : Nat, last : BOOLEAN])
            BY Zenon DEF Owed
          <6> QED
            BY <6>1, <6>2, ElementIn, Zenon
        <5> QED
          BY <5>2, <5>3, <5>4, <5>5, Zenon
      <4>3. i <= b \/ i > b
        BY <1>13
      <4> QED
        BY <4>1, <4>2, <4>3, Zenon
    <3>3. \A i \in 1..0 : FALSE
      OBVIOUS
    <3>4. Current(z.tx.next, TxRing) = d
      BY <1>8, <1>9, Zenon
    <3>5. h = At(d, 0 + 1) /\ \A i \in 1..TxRing : z.tx.desc[At(d, i)].valid <=> i <= 0
      BY <1>11, <1>12, <3>1
    <3>6. Len(o) = (b + n) + 0
      BY <1>5, <3>1, Zenon
    <3> QED
      BY <2>1, <3>1, <3>2, <3>3, <3>4, <3>5, <3>6, Zenon DEF HandedOver
  <2>4. 0 \in 0..TxRing
    BY <1>0
  <2> QED
    BY <2>1, <2>3, <2>4, Zenon DEF Whole
<1> QED
  BY <1>15, <1>16, Zenon

(* The send ring the driver sets up. *)
FreshTx == [s \in TxSlots |-> FreeTx]

(* In it nothing is handed over. *)
LEMMA FreshRing ==
  ASSUME NEW next \in {0, Base}
  PROVE  LET t == [desc |-> FreshTx, next |-> next, buf |-> <<>>]
         IN t \in TxType /\ HandedOver(t, <<>>, Base, 0)
<1>0. TxRing \in Nat \ {0}
  BY RingAssumption
<1>1. FreshTx \in [TxSlots -> [valid : BOOLEAN, last : BOOLEAN, fragment : Nat]]
      /\ \A s \in TxSlots : ~FreshTx[s].valid
  BY DEF FreshTx, FreeTx, None
<1>2. PICK t : t = [desc |-> FreshTx, next |-> next, buf |-> <<>>]
  BY Zenon
<1>3. t.desc = FreshTx /\ t.next = next /\ t.buf = <<>>
  BY <1>2
<1>4. t \in TxType
  BY <1>1, <1>2 DEF TxType, Base
<1>5. Current(t.next, TxRing) = Base /\ Base \in TxSlots
  BY <1>0, <1>3 DEF Current, Base, TxSlots
<1>6. ASSUME NEW i \in 1..TxRing PROVE t.desc[At(Base, i)].valid <=> i <= 0
  <2>1. At(Base, i) \in TxSlots /\ ~(i <= 0)
    BY <1>0, <1>5, AtFacts
  <2> QED
    BY <1>1, <1>3, <2>1
<1>7. Base = At(Base, 0 + 1)
  BY <1>0 DEF At, Base
<1>8. Len(t.buf) = 0 /\ Len(<<>>) = 0 + 0 /\ \A i \in 1..0 : FALSE
  BY <1>3
<1>9. HandedOver(t, <<>>, Base, 0)
  BY <1>5, <1>6, <1>7, <1>8, Zenon DEF HandedOver
<1> QED
  BY <1>2, <1>4, <1>9

(* After nvnet_reset nothing is owed. *)
LEMMA InitTx == Init => TxInv
<1> SUFFICES ASSUME Init PROVE TxInv
  OBVIOUS
<1>1. /\ tx = [desc |-> FreshTx, next |-> 0, buf |-> <<>>]
      /\ owed = <<>> /\ torn = FALSE /\ saved = {} /\ guest.up = FALSE
  BY Zenon DEF Init, FreshTx
<1>2. tx \in TxType
  BY <1>1, FreshRing
<1>3. tx.next = 0 /\ tx.buf = <<>> /\ owed \in Owed
  BY <1>1 DEF Owed
<1>4. Sending(tx, owed, guest.up, guest.head, torn)
  BY <1>1, <1>2, <1>3, Zenon DEF Sending
<1> QED
  BY <1>1, <1>4, Zenon DEF TxInv

(* The steps that leave the send ring and what is owed alone. *)
LEMMA QuietTx ==
  ASSUME TxInv, UNCHANGED <<tx, owed, torn, saved>>,
         guest'.up = guest.up, guest'.head = guest.head
  PROVE  TxInv'
BY Zenon DEF TxInv

(* Frames that arrive, the link, and the guest's other registers are no matter
   of the send ring. *)
LEMMA QuietStepsTx ==
  ASSUME TxInv, guest \in GuestType,
         \/ \E kind \in Kinds : Arrive(kind)
         \/ AutonegTimer \/ NetEnable \/ NetDisable
         \/ GuestStop \/ GuestBit1 \/ GuestMask \/ GuestPhy \/ Isr
  PROVE  TxInv'
<1>1. CASE \/ \E kind \in Kinds : Arrive(kind)
           \/ AutonegTimer \/ NetEnable \/ NetDisable
           \/ GuestStop \/ GuestMask \/ GuestPhy
  <2>1. UNCHANGED <<tx, owed, torn, saved, guest>>
    BY <1>1, Zenon DEF Arrive, AutonegTimer, NetEnable, NetDisable, GuestStop, GuestMask,
                       GuestPhy
  <2> QED
    BY <2>1, QuietTx
<1>2. CASE GuestBit1
  <2>1. /\ tx' = tx /\ owed' = owed
    <3>1. TxRxControl({"bit1"})
      BY <1>2 DEF GuestBit1
    <3>2. "kick" \notin {"bit1"} /\ "reset" \notin {"bit1"}
      OBVIOUS
    <3>3. PICK t, val : t = [tx |-> tx, irq |-> irq, owed |-> owed] /\ val = {"bit1"}
      BY Zenon
    <3>4. /\ tx' = t.tx /\ owed' = t.owed
      BY <3>1, <3>2, <3>3, Zenon DEF TxRxControl
    <3> QED
      BY <3>3, <3>4
  <2>2. UNCHANGED <<torn, saved, guest>>
    BY <1>2 DEF GuestBit1
  <2> QED
    BY <2>1, <2>2, QuietTx
<1>3. CASE Isr
  <2>1. UNCHANGED <<tx, owed, torn, saved>>
    BY <1>3, Zenon DEF Isr, IsrRead, IsrAck, IsrTake, IsrDone
  <2>2. \E a, b, c, d : guest' = [guest EXCEPT !.pc = a, !.seen = b, !.tail = c, !.got = d]
    <3>1. guest = [guest EXCEPT !.pc = guest.pc, !.seen = guest.seen, !.tail = guest.tail,
                                !.got = guest.got]
      BY Zenon DEF GuestType
    <3>2. CASE IsrRead
      <4>1. guest' = [guest EXCEPT !.pc = "ack", !.seen = irq.status, !.tail = guest.tail,
                                   !.got = guest.got]
        BY <3>2, Zenon DEF IsrRead, GuestType
      <4> QED
        BY <4>1, Zenon
    <3>3. CASE IsrAck
      <4>1. guest' = [guest EXCEPT !.pc = "rx", !.seen = {}, !.tail = guest.tail,
                                   !.got = guest.got]
        BY <3>3, Zenon DEF IsrAck, GuestType
      <4> QED
        BY <4>1, Zenon
    <3>4. CASE IsrTake
      <4>1. guest' = [guest EXCEPT !.pc = guest.pc, !.seen = guest.seen,
                                   !.tail = Advance(@, RxRing),
                                   !.got = @ \cup {rx.desc[guest.tail].frame}]
        BY <3>4, Zenon DEF IsrTake, GuestType
      <4> QED
        BY <4>1, Zenon
    <3>5. CASE IsrDone
      <4>1. guest' = [guest EXCEPT !.pc = "run", !.seen = guest.seen, !.tail = guest.tail,
                                   !.got = guest.got]
        BY <3>5, Zenon DEF IsrDone, GuestType
      <4> QED
        BY <4>1, Zenon
    <3> QED
      BY <1>3, <3>2, <3>3, <3>4, <3>5, Zenon DEF Isr
  <2>3. guest'.up = guest.up /\ guest'.head = guest.head
    BY <2>2 DEF GuestType
  <2> QED
    BY <2>1, <2>3, QuietTx
<1> QED
  BY <1>1, <1>2, <1>3

(* Resets: the machine's, and the guest's of the rings. *)
LEMMA ResetTx ==
  ASSUME TxInv, guest \in GuestType, MachineReset \/ GuestReset
  PROVE  TxInv'
<1>0. tx \in TxType /\ torn \in BOOLEAN
  BY DEF TxInv, Sending
<1>1. /\ tx' = [tx EXCEPT !.next = 0, !.buf = <<>>] \/ tx' = [tx EXCEPT !.next = Base, !.buf = <<>>]
      /\ owed' = <<>>
  <2>1. CASE MachineReset
    BY <2>1, Zenon DEF MachineReset
  <2>2. CASE GuestReset
    <3>1. TxRxControl({"reset", "bit2"})
      BY <2>2 DEF GuestReset
    <3>2. "kick" \notin {"reset", "bit2"} /\ "reset" \in {"reset", "bit2"}
      OBVIOUS
    <3>3. PICK t, val : t = [tx |-> tx, irq |-> irq, owed |-> owed] /\ val = {"reset", "bit2"}
      BY Zenon
    <3>4. tx' = [t.tx EXCEPT !.next = Base, !.buf = <<>>] /\ owed' = <<>>
      BY <3>1, <3>2, <3>3, Zenon DEF TxRxControl
    <3>5. t.tx = tx
      BY <3>3
    <3> QED
      BY <3>4, <3>5, Zenon
  <2> QED
    BY <2>1, <2>2
<1>2. UNCHANGED <<torn, saved>> /\ guest'.up = FALSE
  <2>1. UNCHANGED <<torn, saved>>
    BY Zenon DEF MachineReset, GuestReset
  <2>2. \/ guest' = [guest EXCEPT !.pc = "run", !.seen = {}, !.up = FALSE]
        \/ guest' = [guest EXCEPT !.up = FALSE]
    BY Zenon DEF MachineReset, GuestReset
  <2> QED
    BY <2>1, <2>2, Zenon DEF GuestType
<1>3. tx' \in TxType /\ tx'.next \in {0, Base} /\ tx'.buf = <<>> /\ owed' \in Owed
  <2>1. PICK n \in {0, Base} : tx' = [tx EXCEPT !.next = n, !.buf = <<>>]
    BY <1>1
  <2>2. n \in Nat
    BY DEF Base
  <2>3. tx' \in TxType /\ tx'.next = n /\ tx'.buf = <<>>
    <3>0. <<>> \in Seq(Nat)
      OBVIOUS
    <3>1. PICK b \in Seq(Nat) : b = <<>>
      BY <3>0, Zenon
    <3>2. tx' = [tx EXCEPT !.next = n, !.buf = b]
      BY <2>1, <3>1, Zenon
    <3>3. tx' \in TxType /\ tx'.next = n /\ tx'.buf = b
      BY <1>0, <2>2, <3>2, Zenon DEF TxType
    <3> QED
      BY <3>1, <3>3, Zenon
  <2>4. owed' \in Owed
    BY <1>1 DEF Owed
  <2> QED
    BY <2>3, <2>4
<1>4. Sending(tx', owed', guest'.up, guest'.head, torn')
  BY <1>1, <1>2, <1>3, Zenon DEF Sending
<1> QED
  BY <1>0, <1>2, <1>4, Zenon DEF TxInv

(* Snapshots. *)
LEMMA SnapshotTx ==
  ASSUME TxInv, Save \/ Load
  PROVE  TxInv'
<1>0. /\ torn \in BOOLEAN /\ Sending(tx, owed, guest.up, guest.head, torn)
      /\ \A z \in saved : /\ z.torn \in BOOLEAN
                          /\ Sending(z.tx, z.owed, z.guest.up, z.guest.head, z.torn)
  BY Zenon DEF TxInv
<1>1. CASE Save
  <2>1. UNCHANGED <<tx, owed, guest, torn>>
    BY <1>1, Zenon DEF Save
  <2>2. PICK v : saved' = {[tx |-> tx, rx |-> v.rx, ctl |-> ctl, irq |-> v.irq, phy |-> phy,
                            guest |-> guest, owed |-> owed, torn |-> torn]}
    BY <1>1, Zenon DEF Save
  <2>3. \A z \in saved' : z.tx = tx /\ z.owed = owed /\ z.guest = guest /\ z.torn = torn
    BY <2>2
  <2> QED
    BY <1>0, <2>1, <2>3, Zenon DEF TxInv
<1>2. CASE Load
  <2>1. PICK z \in saved :
          /\ tx' = [z.tx EXCEPT !.buf = <<>>] /\ guest' = z.guest /\ owed' = z.owed
          /\ torn' = (z.torn \/ z.tx.buf # <<>>)
    BY <1>2, Zenon DEF Load
  <2>2. saved' = saved
    BY <1>2, Zenon DEF Load
  <2>3. z.torn \in BOOLEAN /\ Sending(z.tx, z.owed, z.guest.up, z.guest.head, z.torn)
    BY <1>0, Zenon
  <2>4. z.tx \in TxType /\ z.owed \in Owed
    BY <2>3, Zenon DEF Sending
  <2>5. /\ tx' \in TxType /\ tx'.next = z.tx.next /\ tx'.buf = <<>>
        /\ z.tx.buf = <<>> => tx' = z.tx
    <3>1. PICK t \in TxType : t = z.tx /\ tx' = [t EXCEPT !.buf = <<>>]
      BY <2>1, <2>4
    <3>5. \A b \in Seq(Nat) : [t EXCEPT !.buf = b] \in TxType
      BY Zenon DEF TxType
    <3>6. <<>> \in Seq(Nat)
      OBVIOUS
    <3>2. [t EXCEPT !.buf = <<>>] \in TxType
      BY <3>5, <3>6, Zenon
    <3>3. [t EXCEPT !.buf = <<>>].next = t.next /\ [t EXCEPT !.buf = <<>>].buf = <<>>
      BY DEF TxType
    <3>4. t.buf = <<>> => [t EXCEPT !.buf = <<>>] = t
      BY DEF TxType
    <3> QED
      BY <3>1, <3>2, <3>3, <3>4, Zenon
  <2>6. torn' \in BOOLEAN /\ (~torn' => ~z.torn /\ z.tx.buf = <<>>)
    BY <2>1, <2>3, Zenon
  <2>7. Sending(tx', owed', guest'.up, guest'.head, torn')
    BY <2>1, <2>3, <2>4, <2>5, <2>6, Zenon DEF Sending
  <2> QED
    BY <1>0, <2>2, <2>6, <2>7, Zenon DEF TxInv
<1> QED
  BY <1>1, <1>2

(* The guest sets up its rings. *)
LEMMA GuestInitTx ==
  ASSUME TxInv, guest \in GuestType, GuestInit
  PROVE  TxInv'
<1>1. /\ tx' = [tx EXCEPT !.desc = FreshTx] /\ torn' = FALSE /\ UNCHANGED <<owed, saved>>
      /\ guest' = [guest EXCEPT !.up = TRUE, !.head = Base, !.tail = Base] /\ ~guest.up
  BY Zenon DEF GuestInit, FreshTx
<1>2. tx \in TxType /\ tx.next \in {0, Base} /\ tx.buf = <<>> /\ owed = <<>>
  BY <1>1, Zenon DEF TxInv, Sending
<1>3. tx' = [desc |-> FreshTx, next |-> tx.next, buf |-> <<>>]
  BY <1>1, <1>2 DEF TxType
<1>4. tx' \in TxType /\ HandedOver(tx', <<>>, Base, 0)
  BY <1>2, <1>3, FreshRing
<1>5. guest'.up = TRUE /\ guest'.head = Base
  BY <1>1 DEF GuestType
<1>6. 0 \in 0..TxRing /\ owed' \in Owed /\ owed' = <<>>
  BY <1>1, <1>2, RingAssumption DEF Owed
<1>7. Sending(tx', owed', guest'.up, guest'.head, torn')
  BY <1>4, <1>5, <1>6, Zenon DEF Sending
<1> QED
  BY <1>1, <1>7, Zenon DEF TxInv

(* The guest hands a fragment over, behind those it handed over before. *)
LEMMA GiveHandsOver ==
  ASSUME NEW t \in TxType, NEW o \in Owed, NEW c \in TxSlots, NEW k \in 0..TxRing,
         NEW h \in TxSlots,
         c = Current(t.next, TxRing),
         HandedOver(t, o, h, k), ~t.desc[h].valid, NEW g \in Nat, NEW last \in BOOLEAN,
         NEW y, y = [t EXCEPT !.desc = [@ EXCEPT ![h] = [valid |-> TRUE, last |-> last,
                                                         fragment |-> g]]]
  PROVE  /\ k + 1 \in 0..TxRing
         /\ HandedOver(y, Append(o, [fragment |-> g, last |-> last]), Advance(h, TxRing), k + 1)
<1>0. /\ t.desc \in [TxSlots -> [valid : BOOLEAN, last : BOOLEAN, fragment : Nat]]
      /\ t.next \in Nat /\ t.buf \in Seq(Nat) /\ TxRing \in Nat \ {0}
  BY RingAssumption DEF TxType
<1>1. PICK b \in Nat : b = Len(t.buf)
  <2>1. Len(t.buf) \in Nat
    BY <1>0
  <2> QED
    BY <2>1, Zenon
<1>2. /\ \A i \in 1..TxRing : t.desc[At(c, i)].valid <=> i <= k
      /\ h = At(c, k + 1) /\ Len(o) = b + k
      /\ \A i \in 1..b : o[i] = [fragment |-> t.buf[i], last |-> FALSE]
      /\ \A i \in 1..k : /\ o[b + i].fragment = t.desc[At(c, i)].fragment
                         /\ o[b + i].last = t.desc[At(c, i)].last
  BY <1>1, Zenon DEF HandedOver
<1>3. /\ At(c, 1) = c /\ At(c, TxRing + 1) = c
      /\ \A i \in 1..(TxRing + 1) : At(c, i) \in TxSlots
      /\ \A i, j \in 1..TxRing : At(c, i) = At(c, j) => i = j
      /\ \A i \in 1..TxRing : Advance(At(c, i), TxRing) = At(c, i + 1)
  BY AtFacts, Zenon
<1>4. k + 1 \in 1..TxRing /\ k + 1 \in 0..TxRing /\ k \in Nat
  <2>1. CASE k = TxRing
    <3>1. 1 \in 1..TxRing /\ 1 <= k /\ k + 1 = TxRing + 1
      BY <1>0, <2>1
    <3>2. h = At(c, 1) /\ t.desc[At(c, 1)].valid
      BY <1>2, <1>3, <3>1, Zenon
    <3> QED
      BY <3>2, Zenon
  <2>2. CASE k # TxRing
    BY <1>0, <2>2
  <2> QED
    BY <2>1, <2>2
<1>5. PICK d : d = [t.desc EXCEPT ![h] = [valid |-> TRUE, last |-> last, fragment |-> g]]
  BY Zenon
<1>6. y.desc = d /\ y.next = t.next /\ y.buf = t.buf
  BY <1>5 DEF TxType
<1>7. d[h] = [valid |-> TRUE, last |-> last, fragment |-> g]
      /\ \A s \in TxSlots \ {h} : d[s] = t.desc[s]
  BY <1>0, <1>5
<1>8. ASSUME NEW i \in 1..TxRing, i # k + 1 PROVE d[At(c, i)] = t.desc[At(c, i)]
  <2>1. i \in 1..(TxRing + 1)
    BY <1>0
  <2>2. At(c, i) \in TxSlots /\ At(c, i) # h
    BY <1>2, <1>3, <1>4, <1>8, <2>1, Zenon
  <2> QED
    BY <1>7, <2>2
<1>9. ASSUME NEW i \in 1..TxRing PROVE d[At(c, i)].valid <=> i <= k + 1
  <2>1. CASE i = k + 1
    BY <1>2, <1>4, <1>7, <2>1
  <2>2. CASE i # k + 1
    <3>1. i <= k <=> i <= k + 1
      BY <1>4, <2>2
    <3>2. d[At(c, i)] = t.desc[At(c, i)] /\ (t.desc[At(c, i)].valid <=> i <= k)
      BY <1>2, <1>8, <2>2, Zenon
    <3> QED
      BY <3>1, <3>2, Zenon
  <2> QED
    BY <2>1, <2>2
<1>10. Advance(h, TxRing) = At(c, (k + 1) + 1)
  BY <1>2, <1>3, <1>4, Zenon
<1>11. PICK r, e : r = Append(o, e) /\ e = [fragment |-> g, last |-> last]
  BY Zenon
<1>12. /\ Len(r) = Len(o) + 1 /\ r[Len(o) + 1] = e
       /\ \A i \in 1..Len(o) : r[i] = o[i]
  <2>1. PICK S : o \in Seq(S) /\ e \in S
    BY <1>11, Zenon DEF Owed
  <2> QED
    BY <1>11, <2>1
<1>13. /\ Len(r) = b + (k + 1) /\ Len(o) + 1 = b + (k + 1)
       /\ \A i \in 1..b : i \in 1..Len(o)
       /\ \A i \in 1..k : b + i \in 1..Len(o)
  <2>1. Len(o) = b + k /\ Len(r) = (b + k) + 1
    BY <1>2, <1>12, Zenon
  <2>2. /\ (b + k) + 1 = b + (k + 1)
        /\ \A i \in 1..b : i \in 1..(b + k)
        /\ \A i \in 1..k : b + i \in 1..(b + k)
    BY <1>4
  <2> QED
    BY <2>1, <2>2, Zenon
<1>14. \A i \in 1..b : r[i] = [fragment |-> t.buf[i], last |-> FALSE]
  BY <1>2, <1>12, <1>13, Zenon
<1>15. ASSUME NEW i \in 1..(k + 1)
       PROVE  r[b + i].fragment = d[At(c, i)].fragment /\ r[b + i].last = d[At(c, i)].last
  <2>1. CASE i = k + 1
    <3>1. r[b + i] = e /\ d[At(c, i)] = [valid |-> TRUE, last |-> last, fragment |-> g]
      BY <1>2, <1>7, <1>12, <1>13, <2>1, Zenon
    <3>2. PICK w : w = [valid |-> TRUE, last |-> last, fragment |-> g]
      BY Zenon
    <3>3. e.fragment = w.fragment /\ e.last = w.last
      BY <1>11, <3>2
    <3> QED
      BY <3>1, <3>2, <3>3, Zenon
  <2>2. CASE i # k + 1
    <3>1. i \in 1..k /\ i \in 1..TxRing
      BY <1>0, <1>4, <2>2
    <3>2. r[b + i] = o[b + i] /\ d[At(c, i)] = t.desc[At(c, i)]
      BY <1>8, <1>12, <1>13, <2>2, <3>1, Zenon
    <3> QED
      BY <1>2, <3>1, <3>2, Zenon
  <2> QED
    BY <2>1, <2>2
<1>17. Current(y.next, TxRing) = c /\ Len(y.buf) = b
  BY <1>1, <1>6, Zenon
<1>18. /\ \A i \in 1..TxRing : y.desc[At(c, i)].valid <=> i <= k + 1
       /\ \A i \in 1..b : r[i] = [fragment |-> y.buf[i], last |-> FALSE]
       /\ \A i \in 1..(k + 1) : /\ r[b + i].fragment = y.desc[At(c, i)].fragment
                               /\ r[b + i].last = y.desc[At(c, i)].last
  <2>1. \A i \in 1..TxRing : y.desc[At(c, i)].valid <=> i <= k + 1
    BY <1>6, <1>9, Zenon
  <2>2. \A i \in 1..b : r[i] = [fragment |-> y.buf[i], last |-> FALSE]
    BY <1>6, <1>14, Zenon
  <2>3. \A i \in 1..(k + 1) : /\ r[b + i].fragment = y.desc[At(c, i)].fragment
                              /\ r[b + i].last = y.desc[At(c, i)].last
    BY <1>6, <1>15, Zenon
  <2> QED
    BY <2>1, <2>2, <2>3, Zenon
<1>19. Len(r) = b + (k + 1)
  BY <1>13, Zenon
<1>16. HandedOver(y, r, Advance(h, TxRing), k + 1)
  BY <1>10, <1>17, <1>18, <1>19, Zenon DEF HandedOver
<1> QED
  BY <1>4, <1>11, <1>16, Zenon

(* A fragment the guest hands over is owed, and is in the ring. *)
LEMMA GiveTx ==
  ASSUME TxInv, guest \in GuestType, NEW last \in BOOLEAN, GuestGive(last)
  PROVE  TxInv'
<1>0. /\ torn \in BOOLEAN /\ tx \in TxType /\ owed \in Owed
      /\ guest.up /\ ~torn => \E k \in 0..TxRing : HandedOver(tx, owed, guest.head, k)
  BY Zenon DEF TxInv, Sending
<1>1. PICK t \in TxType, o \in Owed, h \in TxSlots, g \in Nat :
        t = tx /\ o = owed /\ h = guest.head /\ g = guest.given + 1
  <2>1. guest.head \in TxSlots /\ guest.given + 1 \in Nat
    BY DEF GuestType
  <2> QED
    BY <1>0, <2>1, Zenon
<1>2. PICK e : e = [fragment |-> g, last |-> last]
  BY Zenon
<1>3. /\ guest.up /\ ~t.desc[h].valid
      /\ tx' = [t EXCEPT !.desc = [@ EXCEPT ![h] = [valid |-> TRUE, last |-> last, fragment |-> g]]]
      /\ owed' = Append(o, e) /\ UNCHANGED <<torn, saved>>
      /\ guest' = [guest EXCEPT !.given = @ + 1, !.head = Advance(@, TxRing)]
  BY <1>1, <1>2 DEF GuestGive
<1>4. guest'.up = guest.up /\ guest'.head = Advance(h, TxRing)
  BY <1>1, <1>3, Zenon DEF GuestType
<1>5. t.desc \in [TxSlots -> [valid : BOOLEAN, last : BOOLEAN, fragment : Nat]] /\ t.next \in Nat
  BY DEF TxType
<1>6. tx' \in TxType
  <2>1. PICK d : d = [t.desc EXCEPT ![h] = [valid |-> TRUE, last |-> last, fragment |-> g]]
    BY Zenon
  <2>2. d \in [TxSlots -> [valid : BOOLEAN, last : BOOLEAN, fragment : Nat]]
    BY <1>5, <2>1
  <2>3. tx' = [t EXCEPT !.desc = d]
    BY <1>3, <2>1
  <2> QED
    BY <2>2, <2>3, Zenon DEF TxType
<1>7. owed' \in Owed
  BY <1>2, <1>3 DEF Owed
<1>8. ASSUME ~torn PROVE \E k \in 0..TxRing : HandedOver(tx', owed', guest'.head, k)
  <2>1. PICK k \in 0..TxRing : HandedOver(t, o, h, k)
    BY <1>0, <1>1, <1>3, <1>8, Zenon
  <2>2. PICK c \in TxSlots : c = Current(t.next, TxRing)
    BY <1>5, CurrentIn
  <2>3. k + 1 \in 0..TxRing /\ HandedOver(tx', Append(o, e), Advance(h, TxRing), k + 1)
    BY <1>2, <1>3, <2>1, <2>2, GiveHandsOver
  <2> QED
    BY <1>3, <1>4, <2>3, Zenon
<1>9. Sending(tx', owed', guest'.up, guest'.head, torn')
  BY <1>3, <1>4, <1>6, <1>7, <1>8, Zenon DEF Sending
<1> QED
  BY <1>0, <1>3, <1>9, Zenon DEF TxInv

(* A kick: what dma_packet_from_guest takes goes to tx_dma_buf, or is sent. *)
LEMMA KickTx ==
  ASSUME TxInv, LinkInv, GuestKick
  PROVE  /\ TxInv'
         /\ ~torn => Whole(owed, owed')
<1>0. /\ torn \in BOOLEAN /\ Sending(tx, owed, guest.up, guest.head, torn)
      /\ tx \in TxType /\ owed \in Owed
  BY Zenon DEF TxInv, Sending
<1>1. guest.up /\ UNCHANGED <<guest, torn, saved>>
  BY Zenon DEF GuestKick
<1>2. PICK t \in TxType, o \in Owed : t = tx /\ o = owed
  BY <1>0
<1>3. PICK z : z = FromGuest([tx |-> t, irq |-> irq, owed |-> o])
  OBVIOUS
<1>4. \/ tx' = tx /\ owed' = owed
      \/ tx' = z.tx /\ owed' = z.owed /\ ~linkDown
  <2>1. TxRxControl({"kick"})
    BY DEF GuestKick
  <2>2. "kick" \in {"kick"} /\ "reset" \notin {"kick"} /\ "bit2" \notin {"kick"}
    OBVIOUS
  <2>3. PICK f, val : f = [tx |-> tx, irq |-> irq, owed |-> owed] /\ val = {"kick"}
    BY Zenon
  <2>4. f.tx = tx /\ f.owed = owed
    BY <2>3
  <2>5. CASE CanTransmit("bit2" \in val)
    <3>1. phy.link
      BY <2>5, Zenon DEF CanTransmit
    <3>2. ~linkDown
      BY <3>1, Zenon DEF LinkInv, LinkIsReal
    <3>3. tx' = FromGuest(f).tx /\ owed' = FromGuest(f).owed
      BY <2>1, <2>2, <2>3, <2>5, Zenon DEF TxRxControl
    <3>4. z = FromGuest(f)
      BY <1>2, <1>3, <2>3, Zenon
    <3> QED
      BY <3>2, <3>3, <3>4, Zenon
  <2>6. CASE ~CanTransmit("bit2" \in val)
    <3>1. tx' = f.tx /\ owed' = f.owed
      BY <2>1, <2>2, <2>3, <2>6, Zenon DEF TxRxControl
    <3> QED
      BY <2>4, <3>1
  <2> QED
    BY <2>5, <2>6
<1>5. CASE tx' = tx /\ owed' = owed
  BY <1>1, <1>5, Zenon DEF TxInv, Whole
<1>6. CASE tx' = z.tx /\ owed' = z.owed /\ ~linkDown
  <2>1. tx' \in TxType /\ owed' \in Owed
    <3>1. PICK c \in TxSlots : c = Current(t.next, TxRing)
      <4>1. t.next \in Nat
        BY DEF TxType
      <4> QED
        BY <4>1, CurrentIn
    <3>2. \E n \in 0..TxRing : \E p : Kicked(t, o, c, n, p, z)
      BY <1>3, <3>1, KickedIs, Zenon
    <3>3. PICK n \in 0..TxRing : \E p : Kicked(t, o, c, n, p, z)
      BY <3>2, Zenon
    <3>4. PICK p : Kicked(t, o, c, n, p, z)
      BY <3>3, Zenon
    <3>5. z.tx \in TxType /\ z.owed \in Owed
      BY <3>4, KickType
    <3> QED
      BY <1>6, <3>5, Zenon
  <2>2. ASSUME ~torn
        PROVE  /\ \E j \in 0..TxRing : HandedOver(z.tx, z.owed, guest.head, j)
               /\ Whole(o, z.owed)
    <3>0. PICK q, h : q = irq /\ h = guest.head
      OBVIOUS
    <3>1. PICK k \in 0..TxRing : HandedOver(t, o, h, k)
      BY <1>0, <1>1, <1>2, <2>2, <3>0, Zenon DEF Sending
    <3>2. Kicks(t, q, o, z) /\ ~linkDown
      BY <1>3, <1>6, <3>0, Zenon DEF Kicks
    <3>3. (\E j \in 0..TxRing : HandedOver(z.tx, z.owed, h, j)) /\ Whole(o, z.owed)
      BY <3>1, <3>2, KickSends
    <3> QED
      BY <3>0, <3>3, Zenon
  <2>3. Sending(tx', owed', guest'.up, guest'.head, torn')
    BY <1>1, <1>6, <2>1, <2>2, Zenon DEF Sending
  <2>4. TxInv'
    BY <1>0, <1>1, <2>3, Zenon DEF TxInv
  <2>5. ~torn => Whole(owed, owed')
    BY <1>2, <1>6, <2>2, Zenon
  <2> QED
    BY <2>4, <2>5
<1> QED
  BY <1>4, <1>5, <1>6

(* Every step keeps the invariant of sending. *)
LEMMA StepTx == TxInv /\ LinkInv /\ guest \in GuestType /\ [Next]_vars => TxInv'
<1> SUFFICES ASSUME TxInv, LinkInv, guest \in GuestType, [Next]_vars PROVE TxInv'
  OBVIOUS
<1>1. CASE UNCHANGED vars
  <2>1. UNCHANGED <<tx, owed, torn, saved, guest>>
    BY <1>1 DEF vars
  <2> QED
    BY <2>1, QuietTx, Zenon
<1>2. CASE \/ \E kind \in Kinds : Arrive(kind)
           \/ AutonegTimer \/ NetEnable \/ NetDisable
           \/ GuestStop \/ GuestBit1 \/ GuestMask \/ GuestPhy \/ Isr
  BY <1>2, QuietStepsTx, Zenon
<1>3. CASE MachineReset \/ GuestReset
  BY <1>3, ResetTx, Zenon
<1>4. CASE Save \/ Load
  BY <1>4, SnapshotTx, Zenon
<1>5. CASE GuestInit
  BY <1>5, GuestInitTx, Zenon
<1>6. CASE \E last \in BOOLEAN : GuestGive(last)
  BY <1>6, GiveTx, Zenon
<1>7. CASE GuestKick
  BY <1>7, KickTx, Zenon
<1> QED
  BY <1>1, <1>2, <1>3, <1>4, <1>5, <1>6, <1>7, Zenon DEF Next, Host, Guest

(* The invariant of sending. *)
THEOREM SendInvariant == Safety => []TxInv
<1>1. RxInv => guest \in GuestType
  BY DEF RxInv, Plain
<1> QED
  BY <1>1, InitTx, StepTx, LinkInvariant, ReceiveInvariant, PTL DEF Safety

(* The invariant says what NothingLost says. *)
LEMMA HandedOverIsThere ==
  ASSUME tx \in TxType, owed \in Owed, NEW k \in 0..TxRing, NEW h, HandedOver(tx, owed, h, k)
  PROVE  FirstValid(k) /\ Fragments(owed) = tx.buf \o InRing(k)
<1>0. TxRing \in Nat \ {0} /\ tx.next \in Nat /\ tx.buf \in Seq(Nat)
  BY RingAssumption DEF TxType
<1>1. PICK c \in TxSlots : c = Current(tx.next, TxRing)
  BY <1>0, CurrentIn
<1>2. PICK order : order = RingOrder(c, TxRing)
  OBVIOUS
<1>3. \A i \in 1..TxRing : order[i] = At(c, i)
  BY <1>2, AtFacts
<1>4. /\ \A i \in 1..TxRing : tx.desc[At(c, i)].valid <=> i <= k
      /\ Len(owed) = Len(tx.buf) + k
      /\ \A i \in 1..Len(tx.buf) : owed[i] = [fragment |-> tx.buf[i], last |-> FALSE]
      /\ \A i \in 1..k : owed[Len(tx.buf) + i].fragment = tx.desc[At(c, i)].fragment
  BY <1>1, Zenon DEF HandedOver
<1>5. FirstValid(k)
  BY <1>1, <1>2, <1>3, <1>4, Zenon DEF FirstValid
<1>6. InRing(k) = [i \in 1..k |-> tx.desc[order[i]].fragment]
  BY <1>1, <1>2, Zenon DEF InRing
<1>7. PICK r : r = InRing(k)
  OBVIOUS
<1>a. 1..k \subseteq 1..TxRing /\ 1..k \subseteq 1..(TxRing + 1) /\ k \in Nat
  BY <1>0
<1>8. \A i \in 1..k : r[i] = tx.desc[At(c, i)].fragment
  <2>1. ASSUME NEW i \in 1..k PROVE r[i] = tx.desc[At(c, i)].fragment
    <3>1. r[i] = tx.desc[order[i]].fragment
      BY <1>6, <1>7, Zenon
    <3>2. order[i] = At(c, i)
      BY <1>3, <1>a, Zenon
    <3> QED
      BY <3>1, <3>2, Zenon
  <2> QED
    BY <2>1, Zenon
<1>9. r \in Seq(Nat) /\ Len(r) = k
  <2>1. ASSUME NEW i \in 1..k PROVE tx.desc[order[i]].fragment \in Nat
    <3>1. order[i] = At(c, i)
      BY <1>3, <1>a, Zenon
    <3>3. At(c, i) \in TxSlots
      BY <1>a, AtFacts
    <3>2. \A j \in TxSlots : tx.desc[j].fragment \in Nat
      BY DEF TxType
    <3> QED
      BY <3>1, <3>2, <3>3, Zenon
  <2>2. r = [i \in 1..k |-> tx.desc[order[i]].fragment]
    BY <1>6, <1>7, Zenon
  <2>3. r \in [1..k -> Nat]
    BY <2>1, <2>2, Zenon
  <2> QED
    BY <1>a, <2>2, <2>3
<1>10. PICK b \in Seq(Nat), o \in Seq([fragment : Nat, last : BOOLEAN]) :
         b = tx.buf /\ o = owed
  <2>1. owed \in Seq([fragment : Nat, last : BOOLEAN])
    BY Zenon DEF Owed
  <2> QED
    BY <1>0, <2>1, Zenon
<1>11. Len(o) = Len(b) + k
  BY <1>4, <1>10, Zenon
<1>12. ASSUME NEW i \in 1..Len(o) PROVE o[i].fragment = (b \o r)[i]
  <2>1. CASE i <= Len(b)
    <3>1. (b \o r)[i] = b[i] /\ i \in 1..Len(b)
      BY <1>9, <2>1
    <3>2. o[i] = [fragment |-> b[i], last |-> FALSE]
      BY <1>4, <1>10, <3>1, Zenon
    <3>3. o[i].fragment = b[i]
      BY <3>2, OwedFields, Zenon
    <3> QED
      BY <3>1, <3>3, Zenon
  <2>2. CASE i > Len(b)
    <3>1. i - Len(b) \in 1..k /\ i = Len(b) + (i - Len(b))
      BY <1>11, <2>2
    <3>2. PICK j \in 1..k : i = Len(b) + j
      BY <3>1, Zenon
    <3>3. (b \o r)[i] = r[j]
      BY <1>9, <3>2
    <3> QED
      BY <1>4, <1>8, <1>10, <3>2, <3>3, Zenon
  <2>3. i <= Len(b) \/ i > Len(b)
    OBVIOUS
  <2> QED
    BY <2>1, <2>2, <2>3, Zenon
<1>13. PICK s \in Seq(Nat) : s = b \o r /\ Len(s) = Len(o)
  <2>1. (b \o r) \in Seq(Nat)
    BY <1>9
  <2>2. Len(b \o r) = Len(b) + k
    <3>1. \A x, y \in Seq(Nat) : Len(x \o y) = Len(x) + Len(y)
      OBVIOUS
    <3> QED
      BY <1>9, <3>1, Zenon
  <2> QED
    BY <1>11, <2>1, <2>2, Zenon
<1>14. Fragments(o) = s
  <2>1. Fragments(o) = [i \in 1..Len(o) |-> o[i].fragment]
    BY DEF Fragments
  <2>2. \A i \in 1..Len(o) : o[i].fragment = s[i]
    BY <1>12, <1>13, Zenon
  <2>3. s = [i \in 1..Len(s) |-> s[i]]
    OBVIOUS
  <2> QED
    BY <1>13, <2>1, <2>2, <2>3, Zenon
<1> QED
  BY <1>5, <1>7, <1>10, <1>13, <1>14, Zenon

(* No fragment is lost, repeated or moved between the guest's ring and the
   network (dma_packet_from_guest, nvnet_reset, nvnet_post_load). *)
THEOREM FragmentsAreNotLost == Safety => []NothingLost
<1>1. TxInv => NothingLost
  BY HandedOverIsThere, Zenon DEF TxInv, Sending, NothingLost
<1> QED
  BY <1>1, SendInvariant, PTL

(* A kick sends the oldest packet, from its first fragment to its last, or
   nothing (dma_packet_from_guest). *)
THEOREM PacketsAreWhole == Safety => WholePackets
<1>1. TxInv /\ LinkInv /\ [Next]_vars =>
        [GuestKick /\ ~torn /\ owed' # owed =>
           LET n == Len(owed) - Len(owed')
           IN owed[n].last /\ \A i \in 1..(n - 1) : ~owed[i].last]_vars
  BY KickTx DEF Whole
<1> QED
  BY <1>1, SendInvariant, LinkInvariant, PTL DEF Safety, WholePackets
=============================================================================
