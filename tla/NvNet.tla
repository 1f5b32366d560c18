-------------------------------- MODULE NvNet --------------------------------
(***************************************************************************)
(* The network controller of the console (hw/xbox/mcpx/nvnet/nvnet.c), the *)
(* packet queues of net/ between it and the network of the host, and the   *)
(* switch of the user interface that plugs and unplugs that network.       *)
(*   guest    the driver on the vCPU: it fills the descriptor rings in     *)
(*            memory without a lock, and every register it writes is one   *)
(*            handler under the BQL                                        *)
(*   host     the main loop, under the BQL: packets that arrive, the       *)
(*            autonegotiation timer, the user's switch, resets, snapshots  *)
(* A ring is addressed in descriptors and starts at Base.  Packets sent    *)
(* are made of numbered fragments, one to a descriptor; packets received   *)
(* are numbered frames that the filter tells apart by their kind.          *)
(* Left out: the IDLE bit (set and cleared within one handler), the MII    *)
(* status (read by nothing here), SETUP_REG5 and the plain registers.      *)
(***************************************************************************)
EXTENDS Integers, Sequences

CONSTANTS
  TxRing, RxRing,  \* descriptors of the rings
  MyAddr,          \* NVNET_PACKET_FILTER_MYADDR, as the driver sets it
  Kinds,           \* kinds of frames the network brings
  MaxEvents        \* bound on fragments handed over, frames that arrive,
                   \* and restarts, mask writes, switches, resets, snapshots

ASSUME RingAssumption == TxRing \in Nat \ {0} /\ RxRing \in Nat \ {0}
ASSUME FilterAssumption ==
  /\ MyAddr \in BOOLEAN
  /\ Kinds \subseteq {"broadcast", "multicast", "unicast", "foreign", "oversized"}
ASSUME EventsAssumption == MaxEvents \in Nat

Base == 1
None == 0
Causes == {"rx", "tx", "mii"}

VARIABLES
  tx,        \* the send ring, its NEXT_DESC register, and tx_dma_buf
  rx,        \* the receive ring and its NEXT_DESC register
  ctl,       \* the START bits, and BIT2 of TX_RX_CONTROL, which stops DMA
  irq,       \* IRQ_STATUS, IRQ_MASK and the interrupt line
  phy,       \* AUTOEN of BMCR; LINK_ST and AN_COMP of BMSR
  linkDown,  \* link_down of the controller's net client
  timer,     \* autoneg_timer is pending
  net,       \* the host's network is plugged in
  queue,     \* incoming_queue of the hub port the network is plugged into
  held,      \* incoming_queue of the controller
  guest,     \* the driver
  owed,      \* history: fragments handed over that the network has not got
  torn,      \* history: a snapshot without its tx_dma_buf was loaded
  saved,     \* the snapshot, if one was taken
  left       \* what is left of the bound

vars == <<tx, rx, ctl, irq, phy, linkDown, timer, net, queue, held, guest,
          owed, torn, saved, left>>

Event == left > 0 /\ left' = left - 1

TxSlots == Base .. (Base + TxRing - 1)
RxSlots == Base .. (Base + RxRing - 1)

FreeTx == [valid |-> FALSE, last |-> FALSE, fragment |-> None]
FreeRx == [avail |-> TRUE, frame |-> None]

-----------------------------------------------------------------------------
(* Interrupts. *)

(* update_irq. *)
Update(q) == [q EXCEPT !.line = q.status \cap q.mask # {}]

(* set_intr_status. *)
Raise(q, causes) == Update([q EXCEPT !.status = @ \cup causes])

(* A write of ones to IRQ_STATUS clears those. *)
Acknowledge(q, causes) == Update([q EXCEPT !.status = @ \ causes])

(* A write to IRQ_MASK. *)
SetMask_NoUpdate(q, mask) == [q EXCEPT !.mask = mask]
SetMask(q, mask) == Update([q EXCEPT !.mask = mask])

-----------------------------------------------------------------------------
(* The rings. *)

(* update_current_tx_ring_desc_addr, update_current_rx_ring_desc_addr. *)
Current(next, size) ==
  IF next < Base \/ next + 1 > Base + size THEN Base ELSE next

(* advance_next_tx_ring_desc_addr, advance_next_rx_ring_desc_addr. *)
Advance(current, size) ==
  IF current + 1 >= Base + size THEN Base ELSE current + 1

(* The descriptors of a ring from `from` on, in the order they are used. *)
RingOrder(from, size) ==
  [i \in 1..size |-> IF from + i - 1 < Base + size THEN from + i - 1
                      ELSE from + i - 1 - size]

-----------------------------------------------------------------------------
(* Sending: dma_packet_from_guest. *)

(* How many descriptors its loop takes: it stops at one that is not valid, *)
(* and after one that ends a packet.                                       *)
Taken_Greedy(desc, order) ==
  CHOOSE n \in 0..TxRing :
    /\ \A i \in 1..n : desc[order[i]].valid
    /\ n = TxRing \/ ~desc[order[n + 1]].valid

Taken(desc, order) ==
  CHOOSE n \in 0..TxRing :
    /\ \A i \in 1..n : desc[order[i]].valid
    /\ \A i \in 1..(n - 1) : ~desc[order[i]].last
    /\ \/ n = TxRing
       \/ ~desc[order[n + 1]].valid
       \/ n > 0 /\ desc[order[n]].last

(* What they hold is appended to tx_dma_buf; a whole packet goes to        *)
(* qemu_send_packet, which drops it when link_down is set.                 *)
FromGuest(t) ==
  LET order == RingOrder(Current(t.tx.next, TxRing), TxRing)
      n == Taken(t.tx.desc, order)
      used == {order[i] : i \in 1..n}
      packet == t.tx.buf \o [i \in 1..n |-> t.tx.desc[order[i]].fragment]
      whole == n > 0 /\ t.tx.desc[order[n]].last
  IN [tx |-> [desc |-> [s \in TxSlots |-> IF s \in used
                                          THEN [t.tx.desc[s] EXCEPT !.valid = FALSE]
                                          ELSE t.tx.desc[s]],
              next |-> IF n = 0 THEN t.tx.next ELSE Advance(order[n], TxRing),
              buf |-> IF whole THEN <<>> ELSE packet],
      irq |-> IF whole THEN Raise(t.irq, {"tx"}) ELSE t.irq,
      owed |-> IF whole /\ ~linkDown
               THEN SubSeq(t.owed, Len(packet) + 1, Len(t.owed)) ELSE t.owed]

(* can_transmit; the write that kicks has set BIT2 before. *)
CanTransmit(stop) == ctl.start /\ ~stop /\ phy.link

(* A write to TX_RX_CONTROL; val is the set of bits in it.  BIT1 clears    *)
(* the status and leaves the line as it is.                                *)
TxRxControl_KeepsBuffer(val) ==
  \E t \in {[tx |-> tx, irq |-> irq, owed |-> owed]} :
  \E u \in {IF "kick" \in val /\ CanTransmit("bit2" \in val) THEN FromGuest(t) ELSE t} :
    /\ ctl' = [ctl EXCEPT !.stop = "bit2" \in val]
    /\ tx' = IF "reset" \in val THEN [u.tx EXCEPT !.next = Base] ELSE u.tx
    /\ rx' = IF "reset" \in val THEN [rx EXCEPT !.next = Base] ELSE rx
    /\ irq' = IF "bit1" \in val THEN [u.irq EXCEPT !.status = {}] ELSE u.irq
    /\ owed' = IF "reset" \in val THEN <<>> ELSE u.owed

TxRxControl(val) ==
  \E t \in {[tx |-> tx, irq |-> irq, owed |-> owed]} :
  \E u \in {IF "kick" \in val /\ CanTransmit("bit2" \in val) THEN FromGuest(t) ELSE t} :
    /\ ctl' = [ctl EXCEPT !.stop = "bit2" \in val]
    /\ tx' = IF "reset" \in val THEN [u.tx EXCEPT !.next = Base, !.buf = <<>>] ELSE u.tx
    /\ rx' = IF "reset" \in val THEN [rx EXCEPT !.next = Base] ELSE rx
    /\ irq' = IF "bit1" \in val THEN [u.irq EXCEPT !.status = {}] ELSE u.irq
    /\ owed' = IF "reset" \in val THEN <<>> ELSE u.owed

-----------------------------------------------------------------------------
(* Receiving.  A record r carries what delivering a frame reads and        *)
(* changes: rx, irq, the controller's queue, whether the receiver is on    *)
(* (rx_enabled, dma_enabled and link_up), and link_down.                   *)

Receiver == [rx |-> rx, irq |-> irq, held |-> held,
             open |-> ctl.start /\ ~ctl.stop /\ phy.link, down |-> linkDown]

(* nvnet_can_receive, with rx_buf_available. *)
CanReceive(r) == r.open /\ r.rx.desc[Current(r.rx.next, RxRing)].avail

(* is_packet_oversized and receive_filter. *)
Accepts(frame) ==
  /\ frame.kind # "oversized"
  /\ \/ frame.kind = "broadcast"
     \/ ~MyAddr
     \/ frame.kind \in {"multicast", "unicast"}

(* qemu_deliver_packet_iov, nvnet_receive_iov and dma_packet_to_guest: a   *)
(* frame the guest left no room for is dropped (-1 is not 0).              *)
Receive_NoAdvance(r, frame) ==
  IF r.down \/ ~Accepts(frame) \/ ~CanReceive(r) THEN r
  ELSE LET current == Current(r.rx.next, RxRing)
       IN [r EXCEPT !.rx = [desc |-> [@.desc EXCEPT ![current] =
                                        [avail |-> FALSE, frame |-> frame.id]],
                            next |-> current],
                    !.irq = Raise(@, {"rx"})]

Receive(r, frame) ==
  IF r.down \/ ~Accepts(frame) \/ ~CanReceive(r) THEN r
  ELSE LET current == Current(r.rx.next, RxRing)
       IN [r EXCEPT !.rx = [desc |-> [@.desc EXCEPT ![current] =
                                        [avail |-> FALSE, frame |-> frame.id]],
                            next |-> Advance(current, RxRing)],
                    !.irq = Raise(@, {"rx"})]

(* qemu_net_queue_flush of the controller's queue: its frames are received *)
(* one after the other.                                                    *)
ReceiveAll(r, frames) ==
  LET after[i \in 0..Len(frames)] ==
        IF i = 0 THEN r ELSE Receive(after[i - 1], frames[i])
  IN after[Len(frames)]

FlushHeld_Keeps(r) == ReceiveAll(r, r.held)
FlushHeld(r) == [ReceiveAll(r, r.held) EXCEPT !.held = <<>>]

(* net_hub_receive hands a frame on with qemu_net_queue_send: delivered at *)
(* once, before those that wait, or put behind them.                       *)
Forward(r, frame) ==
  IF CanReceive(r) THEN FlushHeld(Receive(r, frame))
  ELSE [r EXCEPT !.held = Append(@, frame)]

(* The hub port's queue is flushed in the same way.                        *)
ForwardAll(r, frames) ==
  LET after[i \in 0..Len(frames)] ==
        IF i = 0 THEN r ELSE Forward(after[i - 1], frames[i])
  IN after[Len(frames)]

(* A frame arrives: qemu_net_queue_send to the hub port, which can receive *)
(* when the controller can (net_hub_port_can_receive).                     *)
Arrive(kind) ==
  /\ net /\ Event
  /\ \E frame \in {[id |-> left, kind |-> kind]}, r \in {Receiver} :
       \/ /\ CanReceive(r)
          /\ \E s \in {ForwardAll(Forward(r, frame), queue)} :
               rx' = s.rx /\ irq' = s.irq /\ held' = s.held
          /\ queue' = <<>>
       \/ /\ ~CanReceive(r)
          /\ queue' = Append(queue, frame)
          /\ UNCHANGED <<rx, irq, held>>
  /\ UNCHANGED <<tx, ctl, phy, linkDown, timer, net, guest, owed, torn, saved>>

-----------------------------------------------------------------------------
(* The link.  A record k carries phy, irq and the timer. *)

Link == [phy |-> phy, irq |-> irq, timer |-> timer]

(* set_link_down. *)
SetLinkDown(k) ==
  [k EXCEPT !.phy.link = FALSE, !.phy.comp = FALSE, !.irq = Raise(@, {"mii"})]

(* set_link_up. *)
SetLinkUp(k) == [k EXCEPT !.phy.link = TRUE, !.irq = Raise(@, {"mii"})]

(* nvnet_set_link_status. *)
LinkStatus(k, down) ==
  IF down THEN SetLinkDown(k)
  ELSE IF k.phy.auto /\ ~k.phy.comp THEN [k EXCEPT !.timer = TRUE]
  ELSE SetLinkUp(k)

(* autoneg_timer fires; autoneg_done unless the link went down meanwhile. *)
AutonegTimer_Unchecked ==
  /\ timer /\ timer' = FALSE
  /\ \E k \in {SetLinkUp(Link)} :
       phy' = [k.phy EXCEPT !.comp = TRUE] /\ irq' = k.irq
  /\ UNCHANGED <<tx, rx, ctl, linkDown, net, queue, held, guest, owed, torn,
                 saved, left>>

AutonegTimer ==
  /\ timer /\ timer' = FALSE
  /\ \/ linkDown /\ UNCHANGED <<phy, irq>>
     \/ /\ ~linkDown
        /\ \E k \in {SetLinkUp(Link)} :
             phy' = [k.phy EXCEPT !.comp = TRUE] /\ irq' = k.irq
  /\ UNCHANGED <<tx, rx, ctl, linkDown, net, queue, held, guest, owed, torn,
                 saved, left>>

(* xemu_net_enable.  When a port cannot be forwarded it disables the       *)
(* network again, and still sets the link up.                              *)
NetEnable ==
  /\ Event /\ ~net
  /\ linkDown' = FALSE
  /\ \E works \in BOOLEAN :
     \E k \in {LinkStatus(IF works THEN Link ELSE LinkStatus(Link, TRUE), FALSE)} :
       net' = works /\ phy' = k.phy /\ irq' = k.irq /\ timer' = k.timer
  /\ UNCHANGED <<tx, rx, ctl, queue, held, guest, owed, torn, saved>>

(* xemu_net_disable; the hub port goes, and its queue with it. *)
NetDisable ==
  /\ Event /\ net
  /\ net' = FALSE /\ linkDown' = TRUE /\ queue' = <<>>
  /\ \E k \in {LinkStatus(Link, TRUE)} :
       phy' = k.phy /\ irq' = k.irq /\ timer' = k.timer
  /\ UNCHANGED <<tx, rx, ctl, held, guest, owed, torn, saved>>

-----------------------------------------------------------------------------
(* The machine: nvnet_reset, and snapshots. *)

ResetPhy(down) == [auto |-> TRUE, link |-> ~down, comp |-> ~down]

(* The PCI bus deasserts the line; the guest starts anew. *)
MachineReset ==
  /\ Event
  /\ tx' = [tx EXCEPT !.next = 0, !.buf = <<>>]
  /\ rx' = [rx EXCEPT !.next = 0]
  /\ ctl' = [start |-> FALSE, stop |-> FALSE]
  /\ irq' = [status |-> {}, mask |-> {}, line |-> FALSE]
  /\ phy' = ResetPhy(linkDown) /\ timer' = FALSE
  /\ guest' = [guest EXCEPT !.pc = "run", !.seen = {}, !.up = FALSE]
  /\ owed' = <<>>
  /\ UNCHANGED <<linkDown, net, queue, held, torn, saved>>

(* net_vm_change_state_handler when the machine stops: the controller's    *)
(* queue is flushed, then the hub port's, which finds no one running and   *)
(* leaves its frames with the controller.                                  *)
VmStop(r) == [FlushHeld(r) EXCEPT !.held = @ \o queue]

(* And when it runs again. *)
VmStart(r) == IF CanReceive(r) THEN FlushHeld(r) ELSE r

(* vmstate_nvnet: the registers, which do not say what tx_dma_buf holds,   *)
(* and with the rest of the machine its memory.                            *)
Save ==
  /\ Event
  /\ \E r \in {VmStop(Receiver)} :
       /\ saved' = {[tx |-> tx, rx |-> r.rx, ctl |-> ctl, irq |-> r.irq, phy |-> phy,
                     guest |-> guest, owed |-> owed, torn |-> torn]}
       /\ \E s \in {VmStart(r)} : rx' = s.rx /\ irq' = s.irq /\ held' = s.held
  /\ queue' = <<>>
  /\ UNCHANGED <<tx, ctl, phy, linkDown, timer, net, guest, owed, torn>>

(* nvnet_post_load: link_down is inferred, and a negotiation that the      *)
(* snapshot seems to have been in is started again.                        *)
Negotiates(p) == p.auto /\ ~p.comp

PostLoad_NoRestart(z) ==
  /\ linkDown' = (~z.phy.link /\ ~Negotiates(z.phy))
  /\ timer' = FALSE

PostLoad(z) ==
  /\ linkDown' = (~z.phy.link /\ ~Negotiates(z.phy))
  /\ timer' = Negotiates(z.phy)

(* load_snapshot stops and resets the machine before it loads. *)
Load ==
  /\ Event
  /\ \E z \in saved :
       /\ PostLoad(z)
       /\ tx' = [z.tx EXCEPT !.buf = <<>>]
       /\ ctl' = z.ctl /\ phy' = z.phy /\ guest' = z.guest
       /\ owed' = z.owed /\ torn' = (z.torn \/ z.tx.buf # <<>>)
       /\ \E r \in {VmStop(Receiver)} :
          \E s \in {VmStart([rx |-> z.rx, irq |-> z.irq, held |-> r.held,
                             open |-> z.ctl.start /\ ~z.ctl.stop /\ z.phy.link,
                             down |-> linkDown'])} :
            rx' = s.rx /\ irq' = s.irq /\ held' = s.held
  /\ queue' = <<>>
  /\ UNCHANGED <<net, saved>>

-----------------------------------------------------------------------------
(* The driver.  Its order (acknowledge, then look at the ring) is that of  *)
(* forcedeth.c, from which nvnet_regs.h takes its names.                   *)

Runs == guest.pc = "run"

(* It sets up both rings, starts the receiver and the transmitter, writes  *)
(* 0 to TX_RX_CONTROL and unmasks the interrupts.                          *)
GuestInit ==
  /\ Runs /\ ~guest.up
  /\ tx' = [tx EXCEPT !.desc = [s \in TxSlots |-> FreeTx]]
  /\ rx' = [rx EXCEPT !.desc = [s \in RxSlots |-> FreeRx]]
  /\ ctl' = [start |-> TRUE, stop |-> FALSE]
  /\ irq' = SetMask(irq, Causes)
  /\ guest' = [guest EXCEPT !.up = TRUE, !.head = Base, !.tail = Base]
  /\ torn' = FALSE
  /\ UNCHANGED <<phy, linkDown, timer, net, queue, held, owed, saved, left>>

(* It hands a fragment over, the last of its packet or not. *)
GuestGive(last) ==
  /\ Runs /\ guest.up /\ Event
  /\ ~tx.desc[guest.head].valid
  /\ tx' = [tx EXCEPT !.desc[guest.head] =
              [valid |-> TRUE, last |-> last, fragment |-> guest.given + 1]]
  /\ guest' = [guest EXCEPT !.given = @ + 1, !.head = Advance(@, TxRing)]
  /\ owed' = Append(owed, [fragment |-> guest.given + 1, last |-> last])
  /\ UNCHANGED <<rx, ctl, irq, phy, linkDown, timer, net, queue, held, torn,
                 saved>>

GuestKick ==
  /\ Runs /\ guest.up
  /\ TxRxControl({"kick"})
  /\ UNCHANGED <<phy, linkDown, timer, net, queue, held, guest, torn, saved, left>>

(* It stops the receiver and the transmitter, *)
GuestStop ==
  /\ Runs /\ guest.up /\ ctl.start /\ Event
  /\ ctl' = [ctl EXCEPT !.start = FALSE]
  /\ UNCHANGED <<tx, rx, irq, phy, linkDown, timer, net, queue, held, guest, owed,
                 torn, saved>>

(* then DMA, and resets the rings to set them up again; *)
GuestReset ==
  /\ Runs /\ guest.up /\ ~ctl.start
  /\ TxRxControl({"reset", "bit2"})
  /\ guest' = [guest EXCEPT !.up = FALSE]
  /\ UNCHANGED <<phy, linkDown, timer, net, queue, held, torn, saved, left>>

(* before it does, it clears the causes with BIT1. *)
GuestBit1 ==
  /\ Runs /\ ~guest.up /\ irq.status # {}
  /\ TxRxControl({"bit1"})
  /\ UNCHANGED <<phy, linkDown, timer, net, queue, held, guest, torn, saved, left>>

GuestMask ==
  /\ Runs /\ guest.up /\ Event
  /\ \E mask \in {{}, Causes} : irq' = SetMask(irq, mask)
  /\ UNCHANGED <<tx, rx, ctl, phy, linkDown, timer, net, queue, held, guest, owed,
                 torn, saved>>

(* mdio_write to BMCR. *)
GuestPhy ==
  /\ Runs /\ Event
  /\ phy' = [phy EXCEPT !.auto = ~@]
  /\ UNCHANGED <<tx, rx, ctl, irq, linkDown, timer, net, queue, held, guest, owed,
                 torn, saved>>

(* Its interrupt handler reads IRQ_STATUS, *)
IsrRead ==
  /\ Runs /\ irq.line
  /\ guest' = [guest EXCEPT !.pc = "ack", !.seen = irq.status]
  /\ UNCHANGED <<tx, rx, ctl, irq, phy, linkDown, timer, net, queue, held, owed, torn,
                 saved, left>>

(* writes back what it read, *)
IsrAck ==
  /\ guest.pc = "ack"
  /\ irq' = Acknowledge(irq, guest.seen)
  /\ guest' = [guest EXCEPT !.pc = "rx", !.seen = {}]
  /\ UNCHANGED <<tx, rx, ctl, phy, linkDown, timer, net, queue, held, owed, torn,
                 saved, left>>

Filled == guest.up /\ rx.desc[guest.tail].frame # None

(* takes the frames it finds and gives their descriptors back, *)
IsrTake ==
  /\ guest.pc = "rx" /\ Filled
  /\ rx' = [rx EXCEPT !.desc[guest.tail] = FreeRx]
  /\ guest' = [guest EXCEPT !.tail = Advance(@, RxRing),
                            !.got = @ \cup {rx.desc[guest.tail].frame}]
  /\ UNCHANGED <<tx, ctl, irq, phy, linkDown, timer, net, queue, held, owed, torn,
                 saved, left>>

(* and returns when there are no more. *)
IsrDone ==
  /\ guest.pc = "rx" /\ ~Filled
  /\ guest' = [guest EXCEPT !.pc = "run"]
  /\ UNCHANGED <<tx, rx, ctl, irq, phy, linkDown, timer, net, queue, held, owed, torn,
                 saved, left>>

-----------------------------------------------------------------------------
(* nvnet_realize and the first reset; the network may be unplugged. *)
Init ==
  /\ tx = [desc |-> [s \in TxSlots |-> FreeTx], next |-> 0, buf |-> <<>>]
  /\ rx = [desc |-> [s \in RxSlots |-> FreeRx], next |-> 0]
  /\ ctl = [start |-> FALSE, stop |-> FALSE]
  /\ irq = [status |-> {}, mask |-> {}, line |-> FALSE]
  /\ net \in BOOLEAN /\ linkDown = FALSE
  /\ phy = ResetPhy(linkDown) /\ timer = FALSE
  /\ queue = <<>> /\ held = <<>>
  /\ guest = [pc |-> "run", seen |-> {}, up |-> FALSE, head |-> Base, tail |-> Base,
              given |-> 0, got |-> {}]
  /\ owed = <<>> /\ torn = FALSE /\ saved = {}
  /\ left = MaxEvents

Isr == IsrRead \/ IsrAck \/ IsrTake \/ IsrDone

Host ==
  \/ \E kind \in Kinds : Arrive(kind)
  \/ AutonegTimer
  \/ NetEnable \/ NetDisable
  \/ MachineReset \/ Save \/ Load

Guest ==
  \/ GuestInit \/ GuestKick \/ GuestStop \/ GuestReset \/ GuestBit1
  \/ GuestMask \/ GuestPhy
  \/ \E last \in BOOLEAN : GuestGive(last)
  \/ Isr

Next == Host \/ Guest

Safety == Init /\ [][Next]_vars

(* The main loop runs a timer that is due; a vCPU whose line is up gets to *)
(* its handler and through it.                                             *)
Spec == Safety /\ WF_vars(AutonegTimer) /\ WF_vars(Isr)

-----------------------------------------------------------------------------
(* The fragments of the first k descriptors, in the order they are read. *)
InRing(k) ==
  LET order == RingOrder(Current(tx.next, TxRing), TxRing)
  IN [i \in 1..k |-> tx.desc[order[i]].fragment]

(* The valid descriptors are the first k. *)
FirstValid(k) ==
  LET order == RingOrder(Current(tx.next, TxRing), TxRing)
  IN \A i \in 1..TxRing : tx.desc[order[i]].valid <=> i <= k

Fragments(s) == [i \in 1..Len(s) |-> s[i].fragment]

(* No fragment is lost, repeated or moved: what the guest handed over and  *)
(* the network has not got is in tx_dma_buf and then in the ring, in       *)
(* order, whatever kicks, link changes and restarts came between.  The one *)
(* exception is a snapshot taken when tx_dma_buf held part of a packet.    *)
NothingLost ==
  guest.up /\ ~torn =>
    \E k \in 0..TxRing : FirstValid(k) /\ Fragments(owed) = tx.buf \o InRing(k)

(* A packet the network gets with a kick is the oldest one the guest       *)
(* handed over, from its first fragment to its last, and no more           *)
(* (dma_packet_from_guest).                                                *)
WholePackets ==
  [][GuestKick /\ ~torn /\ owed' # owed =>
       LET n == Len(owed) - Len(owed')
       IN /\ owed[n].last
          /\ \A i \in 1..(n - 1) : ~owed[i].last]_vars

(* Every frame that arrived is in at most one place: a queue, the ring, or *)
(* with the guest (qemu_net_queue_send, qemu_net_queue_flush).             *)
OncePerFrame ==
  LET Ids(q) == [i \in DOMAIN q |-> q[i].id]
      waiting == Ids(queue) \o Ids(held)
      ring == {s \in RxSlots : rx.desc[s].frame # None}
  IN guest.up =>
       /\ \A i, j \in DOMAIN waiting : i # j => waiting[i] # waiting[j]
       /\ \A s, t \in ring : s # t => rx.desc[s].frame # rx.desc[t].frame
       /\ \A s \in ring : rx.desc[s].frame \notin guest.got
       /\ \A i \in DOMAIN waiting :
            waiting[i] \notin guest.got \cup {rx.desc[s].frame : s \in ring}

(* Frames put into the ring do not stay there: the guest takes them (or    *)
(* loses the ring to a restart or a snapshot).  No interrupt is lost to an *)
(* acknowledgement, and no frame lies where the guest does not look.       *)
FramesLie == guest.up /\ \E s \in RxSlots : rx.desc[s].frame # None

FramesReachGuest == FramesLie ~> (~FramesLie \/ irq.mask = {})

(* An enabled cause that is pending has the line up (update_irq after      *)
(* every change but the one of BIT1, which can only leave it up).          *)
NoInterruptMissed == irq.status \cap irq.mask # {} => irq.line

(* The guest is shown a link only when the net client has one, so that no  *)
(* packet it is told was sent is dropped by qemu_send_packet.              *)
LinkIsReal == phy.link => ~linkDown

(* A link that is there is shown to the guest in the end: whatever resets, *)
(* snapshots and switches come between, the negotiation is not forgotten.  *)
LinkComesUp == ~linkDown ~> (phy.link \/ linkDown)

=============================================================================
