------------------------------- MODULE Nv2aFifo -------------------------------
(***************************************************************************)
(* The NV2A command FIFO and the threads around it:                        *)
(*   fifo   pfifo_thread: pulls methods from the push buffer and runs them *)
(*   vcpu   the guest: MMIO writes, handled with the BQL held              *)
(*   ctl    the thread that resets, saves or restores the machine          *)
(*   ui     the presenter, asking the FIFO thread for the current frame    *)
(*                                                                         *)
(* Steps are the sections between lock operations.  The locks are the BQL, *)
(* pfifo.lock and pgraph.lock; a section that takes and releases a lock    *)
(* without blocking inside is one action guarded by that lock being free.  *)
(* Push buffer words are abstracted to whole methods (Nv2aPusher has the   *)
(* words).                                                                 *)
(***************************************************************************)
EXTENDS Naturals, Sequences

CONSTANTS
  Methods,      \* method kinds the guest submits, a subset of MethodKinds
  MaxMethods,   \* bound: methods in the push buffer
  MaxCtl,       \* bound: machine operations (reset, save, load, resume)
  MaxFrames,    \* bound: frames the presenter asks for
  Modulo,       \* NV_PGRAPH_SURFACE_MODULO_3D
  CacheAccess,  \* the values the guest writes to the PFIFO access bits
  Operations    \* the machine operations that happen: names of Program

(* draw: any method without a stall of its own; nop: NO_OPERATION with a
   parameter; flip: FLIP_STALL; incr: FLIP_INCREMENT_WRITE; bind: method 0. *)
MethodKinds == {"draw", "nop", "flip", "incr", "bind"}

ASSUME MethodsAssumption == Methods \subseteq MethodKinds
ASSUME BoundsAssumption ==
  MaxMethods \in Nat /\ MaxCtl \in Nat /\ MaxFrames \in Nat
ASSUME ModuloAssumption == Modulo \in Nat \ {0}
ASSUME CacheAccessAssumption == CacheAccess \subseteq SUBSET {"push", "pull"}
ASSUME OperationsAssumption ==
  Operations \subseteq {"resume", "reset", "save", "load"}

VARIABLES
  gpu,        \* the device state a snapshot saves
  kick, halt, \* pfifo.fifo_kick, pfifo.halt
  pending,    \* requests to the FIFO thread: sync, flush, dirty (download)
  fifoPc, vcpuPc, ctlPc, uiPc,
  getV, method, \* the pusher's locals: dma_get to write back, word read
  bql, pfifoLock, pgraphLock,
  prog,       \* the stages the ctl thread has still to run, head first
  halted,     \* nv2a_reset's local copy of halt
  snapshot,   \* the saved gpu, or the initial one
  ctlOps, frames

fifoVars == <<kick, halt, pending>>
locals == <<getV, method>>
locks == <<bql, pfifoLock, pgraphLock>>
ctlVars == <<ctlPc, prog, halted, snapshot, ctlOps>>
uiVars == <<uiPc, frames>>
vars == <<gpu, fifoVars, locals, fifoPc, vcpuPc, locks, ctlVars, uiVars>>

(* access: NV_PGRAPH_FIFO_ACCESS; valid: the channel in CTX_CONTROL; regs:
   which of the PFIFO pusher and puller are enabled; executed: a count of
   methods run, kept to state properties. *)
ResetRegs ==
  [queue |-> <<>>, get |-> 0, executed |-> 0, regs |-> {}, access |-> FALSE,
   valid |-> FALSE, read |-> 0, write |-> 0,
   nop |-> FALSE, ctx |-> FALSE, flip |-> FALSE, intr |-> {}]

Stages == {"save1", "save2", "restore", "reset1", "reset2", "load", "run"}

FifoPcs == {"top", "pend", "pend_relock", "push", "loop", "exec",
            "nop_irq", "nop_relock", "ctx_irq", "ctx_relock",
            "post_ok", "post_fail", "idle", "wait", "woken"}

CtlPcs == {"none", "lock", "idle_wait", "idle_woken", "want_bql",
           "want_pgraph", "locked", "event", "event_bql"}

GpuType ==
  [queue : Seq(MethodKinds), get : Nat, executed : Nat,
   regs : SUBSET {"push", "pull"}, access : BOOLEAN, valid : BOOLEAN,
   read : 0..Modulo-1, write : 0..Modulo-1,
   nop : BOOLEAN, ctx : BOOLEAN, flip : BOOLEAN,
   intr : SUBSET {"ERROR", "CONTEXT_SWITCH"}]

TypeOK ==
  /\ gpu \in GpuType /\ snapshot \in GpuType
  /\ kick \in BOOLEAN /\ halt \in BOOLEAN /\ halted \in BOOLEAN
  /\ pending \subseteq {"sync", "flush", "dirty"}
  /\ fifoPc \in FifoPcs
  /\ vcpuPc \in {"guest", "mmio", "paused"}
  /\ ctlPc \in CtlPcs
  /\ uiPc \in {"draw", "sync"}
  /\ bql \in {"none", "vcpu", "ctl"}
  /\ pfifoLock \in {"none", "fifo", "ctl"}
  /\ pgraphLock \in {"none", "ctl"}
  /\ prog \in Seq(Stages)
  /\ getV \in Nat /\ method \in MethodKinds \cup {"none"}
  /\ ctlOps \in 0..MaxCtl /\ frames \in 0..MaxFrames

Init ==
  /\ gpu = ResetRegs /\ snapshot = ResetRegs
  /\ kick = FALSE /\ halt = FALSE /\ halted = FALSE /\ pending = {}
  /\ fifoPc = "woken" /\ vcpuPc = "guest" /\ ctlPc = "none" /\ uiPc = "draw"
  /\ bql = "none" /\ pfifoLock = "none" /\ pgraphLock = "none"
  /\ getV = 0 /\ method = "none"
  /\ prog = <<>> /\ ctlOps = 0 /\ frames = 0

-----------------------------------------------------------------------------
(* pfifo_kick and every other broadcast on fifo_cond: the sleeping FIFO
   thread becomes runnable. *)
Wake(pc) == IF pc = "wait" THEN "woken" ELSE pc

Kick ==
  /\ kick' = TRUE
  /\ fifoPc' = Wake(fifoPc)

(* The FIFO thread, between two steps of pfifo_thread's loop. *)
FifoStep(from, to) == fifoPc = from /\ fifoPc' = to

(* Mutated: fifo_kick is not taken back. *)
FifoTop_KeepsKick ==
  /\ FifoStep("top", IF pending # {} THEN "pend" ELSE "push")
  /\ pfifoLock' = IF pending # {} THEN "none" ELSE "fifo"
  /\ UNCHANGED <<gpu, kick, halt, pending, locals, vcpuPc, bql, pgraphLock, ctlVars, uiVars>>

(* The top of the loop: the kick is taken back before any work is looked at. *)
FifoTop ==
  /\ FifoStep("top", IF pending # {} THEN "pend" ELSE "push")
  /\ kick' = FALSE
  /\ pfifoLock' = IF pending # {} THEN "none" ELSE "fifo"
  /\ UNCHANGED <<gpu, halt, pending, locals, vcpuPc, bql, pgraphLock, ctlVars, uiVars>>

(* The renderer's process_pending, under pgraph.lock: everything asked for is
   done and its completion event set. *)
FifoPend ==
  /\ FifoStep("pend", "pend_relock")
  /\ pgraphLock = "none"
  /\ pending' = {}
  /\ UNCHANGED <<gpu, kick, halt, locals, vcpuPc, locks, ctlVars, uiVars>>

FifoLock(from, to) ==
  /\ FifoStep(from, to)
  /\ pfifoLock = "none" /\ pfifoLock' = "fifo"
  /\ UNCHANGED <<gpu, fifoVars, locals, vcpuPc, bql, pgraphLock, ctlVars, uiVars>>

FifoPendRelock == FifoLock("pend_relock", "push")

(* pfifo_run_pusher is entered only when the FIFO is not halted and the
   pusher is enabled; neither is looked at again inside its loop. *)
FifoPush ==
  /\ FifoStep("push", IF ~halt /\ "push" \in gpu.regs THEN "loop" ELSE "idle")
  /\ UNCHANGED <<gpu, fifoVars, locals, vcpuPc, locks, ctlVars, uiVars>>

FlipIncomplete == gpu.flip /\ gpu.read = gpu.write

(* Mutated: the puller does not wait for a flip. *)
Stalled_IgnoresFlip ==
  \/ ~gpu.access \/ gpu.nop
  \/ gpu.get = Len(gpu.queue)
  \/ gpu.ctx
  \/ "pull" \notin gpu.regs

(* pfifo_pusher_should_stall, an empty push buffer, pfifo_puller_should_stall
   or a disabled puller. *)
Stalled ==
  \/ ~gpu.access \/ gpu.nop
  \/ gpu.get = Len(gpu.queue)
  \/ FlipIncomplete \/ gpu.ctx
  \/ "pull" \notin gpu.regs

(* The puller looks at a flip stall first, under pgraph.lock. *)
ChecksFlip == gpu.access /\ ~gpu.nop /\ gpu.get # Len(gpu.queue) /\ gpu.flip

(* One turn of the pusher's loop up to the puller dropping pfifo.lock.  A
   completed flip stall is cleared on the way, and the value dma_get will be
   written back with is fixed here. *)
FifoLoop ==
  /\ FifoStep("loop", IF Stalled THEN "idle" ELSE "exec")
  /\ ChecksFlip => pgraphLock = "none"
  /\ gpu' = [gpu EXCEPT !.flip = gpu.flip /\ ~(ChecksFlip /\ ~FlipIncomplete)]
  /\ getV' = IF Stalled THEN 0 ELSE gpu.get + 1
  /\ method' = IF Stalled THEN "none" ELSE gpu.queue[gpu.get + 1]
  /\ pfifoLock' = IF Stalled THEN "fifo" ELSE "none"
  /\ UNCHANGED <<fifoVars, vcpuPc, bql, pgraphLock, ctlVars, uiVars>>

(* The puller with pgraph.lock held, for a method without a trap.  A FIFO
   whose access was switched off meanwhile is left alone. *)
FifoExec ==
  /\ pgraphLock = "none"
  /\ \/ /\ ~gpu.access
        /\ FifoStep("exec", "post_fail")
        /\ gpu' = gpu
     \/ /\ gpu.access
        /\ method \in {"draw", "flip", "incr"} \/ (method = "bind" /\ gpu.valid)
        /\ FifoStep("exec", "post_ok")
        /\ gpu' = [gpu EXCEPT
             !.executed = @ + 1,
             !.flip = @ \/ method = "flip",
             !.write = IF method = "incr" THEN (@ + 1) % Modulo ELSE @]
  /\ UNCHANGED <<fifoVars, locals, vcpuPc, locks, ctlVars, uiVars>>

(* NO_OPERATION traps: the stall and its interrupt are set under pgraph.lock,
   the line is raised under the BQL, and pgraph.lock is taken once more. *)
FifoNop ==
  /\ FifoStep("exec", "nop_irq")
  /\ pgraphLock = "none" /\ gpu.access /\ method = "nop"
  /\ gpu' = [gpu EXCEPT !.executed = @ + 1, !.nop = TRUE,
                        !.intr = @ \cup {"ERROR"}]
  /\ UNCHANGED <<fifoVars, locals, vcpuPc, locks, ctlVars, uiVars>>

FifoNopIrq ==
  /\ FifoStep("nop_irq", "nop_relock")
  /\ bql = "none"
  /\ UNCHANGED <<gpu, fifoVars, locals, vcpuPc, locks, ctlVars, uiVars>>

FifoNopRelock ==
  /\ FifoStep("nop_relock", "post_ok")
  /\ pgraphLock = "none"
  /\ UNCHANGED <<gpu, fifoVars, locals, vcpuPc, locks, ctlVars, uiVars>>

(* Method 0 on a channel that is not loaded: pgraph_context_switch sets the
   stall under pgraph.lock and the interrupt only under the BQL.  When
   pgraph.lock is back the guest may already have switched, and then the
   method runs; access is not looked at again. *)
FifoContextSwitch ==
  /\ FifoStep("exec", "ctx_irq")
  /\ pgraphLock = "none" /\ gpu.access /\ method = "bind" /\ ~gpu.valid
  /\ gpu' = [gpu EXCEPT !.ctx = TRUE]
  /\ UNCHANGED <<fifoVars, locals, vcpuPc, locks, ctlVars, uiVars>>

(* Mutated: the line is raised without the pending bit. *)
FifoContextIrq_NoPending ==
  /\ FifoStep("ctx_irq", "ctx_relock")
  /\ bql = "none"
  /\ UNCHANGED <<gpu, fifoVars, locals, vcpuPc, locks, ctlVars, uiVars>>

FifoContextIrq ==
  /\ FifoStep("ctx_irq", "ctx_relock")
  /\ bql = "none"
  /\ gpu' = [gpu EXCEPT !.intr = @ \cup {"CONTEXT_SWITCH"}]
  /\ UNCHANGED <<fifoVars, locals, vcpuPc, locks, ctlVars, uiVars>>

FifoContextRelock ==
  /\ FifoStep("ctx_relock", IF gpu.ctx THEN "post_fail" ELSE "post_ok")
  /\ pgraphLock = "none"
  /\ gpu' = [gpu EXCEPT !.executed = IF gpu.ctx THEN @ ELSE @ + 1]
  /\ UNCHANGED <<fifoVars, locals, vcpuPc, locks, ctlVars, uiVars>>

(* Mutated: dma_get moves on although the puller refused the method. *)
FifoPost_AdvancesOnFailure ==
  /\ \/ FifoStep("post_ok", "loop")
     \/ FifoStep("post_fail", "idle")
  /\ gpu' = [gpu EXCEPT !.get = getV]
  /\ pfifoLock = "none" /\ pfifoLock' = "fifo"
  /\ getV' = 0 /\ method' = "none"
  /\ UNCHANGED <<fifoVars, vcpuPc, bql, pgraphLock, ctlVars, uiVars>>

(* Back in the pusher with pfifo.lock: dma_get is written from the local copy
   when the method ran and left as it is when it did not. *)
FifoPost ==
  /\ \/ FifoStep("post_ok", "loop") /\ gpu' = [gpu EXCEPT !.get = getV]
     \/ FifoStep("post_fail", "idle") /\ gpu' = gpu
  /\ pfifoLock = "none" /\ pfifoLock' = "fifo"
  /\ getV' = 0 /\ method' = "none"
  /\ UNCHANGED <<fifoVars, vcpuPc, bql, pgraphLock, ctlVars, uiVars>>

(* The end of pfifo_thread's loop: with no kick since its beginning, the
   thread announces that it is idle and sleeps. *)
FifoIdle ==
  /\ FifoStep("idle", IF kick THEN "top" ELSE "wait")
  /\ pfifoLock' = IF kick THEN "fifo" ELSE "none"
  /\ ctlPc' = IF ~kick /\ ctlPc = "idle_wait" THEN "idle_woken" ELSE ctlPc
  /\ UNCHANGED <<gpu, fifoVars, locals, vcpuPc, bql, pgraphLock,
                 prog, halted, snapshot, ctlOps, uiVars>>

FifoWake == FifoLock("woken", "top")

Fifo ==
  \/ FifoTop \/ FifoPend \/ FifoPendRelock \/ FifoPush \/ FifoLoop
  \/ FifoExec \/ FifoNop \/ FifoNopIrq \/ FifoNopRelock
  \/ FifoContextSwitch \/ FifoContextIrq \/ FifoContextRelock
  \/ FifoPost \/ FifoIdle \/ FifoWake

-----------------------------------------------------------------------------
(* The guest.  A register write takes the BQL, then pfifo.lock, and for a
   PGRAPH register pgraph.lock; the guest cannot be paused inside one. *)
VcpuEnter ==
  /\ vcpuPc = "guest" /\ vcpuPc' = "mmio"
  /\ bql = "none" /\ bql' = "vcpu"
  /\ UNCHANGED <<gpu, fifoVars, locals, fifoPc, pfifoLock, pgraphLock, ctlVars, uiVars>>

VcpuLeave ==
  /\ vcpuPc = "mmio" /\ vcpuPc' = "guest"
  /\ bql' = "none"
  /\ pfifoLock = "none"
  /\ UNCHANGED <<halt, pending, locals, pfifoLock, pgraphLock, ctlVars, uiVars>>

(* user_write(NV_USER_DMA_PUT): one more method is in the push buffer.  A
   driver binds an object before anything else. *)
Submit(m) ==
  /\ VcpuLeave /\ Kick
  /\ Len(gpu.queue) < MaxMethods
  /\ gpu.queue = <<>> => m = "bind"
  /\ gpu' = [gpu EXCEPT !.queue = Append(@, m)]

(* pfifo_write of the pusher and puller access bits. *)
PfifoWrite(r) ==
  /\ VcpuLeave /\ Kick
  /\ gpu' = [gpu EXCEPT !.regs = r]

(* Mutated: any acknowledgement lifts the context switch stall; the pending
   bits are left set; no kick follows. *)
PgraphIntr_LiftsAnyStall(val) ==
  /\ VcpuLeave /\ Kick /\ pgraphLock = "none"
  /\ gpu' = [gpu EXCEPT !.intr = @ \ val,
                        !.nop = @ /\ "ERROR" \in gpu.intr \ val,
                        !.ctx = FALSE]

PgraphIntr_KeepsPending(val) ==
  /\ VcpuLeave /\ Kick /\ pgraphLock = "none"
  /\ val # {} /\ val \subseteq gpu.intr
  /\ "CONTEXT_SWITCH" \in val => gpu.valid
  /\ gpu' = [gpu EXCEPT !.nop = @ /\ "ERROR" \notin val,
                        !.ctx = @ /\ "CONTEXT_SWITCH" \notin val]

PgraphIntr_NoKick(val) ==
  /\ VcpuLeave /\ pgraphLock = "none"
  /\ val # {} /\ val \subseteq gpu.intr
  /\ "CONTEXT_SWITCH" \in val => gpu.valid
  /\ gpu' = [gpu EXCEPT !.intr = @ \ val,
                        !.nop = @ /\ "ERROR" \notin val,
                        !.ctx = @ /\ "CONTEXT_SWITCH" \notin val]
  /\ UNCHANGED <<kick, fifoPc>>

(* pgraph_write(NV_PGRAPH_INTR).  The guest's handler acknowledges what is
   pending, a context switch only once the context is loaded. *)
PgraphIntr(val) ==
  /\ VcpuLeave /\ Kick /\ pgraphLock = "none"
  /\ val # {} /\ val \subseteq gpu.intr
  /\ "CONTEXT_SWITCH" \in val => gpu.valid
  /\ LET intr == gpu.intr \ val IN
     gpu' = [gpu EXCEPT !.intr = intr,
                        !.nop = @ /\ "ERROR" \in intr,
                        !.ctx = @ /\ "CONTEXT_SWITCH" \in intr]

(* pgraph_write(NV_PGRAPH_FIFO). *)
PgraphFifo(on) ==
  /\ VcpuLeave /\ Kick /\ pgraphLock = "none"
  /\ gpu.access # on
  /\ gpu' = [gpu EXCEPT !.access = on]

(* pgraph_write(NV_PGRAPH_INCREMENT), from the guest's vertical blank. *)
PgraphIncrement ==
  /\ VcpuLeave /\ Kick /\ pgraphLock = "none"
  /\ gpu' = [gpu EXCEPT !.read = (@ + 1) % Modulo]

(* pgraph_write(NV_PGRAPH_CTX_CONTROL): the driver loads the channel's context
   into PGRAPH.  No kick. *)
PgraphContext ==
  /\ VcpuLeave /\ pgraphLock = "none"
  /\ ~gpu.valid
  /\ gpu' = [gpu EXCEPT !.valid = TRUE]
  /\ UNCHANGED <<kick, fifoPc>>

VcpuHandler ==
  \/ \E m \in Methods : Submit(m)
  \/ \E r \in CacheAccess : PfifoWrite(r)
  \/ \E val \in SUBSET {"ERROR", "CONTEXT_SWITCH"} : PgraphIntr(val)
  \/ \E on \in BOOLEAN : PgraphFifo(on)
  \/ PgraphIncrement
  \/ PgraphContext

Vcpu == VcpuEnter \/ VcpuHandler

-----------------------------------------------------------------------------
(* Machine operations.  vm_stop and a system reset pause the guest first; a
   snapshot is loaded over a freshly reset machine (load_snapshot). *)
Program ==
  [resume |-> <<"run">>,
   reset  |-> <<"reset1", "reset2">>,
   save   |-> <<"save1", "save2", "run">>,
   load   |-> <<"restore", "reset1", "reset2", "load", "run">>]

CtlStart(op) ==
  /\ ctlPc = "none" /\ ctlOps < MaxCtl
  /\ bql = "none" /\ bql' = "ctl"
  /\ vcpuPc = "guest" /\ vcpuPc' = "paused"
  /\ prog' = Program[op] /\ ctlPc' = "lock" /\ ctlOps' = ctlOps + 1
  /\ UNCHANGED <<gpu, fifoVars, locals, fifoPc, pfifoLock, pgraphLock,
                 halted, snapshot, uiVars>>

CtlStep(from, to) == ctlPc = from /\ ctlPc' = to

(* Mutated: the locks are taken without waiting for the FIFO to be idle. *)
CtlLockFifo_WithoutWait ==
  /\ CtlStep("lock", "idle_woken")
  /\ pfifoLock = "none"
  /\ bql' = "none"
  /\ UNCHANGED <<gpu, fifoVars, locals, fifoPc, vcpuPc, pfifoLock, pgraphLock,
                 prog, halted, snapshot, ctlOps, uiVars>>

(* nv2a_lock_fifo: wake the FIFO thread without a kick, give up the BQL and
   wait to be told that it is idle. *)
CtlLockFifo ==
  /\ CtlStep("lock", "idle_wait")
  /\ pfifoLock = "none"
  /\ fifoPc' = Wake(fifoPc)
  /\ bql' = "none"
  /\ UNCHANGED <<gpu, fifoVars, locals, vcpuPc, pfifoLock, pgraphLock,
                 prog, halted, snapshot, ctlOps, uiVars>>

(* The wait ends with pfifo.lock; the BQL and pgraph.lock follow. *)
CtlAcquire ==
  /\ \/ /\ CtlStep("idle_woken", "want_bql")
        /\ pfifoLock = "none" /\ pfifoLock' = "ctl"
        /\ UNCHANGED <<bql, pgraphLock>>
     \/ /\ CtlStep("want_bql", "want_pgraph")
        /\ bql = "none" /\ bql' = "ctl"
        /\ UNCHANGED <<pfifoLock, pgraphLock>>
     \/ /\ CtlStep("want_pgraph", "locked")
        /\ pgraphLock = "none" /\ pgraphLock' = "ctl"
        /\ UNCHANGED <<bql, pfifoLock>>
  /\ UNCHANGED <<gpu, fifoVars, locals, fifoPc, vcpuPc,
                 prog, halted, snapshot, ctlOps, uiVars>>

(* Mutated: nv2a_unlock_fifo without its kick. *)
CtlUnlockFifo_NoKick(waits) ==
  /\ ctlPc = "locked" /\ UNCHANGED <<kick, fifoPc>>
  /\ pgraphLock' = "none" /\ pfifoLock' = "none"
  /\ prog' = Tail(prog)
  /\ ctlPc' = IF waits THEN "event" ELSE IF prog' = <<>> THEN "none" ELSE "lock"
  /\ vcpuPc' = IF ctlPc' = "none" THEN "guest" ELSE vcpuPc
  /\ bql' = IF ctlPc' = "lock" THEN "ctl" ELSE "none"
  /\ UNCHANGED <<locals, ctlOps, uiVars>>

(* The stage at the head of prog is done: nv2a_unlock_fifo kicks and releases
   both locks; the thread goes on to wait for an event, to the next stage, or
   lets the guest run again. *)
CtlUnlockFifo(waits) ==
  /\ ctlPc = "locked" /\ Kick
  /\ pgraphLock' = "none" /\ pfifoLock' = "none"
  /\ prog' = Tail(prog)
  /\ ctlPc' = IF waits THEN "event" ELSE IF prog' = <<>> THEN "none" ELSE "lock"
  /\ vcpuPc' = IF ctlPc' = "none" THEN "guest" ELSE vcpuPc
  /\ bql' = IF ctlPc' = "lock" THEN "ctl" ELSE "none"
  /\ UNCHANGED <<locals, ctlOps, uiVars>>

Stage(name) == ctlPc = "locked" /\ Head(prog) = name

(* nv2a_vm_state_change(RUN_STATE_SAVE_VM), up to its wait. *)
CtlSaveTrigger ==
  /\ Stage("save1") /\ CtlUnlockFifo(TRUE)
  /\ halt' = TRUE
  /\ pending' = pending \cup {"dirty"}
  /\ UNCHANGED <<gpu, halted, snapshot>>

(* The device state is written with the FIFO locked; nv2a_post_save unlocks. *)
CtlSave ==
  /\ Stage("save2") /\ CtlUnlockFifo(FALSE)
  /\ snapshot' = gpu
  /\ UNCHANGED <<gpu, halt, pending, halted>>

(* nv2a_vm_state_change(RUN_STATE_RESTORE_VM). *)
CtlRestore ==
  /\ Stage("restore") /\ CtlUnlockFifo(FALSE)
  /\ halt' = TRUE
  /\ UNCHANGED <<gpu, pending, halted, snapshot>>

(* nv2a_reset, in two locked sections around the flush. *)
CtlResetFlush ==
  /\ Stage("reset1") /\ CtlUnlockFifo(TRUE)
  /\ halted' = halt /\ halt' = TRUE
  /\ pending' = pending \cup {"flush"}
  /\ UNCHANGED <<gpu, snapshot>>

CtlReset ==
  /\ Stage("reset2") /\ CtlUnlockFifo(FALSE)
  /\ halt' = halted
  /\ gpu' = [ResetRegs EXCEPT !.intr = gpu.intr]
  /\ UNCHANGED <<pending, halted, snapshot>>

(* nv2a_pre_load, the device state, nv2a_post_load. *)
CtlLoad ==
  /\ Stage("load") /\ CtlUnlockFifo(FALSE)
  /\ gpu' = snapshot
  /\ pending' = pending \cup {"flush"}
  /\ UNCHANGED <<halt, halted, snapshot>>

(* nv2a_vm_state_change(RUN_STATE_RUNNING). *)
CtlRun ==
  /\ Stage("run") /\ CtlUnlockFifo(FALSE)
  /\ halt' = FALSE
  /\ UNCHANGED <<gpu, pending, halted, snapshot>>

(* The completion event of the request made in the stage just left: set once
   the FIFO thread has served it. *)
CtlEvent ==
  /\ CtlStep("event", "event_bql")
  /\ pending \cap {"dirty", "flush"} = {}
  /\ UNCHANGED <<gpu, fifoVars, locals, fifoPc, vcpuPc, locks,
                 prog, halted, snapshot, ctlOps, uiVars>>

CtlEventBql ==
  /\ CtlStep("event_bql", "lock")
  /\ bql = "none" /\ bql' = "ctl"
  /\ UNCHANGED <<gpu, fifoVars, locals, fifoPc, vcpuPc, pfifoLock, pgraphLock,
                 prog, halted, snapshot, ctlOps, uiVars>>

CtlContinue ==
  \/ CtlLockFifo \/ CtlAcquire \/ CtlSaveTrigger \/ CtlSave \/ CtlRestore
  \/ CtlResetFlush \/ CtlReset \/ CtlLoad \/ CtlRun \/ CtlEvent \/ CtlEventBql

-----------------------------------------------------------------------------
(* Mutated: the frame is asked for without a kick. *)
UiFrame_NoKick ==
  /\ uiPc = "draw" /\ uiPc' = "sync"
  /\ frames < MaxFrames /\ frames' = frames + 1
  /\ pfifoLock = "none"
  /\ pending' = pending \cup {"sync"}
  /\ UNCHANGED <<gpu, kick, fifoPc, halt, locals, vcpuPc, locks, ctlVars>>

(* pgraph_vk_get_framebuffer_surface: ask for the frame, wait for it. *)
UiFrame ==
  /\ uiPc = "draw" /\ uiPc' = "sync"
  /\ frames < MaxFrames /\ frames' = frames + 1
  /\ pfifoLock = "none" /\ Kick
  /\ pending' = pending \cup {"sync"}
  /\ UNCHANGED <<gpu, halt, locals, vcpuPc, locks, ctlVars>>

UiSynced ==
  /\ uiPc = "sync" /\ uiPc' = "draw"
  /\ "sync" \notin pending
  /\ UNCHANGED <<gpu, fifoVars, locals, fifoPc, vcpuPc, locks, ctlVars, frames>>

Next ==
  \/ Fifo \/ Vcpu \/ CtlContinue \/ UiFrame \/ UiSynced
  \/ \E op \in Operations : CtlStart(op)

Safety == Init /\ [][Next]_vars

(* Every thread keeps running, and a lock released again and again is in the
   end obtained by whoever waits for it (hence strong fairness). *)
ThreadFairness ==
  /\ SF_vars(Fifo) /\ SF_vars(CtlContinue) /\ WF_vars(UiSynced)
  /\ SF_vars(VcpuHandler)

(* The guest's interrupt handler does its job: it runs when there is an
   interrupt or an awaited flip, loads the context it is asked for, acknowledges
   every trap, and flips.  It need not do anything else. *)
GuestFairness ==
  /\ SF_vars((gpu.intr # {} \/ FlipIncomplete) /\ VcpuEnter)
  /\ SF_vars(PgraphContext) /\ SF_vars(FlipIncomplete /\ PgraphIncrement)
  /\ SF_vars(PgraphIntr({"ERROR"})) /\ SF_vars(PgraphIntr({"CONTEXT_SWITCH"}))

FairThreads == Safety /\ ThreadFairness
Spec == Safety /\ ThreadFairness /\ GuestFairness

-----------------------------------------------------------------------------
(* Where a method has run but dma_get does not say so yet. *)
InFlight == fifoPc \in {"nop_irq", "nop_relock", "post_ok"}

(* Every submitted method runs exactly once and in order, across stalls,
   retries, resets and snapshots: dma_get counts the methods that ran, but for
   the one whose write-back the FIFO thread still owes. *)
ExactlyOnce ==
  gpu.executed = gpu.get + (IF InFlight THEN 1 ELSE 0)

(* A snapshot is taken between methods: nothing has run that its dma_get does
   not count, and a stall in it has the interrupt that lifts it. *)
SnapshotAtRest ==
  /\ snapshot.executed = snapshot.get
  /\ snapshot.ctx => "CONTEXT_SWITCH" \in snapshot.intr
  /\ snapshot.nop => "ERROR" \in snapshot.intr

(* pfifo.halt keeps methods from running although the pusher's loop never
   looks at it: once it is set the FIFO thread is out of that loop. *)
HaltedIsQuiet ==
  halt => fifoPc \notin {"loop", "exec", "nop_irq", "nop_relock", "ctx_irq",
                         "ctx_relock", "post_ok", "post_fail"}

(* The FIFO thread never sleeps on work: when it waits on fifo_cond and nobody
   holds pfifo.lock there is no request and no method it could run. *)
NoLostWakeup ==
  fifoPc = "wait" /\ pfifoLock = "none"
    => pending = {} /\ (halt \/ "push" \notin gpu.regs \/ Stalled)

(* The FIFO thread runs a method. *)
Executes ==
  fifoPc \in {"exec", "ctx_relock"} /\ gpu'.executed = gpu.executed + 1

(* No method runs past a stall: not while a flip, a trap or a context switch
   is outstanding. *)
StallsAreRespected ==
  [][Executes => ~gpu.nop /\ ~gpu.flip /\ ~gpu.ctx]_vars

(* A machine operation always comes to its end: nv2a_lock_fifo is told that the
   FIFO is idle and the events of the save and reset handlers are set. *)
OperationsFinish == (ctlPc # "none") ~> (ctlPc = "none")

(* The presenter always gets its frame, also while the machine is paused,
   halted or being reset. *)
FramesArrive == (uiPc = "sync") ~> (uiPc = "draw")

(* A guest that leaves the FIFO enabled, answers its interrupts and flips when
   a flip is awaited has all its methods run: no kick is lost and no stall
   outlives its cause. *)
MethodsDrain ==
  /\ <>[](gpu.access /\ gpu.regs = {"push", "pull"})
  /\ <>[][gpu'.read # gpu.read => FlipIncomplete]_vars
  => []<>(gpu.get = Len(gpu.queue))

(* The assertion of pgraph_method: a method only runs on a loaded channel. *)
ChannelIsValid ==
  [][Executes => gpu.valid]_vars

(* The assertion of NO_OPERATION: no earlier trap is still pending. *)
NopFindsNoError ==
  [][Executes /\ method = "nop" => "ERROR" \notin gpu.intr]_vars

=============================================================================
