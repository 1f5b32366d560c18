---------------------------- MODULE Nv2aFifoProofs ----------------------------
(***************************************************************************)
(* For any bounds, methods and machine operations: the FIFO thread runs    *)
(* every method once, is never caught inside one, and never sleeps on      *)
(* work.  The argument is that nv2a_lock_fifo waits for a thread that is   *)
(* about to sleep, that such a thread has nothing to run, and that nothing *)
(* can give it something to run while the guest is paused.                 *)
(***************************************************************************)
EXTENDS Nv2aFifo, TLAPS

(* The FIFO thread has a method in hand and does not hold pfifo.lock. *)
Busy == {"exec", "nop_irq", "nop_relock", "ctx_irq", "ctx_relock",
         "post_ok", "post_fail"}

(* The pusher has nothing it could run. *)
Quiet == halt \/ "push" \notin gpu.regs \/ Stalled

(* nv2a_lock_fifo was told that the FIFO is idle and has not unlocked yet. *)
Stopping == ctlPc \in {"idle_woken", "want_bql", "want_pgraph", "locked"}

(* pfifo.lock is where the program counters say, and an operation goes on
   after each of its waits. *)
LockOwners ==
  /\ fifoPc \in {"top", "push", "loop", "idle"} <=> pfifoLock = "fifo"
  /\ ctlPc \in {"want_bql", "want_pgraph", "locked"} <=> pfifoLock = "ctl"
  /\ ctlPc # "none" => vcpuPc = "paused" /\ prog # <<>>
  /\ \A i \in 1..Len(prog) :
       prog[i] \in {"save1", "reset1"} => i < Len(prog)

(* The methods counted and those still in the buffer. *)
Counted(g) == g.executed = g.get /\ g.get <= Len(g.queue)

MethodsCounted ==
  /\ ExactlyOnce
  /\ gpu.get <= Len(gpu.queue)
  /\ fifoPc \in Busy => getV = gpu.get + 1 /\ gpu.get < Len(gpu.queue)
                        /\ method \in MethodKinds
  /\ Counted(snapshot)

(* A stall has its cause pending, or about to be. *)
StallsCaused ==
  /\ gpu.nop => "ERROR" \in gpu.intr
  /\ gpu.ctx => "CONTEXT_SWITCH" \in gpu.intr \/ fifoPc = "ctx_irq"
  /\ snapshot.nop => "ERROR" \in snapshot.intr
  /\ snapshot.ctx => "CONTEXT_SWITCH" \in snapshot.intr
  /\ fifoPc = "exec" => ~gpu.ctx
  /\ fifoPc \in {"exec", "ctx_irq", "ctx_relock"} => ~gpu.nop /\ ~gpu.flip

(* A thread on its way to sleep that was not kicked leaves nothing behind. *)
NothingMissed ==
  /\ fifoPc \notin {"top", "pend", "woken"} /\ ~kick => pending = {}
  /\ fifoPc \in {"idle", "wait", "post_fail"} /\ ~kick => Quiet
  /\ fifoPc = "wait" => ~kick

(* A FIFO that is being stopped stays out of methods, and so does a halted
   one. *)
StoppedStays ==
  /\ Stopping => Quiet /\ fifoPc \notin Busy
  /\ Stopping /\ fifoPc = "loop" => Stalled
  /\ HaltedIsQuiet

Inv ==
  /\ TypeOK /\ LockOwners /\ MethodsCounted /\ StallsCaused
  /\ NothingMissed /\ StoppedStays

-----------------------------------------------------------------------------
(* The machine starts in Inv. *)
LEMMA InitInv == Init => Inv
<1> SUFFICES ASSUME Init PROVE Inv
  OBVIOUS
<1>1. gpu \in GpuType /\ snapshot \in GpuType
  BY ModuloAssumption DEF Init, ResetRegs, GpuType
<1>2. TypeOK
  <2>1. prog \in Seq(Stages) /\ getV \in Nat
    BY DEF Init
  <2>2. ctlOps \in 0..MaxCtl /\ frames \in 0..MaxFrames
    BY BoundsAssumption DEF Init
  <2>3. QED
    BY <1>1, <2>1, <2>2, Zenon DEF Init, TypeOK, FifoPcs, CtlPcs
<1>3. LockOwners
  BY DEF Init, LockOwners
<1>4. MethodsCounted
  BY DEF Init, MethodsCounted, Counted, ExactlyOnce, InFlight, Busy, ResetRegs
<1>5. StallsCaused
  BY DEF Init, StallsCaused, ResetRegs
<1>6. NothingMissed
  BY DEF Init, NothingMissed
<1>7. StoppedStays
  BY DEF Init, StoppedStays, Stopping, HaltedIsQuiet
<1>8. QED
  BY <1>2, <1>3, <1>4, <1>5, <1>6, <1>7 DEF Inv

(* The FIFO thread looks for requests and serves them. *)
LEMMA FifoServesInv ==
  ASSUME Inv, FifoTop \/ FifoPend \/ FifoPendRelock \/ FifoPush
  PROVE  Inv'
<1>1. TypeOK'
  <2>1. CASE FifoTop
    BY <2>1, Zenon DEF Inv, TypeOK, FifoPcs, FifoTop, FifoStep, locals, ctlVars,
       uiVars
  <2>2. CASE FifoPend
    BY <2>2 DEF Inv, TypeOK, FifoPcs, FifoPend, FifoStep, locals, locks, ctlVars,
       uiVars
  <2>3. CASE FifoPendRelock
    BY <2>3 DEF Inv, TypeOK, FifoPcs, FifoPendRelock, FifoLock, FifoStep, fifoVars,
       locals, ctlVars, uiVars
  <2>4. CASE FifoPush
    BY <2>4 DEF Inv, TypeOK, FifoPcs, FifoPush, FifoStep, fifoVars, locals, locks,
       ctlVars, uiVars
  <2>5. QED
    BY <2>1, <2>2, <2>3, <2>4
<1>2. LockOwners'
  BY DEF Inv, LockOwners, FifoTop, FifoPend, FifoPendRelock, FifoLock, FifoPush,
     FifoStep, fifoVars, locals, locks, ctlVars, uiVars
<1>3. MethodsCounted'
  BY DEF Inv, MethodsCounted, Counted, ExactlyOnce, InFlight, Busy, FifoTop,
     FifoPend, FifoPendRelock, FifoLock, FifoPush, FifoStep, fifoVars, locals,
     locks, ctlVars, uiVars
<1>4. StallsCaused'
  BY DEF Inv, StallsCaused, FifoTop, FifoPend, FifoPendRelock, FifoLock, FifoPush,
     FifoStep, fifoVars, locals, locks, ctlVars, uiVars
<1>5. NothingMissed'
  BY DEF Inv, NothingMissed, Quiet, Stalled, FlipIncomplete, FifoTop, FifoPend,
     FifoPendRelock, FifoLock, FifoPush, FifoStep, fifoVars, locals, locks, ctlVars,
     uiVars
<1>6. StoppedStays'
  BY DEF Inv, LockOwners, StoppedStays, Stopping, Quiet, Stalled, FlipIncomplete,
     HaltedIsQuiet, Busy, FifoTop, FifoPend, FifoPendRelock, FifoLock, FifoPush,
     FifoStep, fifoVars, locals, locks, ctlVars, uiVars
<1>7. QED
  BY <1>1, <1>2, <1>3, <1>4, <1>5, <1>6 DEF Inv

(* The FIFO thread goes to sleep and wakes up. *)
LEMMA FifoSleepsInv == ASSUME Inv, FifoIdle \/ FifoWake PROVE Inv'
<1>1. TypeOK'
  <2>1. /\ fifoPc' \in FifoPcs /\ ctlPc' \in CtlPcs
        /\ pfifoLock' \in {"none", "fifo", "ctl"}
    BY DEF Inv, TypeOK, FifoPcs, CtlPcs, FifoIdle, FifoWake, FifoLock, FifoStep, ctlVars
  <2>2. UNCHANGED <<gpu, fifoVars, locals, vcpuPc, bql, pgraphLock, prog, halted,
                    snapshot, ctlOps, uiVars>>
    BY DEF FifoIdle, FifoWake, FifoLock, ctlVars
  <2>3. QED
    BY <2>1, <2>2 DEF Inv, TypeOK, fifoVars, locals, uiVars
<1>2. LockOwners'
  BY DEF Inv, LockOwners, FifoIdle, FifoWake, FifoLock, FifoStep, fifoVars, locals,
     locks, ctlVars, uiVars
<1>3. MethodsCounted'
  BY DEF Inv, MethodsCounted, Counted, ExactlyOnce, InFlight, Busy, FifoIdle,
     FifoWake, FifoLock, FifoStep, fifoVars, locals, locks, ctlVars, uiVars
<1>4. StallsCaused'
  BY DEF Inv, StallsCaused, FifoIdle, FifoWake, FifoLock, FifoStep, fifoVars,
     locals, locks, ctlVars, uiVars
<1>5. NothingMissed'
  BY DEF Inv, NothingMissed, Quiet, Stalled, FlipIncomplete, FifoIdle, FifoWake,
     FifoLock, FifoStep, fifoVars, locals, locks, ctlVars, uiVars
<1>6. StoppedStays'
  BY DEF Inv, LockOwners, StoppedStays, Stopping, Quiet, Stalled, FlipIncomplete,
     HaltedIsQuiet, NothingMissed, Busy, FifoIdle, FifoWake, FifoLock, FifoStep,
     fifoVars, locals, locks, ctlVars, uiVars
<1>7. QED
  BY <1>1, <1>2, <1>3, <1>4, <1>5, <1>6 DEF Inv

(* The FIFO thread raises the line. *)
LEMMA FifoRaisesInv == ASSUME Inv, FifoNopIrq \/ FifoNopRelock PROVE Inv'
<1>1. TypeOK'
  <2>1. fifoPc' \in FifoPcs
    BY DEF FifoPcs, FifoNopIrq, FifoNopRelock, FifoStep
  <2>2. UNCHANGED <<gpu, fifoVars, locals, vcpuPc, locks, ctlVars, uiVars>>
    BY DEF FifoNopIrq, FifoNopRelock
  <2>3. QED
    BY <2>1, <2>2 DEF Inv, TypeOK, fifoVars, locals, locks, ctlVars, uiVars
<1>2. LockOwners'
  BY DEF Inv, LockOwners, FifoNopIrq, FifoNopRelock, FifoStep, fifoVars, locals,
     locks, ctlVars, uiVars
<1>3. MethodsCounted'
  BY DEF Inv, MethodsCounted, Counted, ExactlyOnce, InFlight, Busy, FifoNopIrq,
     FifoNopRelock, FifoStep, fifoVars, locals, locks, ctlVars, uiVars
<1>4. StallsCaused'
  BY DEF Inv, StallsCaused, FifoNopIrq, FifoNopRelock, FifoStep, fifoVars, locals,
     locks, ctlVars, uiVars
<1>5. NothingMissed'
  BY DEF Inv, NothingMissed, Quiet, Stalled, FlipIncomplete, FifoNopIrq,
     FifoNopRelock, FifoStep, fifoVars, locals, locks, ctlVars, uiVars
<1>6. StoppedStays'
  BY DEF Inv, LockOwners, StoppedStays, Stopping, Quiet, Stalled, FlipIncomplete,
     HaltedIsQuiet, Busy, FifoNopIrq, FifoNopRelock, FifoStep, fifoVars, locals,
     locks, ctlVars, uiVars
<1>7. QED
  BY <1>1, <1>2, <1>3, <1>4, <1>5, <1>6 DEF Inv

(* What the type invariant says of the numbers. *)
LEMMA NumbersTyped ==
  ASSUME Inv
  PROVE  /\ gpu.get \in Nat /\ gpu.executed \in Nat /\ Len(gpu.queue) \in Nat
         /\ getV \in Nat /\ gpu.queue \in Seq(MethodKinds)
         /\ gpu.read \in 0..Modulo-1 /\ gpu.write \in 0..Modulo-1
  BY DEF Inv, TypeOK, GpuType

(* Surface indices stay below the modulus. *)
LEMMA NextSurface ==
  ASSUME NEW n \in 0..Modulo-1
  PROVE  (n + 1) % Modulo \in 0..Modulo-1
  BY ModuloAssumption

(* The pusher takes the next method, or finds that it must stall. *)
LEMMA FifoLoopInv == ASSUME Inv, FifoLoop PROVE Inv'
<1>g. /\ gpu' \in GpuType
      /\ gpu'.queue = gpu.queue /\ gpu'.get = gpu.get
      /\ gpu'.executed = gpu.executed /\ gpu'.regs = gpu.regs
      /\ gpu'.access = gpu.access /\ gpu'.valid = gpu.valid /\ gpu'.read = gpu.read
      /\ gpu'.write = gpu.write /\ gpu'.nop = gpu.nop /\ gpu'.ctx = gpu.ctx
      /\ gpu'.intr = gpu.intr
      /\ gpu'.flip => gpu.flip
      /\ ~Stalled => ~gpu'.flip
      /\ Stalled' <=> Stalled
  BY DEF Inv, TypeOK, GpuType, FifoLoop, Stalled, ChecksFlip, FlipIncomplete
<1>m. ~Stalled => /\ gpu.get < Len(gpu.queue) /\ gpu.get + 1 \in Nat
                  /\ gpu.queue[gpu.get + 1] \in MethodKinds
  BY NumbersTyped DEF Inv, MethodsCounted, Stalled
<1>1. TypeOK'
  BY <1>g, <1>m DEF Inv, TypeOK, FifoPcs, FifoStep, FifoLoop, fifoVars, locals,
     locks, ctlVars, uiVars
<1>2. LockOwners'
  BY <1>g DEF Inv, LockOwners, FifoStep, FifoLoop, fifoVars, locals, locks, ctlVars,
     uiVars
<1>3. MethodsCounted'
  BY <1>g, <1>m, NumbersTyped DEF Inv, MethodsCounted, Counted, ExactlyOnce,
     InFlight, Busy, FifoStep, FifoLoop, fifoVars, locals, locks, ctlVars, uiVars
<1>4. StallsCaused'
  BY <1>g DEF Inv, StallsCaused, Stalled, FlipIncomplete, FifoStep, FifoLoop,
     fifoVars, locals, locks, ctlVars, uiVars
<1>5. NothingMissed'
  BY <1>g DEF Inv, NothingMissed, Quiet, Stalled, FlipIncomplete, FifoStep,
     FifoLoop, fifoVars, locals, locks, ctlVars, uiVars
<1>6. StoppedStays'
  BY <1>g DEF Inv, LockOwners, StoppedStays, Stopping, Quiet, Stalled,
     FlipIncomplete, HaltedIsQuiet, Busy, FifoStep, FifoLoop, fifoVars, locals,
     locks, ctlVars, uiVars
<1>7. QED
  BY <1>1, <1>2, <1>3, <1>4, <1>5, <1>6 DEF Inv

(* The puller runs a method that does not trap. *)
LEMMA FifoExecInv == ASSUME Inv, FifoExec PROVE Inv'
<1>g. /\ gpu' \in GpuType
      /\ gpu'.queue = gpu.queue /\ gpu'.get = gpu.get /\ gpu'.regs = gpu.regs
      /\ gpu'.access = gpu.access /\ gpu'.valid = gpu.valid /\ gpu'.read = gpu.read
      /\ gpu'.nop = gpu.nop /\ gpu'.ctx = gpu.ctx /\ gpu'.intr = gpu.intr
      /\ gpu'.executed = gpu.executed + (IF gpu.access THEN 1 ELSE 0)
      /\ ~gpu.access => gpu' = gpu
  <2>1. CASE ~gpu.access
    BY <2>1, NumbersTyped DEF FifoExec, Inv, TypeOK
  <2>2. CASE gpu.access
    <3> DEFINE flip == gpu.flip \/ method = "flip"
               write == IF method = "incr" THEN (gpu.write + 1) % Modulo ELSE gpu.write
    <3>1. flip \in BOOLEAN
      OBVIOUS
    <3>2. gpu.executed + 1 \in Nat
      BY NumbersTyped
    <3>3. write \in 0..Modulo-1
      <4>1. (gpu.write + 1) % Modulo \in 0..Modulo-1
        BY NumbersTyped, NextSurface
      <4>2. QED
        BY <4>1, NumbersTyped
    <3>4. gpu' = [gpu EXCEPT !.executed = gpu.executed + 1, !.flip = flip, !.write = write]
      BY <2>2 DEF FifoExec
    <3> HIDE DEF flip, write
    <3>5. QED
      BY <2>2, <3>1, <3>2, <3>3, <3>4 DEF Inv, TypeOK, GpuType
  <2>3. QED
    BY <2>1, <2>2
<1>1. TypeOK'
  BY <1>g DEF Inv, TypeOK, FifoPcs, FifoStep, FifoExec, fifoVars, locals, locks,
     ctlVars, uiVars
<1>2. LockOwners'
  BY <1>g DEF Inv, LockOwners, FifoStep, FifoExec, fifoVars, locals, locks, ctlVars,
     uiVars
<1>3. MethodsCounted'
  BY <1>g, NumbersTyped DEF Inv, MethodsCounted, Counted, ExactlyOnce, InFlight,
     Busy, FifoStep, FifoExec, fifoVars, locals, locks, ctlVars, uiVars
<1>4. StallsCaused'
  BY <1>g DEF Inv, StallsCaused, FifoStep, FifoExec, fifoVars, locals, locks,
     ctlVars, uiVars
<1>5. NothingMissed'
  BY <1>g DEF Inv, NothingMissed, Quiet, Stalled, FlipIncomplete, FifoStep,
     FifoExec, fifoVars, locals, locks, ctlVars, uiVars
<1>6. StoppedStays'
  BY <1>g DEF Inv, LockOwners, StoppedStays, Stopping, Quiet, Stalled,
     FlipIncomplete, HaltedIsQuiet, Busy, FifoStep, FifoExec, fifoVars, locals,
     locks, ctlVars, uiVars
<1>7. QED
  BY <1>1, <1>2, <1>3, <1>4, <1>5, <1>6 DEF Inv

(* A NO_OPERATION traps. *)
LEMMA FifoNopInv == ASSUME Inv, FifoNop PROVE Inv'
<1>g. /\ gpu' \in GpuType
      /\ gpu'.queue = gpu.queue /\ gpu'.get = gpu.get /\ gpu'.regs = gpu.regs
      /\ gpu'.access = gpu.access /\ gpu'.valid = gpu.valid /\ gpu'.read = gpu.read
      /\ gpu'.write = gpu.write /\ gpu'.ctx = gpu.ctx /\ gpu'.flip = gpu.flip
      /\ gpu'.executed = gpu.executed + 1
      /\ gpu'.intr = gpu.intr \cup {"ERROR"}
  <2>1. /\ gpu.executed + 1 \in Nat
        /\ gpu.intr \cup {"ERROR"} \in SUBSET {"ERROR", "CONTEXT_SWITCH"}
    BY NumbersTyped, SMTT(20) DEF Inv, TypeOK, GpuType
  <2>2. gpu' \in GpuType
    BY <2>1 DEF Inv, TypeOK, GpuType, FifoNop
  <2>3. QED
    BY <2>2 DEF Inv, TypeOK, GpuType, FifoNop
<1>1. TypeOK'
  BY <1>g DEF Inv, TypeOK, FifoPcs, FifoStep, FifoNop, fifoVars, locals, locks,
     ctlVars, uiVars
<1>2. LockOwners'
  BY <1>g DEF Inv, LockOwners, FifoStep, FifoNop, fifoVars, locals, locks, ctlVars,
     uiVars
<1>3. MethodsCounted'
  BY <1>g, NumbersTyped DEF Inv, MethodsCounted, Counted, ExactlyOnce, InFlight,
     Busy, FifoStep, FifoNop, fifoVars, locals, locks, ctlVars, uiVars
<1>4. StallsCaused'
  BY <1>g DEF Inv, StallsCaused, FifoStep, FifoNop, fifoVars, locals, locks,
     ctlVars, uiVars
<1>5. NothingMissed'
  BY <1>g DEF Inv, NothingMissed, Quiet, Stalled, FlipIncomplete, FifoStep, FifoNop,
     fifoVars, locals, locks, ctlVars, uiVars
<1>6. StoppedStays'
  BY <1>g DEF Inv, LockOwners, StoppedStays, Stopping, Quiet, Stalled,
     FlipIncomplete, HaltedIsQuiet, Busy, FifoStep, FifoNop, fifoVars, locals,
     locks, ctlVars, uiVars
<1>7. QED
  BY <1>1, <1>2, <1>3, <1>4, <1>5, <1>6 DEF Inv

(* A method 0 on an unloaded channel traps. *)
LEMMA FifoContextSwitchInv == ASSUME Inv, FifoContextSwitch PROVE Inv'
<1>g. /\ gpu' \in GpuType
      /\ gpu'.queue = gpu.queue /\ gpu'.get = gpu.get
      /\ gpu'.executed = gpu.executed /\ gpu'.regs = gpu.regs
      /\ gpu'.access = gpu.access /\ gpu'.valid = gpu.valid /\ gpu'.read = gpu.read
      /\ gpu'.write = gpu.write /\ gpu'.nop = gpu.nop /\ gpu'.flip = gpu.flip
      /\ gpu'.intr = gpu.intr
  BY DEF Inv, TypeOK, GpuType, FifoContextSwitch
<1>1. TypeOK'
  BY <1>g DEF Inv, TypeOK, FifoPcs, FifoStep, FifoContextSwitch, fifoVars, locals,
     locks, ctlVars, uiVars
<1>2. LockOwners'
  BY <1>g DEF Inv, LockOwners, FifoStep, FifoContextSwitch, fifoVars, locals, locks,
     ctlVars, uiVars
<1>3. MethodsCounted'
  BY <1>g DEF Inv, MethodsCounted, Counted, ExactlyOnce, InFlight, Busy, FifoStep,
     FifoContextSwitch, fifoVars, locals, locks, ctlVars, uiVars
<1>4. StallsCaused'
  BY <1>g DEF Inv, StallsCaused, FifoStep, FifoContextSwitch, fifoVars, locals,
     locks, ctlVars, uiVars
<1>5. NothingMissed'
  BY <1>g DEF Inv, NothingMissed, Quiet, Stalled, FlipIncomplete, FifoStep,
     FifoContextSwitch, fifoVars, locals, locks, ctlVars, uiVars
<1>6. StoppedStays'
  BY <1>g DEF Inv, LockOwners, StoppedStays, Stopping, Quiet, Stalled,
     FlipIncomplete, HaltedIsQuiet, Busy, FifoStep, FifoContextSwitch, fifoVars,
     locals, locks, ctlVars, uiVars
<1>7. QED
  BY <1>1, <1>2, <1>3, <1>4, <1>5, <1>6 DEF Inv

(* The context switch interrupt is raised. *)
LEMMA FifoContextIrqInv == ASSUME Inv, FifoContextIrq PROVE Inv'
<1>g. /\ gpu' \in GpuType
      /\ gpu'.queue = gpu.queue /\ gpu'.get = gpu.get
      /\ gpu'.executed = gpu.executed /\ gpu'.regs = gpu.regs
      /\ gpu'.access = gpu.access /\ gpu'.valid = gpu.valid /\ gpu'.read = gpu.read
      /\ gpu'.write = gpu.write /\ gpu'.nop = gpu.nop /\ gpu'.ctx = gpu.ctx
      /\ gpu'.flip = gpu.flip
      /\ gpu'.intr = gpu.intr \cup {"CONTEXT_SWITCH"}
  BY DEF Inv, TypeOK, GpuType, FifoContextIrq
<1>1. TypeOK'
  BY <1>g DEF Inv, TypeOK, FifoPcs, FifoStep, FifoContextIrq, fifoVars, locals,
     locks, ctlVars, uiVars
<1>2. LockOwners'
  BY <1>g DEF Inv, LockOwners, FifoStep, FifoContextIrq, fifoVars, locals, locks,
     ctlVars, uiVars
<1>3. MethodsCounted'
  BY <1>g DEF Inv, MethodsCounted, Counted, ExactlyOnce, InFlight, Busy, FifoStep,
     FifoContextIrq, fifoVars, locals, locks, ctlVars, uiVars
<1>4. StallsCaused'
  BY <1>g DEF Inv, StallsCaused, FifoStep, FifoContextIrq, fifoVars, locals, locks,
     ctlVars, uiVars
<1>5. NothingMissed'
  BY <1>g DEF Inv, NothingMissed, Quiet, Stalled, FlipIncomplete, FifoStep,
     FifoContextIrq, fifoVars, locals, locks, ctlVars, uiVars
<1>6. StoppedStays'
  BY <1>g DEF Inv, LockOwners, StoppedStays, Stopping, Quiet, Stalled,
     FlipIncomplete, HaltedIsQuiet, Busy, FifoStep, FifoContextIrq, fifoVars,
     locals, locks, ctlVars, uiVars
<1>7. QED
  BY <1>1, <1>2, <1>3, <1>4, <1>5, <1>6 DEF Inv

(* The puller looks whether the guest has switched contexts meanwhile. *)
LEMMA FifoContextRelockInv == ASSUME Inv, FifoContextRelock PROVE Inv'
<1>g. /\ gpu' \in GpuType
      /\ gpu'.queue = gpu.queue /\ gpu'.get = gpu.get /\ gpu'.regs = gpu.regs
      /\ gpu'.access = gpu.access /\ gpu'.valid = gpu.valid /\ gpu'.read = gpu.read
      /\ gpu'.write = gpu.write /\ gpu'.nop = gpu.nop /\ gpu'.ctx = gpu.ctx
      /\ gpu'.flip = gpu.flip /\ gpu'.intr = gpu.intr
      /\ gpu'.executed = IF gpu.ctx THEN gpu.executed ELSE gpu.executed + 1
  <2>1. (IF gpu.ctx THEN gpu.executed ELSE gpu.executed + 1) \in Nat
    BY NumbersTyped, SMTT(20) DEF Inv, TypeOK, GpuType
  <2>2. gpu' \in GpuType
    BY <2>1 DEF Inv, TypeOK, GpuType, FifoContextRelock
  <2>3. QED
    BY <2>2 DEF Inv, TypeOK, GpuType, FifoContextRelock
<1>1. TypeOK'
  BY <1>g DEF Inv, TypeOK, FifoPcs, FifoStep, FifoContextRelock, fifoVars, locals,
     locks, ctlVars, uiVars
<1>2. LockOwners'
  BY <1>g DEF Inv, LockOwners, FifoStep, FifoContextRelock, fifoVars, locals, locks,
     ctlVars, uiVars
<1>3. MethodsCounted'
  BY <1>g, NumbersTyped DEF Inv, MethodsCounted, Counted, ExactlyOnce, InFlight,
     Busy, FifoStep, FifoContextRelock, fifoVars, locals, locks, ctlVars, uiVars
<1>4. StallsCaused'
  BY <1>g DEF Inv, StallsCaused, FifoStep, FifoContextRelock, fifoVars, locals,
     locks, ctlVars, uiVars
<1>5. NothingMissed'
  BY <1>g DEF Inv, NothingMissed, Quiet, Stalled, FlipIncomplete, FifoStep,
     FifoContextRelock, fifoVars, locals, locks, ctlVars, uiVars
<1>6. StoppedStays'
  BY <1>g DEF Inv, LockOwners, StoppedStays, Stopping, Quiet, Stalled,
     FlipIncomplete, HaltedIsQuiet, Busy, FifoStep, FifoContextRelock, fifoVars,
     locals, locks, ctlVars, uiVars
<1>7. QED
  BY <1>1, <1>2, <1>3, <1>4, <1>5, <1>6 DEF Inv

(* The pusher writes dma_get back, or gives up. *)
LEMMA FifoPostInv == ASSUME Inv, FifoPost PROVE Inv'
<1>g. /\ gpu' \in GpuType
      /\ gpu'.queue = gpu.queue /\ gpu'.executed = gpu.executed
      /\ gpu'.regs = gpu.regs /\ gpu'.access = gpu.access /\ gpu'.valid = gpu.valid
      /\ gpu'.read = gpu.read /\ gpu'.write = gpu.write /\ gpu'.nop = gpu.nop
      /\ gpu'.ctx = gpu.ctx /\ gpu'.flip = gpu.flip /\ gpu'.intr = gpu.intr
      /\ gpu'.get = IF fifoPc = "post_ok" THEN getV ELSE gpu.get
  BY DEF Inv, TypeOK, GpuType, FifoPost, FifoStep
<1>1. TypeOK'
  BY <1>g DEF Inv, TypeOK, FifoPcs, FifoStep, FifoPost, fifoVars, locals, locks,
     ctlVars, uiVars
<1>2. LockOwners'
  BY <1>g DEF Inv, LockOwners, FifoStep, FifoPost, fifoVars, locals, locks, ctlVars,
     uiVars
<1>3. MethodsCounted'
  BY <1>g, NumbersTyped DEF Inv, MethodsCounted, Counted, ExactlyOnce, InFlight,
     Busy, FifoStep, FifoPost, fifoVars, locals, locks, ctlVars, uiVars
<1>4. StallsCaused'
  BY <1>g DEF Inv, StallsCaused, FifoStep, FifoPost, fifoVars, locals, locks,
     ctlVars, uiVars
<1>5. NothingMissed'
  BY <1>g DEF Inv, NothingMissed, Quiet, Stalled, FlipIncomplete, FifoStep,
     FifoPost, fifoVars, locals, locks, ctlVars, uiVars
<1>6. StoppedStays'
  BY <1>g DEF Inv, LockOwners, StoppedStays, Stopping, Quiet, Stalled,
     FlipIncomplete, HaltedIsQuiet, Busy, FifoStep, FifoPost, fifoVars, locals,
     locks, ctlVars, uiVars
<1>7. QED
  BY <1>1, <1>2, <1>3, <1>4, <1>5, <1>6 DEF Inv

(* A register write that ends in pfifo_kick keeps the invariant, whatever it
   does to the device, as long as it adds methods only at the end, leaves the
   counts alone, and lifts or keeps a stall together with its interrupt. *)
LEMMA GuestWriteInv ==
  ASSUME Inv, VcpuLeave, Kick, gpu' \in GpuType,
         gpu'.get = gpu.get, gpu'.executed = gpu.executed,
         Len(gpu.queue) <= Len(gpu'.queue), gpu'.flip = gpu.flip,
         gpu'.nop => gpu.nop /\ "ERROR" \in gpu'.intr,
         gpu'.ctx => /\ gpu.ctx
                     /\ (gpu.intr \subseteq gpu'.intr \/ "CONTEXT_SWITCH" \in gpu'.intr)
  PROVE  Inv'
<1>1. TypeOK'
  BY DEF Inv, TypeOK, FifoPcs, VcpuLeave, Kick, Wake, locals, ctlVars, uiVars
<1>2. LockOwners'
  BY DEF Inv, LockOwners, VcpuLeave, Kick, Wake, ctlVars
<1>3. MethodsCounted'
  <2>1. Len(gpu'.queue) \in Nat
    BY DEF GpuType
  <2>2. QED
    BY <2>1, NumbersTyped DEF Inv, MethodsCounted, Counted, ExactlyOnce, InFlight,
       Busy, VcpuLeave, Kick, Wake, locals, ctlVars
<1>4. StallsCaused'
  BY DEF Inv, StallsCaused, VcpuLeave, Kick, Wake, ctlVars
<1>5. NothingMissed'
  BY DEF Inv, NothingMissed, Kick, Wake
<1>6. StoppedStays'
  BY DEF Inv, LockOwners, StoppedStays, Stopping, HaltedIsQuiet, VcpuLeave, Kick,
     Wake, ctlVars
<1>7. QED
  BY <1>1, <1>2, <1>3, <1>4, <1>5, <1>6 DEF Inv

(* The guest enters a register write. *)
LEMMA VcpuEnterInv == ASSUME Inv, VcpuEnter PROVE Inv'
<1>1. TypeOK'
  BY DEF Inv, TypeOK, VcpuEnter, fifoVars, locals, ctlVars, uiVars
<1>2. LockOwners'
  BY DEF Inv, LockOwners, VcpuEnter, ctlVars
<1>3. MethodsCounted'
  BY DEF Inv, MethodsCounted, Counted, ExactlyOnce, InFlight, Busy, VcpuEnter,
     locals, ctlVars
<1>4. StallsCaused'
  BY DEF Inv, StallsCaused, VcpuEnter, ctlVars
<1>5. NothingMissed'
  BY DEF Inv, NothingMissed, Quiet, Stalled, FlipIncomplete, VcpuEnter, fifoVars
<1>6. StoppedStays'
  BY DEF Inv, StoppedStays, Stopping, Quiet, Stalled, FlipIncomplete, HaltedIsQuiet,
     Busy, VcpuEnter, fifoVars, ctlVars
<1>7. QED
  BY <1>1, <1>2, <1>3, <1>4, <1>5, <1>6 DEF Inv

(* The context is loaded without a kick; nothing becomes runnable by it. *)
LEMMA PgraphContextInv == ASSUME Inv, PgraphContext PROVE Inv'
<1>g. /\ gpu' \in GpuType
      /\ gpu'.queue = gpu.queue /\ gpu'.get = gpu.get /\ gpu'.executed = gpu.executed
      /\ gpu'.regs = gpu.regs /\ gpu'.access = gpu.access
      /\ gpu'.read = gpu.read /\ gpu'.write = gpu.write
      /\ gpu'.nop = gpu.nop /\ gpu'.ctx = gpu.ctx /\ gpu'.flip = gpu.flip
      /\ gpu'.intr = gpu.intr
  BY DEF Inv, TypeOK, GpuType, PgraphContext
<1>1. TypeOK'
  BY <1>g DEF Inv, TypeOK, PgraphContext, VcpuLeave, locals, ctlVars, uiVars
<1>2. LockOwners'
  BY DEF Inv, LockOwners, PgraphContext, VcpuLeave, ctlVars
<1>3. MethodsCounted'
  BY <1>g DEF Inv, MethodsCounted, Counted, ExactlyOnce, InFlight, Busy,
     PgraphContext, VcpuLeave, locals, ctlVars
<1>4. StallsCaused'
  BY <1>g DEF Inv, StallsCaused, PgraphContext, VcpuLeave, ctlVars
<1>5. NothingMissed'
  BY <1>g DEF Inv, NothingMissed, Quiet, Stalled, FlipIncomplete, PgraphContext,
     VcpuLeave
<1>6. StoppedStays'
  BY DEF Inv, LockOwners, StoppedStays, Stopping, HaltedIsQuiet, PgraphContext,
     VcpuLeave, ctlVars
<1>7. QED
  BY <1>1, <1>2, <1>3, <1>4, <1>5, <1>6 DEF Inv

(* Every register write of the guest. *)
LEMMA VcpuInv == ASSUME Inv, Vcpu PROVE Inv'
<1> USE NumbersTyped DEF Inv, StallsCaused
<1>1. ASSUME NEW m \in Methods, Submit(m) PROVE Inv'
  <2>1. /\ Append(gpu.queue, m) \in Seq(MethodKinds)
        /\ Len(Append(gpu.queue, m)) = Len(gpu.queue) + 1
    BY MethodsAssumption
  <2>2. gpu' \in GpuType /\ gpu'.queue = Append(gpu.queue, m)
    BY <1>1, <2>1 DEF TypeOK, GpuType, Submit
  <2>3. gpu'.get = gpu.get /\ gpu'.executed = gpu.executed /\ gpu'.flip = gpu.flip
        /\ gpu'.nop = gpu.nop /\ gpu'.ctx = gpu.ctx /\ gpu'.intr = gpu.intr
    BY <1>1 DEF TypeOK, GpuType, Submit
  <2>4. Len(gpu.queue) <= Len(gpu'.queue)
    BY <2>1, <2>2
  <2>5. QED
    BY <1>1, <2>2, <2>3, <2>4, GuestWriteInv DEF Submit
<1>2. ASSUME NEW r \in CacheAccess, PfifoWrite(r) PROVE Inv'
  <2>1. gpu' \in GpuType /\ gpu'.queue = gpu.queue
    BY <1>2, CacheAccessAssumption DEF TypeOK, GpuType, PfifoWrite
  <2>2. gpu'.get = gpu.get /\ gpu'.executed = gpu.executed /\ gpu'.flip = gpu.flip
        /\ gpu'.nop = gpu.nop /\ gpu'.ctx = gpu.ctx /\ gpu'.intr = gpu.intr
    BY <1>2 DEF TypeOK, GpuType, PfifoWrite
  <2>3. QED
    BY <1>2, <2>1, <2>2, GuestWriteInv DEF PfifoWrite
<1>3. ASSUME NEW val \in SUBSET {"ERROR", "CONTEXT_SWITCH"}, PgraphIntr(val) PROVE Inv'
  <2> DEFINE intr == gpu.intr \ val
             nop == gpu.nop /\ "ERROR" \in intr
             ctx == gpu.ctx /\ "CONTEXT_SWITCH" \in intr
  <2>1. gpu' = [gpu EXCEPT !.intr = intr, !.nop = nop, !.ctx = ctx]
    BY <1>3 DEF PgraphIntr
  <2>2. intr \in SUBSET {"ERROR", "CONTEXT_SWITCH"} /\ nop \in BOOLEAN /\ ctx \in BOOLEAN
    BY DEF TypeOK, GpuType
  <2>3. /\ nop => gpu.nop /\ "ERROR" \in intr
        /\ ctx => gpu.ctx /\ "CONTEXT_SWITCH" \in intr
    OBVIOUS
  <2> HIDE DEF intr, nop, ctx
  <2>4. gpu' \in GpuType /\ gpu'.intr = intr /\ gpu'.nop = nop /\ gpu'.ctx = ctx
    BY <2>1, <2>2 DEF TypeOK, GpuType
  <2>5. gpu'.queue = gpu.queue /\ gpu'.get = gpu.get /\ gpu'.executed = gpu.executed
        /\ gpu'.flip = gpu.flip
    BY <2>1 DEF TypeOK, GpuType
  <2>6. QED
    BY <1>3, <2>3, <2>4, <2>5, GuestWriteInv DEF PgraphIntr
<1>4. ASSUME NEW on \in BOOLEAN, PgraphFifo(on) PROVE Inv'
  <2>1. gpu' \in GpuType /\ gpu'.queue = gpu.queue
    BY <1>4 DEF TypeOK, GpuType, PgraphFifo
  <2>2. gpu'.get = gpu.get /\ gpu'.executed = gpu.executed /\ gpu'.flip = gpu.flip
        /\ gpu'.nop = gpu.nop /\ gpu'.ctx = gpu.ctx /\ gpu'.intr = gpu.intr
    BY <1>4 DEF TypeOK, GpuType, PgraphFifo
  <2>3. QED
    BY <1>4, <2>1, <2>2, GuestWriteInv DEF PgraphFifo
<1>5. ASSUME PgraphIncrement PROVE Inv'
  <2>1. (gpu.read + 1) % Modulo \in 0..Modulo-1
    BY NextSurface
  <2>2. gpu' \in GpuType /\ gpu'.queue = gpu.queue
    BY <1>5, <2>1 DEF TypeOK, GpuType, PgraphIncrement
  <2>3. gpu'.get = gpu.get /\ gpu'.executed = gpu.executed /\ gpu'.flip = gpu.flip
        /\ gpu'.nop = gpu.nop /\ gpu'.ctx = gpu.ctx /\ gpu'.intr = gpu.intr
    BY <1>5 DEF TypeOK, GpuType, PgraphIncrement
  <2>4. QED
    BY <1>5, <2>2, <2>3, GuestWriteInv DEF PgraphIncrement
<1>6. ASSUME VcpuEnter PROVE Inv'
  BY <1>6, VcpuEnterInv
<1>7. ASSUME PgraphContext PROVE Inv'
  BY <1>7, PgraphContextInv
<1> HIDE DEF Inv
<1>8. ASSUME VcpuHandler PROVE Inv'
  BY <1>1, <1>2, <1>3, <1>4, <1>5, <1>7, <1>8, Zenon DEF VcpuHandler
<1>9. QED
  BY <1>6, <1>8, Zenon DEF Vcpu

(* nv2a_unlock_fifo after a stage keeps the invariant when the device and the
   snapshot it leaves are at rest. *)
LEMMA UnlockInv ==
  ASSUME Inv, NEW waits \in BOOLEAN, CtlUnlockFifo(waits),
         waits => Head(prog) \in {"save1", "reset1"},
         gpu' \in GpuType, snapshot' \in GpuType,
         halt' \in BOOLEAN, halted' \in BOOLEAN,
         pending' \subseteq {"sync", "flush", "dirty"},
         Counted(gpu)', Counted(snapshot)',
         gpu'.nop => "ERROR" \in gpu'.intr,
         gpu'.ctx => "CONTEXT_SWITCH" \in gpu'.intr,
         snapshot'.nop => "ERROR" \in snapshot'.intr,
         snapshot'.ctx => "CONTEXT_SWITCH" \in snapshot'.intr
  PROVE  Inv'
<1>1. prog \in Seq(Stages) /\ prog # <<>> /\ vcpuPc = "paused"
  BY DEF Inv, TypeOK, LockOwners, CtlUnlockFifo
<1>2. fifoPc \notin {"top", "push", "loop", "idle"} /\ fifoPc \notin Busy
  BY DEF Inv, LockOwners, StoppedStays, Stopping, CtlUnlockFifo
<1>3. TypeOK'
  <2>1. prog' \in Seq(Stages)
    BY <1>1 DEF CtlUnlockFifo
  <2>2. QED
    BY <2>1 DEF Inv, TypeOK, FifoPcs, CtlPcs, CtlUnlockFifo, Kick, Wake, locals,
       uiVars
<1>4. LockOwners'
  <2>1. \A i \in 1..Len(prog') :
          prog'[i] \in {"save1", "reset1"} => i < Len(prog')
    BY <1>1 DEF Inv, LockOwners, CtlUnlockFifo
  <2>2. waits => prog' # <<>>
    <3>1. Head(prog) = prog[1] /\ 1 \in 1..Len(prog)
      BY <1>1
    <3>2. waits => 1 < Len(prog)
      BY <3>1 DEF Inv, LockOwners
    <3>3. Len(Tail(prog)) = Len(prog) - 1 /\ Len(prog) \in Nat
      BY <1>1
    <3>4. QED
      BY <3>2, <3>3 DEF CtlUnlockFifo
  <2>3. QED
    BY <1>1, <1>2, <2>1, <2>2 DEF LockOwners, CtlUnlockFifo, Kick, Wake
<1>5. MethodsCounted'
  BY <1>2, NumbersTyped DEF MethodsCounted, Counted, ExactlyOnce, InFlight, Busy,
     CtlUnlockFifo, Kick, Wake, GpuType
<1>6. StallsCaused'
  BY <1>2 DEF StallsCaused, Busy, CtlUnlockFifo, Kick, Wake
<1>7. NothingMissed'
  BY DEF NothingMissed, CtlUnlockFifo, Kick, Wake
<1>8. StoppedStays'
  BY <1>2 DEF StoppedStays, Stopping, HaltedIsQuiet, Busy, CtlUnlockFifo, Kick, Wake
<1>9. QED
  BY <1>3, <1>4, <1>5, <1>6, <1>7, <1>8 DEF Inv

(* When nv2a_lock_fifo has its locks, the device is between two methods. *)
LEMMA LockedAtRest ==
  ASSUME Inv, ctlPc = "locked"
  PROVE  /\ Counted(gpu) /\ Counted(snapshot)
         /\ gpu.nop => "ERROR" \in gpu.intr
         /\ gpu.ctx => "CONTEXT_SWITCH" \in gpu.intr
         /\ snapshot.nop => "ERROR" \in snapshot.intr
         /\ snapshot.ctx => "CONTEXT_SWITCH" \in snapshot.intr
<1>1. fifoPc \notin Busy
  BY DEF Inv, StoppedStays, Stopping
<1>2. Counted(gpu)
  BY <1>1, NumbersTyped DEF Inv, MethodsCounted, Counted, ExactlyOnce, InFlight,
     Busy
<1>3. QED
  BY <1>1, <1>2 DEF Inv, MethodsCounted, StallsCaused, Busy

(* The stages of the machine operations. *)
LEMMA StagesInv ==
  ASSUME Inv, CtlSaveTrigger \/ CtlSave \/ CtlRestore \/ CtlResetFlush \/ CtlReset
              \/ CtlLoad \/ CtlRun
  PROVE  Inv'
<1>1. ctlPc = "locked"
  BY DEF CtlSaveTrigger, CtlSave, CtlRestore, CtlResetFlush, CtlReset, CtlLoad,
     CtlRun, Stage
<1> USE <1>1, LockedAtRest DEF Counted
<1>2. /\ gpu \in GpuType /\ snapshot \in GpuType
      /\ halt \in BOOLEAN /\ halted \in BOOLEAN
      /\ pending \subseteq {"sync", "flush", "dirty"}
  BY DEF Inv, TypeOK
<1>3. CASE CtlSaveTrigger
  BY <1>2, <1>3, UnlockInv DEF CtlSaveTrigger, Stage
<1>4. CASE CtlSave
  BY <1>2, <1>4, UnlockInv DEF CtlSave, Stage
<1>5. CASE CtlRestore
  BY <1>2, <1>5, UnlockInv DEF CtlRestore, Stage
<1>6. CASE CtlResetFlush
  BY <1>2, <1>6, UnlockInv DEF CtlResetFlush, Stage
<1>7. CASE CtlReset
  <2>0. gpu.intr \in SUBSET {"ERROR", "CONTEXT_SWITCH"} /\ 0 \in 0..Modulo-1
        /\ <<>> \in Seq(MethodKinds)
    BY <1>2, ModuloAssumption DEF GpuType
  <2>1. /\ gpu' \in GpuType
        /\ gpu'.executed = 0 /\ gpu'.get = 0 /\ gpu'.queue = <<>>
        /\ ~gpu'.nop /\ ~gpu'.ctx
    BY <2>0, <1>7 DEF CtlReset, ResetRegs, GpuType
  <2>2. Counted(gpu)'
    BY <2>1
  <2>3. QED
    BY <1>2, <1>7, <2>1, <2>2, UnlockInv DEF CtlReset, Stage
<1>8. CASE CtlLoad
  BY <1>2, <1>8, UnlockInv DEF CtlLoad, Stage
<1>9. CASE CtlRun
  BY <1>2, <1>9, UnlockInv DEF CtlRun, Stage
<1>10. QED
  BY <1>3, <1>4, <1>5, <1>6, <1>7, <1>8, <1>9

(* A machine operation begins, with the guest paused. *)
LEMMA CtlStartInv == ASSUME Inv, NEW op \in Operations, CtlStart(op) PROVE Inv'
<1>1. /\ prog' \in Seq(Stages) /\ prog' # <<>>
      /\ \A i \in 1..Len(prog') : prog'[i] \in {"save1", "reset1"} => i < Len(prog')
  <2>1. op \in {"resume", "reset", "save", "load"}
    BY OperationsAssumption
  <2>2. CASE op = "resume"
    BY <2>2 DEF CtlStart, Program, Stages
  <2>3. CASE op = "reset"
    BY <2>3 DEF CtlStart, Program, Stages
  <2>4. CASE op = "save"
    BY <2>4 DEF CtlStart, Program, Stages
  <2>5. CASE op = "load"
    BY <2>5 DEF CtlStart, Program, Stages
  <2>6. QED
    BY <2>1, <2>2, <2>3, <2>4, <2>5
<1>2. TypeOK'
  <2>1. ctlOps' \in 0..MaxCtl
    BY BoundsAssumption DEF Inv, TypeOK, CtlStart
  <2>2. QED
    BY <1>1, <2>1 DEF Inv, TypeOK, CtlPcs, CtlStart, fifoVars, locals, uiVars
<1>3. LockOwners'
  BY <1>1 DEF Inv, LockOwners, CtlStart
<1>4. MethodsCounted'
  BY SMTT(20) DEF Inv, MethodsCounted, Counted, ExactlyOnce, InFlight, Busy, CtlStart, locals
<1>5. StallsCaused'
  BY DEF Inv, StallsCaused, CtlStart
<1>6. NothingMissed'
  BY DEF Inv, NothingMissed, Quiet, Stalled, FlipIncomplete, CtlStart, fifoVars
<1>7. StoppedStays'
  BY DEF Inv, StoppedStays, Stopping, HaltedIsQuiet, CtlStart, fifoVars
<1>8. QED
  BY <1>2, <1>3, <1>4, <1>5, <1>6, <1>7 DEF Inv

(* nv2a_lock_fifo waits and takes its locks; the events are waited for. *)
LEMMA CtlWaitsInv ==
  ASSUME Inv, CtlLockFifo \/ CtlAcquire \/ CtlEvent \/ CtlEventBql
  PROVE  Inv'
<1> USE DEF CtlLockFifo, CtlAcquire, CtlEvent, CtlEventBql, CtlStep, Wake
<1>1. TypeOK'
  <2>1. /\ fifoPc' \in FifoPcs /\ ctlPc' \in CtlPcs
        /\ bql' \in {"none", "vcpu", "ctl"}
        /\ pfifoLock' \in {"none", "fifo", "ctl"} /\ pgraphLock' \in {"none", "ctl"}
    BY DEF Inv, TypeOK, FifoPcs, CtlPcs, locks
  <2>2. QED
    BY <2>1, Zenon DEF Inv, TypeOK, fifoVars, locals, locks, uiVars
<1>2. LockOwners'
  BY DEF Inv, LockOwners, locks
<1>3. MethodsCounted'
  BY DEF Inv, MethodsCounted, Counted, ExactlyOnce, InFlight, Busy, locals
<1>4. StallsCaused'
  BY SMTT(20) DEF Inv, StallsCaused
<1>5. NothingMissed'
  BY SMTT(20) DEF Inv, NothingMissed, Quiet, Stalled, FlipIncomplete, fifoVars
<1>6. StoppedStays'
  BY DEF Inv, StoppedStays, Stopping, Quiet, Stalled, FlipIncomplete, HaltedIsQuiet,
     Busy, fifoVars
<1>7. QED
  BY <1>1, <1>2, <1>3, <1>4, <1>5, <1>6 DEF Inv

(* The presenter asks for a frame and gets it. *)
LEMMA UiInv == ASSUME Inv, UiFrame \/ UiSynced PROVE Inv'
<1> USE DEF UiFrame, UiSynced, Kick, Wake
<1>1. TypeOK'
  <2>1. fifoPc' \in FifoPcs
    BY DEF Inv, TypeOK, FifoPcs
  <2>2. frames' \in 0..MaxFrames
    BY BoundsAssumption DEF Inv, TypeOK
  <2>3. kick' \in BOOLEAN /\ halt' \in BOOLEAN
        /\ pending' \subseteq {"sync", "flush", "dirty"}
    BY DEF Inv, TypeOK, fifoVars
  <2>4. QED
    BY <2>1, <2>2, <2>3 DEF Inv, TypeOK, locals, locks, ctlVars
<1>2. LockOwners'
  BY DEF Inv, LockOwners, locks, ctlVars
<1>3. MethodsCounted'
  BY DEF Inv, MethodsCounted, Counted, ExactlyOnce, InFlight, Busy, locals, ctlVars
<1>4. StallsCaused'
  BY DEF Inv, StallsCaused, ctlVars
<1>5. NothingMissed'
  BY DEF Inv, NothingMissed, Quiet, Stalled, FlipIncomplete, fifoVars
<1>6. StoppedStays'
  BY DEF Inv, StoppedStays, Stopping, Quiet, Stalled, FlipIncomplete, HaltedIsQuiet,
     Busy, fifoVars, ctlVars
<1>7. QED
  BY <1>1, <1>2, <1>3, <1>4, <1>5, <1>6 DEF Inv

(* Every step keeps the invariant. *)
LEMMA NextInv == Inv /\ [Next]_vars => Inv'
<1> SUFFICES ASSUME Inv, [Next]_vars PROVE Inv'
  OBVIOUS
<1>1. CASE Fifo
  BY <1>1, FifoServesInv, FifoSleepsInv, FifoRaisesInv, FifoLoopInv, FifoExecInv,
     FifoNopInv, FifoContextSwitchInv, FifoContextIrqInv, FifoContextRelockInv,
     FifoPostInv DEF Fifo
<1>2. CASE Vcpu
  BY <1>2, VcpuInv
<1>3. CASE CtlContinue
  BY <1>3, StagesInv, CtlWaitsInv DEF CtlContinue
<1>4. CASE UiFrame \/ UiSynced
  BY <1>4, UiInv
<1>5. CASE \E op \in Operations : CtlStart(op)
  BY <1>5, CtlStartInv
<1>6. CASE UNCHANGED vars
  <2> USE <1>6 DEF Inv, vars, fifoVars, locals, locks, ctlVars, uiVars
  <2>1. TypeOK'
    BY SMTT(20) DEF TypeOK
  <2>2. LockOwners' /\ StallsCaused'
    BY DEF LockOwners, StallsCaused
  <2>3. MethodsCounted'
    BY DEF MethodsCounted, Counted, ExactlyOnce, InFlight
  <2>4. NothingMissed'
    BY SMTT(20) DEF NothingMissed, Quiet, Stalled, FlipIncomplete
  <2>5. StoppedStays'
    BY DEF StoppedStays, Stopping, Quiet, Stalled, FlipIncomplete, HaltedIsQuiet
  <2>6. QED
    BY <2>1, <2>2, <2>3, <2>4, <2>5, SMTT(20)
<1>7. QED
  BY <1>1, <1>2, <1>3, <1>4, <1>5, <1>6 DEF Next

(* The threads of the FIFO stay in Inv. *)
LEMMA InvHolds == Safety => []Inv
  BY InitInv, NextInv, PTL DEF Safety

(* Every variable keeps its type, the surface indices below the modulus and the
   dma_get copy of pfifo_run_pusher included. *)
THEOREM TypeCorrect == Safety => []TypeOK
<1>1. Inv => TypeOK
  BY DEF Inv
<1>2. QED
  BY <1>1, InvHolds, PTL

(* Every submitted method runs exactly once and in order: what
   pfifo_run_pusher writes to dma_get counts the methods pgraph_method ran. *)
THEOREM MethodsRunOnce == Safety => []ExactlyOnce
<1>1. Inv => ExactlyOnce
  BY DEF Inv, MethodsCounted
<1>2. QED
  BY <1>1, InvHolds, PTL

(* pfifo.halt is only ever set with the FIFO thread outside the pusher's loop,
   which is what nv2a_lock_fifo's wait for fifo_idle_cond is for. *)
THEOREM StoppedBetweenMethods == Safety => []HaltedIsQuiet
<1>1. Inv => HaltedIsQuiet
  BY DEF Inv, StoppedStays
<1>2. QED
  BY <1>1, InvHolds, PTL

(* nv2a_vm_state_change stops the FIFO before anything is saved: a snapshot
   holds a device between two methods, and a stall with its interrupt. *)
THEOREM SnapshotsAreWhole == Safety => []SnapshotAtRest
<1>1. Inv => SnapshotAtRest
  BY DEF Inv, MethodsCounted, Counted, StallsCaused, SnapshotAtRest
<1>2. QED
  BY <1>1, InvHolds, PTL

(* pfifo_thread never waits on fifo_cond while there is a request or a method
   it could run. *)
THEOREM WakeupsKept == Safety => []NoLostWakeup
<1>1. Inv => NoLostWakeup
  BY DEF Inv, NothingMissed, Quiet, NoLostWakeup
<1>2. QED
  BY <1>1, InvHolds, PTL

(* Only the puller's own steps run a method: it has begun it, or comes back from
   a context switch. *)
LEMMA ExecutesInPuller ==
  ASSUME Inv, Next, Executes
  PROVE  \/ FifoExec /\ gpu.access
         \/ FifoNop
         \/ FifoContextRelock /\ ~gpu.ctx
<1>1. gpu.executed \in Nat /\ gpu'.executed # gpu.executed /\ fifoPc \in Busy
  BY NumbersTyped DEF Executes, Busy
<1>2. CASE Fifo
  <2>1. FifoExec \/ FifoNop \/ FifoContextSwitch \/ FifoContextRelock
    BY <1>2 DEF Executes, Fifo, FifoStep, FifoTop, FifoPend, FifoPendRelock, FifoLock,
       FifoPush, FifoLoop, FifoNopIrq, FifoNopRelock, FifoContextIrq, FifoPost,
       FifoIdle, FifoWake
  <2>2. CASE FifoExec
    BY <1>1, <2>2 DEF FifoExec
  <2>3. ~FifoContextSwitch
    BY <1>1 DEF FifoContextSwitch, Inv, TypeOK, GpuType
  <2>4. CASE FifoContextRelock
    BY <1>1, <2>4 DEF FifoContextRelock, Inv, TypeOK, GpuType
  <2> QED
    BY <2>1, <2>2, <2>3, <2>4
<1>3. ~Vcpu
  <2>1. ASSUME NEW m, Submit(m) PROVE gpu'.executed = gpu.executed
    BY <2>1 DEF Submit, Inv, TypeOK, GpuType
  <2>2. ASSUME NEW r, PfifoWrite(r) PROVE gpu'.executed = gpu.executed
    BY <2>2 DEF PfifoWrite, Inv, TypeOK, GpuType
  <2>3. ASSUME NEW val, PgraphIntr(val) PROVE gpu'.executed = gpu.executed
    <3> DEFINE intr == gpu.intr \ val
               nop == gpu.nop /\ "ERROR" \in intr
               ctx == gpu.ctx /\ "CONTEXT_SWITCH" \in intr
    <3>1. gpu' = [gpu EXCEPT !.intr = intr, !.nop = nop, !.ctx = ctx]
      BY <2>3 DEF PgraphIntr
    <3> HIDE DEF intr, nop, ctx
    <3> QED
      BY <3>1 DEF Inv, TypeOK, GpuType
  <2>4. ASSUME NEW on, PgraphFifo(on) PROVE gpu'.executed = gpu.executed
    BY <2>4 DEF PgraphFifo, Inv, TypeOK, GpuType
  <2>5. PgraphIncrement \/ PgraphContext => gpu'.executed = gpu.executed
    BY DEF PgraphIncrement, PgraphContext, Inv, TypeOK, GpuType
  <2>6. VcpuEnter => gpu' = gpu
    BY DEF VcpuEnter
  <2> QED
    BY <1>1, <2>1, <2>2, <2>3, <2>4, <2>5, <2>6, Zenon DEF Vcpu, VcpuHandler
<1>4. ~CtlContinue
  <2>1. ctlPc # "locked"
    BY <1>1 DEF Inv, StoppedStays, Stopping
  <2>2. CtlContinue => CtlLockFifo \/ CtlAcquire \/ CtlEvent \/ CtlEventBql
    BY <2>1, Zenon DEF CtlContinue, CtlSaveTrigger, CtlSave, CtlRestore, CtlResetFlush,
       CtlReset, CtlLoad, CtlRun, Stage
  <2>3. CtlLockFifo \/ CtlAcquire \/ CtlEvent \/ CtlEventBql => gpu' = gpu
    BY DEF CtlLockFifo, CtlAcquire, CtlEvent, CtlEventBql
  <2> QED
    BY <1>1, <2>2, <2>3, Zenon
<1>5. CASE UiFrame \/ UiSynced \/ \E op \in Operations : CtlStart(op)
  BY <1>1, <1>5 DEF UiFrame, UiSynced, CtlStart
<1> QED
  BY <1>2, <1>3, <1>4, <1>5, Zenon DEF Next

(* The puller runs no method past a stall. *)
THEOREM StallsHold == Safety => StallsAreRespected
<1>1. Inv /\ [Next]_vars => [Executes => ~gpu.nop /\ ~gpu.flip /\ ~gpu.ctx]_vars
  <2> SUFFICES ASSUME Inv, Next, Executes PROVE ~gpu.nop /\ ~gpu.flip /\ ~gpu.ctx
    OBVIOUS
  <2>1. CASE fifoPc = "exec"
    BY <2>1 DEF Inv, StallsCaused
  <2>2. CASE fifoPc = "ctx_relock"
    <3>1. ~gpu.ctx
      BY <2>2, ExecutesInPuller DEF FifoExec, FifoNop, FifoStep
    <3> QED
      BY <2>2, <3>1 DEF Inv, StallsCaused
  <2>3. QED
    BY <2>1, <2>2 DEF Executes
<1>2. QED
  BY <1>1, InvHolds, PTL DEF Safety, StallsAreRespected

-----------------------------------------------------------------------------
(* A machine that is not reset on its own.  A load resets too, but what it
   resets it then replaces, with the FIFO halted all the while. *)

(* The stages from which on a load has the FIFO halted, and what comes before
   each. *)
Loading == {"reset1", "reset2", "load"}

Before(stage) ==
  IF stage = "reset1" THEN "restore" ELSE IF stage = "reset2" THEN "reset1" ELSE "reset2"

(* The stages p belong to no reset but a load's. *)
LoadsInOrder(p) ==
  /\ \A i \in 1..Len(p) : p[i] = "reset1" => i < Len(p) /\ p[i + 1] = "reset2"
  /\ \A i \in 1..Len(p) : p[i] = "reset2" => i < Len(p) /\ p[i + 1] = "load"
  /\ \A i \in 2..Len(p) : p[i] \in Loading => p[i - 1] = Before(p[i])

(* The next stage. *)
At(stage) == prog # <<>> /\ prog[1] = stage

(* pfifo.halt, which nv2a_reset restores from its copy, is set during a load. *)
HaltedToLoad ==
  /\ ctlPc = "none" => prog = <<>>
  /\ LoadsInOrder(prog)
  /\ \A stage \in Loading : At(stage) => halt
  /\ At("reset2") => halted

(* No interrupt of g has outlived its stall, and its channel was loaded before
   anything ran. *)
Fresh(g) ==
  /\ "ERROR" \in g.intr => g.nop
  /\ "CONTEXT_SWITCH" \in g.intr => g.ctx
  /\ g.queue # <<>> => g.queue[1] = "bind"
  /\ g.executed > 0 => g.valid

(* The device is fresh, but for the time between a load's reset and the load,
   and a context switch is lifted only for a channel that was loaded. *)
Switched ==
  /\ Fresh(snapshot)
  /\ Fresh(gpu) \/ At("load")
  /\ fifoPc \in Busy => method = gpu.queue[getV]
  /\ fifoPc = "ctx_irq" => gpu.ctx /\ gpu.intr = {}
  /\ fifoPc = "ctx_relock" /\ ~gpu.ctx => gpu.valid

Unreset == HaltedToLoad /\ Switched

(* The machine starts fresh. *)
LEMMA InitUnreset == Init => Unreset
<1> SUFFICES ASSUME Init PROVE Unreset
  OBVIOUS
<1>1. prog = <<>> /\ Len(prog) = 0 /\ fifoPc = "woken"
  BY DEF Init
<1>2. HaltedToLoad
  BY <1>1 DEF HaltedToLoad, LoadsInOrder, At
<1>3. Fresh(ResetRegs)
  BY DEF Fresh, ResetRegs
<1> QED
  BY <1>1, <1>2, <1>3 DEF Init, Unreset, Switched, Busy

(* A FIFO with a method in hand is not being loaded. *)
LEMMA BusyIsFresh == ASSUME Inv, Unreset, fifoPc \in Busy PROVE Fresh(gpu)
<1>1. ~halt
  BY DEF Inv, StoppedStays, HaltedIsQuiet, Busy
<1> QED
  BY <1>1 DEF Unreset, HaltedToLoad, Switched, Loading

(* Nothing that matters here changes. *)
LEMMA SameUnreset ==
  ASSUME Unreset,
         UNCHANGED <<gpu, halt, getV, method, prog, halted, snapshot>>,
         ctlPc' = "none" => ctlPc = "none",
         fifoPc' \in Busy => fifoPc \in Busy,
         fifoPc' \in {"ctx_irq", "ctx_relock"} => fifoPc' = fifoPc
  PROVE  Unreset'
<1>1. HaltedToLoad'
  BY DEF Unreset, HaltedToLoad, LoadsInOrder, At
<1>2. Switched'
  BY DEF Unreset, Switched, Fresh, At
<1> QED
  BY <1>1, <1>2 DEF Unreset

(* The operations stay where they are while the FIFO thread or the guest runs. *)
LEMMA SameStage ==
  ASSUME Unreset, UNCHANGED <<halt, ctlVars>>
  PROVE  HaltedToLoad' /\ snapshot' = snapshot /\ (At("load")' <=> At("load"))
BY DEF Unreset, HaltedToLoad, LoadsInOrder, At, ctlVars

(* The FIFO thread between methods, the presenter and the waits of nv2a_lock_fifo. *)
LEMMA QuietUnreset ==
  ASSUME Inv, Unreset,
         \/ FifoTop \/ FifoPend \/ FifoPendRelock \/ FifoPush \/ FifoIdle \/ FifoWake
         \/ FifoNopIrq \/ FifoNopRelock \/ VcpuEnter \/ UiFrame \/ UiSynced
         \/ CtlLockFifo \/ CtlAcquire \/ CtlEvent \/ CtlEventBql \/ UNCHANGED vars
  PROVE  Unreset'
<1>1. UNCHANGED <<gpu, halt, getV, method, prog, halted, snapshot>>
  BY DEF FifoTop, FifoPend, FifoPendRelock, FifoPush, FifoIdle, FifoWake, FifoLock,
     FifoNopIrq, FifoNopRelock, VcpuEnter, UiFrame, UiSynced, CtlLockFifo, CtlAcquire,
     CtlEvent, CtlEventBql, vars, fifoVars, locals, ctlVars
<1>2. ctlPc' = "none" => ctlPc = "none"
  BY DEF FifoTop, FifoPend, FifoPendRelock, FifoPush, FifoIdle, FifoWake, FifoLock,
     FifoNopIrq, FifoNopRelock, VcpuEnter, UiFrame, UiSynced, CtlLockFifo, CtlAcquire,
     CtlEvent, CtlEventBql, CtlStep, vars, ctlVars
<1>3. /\ fifoPc' \in Busy => fifoPc \in Busy
      /\ fifoPc' \in {"ctx_irq", "ctx_relock"} => fifoPc' = fifoPc
  BY DEF FifoTop, FifoPend, FifoPendRelock, FifoPush, FifoIdle, FifoWake, FifoLock,
     FifoStep, FifoNopIrq, FifoNopRelock, VcpuEnter, UiFrame, UiSynced, CtlLockFifo,
     CtlAcquire, CtlEvent, CtlEventBql, CtlStep, Kick, Wake, Busy, vars
<1> QED
  BY <1>1, <1>2, <1>3, SameUnreset

(* The pusher reads the next method. *)
LEMMA LoopUnreset == ASSUME Inv, Unreset, FifoLoop PROVE Unreset'
<1>1. HaltedToLoad' /\ snapshot' = snapshot /\ (At("load")' <=> At("load"))
  BY SameStage DEF FifoLoop, fifoVars
<1>2. /\ gpu'.queue = gpu.queue /\ gpu'.get = gpu.get /\ gpu'.executed = gpu.executed
      /\ gpu'.valid = gpu.valid /\ gpu'.nop = gpu.nop /\ gpu'.ctx = gpu.ctx
      /\ gpu'.intr = gpu.intr
  BY DEF Inv, TypeOK, GpuType, FifoLoop
<1>3. fifoPc' \in Busy => fifoPc' = "exec" /\ method' = gpu.queue[getV']
  <2>1. CASE Stalled
    BY <2>1 DEF FifoLoop, FifoStep, Busy
  <2>2. CASE ~Stalled
    BY <2>2 DEF FifoLoop, FifoStep
  <2> QED
    BY <2>1, <2>2
<1>4. fifoPc' \notin {"ctx_irq", "ctx_relock"}
  BY DEF FifoLoop, FifoStep
<1>5. Switched'
  BY <1>1, <1>2, <1>3, <1>4 DEF Unreset, Switched, Fresh
<1> QED
  BY <1>1, <1>5 DEF Unreset

(* What the puller runs first is method 0, on a channel that is loaded; so is
   the channel for what comes later. *)
LEMMA RunsOnLoaded ==
  ASSUME Inv, Unreset, fifoPc = "exec", method = "bind" => gpu.valid
  PROVE  gpu.valid
<1>1. Fresh(gpu) /\ method = gpu.queue[getV]
  BY BusyIsFresh DEF Unreset, Switched, Busy
<1>2. /\ getV = gpu.get + 1 /\ gpu.get < Len(gpu.queue) /\ gpu.executed = gpu.get
      /\ gpu.get \in Nat /\ gpu.queue # <<>>
  BY NumbersTyped DEF Inv, MethodsCounted, ExactlyOnce, InFlight, Busy
<1>3. CASE gpu.get = 0
  BY <1>1, <1>2, <1>3 DEF Fresh
<1>4. CASE gpu.get # 0
  BY <1>1, <1>2, <1>4 DEF Fresh
<1> QED
  BY <1>3, <1>4

(* No interrupt is pending when the puller begins a method. *)
LEMMA ExecHasNoInterrupt ==
  ASSUME Inv, Unreset, fifoPc = "exec"
  PROVE  gpu.intr = {}
<1>1. Fresh(gpu) /\ ~gpu.nop /\ ~gpu.ctx
  BY BusyIsFresh DEF Inv, StallsCaused, Busy
<1>2. gpu.intr \subseteq {"ERROR", "CONTEXT_SWITCH"}
  BY DEF Inv, TypeOK, GpuType
<1> QED
  BY <1>1, <1>2 DEF Fresh

(* The puller runs a method that does not trap. *)
LEMMA ExecUnreset == ASSUME Inv, Unreset, FifoExec PROVE Unreset'
<1>1. HaltedToLoad' /\ snapshot' = snapshot /\ (At("load")' <=> At("load"))
  BY SameStage DEF FifoExec, fifoVars
<1>2. /\ fifoPc = "exec" /\ fifoPc' \in Busy /\ fifoPc' \notin {"ctx_irq", "ctx_relock"}
      /\ method' = method /\ getV' = getV
  BY DEF FifoExec, FifoStep, Busy, locals
<1>3. Fresh(gpu) /\ method = gpu.queue[getV]
  BY <1>2, BusyIsFresh DEF Unreset, Switched, Busy
<1>4. gpu.access => gpu.valid
  BY <1>2, RunsOnLoaded DEF FifoExec
<1>5. CASE ~gpu.access
  BY <1>1, <1>2, <1>3, <1>5 DEF FifoExec, Unreset, Switched
<1>6. CASE gpu.access
  <2>1. /\ gpu'.queue = gpu.queue /\ gpu'.valid = gpu.valid /\ gpu'.nop = gpu.nop
        /\ gpu'.ctx = gpu.ctx /\ gpu'.intr = gpu.intr
    <3> DEFINE flip == gpu.flip \/ method = "flip"
               write == IF method = "incr" THEN (gpu.write + 1) % Modulo ELSE gpu.write
    <3>1. gpu' = [gpu EXCEPT !.executed = gpu.executed + 1, !.flip = flip, !.write = write]
      BY <1>6 DEF FifoExec
    <3> HIDE DEF flip, write
    <3> QED
      BY <3>1 DEF Inv, TypeOK, GpuType
  <2> QED
    BY <1>1, <1>2, <1>3, <1>4, <1>6, <2>1 DEF Unreset, Switched, Fresh
<1> QED
  BY <1>5, <1>6

(* A NO_OPERATION traps: stall and interrupt come together. *)
LEMMA NopUnreset == ASSUME Inv, Unreset, FifoNop PROVE Unreset'
<1>1. HaltedToLoad' /\ snapshot' = snapshot /\ (At("load")' <=> At("load"))
  BY SameStage DEF FifoNop, fifoVars
<1>2. /\ fifoPc = "exec" /\ fifoPc' = "nop_irq" /\ method = "nop"
      /\ method' = method /\ getV' = getV
  BY DEF FifoNop, FifoStep, locals
<1>3. Fresh(gpu) /\ method = gpu.queue[getV] /\ gpu.valid
  BY <1>2, BusyIsFresh, RunsOnLoaded DEF Unreset, Switched, Busy
<1>4. /\ gpu'.queue = gpu.queue /\ gpu'.valid = gpu.valid /\ gpu'.nop
      /\ gpu'.ctx = gpu.ctx /\ gpu'.intr = gpu.intr \cup {"ERROR"}
  BY DEF Inv, TypeOK, GpuType, FifoNop
<1> QED
  BY <1>1, <1>2, <1>3, <1>4 DEF Unreset, Switched, Fresh

(* A context switch begins with no interrupt pending, so that no
   acknowledgement can lift its stall before its own is raised. *)
LEMMA ContextSwitchUnreset == ASSUME Inv, Unreset, FifoContextSwitch PROVE Unreset'
<1>1. HaltedToLoad' /\ snapshot' = snapshot /\ (At("load")' <=> At("load"))
  BY SameStage DEF FifoContextSwitch, fifoVars
<1>2. /\ fifoPc = "exec" /\ fifoPc' = "ctx_irq" /\ method' = method /\ getV' = getV
  BY DEF FifoContextSwitch, FifoStep, locals
<1>3. Fresh(gpu) /\ method = gpu.queue[getV] /\ gpu.intr = {}
  BY <1>2, BusyIsFresh, ExecHasNoInterrupt DEF Unreset, Switched, Busy
<1>4. /\ gpu'.queue = gpu.queue /\ gpu'.valid = gpu.valid /\ gpu'.nop = gpu.nop
      /\ gpu'.ctx /\ gpu'.intr = gpu.intr /\ gpu'.executed = gpu.executed
  BY DEF Inv, TypeOK, GpuType, FifoContextSwitch
<1> QED
  BY <1>1, <1>2, <1>3, <1>4 DEF Unreset, Switched, Fresh

(* Its interrupt is raised. *)
LEMMA ContextIrqUnreset == ASSUME Inv, Unreset, FifoContextIrq PROVE Unreset'
<1>1. HaltedToLoad' /\ snapshot' = snapshot /\ (At("load")' <=> At("load"))
  BY SameStage DEF FifoContextIrq, fifoVars
<1>2. /\ fifoPc = "ctx_irq" /\ fifoPc' = "ctx_relock"
      /\ method' = method /\ getV' = getV
  BY DEF FifoContextIrq, FifoStep, locals
<1>3. Fresh(gpu) /\ method = gpu.queue[getV] /\ gpu.intr = {} /\ gpu.ctx
  BY <1>2, BusyIsFresh DEF Unreset, Switched, Busy
<1>4. /\ gpu'.queue = gpu.queue /\ gpu'.valid = gpu.valid /\ gpu'.nop = gpu.nop
      /\ gpu'.ctx = gpu.ctx /\ gpu'.intr = gpu.intr \cup {"CONTEXT_SWITCH"}
      /\ gpu'.executed = gpu.executed
  BY DEF Inv, TypeOK, GpuType, FifoContextIrq
<1> QED
  BY <1>1, <1>2, <1>3, <1>4 DEF Unreset, Switched, Fresh

(* The puller finds that the guest has switched, or gives up. *)
LEMMA ContextRelockUnreset == ASSUME Inv, Unreset, FifoContextRelock PROVE Unreset'
<1>1. HaltedToLoad' /\ snapshot' = snapshot /\ (At("load")' <=> At("load"))
  BY SameStage DEF FifoContextRelock, fifoVars
<1>2. /\ fifoPc = "ctx_relock" /\ fifoPc' \in {"post_fail", "post_ok"}
      /\ method' = method /\ getV' = getV
  BY DEF FifoContextRelock, FifoStep, locals
<1>3. Fresh(gpu) /\ method = gpu.queue[getV] /\ (~gpu.ctx => gpu.valid)
  BY <1>2, BusyIsFresh DEF Unreset, Switched, Busy
<1>4. /\ gpu'.queue = gpu.queue /\ gpu'.valid = gpu.valid /\ gpu'.nop = gpu.nop
      /\ gpu'.ctx = gpu.ctx /\ gpu'.intr = gpu.intr
      /\ gpu.ctx => gpu'.executed = gpu.executed
  BY DEF Inv, TypeOK, GpuType, FifoContextRelock
<1> QED
  BY <1>1, <1>2, <1>3, <1>4 DEF Unreset, Switched, Fresh

(* The pusher has its lock back. *)
LEMMA PostUnreset == ASSUME Inv, Unreset, FifoPost PROVE Unreset'
<1>1. HaltedToLoad' /\ snapshot' = snapshot /\ (At("load")' <=> At("load"))
  BY SameStage DEF FifoPost, fifoVars
<1>2. fifoPc' \notin Busy /\ fifoPc' \notin {"ctx_irq", "ctx_relock"}
  BY DEF FifoPost, FifoStep, Busy
<1>3. /\ gpu'.queue = gpu.queue /\ gpu'.valid = gpu.valid /\ gpu'.nop = gpu.nop
      /\ gpu'.ctx = gpu.ctx /\ gpu'.intr = gpu.intr /\ gpu'.executed = gpu.executed
  BY DEF Inv, TypeOK, GpuType, FifoPost
<1> QED
  BY <1>1, <1>2, <1>3 DEF Unreset, Switched, Fresh

(* A register write of the guest that adds methods at the end and leaves the
   stalls and interrupts alone. *)
LEMMA WriteUnreset ==
  ASSUME Inv, Unreset, VcpuLeave, fifoPc' = fifoPc \/ Kick,
         gpu'.executed = gpu.executed, gpu.valid => gpu'.valid, gpu'.nop = gpu.nop,
         gpu'.ctx = gpu.ctx, gpu'.intr = gpu.intr,
         gpu'.queue # <<>> /\ gpu.queue = <<>> => gpu'.queue[1] = "bind",
         \A i \in 1..Len(gpu.queue) : gpu'.queue[i] = gpu.queue[i]
  PROVE  Unreset'
<1>1. HaltedToLoad' /\ snapshot' = snapshot /\ (At("load")' <=> At("load"))
  BY SameStage DEF VcpuLeave
<1>2. /\ fifoPc' \in Busy => fifoPc' = fifoPc
      /\ fifoPc' \in {"ctx_irq", "ctx_relock"} => fifoPc' = fifoPc
      /\ method' = method /\ getV' = getV
  BY DEF VcpuLeave, Kick, Wake, Busy, locals
<1>3. fifoPc \in Busy => gpu'.queue[getV] = gpu.queue[getV]
  BY NumbersTyped DEF Inv, MethodsCounted
<1>4. gpu.queue # <<>> => gpu'.queue[1] = gpu.queue[1]
  BY NumbersTyped
<1>5. Fresh(gpu) => Fresh(gpu')
  BY <1>4 DEF Fresh
<1> QED
  BY <1>1, <1>2, <1>3, <1>5 DEF Unreset, Switched

(* The guest acknowledges: a stall is lifted with its interrupt, and the one of
   a context switch only for a channel that is loaded. *)
LEMMA IntrUnreset ==
  ASSUME Inv, Unreset, NEW val \in SUBSET {"ERROR", "CONTEXT_SWITCH"}, PgraphIntr(val)
  PROVE  Unreset'
<1>1. HaltedToLoad' /\ snapshot' = snapshot /\ (At("load")' <=> At("load"))
  BY SameStage DEF PgraphIntr, VcpuLeave
<1>2. /\ fifoPc' \in Busy => fifoPc' = fifoPc
      /\ fifoPc' \in {"ctx_irq", "ctx_relock"} => fifoPc' = fifoPc
      /\ method' = method /\ getV' = getV
  BY DEF PgraphIntr, VcpuLeave, Kick, Wake, Busy, locals
<1>3. /\ gpu'.queue = gpu.queue /\ gpu'.executed = gpu.executed
      /\ gpu'.valid = gpu.valid /\ gpu'.intr = gpu.intr \ val
      /\ gpu'.nop <=> gpu.nop /\ "ERROR" \in gpu.intr \ val
      /\ gpu'.ctx <=> gpu.ctx /\ "CONTEXT_SWITCH" \in gpu.intr \ val
  <2> DEFINE intr == gpu.intr \ val
             nop == gpu.nop /\ "ERROR" \in intr
             ctx == gpu.ctx /\ "CONTEXT_SWITCH" \in intr
  <2>1. gpu' = [gpu EXCEPT !.intr = intr, !.nop = nop, !.ctx = ctx]
    BY DEF PgraphIntr
  <2> HIDE DEF intr, nop, ctx
  <2>2. /\ gpu'.queue = gpu.queue /\ gpu'.executed = gpu.executed
        /\ gpu'.valid = gpu.valid /\ gpu'.intr = intr /\ gpu'.nop = nop /\ gpu'.ctx = ctx
    BY <2>1 DEF Inv, TypeOK, GpuType
  <2> QED
    BY <2>2, Zenon DEF intr, nop, ctx
<1>4. Fresh(gpu) => Fresh(gpu')
  BY <1>3 DEF Fresh
<1>5. fifoPc # "ctx_irq"
  BY DEF PgraphIntr, Unreset, Switched
<1>6. fifoPc = "ctx_relock" /\ ~gpu'.ctx => gpu.valid
  BY <1>3 DEF PgraphIntr, Unreset, Switched, Inv, StallsCaused
<1> QED
  BY <1>1, <1>2, <1>3, <1>4, <1>5, <1>6 DEF Unreset, Switched

(* Every register write of the guest. *)
LEMMA VcpuUnreset == ASSUME Inv, Unreset, Vcpu PROVE Unreset'
<1> USE NumbersTyped
<1>1. ASSUME NEW m \in Methods, Submit(m) PROVE Unreset'
  <2>1. /\ gpu'.queue = Append(gpu.queue, m) /\ gpu'.executed = gpu.executed
        /\ gpu'.valid = gpu.valid /\ gpu'.nop = gpu.nop /\ gpu'.ctx = gpu.ctx
        /\ gpu'.intr = gpu.intr
    BY <1>1 DEF Inv, TypeOK, GpuType, Submit
  <2>2. \A i \in 1..Len(gpu.queue) : Append(gpu.queue, m)[i] = gpu.queue[i]
    OBVIOUS
  <2>3. gpu.queue = <<>> => Append(gpu.queue, m)[1] = "bind"
    BY <1>1 DEF Submit
  <2> QED
    BY <1>1, <2>1, <2>2, <2>3, WriteUnreset DEF Submit
<1>2. ASSUME NEW r \in CacheAccess, PfifoWrite(r) PROVE Unreset'
  <2>1. /\ gpu'.queue = gpu.queue /\ gpu'.executed = gpu.executed
        /\ gpu'.valid = gpu.valid /\ gpu'.nop = gpu.nop /\ gpu'.ctx = gpu.ctx
        /\ gpu'.intr = gpu.intr
    BY <1>2 DEF Inv, TypeOK, GpuType, PfifoWrite
  <2> QED
    BY <1>2, <2>1, WriteUnreset DEF PfifoWrite
<1>3. ASSUME NEW on \in BOOLEAN, PgraphFifo(on) PROVE Unreset'
  <2>1. /\ gpu'.queue = gpu.queue /\ gpu'.executed = gpu.executed
        /\ gpu'.valid = gpu.valid /\ gpu'.nop = gpu.nop /\ gpu'.ctx = gpu.ctx
        /\ gpu'.intr = gpu.intr
    BY <1>3 DEF Inv, TypeOK, GpuType, PgraphFifo
  <2> QED
    BY <1>3, <2>1, WriteUnreset DEF PgraphFifo
<1>4. ASSUME PgraphIncrement PROVE Unreset'
  <2>1. /\ gpu'.queue = gpu.queue /\ gpu'.executed = gpu.executed
        /\ gpu'.valid = gpu.valid /\ gpu'.nop = gpu.nop /\ gpu'.ctx = gpu.ctx
        /\ gpu'.intr = gpu.intr
    BY <1>4 DEF Inv, TypeOK, GpuType, PgraphIncrement
  <2> QED
    BY <1>4, <2>1, WriteUnreset DEF PgraphIncrement
<1>5. ASSUME PgraphContext PROVE Unreset'
  <2>1. /\ gpu'.queue = gpu.queue /\ gpu'.executed = gpu.executed
        /\ gpu'.valid /\ gpu'.nop = gpu.nop /\ gpu'.ctx = gpu.ctx
        /\ gpu'.intr = gpu.intr
    BY <1>5 DEF Inv, TypeOK, GpuType, PgraphContext
  <2> QED
    BY <1>5, <2>1, WriteUnreset DEF PgraphContext
<1>6. ASSUME VcpuEnter PROVE Unreset'
  BY <1>6, QuietUnreset
<1> QED
  BY <1>1, <1>2, <1>3, <1>4, <1>5, <1>6, IntrUnreset, Zenon DEF Vcpu, VcpuHandler

(* A sequence is empty when it has no members. *)
LEMMA EmptyStages == ASSUME NEW p \in Seq(Stages) PROVE p = <<>> <=> Len(p) = 0
OBVIOUS

(* The stages behind the first are in order too, and what they follow is the
   first one. *)
LEMMA TailInOrder ==
  ASSUME prog \in Seq(Stages), prog # <<>>, LoadsInOrder(prog),
         NEW p, p = Tail(prog), NEW n, n = Len(prog)
  PROVE  /\ LoadsInOrder(p)
         /\ p # <<>> /\ p[1] \in Loading => Head(prog) = Before(p[1])
         /\ Head(prog) = "reset1" => p # <<>> /\ p[1] = "reset2"
         /\ Head(prog) = "reset2" => p # <<>> /\ p[1] = "load"
<1>1. /\ n \in Nat /\ n > 0 /\ Head(prog) = prog[1] /\ p \in Seq(Stages) /\ Len(p) = n - 1
      /\ \A i \in 1..(n - 1) : p[i] = prog[i + 1]
  OBVIOUS
<1>2. p # <<>> <=> n > 1
  <2>1. p = <<>> <=> Len(p) = 0
    BY <1>1, EmptyStages, Zenon
  <2> QED
    BY <1>1, <2>1
<1>3. /\ \A i \in 1..n : prog[i] = "reset1" => i < n /\ prog[i + 1] = "reset2"
      /\ \A i \in 1..n : prog[i] = "reset2" => i < n /\ prog[i + 1] = "load"
      /\ \A i \in 2..n : prog[i] \in Loading => prog[i - 1] = Before(prog[i])
  BY DEF LoadsInOrder
<1>4. ASSUME NEW i \in 1..Len(p)
      PROVE  i + 1 \in 2..n /\ p[i] = prog[i + 1] /\ (i + 1) - 1 = i
             /\ (i + 1 < n => i < Len(p) /\ p[i + 1] = prog[(i + 1) + 1])
  BY <1>1
<1>5. ASSUME NEW i \in 1..Len(p), p[i] = "reset1" PROVE i < Len(p) /\ p[i + 1] = "reset2"
  <2>1. i + 1 \in 1..n
    BY <1>1
  <2> QED
    BY <1>3, <1>4, <1>5, <2>1, Zenon
<1>6. ASSUME NEW i \in 1..Len(p), p[i] = "reset2" PROVE i < Len(p) /\ p[i + 1] = "load"
  <2>1. i + 1 \in 1..n
    BY <1>1
  <2> QED
    BY <1>3, <1>4, <1>6, <2>1, Zenon
<1>7. ASSUME NEW i \in 2..Len(p), p[i] \in Loading PROVE p[i - 1] = Before(p[i])
  <2>1. i + 1 \in 2..n /\ p[i] = prog[i + 1] /\ p[i - 1] = prog[i] /\ (i + 1) - 1 = i
    BY <1>1
  <2> QED
    BY <1>3, <1>7, <2>1, Zenon
<1>8. LoadsInOrder(p)
  BY <1>5, <1>6, <1>7, Zenon DEF LoadsInOrder
<1>9. n > 1 => p[1] = prog[2] /\ 2 \in 2..n
  BY <1>1
<1>10. 1 \in 1..n /\ 1 + 1 = 2 /\ 2 - 1 = 1 /\ (1 < n <=> n > 1)
  BY <1>1
<1>11. n > 1 /\ prog[2] \in Loading => prog[1] = Before(prog[2])
  BY <1>3, <1>9, <1>10
<1>12. /\ prog[1] = "reset1" => n > 1 /\ prog[2] = "reset2"
       /\ prog[1] = "reset2" => n > 1 /\ prog[2] = "load"
  BY <1>3, <1>10
<1> QED
  BY <1>1, <1>2, <1>8, <1>9, <1>11, <1>12, Zenon

(* What nv2a_unlock_fifo does with the stages. *)
Unlocks ==
  /\ ctlPc = "locked" /\ Kick /\ prog' = Tail(prog)
  /\ ctlPc' = "none" => prog' = <<>>

(* A stage ends: what comes next is in order, with the FIFO halted for it. *)
LEMMA UnlockUnreset ==
  ASSUME Inv, Unreset, Unlocks,
         Head(prog) \in {"restore", "reset1", "reset2"} => halt',
         Head(prog) = "reset1" => halted',
         Fresh(snapshot'), Fresh(gpu') \/ Head(prog) = "reset2"
  PROVE  Unreset'
<1>1. prog \in Seq(Stages) /\ prog # <<>> /\ fifoPc \notin Busy
  BY DEF Inv, TypeOK, LockOwners, StoppedStays, Stopping, Unlocks
<1>2. prog' = Tail(prog) /\ (ctlPc' = "none" => prog' = <<>>)
  BY DEF Unlocks
<1>3. /\ LoadsInOrder(prog')
      /\ prog' # <<>> /\ prog'[1] \in Loading => Head(prog) = Before(prog'[1])
      /\ Head(prog) = "reset2" => prog' # <<>> /\ prog'[1] = "load"
  <2>1. LoadsInOrder(prog)
    BY DEF Unreset, HaltedToLoad
  <2> QED
    BY <1>1, <1>2, <2>1, TailInOrder, Zenon
<1>4. \A stage \in Loading : prog' # <<>> /\ prog'[1] = stage => halt'
  BY <1>3 DEF Loading, Before
<1>5. prog' # <<>> /\ prog'[1] = "reset2" => halted'
  BY <1>3 DEF Loading, Before
<1>6. HaltedToLoad'
  BY <1>2, <1>3, <1>4, <1>5, Zenon DEF HaltedToLoad, At
<1>7. fifoPc' \notin Busy /\ fifoPc' \notin {"ctx_irq", "ctx_relock"}
  BY <1>1 DEF Unlocks, Kick, Wake, Busy
<1>8. Switched'
  BY <1>3, <1>7, Zenon DEF Switched, At, Fresh
<1> QED
  BY <1>6, <1>8, Zenon DEF Unreset

(* The stages of saving, loading and resuming. *)
LEMMA StagesUnreset ==
  ASSUME Inv, Unreset,
         CtlSaveTrigger \/ CtlSave \/ CtlRestore \/ CtlResetFlush \/ CtlReset
         \/ CtlLoad \/ CtlRun
  PROVE  Unreset'
<1>1. prog \in Seq(Stages) /\ prog # <<>> /\ Head(prog) = prog[1]
  <2>1. ctlPc = "locked"
    BY Zenon DEF CtlSaveTrigger, CtlSave, CtlRestore, CtlResetFlush, CtlReset, CtlLoad,
       CtlRun, Stage
  <2>2. prog \in Seq(Stages) /\ prog # <<>>
    BY <2>1 DEF Inv, TypeOK, LockOwners
  <2> QED
    BY <2>2
<1>2. /\ Head(prog) = "reset1" => halt
      /\ Head(prog) = "reset2" => halted
      /\ Head(prog) = "load" \/ Fresh(gpu)
      /\ Fresh(snapshot)
  BY <1>1 DEF Unreset, HaltedToLoad, Switched, At, Loading
<1>3. ASSUME Unlocks,
             Head(prog) \in {"restore", "reset1"} => halt' = TRUE,
             Head(prog) = "reset2" => halt' = halted,
             Head(prog) = "reset1" => halted' = halt,
             snapshot' = snapshot \/ (snapshot' = gpu /\ Head(prog) # "load"),
             \/ gpu' = gpu /\ Head(prog) # "load"
             \/ gpu' = snapshot
             \/ Head(prog) = "reset2"
      PROVE  Unreset'
  <2>1. Head(prog) \in {"restore", "reset1", "reset2"} => halt'
    BY <1>2, <1>3
  <2>2. Head(prog) = "reset1" => halted'
    BY <1>2, <1>3
  <2>3. Fresh(snapshot')
    BY <1>2, <1>3, Zenon
  <2>4. Fresh(gpu') \/ Head(prog) = "reset2"
    BY <1>2, <1>3, Zenon
  <2> QED
    BY <1>3, <2>1, <2>2, <2>3, <2>4, UnlockUnreset, Zenon
<1>4. CASE CtlSaveTrigger
  <2>1. Unlocks /\ Head(prog) = "save1" /\ gpu' = gpu /\ snapshot' = snapshot
    BY <1>4 DEF CtlSaveTrigger, Stage, CtlUnlockFifo, Unlocks
  <2> QED
    BY <2>1, <1>3, Zenon
<1>5. CASE CtlSave
  <2>1. Unlocks /\ Head(prog) = "save2" /\ gpu' = gpu /\ snapshot' = gpu
    BY <1>5 DEF CtlSave, Stage, CtlUnlockFifo, Unlocks
  <2> QED
    BY <2>1, <1>3, Zenon
<1>6. CASE CtlRestore
  <2>1. /\ Unlocks /\ Head(prog) = "restore" /\ halt' = TRUE
        /\ gpu' = gpu /\ snapshot' = snapshot
    BY <1>6 DEF CtlRestore, Stage, CtlUnlockFifo, Unlocks
  <2> QED
    BY <2>1, <1>3, Zenon
<1>7. CASE CtlResetFlush
  <2>1. /\ Unlocks /\ Head(prog) = "reset1" /\ halt' = TRUE /\ halted' = halt
        /\ gpu' = gpu /\ snapshot' = snapshot
    BY <1>7 DEF CtlResetFlush, Stage, CtlUnlockFifo, Unlocks
  <2> QED
    BY <2>1, <1>3, Zenon
<1>8. CASE CtlReset
  <2>1. /\ Unlocks /\ Head(prog) = "reset2" /\ halt' = halted
        /\ snapshot' = snapshot
    BY <1>8 DEF CtlReset, Stage, CtlUnlockFifo, Unlocks
  <2> QED
    BY <2>1, <1>3, Zenon
<1>9. CASE CtlLoad
  <2>1. /\ Unlocks /\ Head(prog) = "load" /\ gpu' = snapshot
        /\ snapshot' = snapshot
    BY <1>9 DEF CtlLoad, Stage, CtlUnlockFifo, Unlocks
  <2> QED
    BY <2>1, <1>3, Zenon
<1>10. CASE CtlRun
  <2>1. Unlocks /\ Head(prog) = "run" /\ gpu' = gpu /\ snapshot' = snapshot
    BY <1>10 DEF CtlRun, Stage, CtlUnlockFifo, Unlocks
  <2> QED
    BY <2>1, <1>3, Zenon
<1> QED
  BY <1>4, <1>5, <1>6, <1>7, <1>8, <1>9, <1>10, Zenon

(* An operation begins. *)
LEMMA StartUnreset ==
  ASSUME Inv, Unreset, NEW op \in Operations, op # "reset", CtlStart(op)
  PROVE  Unreset'
<1>1. prog' # <<>> /\ prog'[1] \notin Loading /\ LoadsInOrder(prog')
  <2>1. op \in {"resume", "save", "load"}
    BY OperationsAssumption
  <2>2. CASE op = "resume"
    <3>1. prog' = <<"run">>
      BY <2>2 DEF CtlStart, Program
    <3> QED
      BY <3>1 DEF LoadsInOrder, Loading, Before
  <2>3. CASE op = "save"
    <3>1. prog' = <<"save1", "save2", "run">>
      BY <2>3 DEF CtlStart, Program
    <3> QED
      BY <3>1 DEF LoadsInOrder, Loading, Before
  <2>4. CASE op = "load"
    <3>1. prog' = <<"restore", "reset1", "reset2", "load", "run">>
      BY <2>4 DEF CtlStart, Program
    <3> QED
      BY <3>1 DEF LoadsInOrder, Loading, Before
  <2> QED
    BY <2>1, <2>2, <2>3, <2>4
<1>2. /\ UNCHANGED <<gpu, halt, getV, method, fifoPc, halted, snapshot>>
      /\ ctlPc = "none" /\ ctlPc' = "lock"
  BY DEF CtlStart, fifoVars, locals
<1>3. Fresh(gpu)
  BY <1>2 DEF Unreset, HaltedToLoad, Switched, At
<1>4. HaltedToLoad'
  BY <1>1, <1>2 DEF HaltedToLoad, At, Loading
<1>5. Switched'
  BY <1>2, <1>3 DEF Unreset, Switched, Fresh
<1> QED
  BY <1>4, <1>5 DEF Unreset

(* Every step keeps the invariant when there is no reset among the operations. *)
LEMMA NextUnreset ==
  ASSUME "reset" \notin Operations
  PROVE  Inv /\ Unreset /\ [Next]_vars => Unreset'
<1> SUFFICES ASSUME Inv, Unreset, [Next]_vars PROVE Unreset'
  OBVIOUS
<1>1. CASE Fifo
  BY <1>1, QuietUnreset, LoopUnreset, ExecUnreset, NopUnreset, ContextSwitchUnreset,
     ContextIrqUnreset, ContextRelockUnreset, PostUnreset, Zenon DEF Fifo
<1>2. CASE Vcpu
  BY <1>2, VcpuUnreset
<1>3. CASE CtlContinue
  BY <1>3, StagesUnreset, QuietUnreset, Zenon DEF CtlContinue
<1>4. CASE UiFrame \/ UiSynced \/ UNCHANGED vars
  BY <1>4, QuietUnreset, Zenon
<1>5. CASE \E op \in Operations : CtlStart(op)
  <2>1. PICK op \in Operations : CtlStart(op)
    BY <1>5
  <2>2. op # "reset"
    OBVIOUS
  <2> QED
    BY <2>1, <2>2, StartUnreset, Zenon
<1> QED
  BY <1>1, <1>2, <1>3, <1>4, <1>5, Zenon DEF Next

(* The invariant holds where there is no reset among the operations. *)
LEMMA UnresetHolds ==
  ASSUME "reset" \notin Operations
  PROVE  Safety => [](Inv /\ Unreset)
BY InitInv, NextInv, InitUnreset, NextUnreset, PTL DEF Safety

(* The assertion of pgraph_method: as long as the machine is not reset, whatever
   is saved, loaded and resumed in between, a method only runs on a channel
   whose context the guest has loaded. *)
THEOREM MethodsRunOnLoadedChannel ==
  ASSUME "reset" \notin Operations
  PROVE  Safety => ChannelIsValid
<1>1. Inv /\ Unreset /\ [Next]_vars => [Executes => gpu.valid]_vars
  <2> SUFFICES ASSUME Inv, Unreset, Next, Executes PROVE gpu.valid
    OBVIOUS
  <2>1. CASE FifoExec /\ gpu.access
    BY <2>1, RunsOnLoaded DEF FifoExec, FifoStep
  <2>2. CASE FifoNop
    BY <2>2, RunsOnLoaded DEF FifoNop, FifoStep
  <2>3. CASE FifoContextRelock /\ ~gpu.ctx
    BY <2>3 DEF FifoContextRelock, FifoStep, Unreset, Switched
  <2> QED
    BY <2>1, <2>2, <2>3, ExecutesInPuller
<1> QED
  BY <1>1, UnresetHolds, PTL DEF Safety, ChannelIsValid

(* The assertion of NO_OPERATION: as long as the machine is not reset, the
   interrupt of the trap before has been acknowledged when the next one runs. *)
THEOREM TrapsFindNoError ==
  ASSUME "reset" \notin Operations
  PROVE  Safety => NopFindsNoError
<1>1. Inv /\ Unreset /\ [Next]_vars =>
        [Executes /\ method = "nop" => "ERROR" \notin gpu.intr]_vars
  <2> SUFFICES ASSUME Inv, Unreset, Next, Executes PROVE "ERROR" \notin gpu.intr
    OBVIOUS
  <2>1. Fresh(gpu) /\ ~gpu.nop
    BY BusyIsFresh DEF Executes, Busy, Inv, StallsCaused
  <2> QED
    BY <2>1 DEF Fresh
<1> QED
  BY <1>1, UnresetHolds, PTL DEF Safety, NopFindsNoError

=============================================================================
