--------------------------- MODULE Nv2aControlProofs ---------------------------
(***************************************************************************)
(* Proofs about the two ways the FIFO thread and the vCPU hold each other  *)
(* up: the interrupts it stalls on (Nv2aIrq), whose invariants are         *)
(* inductive together with type correctness, and the change of renderer    *)
(* (Nv2aSwitch), which for any renderers never takes the renderer away     *)
(* from the presenter or from a running guest.                             *)
(***************************************************************************)
EXTENDS Nv2aIrq, Nv2aSwitch, TLAPS

(* The units whose registers the handlers write. *)
LEMMA UnitsAreKnown ==
  "PFIFO" \in Units /\ "PCRTC" \in Units /\ "PGRAPH" \in Units
BY DEF Units

(* The bits the FIFO thread and the vertical blank raise belong to their unit. *)
LEMMA BitsTyped ==
  /\ "VBLANK" \in Bits["PCRTC"]
  /\ "ERROR" \in Bits["PGRAPH"] /\ "CONTEXT_SWITCH" \in Bits["PGRAPH"]
BY DEF Bits

(* A register file: a set of bits for each unit, each within that unit's bits. *)
RegisterFile(r) ==
  /\ r \in [Units -> UNION {SUBSET Bits[u] : u \in Units}]
  /\ \A u \in Units : r[u] \subseteq Bits[u]

(* Writing one unit's register with bits of that unit keeps the file typed. *)
LEMMA WriteKeepsFile ==
  ASSUME NEW r, RegisterFile(r), NEW u \in Units, NEW b \in SUBSET Bits[u]
  PROVE  RegisterFile([r EXCEPT ![u] = b])
<1>1. b \in UNION {SUBSET Bits[w] : w \in Units}
  OBVIOUS
<1> QED
  BY <1>1 DEF RegisterFile

(* What nv2a_update_irq computes is typed. *)
LEMMA UpdateIrqTyped ==
  ASSUME UpdateIrq, pmcEnabled' \in BOOLEAN
  PROVE  pmcPending' \subseteq Units /\ irq' \in BOOLEAN
BY DEF UpdateIrq, Raised

(* Every register keeps its type under every handler. *)
THEOREM RegistersTyped == IrqSpec => []IrqTypeOK
<1>1. IrqInit => IrqTypeOK
  <2>1. {} \in UNION {SUBSET Bits[u] : u \in Units}
    <3>1. {} \in SUBSET Bits["PGRAPH"]
      OBVIOUS
    <3> QED
      BY <3>1, UnitsAreKnown
  <2> QED
    BY <2>1 DEF IrqInit, IrqTypeOK
<1>2. IrqTypeOK /\ [IrqNext]_irqVars => IrqTypeOK'
  <2> SUFFICES ASSUME IrqTypeOK, [IrqNext]_irqVars PROVE IrqTypeOK'
    OBVIOUS
  <2> USE UnitsAreKnown, BitsTyped
  <2>0. RegisterFile(pendingInterrupts) /\ RegisterFile(enabled)
    BY DEF IrqTypeOK, RegisterFile
  <2>a. ASSUME RegisterFile(pendingInterrupts'), RegisterFile(enabled'),
               pmcPending' \subseteq Units, irq' \in BOOLEAN,
               pmcEnabled' \in BOOLEAN, waitingForNop' \in BOOLEAN,
               waitingForContextSwitch' \in BOOLEAN,
               trap' \in {"none", "nop", "context_switch"}
        PROVE  IrqTypeOK'
    BY <2>a DEF IrqTypeOK, RegisterFile
  <2>1. ASSUME NEW u \in Units, NEW val \in SUBSET Bits[u], WriteIntr(u, val)
        PROVE  IrqTypeOK'
    <3>1. pendingInterrupts[u] \ val \in SUBSET Bits[u]
      BY <2>0 DEF RegisterFile
    <3>2. RegisterFile([pendingInterrupts EXCEPT ![u] = pendingInterrupts[u] \ val])
      BY <2>0, <3>1, WriteKeepsFile
    <3> QED
      BY <2>0, <2>1, <2>a, <3>2, UpdateIrqTyped DEF WriteIntr, IrqTypeOK, stalls
  <2>2. ASSUME NEW u \in Units, NEW val \in SUBSET Bits[u], WriteIntrEn(u, val)
        PROVE  IrqTypeOK'
    <3>1. RegisterFile([enabled EXCEPT ![u] = val])
      BY <2>0, WriteKeepsFile
    <3> QED
      BY <2>0, <2>2, <2>a, <3>1, UpdateIrqTyped DEF WriteIntrEn, IrqTypeOK, stalls
  <2>3. CASE PmcWriteIntr
    BY <2>0, <2>3, <2>a, UpdateIrqTyped DEF PmcWriteIntr, IrqTypeOK, stalls
  <2>4. ASSUME NEW val \in BOOLEAN, PmcWriteIntrEn(val)
        PROVE  IrqTypeOK'
    BY <2>0, <2>4, <2>a, UpdateIrqTyped DEF PmcWriteIntrEn, IrqTypeOK, stalls
  <2>5. ASSUME NEW val \in SUBSET Bits["PGRAPH"], PgraphWriteIntr(val)
        PROVE  IrqTypeOK'
    <3>1. pendingInterrupts["PGRAPH"] \ val \in SUBSET Bits["PGRAPH"]
      BY <2>0 DEF RegisterFile
    <3>2. RegisterFile([pendingInterrupts EXCEPT !["PGRAPH"] = pendingInterrupts["PGRAPH"] \ val])
      BY <2>0, <3>1, WriteKeepsFile
    <3> QED
      BY <2>0, <2>5, <2>a, <3>2 DEF PgraphWriteIntr, IrqTypeOK
  <2>6. ASSUME NEW val \in SUBSET Bits["PGRAPH"], PgraphWriteIntrEn(val)
        PROVE  IrqTypeOK'
    <3>1. RegisterFile([enabled EXCEPT !["PGRAPH"] = val])
      BY <2>0, WriteKeepsFile
    <3> QED
      BY <2>0, <2>6, <2>a, <3>1 DEF PgraphWriteIntrEn, IrqTypeOK, stalls
  <2>7. CASE Vblank
    <3>1. pendingInterrupts["PCRTC"] \cup {"VBLANK"} \in SUBSET Bits["PCRTC"]
      BY <2>0 DEF RegisterFile
    <3>2. RegisterFile([pendingInterrupts EXCEPT !["PCRTC"] = pendingInterrupts["PCRTC"] \cup {"VBLANK"}])
      BY <2>0, <3>1, WriteKeepsFile
    <3> QED
      BY <2>0, <2>7, <2>a, <3>2, UpdateIrqTyped DEF Vblank, IrqTypeOK, stalls
  <2>8. CASE NopTrap
    <3>1. pendingInterrupts["PGRAPH"] \cup {"ERROR"} \in SUBSET Bits["PGRAPH"]
      BY <2>0 DEF RegisterFile
    <3>2. RegisterFile([pendingInterrupts EXCEPT !["PGRAPH"] = pendingInterrupts["PGRAPH"] \cup {"ERROR"}])
      BY <2>0, <3>1, WriteKeepsFile
    <3> QED
      BY <2>0, <2>8, <2>a, <3>2 DEF NopTrap, IrqTypeOK
  <2>9. CASE ContextSwitchTrap
    BY <2>0, <2>9, <2>a DEF ContextSwitchTrap, IrqTypeOK
  <2>10. CASE NopRaise
    BY <2>0, <2>10, <2>a, UpdateIrqTyped DEF NopRaise, IrqTypeOK, stalls
  <2>11. CASE ContextSwitchRaise
    <3>1. pendingInterrupts["PGRAPH"] \cup {"CONTEXT_SWITCH"} \in SUBSET Bits["PGRAPH"]
      BY <2>0 DEF RegisterFile
    <3>2. RegisterFile([pendingInterrupts EXCEPT !["PGRAPH"] =
                          pendingInterrupts["PGRAPH"] \cup {"CONTEXT_SWITCH"}])
      BY <2>0, <3>1, WriteKeepsFile
    <3> QED
      BY <2>0, <2>11, <2>a, <3>2, UpdateIrqTyped
      DEF ContextSwitchRaise, IrqTypeOK, stalls
  <2>12. CASE Reset
    <3>1. RegisterFile([pendingInterrupts EXCEPT !["PFIFO"] = {}])
      BY <2>0, WriteKeepsFile
    <3>2. RegisterFile([[pendingInterrupts EXCEPT !["PFIFO"] = {}] EXCEPT !["PCRTC"] = {}])
      BY <3>1, WriteKeepsFile
    <3> QED
      BY <2>0, <2>12, <2>a, <3>2 DEF Reset, IrqTypeOK
  <2>13. CASE UNCHANGED irqVars
    BY <2>13 DEF irqVars, IrqTypeOK
  <2> QED
    BY <2>1, <2>2, <2>3, <2>4, <2>5, <2>6, <2>7, <2>8, <2>9, <2>10, <2>11,
       <2>12, <2>13 DEF IrqNext, GuestWrite, Raise
<1> QED
  BY <1>1, <1>2, PTL DEF IrqSpec

(* The two safety invariants of the run. *)
IrqSafe == StallHasCause /\ PmcTracksUnits

(* A handler that ends in nv2a_update_irq leaves PMC and the line exact. *)
LEMMA UpdateIrqExact ==
  ASSUME UpdateIrq
  PROVE  PmcTracksUnits'
BY DEF UpdateIrq, PmcTracksUnits, Raised

(* A handler that only changes PGRAPH's registers leaves the rest of PMC exact. *)
LEMMA PgraphOnlyKeepsPmc ==
  ASSUME PmcTracksUnits,
         pendingInterrupts \in [Units -> UNION {SUBSET Bits[u] : u \in Units}],
         enabled \in [Units -> UNION {SUBSET Bits[u] : u \in Units}],
         \A u \in Units \ {"PGRAPH"} :
           pendingInterrupts'[u] = pendingInterrupts[u] /\ enabled'[u] = enabled[u],
         UNCHANGED <<pmcPending, pmcEnabled, irq>>
  PROVE  PmcTracksUnits'
BY DEF PmcTracksUnits, Raised

(* The stall flags of NO_OPERATION and pgraph_context_switch always have an
   interrupt the guest can acknowledge, and PMC and the line agree with PFIFO
   and PCRTC after every handler. *)
THEOREM SafeCorrect == IrqSpec => [](StallHasCause /\ PmcTracksUnits)
<1>1. IrqInit => IrqSafe
  BY DEF IrqInit, IrqSafe, StallHasCause, PmcTracksUnits, Raised, Units
<1>2. IrqTypeOK /\ IrqSafe /\ [IrqNext]_irqVars => IrqSafe'
  <2> SUFFICES ASSUME IrqTypeOK, IrqSafe, [IrqNext]_irqVars PROVE IrqSafe'
    OBVIOUS
  <2> USE UnitsAreKnown
  <2> USE DEF IrqTypeOK, IrqSafe
  <2>1. ASSUME NEW u \in Units, NEW val \in SUBSET Bits[u], WriteIntr(u, val)
        PROVE  IrqSafe'
    <3>1. pendingInterrupts'["PGRAPH"] = pendingInterrupts["PGRAPH"]
      BY <2>1 DEF WriteIntr
    <3> QED
      BY <2>1, <3>1, UpdateIrqExact DEF WriteIntr, StallHasCause, stalls
  <2>2. ASSUME NEW u \in Units, NEW val \in SUBSET Bits[u], WriteIntrEn(u, val)
        PROVE  IrqSafe'
    BY <2>2, UpdateIrqExact DEF WriteIntrEn, StallHasCause, stalls
  <2>3. CASE PmcWriteIntr
    BY <2>3, UpdateIrqExact DEF PmcWriteIntr, StallHasCause, stalls
  <2>4. ASSUME NEW val \in BOOLEAN, PmcWriteIntrEn(val)
        PROVE  IrqSafe'
    BY <2>4, UpdateIrqExact DEF PmcWriteIntrEn, StallHasCause, stalls
  <2>5. ASSUME NEW val \in SUBSET Bits["PGRAPH"], PgraphWriteIntr(val)
        PROVE  IrqSafe'
    <3>1. PmcTracksUnits'
      BY <2>5, PgraphOnlyKeepsPmc DEF PgraphWriteIntr
    <3>2. StallHasCause'
      BY <2>5 DEF PgraphWriteIntr, StallHasCause
    <3> QED
      BY <3>1, <3>2
  <2>6. ASSUME NEW val \in SUBSET Bits["PGRAPH"], PgraphWriteIntrEn(val)
        PROVE  IrqSafe'
    <3>1. PmcTracksUnits'
      BY <2>6, PgraphOnlyKeepsPmc DEF PgraphWriteIntrEn
    <3> QED
      BY <2>6, <3>1 DEF PgraphWriteIntrEn, StallHasCause, stalls
  <2>7. CASE Vblank
    <3>1. pendingInterrupts'["PGRAPH"] = pendingInterrupts["PGRAPH"]
      BY <2>7 DEF Vblank
    <3> QED
      BY <2>7, <3>1, UpdateIrqExact DEF Vblank, StallHasCause, stalls
  <2>8. CASE NopTrap
    <3>1. PmcTracksUnits'
      BY <2>8, PgraphOnlyKeepsPmc DEF NopTrap
    <3> QED
      BY <2>8, <3>1 DEF NopTrap, PullerRuns, StallHasCause
  <2>9. CASE ContextSwitchTrap
    <3>1. PmcTracksUnits'
      BY <2>9, PgraphOnlyKeepsPmc DEF ContextSwitchTrap
    <3> QED
      BY <2>9, <3>1 DEF ContextSwitchTrap, PullerRuns, StallHasCause
  <2>10. CASE NopRaise
    BY <2>10, UpdateIrqExact DEF NopRaise, StallHasCause, stalls
  <2>11. CASE ContextSwitchRaise
    BY <2>11, UpdateIrqExact DEF ContextSwitchRaise, StallHasCause, stalls
  <2>12. CASE Reset
    <3>1. StallHasCause'
      BY <2>12 DEF Reset, StallHasCause
    <3>2. PmcTracksUnits'
      BY <2>12 DEF Reset, PmcTracksUnits, Raised, Units
    <3> QED
      BY <3>1, <3>2
  <2>13. CASE UNCHANGED irqVars
    BY <2>13 DEF irqVars, StallHasCause, PmcTracksUnits, Raised
  <2> QED
    BY <2>1, <2>2, <2>3, <2>4, <2>5, <2>6, <2>7, <2>8, <2>9, <2>10, <2>11,
       <2>12, <2>13 DEF IrqNext, GuestWrite, Raise
<1> QED
  BY <1>1, <1>2, RegistersTyped, PTL DEF IrqSpec, IrqSafe

(* nv2a_update_irq: PMC's summary and the PCI line are those of the pending and
   enabled interrupts of PFIFO and PCRTC. *)
THEOREM SummaryCorrect == IrqSpec => []PmcTracksUnits
<1>1. IrqSafe => PmcTracksUnits
  BY DEF IrqSafe
<1> QED
  BY <1>1, SafeCorrect, PTL

-----------------------------------------------------------------------------
Switching ==
  {"want", "flush", "flushing", "flushed", "in_use", "released", "init", "exited", "done"}

(* What makes the two properties inductive: a switch goes on only with the vCPU
   waiting for it, and renderer_lock has one holder at a time. *)
Handshake ==
  /\ fifoPc \in Switching => phase = "cpu_waiting"
  /\ phase = "cpu_waiting" => vcpuPc = "waiting" /\ ~done /\ ~work
  /\ work => phase = "started" /\ ~done
  /\ vcpuPc = "work" => phase = "started" /\ ~done /\ ~work

Exclusion ==
  /\ renderer = None => fifoPc \in {"init", "exited"}
  /\ fifoPc \in {"init", "exited"} => uiPc = "idle"
  /\ fifoPc \in FifoHoldsRenderer => uiPc \notin UiHoldsRenderer
  /\ inUse <=> uiPc # "idle"

IInv == TypeOK /\ Handshake /\ Exclusion

(* The switch starts out of every handshake. *)
LEMMA InitInv == Init => IInv
<1> SUFFICES ASSUME Init PROVE IInv
  OBVIOUS
<1>1. TypeOK
  BY NoneAssumption, ChangesAssumption
  DEF Init, TypeOK, FifoHoldsPfifo, FifoHoldsPgraph, UiHoldsRenderer
<1>2. Handshake
  BY DEF Init, Handshake, Switching
<1>3. Exclusion
  BY NoneAssumption DEF Init, Exclusion, FifoHoldsRenderer, UiHoldsRenderer, None
<1> QED
  BY <1>1, <1>2, <1>3 DEF IInv

(* Every step keeps the invariant: one case per action. *)
LEMMA StepInv == IInv /\ [Next]_vars => IInv'
<1> SUFFICES ASSUME IInv, [Next]_vars PROVE IInv'
  OBVIOUS
<1> USE RenderersAssumption, NoneAssumption DEF IInv
<1> USE DEF FifoHoldsPfifo, FifoHoldsPgraph, FifoHoldsRenderer, UiHoldsRenderer
<1>1. CASE FifoTop
  <2>1. TypeOK'
    BY <1>1 DEF FifoTop, Fifo, TypeOK
  <2>2. Handshake'
    BY <1>1 DEF FifoTop, Fifo, TypeOK, Handshake, Switching
  <2>3. Exclusion'
    BY <1>1 DEF FifoTop, Fifo, TypeOK, Exclusion
  <2> QED
    BY <2>1, <2>2, <2>3
<1>2. CASE FifoServe
  <2>1. TypeOK'
    BY <1>2 DEF FifoServe, Fifo, TypeOK
  <2>2. Handshake'
    BY <1>2 DEF FifoServe, Fifo, TypeOK, Handshake, Switching
  <2>3. Exclusion'
    BY <1>2 DEF FifoServe, Fifo, TypeOK, Exclusion
  <2> QED
    BY <2>1, <2>2, <2>3
<1>3. CASE FifoServed
  <2>1. TypeOK'
    BY <1>3 DEF FifoServed, Fifo, TypeOK
  <2>2. Handshake'
    BY <1>3 DEF FifoServed, Fifo, TypeOK, Handshake, Switching
  <2>3. Exclusion'
    BY <1>3 DEF FifoServed, Fifo, TypeOK, Exclusion
  <2> QED
    BY <2>1, <2>2, <2>3
<1>4. CASE FifoCheck
  <2>1. TypeOK'
    <3>1. CASE config # renderer /\ phase = "idle"
      BY <1>4, <3>1 DEF FifoCheck, Fifo, TypeOK
    <3>2. CASE ~(config # renderer /\ phase = "idle")
      BY <1>4, <3>2 DEF FifoCheck, Fifo, TypeOK
    <3> QED
      BY <3>1, <3>2
  <2>2. Handshake'
    BY <1>4 DEF FifoCheck, Fifo, TypeOK, Handshake, Switching
  <2>3. Exclusion'
    BY <1>4 DEF FifoCheck, Fifo, TypeOK, Exclusion
  <2> QED
    BY <2>1, <2>2, <2>3
<1>5. CASE FifoWant
  <2>1. TypeOK'
    BY <1>5 DEF FifoWant, Fifo, RendererFree, TypeOK
  <2>2. Handshake'
    BY <1>5 DEF FifoWant, Fifo, RendererFree, TypeOK, Handshake, Switching
  <2>3. Exclusion'
    BY <1>5 DEF FifoWant, Fifo, RendererFree, TypeOK, Exclusion
  <2> QED
    BY <2>1, <2>2, <2>3
<1>6. CASE FifoFlush
  <2>1. TypeOK'
    BY <1>6 DEF FifoFlush, Fifo, TypeOK
  <2>2. Handshake'
    BY <1>6 DEF FifoFlush, Fifo, TypeOK, Handshake, Switching
  <2>3. Exclusion'
    BY <1>6 DEF FifoFlush, Fifo, TypeOK, Exclusion
  <2> QED
    BY <2>1, <2>2, <2>3
<1>7. CASE FifoFlushed
  <2>1. TypeOK'
    BY <1>7 DEF FifoFlushed, Fifo, TypeOK
  <2>2. Handshake'
    BY <1>7 DEF FifoFlushed, Fifo, TypeOK, Handshake, Switching
  <2>3. Exclusion'
    BY <1>7 DEF FifoFlushed, Fifo, TypeOK, Exclusion
  <2> QED
    BY <2>1, <2>2, <2>3
<1>8. CASE FifoFinalize
  <2>1. TypeOK'
    BY <1>8 DEF FifoFinalize, Fifo, RendererFree, TypeOK
  <2>2. Handshake'
    BY <1>8 DEF FifoFinalize, Fifo, RendererFree, TypeOK, Handshake, Switching
  <2>3. Exclusion'
    BY <1>8 DEF FifoFinalize, Fifo, RendererFree, TypeOK, Exclusion
  <2> QED
    BY <2>1, <2>2, <2>3
<1>9. CASE FifoInit
  <2>1. TypeOK'
    BY <1>9 DEF FifoInit, Fifo, TypeOK
  <2>2. Handshake'
    BY <1>9 DEF FifoInit, Fifo, TypeOK, Handshake, Switching
  <2>3. Exclusion'
    BY <1>9 DEF FifoInit, Fifo, TypeOK, Exclusion
  <2> QED
    BY <2>1, <2>2, <2>3
<1>10. CASE FifoDone
  <2>1. TypeOK'
    BY <1>10 DEF FifoDone, Fifo, TypeOK
  <2>2. Handshake'
    BY <1>10 DEF FifoDone, Fifo, TypeOK, Handshake, Switching
  <2>3. Exclusion'
    BY <1>10 DEF FifoDone, Fifo, TypeOK, Exclusion
  <2> QED
    BY <2>1, <2>2, <2>3
<1>11. CASE FifoLoop
  <2>1. TypeOK'
    BY <1>11 DEF FifoLoop, Fifo, TypeOK
  <2>2. Handshake'
    BY <1>11 DEF FifoLoop, Fifo, TypeOK, Handshake, Switching
  <2>3. Exclusion'
    BY <1>11 DEF FifoLoop, Fifo, TypeOK, Exclusion
  <2> QED
    BY <2>1, <2>2, <2>3
<1>12. CASE VcpuGuest
  <2>1. TypeOK'
    BY <1>12 DEF VcpuGuest, PfifoKick, TypeOK
  <2>2. Handshake'
    BY <1>12 DEF VcpuGuest, PfifoKick, TypeOK, Handshake, Switching
  <2>3. Exclusion'
    BY <1>12 DEF VcpuGuest, PfifoKick, TypeOK, Exclusion
  <2> QED
    BY <2>1, <2>2, <2>3
<1>13. CASE VcpuWork
  <2>1. TypeOK'
    <3>1. work' \in BOOLEAN /\ vcpuPc' \in {"guest", "work", "waiting"}
      BY <1>13 DEF VcpuWork
    <3> QED
      BY <1>13, <3>1 DEF VcpuWork, TypeOK
  <2>2. Handshake'
    BY <1>13 DEF VcpuWork, TypeOK, Handshake, Switching
  <2>3. Exclusion'
    BY <1>13 DEF VcpuWork, TypeOK, Exclusion
  <2> QED
    BY <2>1, <2>2, <2>3
<1>14. CASE VcpuAnnounce
  <2>1. TypeOK'
    BY <1>14 DEF VcpuAnnounce, PfifoKick, PfifoFree, TypeOK
  <2>2. Handshake'
    BY <1>14 DEF VcpuAnnounce, PfifoKick, PfifoFree, TypeOK, Handshake, Switching
  <2>3. Exclusion'
    BY <1>14 DEF VcpuAnnounce, PfifoKick, PfifoFree, TypeOK, Exclusion
  <2> QED
    BY <2>1, <2>2, <2>3
<1>15. CASE VcpuResume
  <2>1. TypeOK'
    BY <1>15 DEF VcpuResume, TypeOK
  <2>2. Handshake'
    BY <1>15 DEF VcpuResume, TypeOK, Handshake, Switching
  <2>3. Exclusion'
    BY <1>15 DEF VcpuResume, TypeOK, Exclusion
  <2> QED
    BY <2>1, <2>2, <2>3
<1>16. CASE UiGet
  <2>1. TypeOK'
    BY <1>16 DEF UiGet, Ui, RendererFree, TypeOK
  <2>2. Handshake'
    BY <1>16 DEF UiGet, Ui, RendererFree, TypeOK, Handshake, Switching
  <2>3. Exclusion'
    BY <1>16 DEF UiGet, Ui, RendererFree, TypeOK, Exclusion
  <2> QED
    BY <2>1, <2>2, <2>3
<1>17. CASE UiLookup
  <2>1. TypeOK'
    <3>1. CASE Ui("lookup", "using") /\ UNCHANGED <<pending, kick, fifoPc>>
      BY <1>17, <3>1 DEF UiLookup, Ui, TypeOK
    <3>2. CASE Ui("lookup", "sync") /\ pending' = pending \cup {"sync"} /\ PfifoKick
      <4>1. pending' \subseteq {"sync", "dirty", "flush"} /\ kick' \in BOOLEAN
        BY <3>2 DEF PfifoKick, TypeOK
      <4> QED
        BY <1>17, <3>2, <4>1 DEF UiLookup, Ui, PfifoKick, TypeOK
    <3> QED
      BY <1>17, <3>1, <3>2 DEF UiLookup
  <2>2. Handshake'
    BY <1>17 DEF UiLookup, Ui, PfifoKick, TypeOK, Handshake, Switching
  <2>3. Exclusion'
    BY <1>17 DEF UiLookup, Ui, PfifoKick, TypeOK, Exclusion
  <2> QED
    BY <2>1, <2>2, <2>3
<1>18. CASE UiSynced
  <2>1. TypeOK'
    BY <1>18 DEF UiSynced, Ui, TypeOK
  <2>2. Handshake'
    BY <1>18 DEF UiSynced, Ui, TypeOK, Handshake, Switching
  <2>3. Exclusion'
    BY <1>18 DEF UiSynced, Ui, TypeOK, Exclusion
  <2> QED
    BY <2>1, <2>2, <2>3
<1>19. CASE UiRelease
  <2>1. TypeOK'
    BY <1>19 DEF UiRelease, Ui, RendererFree, TypeOK
  <2>2. Handshake'
    BY <1>19 DEF UiRelease, Ui, RendererFree, TypeOK, Handshake, Switching
  <2>3. Exclusion'
    BY <1>19 DEF UiRelease, Ui, RendererFree, TypeOK, Exclusion
  <2> QED
    BY <2>1, <2>2, <2>3
<1>20. CASE UiScale
  <2>1. TypeOK'
    BY <1>20 DEF UiScale, Ui, RendererFree, TypeOK
  <2>2. Handshake'
    BY <1>20 DEF UiScale, Ui, RendererFree, TypeOK, Handshake, Switching
  <2>3. Exclusion'
    BY <1>20 DEF UiScale, Ui, RendererFree, TypeOK, Exclusion
  <2> QED
    BY <2>1, <2>2, <2>3
<1>21. CASE UiScaling
  <2>1. TypeOK'
    <3>1. ASSUME NEW from, NEW request \in {"dirty", "flush"}, NEW to \in {"dirty", "scaled"},
                 UiRequest(from, request, to)
          PROVE  TypeOK'
      <4>1. pending' \subseteq {"sync", "dirty", "flush"} /\ kick' \in BOOLEAN
        BY <3>1 DEF UiRequest, PfifoKick, TypeOK
      <4> QED
        BY <3>1, <4>1 DEF UiRequest, Ui, PfifoKick, TypeOK
    <3>2. ASSUME NEW from, NEW request, NEW to \in {"dirty_done", "using"},
                 UiServed(from, request, to)
          PROVE  TypeOK'
      BY <3>2 DEF UiServed, Ui, TypeOK
    <3> QED
      BY <1>21, <3>1, <3>2 DEF UiScaling
  <2>2. Handshake'
    BY <1>21 DEF UiScaling, UiRequest, UiServed, Ui, PfifoKick, TypeOK, Handshake, Switching
  <2>3. Exclusion'
    BY <1>21 DEF UiScaling, UiRequest, UiServed, Ui, PfifoKick, TypeOK, Exclusion
  <2> QED
    BY <2>1, <2>2, <2>3
<1>22. ASSUME NEW r \in Renderers, UiConfig(r) PROVE IInv'
  <2>1. TypeOK'
    BY <1>22 DEF UiConfig, TypeOK
  <2>2. Handshake' /\ Exclusion'
    BY <1>22 DEF UiConfig, TypeOK, Handshake, Exclusion
  <2> QED
    BY <2>1, <2>2
<1>23. CASE UNCHANGED vars
  BY <1>23 DEF vars, TypeOK, Handshake, Exclusion
<1> QED
  BY <1>1, <1>2, <1>3, <1>4, <1>5, <1>6, <1>7, <1>8, <1>9, <1>10, <1>11, <1>12,
     <1>13, <1>14, <1>15, <1>16, <1>17, <1>18, <1>19, <1>20, <1>21, <1>22, <1>23
  DEF Next, FifoNext, UiNext

(* The invariant holds throughout. *)
THEOREM SwitchInvariant == Safety => []IInv
  BY InitInv, StepInv, PTL DEF Safety

(* The switch's state keeps its types, for any renderers and any number of
   choices. *)
THEOREM TypeCorrect == Safety => []TypeOK
<1>1. IInv => TypeOK
  BY DEF IInv
<1> QED
  BY <1>1, SwitchInvariant, PTL

(* The wait for framebuffer_released, together with renderer_lock, keeps the
   presenter out of a renderer that is being finalized. *)
THEOREM PresenterSafe == Safety => []PresenterIsOut
<1>1. IInv => PresenterIsOut
  BY DEF IInv, Exclusion, PresenterIsOut
<1> QED
  BY <1>1, SwitchInvariant, PTL

(* A renderer is only replaced while the vCPU waits in
   do_wait_for_renderer_switch. *)
THEOREM GuestSafe == Safety => []GuestIsStopped
<1>1. IInv => GuestIsStopped
  BY DEF IInv, Handshake, Exclusion, Switching, GuestIsStopped
<1> QED
  BY <1>1, SwitchInvariant, PTL

=============================================================================
