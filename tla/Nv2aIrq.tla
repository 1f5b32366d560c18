------------------------------- MODULE Nv2aIrq -------------------------------
(***************************************************************************)
(* Interrupt aggregation of the NV2A: each unit (PFIFO, PCRTC, PGRAPH) has *)
(* a pending and an enabled register, PMC summarises them and drives the   *)
(* PCI interrupt line.  nv2a_update_irq recomputes the summary; who calls  *)
(* it, and who does not, is what this module is about.                     *)
(*                                                                         *)
(* MMIO handlers hold the BQL throughout, so each is one action.  The FIFO *)
(* thread traps to the guest in two steps: it stalls itself under          *)
(* pgraph.lock, then drops that lock and takes the BQL to raise the line.  *)
(***************************************************************************)
EXTENDS Naturals, FiniteSets

Units == {"PFIFO", "PCRTC", "PGRAPH"}

(* The interrupt bits of each unit; nothing in the code raises PFIFO's. *)
Bits == [PFIFO  |-> {"DMA_PUSHER"},
         PCRTC  |-> {"VBLANK"},
         PGRAPH |-> {"ERROR", "CONTEXT_SWITCH"}]

VARIABLES
  pendingInterrupts,  \* unit -> set of pending_interrupts bits
  enabled,            \* unit -> set of enabled_interrupts bits
  pmcPending,         \* set of units shown pending in NV_PMC_INTR_0
  pmcEnabled,         \* NV_PMC_INTR_EN_0 is non-zero
  irq,                \* level of the PCI interrupt line
  waitingForNop, waitingForContextSwitch,
  trap                \* what the FIFO thread has still to raise under the BQL

irqVars == <<pendingInterrupts, enabled, pmcPending, pmcEnabled, irq,
             waitingForNop, waitingForContextSwitch, trap>>

stalls == <<waitingForNop, waitingForContextSwitch>>

IrqTypeOK ==
  /\ pendingInterrupts \in [Units -> UNION {SUBSET Bits[u] : u \in Units}]
  /\ enabled \in [Units -> UNION {SUBSET Bits[u] : u \in Units}]
  /\ \A u \in Units : pendingInterrupts[u] \subseteq Bits[u] /\ enabled[u] \subseteq Bits[u]
  /\ pmcPending \subseteq Units
  /\ pmcEnabled \in BOOLEAN /\ irq \in BOOLEAN
  /\ waitingForNop \in BOOLEAN /\ waitingForContextSwitch \in BOOLEAN
  /\ trap \in {"none", "nop", "context_switch"}

IrqInit ==
  /\ pendingInterrupts = [u \in Units |-> {}]
  /\ enabled = [u \in Units |-> {}]
  /\ pmcPending = {} /\ pmcEnabled = FALSE /\ irq = FALSE
  /\ waitingForNop = FALSE /\ waitingForContextSwitch = FALSE
  /\ trap = "none"

(* The units whose interrupt is both pending and enabled. *)
Raised(p, e) == {u \in Units : p[u] \cap e[u] # {}}

(* Mutated forms of the definitions below, each a plausible slip. *)
UpdateIrq_IgnoresPcrtcEnable ==
  /\ pmcPending' = Raised(pendingInterrupts', [enabled' EXCEPT !["PCRTC"] = Bits["PCRTC"]])
  /\ irq' = (pmcPending' # {} /\ pmcEnabled')

PgraphWriteIntr_KeepsStall(val) ==
  /\ pendingInterrupts' = [pendingInterrupts EXCEPT !["PGRAPH"] = @ \ val]
  /\ waitingForNop' = (waitingForNop /\ "ERROR" \in pendingInterrupts'["PGRAPH"])
  /\ UNCHANGED <<enabled, pmcPending, pmcEnabled, irq,
                 waitingForContextSwitch, trap>>

Vblank_WithoutUpdate ==
  /\ pendingInterrupts' = [pendingInterrupts EXCEPT !["PCRTC"] = @ \cup {"VBLANK"}]
  /\ UNCHANGED <<enabled, pmcPending, irq, pmcEnabled, stalls, trap>>

(* nv2a_update_irq: every PMC bit is recomputed from its unit, and the line
   follows PMC as a whole (a logical, not a bitwise, "and"). *)
UpdateIrq ==
  /\ pmcPending' = Raised(pendingInterrupts', enabled')
  /\ irq' = (pmcPending' # {} /\ pmcEnabled')

-----------------------------------------------------------------------------
(* Guest writes. *)

(* pfifo_write, pcrtc_write: the bits written are acknowledged. *)
WriteIntr(u, val) ==
  /\ u # "PGRAPH"
  /\ pendingInterrupts' = [pendingInterrupts EXCEPT ![u] = @ \ val]
  /\ UNCHANGED <<enabled, pmcEnabled, stalls, trap>>
  /\ UpdateIrq

WriteIntrEn(u, val) ==
  /\ u # "PGRAPH"
  /\ enabled' = [enabled EXCEPT ![u] = val]
  /\ UNCHANGED <<pendingInterrupts, pmcEnabled, stalls, trap>>
  /\ UpdateIrq

(* pmc_write(NV_PMC_INTR_0) clears bits and recomputes them at once, so the
   written value has no effect of its own; ptimer_write also only recomputes,
   PTIMER having no PMC bit. *)
PmcWriteIntr ==
  /\ UNCHANGED <<pendingInterrupts, enabled, pmcEnabled, stalls, trap>>
  /\ UpdateIrq

PmcWriteIntrEn(val) ==
  /\ pmcEnabled' = val
  /\ UNCHANGED <<pendingInterrupts, enabled, stalls, trap>>
  /\ UpdateIrq

(* pgraph_write(NV_PGRAPH_INTR): a stall whose cause is no longer pending is
   lifted; PMC is not recomputed. *)
PgraphWriteIntr(val) ==
  /\ pendingInterrupts' = [pendingInterrupts EXCEPT !["PGRAPH"] = @ \ val]
  /\ waitingForNop' = (waitingForNop /\ "ERROR" \in pendingInterrupts'["PGRAPH"])
  /\ waitingForContextSwitch' =
       (waitingForContextSwitch /\ "CONTEXT_SWITCH" \in pendingInterrupts'["PGRAPH"])
  /\ UNCHANGED <<enabled, pmcPending, pmcEnabled, irq, trap>>

PgraphWriteIntrEn(val) ==
  /\ enabled' = [enabled EXCEPT !["PGRAPH"] = val]
  /\ UNCHANGED <<pendingInterrupts, pmcPending, pmcEnabled, irq, stalls, trap>>

-----------------------------------------------------------------------------
(* nv2a_vga_gfx_update, from the vblank timer with the BQL held. *)
Vblank ==
  /\ pendingInterrupts' = [pendingInterrupts EXCEPT !["PCRTC"] = @ \cup {"VBLANK"}]
  /\ UNCHANGED <<enabled, pmcEnabled, stalls, trap>>
  /\ UpdateIrq

(* The puller executes methods only while no stall is set. *)
PullerRuns == trap = "none" /\ ~waitingForNop /\ ~waitingForContextSwitch

(* NV097_NO_OPERATION with a non-zero parameter, under pgraph.lock. *)
NopTrap ==
  /\ PullerRuns
  /\ pendingInterrupts' = [pendingInterrupts EXCEPT !["PGRAPH"] = @ \cup {"ERROR"}]
  /\ waitingForNop' = TRUE
  /\ trap' = "nop"
  /\ UNCHANGED <<enabled, pmcPending, pmcEnabled, irq, waitingForContextSwitch>>

NopRaise ==
  /\ trap = "nop"
  /\ trap' = "none"
  /\ UNCHANGED <<pendingInterrupts, enabled, pmcEnabled, stalls>>
  /\ UpdateIrq

(* pgraph_context_switch: the stall is set under pgraph.lock, the pending bit
   only later, under the BQL. *)
ContextSwitchTrap ==
  /\ PullerRuns
  /\ waitingForContextSwitch' = TRUE
  /\ trap' = "context_switch"
  /\ UNCHANGED <<pendingInterrupts, enabled, pmcPending, pmcEnabled, irq, waitingForNop>>

ContextSwitchRaise ==
  /\ trap = "context_switch"
  /\ trap' = "none"
  /\ pendingInterrupts' = [pendingInterrupts EXCEPT !["PGRAPH"] = @ \cup {"CONTEXT_SWITCH"}]
  /\ UNCHANGED <<enabled, pmcEnabled, stalls>>
  /\ UpdateIrq

(* nv2a_reset, with the FIFO idle (nv2a_lock_fifo) and the PCI core having
   released the line.  PGRAPH's pending_interrupts is not cleared. *)
Reset ==
  /\ trap = "none"
  /\ pendingInterrupts' = [pendingInterrupts EXCEPT !["PFIFO"] = {}, !["PCRTC"] = {}]
  /\ pmcPending' = {}
  /\ irq' = FALSE
  /\ waitingForNop' = FALSE /\ waitingForContextSwitch' = FALSE
  /\ UNCHANGED <<enabled, pmcEnabled, trap>>

GuestWrite ==
  \/ \E u \in Units : \E val \in SUBSET Bits[u] : WriteIntr(u, val)
  \/ \E u \in Units : \E val \in SUBSET Bits[u] : WriteIntrEn(u, val)
  \/ PmcWriteIntr
  \/ \E val \in BOOLEAN : PmcWriteIntrEn(val)
  \/ \E val \in SUBSET Bits["PGRAPH"] : PgraphWriteIntr(val)
  \/ \E val \in SUBSET Bits["PGRAPH"] : PgraphWriteIntrEn(val)

Raise == NopRaise \/ ContextSwitchRaise

IrqNext == GuestWrite \/ Vblank \/ NopTrap \/ ContextSwitchTrap \/ Raise \/ Reset

(* The FIFO thread finishes what it started and the vblank timer keeps
   firing; the guest and resets are under no obligation. *)
IrqSpec == IrqInit /\ [][IrqNext]_irqVars /\ WF_irqVars(Raise) /\ WF_irqVars(Vblank)

-----------------------------------------------------------------------------
(* The FIFO is never stalled without something the guest can acknowledge: a
   stall flag set by NO_OPERATION or pgraph_context_switch always has its
   interrupt pending, or about to be made so by the FIFO thread. *)
StallHasCause ==
  /\ waitingForNop => "ERROR" \in pendingInterrupts["PGRAPH"]
  /\ waitingForContextSwitch =>
       \/ "CONTEXT_SWITCH" \in pendingInterrupts["PGRAPH"]
       \/ trap = "context_switch"

(* PMC agrees with every unit but PGRAPH at all times, and the line with PMC:
   every handler that touches PFIFO or PCRTC ends in nv2a_update_irq. *)
PmcTracksUnits ==
  /\ pmcPending \ {"PGRAPH"} = Raised(pendingInterrupts, enabled) \ {"PGRAPH"}
  /\ irq = (pmcPending # {} /\ pmcEnabled)

(* A trap the FIFO is stalled on reaches the guest: although pgraph_write
   never recomputes the line, a stall whose interrupt is enabled is, in the
   end, either signalled, lifted, or disabled. *)
TrapIsSignalled ==
  (waitingForNop /\ "ERROR" \in enabled["PGRAPH"] /\ pmcEnabled)
    ~> (irq \/ ~waitingForNop \/ "ERROR" \notin enabled["PGRAPH"] \/ ~pmcEnabled)

=============================================================================
