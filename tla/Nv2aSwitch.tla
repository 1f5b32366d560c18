------------------------------ MODULE Nv2aSwitch ------------------------------
(***************************************************************************)
(* Changing the renderer while the machine runs.  The user picks another   *)
(* one; the FIFO thread notices, has the vCPU stop where it can touch      *)
(* nothing, flushes, waits until the presenter has given its framebuffer   *)
(* back, finalizes the old renderer and initialises the new one.           *)
(*   fifo  pgraph_process_pending, in the loop of pfifo_thread             *)
(*   vcpu  the guest, and do_wait_for_renderer_switch as its safe work     *)
(*   ui    the presenter: nv2a_get_framebuffer_surface,                    *)
(*         nv2a_release_framebuffer_surface, and between them the menus,   *)
(*         which set g_config.display.renderer and the scale               *)
(* A lock is held by the thread whose program counter says so; a critical  *)
(* section that waits for nothing is one step, taken when the lock is free.*)
(***************************************************************************)
EXTENDS Naturals

CONSTANTS
  Renderers,
  Default,    \* get_default_renderer
  MayFail,    \* the renderers whose init may fail
  MaxChanges  \* bound on the choices the user makes

ASSUME RenderersAssumption == Default \in Renderers /\ MayFail \subseteq Renderers
ASSUME ChangesAssumption == MaxChanges \in Nat

None == "none"
ASSUME NoneAssumption == None \notin Renderers

VARIABLES
  config,    \* g_config.display.renderer
  renderer,  \* pg->renderer, None between finalize and init
  phase,     \* renderer_switch_phase
  done,      \* the event renderer_switch_complete
  work,      \* do_wait_for_renderer_switch is queued
  pending,   \* requests to the FIFO thread
  kick,      \* fifo_kick
  inUse,     \* framebuffer_in_use
  fifoPc, vcpuPc, uiPc,
  changes    \* choices the user has left

vars == <<config, renderer, phase, done, work, pending, kick, inUse,
          fifoPc, vcpuPc, uiPc, changes>>

(* Who holds what. *)
FifoHoldsPfifo == {"top", "serve", "check", "want", "flushing", "loop"}
FifoHoldsPgraph == {"serving", "flush", "flushed", "in_use", "released", "init", "exited"}
FifoHoldsRenderer == {"flush", "flushing", "flushed", "init", "exited"}
UiHoldsRenderer == {"lookup", "sync", "scale", "dirty", "dirty_done", "scaled"}

PfifoFree == fifoPc \notin FifoHoldsPfifo
PgraphFree == fifoPc \notin FifoHoldsPgraph
RendererFree == fifoPc \notin FifoHoldsRenderer /\ uiPc \notin UiHoldsRenderer

(* pgraph_init_thread has found a renderer. *)
Init ==
  /\ config \in Renderers /\ renderer = config
  /\ phase = "idle" /\ done = FALSE /\ work = FALSE
  /\ pending = {} /\ kick = FALSE /\ inUse = FALSE
  /\ fifoPc = "top" /\ vcpuPc = "guest" /\ uiPc = "idle"
  /\ changes = MaxChanges

Fifo(from, to) == fifoPc = from /\ fifoPc' = to

(* pfifo_kick, which wakes the FIFO thread. *)
PfifoKick ==
  /\ kick' = TRUE
  /\ fifoPc' = IF fifoPc = "asleep" THEN "top" ELSE fifoPc

-----------------------------------------------------------------------------
FifoTop ==
  /\ Fifo("top", "serve")
  /\ kick' = FALSE
  /\ UNCHANGED <<config, renderer, phase, done, work, pending, inUse, vcpuPc, uiPc, changes>>

(* process_pending gives pfifo.lock up for pgraph.lock when there is something
   to do. *)
FifoServe ==
  /\ \/ pending = {} /\ Fifo("serve", "check")
     \/ pending # {} /\ Fifo("serve", "serving")
  /\ UNCHANGED <<config, renderer, phase, done, work, pending, kick, inUse, vcpuPc, uiPc, changes>>

FifoServed ==
  /\ Fifo("serving", "check")
  /\ pending' = {}
  /\ UNCHANGED <<config, renderer, phase, done, work, kick, inUse, vcpuPc, uiPc, changes>>

(* A switch begins, or goes on once the vCPU waits for it. *)
FifoCheck ==
  /\ Fifo("check", IF phase = "cpu_waiting" THEN "want" ELSE "loop")
  /\ \/ /\ config # renderer /\ phase = "idle"
        /\ phase' = "started" /\ done' = FALSE /\ work' = TRUE
     \/ /\ ~(config # renderer /\ phase = "idle")
        /\ UNCHANGED <<phase, done, work>>
  /\ UNCHANGED <<config, renderer, pending, kick, inUse, vcpuPc, uiPc, changes>>

(* It takes renderer_lock with pfifo.lock held, then gives that up for
   pgraph.lock. *)
FifoWant ==
  /\ RendererFree
  /\ Fifo("want", "flush")
  /\ UNCHANGED <<config, renderer, phase, done, work, pending, kick, inUse, vcpuPc, uiPc, changes>>

FifoFlush ==
  /\ Fifo("flush", "flushing")
  /\ pending' = pending \cup {"flush"}
  /\ UNCHANGED <<config, renderer, phase, done, work, kick, inUse, vcpuPc, uiPc, changes>>

FifoFlushed ==
  /\ Fifo("flushing", "flushed")
  /\ pending' = {}
  /\ UNCHANGED <<config, renderer, phase, done, work, kick, inUse, vcpuPc, uiPc, changes>>

(* Mutated: it waits for the framebuffer only once. *)
FifoFinalize_WaitsOnce ==
  /\ \/ inUse /\ Fifo("flushed", "in_use") /\ renderer' = renderer
     \/ ~inUse /\ Fifo("flushed", "init") /\ renderer' = None
     \/ RendererFree /\ Fifo("released", "init") /\ renderer' = None
  /\ UNCHANGED <<config, phase, done, work, pending, kick, inUse, vcpuPc, uiPc, changes>>

(* The wait for framebuffer_released, which gives up renderer_lock only, and
   the end of the old renderer. *)
FifoFinalize ==
  /\ \/ inUse /\ Fifo("flushed", "in_use") /\ renderer' = renderer
     \/ RendererFree /\ Fifo("released", "flushed") /\ renderer' = renderer
     \/ ~inUse /\ Fifo("flushed", "init") /\ renderer' = None
  /\ UNCHANGED <<config, phase, done, work, pending, kick, inUse, vcpuPc, uiPc, changes>>

(* init_renderer: the configured renderer, else the default one, else the end
   of the program. *)
FifoInit ==
  /\ \/ /\ Fifo("init", "done")
        /\ renderer' = config /\ config' = config
     \/ /\ config \in MayFail \ {Default}
        /\ Fifo("init", "done")
        /\ renderer' = Default /\ config' = Default
     \/ /\ config \in MayFail /\ Default \in MayFail
        /\ Fifo("init", "exited")
        /\ renderer' = None /\ config' = Default
  /\ UNCHANGED <<phase, done, work, pending, kick, inUse, vcpuPc, uiPc, changes>>

(* Mutated: the vCPU is not told. *)
FifoDone_Untold ==
  /\ Fifo("done", "loop")
  /\ phase' = "idle"
  /\ UNCHANGED <<config, renderer, done, work, pending, kick, inUse, vcpuPc, uiPc, changes>>

FifoDone ==
  /\ Fifo("done", "loop")
  /\ phase' = "idle" /\ done' = TRUE
  /\ UNCHANGED <<config, renderer, work, pending, kick, inUse, vcpuPc, uiPc, changes>>

(* The rest of the loop: again when it was kicked meanwhile, else to sleep. *)
FifoLoop ==
  /\ Fifo("loop", IF kick THEN "top" ELSE "asleep")
  /\ UNCHANGED <<config, renderer, phase, done, work, pending, kick, inUse, vcpuPc, uiPc, changes>>

FifoNext ==
  \/ FifoTop \/ FifoServe \/ FifoServed \/ FifoCheck \/ FifoWant \/ FifoFlush
  \/ FifoFlushed \/ FifoFinalize \/ FifoInit \/ FifoDone \/ FifoLoop

-----------------------------------------------------------------------------
(* The guest at work in PGRAPH or the FIFO, which kicks. *)
VcpuGuest ==
  /\ vcpuPc = "guest" /\ PfifoFree
  /\ PfifoKick
  /\ UNCHANGED <<config, renderer, phase, done, work, pending, inUse, vcpuPc, uiPc, changes>>

(* do_wait_for_renderer_switch, as exclusive work without the BQL. *)
VcpuWork ==
  /\ vcpuPc = "guest" /\ work
  /\ work' = FALSE /\ vcpuPc' = "work"
  /\ UNCHANGED <<config, renderer, phase, done, pending, kick, inUse, fifoPc, uiPc, changes>>

(* Mutated: the FIFO thread is not woken for the vCPU that waits. *)
VcpuAnnounce_NoKick ==
  /\ vcpuPc = "work" /\ PfifoFree
  /\ vcpuPc' = "waiting" /\ phase' = "cpu_waiting"
  /\ UNCHANGED <<config, renderer, done, work, pending, kick, inUse, fifoPc, uiPc, changes>>

VcpuAnnounce ==
  /\ vcpuPc = "work" /\ PfifoFree
  /\ vcpuPc' = "waiting" /\ phase' = "cpu_waiting"
  /\ PfifoKick
  /\ UNCHANGED <<config, renderer, done, work, pending, inUse, uiPc, changes>>

(* Mutated: the vCPU does not wait. *)
VcpuResume_Early ==
  /\ vcpuPc = "waiting"
  /\ vcpuPc' = "guest"
  /\ UNCHANGED <<config, renderer, phase, done, work, pending, kick, inUse, fifoPc, uiPc, changes>>

VcpuResume ==
  /\ vcpuPc = "waiting" /\ done
  /\ vcpuPc' = "guest"
  /\ UNCHANGED <<config, renderer, phase, done, work, pending, kick, inUse, fifoPc, uiPc, changes>>

-----------------------------------------------------------------------------
Ui(from, to) == uiPc = from /\ uiPc' = to

(* nv2a_get_framebuffer_surface: renderer_lock is held until the FIFO thread
   has shown the surface, if there is one to show. *)
UiGet ==
  /\ RendererFree
  /\ Ui("idle", "lookup")
  /\ inUse' = TRUE
  /\ UNCHANGED <<config, renderer, phase, done, work, pending, kick, fifoPc, vcpuPc, changes>>

UiLookup ==
  /\ PfifoFree
  /\ \/ Ui("lookup", "using") /\ UNCHANGED <<pending, kick, fifoPc>>
     \/ Ui("lookup", "sync") /\ pending' = pending \cup {"sync"} /\ PfifoKick
  /\ UNCHANGED <<config, renderer, phase, done, work, inUse, vcpuPc, changes>>

UiSynced ==
  /\ "sync" \notin pending
  /\ Ui("sync", "using")
  /\ UNCHANGED <<config, renderer, phase, done, work, pending, kick, inUse, fifoPc, vcpuPc, changes>>

(* nv2a_release_framebuffer_surface *)
UiRelease ==
  /\ RendererFree
  /\ Ui("using", "idle")
  /\ inUse' = FALSE
  /\ fifoPc' = IF fifoPc = "in_use" THEN "released" ELSE fifoPc
  /\ UNCHANGED <<config, renderer, phase, done, work, pending, kick, vcpuPc, changes>>

(* The user picks a renderer. *)
UiConfig(r) ==
  /\ uiPc = "using" /\ changes > 0
  /\ config' = r /\ changes' = changes - 1
  /\ UNCHANGED <<renderer, phase, done, work, pending, kick, inUse, fifoPc, vcpuPc, uiPc>>

(* nv2a_set_surface_scale_factor: under renderer_lock, two requests one after
   the other, each with its wait. *)
UiScale ==
  /\ RendererFree
  /\ Ui("using", "scale")
  /\ UNCHANGED <<config, renderer, phase, done, work, pending, kick, inUse, fifoPc, vcpuPc, changes>>

UiRequest(from, request, to) ==
  /\ PfifoFree /\ PgraphFree
  /\ Ui(from, to)
  /\ pending' = pending \cup {request}
  /\ PfifoKick
  /\ UNCHANGED <<config, renderer, phase, done, work, inUse, vcpuPc, changes>>

UiServed(from, request, to) ==
  /\ request \notin pending
  /\ Ui(from, to)
  /\ UNCHANGED <<config, renderer, phase, done, work, pending, kick, inUse, fifoPc, vcpuPc, changes>>

UiScaling ==
  \/ UiRequest("scale", "dirty", "dirty") \/ UiServed("dirty", "dirty", "dirty_done")
  \/ UiRequest("dirty_done", "flush", "scaled") \/ UiServed("scaled", "flush", "using")

UiNext ==
  UiGet \/ UiLookup \/ UiSynced \/ UiRelease \/ UiScale \/ UiScaling

Next ==
  \/ FifoNext \/ UiNext
  \/ VcpuGuest \/ VcpuWork \/ VcpuAnnounce \/ VcpuResume
  \/ \E r \in Renderers : UiConfig(r)

Safety == Init /\ [][Next]_vars

(* Every thread keeps running, none is shut out of pfifo.lock or pgraph.lock
   for ever, and the guest does something again and again.  Nobody has to draw
   a frame or open the menu. *)
Spec ==
  /\ Safety
  /\ WF_vars(FifoNext)
  /\ WF_vars(VcpuGuest) /\ WF_vars(VcpuWork) /\ SF_vars(VcpuAnnounce) /\ WF_vars(VcpuResume)
  /\ SF_vars(UiLookup) /\ WF_vars(UiSynced) /\ WF_vars(UiRelease) /\ SF_vars(UiScaling)

-----------------------------------------------------------------------------
(* The locks, the phase, the event and the three threads stay within their
   types; the renderer in use and the one configured are renderers. *)
TypeOK ==
  /\ config \in Renderers /\ renderer \in Renderers \cup {None}
  /\ phase \in {"idle", "started", "cpu_waiting"}
  /\ done \in BOOLEAN /\ work \in BOOLEAN /\ kick \in BOOLEAN /\ inUse \in BOOLEAN
  /\ pending \subseteq {"sync", "dirty", "flush"}
  /\ fifoPc \in FifoHoldsPfifo \cup FifoHoldsPgraph \cup {"done", "asleep"}
  /\ vcpuPc \in {"guest", "work", "waiting"}
  /\ uiPc \in UiHoldsRenderer \cup {"idle", "using"}
  /\ changes \in Nat

(* No renderer is finalized under the presenter: while there is none, the
   presenter neither holds a framebuffer of the old one nor is in one of its
   operations. *)
PresenterIsOut == renderer = None => uiPc = "idle" /\ ~inUse

(* While there is no renderer the vCPU waits for the switch, so that neither
   the guest's register accesses nor its accesses to memory find none. *)
GuestIsStopped == renderer = None => vcpuPc = "waiting" /\ ~done

(* The ways a switch can hang.  Two are cycles of threads that wait for each
   other: the FIFO thread takes renderer_lock holding pfifo.lock while the
   presenter, holding renderer_lock, needs the FIFO thread; and the FIFO thread
   waits for the framebuffer holding pgraph.lock while the menu needs
   pgraph.lock to change the scale.  The third is an event missed: the next
   switch resets renderer_switch_complete before the vCPU has seen it set. *)
Hangs ==
  \/ fifoPc \in {"want", "in_use", "released"} /\ uiPc \in UiHoldsRenderer
  \/ phase = "started" /\ vcpuPc = "waiting"

(* The renderer the user picked last comes into use, or the default one when it
   does not work; nothing but the three hangs prevents it. *)
ChoiceTakesEffect ==
  (config # renderer) ~> (config = renderer \/ Hangs \/ fifoPc = "exited")

(* The vCPU that stopped for a switch goes on after it, with the same
   exceptions. *)
GuestGoesOn ==
  (vcpuPc # "guest") ~> (vcpuPc = "guest" \/ Hangs \/ fifoPc = "exited")

=============================================================================
