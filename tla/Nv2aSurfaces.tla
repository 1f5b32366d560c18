----------------------------- MODULE Nv2aSurfaces -----------------------------
(***************************************************************************)
(* The Vulkan renderer's surface cache: the render targets the guest has   *)
(* in video memory, kept as images, and the threads that keep memory and   *)
(* images together:                                                        *)
(*   fifo  runs the guest's methods and serves requests, each under        *)
(*         pgraph.lock                                                     *)
(*   vcpu  the guest's accesses to memory; one to a watched cell calls     *)
(*         surface_access_callback first                                   *)
(*   ui    the presenter, asking for the displayed surface                 *)
(*   ctl   a save, a reset or a change of scale, asking for a download of  *)
(*         everything or a flush                                           *)
(*                                                                         *)
(* Memory is a row of cells, a surface the cells from its address on; the  *)
(* width stands for all of its dimensions, the kind for its format.  The   *)
(* accelerator is TCG, whose accesses can be watched.                      *)
(*                                                                         *)
(* The guest shares memory properly: the CPU leaves alone what a job in    *)
(* flight touches, and does not write to what is on display.               *)
(***************************************************************************)
EXTENDS Integers

CONSTANTS
  Vram,       \* the cells of video memory
  MaxWidth,   \* the largest width of a target
  Draws,      \* records of color, zeta, width, writes (a set of Kinds), value
  Textures,   \* texture reads: records of addr, width
  Blits,      \* one-cell blits: records of src, dst, from, to
  Display,    \* the cell the display starts at
  CpuReads, CpuWrites,  \* the cells the CPU reads and writes
  Values,
  MaxAge,     \* max_surface_frame_time_delta, 5 in the code
  MaxJobs, MaxAccesses, MaxRequests  \* bounds: what is asked in a behaviour

Kinds == {"color", "zeta"}

Span(a, w) == a..(a + w - 1)

Addrs == {d.color : d \in Draws} \cup {d.zeta : d \in Draws}

ASSUME VramAssumption == Vram \subseteq Nat
ASSUME WidthAssumption == MaxWidth \in Nat \ {0} /\ MaxAge \in Nat \ {0}
ASSUME BoundsAssumption ==
  MaxJobs \in Nat /\ MaxAccesses \in Nat /\ MaxRequests \in Nat
ASSUME ValuesAssumption == 0 \in Values
ASSUME DrawsAssumption ==
  /\ \A d \in Draws :
       /\ d.color \in Nat /\ d.zeta \in Nat /\ d.width \in 1..MaxWidth
       /\ Span(d.color, d.width) \cap Span(d.zeta, d.width) = {}
       /\ d.writes \subseteq Kinds /\ d.writes # {} /\ d.value \in Values
  /\ \A a \in Addrs : Span(a, MaxWidth) \subseteq Vram
ASSUME TexturesAssumption ==
  \A t \in Textures : t.addr \in Addrs /\ t.width \in 1..MaxWidth
(* Image blits copy between surfaces no other surface lies across, and stay
   inside the surface they copy to. *)
ASSUME BlitsAssumption ==
  \A b \in Blits : \A a \in {b.src, b.dst} :
    /\ a \in Addrs
    /\ b.from \in Span(b.src, MaxWidth) /\ b.to \in Span(b.dst, MaxWidth)
    /\ \A o \in Addrs \ {a} : Span(o, MaxWidth) \cap Span(a, MaxWidth) = {}
    /\ \A d \in Draws :
         b.dst \in {d.color, d.zeta} => b.to \in Span(b.dst, d.width)
ASSUME CpuAssumption ==
  /\ CpuReads \subseteq Vram /\ CpuWrites \subseteq Vram
  /\ \A a \in Addrs : Display \in Span(a, MaxWidth)
                        => Span(a, MaxWidth) \cap CpuWrites = {}

VARIABLES
  m,        \* memory, surfaces and the PGRAPH state that selects them
  pending,  \* requests to the FIFO thread
  complete, \* the event downloads_complete
  watched,  \* cells with an access callback
  work,     \* callbacks are queued for the vCPU to insert or remove
  fifoPc, stage,  \* the FIFO thread, and how far it is in its job
  job,      \* the methods the guest has submitted
  vcpuPc, cpu,    \* the vCPU and its access
  out,      \* what the last read returned
  uiPc,     \* the presenter
  left      \* what the bounds still allow

vars == <<m, pending, complete, watched, work, fifoPc, stage, job,
          vcpuPc, cpu, out, uiPc, left>>

None == [op |-> "idle"]
Unbound == -1     \* a null color_binding or zeta_binding

Dead ==
  [live |-> FALSE, kind |-> "color", width |-> 0, drawDirty |-> FALSE,
   download |-> FALSE, upload |-> FALSE, img |-> [c \in Vram |-> 0], age |-> 0]

(* populate_surface_binding_target_sized: a new surface is uploaded before it
   is drawn to. *)
NewSurface(k, w) ==
  [live |-> TRUE, kind |-> k, width |-> w, drawDirty |-> FALSE,
   download |-> FALSE, upload |-> TRUE, img |-> [c \in Vram |-> 0], age |-> 0]

(* bufferDirty, dirty, cache: the surface_color and surface_zeta flags
   buffer_dirty, draw_dirty and write_enabled_cache, as sets of kinds; mask:
   the kinds whose writes are enabled. *)
Init ==
  /\ m = [vram |-> [c \in Vram |-> 0], surf |-> [a \in Addrs |-> Dead],
          bound |-> [k \in Kinds |-> Unbound],
          offset |-> [k \in Kinds |-> 0], shape |-> 0, last |-> 0,
          bufferDirty |-> {}, dirty |-> {}, cache |-> {}, mask |-> {}]
  /\ pending = {} /\ complete = FALSE /\ watched = {} /\ work = FALSE
  /\ fifoPc = "methods" /\ stage = "set" /\ job = None
  /\ vcpuPc = "guest" /\ cpu = None /\ out = [c \in {} |-> 0]
  /\ uiPc = "idle"
  /\ left = [jobs |-> MaxJobs, accesses |-> MaxAccesses, requests |-> MaxRequests]

-----------------------------------------------------------------------------
(* The cache, as functions of m. *)
Covers(x, a, c) == x.surf[a].live /\ c \in Span(a, x.surf[a].width)

Live(x) == {a \in Addrs : x.surf[a].live}
DrawDirty(x) == {a \in Live(x) : x.surf[a].drawDirty}

(* Mutated: a surface that begins before the range is not seen. *)
Overlapping_FromItsStart(x, cells) == {a \in Live(x) : a \in cells}

(* check_surface_overlaps_range *)
Overlapping(x, cells) ==
  {a \in Live(x) : Span(a, x.surf[a].width) \cap cells # {}}

(* download_surface, of several surfaces: the images go to memory. *)
Download(x, S) ==
  [x EXCEPT
    !.vram = [c \in Vram |->
                IF \E a \in S : Covers(x, a, c)
                  THEN x.surf[CHOOSE a \in S : Covers(x, a, c)].img[c]
                  ELSE x.vram[c]],
    !.surf = [a \in Addrs |->
                IF a \in S
                  THEN [x.surf[a] EXCEPT !.drawDirty = FALSE, !.download = FALSE]
                  ELSE x.surf[a]]]

DownloadIfDirty(x, S) == Download(x, S \cap DrawDirty(x))

(* unbind_surface *)
Unbind(x, K) ==
  [x EXCEPT !.bound = [k \in Kinds |-> IF k \in K THEN Unbound ELSE x.bound[k]]]

(* invalidate_surface; its callers have downloaded what was drawn. *)
Invalidate(x, S) ==
  [x EXCEPT
    !.surf = [a \in Addrs |-> IF a \in S THEN Dead ELSE x.surf[a]],
    !.bound = [k \in Kinds |-> IF x.bound[k] \in S THEN Unbound ELSE x.bound[k]]]

Evict(x, S) == Invalidate(DownloadIfDirty(x, S), S)

(* pgraph_vk_upload_surface_data, of several surfaces. *)
Upload(x, S) ==
  [x EXCEPT !.surf = [a \in Addrs |->
     IF a \in S /\ x.surf[a].upload
       THEN [x.surf[a] EXCEPT
               !.upload = FALSE,
               !.img = [c \in Vram |->
                          IF Covers(x, a, c) THEN x.vram[c] ELSE 0]]
       ELSE x.surf[a]]]

Touch(x, S) ==
  [x EXCEPT !.surf = [a \in Addrs |->
     IF a \in S THEN [x.surf[a] EXCEPT !.age = 0] ELSE x.surf[a]]]

BoundAt(x) == {x.bound[k] : k \in Kinds} \ {Unbound}

(* expire_old_surfaces *)
ExpireOld(x) == Evict(x, {a \in Live(x) : x.surf[a].age >= MaxAge})

-----------------------------------------------------------------------------
(* populate_surface_binding_target: a zeta target takes the dimensions of the
   color surface it is used with. *)
TargetWidth(x, k) ==
  IF k = "zeta" /\ x.bound["color"] # Unbound
    THEN x.surf[x.bound["color"]].width ELSE x.shape

(* The surface at the address of the target can be used for it.  One that is
   larger than the target is taken when the zeta surface that goes with it
   does not reach into it. *)
Compatible(x, k, w) ==
  LET a == x.offset[k]
      s == x.surf[a]
  IN /\ s.live /\ s.kind = k /\ s.width >= w
     /\ k = "color" /\ s.width # w
          => Span(a, s.width) \cap Span(x.offset["zeta"], s.width) = {}
     /\ k = "zeta" /\ x.bound["color"] # Unbound
          => s.width = x.surf[x.bound["color"]].width

Rebinding(x, k) ==
  Unbind(x, {k} \cup {o \in Kinds : x.bound[o] = x.offset[k]})

(* surface_put: what lies across the new surface is evicted. *)
Create(x, k, w) ==
  LET a == x.offset[k]
      y == Evict(x, Overlapping(x, Span(a, w)))
      zeta == y.bound["zeta"]
  IN [y EXCEPT
       !.surf = [y.surf EXCEPT ![a] = NewSurface(k, w)],
       !.bound = [y.bound EXCEPT ![k] = a],
       !.bufferDirty =
         (IF k = "color" /\ zeta # Unbound /\ y.surf[zeta].width # w
            THEN y.bufferDirty \cup {"zeta"} ELSE y.bufferDirty) \ {k}]

(* Mutated: the zeta surface is kept when the color surface changes. *)
Reuse_KeepsZeta(x, k) ==
  [x EXCEPT
    !.bound = [x.bound EXCEPT ![k] = x.offset[k]],
    !.bufferDirty = x.bufferDirty \ {k}]

Reuse(x, k) ==
  [x EXCEPT
    !.bound = [x.bound EXCEPT ![k] = x.offset[k]],
    !.bufferDirty = (IF k = "color" THEN x.bufferDirty \cup {"zeta"}
                     ELSE x.bufferDirty) \ {k}]

(* update_surface_part, where it has to find a surface for the target. *)
Rebind(x, k) ==
  LET w == TargetWidth(x, k)
      y == Rebinding(x, k)
  IN IF Compatible(y, k, w) THEN Reuse(y, k) ELSE Create(y, k, w)

(* The assertions of invalidate_surface: an evicted surface that is bound is
   one the guest has changed. *)
EvictsUnbound(x, k) ==
  LET w == TargetWidth(x, k)
      y == Rebinding(x, k)
  IN Compatible(y, k, w)
     \/ \A o \in Kinds :
          y.bound[o] \in Overlapping(y, Span(y.offset[k], w))
            => o \in y.bufferDirty

-----------------------------------------------------------------------------
(* pgraph_vk_surface_update(true, ...), before a draw: the color part, the zeta
   part, and then uploads and expiry. *)
ShapeChange(x) ==
  IF x.shape = x.last THEN x ELSE [x EXCEPT !.last = x.shape, !.bufferDirty = Kinds]

UnbindDirty(x, k) == IF k \in x.bufferDirty THEN Unbind(x, {k}) ELSE x

Rebinds(x, k) == k \in x.mask /\ x.bound[k] = Unbound

UpdatePart(x, k) == IF Rebinds(x, k) THEN Rebind(x, k) ELSE x

PartAllowed(x, k) == Rebinds(x, k) => EvictsUnbound(x, k)

UploadBound(x) == ExpireOld(Upload(Touch(x, BoundAt(x)), BoundAt(x)))

(* pgraph_vk_surface_update(false, ...), before a change of state: with TCG
   nothing is downloaded, but a drawn target that is not bound is found a
   surface. *)
Drawn(x, k) == k \in x.dirty /\ k \in x.mask \cup x.cache

Straggles(x, k) == Drawn(x, k) /\ x.bound[k] = Unbound

UpdatePartAfter(x, k) ==
  LET y == IF Straggles(x, k) THEN Rebind(x, k) ELSE x
  IN IF Drawn(x, k)
       THEN [y EXCEPT !.dirty = y.dirty \ {k}, !.cache = y.cache \ {k}] ELSE y

TouchBound(x) == ExpireOld(Touch(x, BoundAt(x)))

(* pgraph_vk_surface_flush *)
Flush(x) ==
  LET y == Unbind(x, Kinds)
  IN [Evict(y, Live(y)) EXCEPT !.dirty = {}, !.last = 0]

-----------------------------------------------------------------------------
(* register_cpu_access_callback and its inverse: whoever changes the set of
   surfaces queues their callbacks for the vCPU. *)
WatchedCells(x) == UNION {Span(a, x.surf[a].width) : a \in Live(x)}

QueueCallbacks == work' = (work \/ WatchedCells(m') # WatchedCells(m))

(* The FIFO thread between two methods: it holds neither lock. *)
Method(op, s) == fifoPc = "methods" /\ job.op = op /\ stage = s

MethodDone(s) ==
  /\ stage' = s
  /\ job' = IF s = "set" THEN None ELSE job
  /\ QueueCallbacks
  /\ UNCHANGED <<pending, complete, watched, fifoPc, vcpuPc, cpu, uiPc, left>>

(* The outcome of the update before a change of state. *)
UpdateAfter ==
  {TouchBound(y) : y \in {UpdatePartAfter(x, "zeta") :
                            x \in {UpdatePartAfter(m, "color")}}}

(* SET_SURFACE_*, then SET_COLOR_MASK and SET_DEPTH_MASK. *)
SetSurface ==
  /\ Method("draw", "set")
  /\ \E y \in UpdateAfter :
     LET offset == [k \in Kinds |-> IF k = "color" THEN job.color ELSE job.zeta]
     IN m' = [y EXCEPT
          !.offset = offset, !.shape = job.width,
          !.bufferDirty = y.bufferDirty
                            \cup {k \in Kinds : offset[k] # y.offset[k]},
          !.cache = y.cache \cup y.mask, !.mask = job.writes]
  /\ MethodDone("begin") /\ UNCHANGED out

(* pgraph_vk_draw_begin; a failing assertion ends the program. *)
DrawBegin ==
  /\ Method("draw", "begin")
  /\ \E x \in {UnbindDirty(ShapeChange(m), "color")} :
     \E y \in {UnbindDirty(UpdatePart(x, "color"), "zeta")} :
     \E z \in {UpdatePart(y, "zeta")} :
       \/ /\ PartAllowed(x, "color") /\ PartAllowed(y, "zeta")
          /\ m' = UploadBound(z)
          /\ MethodDone("end") /\ UNCHANGED out
       \/ /\ ~(PartAllowed(x, "color") /\ PartAllowed(y, "zeta"))
          /\ fifoPc' = "aborted"
          /\ UNCHANGED <<m, pending, complete, watched, work, stage, job, vcpuPc, cpu, out, uiPc, left>>

(* The image of a surface a draw has painted. *)
Painted(s, a) ==
  [s EXCEPT !.drawDirty = TRUE, !.age = 0,
            !.img = [c \in Vram |->
                       IF c \in Span(a, m.shape) THEN job.value ELSE s.img[c]]]

(* pgraph_vk_draw_end: the bound targets that are written become dirty. *)
DrawEnd ==
  /\ Method("draw", "end")
  /\ LET y == Touch(m, BoundAt(m))
         painted == {m.bound[k] : k \in m.mask} \ {Unbound}
     IN m' = [y EXCEPT
          !.surf = [a \in Addrs |->
                      IF a \in painted THEN Painted(y.surf[a], a) ELSE y.surf[a]],
          !.dirty = m.dirty \cup m.mask]
  /\ MethodDone("set") /\ UNCHANGED out

(* A texture: read from the surface it is, or from memory once the surfaces
   it overlaps are downloaded. *)
BindTexture ==
  /\ Method("texture", "set")
  /\ LET s == m.surf[job.addr]
         cells == Span(job.addr, job.width)
         asSurface == s.live /\ s.kind = "color" /\ s.width = job.width
     IN /\ m' = IF asSurface THEN Upload(m, {job.addr})
                ELSE DownloadIfDirty(m, Overlapping(m, cells))
        /\ out' = [c \in cells |-> IF asSurface THEN m'.surf[job.addr].img[c]
                                                ELSE m'.vram[c]]
  /\ MethodDone("set")

(* pgraph_vk_image_blit of one cell: the source is downloaded, and so is a
   destination that is not replaced as a whole. *)
ImageBlit ==
  /\ Method("blit", "set")
  /\ \E x \in {DownloadIfDirty(u, {job.src}) : u \in UpdateAfter} :
     LET y == IF x.surf[job.dst].width > 1 THEN DownloadIfDirty(x, {job.dst}) ELSE x
         d == y.surf[job.dst]
     IN m' = [y EXCEPT
          !.surf = [y.surf EXCEPT ![job.dst] =
            IF d.live THEN [d EXCEPT !.drawDirty = FALSE, !.download = FALSE,
                                     !.upload = TRUE]
            ELSE d],
          !.vram = [y.vram EXCEPT ![job.to] = y.vram[job.from]]]
  /\ MethodDone("set") /\ UNCHANGED out

(* FLIP_INCREMENT_WRITE: a frame has passed. *)
FlipIncrement ==
  /\ Method("flip", "set")
  /\ m' = [m EXCEPT !.surf = [a \in Addrs |->
         [m.surf[a] EXCEPT !.age = IF m.surf[a].live /\ @ < MaxAge THEN @ + 1 ELSE @]]]
  /\ MethodDone("set") /\ UNCHANGED out

-----------------------------------------------------------------------------
(* pgraph_vk_process_pending, under pgraph.lock from here to its end.  The
   flags and the event of the downloads are set one after the other while a
   requester, who only needs pfifo.lock, may set them too. *)
Serving(from, to) == fifoPc = from /\ fifoPc' = to

ServeStart ==
  /\ pending # {}
  /\ Serving("methods", IF "downloads" \in pending THEN "downloads" ELSE "others")
  /\ UNCHANGED <<m, pending, complete, watched, work, stage, job, vcpuPc, cpu, out, uiPc, left>>

ServeDownloads ==
  /\ Serving("downloads", "clear")
  /\ m' = Download(m, {a \in Live(m) : m.surf[a].download})
  /\ UNCHANGED <<pending, complete, watched, work, stage, job, vcpuPc, cpu, out, uiPc, left>>

ServeClear ==
  /\ Serving("clear", "event")
  /\ pending' = pending \ {"downloads"}
  /\ UNCHANGED <<m, complete, watched, work, stage, job, vcpuPc, cpu, out, uiPc, left>>

(* Mutated: the event is not set. *)
ServeEvent_Unset ==
  /\ Serving("event", "others")
  /\ UNCHANGED <<m, pending, complete, watched, work, stage, job, vcpuPc, cpu, out, uiPc, left>>

ServeEvent ==
  /\ Serving("event", "others")
  /\ complete' = TRUE
  /\ UNCHANGED <<m, pending, watched, work, stage, job, vcpuPc, cpu, out, uiPc, left>>

(* pgraph_vk_download_dirty_surfaces, pgraph_vk_sync (the displayed surface is
   uploaded before it is shown) and pgraph_vk_flush. *)
Displayed(x) == {a \in Live(x) : Covers(x, a, Display) /\ x.surf[a].kind = "color"}

ServeOthers ==
  /\ Serving("others", "methods")
  /\ LET x == IF "dirty" \in pending THEN DownloadIfDirty(m, Live(m)) ELSE m
         y == IF "sync" \in pending THEN Upload(x, Displayed(x)) ELSE x
     IN m' = IF "flush" \in pending THEN Flush(y) ELSE y
  /\ pending' = pending \ {"dirty", "sync", "flush"}
  /\ QueueCallbacks
  /\ UNCHANGED <<complete, watched, stage, job, vcpuPc, cpu, out, uiPc, left>>

Serve ==
  ServeStart \/ ServeDownloads \/ ServeClear \/ ServeEvent \/ ServeOthers

Fifo ==
  \/ SetSurface \/ DrawBegin \/ DrawEnd \/ BindTexture \/ ImageBlit
  \/ FlipIncrement \/ Serve

-----------------------------------------------------------------------------
(* The guest.  One thread submits jobs and makes accesses; it waits with an
   access until no job in flight touches the cell, a surface being all the
   memory it ever took. *)
Touched(j) ==
  CASE j.op = "draw"    -> Span(j.color, MaxWidth) \cup Span(j.zeta, MaxWidth)
    [] j.op = "texture" -> Span(j.addr, MaxWidth)
    [] j.op = "blit"    -> Span(j.src, MaxWidth) \cup Span(j.dst, MaxWidth)
    [] OTHER            -> {}

Target(d, k) == IF k = "color" THEN d.color ELSE d.zeta

Jobs ==
  {[op |-> "draw", color |-> d.color, zeta |-> d.zeta, width |-> d.width,
    writes |-> d.writes, value |-> d.value,
    cells |-> UNION {Span(Target(d, k), d.width) : k \in d.writes}] : d \in Draws}
  \cup {[op |-> "texture", addr |-> t.addr, width |-> t.width,
         cells |-> Span(t.addr, t.width)] : t \in Textures}
  \cup {[op |-> "blit", src |-> b.src, dst |-> b.dst,
         from |-> b.from, to |-> b.to] : b \in Blits}
  \cup {[op |-> "flip"]}

Submit(j) ==
  /\ left.jobs > 0 /\ left' = [left EXCEPT !.jobs = @ - 1]
  /\ vcpuPc = "guest" /\ job = None
  /\ job' = j /\ stage' = "set"
  /\ UNCHANGED <<m, pending, complete, watched, work, fifoPc, vcpuPc, cpu, out, uiPc>>

Accesses ==
  {[op |-> "read", cell |-> c] : c \in CpuReads}
  \cup {[op |-> "write", cell |-> c, value |-> v] : c \in CpuWrites, v \in Values}

(* do_mem_access_callback_insert and _remove_by_ref, which the vCPU runs before
   it enters its next translation block. *)
VcpuRunWork ==
  /\ vcpuPc = "guest" /\ work
  /\ watched' = WatchedCells(m) /\ work' = FALSE
  /\ UNCHANGED <<m, pending, complete, fifoPc, stage, job, vcpuPc, cpu, out, uiPc, left>>

VcpuIssue(acc) ==
  /\ left.accesses > 0 /\ left' = [left EXCEPT !.accesses = @ - 1]
  /\ vcpuPc = "guest" /\ ~work
  /\ acc.cell \notin Touched(job)
  /\ cpu' = acc
  /\ vcpuPc' = IF acc.cell \in watched THEN "callback" ELSE "access"
  /\ UNCHANGED <<m, pending, complete, watched, work, fifoPc, stage, job, out, uiPc>>

(* surface_access_callback under pgraph.lock. *)
VcpuCallback ==
  /\ vcpuPc = "callback" /\ fifoPc = "methods"
  /\ LET hit == {a \in Live(m) : Covers(m, a, cpu.cell)}
     IN /\ m' = [m EXCEPT !.surf = [a \in Addrs |->
               IF a \in hit
                 THEN [m.surf[a] EXCEPT !.download = @ \/ m.surf[a].drawDirty,
                                        !.upload = @ \/ cpu.op = "write"]
                 ELSE m.surf[a]]]
        /\ vcpuPc' = IF hit \cap DrawDirty(m) # {} THEN "request" ELSE "access"
  /\ UNCHANGED <<pending, complete, watched, work, fifoPc, stage, job, cpu, out, uiPc, left>>

(* Its request, under pfifo.lock, and the wait for it. *)
VcpuRequest ==
  /\ vcpuPc = "request" /\ vcpuPc' = "wait"
  /\ complete' = FALSE
  /\ pending' = pending \cup {"downloads"}
  /\ UNCHANGED <<m, watched, work, fifoPc, stage, job, cpu, out, uiPc, left>>

(* Mutated: the vCPU does not wait for the event. *)
VcpuWake_Early ==
  /\ vcpuPc = "wait" /\ vcpuPc' = "access"
  /\ UNCHANGED <<m, pending, complete, watched, work, fifoPc, stage, job, cpu, out, uiPc, left>>

VcpuWake ==
  /\ vcpuPc = "wait" /\ vcpuPc' = "access"
  /\ complete
  /\ UNCHANGED <<m, pending, complete, watched, work, fifoPc, stage, job, cpu, out, uiPc, left>>

(* The load or store itself. *)
VcpuAccess ==
  /\ vcpuPc = "access" /\ vcpuPc' = "guest"
  /\ \/ /\ cpu.op = "read"
        /\ out' = [c \in {cpu.cell} |-> m.vram[c]] /\ m' = m
     \/ /\ cpu.op = "write"
        /\ m' = [m EXCEPT !.vram = [m.vram EXCEPT ![cpu.cell] = cpu.value]]
        /\ out' = out
  /\ cpu' = None
  /\ UNCHANGED <<pending, complete, watched, work, fifoPc, stage, job, uiPc, left>>

Vcpu ==
  VcpuRunWork \/ VcpuCallback \/ VcpuRequest \/ VcpuWake \/ VcpuAccess

-----------------------------------------------------------------------------
(* pgraph_vk_get_framebuffer_surface: the displayed surface counts as used, and
   the presenter waits for the FIFO thread to show it. *)
UiFrame ==
  /\ left.requests > 0 /\ left' = [left EXCEPT !.requests = @ - 1]
  /\ uiPc = "idle" /\ uiPc' = "sync"
  /\ Displayed(m) # {}
  /\ m' = Touch(m, Displayed(m))
  /\ pending' = pending \cup {"sync"}
  /\ UNCHANGED <<complete, watched, work, fifoPc, stage, job, vcpuPc, cpu, out>>

UiSynced ==
  /\ uiPc = "sync" /\ uiPc' = "idle"
  /\ "sync" \notin pending
  /\ UNCHANGED <<m, pending, complete, watched, work, fifoPc, stage, job, vcpuPc, cpu, out, left>>

(* pgraph_vk_pre_savevm_trigger asks for everything drawn, nv2a_reset for a
   flush, and a change of scale for both, under pgraph.lock. *)
Ctl(request) ==
  /\ left.requests > 0 /\ left' = [left EXCEPT !.requests = @ - 1]
  /\ fifoPc = "methods"
  /\ pending' = pending \cup {request}
  /\ UNCHANGED <<m, complete, watched, work, fifoPc, stage, job, vcpuPc, cpu, out, uiPc>>

Next ==
  \/ Fifo \/ Vcpu \/ UiFrame \/ UiSynced
  \/ \E j \in Jobs : Submit(j)
  \/ \E acc \in Accesses : VcpuIssue(acc)
  \/ \E request \in {"dirty", "flush"} : Ctl(request)

Safety == Init /\ [][Next]_vars

(* The FIFO thread looks for requests in every round of its loop, the vCPU keeps
   running, and pgraph.lock, which the callback takes, comes free again and
   again. *)
Spec == Safety /\ WF_vars(Serve) /\ WF_vars(Vcpu) /\ SF_vars(VcpuCallback)

-----------------------------------------------------------------------------
(* The contents of memory as the guest should see it: what was drawn, where it
   is still in an image only, and otherwise what is in memory. *)
Contents(x) ==
  [c \in Vram |->
     IF \E a \in DrawDirty(x) : Covers(x, a, c)
       THEN x.surf[CHOOSE a \in DrawDirty(x) : Covers(x, a, c)].img[c]
       ELSE x.vram[c]]

Memory == INSTANCE CoherentMemory
  WITH Cells <- Vram, mem <- Contents(m), gpu <- job

(* Downloads, uploads, evictions, reuse, expiry and flushes are invisible to a
   guest that shares memory properly: CPU accesses, draws, textures and blits
   act on one coherent memory, each once and at one point. *)
Coherent == Memory!Spec

(* Two surfaces of the cache never share memory, whatever targets the guest
   has used before. *)
SurfacesApart ==
  \A a, b \in Live(m) : a # b =>
    Span(a, m.surf[a].width) \cap Span(b, m.surf[b].width) = {}

(* The assertions of pgraph_vk_surface_update outside a draw's beginning: the
   color and the zeta surface that are bound have the same dimensions, and a
   drawn target that has lost its surface is given one without evicting the
   other. *)
UpdateAssertions ==
  /\ m.bound["color"] # Unbound /\ m.bound["zeta"] # Unbound
       => m.surf[m.bound["color"]].width = m.surf[m.bound["zeta"]].width
  /\ fifoPc = "methods" =>
       \A x \in {UpdatePartAfter(m, "color")} :
         /\ Straggles(m, "color") => EvictsUnbound(m, "color")
         /\ Straggles(x, "zeta") => EvictsUnbound(x, "zeta")

(* A CPU access is made in the end, also one that has to wait for a download:
   the request is never lost and the event never missed. *)
AccessesFinish == (cpu # None) ~> (cpu = None \/ fifoPc = "aborted")

=============================================================================
