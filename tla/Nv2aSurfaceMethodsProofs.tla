----------------------- MODULE Nv2aSurfaceMethodsProofs -----------------------
(* The methods of pgraph keep the invariant of the surface cache, and each is a
   step of the coherent memory: SET_SURFACE, the begin and the end of a draw, a
   texture, a blit and a flip. *)
EXTENDS Nv2aSurfaceOpsProofs

(* A surface lies within the largest there may be at its address. *)
LEMMA SpanWithin ==
  ASSUME NEW x \in Cache, NEW a \in Addrs
  PROVE  Span(a, x.surf[a].width) \subseteq Span(a, MaxWidth)
<1>1. a \in Nat /\ x.surf[a].width \in 0..MaxWidth
  BY AddrsAreNat DEF Cache, Surface
<1> QED
  BY <1>1, WidthAssumption DEF Span

(* Images stay right when no surface is drawn to, and none is freed of an upload. *)
LEMMA SameImages ==
  ASSUME NEW x, NEW y, Images(x), y.vram = x.vram,
         \A a \in Addrs :
           /\ y.surf[a].live = x.surf[a].live /\ y.surf[a].width = x.surf[a].width
           /\ y.surf[a].drawDirty = x.surf[a].drawDirty
           /\ y.surf[a].download = x.surf[a].download
           /\ y.surf[a].upload = x.surf[a].upload /\ y.surf[a].img = x.surf[a].img
  PROVE  Images(y)
<1> SUFFICES ASSUME NEW a \in Addrs, y.surf[a].live
             PROVE  /\ y.surf[a].download => y.surf[a].drawDirty
                    /\ ~y.surf[a].upload /\ ~y.surf[a].drawDirty =>
                         \A c \in Vram : c \in Span(a, y.surf[a].width) =>
                           y.surf[a].img[c] = y.vram[c]
  BY Zenon DEF Images
<1>1. /\ x.surf[a].live /\ y.surf[a].width = x.surf[a].width
      /\ y.surf[a].drawDirty = x.surf[a].drawDirty
      /\ y.surf[a].download = x.surf[a].download
      /\ y.surf[a].upload = x.surf[a].upload /\ y.surf[a].img = x.surf[a].img
  BY Zenon
<1> QED
  BY <1>1, Zenon DEF Images

(* Bindings stay right when bindings, settings and sizes stay. *)
LEMMA SameBindings ==
  ASSUME NEW x \in Cache, NEW y, Bindings(x), Equal(x),
         y.bound = x.bound, y.offset = x.offset, y.last = x.last,
         y.bufferDirty = x.bufferDirty,
         \A a \in Addrs : /\ y.surf[a].live = x.surf[a].live
                          /\ y.surf[a].width = x.surf[a].width
  PROVE  Bindings(y) /\ Equal(y)
<1>1. \A k \in Kinds : x.bound[k] # Unbound =>
        /\ y.surf[x.bound[k]].live = x.surf[x.bound[k]].live
        /\ y.surf[x.bound[k]].width = x.surf[x.bound[k]].width
  <2>1. \A k \in Kinds : x.bound[k] # Unbound => x.bound[k] \in Addrs
    BY CacheParts, Zenon
  <2> QED
    BY <2>1, Zenon
<1>2. Bindings(y)
  <2> SUFFICES ASSUME NEW k \in Kinds, y.bound[k] # Unbound
               PROVE  /\ y.surf[y.bound[k]].live
                      /\ k \notin y.bufferDirty =>
                           /\ y.bound[k] = y.offset[k]
                           /\ y.surf[y.bound[k]].width >= y.last
    BY Zenon DEF Bindings
  <2>1. /\ x.surf[x.bound[k]].live
        /\ k \notin x.bufferDirty =>
             x.bound[k] = x.offset[k] /\ x.surf[x.bound[k]].width >= x.last
    BY Zenon DEF Bindings
  <2> QED
    BY <1>1, <2>1, Zenon
<1>3. Equal(y)
  <2>1. "color" \in Kinds /\ "zeta" \in Kinds
    BY Zenon DEF Kinds
  <2> QED
    BY <1>1, <2>1, Zenon DEF Equal
<1> QED
  BY <1>2, <1>3, Zenon

(* Cleaning surfaces and uploading those the CPU does not write to does not
   disturb an access. *)
LEMMA FlagsAccessing ==
  ASSUME CoherentInv, NEW U, m' \in Cache, Flags(m', m, U), Unwritten(U),
         cpu' = cpu, vcpuPc' = vcpuPc, complete' = complete,
         \A a \in Addrs :
           m'.surf[a].live /\ m'.surf[a].drawDirty /\ Holds(a) /\ fifoPc' \in {"clear", "event"}
             => fifoPc \in {"clear", "event"}
  PROVE  Accessing'
<1>1. m' \in Cache
  OBVIOUS
<1> SUFFICES ASSUME NEW a \in Addrs
             PROVE  /\ vcpuPc \in {"request", "wait"} /\ Holds(a)' =>
                         /\ m'.surf[a].drawDirty => m'.surf[a].download
                         /\ cpu.op = "write" => m'.surf[a].upload
                    /\ vcpuPc = "wait" /\ Holds(a)'
                       /\ (complete \/ fifoPc' \in {"clear", "event"}) =>
                         ~m'.surf[a].drawDirty
                    /\ vcpuPc = "access" /\ Holds(a)' =>
                         ~m'.surf[a].drawDirty /\ (cpu.op = "write" => m'.surf[a].upload)
                    /\ m'.surf[a].live /\ m'.surf[a].drawDirty /\ m'.surf[a].upload =>
                         vcpuPc \in {"request", "wait"} /\ Holds(a)' /\ cpu.op = "write"
  BY DEF Accessing
<1>2. Holds(a)' <=> m'.surf[a].live /\ cpu.cell \in Span(a, m'.surf[a].width)
  BY DEF Holds
<1>3. ASSUME m'.surf[a].live, m'.surf[a].drawDirty
      PROVE  /\ m.surf[a].live /\ m.surf[a].drawDirty
             /\ m'.surf[a].width = m.surf[a].width
             /\ m.surf[a].download => m'.surf[a].download
             /\ m'.surf[a].upload => m.surf[a].upload
  BY <1>3 DEF Flags
<1>4. ASSUME m'.surf[a].live, m'.surf[a].drawDirty
      PROVE  Holds(a)' <=> Holds(a)
  BY <1>2, <1>3, <1>4 DEF Holds
<1>5. ASSUME Holds(a)', cpu.op = "write", cpu # None, ~m'.surf[a].upload
      PROVE  Holds(a) /\ ~m.surf[a].upload
  <2>1. m'.surf[a].live /\ cpu.cell \in Span(a, m'.surf[a].width)
    BY <1>2, <1>5
  <2>2. cpu.cell \in Span(a, MaxWidth)
    BY <1>1, <2>1, SpanWithin
  <2>3. a \notin U
    BY <1>5, <2>2 DEF Unwritten
  <2>4. m.surf[a].live /\ ~m.surf[a].upload /\ m'.surf[a].width = m.surf[a].width
    BY <1>5, <2>1, <2>3 DEF Flags
  <2> QED
    BY <2>1, <2>4 DEF Holds
<1>6. vcpuPc \in {"request", "wait", "access"} => cpu # None
  BY DEF CoherentInv, Requests
<1>7. ASSUME vcpuPc \in {"request", "wait"}, Holds(a)'
      PROVE  /\ m'.surf[a].drawDirty => m'.surf[a].download
             /\ cpu.op = "write" => m'.surf[a].upload
  <2>1. m'.surf[a].drawDirty => m'.surf[a].download
    BY <1>2, <1>3, <1>4, <1>7, Zenon DEF CoherentInv, Accessing
  <2>2. cpu.op = "write" => m'.surf[a].upload
    BY <1>5, <1>6, <1>7, Zenon DEF CoherentInv, Accessing
  <2> QED
    BY <2>1, <2>2
<1>8. ASSUME vcpuPc = "wait", Holds(a)', complete \/ fifoPc' \in {"clear", "event"}
      PROVE  ~m'.surf[a].drawDirty
  BY <1>2, <1>3, <1>4, <1>8, Zenon DEF CoherentInv, Accessing
<1>9. ASSUME vcpuPc = "access", Holds(a)'
      PROVE  ~m'.surf[a].drawDirty /\ (cpu.op = "write" => m'.surf[a].upload)
  <2>1. ~m'.surf[a].drawDirty
    BY <1>2, <1>3, <1>4, <1>9 DEF CoherentInv, Accessing
  <2>2. cpu.op = "write" => m'.surf[a].upload
    BY <1>5, <1>6, <1>9 DEF CoherentInv, Accessing
  <2> QED
    BY <2>1, <2>2
<1>10. ASSUME m'.surf[a].live, m'.surf[a].drawDirty, m'.surf[a].upload
       PROVE  vcpuPc \in {"request", "wait"} /\ Holds(a)' /\ cpu.op = "write"
  BY <1>3, <1>4, <1>10 DEF CoherentInv, Accessing
<1> QED
  BY <1>7, <1>8, <1>9, <1>10

(* Invisible operations do not disturb an access. *)
LEMMA SteadyAccessing ==
  ASSUME CoherentInv, NEW U, Steady(m', m, U), Unwritten(U),
         cpu' = cpu, vcpuPc' = vcpuPc, complete' = complete,
         fifoPc' \in {"clear", "event"} => fifoPc \in {"clear", "event"}
  PROVE  Accessing'
BY FlagsAccessing DEF Steady, Sound

(* The cells with a callback are those of the surfaces. *)
LEMMA QueuedWatching ==
  ASSUME Watching, QueueCallbacks, watched' = watched
  PROVE  Watching'
BY Zenon DEF Watching, QueueCallbacks

(* No callback is queued where no surface comes or goes. *)
LEMMA SameWatching ==
  ASSUME Watching, watched' = watched, work' = work,
         \A a \in Addrs : /\ m'.surf[a].live = m.surf[a].live
                          /\ m'.surf[a].width = m.surf[a].width
  PROVE  Watching'
<1>1. Live(m') = Live(m)
  BY DEF Live
<1>2. WatchedCells(m') = WatchedCells(m)
  <2>1. {Span(a, m'.surf[a].width) : a \in Live(m)} = {Span(a, m.surf[a].width) : a \in Live(m)}
    BY DEF Live
  <2> QED
    BY <1>1, <2>1 DEF WatchedCells
<1> QED
  BY <1>2 DEF Watching

(* A draw is one of the guest's. *)
LEMMA DrawJob ==
  ASSUME job \in Jobs \cup {None}, job.op = "draw"
  PROVE  \E d \in Draws :
           /\ job.color = d.color /\ job.zeta = d.zeta /\ job.width = d.width
           /\ job.writes = d.writes /\ job.value = d.value
           /\ job.cells = UNION {Span(Target(d, k), d.width) : k \in d.writes}
BY DEF Jobs, None

(* A texture job. *)
LEMMA TextureJob ==
  ASSUME job \in Jobs \cup {None}, job.op = "texture"
  PROVE  \E t \in Textures : job.addr = t.addr /\ job.width = t.width
                             /\ job.cells = Span(t.addr, t.width)
BY DEF Jobs, None

(* A blit. *)
LEMMA BlitJob ==
  ASSUME job \in Jobs \cup {None}, job.op = "blit"
  PROVE  \E b \in Blits : /\ job.src = b.src /\ job.dst = b.dst
                          /\ job.from = b.from /\ job.to = b.to
BY DEF Jobs, None

(* The guest does not see the step. *)
Invisible == Contents(m') = Contents(m) /\ out' = out /\ cpu' = cpu /\ job' = job

(* The targets of a draw job. *)
LEMMA DrawAims ==
  ASSUME CoherentInv, job.op = "draw", NEW x, x.offset = Targets(job), x.shape = job.width
  PROVE  Aimed(x) /\ {x.offset[k] : k \in Kinds} = {job.color, job.zeta}
         /\ job.writes \subseteq Kinds /\ job.writes # {} /\ job.value \in Values
<1>1. PICK d \in Draws :
        /\ job.color = d.color /\ job.zeta = d.zeta /\ job.width = d.width
        /\ job.writes = d.writes /\ job.value = d.value
  BY DrawJob DEF CoherentInv
<1>2. Targets(job) = Targets(d)
  BY <1>1 DEF Targets
<1>3. {x.offset[k] : k \in Kinds} = {job.color, job.zeta}
  BY DEF Targets, Kinds
<1>4. d.writes \subseteq Kinds /\ d.writes # {} /\ d.value \in Values
  BY DrawsAssumption
<1> QED
  BY <1>1, <1>2, <1>3, <1>4 DEF Aimed

(* SET_SURFACE_* is invisible: it settles what was drawn before. *)
LEMMA SetSurfaceCoherent ==
  ASSUME CoherentInv, SetSurface
  PROVE  CoherentInv' /\ Invisible
<1> DEFINE offset == [k \in Kinds |-> IF k = "color" THEN job.color ELSE job.zeta]
<1>1. PICK y \in UpdateAfter :
        m' = [y EXCEPT !.offset = offset, !.shape = job.width,
                       !.bufferDirty = y.bufferDirty
                                         \cup {k \in Kinds : offset[k] # y.offset[k]},
                       !.cache = y.cache \cup y.mask, !.mask = job.writes]
  BY Zenon DEF SetSurface
<1>2. /\ job.op = "draw" /\ stage = "set" /\ stage' = "begin" /\ job' = job
      /\ QueueCallbacks /\ out' = out
      /\ UNCHANGED <<pending, complete, watched, fifoPc, vcpuPc, cpu>>
  BY DEF SetSurface, Method, MethodDone
<1>3. /\ Whole(y) /\ Steady(y, m, {}) /\ y.dirty = {}
  BY <1>1, <1>2, UpdateAfterDone DEF CoherentInv, Staged
<1>4. y \in Cache
  BY <1>3 DEF Whole, Sound
<1>5. offset = Targets(job) /\ offset \in [Kinds -> Nat] /\ job.width \in Nat
      /\ job.writes \subseteq Kinds
  <2>1. offset = Targets(job)
    BY DEF Targets
  <2>2. PICK d \in Draws : job.color = d.color /\ job.zeta = d.zeta /\ job.width = d.width
                           /\ job.writes = d.writes
    BY <1>2, DrawJob DEF CoherentInv
  <2>3. d.color \in Nat /\ d.zeta \in Nat /\ d.width \in Nat /\ d.writes \subseteq Kinds
    BY DrawsAssumption, WidthAssumption
  <2> QED
    BY <2>1, <2>2, <2>3
<1> HIDE DEF offset
<1>6. /\ m' \in Cache /\ m'.surf = y.surf /\ m'.vram = y.vram /\ m'.bound = y.bound
      /\ m'.offset = offset /\ m'.shape = job.width /\ m'.last = y.last
      /\ m'.mask = job.writes /\ m'.dirty = y.dirty
      /\ m'.bufferDirty = y.bufferDirty \cup {k \in Kinds : offset[k] # y.offset[k]}
  BY <1>1, <1>4, <1>5, Zenon DEF Cache
<1>7. Steady(m', m, {})
  <2>1. Steady(m', y, {})
    BY <1>3, <1>6, SteadySame DEF Whole
  <2> QED
    BY <1>3, <2>1, SteadyTransitive
<1>8. Whole(m')
  <2>1. Sized(m') /\ Equal(m')
    BY <1>3, <1>6 DEF Whole, Sized, Equal
  <2>2. Bindings(m')
    BY <1>3, <1>6 DEF Whole, Bindings
  <2> QED
    BY <1>7, <2>1, <2>2 DEF Whole, Steady
<1>9. Staged'
  BY <1>2, <1>3, <1>5, <1>6 DEF Staged, Targets
<1>10. Requests' /\ Watching'
  BY <1>2, QueuedWatching DEF CoherentInv, Requests
<1>11. Accessing'
  BY <1>2, <1>7, SteadyAccessing DEF Unwritten
<1>12. Invisible
  BY <1>2, <1>7 DEF Invisible, Steady
<1> QED
  BY <1>2, <1>8, <1>9, <1>10, <1>11, <1>12 DEF CoherentInv

(* pgraph_vk_draw_begin is invisible, whether an assertion fails or not. *)
LEMMA DrawBeginCoherent ==
  ASSUME CoherentInv, DrawBegin
  PROVE  CoherentInv' /\ Invisible
<1> DEFINE U == {m.offset[k] : k \in Kinds}
<1>1. PICK x, y, z :
        /\ x = UnbindDirty(ShapeChange(m), "color")
        /\ y = UnbindDirty(UpdatePart(x, "color"), "zeta")
        /\ z = UpdatePart(y, "zeta")
        /\ \/ /\ PartAllowed(x, "color") /\ PartAllowed(y, "zeta")
              /\ m' = UploadBound(z)
              /\ MethodDone("end") /\ UNCHANGED out
           \/ /\ fifoPc' = "aborted"
              /\ UNCHANGED <<m, pending, complete, watched, work, stage, job,
                             vcpuPc, cpu, out, uiPc, left>>
  BY DEF DrawBegin
<1>2. job.op = "draw" /\ stage = "begin" /\ fifoPc = "methods"
  BY DEF DrawBegin, Method
<1>3. m.offset = Targets(job) /\ m.shape = job.width /\ m.mask = job.writes /\ m.dirty = {}
  BY <1>2 DEF CoherentInv, Staged
<1>4. Aimed(m) /\ U = {job.color, job.zeta} /\ job.color \in Addrs /\ job.zeta \in Addrs
  <2>1. Aimed(m) /\ U = {job.color, job.zeta}
    BY <1>2, <1>3, DrawAims
  <2>2. m.offset \in [Kinds -> Addrs]
    BY <2>1, AimedTargets
  <2>3. U \subseteq Addrs
    BY <2>2
  <2> QED
    BY <2>1, <2>3
<1>5. Touched(job) = Span(job.color, MaxWidth) \cup Span(job.zeta, MaxWidth)
  BY <1>2 DEF Touched
<1>6. \A a \in U : a \in Addrs /\ (cpu # None => cpu.cell \notin Span(a, MaxWidth))
  BY <1>4, <1>5 DEF CoherentInv, Requests
<1>7. CASE /\ PartAllowed(x, "color") /\ PartAllowed(y, "zeta")
           /\ m' = UploadBound(z)
           /\ MethodDone("end") /\ UNCHANGED out
  <2>1. \A a \in U : m.surf[a].live /\ m.surf[a].upload => ~m.surf[a].drawDirty
    <3> SUFFICES ASSUME NEW a \in U, m.surf[a].live, m.surf[a].upload, m.surf[a].drawDirty
                 PROVE  FALSE
      OBVIOUS
    <3>1. a \in Addrs /\ (cpu # None => cpu.cell \notin Span(a, MaxWidth))
      BY <1>6
    <3>2. Holds(a) /\ cpu # None
      BY <3>1 DEF CoherentInv, Accessing, Requests
    <3>3. cpu.cell \in Span(a, MaxWidth)
      BY <3>1, <3>2, SpanWithin DEF Holds, CoherentInv, Whole, Sound
    <3> QED
      BY <3>1, <3>2, <3>3
  <2>2. Ready(m', m) /\ Steady(m', m, U)
    <3>1. Whole(m)
      BY DEF CoherentInv
    <3> HIDE DEF U
    <3>2. Ready(UploadBound(z), m) /\ Steady(UploadBound(z), m, U)
      BY <1>1, <1>4, <1>7, <2>1, <3>1, UpdateBeforeDraw, Zenon DEF U
    <3> QED
      BY <1>7, <3>2
  <2>3. /\ stage' = "end" /\ job' = job /\ out' = out /\ QueueCallbacks
        /\ UNCHANGED <<pending, complete, watched, fifoPc, vcpuPc, cpu>>
    BY <1>7 DEF MethodDone
  <2>4. Staged'
    <3>1. /\ m'.offset = m.offset /\ m'.shape = m.shape /\ m'.last = m.shape
          /\ m'.dirty = m.dirty /\ m'.mask = m.mask
      BY <2>2 DEF Ready
    <3>2. Prepared'
      BY <2>2, <3>1 DEF Ready, Prepared
    <3>3. m'.last <= m'.shape
      BY <1>4, <3>1, AimedTargets, WidthAssumption
    <3>4. Targets(job') = Targets(job)
      BY <2>3
    <3> QED
      BY <1>2, <1>3, <2>3, <3>1, <3>2, <3>3, <3>4 DEF Staged
  <2>5. Requests' /\ Watching'
    BY <2>3, QueuedWatching DEF CoherentInv, Requests
  <2>6. Accessing'
    <3>1. Unwritten(U)
      BY <1>6 DEF Unwritten
    <3> HIDE DEF U
    <3> QED
      BY <2>2, <2>3, <3>1, SteadyAccessing
  <2>7. Invisible /\ Whole(m')
    BY <2>2, <2>3 DEF Invisible, Steady, Ready
  <2> QED
    BY <2>3, <2>4, <2>5, <2>6, <2>7 DEF CoherentInv
<1>8. CASE /\ fifoPc' = "aborted"
           /\ UNCHANGED <<m, pending, complete, watched, work, stage, job,
                          vcpuPc, cpu, out, uiPc, left>>
  <2>1. m' = m /\ cpu' = cpu /\ job' = job /\ vcpuPc' = vcpuPc /\ out' = out /\ stage' = stage
        /\ pending' = pending /\ complete' = complete /\ watched' = watched /\ work' = work
    BY <1>8
  <2>2. Whole(m') /\ Staged' /\ Watching'
    BY <2>1 DEF CoherentInv, Staged, Prepared, Watching
  <2>3. Requests' /\ Accessing'
    BY <1>8, <2>1 DEF CoherentInv, Requests, Accessing, Holds
  <2> QED
    BY <2>1, <2>2, <2>3 DEF CoherentInv, Invisible
<1> QED
  BY <1>1, <1>7, <1>8

(* An image that is not stale has the contents of its cells. *)
LEMMA FreshImage ==
  ASSUME NEW x, Sound(x), NEW a \in Addrs, x.surf[a].live, ~x.surf[a].upload,
         NEW c \in Vram, c \in Span(a, x.surf[a].width)
  PROVE  Contents(x)[c] = x.surf[a].img[c]
<1>0. x \in Cache /\ Apart(x) /\ Images(x)
  BY DEF Sound
<1>1. CASE x.surf[a].drawDirty
  <2>1. Shows(x, a, c)
    BY <1>1 DEF Shows
  <2> QED
    BY <1>0, <2>1, ContentsAt
<1>2. CASE ~x.surf[a].drawDirty
  <2>1. x.surf[a].img[c] = x.vram[c]
    BY <1>0, <1>2 DEF Images
  <2>2. \A b \in Addrs : ~Shows(x, b, c)
    BY <1>0, <1>2 DEF Shows, Apart
  <2> QED
    BY <1>0, <2>1, <2>2, ContentsAt
<1> QED
  BY <1>1, <1>2

(* The surfaces a draw paints. *)
PaintedAt == {m.bound[k] : k \in m.mask} \ {Unbound}

(* A painted surface is dirty and has the value of the draw in the cells of its
   target; nothing else of it changes, and no other surface does. *)
LEMMA DrawEndFields ==
  ASSUME m \in Cache, job.value \in Values, DrawEnd
  PROVE  /\ m' \in Cache /\ m'.vram = m.vram /\ m'.bound = m.bound
         /\ m'.offset = m.offset /\ m'.shape = m.shape /\ m'.last = m.last
         /\ m'.bufferDirty = m.bufferDirty /\ m'.cache = m.cache /\ m'.mask = m.mask
         /\ m'.dirty = m.dirty \cup m.mask
         /\ \A a \in Addrs :
              /\ m'.surf[a].live = m.surf[a].live /\ m'.surf[a].width = m.surf[a].width
              /\ m'.surf[a].download = m.surf[a].download
              /\ m'.surf[a].upload = m.surf[a].upload
              /\ a \in PaintedAt => m'.surf[a].drawDirty
              /\ a \notin PaintedAt => m'.surf[a].drawDirty = m.surf[a].drawDirty
              /\ \A c \in Vram :
                   m'.surf[a].img[c] = IF a \in PaintedAt /\ c \in Span(a, m.shape)
                                         THEN job.value ELSE m.surf[a].img[c]
<1> DEFINE y == Touch(m, BoundAt(m))
           surf == [a \in Addrs |-> IF a \in PaintedAt THEN Painted(y.surf[a], a)
                                                       ELSE y.surf[a]]
<1>1. m' = [y EXCEPT !.surf = surf, !.dirty = m.dirty \cup m.mask]
  BY DEF DrawEnd, PaintedAt
<1>2. /\ y \in Cache /\ y.vram = m.vram /\ y.bound = m.bound
      /\ y.offset = m.offset /\ y.shape = m.shape /\ y.last = m.last
      /\ y.bufferDirty = m.bufferDirty /\ y.cache = m.cache /\ y.mask = m.mask
  <2>1. y \in Cache
    BY TouchKeeps DEF Keeps
  <2> QED
    BY <2>1 DEF Touch, Cache
<1>3. \A a \in Addrs :
        /\ y.surf[a] \in Surface
        /\ y.surf[a].live = m.surf[a].live /\ y.surf[a].width = m.surf[a].width
        /\ y.surf[a].download = m.surf[a].download
        /\ y.surf[a].upload = m.surf[a].upload
        /\ y.surf[a].drawDirty = m.surf[a].drawDirty /\ y.surf[a].img = m.surf[a].img
  <2>1. \A a \in Addrs : y.surf[a] \in Surface
    BY <1>2 DEF Cache
  <2> QED
    BY <2>1, TouchFields
<1> HIDE DEF y
<1>4. \A a \in Addrs :
        /\ Painted(y.surf[a], a) \in Surface
        /\ Painted(y.surf[a], a).live = y.surf[a].live
        /\ Painted(y.surf[a], a).width = y.surf[a].width
        /\ Painted(y.surf[a], a).download = y.surf[a].download
        /\ Painted(y.surf[a], a).upload = y.surf[a].upload
        /\ Painted(y.surf[a], a).drawDirty
        /\ \A c \in Vram : Painted(y.surf[a], a).img[c] =
             IF c \in Span(a, m.shape) THEN job.value ELSE y.surf[a].img[c]
  <2> TAKE a \in Addrs
  <2> DEFINE t == y.surf[a]
             i == [c \in Vram |-> IF c \in Span(a, m.shape) THEN job.value ELSE t.img[c]]
  <2>1. t \in Surface
    BY <1>3
  <2> HIDE DEF t
  <2>2. i \in [Vram -> Values]
    BY <2>1 DEF Surface
  <2>3. Painted(t, a) = [t EXCEPT !.drawDirty = TRUE, !.age = 0, !.img = i]
    BY DEF Painted
  <2>4. \A c \in Vram : i[c] = IF c \in Span(a, m.shape) THEN job.value ELSE t.img[c]
    OBVIOUS
  <2> HIDE DEF i
  <2>5. Painted(t, a) \in Surface
    BY <2>1, <2>2, <2>3, PaintedType, Zenon
  <2>6. /\ Painted(t, a).live = t.live /\ Painted(t, a).width = t.width
        /\ Painted(t, a).download = t.download /\ Painted(t, a).upload = t.upload
        /\ Painted(t, a).drawDirty /\ Painted(t, a).img = i
    BY <2>1, <2>3 DEF Surface
  <2> QED
    BY <2>4, <2>5, <2>6 DEF t
<1>5. surf \in [Addrs -> Surface]
  BY <1>3, <1>4
<1>6. \A a \in Addrs :
        /\ a \in PaintedAt => surf[a] = Painted(y.surf[a], a)
        /\ a \notin PaintedAt => surf[a] = y.surf[a]
  OBVIOUS
<1> HIDE DEF surf
<1>7. m.dirty \cup m.mask \in SUBSET Kinds
  BY DEF Cache
<1>8. /\ m' \in Cache /\ m'.vram = y.vram /\ m'.bound = y.bound /\ m'.surf = surf
      /\ m'.offset = y.offset /\ m'.shape = y.shape /\ m'.last = y.last
      /\ m'.bufferDirty = y.bufferDirty /\ m'.cache = y.cache /\ m'.mask = y.mask
      /\ m'.dirty = m.dirty \cup m.mask
  BY <1>1, <1>2, <1>5, <1>7, Zenon DEF Cache
<1>9. ASSUME NEW a \in Addrs
      PROVE  /\ surf[a].live = m.surf[a].live /\ surf[a].width = m.surf[a].width
             /\ surf[a].download = m.surf[a].download
             /\ surf[a].upload = m.surf[a].upload
             /\ a \in PaintedAt => surf[a].drawDirty
             /\ a \notin PaintedAt => surf[a].drawDirty = m.surf[a].drawDirty
             /\ \A c \in Vram : surf[a].img[c] =
                  IF a \in PaintedAt /\ c \in Span(a, m.shape)
                    THEN job.value ELSE m.surf[a].img[c]
  <2>1. CASE a \in PaintedAt
    BY <1>3, <1>4, <1>6, <2>1
  <2>2. CASE a \notin PaintedAt
    BY <1>3, <1>6, <2>2
  <2> QED
    BY <2>1, <2>2
<1> QED
  BY <1>2, <1>8, <1>9

(* The draw fills its targets. *)
LEMMA DrawEndFills ==
  ASSUME CoherentInv, DrawEnd, Prepared
  PROVE  Contents(m') = [c \in Vram |-> IF c \in job.cells THEN job.value ELSE Contents(m)[c]]
<1>1. job.op = "draw" /\ stage = "end" /\ fifoPc = "methods"
  BY DEF DrawEnd, Method
<1>2. m.offset = Targets(job) /\ m.shape = job.width /\ m.mask = job.writes
  BY <1>1 DEF CoherentInv, Staged
<1>3. Aimed(m) /\ job.writes \subseteq Kinds /\ job.value \in Values
  BY <1>1, <1>2, DrawAims
<1>4. m \in Cache /\ Apart(m) /\ Images(m) /\ Bindings(m)
  BY DEF CoherentInv, Whole, Sound
<1>5. m.offset \in [Kinds -> Addrs] /\ m.shape \in 1..MaxWidth
  BY <1>3, AimedTargets
<1>6. PaintedAt = {m.offset[k] : k \in m.mask}
  <2>1. \A k \in m.mask : m.bound[k] = m.offset[k] /\ m.offset[k] \in Addrs
    BY <1>2, <1>3, <1>5 DEF Prepared
  <2> QED
    BY <2>1, AddrsAreNat DEF PaintedAt
<1>7. \A a \in PaintedAt : /\ a \in Addrs /\ m.surf[a].live /\ ~m.surf[a].upload
                           /\ m.surf[a].width >= m.shape
  <2> SUFFICES ASSUME NEW k \in m.mask
               PROVE  /\ m.offset[k] \in Addrs /\ m.surf[m.offset[k]].live
                      /\ ~m.surf[m.offset[k]].upload
                      /\ m.surf[m.offset[k]].width >= m.shape
    BY <1>6
  <2>1. m.offset[k] \in Addrs /\ k \in Kinds /\ m.bound[k] = m.offset[k]
    BY <1>2, <1>3, <1>5 DEF Prepared
  <2> QED
    BY <1>4, <2>1, AddrsAreNat DEF Prepared, Bindings
<1>8. job.cells = UNION {Span(a, m.shape) : a \in PaintedAt}
  <2>1. PICK d \in Draws :
          /\ job.color = d.color /\ job.zeta = d.zeta /\ job.width = d.width
          /\ job.writes = d.writes
          /\ job.cells = UNION {Span(Target(d, k), d.width) : k \in d.writes}
    BY <1>1, DrawJob DEF CoherentInv
  <2>2. \A k \in d.writes : Target(d, k) = m.offset[k]
    BY <1>2, <1>3, <2>1 DEF Target, Targets
  <2>3. {Span(Target(d, k), d.width) : k \in d.writes} = {Span(a, m.shape) : a \in PaintedAt}
    BY <1>2, <1>6, <2>1, <2>2
  <2> QED
    BY <2>1, <2>3
<1>9. /\ m' \in Cache /\ m'.vram = m.vram
      /\ \A a \in Addrs :
           /\ m'.surf[a].live = m.surf[a].live /\ m'.surf[a].width = m.surf[a].width
           /\ a \in PaintedAt => m'.surf[a].drawDirty
           /\ a \notin PaintedAt => m'.surf[a].drawDirty = m.surf[a].drawDirty
           /\ \A c \in Vram : m'.surf[a].img[c] =
                IF a \in PaintedAt /\ c \in Span(a, m.shape)
                  THEN job.value ELSE m.surf[a].img[c]
  BY <1>3, <1>4, DrawEndFields
<1>10. Apart(m')
  BY <1>4, <1>9 DEF Apart
<1>11. ASSUME NEW c \in Vram
       PROVE  Contents(m')[c] = IF c \in job.cells THEN job.value ELSE Contents(m)[c]
  <2>1. CASE \E a \in PaintedAt : c \in Span(a, m.surf[a].width)
    <3>1. PICK a \in PaintedAt : c \in Span(a, m.surf[a].width)
      BY <2>1
    <3>2. a \in Addrs /\ m.surf[a].live /\ ~m.surf[a].upload /\ m.surf[a].width >= m.shape
      BY <1>7
    <3>3. Shows(m', a, c)
      BY <1>9, <3>1, <3>2 DEF Shows
    <3>4. Contents(m')[c] = m'.surf[a].img[c]
      BY <1>9, <1>10, <3>2, <3>3, ContentsAt
    <3>5. c \in job.cells <=> c \in Span(a, m.shape)
      <4>1. ASSUME NEW b \in PaintedAt, c \in Span(b, m.shape) PROVE b = a
        <5>1. b \in Addrs /\ m.surf[b].live /\ m.surf[b].width >= m.shape
          BY <1>7
        <5>2. c \in Span(b, m.surf[b].width)
          <6>1. b \in Nat /\ m.surf[b].width \in Nat
            BY <1>4, <5>1, AddrsAreNat, WidthAssumption DEF Cache, Surface
          <6> QED
            BY <1>5, <4>1, <5>1, <6>1 DEF Span
        <5> QED
          BY <1>4, <3>1, <3>2, <5>1, <5>2 DEF Apart
      <4> QED
        BY <1>8, <4>1
    <3>6. Contents(m)[c] = m.surf[a].img[c]
      BY <3>1, <3>2, FreshImage DEF CoherentInv, Whole
    <3>7. m'.surf[a].img[c] = IF c \in Span(a, m.shape) THEN job.value ELSE m.surf[a].img[c]
      BY <1>9, <3>2
    <3> QED
      BY <3>4, <3>5, <3>6, <3>7
  <2>2. CASE \A a \in PaintedAt : c \notin Span(a, m.surf[a].width)
    <3>1. c \notin job.cells
      <4>1. ASSUME NEW b \in PaintedAt, c \in Span(b, m.shape) PROVE FALSE
        <5>1. b \in Addrs /\ m.surf[b].width >= m.shape
          BY <1>7
        <5>2. b \in Nat /\ m.surf[b].width \in Nat
          BY <1>4, <5>1, AddrsAreNat, WidthAssumption DEF Cache, Surface
        <5> QED
          BY <1>5, <2>2, <4>1, <5>1, <5>2 DEF Span
      <4> QED
        BY <1>8, <4>1
    <3>2. \A a \in Addrs : /\ Shows(m', a, c) <=> Shows(m, a, c)
                           /\ Shows(m, a, c) => m'.surf[a].img[c] = m.surf[a].img[c]
      BY <1>9, <2>2 DEF Shows
    <3>3. CASE \E a \in Addrs : Shows(m, a, c)
      <4>1. PICK a \in Addrs : Shows(m, a, c)
        BY <3>3
      <4>2. Contents(m)[c] = m.surf[a].img[c]
        BY <1>4, <4>1, ContentsAt, Zenon
      <4>3. Contents(m')[c] = m'.surf[a].img[c]
        BY <1>9, <1>10, <3>2, <4>1, ContentsAt, Zenon
      <4> QED
        BY <3>1, <3>2, <4>1, <4>2, <4>3, Zenon
    <3>4. CASE \A a \in Addrs : ~Shows(m, a, c)
      BY <1>4, <1>9, <1>10, <3>1, <3>2, <3>4, ContentsAt
    <3> QED
      BY <3>3, <3>4
  <2> QED
    BY <2>1, <2>2
<1> QED
  BY <1>11 DEF Contents

(* What the abstract memory does when the GPU completes its job. *)
Completes ==
  /\ \/ /\ job.op = "draw" /\ out' = out
        /\ Contents(m') = [c \in Vram |-> IF c \in job.cells THEN job.value
                                                             ELSE Contents(m)[c]]
     \/ job.op = "draw" /\ Contents(m') = Contents(m) /\ out' = out
     \/ /\ job.op = "texture" /\ Contents(m') = Contents(m)
        /\ out' = [c \in job.cells |-> Contents(m)[c]]
     \/ /\ job.op = "blit" /\ out' = out
        /\ Contents(m') = [c \in Vram |-> IF c \in {job.to} THEN Contents(m)[job.from]
                                                            ELSE Contents(m)[c]]
     \/ job.op = "flip" /\ Contents(m') = Contents(m) /\ out' = out
  /\ job' = None /\ cpu' = cpu

(* The end of a method, for what is known of the other processes. *)
LEMMA MethodEnds ==
  ASSUME CoherentInv, MethodDone("set")
  PROVE  /\ stage' = "set" /\ job' = None /\ Requests' /\ Watching'
         /\ UNCHANGED <<pending, complete, watched, fifoPc, vcpuPc, cpu>>
<1>1. /\ stage' = "set" /\ job' = None /\ QueueCallbacks
      /\ UNCHANGED <<pending, complete, watched, fifoPc, vcpuPc, cpu>>
  BY DEF MethodDone
<1>2. Touched(None) = {}
  BY DEF Touched, None
<1>3. Requests'
  BY <1>1, <1>2 DEF CoherentInv, Requests
<1> QED
  BY <1>1, <1>3, QueuedWatching DEF CoherentInv

(* pgraph_vk_draw_end draws to its targets, or to nothing when all surfaces were
   flushed since pgraph_vk_draw_begin. *)
LEMMA DrawEndCoherent ==
  ASSUME CoherentInv, DrawEnd
  PROVE  CoherentInv' /\ Completes
<1>1. /\ job.op = "draw" /\ stage = "end" /\ fifoPc = "methods" /\ out' = out
      /\ MethodDone("set")
  BY DEF DrawEnd, Method
<1>2. /\ m.offset = Targets(job) /\ m.shape = job.width /\ m.mask = job.writes
      /\ m.dirty = {} /\ m.last <= m.shape
      /\ Prepared \/ \A a \in Addrs : ~m.surf[a].live
  BY <1>1 DEF CoherentInv, Staged
<1>3. /\ Aimed(m) /\ job.writes \subseteq Kinds /\ job.value \in Values
      /\ {m.offset[k] : k \in Kinds} = {job.color, job.zeta}
  BY <1>1, <1>2, DrawAims
<1>4. /\ m \in Cache /\ Apart(m) /\ Images(m) /\ Bindings(m) /\ Sized(m) /\ Equal(m)
  BY DEF CoherentInv, Whole, Sound
<1>5. m.offset \in [Kinds -> Addrs]
  BY <1>3, AimedTargets
<1>6. \A a \in PaintedAt : /\ a \in Addrs /\ m.surf[a].live
                           /\ \E k \in Kinds : a = m.bound[k]
  BY <1>2, <1>3, <1>4 DEF PaintedAt, Cache, Bindings
<1>7. /\ m' \in Cache /\ m'.vram = m.vram /\ m'.bound = m.bound
      /\ m'.offset = m.offset /\ m'.shape = m.shape /\ m'.last = m.last
      /\ m'.bufferDirty = m.bufferDirty /\ m'.cache = m.cache /\ m'.mask = m.mask
      /\ m'.dirty = m.dirty \cup m.mask
      /\ \A a \in Addrs :
           /\ m'.surf[a].live = m.surf[a].live /\ m'.surf[a].width = m.surf[a].width
           /\ m'.surf[a].download = m.surf[a].download
           /\ m'.surf[a].upload = m.surf[a].upload
           /\ a \in PaintedAt => m'.surf[a].drawDirty
           /\ a \notin PaintedAt => m'.surf[a].drawDirty = m.surf[a].drawDirty
           /\ \A c \in Vram : m'.surf[a].img[c] =
                IF a \in PaintedAt /\ c \in Span(a, m.shape)
                  THEN job.value ELSE m.surf[a].img[c]
  BY <1>3, <1>4, DrawEndFields
<1>8. \A a \in PaintedAt : ~m.surf[a].upload /\ a \in {job.color, job.zeta}
  <2> SUFFICES ASSUME NEW k \in m.mask, m.bound[k] # Unbound
               PROVE  ~m.surf[m.bound[k]].upload /\ m.bound[k] \in {job.color, job.zeta}
    BY DEF PaintedAt
  <2>1. k \in Kinds /\ m.surf[m.bound[k]].live /\ m.bound[k] \in Addrs
    BY <1>2, <1>3, <1>4 DEF Bindings, Cache
  <2>2. Prepared
    BY <1>2, <2>1
  <2> QED
    BY <1>3, <2>1, <2>2 DEF Prepared
<1>9. Whole(m')
  <2>1. Apart(m')
    BY <1>4, <1>7 DEF Apart
  <2>2. Images(m')
    <3> SUFFICES ASSUME NEW a \in Addrs, m'.surf[a].live
                 PROVE  /\ m'.surf[a].download => m'.surf[a].drawDirty
                        /\ ~m'.surf[a].upload /\ ~m'.surf[a].drawDirty =>
                             \A c \in Vram : c \in Span(a, m'.surf[a].width) =>
                               m'.surf[a].img[c] = m'.vram[c]
      BY DEF Images
    <3>1. CASE a \in PaintedAt
      BY <1>7, <3>1, Zenon
    <3>2. CASE a \notin PaintedAt
      <4>1. /\ m.surf[a].live /\ m'.surf[a].width = m.surf[a].width /\ m'.vram = m.vram
            /\ m'.surf[a].drawDirty = m.surf[a].drawDirty
            /\ m'.surf[a].download = m.surf[a].download
            /\ m'.surf[a].upload = m.surf[a].upload
            /\ \A c \in Vram : m'.surf[a].img[c] = m.surf[a].img[c]
        BY <1>7, <3>2, Zenon
      <4> QED
        BY <1>4, <4>1, Zenon DEF Images
    <3> QED
      BY <3>1, <3>2, Zenon
  <2>3. \A k \in Kinds : m.bound[k] # Unbound => m.bound[k] \in Addrs
    BY <1>4 DEF Cache
  <2>4. Bindings(m')
    BY <1>4, <1>7, SameBindings, Zenon
  <2>5. Equal(m')
    <3>1. "color" \in Kinds /\ "zeta" \in Kinds
      BY DEF Kinds
    <3>2. m'.bound = m.bound /\ \A a \in Addrs : m'.surf[a].width = m.surf[a].width
      BY <1>7, Zenon
    <3> QED
      BY <1>4, <2>3, <3>1, <3>2, Zenon DEF Equal
  <2>6. Sized(m')
    BY <1>4, <1>7 DEF Sized
  <2> QED
    BY <1>7, <2>1, <2>2, <2>4, <2>5, <2>6 DEF Whole, Sound
<1>10. Drawing(m', "color")
  <2>1. Aimed(m') /\ m'.last <= m'.shape /\ m'.dirty \subseteq m'.mask
    BY <1>2, <1>3, <1>7 DEF Aimed
  <2>2. ASSUME NEW o \in m'.dirty, m'.bound[o] = Unbound
        PROVE  Cleared(m', "color")
    <3>1. o \in m.mask /\ m.bound[o] = Unbound /\ o \in Kinds
      BY <1>2, <1>3, <1>7, <2>2
    <3>2. ~Prepared
      <4>1. m.offset[o] # Unbound
        BY <1>5, <3>1, AddrsAreNat
      <4> QED
        BY <3>1, <4>1 DEF Prepared
    <3> QED
      BY <1>2, <1>7, <3>2 DEF Cleared
  <2> QED
    BY <1>9, <2>1, <2>2 DEF Drawing
<1>11. /\ stage' = "set" /\ job' = None /\ Requests' /\ Watching'
       /\ UNCHANGED <<pending, complete, watched, fifoPc, vcpuPc, cpu>>
  BY <1>1, MethodEnds
<1>12. Accessing'
  <2>1. ASSUME NEW a \in Addrs, a \in PaintedAt PROVE cpu # None => ~Holds(a)
    <3>1. cpu # None => cpu.cell \notin Span(a, MaxWidth)
      BY <1>1, <1>8, <2>1 DEF CoherentInv, Requests, Touched
    <3> QED
      BY <1>4, <3>1, SpanWithin DEF Holds
  <2>2. \A a \in Addrs : Holds(a)' <=> Holds(a)
    BY <1>7, <1>11 DEF Holds
  <2>3. vcpuPc \in {"request", "wait", "access"} => cpu # None
    BY DEF CoherentInv, Requests
  <2> SUFFICES ASSUME NEW a \in Addrs
               PROVE  /\ vcpuPc \in {"request", "wait"} /\ Holds(a) =>
                         /\ m'.surf[a].drawDirty => m'.surf[a].download
                         /\ cpu.op = "write" => m'.surf[a].upload
                      /\ vcpuPc = "wait" /\ Holds(a)
                         /\ (complete \/ fifoPc \in {"clear", "event"}) =>
                         ~m'.surf[a].drawDirty
                      /\ vcpuPc = "access" /\ Holds(a) =>
                         ~m'.surf[a].drawDirty /\ (cpu.op = "write" => m'.surf[a].upload)
                      /\ m'.surf[a].live /\ m'.surf[a].drawDirty /\ m'.surf[a].upload =>
                         vcpuPc \in {"request", "wait"} /\ Holds(a) /\ cpu.op = "write"
    BY <1>11, <2>2 DEF Accessing
  <2>4. CASE a \in PaintedAt
    BY <1>7, <1>8, <2>1, <2>3, <2>4
  <2>5. CASE a \notin PaintedAt
    <3>1. /\ m'.surf[a].live = m.surf[a].live
          /\ m'.surf[a].download = m.surf[a].download
          /\ m'.surf[a].upload = m.surf[a].upload
          /\ m'.surf[a].drawDirty = m.surf[a].drawDirty
      BY <1>7, <2>5
    <3> QED
      BY <3>1 DEF CoherentInv, Accessing
  <2> QED
    BY <2>4, <2>5
<1>13. Completes
  <2>1. CASE Prepared
    BY <1>1, <1>11, <2>1, DrawEndFills DEF Completes
  <2>2. CASE ~Prepared
    <3>1. PaintedAt = {}
      BY <1>2, <1>6, <2>2
    <3>2. \A c \in Vram : \A a \in Addrs : ~Shows(m, a, c) /\ ~Shows(m', a, c)
      BY <1>2, <1>7, <2>2 DEF Shows
    <3>3. Contents(m') = Contents(m)
      <4>1. Apart(m')
        BY <1>9 DEF Whole, Sound
      <4> QED
        BY <1>4, <1>7, <3>2, <4>1, SameContents, Zenon
    <3> QED
      BY <1>1, <1>11, <3>3 DEF Completes
  <2> QED
    BY <2>1, <2>2
<1>14. Staged'
  BY <1>10, <1>11 DEF Staged
<1> QED
  BY <1>9, <1>11, <1>12, <1>13, <1>14 DEF CoherentInv

(* Losing no binding keeps a drawing in order. *)
LEMMA ShedsDrawing ==
  ASSUME NEW x \in Cache, NEW y, NEW k, Sheds(y, x, Kinds), Sound(y), Drawing(x, k)
  PROVE  Drawing(y, k)
<1>1. Whole(y)
  BY ShedsBindings DEF Drawing, Whole
<1>2. y \in Cache /\ Settings(y, x) /\ \A o \in Kinds : y.bound[o] = x.bound[o]
  BY DEF Sheds
<1>3. y.dirty # {} => Aimed(y) /\ y.last <= y.shape
  BY <1>2 DEF Drawing, Settings, Aimed
<1>4. y.dirty \subseteq y.mask /\ y.dirty = x.dirty /\ x.dirty \subseteq Kinds
  BY <1>2 DEF Drawing, Settings, Cache
<1>5. Cleared(x, k) => Cleared(y, k)
  BY <1>2 DEF Cleared, Sheds, Settings, Kinds
<1> QED
  BY <1>1, <1>2, <1>3, <1>4, <1>5, Zenon DEF Drawing

(* A texture shows what was drawn to it last, or what is in memory. *)
LEMMA BindTextureCoherent ==
  ASSUME CoherentInv, BindTexture
  PROVE  CoherentInv' /\ Completes
<1> DEFINE cells == Span(job.addr, job.width)
           s == m.surf[job.addr]
           asSurface == s.live /\ s.kind = "color" /\ s.width = job.width
<1>1. /\ job.op = "texture" /\ stage = "set" /\ MethodDone("set")
      /\ m' = IF asSurface THEN Upload(m, {job.addr})
              ELSE DownloadIfDirty(m, Overlapping(m, cells))
      /\ out' = [c \in cells |-> IF asSurface THEN m'.surf[job.addr].img[c]
                                              ELSE m'.vram[c]]
  BY Zenon DEF BindTexture, Method
<1>2. PICK t \in Textures : /\ job.addr = t.addr /\ job.width = t.width
                            /\ job.cells = Span(t.addr, t.width)
  BY <1>1, TextureJob, Zenon DEF CoherentInv
<1>3. /\ job.addr \in Addrs /\ job.width \in 1..MaxWidth /\ job.cells = cells
      /\ cells \subseteq Vram
  <2>1. t.addr \in Addrs /\ t.width \in 1..MaxWidth
    BY TexturesAssumption
  <2>2. Span(t.addr, t.width) \subseteq Span(t.addr, MaxWidth)
    <3>1. t.addr \in Nat
      BY <2>1, AddrsAreNat, Zenon
    <3> QED
      BY <2>1, <3>1, WidthAssumption DEF Span
  <2>3. Span(t.addr, MaxWidth) \subseteq Vram
    BY <2>1, DrawsAssumption
  <2> QED
    BY <1>2, <2>1, <2>2, <2>3
<1>4. Sound(m) /\ m \in Cache /\ Drawing(m, "color")
  BY <1>1, Zenon DEF CoherentInv, Whole, Sound, Staged
<1>5. cpu # None => cpu.cell \notin Span(job.addr, MaxWidth)
  BY <1>1 DEF CoherentInv, Requests, Touched
<1>6. /\ stage' = "set" /\ job' = None /\ Requests' /\ Watching'
      /\ UNCHANGED <<pending, complete, watched, fifoPc, vcpuPc, cpu>>
  BY <1>1, MethodEnds, Zenon
<1>7. CASE asSurface
  <2>1. ~(m.surf[job.addr].live /\ m.surf[job.addr].upload /\ m.surf[job.addr].drawDirty)
    <3> SUFFICES ASSUME m.surf[job.addr].live, m.surf[job.addr].upload,
                        m.surf[job.addr].drawDirty
                 PROVE  FALSE
      OBVIOUS
    <3>1. Holds(job.addr) /\ cpu # None
      BY <1>3 DEF CoherentInv, Accessing, Requests
    <3> QED
      BY <1>3, <1>4, <1>5, <3>1, SpanWithin DEF Holds
  <2>2. m' = Upload(m, {job.addr})
    BY <1>1, <1>7
  <2>3. /\ Steady(m', m, {job.addr}) /\ ~m'.surf[job.addr].upload
        /\ Sheds(m', m, Kinds) /\ m'.surf[job.addr].live
        /\ m'.surf[job.addr].width = job.width
    <3>1. Steady(m', m, {job.addr}) /\ ~m'.surf[job.addr].upload
      BY <1>3, <1>4, <2>1, <2>2, UploadSteady, Zenon
    <3>2. Sheds(m', m, Kinds) /\ m'.surf[job.addr].live
      BY <1>3, <1>4, <1>7, <2>2, UploadSheds, Zenon
    <3> QED
      BY <1>3, <1>7, <3>1, <3>2, Zenon DEF Sheds
  <2>4. \A c \in cells : m'.surf[job.addr].img[c] = Contents(m)[c]
    <3>1. Sound(m') /\ Contents(m') = Contents(m)
      BY <2>3, Zenon DEF Steady
    <3>2. ASSUME NEW c \in cells PROVE Contents(m')[c] = m'.surf[job.addr].img[c]
      <4>1. c \in Vram /\ c \in Span(job.addr, m'.surf[job.addr].width)
        BY <1>2, <1>3, <2>3
      <4> QED
        BY <1>3, <2>3, <3>1, <4>1, FreshImage, Zenon
    <3> QED
      BY <3>1, <3>2, Zenon
  <2>5. out' = [c \in cells |-> m'.surf[job.addr].img[c]]
    BY <1>1, <1>7
  <2>6. out' = [c \in job.cells |-> Contents(m)[c]]
    BY <1>3, <2>4, <2>5
  <2>7. Completes
    BY <1>1, <1>6, <2>3, <2>6, Zenon DEF Completes, Steady
  <2>8. Drawing(m', "color")
    BY <1>4, <2>3, ShedsDrawing DEF Steady
  <2>9. Accessing'
    <3>1. Unwritten({job.addr})
      BY <1>5 DEF Unwritten
    <3> QED
      BY <1>6, <2>3, <3>1, SteadyAccessing, Zenon
  <2> QED
    BY <1>6, <2>7, <2>8, <2>9, Zenon DEF CoherentInv, Staged, Drawing
<1>8. CASE ~asSurface
  <2>1. m' = DownloadIfDirty(m, Overlapping(m, cells))
    BY <1>1, <1>8, Zenon
  <2>2. /\ Steady(m', m, {}) /\ Sheds(m', m, Kinds)
        /\ \A a \in Overlapping(m, cells) \cap Addrs : m'.surf[a].live => ~m'.surf[a].drawDirty
    BY <1>4, <2>1, DownloadIfDirtySteady, DownloadIfDirtySheds, Zenon
  <2>3. \A c \in cells : \A a \in Addrs : ~Shows(m', a, c)
    <3> SUFFICES ASSUME NEW c \in cells, NEW a \in Addrs, Shows(m', a, c) PROVE FALSE
      OBVIOUS
    <3>1. /\ m'.surf[a].live /\ m'.surf[a].drawDirty /\ c \in Span(a, m'.surf[a].width)
          /\ m.surf[a].live /\ m.surf[a].width = m'.surf[a].width
      BY <2>2, Zenon DEF Shows, Sheds
    <3>2. a \in Overlapping(m, cells)
      BY <3>1 DEF Overlapping, Live
    <3> QED
      BY <2>2, <3>1, <3>2
  <2>4. \A c \in cells : m'.vram[c] = Contents(m)[c]
    BY <1>3, <2>2, <2>3, ContentsAt, Zenon DEF Steady, Sound
  <2>5. out' = [c \in cells |-> m'.vram[c]]
    BY <1>1, <1>8, Zenon
  <2>6. out' = [c \in job.cells |-> Contents(m)[c]]
    BY <1>3, <2>4, <2>5
  <2>7. Completes
    BY <1>1, <1>6, <2>2, <2>6, Zenon DEF Completes, Steady
  <2>8. Drawing(m', "color")
    BY <1>4, <2>2, ShedsDrawing DEF Steady
  <2>9. Accessing'
    BY <1>6, <2>2, SteadyAccessing DEF Unwritten
  <2> QED
    BY <1>6, <2>7, <2>8, <2>9 DEF CoherentInv, Staged, Drawing
<1> QED
  BY <1>7, <1>8

(* A blit in which dst is y.surf[job.dst]: its destination becomes stale. *)
Blitted(y) ==
  LET d == y.surf[job.dst] IN
  [y EXCEPT
    !.surf = [y.surf EXCEPT ![job.dst] =
      IF d.live THEN [d EXCEPT !.drawDirty = FALSE, !.download = FALSE, !.upload = TRUE]
      ELSE d],
    !.vram = [y.vram EXCEPT ![job.to] = y.vram[job.from]]]

(* What a blit changes. *)
LEMMA BlittedFields ==
  ASSUME NEW y \in Cache, job.dst \in Addrs, job.to \in Vram, job.from \in Vram
  PROVE  LET z == Blitted(y) IN
         /\ z \in Cache /\ z.bound = y.bound /\ Settings(z, y)
         /\ z.vram = [y.vram EXCEPT ![job.to] = y.vram[job.from]]
         /\ \A a \in Addrs :
              /\ z.surf[a].live = y.surf[a].live /\ z.surf[a].width = y.surf[a].width
              /\ z.surf[a].img = y.surf[a].img
              /\ a = job.dst /\ y.surf[a].live =>
                   ~z.surf[a].drawDirty /\ ~z.surf[a].download /\ z.surf[a].upload
              /\ a # job.dst => z.surf[a] = y.surf[a]
<1> DEFINE z == Blitted(y)
           d == y.surf[job.dst]
           e == IF d.live THEN [d EXCEPT !.drawDirty = FALSE, !.download = FALSE,
                                         !.upload = TRUE]
                ELSE d
           surf == [y.surf EXCEPT ![job.dst] = e]
           vram == [y.vram EXCEPT ![job.to] = y.vram[job.from]]
<1>1. z = [y EXCEPT !.surf = surf, !.vram = vram]
  BY DEF Blitted
<1>2. vram \in [Vram -> Values]
  BY DEF Cache
<1>3. d \in Surface /\ y.surf \in [Addrs -> Surface]
  BY DEF Cache
<1> HIDE DEF d
<1>4. /\ e \in Surface /\ e.live = d.live /\ e.width = d.width /\ e.img = d.img
      /\ d.live => ~e.drawDirty /\ ~e.download /\ e.upload
  <2>1. CASE d.live
    <3>1. e = [d EXCEPT !.drawDirty = FALSE, !.download = FALSE, !.upload = TRUE]
      BY <2>1
    <3> HIDE DEF e
    <3>2. e \in Surface
      BY <1>3, <3>1, BlittedType, Zenon
    <3> QED
      BY <1>3, <3>1, <3>2 DEF Surface
  <2>2. CASE ~d.live
    BY <1>3, <2>2
  <2> QED
    BY <2>1, <2>2
<1> HIDE DEF e
<1>5. surf \in [Addrs -> Surface] /\ surf[job.dst] = e
      /\ \A a \in Addrs : a # job.dst => surf[a] = y.surf[a]
  BY <1>3, <1>4
<1> HIDE DEF surf
<1>6. z \in Cache /\ z.surf = surf /\ z.bound = y.bound /\ Settings(z, y) /\ z.vram = vram
  BY <1>1, <1>2, <1>5, Zenon DEF Cache, Settings
<1> HIDE DEF z, vram
<1>7. ASSUME NEW a \in Addrs
      PROVE  /\ z.surf[a].live = y.surf[a].live /\ z.surf[a].width = y.surf[a].width
             /\ z.surf[a].img = y.surf[a].img
             /\ a = job.dst /\ y.surf[a].live =>
                  ~z.surf[a].drawDirty /\ ~z.surf[a].download /\ z.surf[a].upload
             /\ a # job.dst => z.surf[a] = y.surf[a]
  <2>1. CASE a = job.dst
    BY <1>4, <1>5, <1>6, <2>1 DEF d
  <2>2. CASE a # job.dst
    BY <1>5, <1>6, <2>2
  <2> QED
    BY <2>1, <2>2
<1> QED
  BY <1>6, <1>7 DEF z, vram

(* The cells of a blit: only the surface at its source lies across the one, and
   only the surface at its destination across the other, which it contains. *)
LEMMA BlitCells ==
  ASSUME CoherentInv, job.op = "blit"
  PROVE  /\ job.src \in Addrs /\ job.dst \in Addrs /\ job.from \in Vram /\ job.to \in Vram
         /\ job.from \in Span(job.src, MaxWidth) /\ job.to \in Span(job.dst, MaxWidth)
         /\ \A a \in Addrs : a # job.src => job.from \notin Span(a, MaxWidth)
         /\ \A a \in Addrs : a # job.dst => job.to \notin Span(a, MaxWidth)
         /\ \A d \in Draws : job.dst \in {d.color, d.zeta} => job.to \in Span(job.dst, d.width)
<1>1. PICK b \in Blits : /\ job.src = b.src /\ job.dst = b.dst
                         /\ job.from = b.from /\ job.to = b.to
  BY BlitJob DEF CoherentInv
<1>2. /\ b.src \in Addrs /\ b.dst \in Addrs
      /\ b.from \in Span(b.src, MaxWidth) /\ b.to \in Span(b.dst, MaxWidth)
      /\ \A o \in Addrs \ {b.src} : Span(o, MaxWidth) \cap Span(b.src, MaxWidth) = {}
      /\ \A o \in Addrs \ {b.dst} : Span(o, MaxWidth) \cap Span(b.dst, MaxWidth) = {}
      /\ \A d \in Draws : b.dst \in {d.color, d.zeta} => b.to \in Span(b.dst, d.width)
  BY BlitsAssumption
<1>3. b.from \in Vram /\ b.to \in Vram
  BY <1>2, DrawsAssumption
<1> QED
  BY <1>1, <1>2, <1>3

(* What a blit finds when it copies: nothing drawn is missing at its source, and
   a drawn destination it has not downloaded is the cell it replaces. *)
LEMMA BlitReady ==
  ASSUME CoherentInv, ImageBlit
  PROVE  \E y : /\ m' = Blitted(y) /\ Whole(y) /\ Steady(y, m, {}) /\ y.dirty = {}
                /\ \A a \in Addrs : ~Shows(y, a, job.from)
                /\ y.surf[job.dst].live /\ y.surf[job.dst].drawDirty
                     => Span(job.dst, y.surf[job.dst].width) = {job.to}
<1> DEFINE before(u) == DownloadIfDirty(u, {job.src})
           after(x) == IF x.surf[job.dst].width > 1 THEN DownloadIfDirty(x, {job.dst}) ELSE x
<1>1. PICK x \in {before(u) : u \in UpdateAfter} : m' = Blitted(after(x))
  BY Zenon DEF ImageBlit, Blitted
<1>2. PICK u \in UpdateAfter : x = before(u)
  BY <1>1, Zenon
<1> DEFINE y == after(x)
<1>3. job.op = "blit" /\ Drawing(m, "color")
  BY DEF ImageBlit, Method, CoherentInv, Staged
<1>4. /\ job.src \in Addrs /\ job.dst \in Addrs
      /\ \A a \in Addrs : a # job.src => job.from \notin Span(a, MaxWidth)
      /\ job.to \in Span(job.dst, MaxWidth)
      /\ \A d \in Draws : job.dst \in {d.color, d.zeta} => job.to \in Span(job.dst, d.width)
  BY <1>3, BlitCells
<1>5. Whole(u) /\ Steady(u, m, {}) /\ u.dirty = {} /\ Sound(u) /\ u \in Cache
  BY <1>3, UpdateAfterDone DEF Whole, Sound
<1>6. /\ Steady(x, u, {}) /\ Sheds(x, u, Kinds) /\ Sound(x) /\ x \in Cache
      /\ x.surf[job.src].live => ~x.surf[job.src].drawDirty
  BY <1>2, <1>4, <1>5, DownloadIfDirtySteady, DownloadIfDirtySheds, Zenon DEF Steady, Sound
<1>7. /\ Steady(y, x, {}) /\ Sheds(y, x, Kinds)
      /\ y.surf[job.dst].live /\ y.surf[job.dst].drawDirty => ~(x.surf[job.dst].width > 1)
  <2>1. CASE x.surf[job.dst].width > 1
    <3>1. y = DownloadIfDirty(x, {job.dst})
      BY <2>1
    <3> HIDE DEF y
    <3> QED
      BY <1>4, <1>6, <3>1, DownloadIfDirtySteady, DownloadIfDirtySheds, Zenon
  <2>2. CASE ~(x.surf[job.dst].width > 1)
    <3>1. y = x
      BY <2>2
    <3>2. Sheds(x, x, Kinds)
      BY <1>6, Zenon DEF Sheds, Settings
    <3> HIDE DEF y
    <3> QED
      BY <1>6, <2>2, <3>1, <3>2, SteadyItself, Zenon
  <2> QED
    BY <2>1, <2>2, Zenon
<1>8. m' = Blitted(y)
  BY <1>1
<1> HIDE DEF y, before, after
<1>9. Whole(x) /\ x.dirty = {}
  BY <1>5, <1>6, ShedsBindings, Zenon DEF Whole, Sheds, Settings
<1>10. Whole(y) /\ y.dirty = {} /\ y \in Cache
  <2>1. Sound(y)
    BY <1>7 DEF Steady
  <2> QED
    BY <1>6, <1>7, <1>9, <2>1, ShedsBindings, Zenon DEF Whole, Sheds, Settings
<1>11. Steady(y, m, {})
  <2>1. Steady(x, m, {})
    BY <1>5, <1>6, SteadyTransitive
  <2> QED
    BY <1>7, <2>1, SteadyTransitive
<1>12. ASSUME NEW a \in Addrs, Shows(y, a, job.from) PROVE FALSE
  <2>1. /\ y.surf[a].live /\ y.surf[a].drawDirty /\ job.from \in Span(a, y.surf[a].width)
    BY <1>12 DEF Shows
  <2>2. job.from \in Span(a, MaxWidth)
    BY <1>10, <2>1, SpanWithin
  <2>3. a = job.src
    BY <1>4, <2>2
  <2> QED
    BY <1>6, <1>7, <2>1, <2>3, Zenon DEF Steady, Flags
<1>13. ASSUME y.surf[job.dst].live, y.surf[job.dst].drawDirty
       PROVE  Span(job.dst, y.surf[job.dst].width) = {job.to}
  <2>1. ~(y.surf[job.dst].width > 1)
    BY <1>4, <1>7, <1>13, Zenon DEF Sheds
  <2>2. PICK d \in Draws : job.dst \in {d.color, d.zeta} /\ d.width <= y.surf[job.dst].width
    BY <1>4, <1>10, <1>13 DEF Whole, Sized
  <2>3. y.surf[job.dst].width \in Nat /\ job.dst \in Nat
    <3>1. y.surf[job.dst].width \in 0..MaxWidth
      BY <1>4, <1>10 DEF Cache, Surface
    <3>2. y.surf[job.dst].width \in Nat
      BY <3>1, WidthAssumption
    <3>3. job.dst \in Nat
      BY <1>4, AddrsAreNat, Zenon
    <3> QED
      BY <3>2, <3>3
  <2>4. d.width \in Nat \ {0}
    BY DrawsAssumption, WidthAssumption
  <2>5. y.surf[job.dst].width = 1 /\ d.width = 1
    BY <2>1, <2>2, <2>3, <2>4
  <2>6. job.to \in Span(job.dst, 1)
    BY <1>4, <2>2, <2>5
  <2> QED
    BY <2>3, <2>5, <2>6 DEF Span
<1> QED
  BY <1>8, <1>10, <1>11, <1>12, <1>13

(* The copy itself changes the cell the blit writes, and no other. *)
LEMMA BlittedContents ==
  ASSUME NEW y, Whole(y), job.dst \in Addrs, job.from \in Vram, job.to \in Vram,
         \A a \in Addrs : a # job.dst => job.to \notin Span(a, MaxWidth),
         \A a \in Addrs : ~Shows(y, a, job.from),
         y.surf[job.dst].live /\ y.surf[job.dst].drawDirty
           => Span(job.dst, y.surf[job.dst].width) = {job.to}
  PROVE  /\ Sound(Blitted(y))
         /\ Contents(Blitted(y)) = [c \in Vram |-> IF c \in {job.to} THEN Contents(y)[job.from]
                                                                     ELSE Contents(y)[c]]
<1> DEFINE z == Blitted(y)
<1>0. y \in Cache /\ Apart(y) /\ Images(y)
  BY Zenon DEF Whole, Sound
<1>1. /\ z \in Cache /\ z.vram = [y.vram EXCEPT ![job.to] = y.vram[job.from]]
      /\ \A a \in Addrs :
           /\ z.surf[a].live = y.surf[a].live /\ z.surf[a].width = y.surf[a].width
           /\ z.surf[a].img = y.surf[a].img
           /\ a = job.dst /\ y.surf[a].live =>
                ~z.surf[a].drawDirty /\ ~z.surf[a].download /\ z.surf[a].upload
           /\ a # job.dst => z.surf[a] = y.surf[a]
  BY <1>0, BlittedFields, Zenon
<1> HIDE DEF z
<1>2. Apart(z)
  BY <1>0, <1>1, Zenon DEF Apart
<1>3. \A a \in Addrs : a # job.dst => job.to \notin Span(a, y.surf[a].width)
  BY <1>0, SpanWithin
<1>4. y.vram \in [Vram -> Values]
  BY <1>0 DEF Cache
<1>v. ASSUME NEW c \in Vram, c # job.to PROVE z.vram[c] = y.vram[c]
  BY <1>1, <1>4, <1>v, Zenon
<1>5. Images(z)
  <2> SUFFICES ASSUME NEW a \in Addrs, z.surf[a].live
               PROVE  /\ z.surf[a].download => z.surf[a].drawDirty
                      /\ ~z.surf[a].upload /\ ~z.surf[a].drawDirty =>
                           \A c \in Vram : c \in Span(a, z.surf[a].width) =>
                             z.surf[a].img[c] = z.vram[c]
    BY DEF Images
  <2>1. CASE a = job.dst
    BY <1>1, <2>1, Zenon
  <2>2. CASE a # job.dst
    <3>1. z.surf[a] = y.surf[a]
      BY <1>1, <2>2, Zenon
    <3>2. \A c \in Vram : c \in Span(a, z.surf[a].width) => z.vram[c] = y.vram[c]
      <4> TAKE c \in Vram
      <4> HAVE c \in Span(a, z.surf[a].width)
      <4>1. c # job.to
        BY <1>3, <2>2, <3>1, Zenon
      <4> QED
        BY <1>v, <4>1, Zenon
    <3> QED
      BY <1>0, <3>1, <3>2, Zenon DEF Images
  <2> QED
    BY <2>1, <2>2, Zenon
<1>6. ASSUME NEW c \in Vram
      PROVE  Contents(z)[c] = IF c \in {job.to} THEN Contents(y)[job.from] ELSE Contents(y)[c]
  <2>1. CASE c = job.to
    <3>1. \A a \in Addrs : ~Shows(z, a, c)
      BY <1>1, <1>3, <2>1 DEF Shows
    <3>2. Contents(z)[c] = z.vram[c]
      BY <1>1, <1>2, <3>1, ContentsAt, Zenon
    <3>3. z.vram[c] = y.vram[job.from]
      BY <1>1, <1>4, <2>1, Zenon
    <3>4. Contents(y)[job.from] = y.vram[job.from]
      BY <1>0, ContentsAt
    <3> QED
      BY <2>1, <3>2, <3>3, <3>4
  <2>2. CASE c # job.to
    <3>1. \A a \in Addrs : /\ Shows(z, a, c) <=> Shows(y, a, c)
                           /\ z.surf[a].img[c] = y.surf[a].img[c]
      <4> TAKE a \in Addrs
      <4>1. CASE a = job.dst
        <5>1. ~Shows(z, a, c) /\ ~Shows(y, a, c)
          BY <1>1, <2>2, <4>1 DEF Shows
        <5> QED
          BY <1>1, <5>1, Zenon
      <4>2. CASE a # job.dst
        BY <1>1, <4>2, Zenon DEF Shows
      <4> QED
        BY <4>1, <4>2
    <3>2. z.vram[c] = y.vram[c]
      BY <1>v, <2>2, Zenon
    <3>3. CASE \E a \in Addrs : Shows(y, a, c)
      <4>1. PICK a \in Addrs : Shows(y, a, c)
        BY <3>3
      <4>2. Contents(y)[c] = y.surf[a].img[c]
        BY <1>0, <4>1, ContentsAt, Zenon
      <4>3. Contents(z)[c] = z.surf[a].img[c]
        <5>1. z \in Cache /\ Shows(z, a, c)
          BY <1>1, <3>1, <4>1, Zenon
        <5> QED
          BY <1>2, <5>1, ContentsAt, Zenon
      <4> QED
        BY <2>2, <3>1, <4>2, <4>3, Zenon
    <3>4. CASE \A a \in Addrs : ~Shows(y, a, c)
      BY <1>0, <1>1, <1>2, <2>2, <3>1, <3>2, <3>4, ContentsAt, Zenon
    <3> QED
      BY <3>3, <3>4
  <2> QED
    BY <2>1, <2>2
<1>7. Contents(z) = [c \in Vram |-> IF c \in {job.to} THEN Contents(y)[job.from]
                                                      ELSE Contents(y)[c]]
  BY <1>6, Zenon DEF Contents
<1> QED
  BY <1>1, <1>2, <1>5, <1>7 DEF Sound, z

(* pgraph_vk_image_blit copies a cell, whatever was drawn to its surfaces. *)
LEMMA ImageBlitCoherent ==
  ASSUME CoherentInv, ImageBlit
  PROVE  CoherentInv' /\ Completes
<1>1. job.op = "blit" /\ MethodDone("set") /\ out' = out
  BY DEF ImageBlit, Method
<1>2. /\ job.src \in Addrs /\ job.dst \in Addrs /\ job.from \in Vram /\ job.to \in Vram
      /\ \A a \in Addrs : a # job.dst => job.to \notin Span(a, MaxWidth)
  BY <1>1, BlitCells
<1>3. PICK y : /\ m' = Blitted(y) /\ Whole(y) /\ Steady(y, m, {}) /\ y.dirty = {}
               /\ \A a \in Addrs : ~Shows(y, a, job.from)
               /\ y.surf[job.dst].live /\ y.surf[job.dst].drawDirty
                    => Span(job.dst, y.surf[job.dst].width) = {job.to}
  BY BlitReady, Zenon
<1>4. y \in Cache
  BY <1>3 DEF Whole, Sound
<1>5. /\ m' \in Cache /\ m'.bound = y.bound /\ Settings(m', y)
      /\ \A a \in Addrs :
           /\ m'.surf[a].live = y.surf[a].live /\ m'.surf[a].width = y.surf[a].width
           /\ a = job.dst /\ y.surf[a].live =>
                ~m'.surf[a].drawDirty /\ ~m'.surf[a].download /\ m'.surf[a].upload
           /\ a # job.dst => m'.surf[a] = y.surf[a]
  BY <1>2, <1>3, <1>4, BlittedFields, Zenon
<1>6. /\ Sound(m')
      /\ Contents(m') = [c \in Vram |-> IF c \in {job.to} THEN Contents(m)[job.from]
                                                          ELSE Contents(m)[c]]
  <2>1. Contents(y) = Contents(m)
    BY <1>3 DEF Steady
  <2> QED
    BY <1>2, <1>3, <2>1, BlittedContents
<1>7. Whole(m')
  <2>1. /\ m'.bound = y.bound /\ m'.offset = y.offset /\ m'.last = y.last
        /\ m'.bufferDirty = y.bufferDirty
        /\ \A a \in Addrs : /\ m'.surf[a].live = y.surf[a].live
                           /\ m'.surf[a].width = y.surf[a].width
    BY <1>5, Zenon DEF Settings
  <2>2. Bindings(y) /\ Equal(y)
    BY <1>3, Zenon DEF Whole
  <2>3. Bindings(m') /\ Equal(m')
    BY <1>4, <2>1, <2>2, SameBindings, Zenon
  <2>4. Sized(m')
    BY <1>3, <1>5, Zenon DEF Whole, Sized
  <2> QED
    BY <1>6, <2>3, <2>4 DEF Whole
<1>8. /\ stage' = "set" /\ job' = None /\ Requests' /\ Watching'
      /\ UNCHANGED <<pending, complete, watched, fifoPc, vcpuPc, cpu>>
  BY <1>1, MethodEnds
<1>9. Staged'
  BY <1>3, <1>5, <1>7, <1>8, Zenon DEF Staged, Drawing, Settings
<1>10. Accessing'
  <2>1. Flags(m', m, {})
    <3> SUFFICES ASSUME NEW a \in Addrs, m'.surf[a].live
                 PROVE  /\ m'.surf[a].drawDirty =>
                             /\ m.surf[a].live /\ m.surf[a].drawDirty
                             /\ m'.surf[a].width = m.surf[a].width
                             /\ m.surf[a].download => m'.surf[a].download
                             /\ m'.surf[a].upload => m.surf[a].upload
                        /\ \/ m'.surf[a].upload
                           \/ m.surf[a].live /\ ~m.surf[a].upload
                              /\ m'.surf[a].width = m.surf[a].width
      BY DEF Flags
    <3>1. CASE a = job.dst
      BY <1>5, <3>1, Zenon
    <3>2. CASE a # job.dst
      BY <1>3, <1>5, <3>2, Zenon DEF Steady, Flags
    <3> QED
      BY <3>1, <3>2
  <2> QED
    <3>1. Unwritten({})
      BY DEF Unwritten
    <3> QED
      BY <1>5, <1>8, <2>1, <3>1, FlagsAccessing
<1>11. Completes
  BY <1>1, <1>6, <1>8 DEF Completes
<1> QED
  BY <1>7, <1>8, <1>9, <1>10, <1>11 DEF CoherentInv

(* FLIP_INCREMENT_WRITE only makes surfaces older. *)
LEMMA FlipIncrementCoherent ==
  ASSUME CoherentInv, FlipIncrement
  PROVE  CoherentInv' /\ Completes
<1> DEFINE age(a) == IF m.surf[a].live /\ m.surf[a].age < MaxAge THEN m.surf[a].age + 1
                     ELSE m.surf[a].age
           surf == [a \in Addrs |-> [m.surf[a] EXCEPT !.age = age(a)]]
<1>0. job.op = "flip" /\ stage = "set" /\ MethodDone("set") /\ out' = out
  BY DEF FlipIncrement, Method
<1>1. m' = [m EXCEPT !.surf = surf]
  BY DEF FlipIncrement
<1>2. m \in Cache /\ Apart(m) /\ Images(m) /\ m.surf \in [Addrs -> Surface]
      /\ Drawing(m, "color")
  BY <1>0, Zenon DEF CoherentInv, Whole, Sound, Cache, Staged
<1>3. \A a \in Addrs : age(a) \in Nat
  BY <1>2 DEF Surface
<1> HIDE DEF age
<1>4. surf \in [Addrs -> Surface]
  BY <1>2, <1>3, AgedType
<1>5. \A a \in Addrs :
        /\ surf[a].live = m.surf[a].live /\ surf[a].width = m.surf[a].width
        /\ surf[a].drawDirty = m.surf[a].drawDirty /\ surf[a].download = m.surf[a].download
        /\ surf[a].upload = m.surf[a].upload /\ surf[a].img = m.surf[a].img
  BY <1>2 DEF Surface
<1> HIDE DEF surf
<1>6. m' \in Cache /\ m'.surf = surf /\ m'.bound = m.bound /\ m'.vram = m.vram /\ Settings(m', m)
  BY <1>1, <1>2, <1>4 DEF Cache, Settings
<1>7. Sheds(m', m, Kinds)
  <2>1. \A k \in Kinds : m.bound[k] # Unbound => m.bound[k] \in Addrs
    BY <1>2 DEF Cache
  <2>2. \A a \in Addrs : /\ m'.surf[a].live = m.surf[a].live
                         /\ m'.surf[a].width = m.surf[a].width
    BY <1>5, <1>6
  <2>3. \A k \in Kinds : m'.bound[k] # Unbound =>
          m'.bound[k] = m.bound[k] /\ (m.surf[m.bound[k]].live => m'.surf[m.bound[k]].live)
    BY <1>6, <2>1, <2>2
  <2> QED
    BY <1>6, <2>2, <2>3 DEF Sheds
<1>8. Steady(m', m, {})
  <2>0. \A a \in Addrs :
          /\ m'.surf[a].live = m.surf[a].live /\ m'.surf[a].width = m.surf[a].width
          /\ m'.surf[a].drawDirty = m.surf[a].drawDirty
          /\ m'.surf[a].download = m.surf[a].download
          /\ m'.surf[a].upload = m.surf[a].upload /\ m'.surf[a].img = m.surf[a].img
    BY <1>5, <1>6
  <2>a. Apart(m')
    BY <1>2, <2>0 DEF Apart
  <2>b. Images(m')
    BY <1>2, <1>6, <2>0, SameImages, Zenon
  <2>1. Apart(m') /\ Images(m')
    BY <2>a, <2>b
  <2>2. \A c \in Vram : \A a \in Addrs : /\ Shows(m', a, c) <=> Shows(m, a, c)
                                         /\ m'.surf[a].img[c] = m.surf[a].img[c]
    BY <1>5, <1>6 DEF Shows
  <2>3. Contents(m') = Contents(m)
    BY <1>2, <1>6, <2>1, <2>2, SameContents, Zenon
  <2>4. Flags(m', m, {})
    BY <1>5, <1>6, Zenon DEF Flags
  <2> QED
    BY <1>6, <2>1, <2>3, <2>4 DEF Steady, Sound
<1>9. /\ stage' = "set" /\ job' = None /\ Requests' /\ Watching'
      /\ UNCHANGED <<pending, complete, watched, fifoPc, vcpuPc, cpu>>
  BY <1>0, MethodEnds
<1>10. Drawing(m', "color")
  BY <1>2, <1>7, <1>8, ShedsDrawing DEF Steady
<1>11. Accessing'
  BY <1>8, <1>9, SteadyAccessing DEF Unwritten
<1>12. Completes
  BY <1>0, <1>8, <1>9 DEF Completes, Steady
<1> QED
  BY <1>9, <1>10, <1>11, <1>12, Zenon DEF CoherentInv, Staged, Drawing

===============================================================================
