-------------------------- MODULE Nv2aSurfacesProofs --------------------------
(* The requests the FIFO thread serves and the steps of the vCPU and of the
   presenter keep the invariant too: the surface cache implements one coherent
   memory, for any memory, targets, textures, blits and bounds. *)
EXTENDS Nv2aSurfaceMethodsProofs

(* Between the methods of a draw, requests may clean and upload surfaces, but
   keep those that are bound. *)
LEMMA ShedsStaged ==
  ASSUME CoherentInv, Sheds(m', m, Kinds), Sound(m'), stage' = stage, job' = job,
         stage = "end" => \A k \in m.mask :
           m'.surf[m.offset[k]].upload => m.surf[m.offset[k]].upload
  PROVE  Whole(m') /\ Staged'
<1>0. m \in Cache /\ Whole(m) /\ Bindings(m)
  BY Zenon DEF CoherentInv, Whole, Sound
<1>1. Whole(m')
  BY <1>0, ShedsBindings, Zenon DEF Whole
<1>2. /\ m' \in Cache /\ m'.offset = m.offset /\ m'.shape = m.shape /\ m'.last = m.last
      /\ m'.dirty = m.dirty /\ m'.mask = m.mask
  BY Zenon DEF Sheds, Settings
<1>3. stage = "set" => Drawing(m', "color")
  BY <1>0, ShedsDrawing, Zenon DEF CoherentInv, Staged
<1>4. ASSUME stage = "end", Prepared PROVE Prepared'
  <2> SUFFICES ASSUME NEW k \in m.mask
               PROVE  /\ m'.bound[k] = m.offset[k] /\ ~m'.surf[m.offset[k]].upload
                      /\ m'.surf[m.offset[k]].width >= m.shape
    BY <1>2 DEF Prepared
  <2>1. Aimed(m) /\ m.mask \subseteq Kinds
    BY <1>4, DrawAims, Zenon DEF CoherentInv, Staged
  <2>2. m.offset[k] \in Addrs /\ k \in Kinds /\ m.bound[k] = m.offset[k]
        /\ ~m.surf[m.offset[k]].upload /\ m.surf[m.offset[k]].width >= m.shape
    BY <1>4, <2>1, AimedTargets, Zenon DEF Prepared
  <2>3. m.surf[m.offset[k]].live
    BY <1>0, <2>2, AddrsAreNat, Zenon DEF Bindings
  <2>4. m'.bound[k] = m.offset[k] /\ m'.surf[m.offset[k]].live
    <3>1. m'.bound[k] = m.bound[k]
      BY <2>2, Zenon DEF Sheds
    <3>2. m'.bound[k] # Unbound /\ m.surf[m.bound[k]].live
      BY <2>2, <2>3, <3>1, AddrsAreNat, Zenon
    <3>3. m'.surf[m.bound[k]].live
      BY <2>2, <3>2, Zenon DEF Sheds
    <3> QED
      BY <2>2, <3>1, <3>3, Zenon
  <2>5. m'.surf[m.offset[k]].width = m.surf[m.offset[k]].width
    BY <2>2, <2>4, Zenon DEF Sheds
  <2> QED
    BY <1>4, <2>2, <2>4, <2>5, Zenon
<1>5. (\A a \in Addrs : ~m.surf[a].live) => \A a \in Addrs : ~m'.surf[a].live
  BY Zenon DEF Sheds
<1>6. Targets(job') = Targets(job)
  BY Zenon
<1>7. Staged'
  BY <1>2, <1>3, <1>4, <1>5, <1>6, Zenon DEF CoherentInv, Staged
<1> QED
  BY <1>1, <1>7

(* The downloads that were asked for are invisible; when they are done, what was
   drawn to the cell the CPU waits for is in memory. *)
LEMMA ServeDownloadsCoherent ==
  ASSUME CoherentInv, ServeDownloads
  PROVE  CoherentInv' /\ Invisible
<1> DEFINE S == {a \in Live(m) : m.surf[a].download}
<1>1. /\ fifoPc = "downloads" /\ fifoPc' = "clear" /\ m' = Download(m, S)
      /\ UNCHANGED <<pending, complete, watched, work, stage, job, vcpuPc, cpu, out>>
  BY DEF ServeDownloads, Serving
<1>2. m \in Cache /\ Sound(m) /\ Images(m)
  BY DEF CoherentInv, Whole, Sound
<1>3. S \in SUBSET DrawDirty(m) /\ S \in SUBSET Addrs
  BY <1>2 DEF Images, DrawDirty, Live
<1>4. \A a \in Addrs : a \in S <=> m.surf[a].live /\ m.surf[a].download
  BY DEF Live
<1> HIDE DEF S
<1>5. /\ Steady(m', m, {}) /\ \A a \in S : ~m'.surf[a].drawDirty
      /\ Sheds(m', m, Kinds)
      /\ \A a \in Addrs \ S : m'.surf[a] = m.surf[a]
      /\ \A a \in Addrs : m'.surf[a].live = m.surf[a].live
  BY <1>1, <1>2, <1>3, DownloadSteady, DownloadSheds, Zenon
<1>6. \A a \in Addrs : m'.surf[a].upload = m.surf[a].upload
                       /\ m'.surf[a].width = m.surf[a].width
  <2> TAKE a \in Addrs
  <2>1. CASE a \in S
    <3>1. m'.surf[a] = [m.surf[a] EXCEPT !.drawDirty = FALSE, !.download = FALSE]
      BY <1>1, <1>2, <2>1 DEF Download, Cache
    <3>2. m.surf[a] \in Surface
      BY <1>2 DEF Cache
    <3> QED
      BY <3>1, <3>2 DEF Surface
  <2>2. CASE a \notin S
    BY <1>5, <2>2, Zenon
  <2> QED
    BY <2>1, <2>2
<1>7. Whole(m') /\ Staged'
  <2>1. \A k \in m.mask : stage = "end" => m.offset[k] \in Addrs
    <3>1. ASSUME stage = "end" PROVE m.offset \in [Kinds -> Addrs]
      BY <3>1, DrawAims, AimedTargets, Zenon DEF CoherentInv, Staged
    <3> QED
      BY <1>2, <3>1 DEF Cache
  <2> QED
    BY <1>1, <1>5, <1>6, <2>1, ShedsStaged, Zenon DEF Steady
<1>8. Requests'
  BY <1>1 DEF CoherentInv, Requests
<1>9. Watching'
  BY <1>1, <1>5, <1>6, SameWatching, Zenon DEF CoherentInv
<1>10. Accessing'
  <2>1. ASSUME NEW a \in Addrs, m'.surf[a].live, m'.surf[a].drawDirty, Holds(a)
        PROVE  FALSE
    <3>1. m.surf[a].live /\ m.surf[a].drawDirty
      BY <1>5, <2>1 DEF Steady, Flags
    <3>2. m.surf[a].download
      BY <1>1, <2>1, <3>1, Zenon DEF CoherentInv, Requests, Accessing
    <3> QED
      BY <1>4, <1>5, <2>1, <3>1, <3>2, Zenon
  <2>2. m' \in Cache /\ Flags(m', m, {}) /\ Unwritten({})
    BY <1>5 DEF Steady, Sound, Unwritten
  <2> QED
    BY <1>1, <2>1, <2>2, FlagsAccessing
<1>11. Invisible
  BY <1>1, <1>5 DEF Invisible, Steady
<1> QED
  BY <1>1, <1>7, <1>8, <1>9, <1>10, <1>11 DEF CoherentInv

(* pgraph_vk_surface_flush leaves no surface, and the registers of the targets. *)
LEMMA FlushFacts ==
  ASSUME NEW x \in Cache
  PROVE  LET z == Flush(x) IN
         /\ z \in Cache /\ z.offset = x.offset /\ z.shape = x.shape /\ z.mask = x.mask
         /\ z.dirty = {} /\ z.last = 0
         /\ \A a \in Addrs : ~z.surf[a].live
         /\ \A k \in Kinds : z.bound[k] = Unbound
<1> DEFINE y == Unbind(x, Kinds)
           e == Evict(y, Live(y))
           z == Flush(x)
<1>1. /\ y \in Cache /\ Settings(y, x) /\ \A k \in Kinds : y.bound[k] = Unbound
  BY UnbindSheds DEF Sheds
<1> HIDE DEF y
<1>2. /\ e \in Cache /\ Settings(e, y) /\ \A k \in Kinds : e.bound[k] = Unbound
      /\ \A a \in Addrs \ Live(y) : e.surf[a] = y.surf[a]
      /\ \A a \in Live(y) \cap Addrs : ~e.surf[a].live
  BY <1>1, EvictSheds DEF Sheds
<1>3. \A a \in Addrs : ~e.surf[a].live
  BY <1>2, Zenon DEF Live
<1>4. z = [e EXCEPT !.dirty = {}, !.last = 0]
  BY DEF Flush, y
<1> HIDE DEF e, z
<1>5. /\ z \in Cache /\ z.offset = e.offset /\ z.shape = e.shape /\ z.mask = e.mask
      /\ z.dirty = {} /\ z.last = 0 /\ z.surf = e.surf /\ z.bound = e.bound
  BY <1>2, <1>4, Zenon DEF Cache
<1> QED
  BY <1>1, <1>2, <1>3, <1>5, Zenon DEF Settings, z

(* After a flush the methods of a draw go on, without surfaces. *)
LEMMA FlushStaged ==
  ASSUME CoherentInv, NEW x, Sound(x), m' = Flush(x),
         x.offset = m.offset, x.shape = m.shape, x.mask = m.mask,
         stage' = stage, job' = job
  PROVE  Whole(m') /\ Staged'
<1>1. x \in Cache
  BY DEF Sound
<1>2. /\ m' \in Cache /\ m'.offset = m.offset /\ m'.shape = m.shape /\ m'.mask = m.mask
      /\ m'.dirty = {} /\ m'.last = 0
      /\ \A a \in Addrs : ~m'.surf[a].live
      /\ \A k \in Kinds : m'.bound[k] = Unbound
  BY <1>1, FlushFacts
<1>3. Sound(m')
  BY FlushSteady DEF Steady
<1>4. Sized(m') /\ Bindings(m') /\ Equal(m')
  BY <1>2, Zenon DEF Sized, Bindings, Equal, Kinds
<1>5. Drawing(m', "color") /\ Whole(m')
  BY <1>2, <1>3, <1>4 DEF Drawing, Whole
<1>6. m'.last <= m'.shape
  BY <1>2 DEF Cache
<1>7. Targets(job') = Targets(job)
  OBVIOUS
<1>8. Staged'
  BY <1>2, <1>5, <1>6, <1>7, Zenon DEF Staged, CoherentInv
<1> QED
  BY <1>5, <1>8

(* The CPU writes to no surface that may be displayed. *)
LEMMA DisplayedUnwritten ==
  ASSUME CoherentInv, NEW x \in Cache
  PROVE  /\ Unwritten(Displayed(x)) /\ Displayed(x) \subseteq Addrs
         /\ \A a \in Displayed(x) :
              ~(m.surf[a].live /\ m.surf[a].upload /\ m.surf[a].drawDirty)
<1>1. ASSUME NEW a \in Displayed(x)
      PROVE  a \in Addrs /\ Span(a, MaxWidth) \cap CpuWrites = {}
  <2>1. a \in Addrs /\ Display \in Span(a, x.surf[a].width)
    BY DEF Displayed, Covers, Live
  <2>2. Display \in Span(a, MaxWidth)
    BY <2>1, SpanWithin
  <2> QED
    BY <2>1, <2>2, CpuAssumption
<1>2. cpu # None /\ cpu.op = "write" => cpu.cell \in CpuWrites
  BY DEF CoherentInv, Accesses
<1>3. ASSUME NEW a \in Displayed(x), m.surf[a].live, m.surf[a].upload, m.surf[a].drawDirty
      PROVE  FALSE
  <2>1. a \in Addrs /\ Span(a, MaxWidth) \cap CpuWrites = {}
    BY <1>1
  <2>2. vcpuPc \in {"request", "wait"} /\ Holds(a) /\ cpu.op = "write"
    BY <1>3, <2>1 DEF CoherentInv, Accessing
  <2>3. cpu # None
    BY <2>2 DEF CoherentInv, Requests
  <2>4. cpu.cell \in Span(a, MaxWidth)
    BY <2>1, <2>2, SpanWithin DEF Holds, CoherentInv, Whole, Sound
  <2> QED
    BY <1>2, <2>1, <2>2, <2>3, <2>4
<1> QED
  BY <1>1, <1>2, <1>3 DEF Unwritten

(* Downloading everything, uploading what is displayed and flushing are
   invisible. *)
LEMMA ServeOthersCoherent ==
  ASSUME CoherentInv, ServeOthers
  PROVE  CoherentInv' /\ Invisible
<1> DEFINE x == IF "dirty" \in pending THEN DownloadIfDirty(m, Live(m)) ELSE m
           y == IF "sync" \in pending THEN Upload(x, Displayed(x)) ELSE x
           U == Displayed(x)
<1>1. /\ fifoPc = "others" /\ fifoPc' = "methods"
      /\ m' = IF "flush" \in pending THEN Flush(y) ELSE y
      /\ pending' = pending \ {"dirty", "sync", "flush"} /\ QueueCallbacks
      /\ UNCHANGED <<complete, watched, stage, job, vcpuPc, cpu, out>>
  BY DEF ServeOthers, Serving
<1>2. m \in Cache /\ Sound(m)
  BY DEF CoherentInv, Whole, Sound
<1>3. /\ Steady(x, m, {}) /\ Sheds(x, m, Kinds) /\ x \in Cache
      /\ \A a \in Addrs : x.surf[a].upload = m.surf[a].upload
  <2>1. CASE "dirty" \in pending
    <3> DEFINE S == Live(m) \cap DrawDirty(m)
    <3>1. x = DownloadIfDirty(m, Live(m)) /\ x = Download(m, S)
      BY <2>1 DEF DownloadIfDirty
    <3> HIDE DEF S, x
    <3>2. \A a \in Addrs : /\ a \in S => x.surf[a] = [m.surf[a] EXCEPT !.drawDirty = FALSE,
                                                                       !.download = FALSE]
                           /\ a \notin S => x.surf[a] = m.surf[a]
      BY <1>2, <3>1 DEF Download, Cache
    <3>3. \A a \in Addrs : m.surf[a] \in Surface
      BY <1>2 DEF Cache
    <3>4. \A a \in Addrs : x.surf[a].upload = m.surf[a].upload
      BY <3>2, <3>3, Zenon DEF Surface
    <3> QED
      BY <1>2, <3>1, <3>4, DownloadIfDirtySteady, DownloadIfDirtySheds, Zenon DEF Steady, Sound
  <2>2. CASE "dirty" \notin pending
    <3>1. x = m
      BY <2>2
    <3>2. Sheds(m, m, Kinds)
      BY <1>2 DEF Sheds, Settings
    <3> HIDE DEF x
    <3> QED
      BY <1>2, <3>1, <3>2, SteadyItself
  <2> QED
    BY <2>1, <2>2
<1> HIDE DEF x
<1>4. /\ Unwritten(U)
      /\ \A a \in U :
           /\ a \in Addrs
           /\ ~(x.surf[a].live /\ x.surf[a].upload /\ x.surf[a].drawDirty)
  <2>1. /\ Unwritten(U) /\ U \subseteq Addrs
        /\ \A a \in U : ~(m.surf[a].live /\ m.surf[a].upload /\ m.surf[a].drawDirty)
    BY <1>3, DisplayedUnwritten
  <2> HIDE DEF U
  <2> QED
    BY <1>3, <2>1 DEF Steady, Flags
<1>5. /\ Steady(y, x, U) /\ Sheds(y, x, Kinds)
      /\ \A a \in Addrs : y.surf[a].upload => x.surf[a].upload
  <2>1. CASE "sync" \in pending
    <3>1. y = Upload(x, U)
      BY <2>1
    <3> HIDE DEF y, U
    <3>2. Steady(y, x, U) /\ Sheds(y, x, Kinds)
      BY <1>3, <1>4, <3>1, UploadSteady, UploadSheds DEF Steady
    <3>3. \A a \in Addrs : ~x.surf[a].upload => y.surf[a] = x.surf[a]
      BY <1>3, <3>1, Zenon DEF Upload, Cache
    <3> QED
      BY <3>2, <3>3
  <2>2. CASE "sync" \notin pending
    <3>1. y = x
      BY <2>2
    <3>2. Sheds(x, x, Kinds)
      BY <1>3, Zenon DEF Sheds, Settings
    <3> HIDE DEF y, U
    <3> QED
      BY <1>3, <3>1, <3>2, SteadyItself DEF Steady
  <2> QED
    BY <2>1, <2>2
<1> HIDE DEF y, U
<1>6. Steady(y, m, U) /\ Sheds(y, m, Kinds)
  <2>1. Steady(x, m, U)
    BY <1>3, SteadyMore
  <2>2. Steady(y, m, U)
    BY <1>5, <2>1, SteadyTransitive
  <2>3. Sheds(y, m, Kinds \cap Kinds)
    BY <1>2, <1>3, <1>5, ShedsTransitive
  <2>4. Kinds \cap Kinds = Kinds
    OBVIOUS
  <2> QED
    BY <2>2, <2>3, <2>4
<1>7. Steady(m', m, U)
  <2>1. Steady(Flush(y), y, U)
    BY <1>6, FlushSteady, SteadyMore DEF Steady
  <2>2. Steady(Flush(y), m, U)
    BY <1>6, <2>1, SteadyTransitive
  <2> QED
    BY <1>1, <1>6, <2>2
<1>8. Whole(m') /\ Staged'
  <2>1. CASE "flush" \in pending
    BY <1>1, <1>6, <2>1, FlushStaged, Zenon DEF Steady, Sheds, Settings
  <2>2. CASE "flush" \notin pending
    <3>1. m' = y
      BY <1>1, <2>2
    <3>2. \A k \in m.mask : stage = "end" => m.offset[k] \in Addrs
      <4>1. ASSUME stage = "end" PROVE m.offset \in [Kinds -> Addrs]
        BY <4>1, DrawAims, AimedTargets, Zenon DEF CoherentInv, Staged
      <4> QED
        BY <1>2, <4>1 DEF Cache
    <3> QED
      BY <1>1, <1>3, <1>5, <1>6, <3>1, <3>2, ShedsStaged, Zenon DEF Steady
  <2> QED
    BY <2>1, <2>2
<1>9. Requests' /\ Watching'
  BY <1>1, QueuedWatching DEF CoherentInv, Requests
<1>10. Accessing'
  BY <1>1, <1>4, <1>7, SteadyAccessing
<1>11. Invisible
  BY <1>1, <1>7 DEF Invisible, Steady
<1> QED
  BY <1>1, <1>8, <1>9, <1>10, <1>11 DEF CoherentInv

(* What surface_access_callback changes: the marks of the surfaces that hold the
   cell. *)
LEMMA VcpuCallbackFields ==
  ASSUME m \in Cache, VcpuCallback
  PROVE  /\ m' \in Cache /\ m'.bound = m.bound /\ m'.vram = m.vram /\ Settings(m', m)
         /\ \A a \in Addrs :
              /\ m'.surf[a].live = m.surf[a].live /\ m'.surf[a].width = m.surf[a].width
              /\ m'.surf[a].drawDirty = m.surf[a].drawDirty /\ m'.surf[a].img = m.surf[a].img
              /\ Holds(a) => m'.surf[a].download = (m.surf[a].download \/ m.surf[a].drawDirty)
              /\ Holds(a) => m'.surf[a].upload = (m.surf[a].upload \/ cpu.op = "write")
              /\ ~Holds(a) => /\ m'.surf[a].download = m.surf[a].download
                              /\ m'.surf[a].upload = m.surf[a].upload
<1> DEFINE hit == {a \in Live(m) : Covers(m, a, cpu.cell)}
           down(a) == m.surf[a].download \/ m.surf[a].drawDirty
           up(a) == m.surf[a].upload \/ cpu.op = "write"
           marked(a) == [m.surf[a] EXCEPT !.download = down(a), !.upload = up(a)]
           surf == [a \in Addrs |-> IF a \in hit THEN marked(a) ELSE m.surf[a]]
<1>1. m' = [m EXCEPT !.surf = surf]
  BY Zenon DEF VcpuCallback
<1>2. m.surf \in [Addrs -> Surface]
  BY DEF Cache
<1>3. \A a \in Addrs : down(a) \in BOOLEAN /\ up(a) \in BOOLEAN
  BY <1>2 DEF Surface
<1>4. \A a \in Addrs : a \in hit <=> Holds(a)
  BY DEF Live, Covers, Holds
<1>5. \A a \in Addrs : /\ down(a) = (m.surf[a].download \/ m.surf[a].drawDirty)
                       /\ up(a) = (m.surf[a].upload \/ cpu.op = "write")
  OBVIOUS
<1> HIDE DEF hit, down, up
<1>6. \A a \in Addrs :
        /\ marked(a) \in Surface
        /\ marked(a).live = m.surf[a].live /\ marked(a).width = m.surf[a].width
        /\ marked(a).drawDirty = m.surf[a].drawDirty /\ marked(a).img = m.surf[a].img
        /\ marked(a).download = down(a) /\ marked(a).upload = up(a)
  <2>1. \A a \in Addrs : marked(a) \in Surface
    BY <1>2, <1>3, MarkedType, Zenon
  <2> QED
    BY <1>2, <2>1, Zenon DEF Surface
<1> HIDE DEF marked
<1>7. /\ surf \in [Addrs -> Surface]
      /\ \A a \in Addrs : /\ a \in hit => surf[a] = marked(a)
                          /\ a \notin hit => surf[a] = m.surf[a]
  BY <1>2, <1>6, Zenon
<1> HIDE DEF surf
<1>8. m' \in Cache /\ m'.surf = surf /\ m'.bound = m.bound /\ m'.vram = m.vram /\ Settings(m', m)
  BY <1>1, <1>7 DEF Cache, Settings
<1>9. ASSUME NEW a \in Addrs
      PROVE  /\ surf[a].live = m.surf[a].live /\ surf[a].width = m.surf[a].width
             /\ surf[a].drawDirty = m.surf[a].drawDirty /\ surf[a].img = m.surf[a].img
             /\ Holds(a) => surf[a].download = (m.surf[a].download \/ m.surf[a].drawDirty)
             /\ Holds(a) => surf[a].upload = (m.surf[a].upload \/ cpu.op = "write")
             /\ ~Holds(a) => /\ surf[a].download = m.surf[a].download
                             /\ surf[a].upload = m.surf[a].upload
  <2>1. CASE Holds(a)
    BY <1>4, <1>5, <1>6, <1>7, <2>1, Zenon
  <2>2. CASE ~Holds(a)
    BY <1>4, <1>7, <2>2
  <2> QED
    BY <2>1, <2>2, Zenon
<1> QED
  BY <1>8, <1>9, Zenon

(* surface_access_callback is invisible, and marks what the access needs. *)
LEMMA VcpuCallbackCoherent ==
  ASSUME CoherentInv, VcpuCallback
  PROVE  CoherentInv' /\ Invisible
<1> DEFINE hit == {a \in Live(m) : Covers(m, a, cpu.cell)}
<1>1. /\ vcpuPc = "callback" /\ fifoPc = "methods"
      /\ vcpuPc' = IF hit \cap DrawDirty(m) # {} THEN "request" ELSE "access"
      /\ UNCHANGED <<pending, complete, watched, work, fifoPc, stage, job, cpu, out>>
  BY Zenon DEF VcpuCallback
<1>2. \A a \in Addrs : a \in hit \cap DrawDirty(m) <=> Holds(a) /\ m.surf[a].drawDirty
  BY DEF Live, Covers, Holds, DrawDirty
<1>3. hit \cap DrawDirty(m) \subseteq Addrs
  BY LiveInAddrs
<1> HIDE DEF hit
<1>4. m \in Cache /\ Apart(m) /\ Images(m) /\ Whole(m)
  BY DEF CoherentInv, Whole, Sound
<1>5. /\ m' \in Cache /\ m'.bound = m.bound /\ m'.vram = m.vram /\ Settings(m', m)
      /\ \A a \in Addrs :
           /\ m'.surf[a].live = m.surf[a].live /\ m'.surf[a].width = m.surf[a].width
           /\ m'.surf[a].drawDirty = m.surf[a].drawDirty /\ m'.surf[a].img = m.surf[a].img
           /\ Holds(a) => m'.surf[a].download = (m.surf[a].download \/ m.surf[a].drawDirty)
           /\ Holds(a) => m'.surf[a].upload = (m.surf[a].upload \/ cpu.op = "write")
           /\ ~Holds(a) => /\ m'.surf[a].download = m.surf[a].download
                           /\ m'.surf[a].upload = m.surf[a].upload
  BY <1>4, VcpuCallbackFields, Zenon
<1>6. Sound(m')
  <2>1. Apart(m')
    BY <1>4, <1>5 DEF Apart
  <2>2. Images(m')
    <3> SUFFICES ASSUME NEW a \in Addrs, m'.surf[a].live
                 PROVE  /\ m'.surf[a].download => m'.surf[a].drawDirty
                        /\ ~m'.surf[a].upload /\ ~m'.surf[a].drawDirty =>
                             \A c \in Vram : c \in Span(a, m'.surf[a].width) =>
                               m'.surf[a].img[c] = m'.vram[c]
      BY DEF Images
    <3>1. /\ m'.surf[a].download => m.surf[a].download \/ m.surf[a].drawDirty
          /\ m.surf[a].upload => m'.surf[a].upload
      BY <1>5, Zenon
    <3>2. /\ m.surf[a].live /\ m'.surf[a].width = m.surf[a].width /\ m'.vram = m.vram
          /\ m'.surf[a].drawDirty = m.surf[a].drawDirty /\ m'.surf[a].img = m.surf[a].img
      BY <1>5, Zenon
    <3>3. /\ m.surf[a].download => m.surf[a].drawDirty
          /\ ~m.surf[a].upload /\ ~m.surf[a].drawDirty =>
               \A c \in Vram : c \in Span(a, m.surf[a].width) =>
                 m.surf[a].img[c] = m.vram[c]
      BY <1>4, <3>2, Zenon DEF Images
    <3> QED
      BY <3>1, <3>2, <3>3, Zenon
  <2> QED
    BY <1>5, <2>1, <2>2, Zenon DEF Sound
<1>7. Contents(m') = Contents(m)
  <2>1. \A c \in Vram : \A a \in Addrs : /\ Shows(m', a, c) <=> Shows(m, a, c)
                                         /\ m'.surf[a].img[c] = m.surf[a].img[c]
    BY <1>5, Zenon DEF Shows
  <2> QED
    BY <1>4, <1>5, <1>6, <2>1, SameContents, Zenon DEF Sound
<1>8. Sheds(m', m, Kinds)
  <2>1. \A k \in Kinds : m.bound[k] # Unbound => m.bound[k] \in Addrs
    BY <1>4 DEF Cache
  <2>2. \A k \in Kinds : m'.bound[k] # Unbound =>
          m'.bound[k] = m.bound[k] /\ (m.surf[m.bound[k]].live => m'.surf[m.bound[k]].live)
    BY <1>5, <2>1, Zenon
  <2> QED
    BY <1>5, <2>2, Zenon DEF Sheds
<1>9. cpu # None
  BY <1>1 DEF CoherentInv, Requests
<1>10. Whole(m') /\ Staged'
  <2>1. ASSUME stage = "end", NEW k \in m.mask
        PROVE  m'.surf[m.offset[k]].upload => m.surf[m.offset[k]].upload
    <3>1. job.op = "draw" /\ m.offset = Targets(job) /\ m.shape = job.width
      BY <2>1, Zenon DEF CoherentInv, Staged
    <3>2. Aimed(m) /\ {m.offset[o] : o \in Kinds} = {job.color, job.zeta}
      BY <3>1, DrawAims, Zenon
    <3>3. m.offset[k] \in Addrs /\ m.offset[k] \in {job.color, job.zeta}
      <4>1. m.mask \subseteq Kinds
        BY <1>4 DEF Cache
      <4>2. m.offset \in [Kinds -> Addrs]
        BY <3>2, AimedTargets, Zenon
      <4> QED
        BY <2>1, <3>2, <4>1, <4>2, Zenon
    <3>4. cpu.cell \notin Span(m.offset[k], MaxWidth)
      BY <1>9, <3>1, <3>3 DEF CoherentInv, Requests, Touched
    <3>5. ~Holds(m.offset[k])
      BY <1>4, <3>3, <3>4, SpanWithin, Zenon DEF Holds
    <3> QED
      BY <1>5, <3>3, <3>5, Zenon
  <2> QED
    BY <1>1, <1>6, <1>8, <2>1, ShedsStaged, Zenon
<1>11. Requests'
  BY <1>1, <1>9 DEF CoherentInv, Requests
<1>12. Watching'
  BY <1>1, <1>5, SameWatching, Zenon DEF CoherentInv
<1>13. Accessing'
  <2>1. \A a \in Addrs : Holds(a)' <=> Holds(a)
    BY <1>1, <1>5, Zenon DEF Holds
  <2> SUFFICES ASSUME NEW a \in Addrs
               PROVE  /\ Holds(a) =>
                         /\ m'.surf[a].drawDirty => m'.surf[a].download
                         /\ cpu.op = "write" => m'.surf[a].upload
                      /\ vcpuPc' = "access" /\ Holds(a) => ~m'.surf[a].drawDirty
                      /\ m'.surf[a].live /\ m'.surf[a].drawDirty /\ m'.surf[a].upload =>
                         vcpuPc' = "request" /\ Holds(a) /\ cpu.op = "write"
    BY <1>1, <2>1 DEF Accessing
  <2>2. m.surf[a].live /\ m.surf[a].drawDirty => ~m.surf[a].upload
    BY <1>1 DEF CoherentInv, Accessing
  <2>3. CASE Holds(a)
    <3>1. m.surf[a].drawDirty => vcpuPc' = "request"
      BY <1>1, <1>2, <2>3
    <3> QED
      BY <1>5, <2>2, <2>3, <3>1, Zenon
  <2>4. CASE ~Holds(a)
    BY <1>5, <2>2, <2>4, Zenon
  <2> QED
    BY <2>3, <2>4
<1>14. Invisible
  BY <1>1, <1>7 DEF Invisible
<1> QED
  BY <1>1, <1>10, <1>11, <1>12, <1>13, <1>14 DEF CoherentInv

(* Only the vCPU, the requests or the presenter have moved. *)
LEMMA QuietStaged ==
  ASSUME CoherentInv, m' = m, stage' = stage, job' = job
  PROVE  Whole(m') /\ Staged'
<1>1. Prepared' <=> Prepared
  BY DEF Prepared
<1> QED
  BY <1>1 DEF CoherentInv, Staged

(* The load or store takes effect on the contents: no image is ahead of memory
   at its cell, and those a store leaves behind are marked. *)
LEMMA VcpuAccessCoherent ==
  ASSUME CoherentInv, VcpuAccess
  PROVE  /\ CoherentInv'
         /\ \/ /\ cpu.op = "read" /\ Contents(m') = Contents(m)
               /\ out' = [c \in {cpu.cell} |-> Contents(m)[c]]
            \/ /\ cpu.op = "write" /\ out' = out
               /\ Contents(m') = [c \in Vram |-> IF c \in {cpu.cell} THEN cpu.value
                                                                     ELSE Contents(m)[c]]
         /\ cpu' = None /\ job' = job
<1>1. /\ vcpuPc = "access" /\ vcpuPc' = "guest" /\ cpu' = None
      /\ UNCHANGED <<pending, complete, watched, work, fifoPc, stage, job>>
      /\ \/ /\ cpu.op = "read" /\ m' = m
            /\ out' = [c \in {cpu.cell} |-> m.vram[c]]
         \/ /\ cpu.op = "write" /\ out' = out
            /\ m' = [m EXCEPT !.vram = [m.vram EXCEPT ![cpu.cell] = cpu.value]]
  BY DEF VcpuAccess
<1>2. m \in Cache /\ Apart(m) /\ Images(m) /\ Whole(m)
  BY DEF CoherentInv, Whole, Sound
<1>3. cpu # None /\ cpu.cell \in Vram /\ (cpu.op = "write" => cpu.value \in Values)
  <2>1. cpu # None
    BY <1>1 DEF CoherentInv, Requests
  <2>2. cpu \in Accesses
    BY <2>1 DEF CoherentInv
  <2> QED
    BY <2>1, <2>2, CpuAssumption DEF Accesses
<1>4. \A a \in Addrs : ~Shows(m, a, cpu.cell)
  BY <1>1 DEF CoherentInv, Accessing, Holds, Shows
<1>5. Contents(m)[cpu.cell] = m.vram[cpu.cell]
  BY <1>2, <1>3, <1>4, ContentsAt
<1>6. Requests'
  BY <1>1 DEF CoherentInv, Requests
<1>7. m'.surf = m.surf /\ Whole(m') /\ Staged' /\ Watching'
  <2>1. CASE m' = m
    BY <1>1, <2>1, QuietStaged, SameWatching DEF CoherentInv
  <2>2. CASE cpu.op = "write" /\ m' = [m EXCEPT !.vram = [m.vram EXCEPT ![cpu.cell] = cpu.value]]
    <3> DEFINE vram == [m.vram EXCEPT ![cpu.cell] = cpu.value]
    <3>1. vram \in [Vram -> Values]
      BY <1>2, <1>3, <2>2 DEF Cache
    <3>2. \A c \in Vram : c # cpu.cell => vram[c] = m.vram[c]
      BY <1>2 DEF Cache
    <3>3. m' = [m EXCEPT !.vram = vram]
      BY <2>2
    <3> HIDE DEF vram
    <3>4. m' \in Cache /\ m'.surf = m.surf /\ m'.bound = m.bound /\ m'.vram = vram
          /\ Settings(m', m)
      BY <1>2, <3>1, <3>3 DEF Cache, Settings
    <3>5. Apart(m')
      BY <1>2, <3>4 DEF Apart
    <3>6. Images(m')
      <4> SUFFICES ASSUME NEW a \in Addrs, m.surf[a].live
                   PROVE  /\ m.surf[a].download => m.surf[a].drawDirty
                          /\ ~m.surf[a].upload /\ ~m.surf[a].drawDirty =>
                               \A c \in Vram : c \in Span(a, m.surf[a].width) =>
                                 m.surf[a].img[c] = vram[c]
        BY <3>4 DEF Images
      <4>1. ~m.surf[a].upload => cpu.cell \notin Span(a, m.surf[a].width)
        BY <1>1, <2>2 DEF CoherentInv, Accessing, Holds
      <4> QED
        BY <1>2, <3>2, <4>1, Zenon DEF Images
    <3>7. Sheds(m', m, Kinds)
      BY <3>4 DEF Sheds
    <3>8. Whole(m') /\ Staged'
      <4>1. Sound(m')
        BY <3>4, <3>5, <3>6 DEF Sound
      <4> QED
        BY <1>1, <3>4, <3>7, <4>1, ShedsStaged
    <3>9. Watching'
      BY <1>1, <3>4, SameWatching DEF CoherentInv
    <3> QED
      BY <3>4, <3>8, <3>9
  <2> QED
    BY <1>1, <2>1, <2>2
<1>8. Accessing'
  <2>1. \A a \in Addrs : ~(m.surf[a].live /\ m.surf[a].drawDirty /\ m.surf[a].upload)
    BY <1>1 DEF CoherentInv, Accessing
  <2> QED
    BY <1>1, <1>7, <2>1 DEF Accessing
<1>9. ASSUME cpu.op = "write", m' = [m EXCEPT !.vram = [m.vram EXCEPT ![cpu.cell] = cpu.value]]
      PROVE  Contents(m') = [c \in Vram |-> IF c \in {cpu.cell} THEN cpu.value
                                                                ELSE Contents(m)[c]]
  <2>1. m'.vram = [m.vram EXCEPT ![cpu.cell] = cpu.value] /\ m' \in Cache /\ Apart(m')
    BY <1>2, <1>7, <1>9, Zenon DEF Whole, Sound, Cache
  <2>2. \A c \in Vram : \A a \in Addrs : Shows(m', a, c) <=> Shows(m, a, c)
    BY <1>7 DEF Shows
  <2>3. ASSUME NEW c \in Vram
        PROVE  Contents(m')[c] = IF c \in {cpu.cell} THEN cpu.value ELSE Contents(m)[c]
    <3>1. CASE c = cpu.cell
      <4>1. Contents(m')[c] = m'.vram[c]
        BY <1>4, <2>1, <2>2, <3>1, ContentsAt, Zenon
      <4>2. m'.vram[c] = cpu.value
        BY <1>2, <2>1, <3>1 DEF Cache
      <4> QED
        BY <3>1, <4>1, <4>2
    <3>2. CASE c # cpu.cell
      <4>1. m'.vram[c] = m.vram[c]
        BY <1>2, <2>1, <3>2 DEF Cache
      <4>2. CASE \E a \in Addrs : Shows(m, a, c)
        <5>1. PICK a \in Addrs : Shows(m, a, c)
          BY <4>2
        <5>2. Contents(m)[c] = m.surf[a].img[c]
          BY <1>2, <5>1, ContentsAt
        <5>3. Contents(m')[c] = m'.surf[a].img[c]
          BY <2>1, <2>2, <5>1, ContentsAt
        <5> QED
          BY <1>7, <3>2, <5>2, <5>3
      <4>3. CASE \A a \in Addrs : ~Shows(m, a, c)
        <5>1. Contents(m)[c] = m.vram[c]
          BY <1>2, <4>3, ContentsAt, Zenon
        <5>2. Contents(m')[c] = m'.vram[c]
          BY <2>1, <2>2, <4>3, ContentsAt, Zenon
        <5> QED
          BY <3>2, <4>1, <5>1, <5>2
      <4> QED
        BY <4>2, <4>3
    <3> QED
      BY <3>1, <3>2
  <2> QED
    BY <2>3 DEF Contents
<1>10. CoherentInv'
  BY <1>1, <1>6, <1>7, <1>8 DEF CoherentInv
<1>11. CASE cpu.op = "read" /\ m' = m /\ out' = [c \in {cpu.cell} |-> m.vram[c]]
  <2>1. out' = [c \in {cpu.cell} |-> Contents(m)[c]]
    BY <1>5, <1>11
  <2> QED
    BY <1>1, <1>10, <1>11, <2>1
<1>12. CASE cpu.op = "write" /\ out' = out
            /\ m' = [m EXCEPT !.vram = [m.vram EXCEPT ![cpu.cell] = cpu.value]]
  BY <1>1, <1>9, <1>10, <1>12
<1> QED
  BY <1>1, <1>11, <1>12

(* The other steps of the FIFO thread that serve requests. *)
LEMMA ServeCoherent ==
  ASSUME CoherentInv, Serve
  PROVE  CoherentInv' /\ Invisible
<1>1. CASE ServeStart \/ ServeClear \/ ServeEvent
  <2>1. m' = m /\ UNCHANGED <<watched, work, stage, job, vcpuPc, cpu, out>>
    BY <1>1 DEF ServeStart, ServeClear, ServeEvent
  <2>2. Whole(m') /\ Staged' /\ Watching'
    BY <2>1, QuietStaged, SameWatching DEF CoherentInv
  <2>3. Requests'
    BY <1>1, <2>1 DEF CoherentInv, Requests, ServeStart, ServeClear, ServeEvent, Serving
  <2>4. complete' \/ fifoPc' \in {"clear", "event"} => complete \/ fifoPc \in {"clear", "event"}
    BY <1>1 DEF ServeStart, ServeClear, ServeEvent, Serving
  <2>5. Accessing'
    <3>1. \A a \in Addrs : Holds(a)' <=> Holds(a)
      BY <2>1 DEF Holds
    <3> QED
      BY <2>1, <2>4, <3>1, Zenon DEF CoherentInv, Accessing
  <2> QED
    BY <2>1, <2>2, <2>3, <2>5 DEF CoherentInv, Invisible
<1> QED
  BY <1>1, ServeDownloadsCoherent, ServeOthersCoherent DEF Serve

(* The other steps of the vCPU, the presenter and the machine. *)
LEMMA QuietCoherent ==
  ASSUME CoherentInv,
         \/ VcpuRunWork \/ VcpuRequest \/ VcpuWake \/ UiSynced
         \/ \E request \in {"dirty", "flush"} : Ctl(request)
         \/ UNCHANGED vars
  PROVE  CoherentInv' /\ Invisible
<1>1. m' = m /\ UNCHANGED <<fifoPc, stage, job, cpu, out>>
  BY DEF VcpuRunWork, VcpuRequest, VcpuWake, UiSynced, Ctl, vars
<1>2. Whole(m') /\ Staged'
  BY <1>1, QuietStaged
<1>3. Watching'
  BY <1>1 DEF CoherentInv, Watching, VcpuRunWork, VcpuRequest, VcpuWake, UiSynced, Ctl, vars
<1>4. Requests'
  BY <1>1 DEF CoherentInv, Requests, VcpuRunWork, VcpuRequest, VcpuWake, UiSynced, Ctl, vars
<1>5. Accessing'
  <2>1. \A a \in Addrs : Holds(a)' <=> Holds(a)
    BY <1>1 DEF Holds
  <2>2. CASE vcpuPc' = vcpuPc /\ complete' = complete
    BY <1>1, <2>1, <2>2 DEF CoherentInv, Accessing
  <2>3. CASE VcpuRequest
    <3>1. vcpuPc = "request" /\ vcpuPc' = "wait" /\ ~complete' /\ fifoPc \notin {"clear", "event"}
      BY <2>3 DEF VcpuRequest, CoherentInv, Requests
    <3> QED
      BY <1>1, <2>1, <3>1 DEF CoherentInv, Accessing
  <2>4. CASE VcpuWake
    <3>1. vcpuPc = "wait" /\ vcpuPc' = "access" /\ complete
      BY <2>4 DEF VcpuWake
    <3> QED
      BY <1>1, <2>1, <3>1 DEF CoherentInv, Accessing
  <2>5. (vcpuPc' = vcpuPc /\ complete' = complete) \/ VcpuRequest \/ VcpuWake
    BY DEF VcpuRunWork, UiSynced, Ctl, vars
  <2> QED
    BY <2>2, <2>3, <2>4, <2>5
<1> QED
  BY <1>1, <1>2, <1>3, <1>4, <1>5 DEF CoherentInv, Invisible

(* pgraph_vk_get_framebuffer_surface is invisible. *)
LEMMA UiFrameCoherent ==
  ASSUME CoherentInv, UiFrame
  PROVE  CoherentInv' /\ Invisible
<1>1. /\ m' = Touch(m, Displayed(m)) /\ pending' = pending \cup {"sync"}
      /\ UNCHANGED <<complete, watched, work, fifoPc, stage, job, vcpuPc, cpu, out>>
  BY DEF UiFrame
<1>2. m \in Cache /\ Sound(m)
  BY DEF CoherentInv, Whole, Sound
<1>3. Steady(m', m, {}) /\ Sheds(m', m, Kinds)
  BY <1>1, <1>2, TouchSteady, TouchSheds, Zenon
<1>4. \A a \in Addrs :
        /\ m'.surf[a].live = m.surf[a].live /\ m'.surf[a].width = m.surf[a].width
        /\ m'.surf[a].upload = m.surf[a].upload
  BY <1>1, <1>2, TouchFlags, Zenon
<1>5. Whole(m') /\ Staged'
  <2>1. ASSUME stage = "end", NEW k \in m.mask PROVE m.offset[k] \in Addrs
    <3>1. m.offset \in [Kinds -> Addrs]
      BY <2>1, DrawAims, AimedTargets, Zenon DEF CoherentInv, Staged
    <3> QED
      BY <1>2, <3>1 DEF Cache
  <2> QED
    BY <1>1, <1>3, <1>4, <2>1, ShedsStaged, Zenon DEF Steady
<1>6. Requests' /\ Watching'
  BY <1>1, <1>4, SameWatching, Zenon DEF CoherentInv, Requests
<1>7. Accessing'
  BY <1>1, <1>3, SteadyAccessing DEF Unwritten
<1> QED
  BY <1>1, <1>3, <1>5, <1>6, <1>7 DEF CoherentInv, Invisible, Steady

(* A job is submitted when none is in flight. *)
LEMMA SubmitCoherent ==
  ASSUME CoherentInv, NEW j \in Jobs, Submit(j)
  PROVE  /\ CoherentInv' /\ job = None /\ job'.op \in {"draw", "texture", "blit", "flip"}
         /\ Contents(m') = Contents(m) /\ out' = out /\ cpu' = cpu
<1>1. /\ vcpuPc = "guest" /\ job = None /\ job' = j /\ stage' = "set" /\ m' = m
      /\ UNCHANGED <<pending, complete, watched, work, fifoPc, vcpuPc, cpu, out>>
  BY DEF Submit
<1>2. stage = "set" /\ cpu = None
  BY <1>1, Zenon DEF CoherentInv, Staged, Requests, None
<1>3. j.op \in {"draw", "texture", "blit", "flip"}
  <2>1. CASE \E d \in Draws :
          j = [op |-> "draw", color |-> d.color, zeta |-> d.zeta, width |-> d.width,
               writes |-> d.writes, value |-> d.value,
               cells |-> UNION {Span(Target(d, k), d.width) : k \in d.writes}]
    BY <2>1
  <2>2. CASE \E t \in Textures :
          j = [op |-> "texture", addr |-> t.addr, width |-> t.width,
               cells |-> Span(t.addr, t.width)]
    BY <2>2
  <2>3. CASE \E b \in Blits :
          j = [op |-> "blit", src |-> b.src, dst |-> b.dst, from |-> b.from, to |-> b.to]
    BY <2>3
  <2>4. CASE j = [op |-> "flip"]
    BY <2>4
  <2> QED
    BY <2>1, <2>2, <2>3, <2>4, Zenon DEF Jobs
<1>4. Whole(m') /\ Staged' /\ Watching'
  BY <1>1, <1>2, Zenon DEF CoherentInv, Staged, Watching
<1>5. Requests'
  BY <1>1, <1>2 DEF CoherentInv, Requests
<1>6. Accessing'
  <2>1. \A a \in Addrs : Holds(a)' <=> Holds(a)
    BY <1>1 DEF Holds
  <2> QED
    BY <1>1, <2>1 DEF CoherentInv, Accessing
<1> QED
  BY <1>1, <1>3, <1>4, <1>5, <1>6 DEF CoherentInv

(* The vCPU begins an access; without a callback no surface holds the cell. *)
LEMMA VcpuIssueCoherent ==
  ASSUME CoherentInv, NEW acc \in Accesses, VcpuIssue(acc)
  PROVE  /\ CoherentInv' /\ cpu = None /\ cpu'.op \in {"read", "write"}
         /\ Contents(m') = Contents(m) /\ out' = out /\ job' = job
<1>1. /\ vcpuPc = "guest" /\ ~work /\ acc.cell \notin Touched(job) /\ cpu' = acc
      /\ vcpuPc' = IF acc.cell \in watched THEN "callback" ELSE "access"
      /\ UNCHANGED <<m, pending, complete, watched, work, fifoPc, stage, job, out>>
  BY DEF VcpuIssue
<1>2. cpu = None /\ watched = WatchedCells(m)
  BY <1>1 DEF CoherentInv, Requests, Watching
<1>3. acc.op \in {"read", "write"} /\ acc # None
  <2>1. acc.op \in {"read", "write"}
    BY DEF Accesses
  <2>2. None.op = "idle"
    BY DEF None
  <2> QED
    BY <2>1, <2>2
<1>4. Whole(m') /\ Staged' /\ Watching'
  BY <1>1, QuietStaged, SameWatching DEF CoherentInv
<1>5. Requests'
  BY <1>1, <1>3 DEF CoherentInv, Requests
<1>6. Accessing'
  <2>1. \A a \in Addrs : ~(m.surf[a].live /\ m.surf[a].drawDirty /\ m.surf[a].upload)
    BY <1>1 DEF CoherentInv, Accessing
  <2>2. ASSUME NEW a \in Addrs, Holds(a)' PROVE vcpuPc' = "callback"
    <3>1. m.surf[a].live /\ acc.cell \in Span(a, m.surf[a].width)
      BY <1>1, <2>2 DEF Holds
    <3>2. acc.cell \in WatchedCells(m)
      BY <3>1 DEF WatchedCells, Live
    <3> QED
      BY <1>1, <1>2, <3>2
  <2> QED
    BY <1>1, <2>1, <2>2 DEF Accessing
<1> QED
  BY <1>1, <1>2, <1>3, <1>4, <1>5, <1>6 DEF CoherentInv

(* The cache starts empty and memory zeroed. *)
LEMMA InitCoherent == Init => CoherentInv /\ Memory!Init
<1> SUFFICES ASSUME Init PROVE CoherentInv /\ Memory!Init
  OBVIOUS
<1>1. [a \in Addrs |-> Dead] \in [Addrs -> Surface]
  BY DeadType
<1>2. m \in Cache
  BY <1>1, ValuesAssumption, Zenon DEF Init, Cache, Unbound
<1>3. /\ m.surf = [a \in Addrs |-> Dead] /\ m.dirty = {} /\ m.vram = [c \in Vram |-> 0]
      /\ \A k \in Kinds : m.bound[k] = Unbound
  BY DEF Init
<1>4. /\ stage = "set" /\ job = None /\ cpu = None /\ vcpuPc = "guest" /\ pending = {}
      /\ fifoPc = "methods" /\ watched = {} /\ out = [c \in {} |-> 0]
  BY DEF Init
<1>5. \A a \in Addrs : ~m.surf[a].live
  <2>1. ~Dead.live
    BY DEF Dead
  <2> QED
    BY <1>3, <2>1, Zenon
<1>6. Whole(m)
  <2>1. Apart(m) /\ Images(m) /\ Sized(m)
    BY <1>5, Zenon DEF Apart, Images, Sized
  <2>2. Bindings(m) /\ Equal(m)
    BY <1>3 DEF Bindings, Equal, Kinds
  <2> QED
    BY <1>2, <2>1, <2>2 DEF Whole, Sound
<1>7. Staged
  BY <1>3, <1>4, <1>6, Zenon DEF Staged, Drawing
<1>8. Requests /\ Accessing
  BY <1>4, <1>5 DEF Requests, Accessing
<1>9. Watching
  BY <1>4, <1>5 DEF Watching, WatchedCells, Live
<1>10. Contents(m) = [c \in Vram |-> 0]
  <2>1. \A c \in Vram : Contents(m)[c] = 0
    BY <1>2, <1>3, <1>5, <1>6, ContentsAt, Zenon DEF Shows, Whole, Sound
  <2> QED
    BY <2>1 DEF Contents
<1>11. Memory!Init
  BY <1>4, <1>10, ValuesAssumption DEF Memory!Init, Memory!Idle, None
<1> QED
  BY <1>4, <1>6, <1>7, <1>8, <1>9, <1>11 DEF CoherentInv

(* Every step is one of the abstract memory, or invisible. *)
LEMMA NextCoherent ==
  ASSUME CoherentInv, [Next]_vars
  PROVE  CoherentInv' /\ [Memory!Next]_(Memory!memVars)
<1>1. ASSUME CoherentInv', Invisible
      PROVE  CoherentInv' /\ [Memory!Next]_(Memory!memVars)
  BY <1>1 DEF Invisible, Memory!memVars
<1>2. ASSUME CoherentInv', Completes
      PROVE  CoherentInv' /\ [Memory!Next]_(Memory!memVars)
  BY <1>2 DEF Completes, None, Memory!Next, Memory!GpuDone, Memory!GpuDropped,
     Memory!Fill, Memory!Read, Memory!Idle
<1>3. CASE Fifo
  BY <1>1, <1>2, <1>3, SetSurfaceCoherent, DrawBeginCoherent, DrawEndCoherent,
     BindTextureCoherent, ImageBlitCoherent, FlipIncrementCoherent, ServeCoherent DEF Fifo
<1>4. CASE VcpuAccess
  BY <1>4, VcpuAccessCoherent DEF None, Memory!Next, Memory!CpuDone,
     Memory!Fill, Memory!Read, Memory!Idle
<1>5. CASE \/ VcpuRunWork \/ VcpuRequest \/ VcpuWake \/ UiSynced
           \/ \E request \in {"dirty", "flush"} : Ctl(request)
           \/ UNCHANGED vars
  BY <1>1, <1>5, QuietCoherent
<1>6. CASE VcpuCallback \/ UiFrame
  BY <1>1, <1>6, VcpuCallbackCoherent, UiFrameCoherent
<1>7. ASSUME NEW j \in Jobs, Submit(j)
      PROVE  CoherentInv' /\ [Memory!Next]_(Memory!memVars)
  BY <1>7, SubmitCoherent DEF None, Memory!Next, Memory!Issue, Memory!Idle
<1>8. ASSUME NEW acc \in Accesses, VcpuIssue(acc)
      PROVE  CoherentInv' /\ [Memory!Next]_(Memory!memVars)
  BY <1>8, VcpuIssueCoherent DEF None, Memory!Next, Memory!Issue, Memory!Idle
<1> QED
  BY <1>3, <1>4, <1>5, <1>6, <1>7, <1>8 DEF Next, Vcpu

(* The surface cache implements one coherent memory: whatever is downloaded,
   uploaded, evicted, reused, expired or flushed in between, and whatever the
   vCPU, the FIFO thread, the presenter and the machine's requests interleave,
   accesses, draws, textures and blits take effect once and at one point. *)
THEOREM CacheIsCoherent == Safety => Coherent
<1>1. CoherentInv /\ [Next]_vars => CoherentInv' /\ [Memory!Next]_(Memory!memVars)
  BY NextCoherent
<1> QED
  BY <1>1, InitCoherent, PTL DEF Safety, Coherent, Memory!Spec

(* The assertions of pgraph_vk_surface_update(false, ...) never fail: not even
   for a target that a flush took from a draw. *)
THEOREM UpdateAssertionsHold == Safety => []UpdateAssertions
<1>1. ASSUME CoherentInv PROVE UpdateAssertions
  <2> DEFINE x == UpdatePartAfter(m, "color")
  <2>k. "color" \in Kinds /\ "zeta" \in Kinds
    BY DEF Kinds
  <2>1. Equal(m)
    BY <1>1 DEF CoherentInv, Whole
  <2>2. CASE stage = "set"
    <3>1. Drawing(m, "color")
      BY <1>1, <2>2 DEF CoherentInv, Staged
    <3>2. (Straggles(m, "color") => EvictsUnbound(m, "color")) /\ Drawing(x, "zeta")
      BY <2>k, <3>1, UpdatePartAfterDone, Zenon
    <3> HIDE DEF x
    <3>3. Straggles(x, "zeta") => EvictsUnbound(x, "zeta")
      BY <2>k, <3>2, UpdatePartAfterDone, Zenon
    <3> QED
      BY <2>1, <3>2, <3>3 DEF UpdateAssertions, Equal, x
  <2>3. CASE stage # "set"
    <3>1. m.dirty = {}
      BY <1>1, <2>3 DEF CoherentInv, Staged
    <3>2. x = m
      BY <3>1 DEF UpdatePartAfter, Straggles, Drawn
    <3>3. ~Straggles(m, "color") /\ ~Straggles(x, "zeta")
      BY <3>1, <3>2 DEF Straggles, Drawn
    <3> QED
      BY <2>1, <3>3 DEF UpdateAssertions, Equal
  <2> QED
    BY <2>2, <2>3
<1>2. CoherentInv /\ [Next]_vars => CoherentInv'
  BY NextCoherent
<1> QED
  BY <1>1, <1>2, InitCoherent, PTL DEF Safety

(* However draws, textures, blits, flips, CPU accesses, the presenter and the
   machine's requests follow one another, and for every layout of the targets,
   a surface that surface_put adds shares no memory with those that
   invalidate_overlapping_surfaces left. *)
THEOREM SurfacesStayApart == Safety => []SurfacesApart
<1>1. CoherentInv => SurfacesApart
  BY DEF CoherentInv, Whole, Sound, Apart, SurfacesApart, Live
<1>2. CoherentInv /\ [Next]_vars => CoherentInv'
  BY NextCoherent
<1> QED
  BY <1>1, <1>2, InitCoherent, PTL DEF Safety

=============================================================================
