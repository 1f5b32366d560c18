------------------------- MODULE Nv2aSurfaceOpsProofs -------------------------
(* What the operations on the surface cache do, for any memory, targets,
   textures, blits and bounds: downloads, uploads, evictions, rebinding and
   pgraph_vk_surface_update keep the surfaces apart and the contents they show. *)
EXTENDS Nv2aSurfaces, TLAPS

Surface ==
  [live : BOOLEAN, kind : Kinds, width : 0..MaxWidth, drawDirty : BOOLEAN,
   download : BOOLEAN, upload : BOOLEAN, img : [Vram -> Values], age : Nat]

Cache ==
  [vram : [Vram -> Values], surf : [Addrs -> Surface],
   bound : [Kinds -> Addrs \cup {Unbound}],
   offset : [Kinds -> Nat], shape : Nat, last : Nat,
   bufferDirty : SUBSET Kinds, dirty : SUBSET Kinds,
   cache : SUBSET Kinds, mask : SUBSET Kinds]

(* No two surfaces of x share a cell. *)
Apart(x) ==
  \A a, b \in Addrs : x.surf[a].live /\ x.surf[b].live /\ a # b =>
    Span(a, x.surf[a].width) \cap Span(b, x.surf[b].width) = {}

(* The targets of x have been set by a draw. *)
Placed(x) == x.offset \in [Kinds -> Addrs] /\ x.shape \in 1..MaxWidth

(* y has no surface x did not have, and the targets of x. *)
Keeps(y, x) ==
  /\ y \in Cache
  /\ \A a \in Addrs : y.surf[a].live =>
       x.surf[a].live /\ y.surf[a].width = x.surf[a].width
  /\ y.offset = x.offset /\ y.shape = x.shape /\ y.dirty \subseteq x.dirty

(* Addresses are natural numbers. *)
LEMMA AddrsAreNat == Addrs \subseteq Nat /\ Unbound \notin Addrs
BY DrawsAssumption DEF Addrs, Unbound

(* The fields of a state of the cache that the operations follow. *)
LEMMA CacheParts ==
  ASSUME NEW x \in Cache
  PROVE  /\ x.surf \in [Addrs -> Surface] /\ x.vram \in [Vram -> Values]
         /\ x.bound \in [Kinds -> Addrs \cup {Unbound}]
         /\ \A k \in Kinds : x.bound[k] \in Addrs \cup {Unbound}
BY DEF Cache

(* What an assignment to one entry of a table leaves. *)
LEMMA ExceptAt ==
  ASSUME NEW A, NEW B, NEW f \in [A -> B], NEW a \in A, NEW v, NEW g,
         g = [f EXCEPT ![a] = v]
  PROVE  g[a] = v /\ \A b \in A \ {a} : g[b] = f[b]
OBVIOUS

(* Operations that only remove surfaces compose. *)
LEMMA KeepsTransitive ==
  ASSUME NEW x, NEW y, NEW z, Keeps(y, x), Keeps(z, y)
  PROVE  Keeps(z, x)
BY DEF Keeps

(* Removing surfaces leaves the others apart. *)
LEMMA KeepsApart ==
  ASSUME NEW x, NEW y, Keeps(y, x), Apart(x)
  PROVE  Apart(y)
BY DEF Keeps, Apart

(* An entry of the cache that holds no surface. *)
LEMMA DeadType == Dead \in Surface
BY ValuesAssumption, WidthAssumption DEF Dead, Surface, Kinds

(* The changes the operations make to one surface. *)
LEMMA ClearedType ==
  ASSUME NEW s \in Surface
  PROVE  [s EXCEPT !.drawDirty = FALSE, !.download = FALSE] \in Surface
BY Zenon DEF Surface

(* A blit makes its destination stale. *)
LEMMA BlittedType ==
  ASSUME NEW s \in Surface
  PROVE  [s EXCEPT !.drawDirty = FALSE, !.download = FALSE, !.upload = TRUE] \in Surface
BY Zenon DEF Surface

(* An upload fills the image. *)
LEMMA UploadedType ==
  ASSUME NEW s \in Surface, NEW i \in [Vram -> Values]
  PROVE  [s EXCEPT !.upload = FALSE, !.img = i] \in Surface
BY Zenon DEF Surface

(* A draw paints the image. *)
LEMMA PaintedType ==
  ASSUME NEW s \in Surface, NEW i \in [Vram -> Values]
  PROVE  [s EXCEPT !.drawDirty = TRUE, !.age = 0, !.img = i] \in Surface
BY Zenon DEF Surface

(* The frame counter of a surface. *)
LEMMA AgedType ==
  ASSUME NEW s \in Surface, NEW n \in Nat
  PROVE  [s EXCEPT !.age = n] \in Surface
BY Zenon DEF Surface

(* The access callback marks a surface for download and upload. *)
LEMMA MarkedType ==
  ASSUME NEW s \in Surface, NEW d \in BOOLEAN, NEW u \in BOOLEAN
  PROVE  [s EXCEPT !.download = d, !.upload = u] \in Surface
BY Zenon DEF Surface

(* download_surface writes images to memory and keeps the surfaces. *)
LEMMA DownloadKeeps ==
  ASSUME NEW x \in Cache, NEW S \in SUBSET Addrs
  PROVE  Keeps(Download(x, S), x)
<1> DEFINE y == Download(x, S)
           source(c) == CHOOSE a \in S : Covers(x, a, c)
<1>1. \A a \in Addrs : [x.surf[a] EXCEPT !.drawDirty = FALSE, !.download = FALSE] \in Surface
  <2>1. x.surf \in [Addrs -> Surface]
    BY DEF Cache
  <2> QED
    BY <2>1, ClearedType, Zenon
<1>2. y.surf \in [Addrs -> Surface]
  BY <1>1, Zenon DEF Download, Cache
<1>3. ASSUME NEW c \in Vram, \E a \in S : Covers(x, a, c)
      PROVE  x.surf[source(c)].img[c] \in Values
  <2>1. source(c) \in Addrs
    BY <1>3
  <2> HIDE DEF source
  <2> QED
    BY <2>1 DEF Cache, Surface
<1>4. y.vram \in [Vram -> Values]
  BY <1>3 DEF Download, Cache
<1>5. y \in Cache
  BY <1>2, <1>4, Zenon DEF Download, Cache
<1>6. \A a \in Addrs : y.surf[a].live => x.surf[a].live /\ y.surf[a].width = x.surf[a].width
  BY DEF Download, Cache, Surface
<1>7. y.offset = x.offset /\ y.shape = x.shape /\ y.dirty = x.dirty
  BY DEF Download, Cache
<1> QED
  BY <1>5, <1>6, <1>7 DEF Keeps

(* Surfaces are kept by the address of their target. *)
LEMMA LiveInAddrs ==
  ASSUME NEW x
  PROVE  Live(x) \subseteq Addrs /\ DrawDirty(x) \subseteq Addrs
BY DEF Live, DrawDirty

(* pgraph_vk_surface_download_if_dirty keeps the surfaces. *)
LEMMA DownloadIfDirtyKeeps ==
  ASSUME NEW x \in Cache, NEW S
  PROVE  Keeps(DownloadIfDirty(x, S), x)
BY DownloadKeeps, LiveInAddrs DEF DownloadIfDirty

(* unbind_surface changes only the bindings. *)
LEMMA UnbindKeeps ==
  ASSUME NEW x \in Cache, NEW K
  PROVE  Keeps(Unbind(x, K), x)
BY DEF Unbind, Keeps, Cache

(* invalidate_surface removes surfaces and their bindings. *)
LEMMA InvalidateKeeps ==
  ASSUME NEW x \in Cache, NEW S
  PROVE  /\ Keeps(Invalidate(x, S), x)
         /\ \A a \in S \cap Addrs : ~Invalidate(x, S).surf[a].live
<1> DEFINE y == Invalidate(x, S)
<1>1. y.surf = [a \in Addrs |-> IF a \in S THEN Dead ELSE x.surf[a]]
  BY DEF Invalidate, Cache
<1>2. y.surf \in [Addrs -> Surface]
  BY <1>1, DeadType DEF Cache
<1>3. y \in Cache
  BY <1>2, Zenon DEF Invalidate, Cache
<1>4. \A a \in Addrs : a \in S => ~y.surf[a].live
  BY <1>1 DEF Dead
<1>5. \A a \in Addrs : y.surf[a].live => x.surf[a].live /\ y.surf[a].width = x.surf[a].width
  BY <1>1, <1>4
<1>6. y.offset = x.offset /\ y.shape = x.shape /\ y.dirty = x.dirty
  BY DEF Invalidate, Cache
<1> QED
  BY <1>3, <1>4, <1>5, <1>6 DEF Keeps

(* An eviction removes exactly surfaces it is asked to remove. *)
LEMMA EvictKeeps ==
  ASSUME NEW x \in Cache, NEW S
  PROVE  /\ Keeps(Evict(x, S), x)
         /\ \A a \in S \cap Addrs : ~Evict(x, S).surf[a].live
<1>1. Keeps(DownloadIfDirty(x, S), x) /\ DownloadIfDirty(x, S) \in Cache
  BY DownloadIfDirtyKeeps DEF Keeps
<1> QED
  BY <1>1, InvalidateKeeps, KeepsTransitive DEF Evict

(* pgraph_vk_upload_surface_data fills images. *)
LEMMA UploadKeeps ==
  ASSUME NEW x \in Cache, NEW S
  PROVE  Keeps(Upload(x, S), x)
<1> DEFINE y == Upload(x, S)
           filled(a) == [c \in Vram |-> IF Covers(x, a, c) THEN x.vram[c] ELSE 0]
<1>1. \A a \in Addrs : filled(a) \in [Vram -> Values]
  BY ValuesAssumption DEF Cache
<1>2. \A a \in Addrs : [x.surf[a] EXCEPT !.upload = FALSE, !.img = filled(a)] \in Surface
  <2>1. x.surf \in [Addrs -> Surface]
    BY DEF Cache
  <2> HIDE DEF filled
  <2> QED
    BY <1>1, <2>1, UploadedType, Zenon
<1>3. y.surf = [a \in Addrs |-> IF a \in S /\ x.surf[a].upload
                 THEN [x.surf[a] EXCEPT !.upload = FALSE, !.img = filled(a)] ELSE x.surf[a]]
  BY DEF Upload, Cache
<1>4. \A a \in Addrs : y.surf[a].live => x.surf[a].live /\ y.surf[a].width = x.surf[a].width
  <2> HIDE DEF filled, y
  <2>1. x.surf \in [Addrs -> Surface]
    BY DEF Cache
  <2>2. \A a \in Addrs :
          LET t == [x.surf[a] EXCEPT !.upload = FALSE, !.img = filled(a)]
          IN t.live = x.surf[a].live /\ t.width = x.surf[a].width
    BY <2>1 DEF Surface
  <2> QED
    BY <1>3, <2>2, Zenon
<1>5. y.surf \in [Addrs -> Surface]
  <2> HIDE DEF filled
  <2> QED
    BY <1>2, <1>3, Zenon DEF Cache
<1>6. y \in Cache /\ y.offset = x.offset /\ y.shape = x.shape /\ y.dirty = x.dirty
  BY <1>5, Zenon DEF Upload, Cache
<1> QED
  BY <1>4, <1>6 DEF Keeps

(* A use of a surface changes its frame time alone. *)
LEMMA TouchKeeps ==
  ASSUME NEW x \in Cache, NEW S
  PROVE  Keeps(Touch(x, S), x)
<1> DEFINE y == Touch(x, S)
<1>1. \A a \in Addrs : [x.surf[a] EXCEPT !.age = 0] \in Surface
  <2>1. x.surf \in [Addrs -> Surface]
    BY DEF Cache
  <2> QED
    BY <2>1, AgedType
<1>2. y.surf = [a \in Addrs |-> IF a \in S THEN [x.surf[a] EXCEPT !.age = 0] ELSE x.surf[a]]
  BY DEF Touch, Cache
<1>3. \A a \in Addrs : y.surf[a].live => x.surf[a].live /\ y.surf[a].width = x.surf[a].width
  BY <1>2 DEF Cache, Surface
<1>4. y \in Cache /\ y.offset = x.offset /\ y.shape = x.shape /\ y.dirty = x.dirty
  BY <1>1, <1>2 DEF Touch, Cache
<1> QED
  BY <1>3, <1>4 DEF Keeps

(* pgraph_vk_surface_flush removes every surface. *)
LEMMA FlushKeeps ==
  ASSUME NEW x \in Cache
  PROVE  Keeps(Flush(x), x)
<1> DEFINE y == Unbind(x, Kinds)
           z == Evict(y, Live(y))
<1>1. Keeps(y, x) /\ y \in Cache
  BY UnbindKeeps DEF Keeps
<1>2. Keeps(z, x)
  BY <1>1, EvictKeeps, KeepsTransitive
<1>3. Flush(x) = [z EXCEPT !.dirty = {}, !.last = 0]
  BY DEF Flush
<1> HIDE DEF z
<1>4. z \in Cache
  BY <1>2 DEF Keeps
<1>5. /\ Flush(x).surf = z.surf /\ Flush(x).offset = z.offset
      /\ Flush(x).shape = z.shape /\ Flush(x).dirty = {}
  BY <1>3, <1>4 DEF Cache
<1>6. Flush(x) \in Cache
  <2>1. \A d \in SUBSET Kinds, n \in Nat : [z EXCEPT !.dirty = d, !.last = n] \in Cache
    BY <1>4, Zenon DEF Cache
  <2>2. {} \in SUBSET Kinds /\ 0 \in Nat
    OBVIOUS
  <2> HIDE DEF y
  <2> QED
    BY <1>3, <2>1, <2>2, Zenon
<1> QED
  BY <1>2, <1>5, <1>6 DEF Keeps

-----------------------------------------------------------------------------
(* z may have a new surface, apart from the others, and has the targets of x. *)
Moves(z, x) ==
  /\ z \in Cache /\ Apart(z)
  /\ z.offset = x.offset /\ z.shape = x.shape /\ z.dirty \subseteq x.dirty

(* populate_surface_binding_target_sized. *)
LEMMA NewSurfaceType ==
  ASSUME NEW k \in Kinds, NEW w \in 0..MaxWidth
  PROVE  NewSurface(k, w) \in Surface
BY ValuesAssumption DEF NewSurface, Surface

(* surface_put: what lies across the new surface has been evicted. *)
LEMMA CreateMoves ==
  ASSUME NEW x \in Cache, Apart(x), Placed(x), NEW k \in Kinds, NEW w \in 0..MaxWidth
  PROVE  Moves(Create(x, k, w), x)
<1> DEFINE a == x.offset[k]
           S == Overlapping(x, Span(a, w))
           y == Evict(x, S)
           z == Create(x, k, w)
<1>1. a \in Addrs
  BY DEF Placed
<1>2. Keeps(y, x) /\ y \in Cache /\ \A b \in S \cap Addrs : ~y.surf[b].live
  BY EvictKeeps DEF Keeps
<1>3. \A b \in Addrs : y.surf[b].live =>
        Span(b, y.surf[b].width) \cap Span(a, w) = {}
  BY <1>2, Zenon DEF Keeps, Overlapping, Live
<1>4. PICK d \in SUBSET Kinds :
        z = [y EXCEPT !.surf = [y.surf EXCEPT ![a] = NewSurface(k, w)],
                      !.bound = [y.bound EXCEPT ![k] = a],
                      !.bufferDirty = d]
  <2> DEFINE e == (IF k = "color" /\ y.bound["zeta"] # Unbound /\ y.surf[y.bound["zeta"]].width # w
                     THEN y.bufferDirty \cup {"zeta"} ELSE y.bufferDirty) \ {k}
  <2>1. y.bufferDirty \in SUBSET Kinds
    BY <1>2 DEF Cache
  <2>2. e \in SUBSET Kinds
    BY <2>1 DEF Kinds
  <2> QED
    BY <2>2, Zenon DEF Create
<1> HIDE DEF y, z, S, a
<1>5. NewSurface(k, w) \in Surface
  BY NewSurfaceType
<1>6. /\ z.surf = [y.surf EXCEPT ![a] = NewSurface(k, w)]
      /\ z.offset = y.offset /\ z.shape = y.shape /\ z.dirty = y.dirty
  BY <1>2, <1>4 DEF Cache
<1>7. y.surf \in [Addrs -> Surface] /\ z.surf \in [Addrs -> Surface]
  BY <1>1, <1>2, <1>5, <1>6 DEF Cache
<1>8. z \in Cache
  <2>1. [y.bound EXCEPT ![k] = a] \in [Kinds -> Addrs \cup {Unbound}]
    BY <1>1, <1>2 DEF Cache
  <2>2. [y.surf EXCEPT ![a] = NewSurface(k, w)] \in [Addrs -> Surface]
    BY <1>6, <1>7
  <2>3. \A f \in [Addrs -> Surface], g \in [Kinds -> Addrs \cup {Unbound}] :
          [y EXCEPT !.surf = f, !.bound = g, !.bufferDirty = d] \in Cache
    BY <1>2, <1>4, Zenon DEF Cache
  <2> QED
    BY <1>4, <2>1, <2>2, <2>3, Zenon
<1>9. Apart(z)
  <2>1. z.surf[a] = NewSurface(k, w) /\ \A b \in Addrs \ {a} : z.surf[b] = y.surf[b]
    BY <1>1, <1>6, <1>7
  <2>2. NewSurface(k, w).width = w
    BY DEF NewSurface
  <2>3. Apart(y)
    BY <1>2, KeepsApart
  <2> SUFFICES ASSUME NEW b \in Addrs, NEW c \in Addrs, b # c,
                      z.surf[b].live, z.surf[c].live
               PROVE  Span(b, z.surf[b].width) \cap Span(c, z.surf[c].width) = {}
    BY DEF Apart
  <2>4. CASE b = a
    BY <1>3, <2>1, <2>2, <2>4
  <2>5. CASE c = a
    BY <1>3, <2>1, <2>2, <2>5
  <2>6. CASE b # a /\ c # a
    BY <2>1, <2>3, <2>6 DEF Apart
  <2> QED
    BY <2>4, <2>5, <2>6
<1>10. z.offset = x.offset /\ z.shape = x.shape /\ z.dirty \subseteq x.dirty
  BY <1>2, <1>6 DEF Keeps
<1> QED
  BY <1>8, <1>9, <1>10 DEF Moves, z

(* A surface that is reused is bound; the surfaces stay. *)
LEMMA ReuseKeeps ==
  ASSUME NEW x \in Cache, Placed(x), NEW k \in Kinds
  PROVE  Keeps(Reuse(x, k), x)
<1> DEFINE b == [x.bound EXCEPT ![k] = x.offset[k]]
           d == (IF k = "color" THEN x.bufferDirty \cup {"zeta"} ELSE x.bufferDirty) \ {k}
           y == Reuse(x, k)
<1>1. b \in [Kinds -> Addrs \cup {Unbound}]
  BY DEF Placed, Cache
<1>2. d \in SUBSET Kinds
  BY DEF Cache, Kinds
<1>3. y = [x EXCEPT !.bound = b, !.bufferDirty = d]
  BY DEF Reuse
<1> HIDE DEF b, d, y
<1>4. y \in Cache /\ y.surf = x.surf
      /\ y.offset = x.offset /\ y.shape = x.shape /\ y.dirty = x.dirty
  BY <1>1, <1>2, <1>3, Zenon DEF Cache
<1> QED
  BY <1>4 DEF Keeps, y

(* A new shape makes both targets dirty. *)
LEMMA ShapeChangeKeeps ==
  ASSUME NEW x \in Cache
  PROVE  Keeps(ShapeChange(x), x)
<1>1. \A d \in SUBSET Kinds, n \in Nat :
        Keeps([x EXCEPT !.last = n, !.bufferDirty = d], x)
  BY Zenon DEF Cache, Keeps
<1>2. Kinds \in SUBSET Kinds /\ x.shape \in Nat
  BY DEF Cache
<1>3. Keeps(x, x)
  BY DEF Keeps
<1> QED
  BY <1>1, <1>2, <1>3, Zenon DEF ShapeChange

-----------------------------------------------------------------------------
(* What was drawn to cell c is in the image of surface a alone. *)
Shows(x, a, c) ==
  x.surf[a].live /\ x.surf[a].drawDirty /\ c \in Span(a, x.surf[a].width)

(* A download is pending only for a surface that was drawn to, and an image that
   is neither drawn to nor stale is what memory has. *)
Images(x) ==
  \A a \in Addrs : x.surf[a].live =>
    /\ x.surf[a].download => x.surf[a].drawDirty
    /\ ~x.surf[a].upload /\ ~x.surf[a].drawDirty =>
         \A c \in Vram : c \in Span(a, x.surf[a].width) => x.surf[a].img[c] = x.vram[c]

Sound(x) == x \in Cache /\ Apart(x) /\ Images(x)

(* The surfaces of y are clean, or as x had them; only the images of those at U
   may have become current. *)
Flags(y, x, U) ==
  \A a \in Addrs : y.surf[a].live =>
    /\ y.surf[a].drawDirty =>
         /\ x.surf[a].live /\ x.surf[a].drawDirty
         /\ y.surf[a].width = x.surf[a].width
         /\ x.surf[a].download => y.surf[a].download
         /\ y.surf[a].upload => x.surf[a].upload
    /\ \/ y.surf[a].upload \/ a \in U
       \/ x.surf[a].live /\ ~x.surf[a].upload /\ y.surf[a].width = x.surf[a].width

(* The guest cannot tell y from x. *)
Steady(y, x, U) == Sound(y) /\ Contents(y) = Contents(x) /\ Flags(y, x, U)

(* At most one surface shows a cell, and it decides what the cell contains. *)
LEMMA ContentsAt ==
  ASSUME NEW x \in Cache, Apart(x), NEW c \in Vram
  PROVE  /\ \A a \in Addrs : Shows(x, a, c) => Contents(x)[c] = x.surf[a].img[c]
         /\ (\A a \in Addrs : ~Shows(x, a, c)) => Contents(x)[c] = x.vram[c]
<1>1. \A a \in Addrs : a \in DrawDirty(x) /\ Covers(x, a, c) <=> Shows(x, a, c)
  BY DEF DrawDirty, Live, Covers, Shows
<1>2. DrawDirty(x) \subseteq Addrs
  BY LiveInAddrs
<1>3. Contents(x)[c] =
        IF \E a \in DrawDirty(x) : Covers(x, a, c)
          THEN x.surf[CHOOSE a \in DrawDirty(x) : Covers(x, a, c)].img[c]
          ELSE x.vram[c]
  BY DEF Contents
<1>4. ASSUME NEW a \in Addrs, Shows(x, a, c)
      PROVE  Contents(x)[c] = x.surf[a].img[c]
  <2> DEFINE b == CHOOSE b \in DrawDirty(x) : Covers(x, b, c)
  <2>1. a \in DrawDirty(x) /\ Covers(x, a, c)
    BY <1>1, <1>4
  <2>2. b \in DrawDirty(x) /\ Covers(x, b, c)
    BY <2>1
  <2>3. Contents(x)[c] = x.surf[b].img[c]
    BY <1>3, <2>1
  <2> HIDE DEF b
  <2>4. b \in Addrs /\ Shows(x, b, c)
    BY <1>1, <1>2, <2>2
  <2>5. b = a
    BY <1>4, <2>4 DEF Shows, Apart
  <2> QED
    BY <2>3, <2>5
<1>5. ASSUME \A a \in Addrs : ~Shows(x, a, c)
      PROVE  Contents(x)[c] = x.vram[c]
  BY <1>1, <1>2, <1>3, <1>5
<1> QED
  BY <1>4, <1>5

(* The contents stay when every cell that stops being shown has been put into
   memory, and no other cell changes. *)
LEMMA SameContents ==
  ASSUME NEW x \in Cache, Apart(x), NEW y \in Cache, Apart(y),
         \A c \in Vram : \A a \in Addrs : Shows(y, a, c) =>
           Shows(x, a, c) /\ y.surf[a].img[c] = x.surf[a].img[c],
         \A c \in Vram : \A a \in Addrs : Shows(x, a, c) =>
           Shows(y, a, c) \/ y.vram[c] = x.surf[a].img[c],
         \A c \in Vram : (\A a \in Addrs : ~Shows(x, a, c)) => y.vram[c] = x.vram[c]
  PROVE  Contents(y) = Contents(x)
<1>1. ASSUME NEW c \in Vram PROVE Contents(y)[c] = Contents(x)[c]
  <2>1. CASE \A a \in Addrs : ~Shows(x, a, c)
    <3>1. \A a \in Addrs : ~Shows(y, a, c)
      BY <2>1
    <3> QED
      BY <2>1, <3>1, ContentsAt
  <2>2. CASE \E a \in Addrs : Shows(x, a, c)
    <3>1. PICK a \in Addrs : Shows(x, a, c)
      BY <2>2
    <3>2. Contents(x)[c] = x.surf[a].img[c]
      BY <3>1, ContentsAt
    <3>3. CASE Shows(y, a, c)
      BY <3>2, <3>3, ContentsAt
    <3>4. CASE ~Shows(y, a, c)
      <4>1. \A b \in Addrs : Shows(x, b, c) => b = a
        BY <3>1, Zenon DEF Shows, Apart
      <4>2. \A b \in Addrs : ~Shows(y, b, c)
        BY <3>4, <4>1
      <4>3. Contents(y)[c] = y.vram[c]
        BY <4>2, ContentsAt
      <4> QED
        BY <3>1, <3>2, <3>4, <4>3
    <3> QED
      BY <3>3, <3>4
  <2> QED
    BY <2>1, <2>2
<1>2. /\ Contents(x) = [c \in Vram |-> Contents(x)[c]]
      /\ Contents(y) = [c \in Vram |-> Contents(y)[c]]
  BY DEF Contents
<1> QED
  BY <1>1, <1>2, Zenon

(* Invisible operations compose. *)
LEMMA SteadyTransitive ==
  ASSUME NEW x, NEW y, NEW z, NEW U, Steady(y, x, U), Steady(z, y, U)
  PROVE  Steady(z, x, U)
<1>1. Flags(z, x, U)
  BY DEF Steady, Flags
<1> QED
  BY <1>1 DEF Steady

(* Doing nothing is invisible. *)
LEMMA SteadyItself ==
  ASSUME NEW x, NEW U, Sound(x)
  PROVE  Steady(x, x, U)
BY DEF Steady, Flags

(* What uploads fewer surfaces uploads no more. *)
LEMMA SteadyMore ==
  ASSUME NEW x, NEW y, NEW U, NEW V, Steady(y, x, U), U \subseteq V
  PROVE  Steady(y, x, V)
BY DEF Steady, Flags

(* A change after which no surface has become current. *)
LEMMA SteadyAny ==
  ASSUME NEW x, NEW y, NEW V, Steady(y, x, {})
  PROVE  Steady(y, x, V)
BY SteadyMore

(* A change that keeps memory and the surfaces. *)
LEMMA SteadySame ==
  ASSUME NEW x, NEW y, NEW U, Sound(x), y \in Cache, y.surf = x.surf, y.vram = x.vram
  PROVE  Steady(y, x, U)
<1>1. Apart(y) /\ Images(y)
  BY DEF Sound, Apart, Images
<1>2. Contents(y) = Contents(x)
  BY DEF Contents, DrawDirty, Live, Covers
<1> QED
  BY <1>1, <1>2 DEF Steady, Sound, Flags

(* download_surface writes to memory what was drawn there last. *)
LEMMA DownloadSteady ==
  ASSUME NEW x, Sound(x), NEW S \in SUBSET DrawDirty(x)
  PROVE  /\ Steady(Download(x, S), x, {})
         /\ \A a \in S : ~Download(x, S).surf[a].drawDirty
<1> DEFINE y == Download(x, S)
           source(c) == CHOOSE a \in S : Covers(x, a, c)
<1>0. x \in Cache /\ S \in SUBSET Addrs /\ Apart(x) /\ Images(x)
      /\ x.surf \in [Addrs -> Surface]
  BY LiveInAddrs DEF Sound, Cache
<1>1. y \in Cache /\ Apart(y)
  BY <1>0, DownloadKeeps, KeepsApart DEF Keeps
<1>2. y.surf = [a \in Addrs |-> IF a \in S
                  THEN [x.surf[a] EXCEPT !.drawDirty = FALSE, !.download = FALSE]
                  ELSE x.surf[a]]
  BY <1>0 DEF Download, Cache
<1>3. y.vram = [c \in Vram |-> IF \E a \in S : Covers(x, a, c)
                                 THEN x.surf[source(c)].img[c] ELSE x.vram[c]]
  BY <1>0 DEF Download, Cache
<1> HIDE DEF y
<1>4. \A a \in Addrs :
        /\ y.surf[a].live = x.surf[a].live /\ y.surf[a].width = x.surf[a].width
        /\ y.surf[a].upload = x.surf[a].upload /\ y.surf[a].img = x.surf[a].img
        /\ a \in S => y.surf[a].drawDirty = FALSE /\ y.surf[a].download = FALSE
        /\ a \notin S => y.surf[a] = x.surf[a]
  <2> TAKE a \in Addrs
  <2>1. CASE a \notin S
    BY <1>2, <2>1, Zenon
  <2>2. CASE a \in S
    <3>1. y.surf[a] = [x.surf[a] EXCEPT !.drawDirty = FALSE, !.download = FALSE]
      BY <1>2, <2>2, Zenon
    <3>2. x.surf[a] \in Surface
      BY <1>0
    <3> QED
      BY <2>2, <3>1, <3>2 DEF Surface
  <2> QED
    BY <2>1, <2>2, Zenon
<1>5. ASSUME NEW c \in Vram, NEW a \in S, Covers(x, a, c)
      PROVE  y.vram[c] = x.surf[a].img[c]
  <2>1. source(c) \in S /\ Covers(x, source(c), c)
    BY <1>5
  <2>2. y.vram[c] = x.surf[source(c)].img[c]
    BY <1>3, <1>5
  <2> HIDE DEF source
  <2>3. source(c) = a
    BY <1>0, <1>5, <2>1 DEF Apart, Covers
  <2> QED
    BY <2>2, <2>3
<1>6. ASSUME NEW c \in Vram, \A a \in S : ~Covers(x, a, c)
      PROVE  y.vram[c] = x.vram[c]
  BY <1>3, <1>6
<1>7. \A a \in S, c \in Vram : Covers(x, a, c) <=> Shows(x, a, c)
  BY DEF Covers, Shows, DrawDirty, Live
<1>8. Contents(y) = Contents(x)
  <2>1. \A c \in Vram : \A a \in Addrs : Shows(y, a, c) =>
          Shows(x, a, c) /\ y.surf[a].img[c] = x.surf[a].img[c]
    BY <1>4 DEF Shows
  <2>2. \A c \in Vram : \A a \in Addrs : Shows(x, a, c) =>
          Shows(y, a, c) \/ y.vram[c] = x.surf[a].img[c]
    BY <1>4, <1>5, <1>7 DEF Shows
  <2>3. \A c \in Vram : (\A a \in Addrs : ~Shows(x, a, c)) => y.vram[c] = x.vram[c]
    BY <1>0, <1>6, <1>7
  <2> QED
    BY <1>0, <1>1, <2>1, <2>2, <2>3, SameContents
<1>9. Images(y)
  <2> SUFFICES ASSUME NEW a \in Addrs, y.surf[a].live
               PROVE  /\ y.surf[a].download => y.surf[a].drawDirty
                      /\ ~y.surf[a].upload /\ ~y.surf[a].drawDirty =>
                           \A c \in Vram : c \in Span(a, y.surf[a].width) =>
                             y.surf[a].img[c] = y.vram[c]
    BY DEF Images
  <2>1. y.surf[a].download => y.surf[a].drawDirty
    BY <1>0, <1>4 DEF Images
  <2>2. ASSUME ~y.surf[a].upload, ~y.surf[a].drawDirty, NEW c \in Vram,
               c \in Span(a, y.surf[a].width)
        PROVE  y.surf[a].img[c] = y.vram[c]
    <3>1. Covers(x, a, c)
      BY <1>4, <2>2 DEF Covers
    <3>2. CASE a \in S
      BY <1>4, <1>5, <3>1, <3>2
    <3>3. CASE a \notin S
      <4>1. \A b \in S : ~Covers(x, b, c)
        BY <1>0, <3>1, <3>3 DEF Apart, Covers
      <4> QED
        BY <1>0, <1>4, <1>6, <2>2, <3>3, <4>1 DEF Images
    <3> QED
      BY <3>2, <3>3
  <2> QED
    BY <2>1, <2>2
<1>10. Flags(y, x, {})
  BY <1>4 DEF Flags
<1> QED
  BY <1>0, <1>1, <1>4, <1>8, <1>9, <1>10 DEF Steady, Sound, y

(* pgraph_vk_surface_download_if_dirty. *)
LEMMA DownloadIfDirtySteady ==
  ASSUME NEW x, Sound(x), NEW S
  PROVE  /\ Steady(DownloadIfDirty(x, S), x, {})
         /\ \A a \in S \cap Addrs : DownloadIfDirty(x, S).surf[a].live =>
              ~DownloadIfDirty(x, S).surf[a].drawDirty
<1> DEFINE T == S \cap DrawDirty(x)
           y == Download(x, T)
<1>1. Steady(y, x, {}) /\ \A a \in T : ~y.surf[a].drawDirty
  BY DownloadSteady
<1> HIDE DEF y
<1>2. ASSUME NEW a \in S \cap Addrs, y.surf[a].live, y.surf[a].drawDirty
      PROVE  FALSE
  <2>1. x.surf[a].live /\ x.surf[a].drawDirty
    BY <1>1, <1>2 DEF Steady, Flags
  <2>2. a \in T
    BY <2>1 DEF DrawDirty, Live
  <2> QED
    BY <1>1, <1>2, <2>2
<1> QED
  BY <1>1, <1>2, Zenon DEF DownloadIfDirty, y

(* invalidate_surface loses nothing once its surface has been downloaded. *)
LEMMA InvalidateSteady ==
  ASSUME NEW x, Sound(x), NEW S,
         \A a \in S \cap Addrs : x.surf[a].live => ~x.surf[a].drawDirty
  PROVE  Steady(Invalidate(x, S), x, {})
<1> DEFINE y == Invalidate(x, S)
<1>0. x \in Cache /\ Apart(x) /\ Images(x)
  BY DEF Sound
<1>1. y \in Cache /\ Apart(y)
  BY <1>0, InvalidateKeeps, KeepsApart DEF Keeps
<1>2. y.surf = [a \in Addrs |-> IF a \in S THEN Dead ELSE x.surf[a]] /\ y.vram = x.vram
  BY <1>0 DEF Invalidate, Cache
<1> HIDE DEF y
<1>3. \A a \in Addrs : /\ a \in S => ~y.surf[a].live
                       /\ a \notin S => y.surf[a] = x.surf[a]
  BY <1>2 DEF Dead
<1>4. Contents(y) = Contents(x)
  <2>1. \A c \in Vram : \A a \in Addrs : Shows(y, a, c) =>
          Shows(x, a, c) /\ y.surf[a].img[c] = x.surf[a].img[c]
    BY <1>3 DEF Shows
  <2>2. \A c \in Vram : \A a \in Addrs : Shows(x, a, c) =>
          Shows(y, a, c) \/ y.vram[c] = x.surf[a].img[c]
    BY <1>3 DEF Shows
  <2>3. \A c \in Vram : (\A a \in Addrs : ~Shows(x, a, c)) => y.vram[c] = x.vram[c]
    BY <1>2
  <2> QED
    BY <1>0, <1>1, <2>1, <2>2, <2>3, SameContents
<1>5. Images(y) /\ Flags(y, x, {})
  BY <1>0, <1>2, <1>3 DEF Images, Flags
<1> QED
  BY <1>1, <1>4, <1>5 DEF Steady, Sound, y

(* An eviction is invisible. *)
LEMMA EvictSteady ==
  ASSUME NEW x, Sound(x), NEW S
  PROVE  Steady(Evict(x, S), x, {})
<1> DEFINE y == DownloadIfDirty(x, S)
<1>1. Steady(y, x, {}) /\ \A a \in S \cap Addrs : y.surf[a].live => ~y.surf[a].drawDirty
  BY DownloadIfDirtySteady
<1> HIDE DEF y
<1>2. Steady(Invalidate(y, S), y, {})
  BY <1>1, InvalidateSteady DEF Steady
<1>3. Steady(Invalidate(y, S), x, {})
  BY <1>1, <1>2, SteadyTransitive
<1> QED
  BY <1>3 DEF Evict, y

(* pgraph_vk_upload_surface_data, of surfaces with nothing drawn that memory does
   not have. *)
LEMMA UploadSteady ==
  ASSUME NEW x, Sound(x), NEW S,
         \A a \in S \cap Addrs : x.surf[a].live /\ x.surf[a].upload => ~x.surf[a].drawDirty
  PROVE  /\ Steady(Upload(x, S), x, S)
         /\ \A a \in S \cap Addrs : ~Upload(x, S).surf[a].upload
         /\ \A a \in Addrs : Upload(x, S).surf[a].drawDirty = x.surf[a].drawDirty
         /\ Upload(x, S).vram = x.vram
<1> DEFINE y == Upload(x, S)
           filled(a) == [c \in Vram |-> IF Covers(x, a, c) THEN x.vram[c] ELSE 0]
<1>0. x \in Cache /\ Apart(x) /\ Images(x) /\ x.surf \in [Addrs -> Surface]
  BY DEF Sound, Cache
<1>1. y \in Cache /\ Apart(y)
  BY <1>0, UploadKeeps, KeepsApart DEF Keeps
<1>2. /\ y.surf = [a \in Addrs |-> IF a \in S /\ x.surf[a].upload
                    THEN [x.surf[a] EXCEPT !.upload = FALSE, !.img = filled(a)]
                    ELSE x.surf[a]]
      /\ y.vram = x.vram
  BY <1>0 DEF Upload, Cache
<1>3. \A a \in Addrs, c \in Vram : Covers(x, a, c) => filled(a)[c] = x.vram[c]
  OBVIOUS
<1> HIDE DEF y, filled
<1>4. \A a \in Addrs :
        /\ y.surf[a].live = x.surf[a].live /\ y.surf[a].width = x.surf[a].width
        /\ y.surf[a].drawDirty = x.surf[a].drawDirty
        /\ y.surf[a].download = x.surf[a].download
        /\ a \in S /\ x.surf[a].upload => ~y.surf[a].upload /\ y.surf[a].img = filled(a)
        /\ ~(a \in S /\ x.surf[a].upload) => y.surf[a] = x.surf[a]
  <2> TAKE a \in Addrs
  <2>1. CASE ~(a \in S /\ x.surf[a].upload)
    BY <1>2, <2>1, Zenon
  <2>2. CASE a \in S /\ x.surf[a].upload
    <3>1. y.surf[a] = [x.surf[a] EXCEPT !.upload = FALSE, !.img = filled(a)]
      BY <1>2, <2>2, Zenon
    <3>2. x.surf[a] \in Surface
      BY <1>0
    <3> QED
      BY <2>2, <3>1, <3>2 DEF Surface
  <2> QED
    BY <2>1, <2>2
<1>5. Contents(y) = Contents(x)
  <2>1. \A c \in Vram : \A a \in Addrs : Shows(y, a, c) =>
          Shows(x, a, c) /\ y.surf[a].img[c] = x.surf[a].img[c]
    BY <1>4 DEF Shows
  <2>2. \A c \in Vram : \A a \in Addrs : Shows(x, a, c) =>
          Shows(y, a, c) \/ y.vram[c] = x.surf[a].img[c]
    BY <1>4 DEF Shows
  <2>3. \A c \in Vram : (\A a \in Addrs : ~Shows(x, a, c)) => y.vram[c] = x.vram[c]
    BY <1>2, Zenon
  <2> QED
    BY <1>0, <1>1, <2>1, <2>2, <2>3, SameContents
<1>6. Images(y)
  <2> SUFFICES ASSUME NEW a \in Addrs, y.surf[a].live
               PROVE  /\ y.surf[a].download => y.surf[a].drawDirty
                      /\ ~y.surf[a].upload /\ ~y.surf[a].drawDirty =>
                           \A c \in Vram : c \in Span(a, y.surf[a].width) =>
                             y.surf[a].img[c] = y.vram[c]
    BY DEF Images
  <2>1. y.surf[a].download => y.surf[a].drawDirty
    BY <1>0, <1>4 DEF Images
  <2>2. ASSUME ~y.surf[a].upload, ~y.surf[a].drawDirty, NEW c \in Vram,
               c \in Span(a, y.surf[a].width)
        PROVE  y.surf[a].img[c] = y.vram[c]
    <3>1. Covers(x, a, c)
      BY <1>4, <2>2 DEF Covers
    <3>2. CASE a \in S /\ x.surf[a].upload
      <4>1. y.surf[a].img = filled(a)
        BY <1>4, <3>2
      <4>2. filled(a)[c] = x.vram[c]
        BY <1>3, <3>1
      <4> QED
        BY <1>2, <4>1, <4>2, Zenon
    <3>3. CASE ~(a \in S /\ x.surf[a].upload)
      <4>1. y.surf[a] = x.surf[a]
        BY <1>4, <3>3
      <4>2. y.vram = x.vram
        BY <1>2, Zenon
      <4>3. /\ x.surf[a].live /\ ~x.surf[a].upload /\ ~x.surf[a].drawDirty
            /\ c \in Span(a, x.surf[a].width)
        BY <2>2, <4>1
      <4>4. x.surf[a].img[c] = x.vram[c]
        BY <1>0, <4>3 DEF Images
      <4> QED
        BY <4>1, <4>2, <4>4
    <3> QED
      BY <3>2, <3>3
  <2> QED
    BY <2>1, <2>2
<1>7. Flags(y, x, S)
  BY <1>4 DEF Flags
<1>8. \A a \in S \cap Addrs : ~y.surf[a].upload
  BY <1>4
<1> QED
  BY <1>1, <1>2, <1>4, <1>5, <1>6, <1>7, <1>8, Zenon DEF Steady, Sound, y

(* The fields of a surface a use of it leaves alone. *)
LEMMA TouchFields ==
  ASSUME NEW x \in Cache, NEW S, NEW a \in Addrs
  PROVE  LET s == Touch(x, S).surf[a]
             t == x.surf[a]
         IN /\ s.live = t.live /\ s.kind = t.kind /\ s.width = t.width
            /\ s.drawDirty = t.drawDirty /\ s.download = t.download
            /\ s.upload = t.upload /\ s.img = t.img
            /\ a \in S => s.age = 0
<1> DEFINE y == Touch(x, S)
<1>1. x.surf[a] \in Surface
  BY DEF Cache
<1>2. y.surf[a] = IF a \in S THEN [x.surf[a] EXCEPT !.age = 0] ELSE x.surf[a]
  BY DEF Touch, Cache
<1> HIDE DEF y
<1>3. CASE a \in S
  BY <1>1, <1>2, <1>3 DEF Surface, y
<1>4. CASE a \notin S
  BY <1>2, <1>4 DEF y
<1> QED
  BY <1>3, <1>4

(* The same for its size and for what tells whether it is current. *)
LEMMA TouchFlags ==
  ASSUME NEW x \in Cache, NEW S, NEW a \in Addrs
  PROVE  /\ Touch(x, S).surf[a].live = x.surf[a].live
         /\ Touch(x, S).surf[a].width = x.surf[a].width
         /\ Touch(x, S).surf[a].drawDirty = x.surf[a].drawDirty
         /\ Touch(x, S).surf[a].upload = x.surf[a].upload
         /\ a \in S => Touch(x, S).surf[a].age = 0
BY TouchFields

(* A use of a surface is invisible. *)
LEMMA TouchSteady ==
  ASSUME NEW x, Sound(x), NEW S
  PROVE  Steady(Touch(x, S), x, {})
<1> DEFINE y == Touch(x, S)
<1>0. x \in Cache /\ Apart(x) /\ Images(x)
  BY DEF Sound
<1>1. y \in Cache /\ Apart(y)
  BY <1>0, TouchKeeps, KeepsApart DEF Keeps
<1>2. y.vram = x.vram
  BY <1>0 DEF Touch, Cache
<1>3. \A a \in Addrs :
        /\ y.surf[a].live = x.surf[a].live /\ y.surf[a].width = x.surf[a].width
        /\ y.surf[a].drawDirty = x.surf[a].drawDirty
        /\ y.surf[a].download = x.surf[a].download
        /\ y.surf[a].upload = x.surf[a].upload /\ y.surf[a].img = x.surf[a].img
  BY <1>0, TouchFields
<1> HIDE DEF y
<1>4. Contents(y) = Contents(x)
  <2>1. \A c \in Vram : \A a \in Addrs : Shows(y, a, c) <=> Shows(x, a, c)
    BY <1>3 DEF Shows
  <2> QED
    BY <1>0, <1>1, <1>2, <1>3, <2>1, SameContents
<1>5. Images(y) /\ Flags(y, x, {})
  BY <1>0, <1>2, <1>3 DEF Images, Flags
<1> QED
  BY <1>1, <1>4, <1>5 DEF Steady, Sound, y

(* expire_old_surfaces is invisible. *)
LEMMA ExpireOldSteady ==
  ASSUME NEW x, Sound(x)
  PROVE  Steady(ExpireOld(x), x, {})
BY EvictSteady DEF ExpireOld

(* unbind_surface is invisible. *)
LEMMA UnbindSteady ==
  ASSUME NEW x, Sound(x), NEW K
  PROVE  Steady(Unbind(x, K), x, {})
<1>1. Unbind(x, K) \in Cache
  BY UnbindKeeps DEF Sound, Keeps
<1>2. Unbind(x, K).surf = x.surf /\ Unbind(x, K).vram = x.vram
  BY DEF Unbind, Sound, Cache
<1> QED
  BY <1>1, <1>2, SteadySame

(* So is a flush. *)
LEMMA FlushSteady ==
  ASSUME NEW x, Sound(x)
  PROVE  Steady(Flush(x), x, {})
<1> DEFINE y == Unbind(x, Kinds)
           z == Evict(y, Live(y))
<1>1. Steady(y, x, {})
  BY UnbindSteady
<1> HIDE DEF y
<1>2. Steady(z, y, {})
  BY <1>1, EvictSteady DEF Steady
<1>3. Flush(x) = [z EXCEPT !.dirty = {}, !.last = 0]
  BY DEF Flush, y
<1> HIDE DEF z
<1>4. Flush(x) \in Cache
  BY FlushKeeps DEF Sound, Keeps
<1>5. Flush(x).surf = z.surf /\ Flush(x).vram = z.vram
  BY <1>2, <1>3 DEF Steady, Sound, Cache
<1>6. Steady(Flush(x), z, {})
  BY <1>2, <1>4, <1>5, SteadySame DEF Steady
<1> QED
  BY <1>1, <1>2, <1>6, SteadyTransitive

-----------------------------------------------------------------------------
(* The registers of PGRAPH in x and the flags of its targets. *)
Settings(y, x) ==
  /\ y.offset = x.offset /\ y.shape = x.shape /\ y.last = x.last
  /\ y.bufferDirty = x.bufferDirty /\ y.dirty = x.dirty
  /\ y.cache = x.cache /\ y.mask = x.mask

(* A bound surface exists; unless its target has changed, it is the one at the
   target, and large enough for the last draw. *)
Bindings(x) ==
  \A k \in Kinds : x.bound[k] # Unbound =>
    /\ x.surf[x.bound[k]].live
    /\ k \notin x.bufferDirty =>
         x.bound[k] = x.offset[k] /\ x.surf[x.bound[k]].width >= x.last

(* The color and the zeta surface have the same dimensions. *)
Equal(x) ==
  x.bound["color"] # Unbound /\ x.bound["zeta"] # Unbound =>
    x.surf[x.bound["color"]].width = x.surf[x.bound["zeta"]].width

(* A surface is as large as some draw to its address. *)
Sized(x) ==
  \A a \in Addrs : x.surf[a].live =>
    \E d \in Draws : a \in {d.color, d.zeta} /\ d.width <= x.surf[a].width

Targets(d) == [k \in Kinds |-> IF k = "color" THEN d.color ELSE d.zeta]

(* The registers hold the targets of a draw. *)
Aimed(x) == \E d \in Draws : x.offset = Targets(d) /\ x.shape = d.width

(* y has lost surfaces of x and bindings, but not those in K. *)
Sheds(y, x, K) ==
  /\ y \in Cache /\ Settings(y, x)
  /\ \A a \in Addrs : y.surf[a].live =>
       x.surf[a].live /\ y.surf[a].width = x.surf[a].width
  /\ \A k \in Kinds :
       /\ y.bound[k] # Unbound =>
            y.bound[k] = x.bound[k] /\ (x.surf[x.bound[k]].live => y.surf[x.bound[k]].live)
       /\ k \in K => y.bound[k] = x.bound[k]

(* Addresses and widths. *)
LEMMA AimedTargets ==
  ASSUME NEW x, Aimed(x)
  PROVE  /\ x.offset \in [Kinds -> Addrs] /\ x.shape \in 1..MaxWidth
         /\ x.offset["color"] # x.offset["zeta"]
         /\ Span(x.offset["color"], x.shape) \cap Span(x.offset["zeta"], x.shape) = {}
         /\ Placed(x)
<1>1. PICK d \in Draws : x.offset = Targets(d) /\ x.shape = d.width
  BY DEF Aimed
<1>2. d.color \in Nat /\ d.zeta \in Nat /\ d.width \in 1..MaxWidth
      /\ Span(d.color, d.width) \cap Span(d.zeta, d.width) = {}
  BY DrawsAssumption
<1>3. d.color \in Addrs /\ d.zeta \in Addrs
  BY DEF Addrs
<1>4. d.color # d.zeta
  BY <1>2, WidthAssumption DEF Span
<1> QED
  BY <1>1, <1>2, <1>3, <1>4 DEF Targets, Kinds, Placed

(* Losing surfaces and bindings keeps what is true of them. *)
LEMMA ShedsBindings ==
  ASSUME NEW x \in Cache, NEW y, NEW K, Sheds(y, x, K)
  PROVE  /\ Bindings(x) => Bindings(y)
         /\ Bindings(x) /\ Equal(x) => Equal(y)
         /\ Sized(x) => Sized(y)
         /\ Aimed(x) => Aimed(y)
<1>1. \A k \in Kinds : x.bound[k] # Unbound => x.bound[k] \in Addrs
  BY DEF Cache
<1>2. Bindings(x) => Bindings(y)
  BY <1>1 DEF Bindings, Sheds, Settings
<1>3. ASSUME Bindings(x), Equal(x) PROVE Equal(y)
  BY <1>1, <1>3 DEF Bindings, Equal, Sheds, Kinds
<1>4. Sized(x) => Sized(y)
  BY DEF Sized, Sheds
<1>5. Aimed(x) => Aimed(y)
  BY DEF Aimed, Sheds, Settings
<1> QED
  BY <1>2, <1>3, <1>4, <1>5

(* Losses add up. *)
LEMMA ShedsTransitive ==
  ASSUME NEW x \in Cache, NEW y, NEW z, NEW K, NEW L, Sheds(y, x, K), Sheds(z, y, L)
  PROVE  Sheds(z, x, K \cap L)
<1>1. z \in Cache
  BY Zenon DEF Sheds
<1>2. Settings(z, x)
  BY Zenon DEF Sheds, Settings
<1>3. \A a \in Addrs : z.surf[a].live =>
        x.surf[a].live /\ z.surf[a].width = x.surf[a].width
  BY Zenon DEF Sheds
<1>4. ASSUME NEW k \in Kinds
      PROVE  /\ z.bound[k] # Unbound =>
                  z.bound[k] = x.bound[k] /\ (x.surf[x.bound[k]].live => z.surf[x.bound[k]].live)
             /\ k \in K \cap L => z.bound[k] = x.bound[k]
  BY Zenon DEF Sheds
<1> QED
  BY <1>1, <1>2, <1>3, <1>4, Zenon DEF Sheds

(* A download loses nothing. *)
LEMMA DownloadSheds ==
  ASSUME NEW x \in Cache, NEW S \in SUBSET Addrs
  PROVE  /\ Sheds(Download(x, S), x, Kinds)
         /\ \A a \in Addrs \ S : Download(x, S).surf[a] = x.surf[a]
         /\ \A a \in Addrs : Download(x, S).surf[a].live = x.surf[a].live
<1> DEFINE y == Download(x, S)
<1>1. y \in Cache
  BY DownloadKeeps DEF Keeps
<1>2. Settings(y, x) /\ y.bound = x.bound
  BY DEF Download, Cache, Settings
<1>3. y.surf = [a \in Addrs |-> IF a \in S
                  THEN [x.surf[a] EXCEPT !.drawDirty = FALSE, !.download = FALSE]
                  ELSE x.surf[a]]
  BY DEF Download, Cache
<1> HIDE DEF y
<1>4. \A a \in Addrs : y.surf[a].live = x.surf[a].live /\ y.surf[a].width = x.surf[a].width
  <2> TAKE a \in Addrs
  <2>1. x.surf[a] \in Surface
    BY DEF Cache
  <2>2. CASE a \in S
    BY <1>3, <2>1, <2>2, Zenon DEF Surface
  <2>3. CASE a \notin S
    BY <1>3, <2>3, Zenon
  <2> QED
    BY <2>2, <2>3
<1>5. \A a \in Addrs \ S : y.surf[a] = x.surf[a]
  BY <1>3, Zenon
<1>6. \A k \in Kinds : x.bound[k] # Unbound => x.bound[k] \in Addrs
  BY DEF Cache
<1> QED
  BY <1>1, <1>2, <1>4, <1>5, <1>6 DEF Sheds, y

(* Nor does one of dirty surfaces. *)
LEMMA DownloadIfDirtySheds ==
  ASSUME NEW x \in Cache, NEW S
  PROVE  /\ Sheds(DownloadIfDirty(x, S), x, Kinds)
         /\ \A a \in Addrs \ S : DownloadIfDirty(x, S).surf[a] = x.surf[a]
         /\ \A a \in Addrs : DownloadIfDirty(x, S).surf[a].live = x.surf[a].live
BY DownloadSheds, LiveInAddrs DEF DownloadIfDirty

(* An eviction loses what it is asked to, with its bindings. *)
LEMMA EvictSheds ==
  ASSUME NEW x \in Cache, NEW S
  PROVE  /\ Sheds(Evict(x, S), x, {k \in Kinds : x.bound[k] \notin S})
         /\ \A a \in Addrs \ S : Evict(x, S).surf[a] = x.surf[a]
         /\ \A a \in S \cap Addrs : ~Evict(x, S).surf[a].live
<1> DEFINE y == DownloadIfDirty(x, S)
           z == Invalidate(y, S)
<1>1. Sheds(y, x, Kinds) /\ y \in Cache /\ \A a \in Addrs \ S : y.surf[a] = x.surf[a]
  <2>1. Sheds(y, x, Kinds)
    BY DownloadIfDirtySheds, Zenon
  <2>2. \A a \in Addrs \ S : y.surf[a] = x.surf[a]
    BY DownloadIfDirtySheds, Zenon
  <2> QED
    BY <2>1, <2>2, Zenon DEF Sheds
<1> HIDE DEF y
<1>2. z \in Cache
  BY <1>1, InvalidateKeeps DEF Keeps
<1>3. /\ Settings(z, y)
      /\ z.surf = [a \in Addrs |-> IF a \in S THEN Dead ELSE y.surf[a]]
      /\ z.bound = [k \in Kinds |-> IF y.bound[k] \in S THEN Unbound ELSE y.bound[k]]
  BY <1>1 DEF Invalidate, Cache, Settings
<1> HIDE DEF z
<1>4. /\ \A a \in Addrs \ S : z.surf[a] = x.surf[a]
      /\ \A a \in S \cap Addrs : ~z.surf[a].live
  BY <1>1, <1>3 DEF Dead
<1>5. \A k \in Kinds : y.bound[k] = x.bound[k] /\ (x.bound[k] # Unbound => x.bound[k] \in Addrs)
  BY <1>1 DEF Sheds, Cache
<1>6. Settings(z, x)
  BY <1>1, <1>3 DEF Sheds, Settings
<1>7. ASSUME NEW k \in Kinds
      PROVE  /\ z.bound[k] # Unbound =>
                  z.bound[k] = x.bound[k] /\ (x.surf[x.bound[k]].live => z.surf[x.bound[k]].live)
             /\ x.bound[k] \notin S => z.bound[k] = x.bound[k]
  BY <1>3, <1>4, <1>5
<1>8. Sheds(z, x, {k \in Kinds : x.bound[k] \notin S})
  BY <1>2, <1>4, <1>6, <1>7 DEF Sheds
<1> QED
  BY <1>4, <1>8 DEF Evict, y, z

(* unbind_surface loses bindings. *)
LEMMA UnbindSheds ==
  ASSUME NEW x \in Cache, NEW K
  PROVE  /\ Sheds(Unbind(x, K), x, Kinds \ K)
         /\ Unbind(x, K).surf = x.surf
         /\ \A k \in Kinds \cap K : Unbind(x, K).bound[k] = Unbound
<1> DEFINE y == Unbind(x, K)
<1>1. y \in Cache
  BY UnbindKeeps DEF Keeps
<1>2. Settings(y, x) /\ y.surf = x.surf
      /\ y.bound = [k \in Kinds |-> IF k \in K THEN Unbound ELSE x.bound[k]]
  BY DEF Unbind, Cache, Settings
<1> QED
  BY <1>1, <1>2 DEF Sheds

(* An upload loses nothing. *)
LEMMA UploadSheds ==
  ASSUME NEW x \in Cache, NEW S
  PROVE  /\ Sheds(Upload(x, S), x, Kinds)
         /\ \A a \in Addrs : Upload(x, S).surf[a].live = x.surf[a].live
         /\ \A a \in Addrs : Upload(x, S).surf[a].age = x.surf[a].age
<1> DEFINE y == Upload(x, S)
           filled(a) == [c \in Vram |-> IF Covers(x, a, c) THEN x.vram[c] ELSE 0]
<1>1. y \in Cache
  BY UploadKeeps DEF Keeps
<1>2. Settings(y, x) /\ y.bound = x.bound
  BY DEF Upload, Cache, Settings
<1>3. y.surf = [a \in Addrs |-> IF a \in S /\ x.surf[a].upload
                    THEN [x.surf[a] EXCEPT !.upload = FALSE, !.img = filled(a)]
                    ELSE x.surf[a]]
  BY DEF Upload, Cache
<1> HIDE DEF y, filled
<1>4. \A a \in Addrs : /\ y.surf[a].live = x.surf[a].live
                       /\ y.surf[a].width = x.surf[a].width
                       /\ y.surf[a].age = x.surf[a].age
  <2> TAKE a \in Addrs
  <2>1. x.surf[a] \in Surface
    BY DEF Cache
  <2>2. CASE a \in S /\ x.surf[a].upload
    <3>1. y.surf[a] = [x.surf[a] EXCEPT !.upload = FALSE, !.img = filled(a)]
      BY <1>3, <2>2, Zenon
    <3> QED
      BY <2>1, <3>1 DEF Surface
  <2>3. CASE ~(a \in S /\ x.surf[a].upload)
    BY <1>3, <2>3, Zenon
  <2> QED
    BY <2>2, <2>3
<1>5. \A k \in Kinds : x.bound[k] # Unbound => x.bound[k] \in Addrs
  BY DEF Cache
<1> QED
  BY <1>1, <1>2, <1>4, <1>5 DEF Sheds, y

(* Nor does a use. *)
LEMMA TouchSheds ==
  ASSUME NEW x \in Cache, NEW S
  PROVE  /\ Sheds(Touch(x, S), x, Kinds)
         /\ \A a \in Addrs : Touch(x, S).surf[a].live = x.surf[a].live
<1> DEFINE y == Touch(x, S)
<1>1. y \in Cache
  BY TouchKeeps DEF Keeps
<1>2. Settings(y, x) /\ y.bound = x.bound
  BY DEF Touch, Cache, Settings
<1>3. \A a \in Addrs : y.surf[a].live = x.surf[a].live /\ y.surf[a].width = x.surf[a].width
  BY TouchFields
<1> HIDE DEF y
<1>4. \A k \in Kinds : x.bound[k] # Unbound => x.bound[k] \in Addrs
  BY DEF Cache
<1> QED
  BY <1>1, <1>2, <1>3, <1>4 DEF Sheds, y

-----------------------------------------------------------------------------
(* surface_put adds a surface that is clean and stale, where there was none. *)
LEMMA CreateSteady ==
  ASSUME NEW x, Sound(x), Sized(x), Aimed(x), NEW k \in Kinds,
         NEW w \in 1..MaxWidth
  PROVE  Steady(Create(x, k, w), x, {})
<1> DEFINE a == x.offset[k]
           S == Overlapping(x, Span(a, w))
           y == Evict(x, S)
           z == Create(x, k, w)
<1>0. x \in Cache /\ Apart(x) /\ a \in Addrs /\ Placed(x)
  BY AimedTargets DEF Sound
<1>1. Steady(y, x, {})
  BY EvictSteady
<1>2. \A b \in S \cap Addrs : ~y.surf[b].live
  BY <1>0, EvictSheds, Zenon
<1>3. Moves(z, x)
  <2>1. w \in 0..MaxWidth
    BY WidthAssumption
  <2> QED
    BY <1>0, <2>1, CreateMoves
<1>4. ~y.surf[a].live
  <2>1. CASE x.surf[a].live
    <3>1. PICK d \in Draws : d.width <= x.surf[a].width
      BY <1>0, <2>1 DEF Sized
    <3>2. d.width >= 1 /\ d.width \in Nat /\ x.surf[a].width \in Nat
      BY <1>0, DrawsAssumption, WidthAssumption DEF Cache, Surface
    <3>3. a \in Nat
      BY <1>0, AddrsAreNat, Zenon
    <3>4. a \in Span(a, x.surf[a].width) /\ a \in Span(a, w)
      <4> DEFINE n == x.surf[a].width
      <4> HIDE DEF a, n
      <4>1. n >= 1 /\ n \in Nat
        BY <3>1, <3>2 DEF n
      <4>2. a \in Span(a, n) /\ a \in Span(a, w)
        BY <3>3, <4>1, WidthAssumption DEF Span
      <4> QED
        BY <4>2 DEF n
    <3> HIDE DEF y
    <3>5. a \in S
      BY <1>0, <2>1, <3>4 DEF Overlapping, Live
    <3> QED
      BY <1>0, <1>2, <3>5
  <2>2. CASE ~x.surf[a].live
    <3>1. Sheds(y, x, {j \in Kinds : x.bound[j] \notin S})
      BY <1>0, EvictSheds, Zenon
    <3> HIDE DEF y
    <3> QED
      BY <1>0, <2>2, <3>1, Zenon DEF Sheds
  <2> QED
    BY <2>1, <2>2
<1>5. y \in Cache /\ Apart(y) /\ Images(y)
  BY <1>1 DEF Steady, Sound
<1>6. z.surf = [y.surf EXCEPT ![a] = NewSurface(k, w)] /\ z.vram = y.vram
  <2> HIDE DEF y
  <2>1. PICK g, d : z = [y EXCEPT !.surf = [y.surf EXCEPT ![a] = NewSurface(k, w)],
                                  !.bound = g, !.bufferDirty = d]
    BY Zenon DEF Create, y
  <2> QED
    BY <1>5, <2>1 DEF Cache
<1>7. z \in Cache /\ Apart(z)
  BY <1>3 DEF Moves
<1> HIDE DEF y, z, a, S
<1>8. z.surf[a] = NewSurface(k, w) /\ \A b \in Addrs : b # a => z.surf[b] = y.surf[b]
  <2>1. y.surf \in [Addrs -> Surface]
    BY <1>5 DEF Cache
  <2> QED
    BY <1>0, <1>6, <2>1
<1>9. /\ ~z.surf[a].drawDirty /\ ~z.surf[a].download /\ z.surf[a].upload
  BY <1>8 DEF NewSurface
<1>10. Contents(z) = Contents(y)
  <2>1. \A c \in Vram : \A b \in Addrs : Shows(z, b, c) <=> Shows(y, b, c)
    BY <1>4, <1>8, <1>9 DEF Shows
  <2>2. \A c \in Vram : \A b \in Addrs : Shows(y, b, c) => z.surf[b].img[c] = y.surf[b].img[c]
    BY <1>4, <1>8 DEF Shows
  <2> QED
    BY <1>5, <1>6, <1>7, <2>1, <2>2, SameContents, Zenon
<1>11. Images(z) /\ Flags(z, y, {})
  <2>1. \A b \in Addrs : z.surf[b].live =>
          \/ b = a
          \/ b # a /\ y.surf[b].live /\ z.surf[b] = y.surf[b]
    BY <1>8, Zenon
  <2>2. Images(y)
    BY <1>5, Zenon DEF Sound
  <2>3. Images(z)
    <3> SUFFICES ASSUME NEW b \in Addrs, z.surf[b].live
                 PROVE  /\ z.surf[b].download => z.surf[b].drawDirty
                        /\ ~z.surf[b].upload /\ ~z.surf[b].drawDirty =>
                             \A c \in Vram : c \in Span(b, z.surf[b].width) =>
                               z.surf[b].img[c] = z.vram[c]
      BY Zenon DEF Images
    <3>1. CASE b = a
      BY <1>9, <3>1, Zenon
    <3>2. CASE b # a
      <4>1. y.surf[b].live /\ z.surf[b] = y.surf[b]
        BY <2>1, <3>2, Zenon
      <4> QED
        BY <1>6, <2>2, <4>1, Zenon DEF Images
    <3> QED
      BY <3>1, <3>2, Zenon
  <2>4. Flags(z, y, {})
    BY <1>9, <2>1, Zenon DEF Flags
  <2> QED
    BY <2>3, <2>4, Zenon
<1>12. Steady(z, y, {})
  BY <1>7, <1>10, <1>11 DEF Steady, Sound
<1> QED
  BY <1>1, <1>12, SteadyTransitive DEF z

(* A surface that is reused is bound. *)
LEMMA ReuseSteady ==
  ASSUME NEW x, Sound(x), Aimed(x), NEW k \in Kinds
  PROVE  Steady(Reuse(x, k), x, {})
<1>1. x \in Cache /\ Placed(x)
  BY AimedTargets DEF Sound
<1>2. Reuse(x, k) \in Cache
  BY <1>1, ReuseKeeps DEF Keeps
<1>3. Reuse(x, k).surf = x.surf /\ Reuse(x, k).vram = x.vram
  BY <1>1 DEF Reuse, Cache
<1> QED
  BY <1>2, <1>3, SteadySame

(* update_surface_part is invisible. *)
LEMMA RebindSteady ==
  ASSUME NEW x, Sound(x), Sized(x), Aimed(x), NEW k \in Kinds,
         TargetWidth(x, k) \in 1..MaxWidth
  PROVE  Steady(Rebind(x, k), x, {})
<1> DEFINE w == TargetWidth(x, k)
           y == Rebinding(x, k)
<1>1. Steady(y, x, {})
  BY UnbindSteady DEF Rebinding
<1>2. PICK K : Sheds(y, x, K)
  BY UnbindSheds, Zenon DEF Rebinding, Sound
<1>3. Sound(y) /\ Sized(y) /\ Aimed(y)
  BY <1>1, <1>2, ShedsBindings DEF Steady, Sound
<1>4. Rebind(x, k) = IF Compatible(y, k, w) THEN Reuse(y, k) ELSE Create(y, k, w)
  BY DEF Rebind
<1> HIDE DEF y, w
<1>5. Steady(Create(y, k, w), y, {}) /\ Steady(Reuse(y, k), y, {})
  BY <1>3, CreateSteady, ReuseSteady DEF w
<1>6. Steady(Rebind(x, k), y, {})
  BY <1>4, <1>5
<1> QED
  BY <1>1, <1>6, SteadyTransitive

(* z is x after target k was given a surface: its registers, and of its other
   bindings those whose surfaces were not evicted. *)
SameRegisters(z, x) ==
  /\ z.offset = x.offset /\ z.shape = x.shape /\ z.last = x.last
  /\ z.dirty = x.dirty /\ z.cache = x.cache /\ z.mask = x.mask

Given(z, x, k) ==
  /\ z.bound[k] = x.offset[k]
  /\ z.surf[x.offset[k]].live /\ z.surf[x.offset[k]].width >= TargetWidth(x, k)
  /\ ~x.surf[x.offset[k]].live => z.surf[x.offset[k]].width = TargetWidth(x, k)
  /\ \A a \in Addrs : a # x.offset[k] /\ z.surf[a].live => x.surf[a].live
  /\ k \notin z.bufferDirty /\ x.bufferDirty \subseteq z.bufferDirty \cup {k}
  /\ k = "zeta" => z.bufferDirty = x.bufferDirty \ {k}

OthersStay(z, x, k) ==
  \A o \in Kinds \ {k} :
    /\ z.bound[o] # Unbound =>
         /\ z.bound[o] = x.bound[o]
         /\ x.surf[x.bound[o]].live =>
              /\ z.surf[x.bound[o]].live
              /\ z.surf[x.bound[o]].width = x.surf[x.bound[o]].width
         /\ o \notin z.bufferDirty =>
              z.surf[z.bound[o]].width = z.surf[z.bound[k]].width
    /\ EvictsUnbound(x, k) /\ o \notin x.bufferDirty /\ x.bound[o] # x.offset[k]
         => z.bound[o] = x.bound[o]

Gives(z, x, k) ==
  /\ z \in Cache /\ Sized(z) /\ SameRegisters(z, x)
  /\ Given(z, x, k) /\ OthersStay(z, x, k)

(* The target before it is given a surface: it is not bound, nor is another
   target to the surface at its address. *)
LEMMA RebindingFacts ==
  ASSUME NEW x \in Cache, NEW k \in Kinds
  PROVE  LET y == Rebinding(x, k) IN
         /\ y \in Cache /\ y.surf = x.surf /\ Settings(y, x)
         /\ y.bound[k] = Unbound
         /\ \A o \in Kinds \ {k} :
              y.bound[o] = IF x.bound[o] = x.offset[k] THEN Unbound ELSE x.bound[o]
<1> DEFINE K == {k} \cup {o \in Kinds : x.bound[o] = x.offset[k]}
           y == Unbind(x, K)
<1>1. y \in Cache
  BY UnbindKeeps DEF Keeps
<1>2. Settings(y, x) /\ y.surf = x.surf
      /\ y.bound = [o \in Kinds |-> IF o \in K THEN Unbound ELSE x.bound[o]]
  BY DEF Unbind, Cache, Settings
<1>3. /\ y.bound[k] = Unbound
      /\ \A o \in Kinds \ {k} :
           y.bound[o] = IF x.bound[o] = x.offset[k] THEN Unbound ELSE x.bound[o]
  BY <1>2
<1> QED
  BY <1>1, <1>2, <1>3, Zenon DEF Rebinding

(* A compatible surface is reused. *)
LEMMA ReuseGives ==
  ASSUME NEW x \in Cache, Sized(x), Aimed(x), NEW k \in Kinds,
         Compatible(Rebinding(x, k), k, TargetWidth(x, k))
  PROVE  Gives(Reuse(Rebinding(x, k), k), x, k)
<1> DEFINE w == TargetWidth(x, k)
           y == Rebinding(x, k)
           z == Reuse(y, k)
           a == x.offset[k]
<1>0. a \in Addrs
  BY AimedTargets
<1>1. /\ y \in Cache /\ y.surf = x.surf /\ Settings(y, x)
      /\ y.bound[k] = Unbound
      /\ \A o \in Kinds \ {k} :
           y.bound[o] = IF x.bound[o] = x.offset[k] THEN Unbound ELSE x.bound[o]
  BY RebindingFacts
<1>2. Compatible(y, k, w)
  OBVIOUS
<1> HIDE DEF y
<1>3. z \in Cache
  <2>1. Placed(y)
    BY <1>1, AimedTargets DEF Settings, Placed
  <2> QED
    BY <1>1, <2>1, ReuseKeeps DEF Keeps
<1>4. /\ z.surf = y.surf /\ z.bound = [y.bound EXCEPT ![k] = y.offset[k]]
      /\ z.bufferDirty = (IF k = "color" THEN y.bufferDirty \cup {"zeta"}
                           ELSE y.bufferDirty) \ {k}
      /\ SameRegisters(z, y)
  BY <1>1 DEF Reuse, Cache, SameRegisters
<1> HIDE DEF z
<1>5. SameRegisters(z, x) /\ z.surf = x.surf
  BY <1>1, <1>4 DEF SameRegisters, Settings
<1>6. z.bound[k] = a /\ \A o \in Kinds \ {k} : z.bound[o] = y.bound[o]
  <2>1. y.bound \in [Kinds -> Addrs \cup {Unbound}]
    BY <1>1, CacheParts, Zenon
  <2>2. z.bound = [y.bound EXCEPT ![k] = y.offset[k]]
    BY <1>4, Zenon
  <2>3. z.bound[k] = y.offset[k] /\ \A o \in Kinds \ {k} : z.bound[o] = y.bound[o]
    BY <2>1, <2>2, ExceptAt, Zenon
  <2>4. y.offset[k] = a
    BY <1>1, Zenon DEF Settings
  <2> QED
    BY <2>3, <2>4, Zenon
<1>7. x.surf[a].live /\ x.surf[a].width >= w
  BY <1>1, <1>2, Zenon DEF Compatible, Settings
<1>8. k \notin z.bufferDirty /\ x.bufferDirty \subseteq z.bufferDirty \cup {k}
      /\ (k = "zeta" => z.bufferDirty = x.bufferDirty \ {k})
      /\ (k = "color" => "zeta" \in z.bufferDirty)
  BY <1>1, <1>4 DEF Settings
<1>9. Given(z, x, k)
  BY <1>5, <1>6, <1>7, <1>8, Zenon DEF Given, w
<1>10. k = "zeta" /\ y.bound["color"] # Unbound =>
         x.surf[a].width = x.surf[y.bound["color"]].width
  BY <1>1, <1>2, Zenon DEF Compatible, Settings
<1>11. OthersStay(z, x, k)
  <2> SUFFICES ASSUME NEW o \in Kinds \ {k}
               PROVE  /\ z.bound[o] # Unbound =>
                           /\ z.bound[o] = x.bound[o]
                           /\ o \notin z.bufferDirty =>
                                z.surf[z.bound[o]].width = z.surf[z.bound[k]].width
                      /\ x.bound[o] # x.offset[k] => z.bound[o] = x.bound[o]
    BY <1>5, Zenon DEF OthersStay
  <2>1. z.bound[o] = IF x.bound[o] = x.offset[k] THEN Unbound ELSE x.bound[o]
    BY <1>1, <1>6
  <2>2. ASSUME z.bound[o] # Unbound, o \notin z.bufferDirty
        PROVE  z.surf[z.bound[o]].width = z.surf[z.bound[k]].width
    <3>1. k = "zeta" /\ o = "color"
      BY <1>8, <2>2 DEF Kinds
    <3> QED
      BY <1>5, <1>6, <1>10, <2>2, <3>1
  <2> QED
    BY <2>1, <2>2, Zenon
<1>12. Sized(z)
  BY <1>5 DEF Sized
<1> QED
  BY <1>3, <1>5, <1>9, <1>11, <1>12 DEF Gives, z, y

(* Where no surface is compatible a new one is put in place of what lies across
   it. *)
LEMMA CreateGives ==
  ASSUME NEW x \in Cache, Sized(x), Aimed(x), Bindings(x), NEW k \in Kinds,
         TargetWidth(x, k) \in 1..MaxWidth, TargetWidth(x, k) >= x.shape,
         ~Compatible(Rebinding(x, k), k, TargetWidth(x, k))
  PROVE  Gives(Create(Rebinding(x, k), k, TargetWidth(x, k)), x, k)
<1> DEFINE w == TargetWidth(x, k)
           y == Rebinding(x, k)
           a == y.offset[k]
           S == Overlapping(y, Span(a, w))
           e == Evict(y, S)
           z == Create(y, k, w)
           zeta == e.bound["zeta"]
           d == (IF k = "color" /\ zeta # Unbound /\ e.surf[zeta].width # w
                   THEN e.bufferDirty \cup {"zeta"} ELSE e.bufferDirty) \ {k}
<1>1. /\ y \in Cache /\ y.surf = x.surf /\ Settings(y, x)
      /\ y.bound[k] = Unbound
      /\ \A o \in Kinds \ {k} :
           y.bound[o] = IF x.bound[o] = x.offset[k] THEN Unbound ELSE x.bound[o]
  BY RebindingFacts
<1>2. ~Compatible(y, k, w) /\ w \in 1..MaxWidth /\ w >= x.shape
  OBVIOUS
<1>u. EvictsUnbound(x, k) => \A o \in Kinds : y.bound[o] \in S => o \in y.bufferDirty
  BY DEF EvictsUnbound
<1>4. z = [e EXCEPT !.surf = [e.surf EXCEPT ![a] = NewSurface(k, w)],
                    !.bound = [e.bound EXCEPT ![k] = a], !.bufferDirty = d]
  BY DEF Create
<1>t. w = TargetWidth(x, k)
  OBVIOUS
<1> HIDE DEF y, S, w
<1>3. Sheds(e, y, {o \in Kinds : y.bound[o] \notin S}) /\ e \in Cache
      /\ \A b \in Addrs \ S : e.surf[b] = y.surf[b]
  <2>1. Sheds(e, y, {o \in Kinds : y.bound[o] \notin S})
    BY <1>1, EvictSheds, Zenon
  <2>2. \A b \in Addrs \ S : e.surf[b] = y.surf[b]
    BY <1>1, EvictSheds, Zenon
  <2> QED
    BY <2>1, <2>2, Zenon DEF Sheds
<1> HIDE DEF e
<1>5. /\ z.surf = [e.surf EXCEPT ![a] = NewSurface(k, w)]
      /\ z.bound = [e.bound EXCEPT ![k] = a] /\ z.bufferDirty = d /\ SameRegisters(z, e)
  <2> HIDE DEF d, z
  <2> QED
    BY <1>3, <1>4 DEF Cache, SameRegisters
<1>6. a = x.offset[k] /\ a \in Addrs
  BY <1>1, AimedTargets, Zenon DEF Settings
<1>7. z.surf[a].live /\ z.surf[a].width = w /\ z.surf \in [Addrs -> Surface]
      /\ \A b \in Addrs \ {a} : z.surf[b] = e.surf[b]
  <2>1. e.surf \in [Addrs -> Surface] /\ NewSurface(k, w) \in Surface
    <3>1. e.surf \in [Addrs -> Surface]
      BY <1>3, CacheParts, Zenon
    <3>2. w \in 0..MaxWidth
      BY <1>2, WidthAssumption
    <3> QED
      BY <3>1, <3>2, NewSurfaceType, Zenon
  <2> QED
    <3>1. z.surf \in [Addrs -> Surface]
      BY <1>5, <2>1, Zenon
    <3>2. z.surf[a] = NewSurface(k, w) /\ \A b \in Addrs \ {a} : z.surf[b] = e.surf[b]
      BY <1>5, <1>6, <2>1, ExceptAt, Zenon
    <3>3. NewSurface(k, w).live /\ NewSurface(k, w).width = w
      BY DEF NewSurface
    <3> QED
      BY <3>1, <3>2, <3>3, Zenon
<1>8. z.bound[k] = a /\ \A o \in Kinds \ {k} : z.bound[o] = e.bound[o]
  BY <1>3, <1>5, Zenon DEF Cache
<1>9. SameRegisters(z, x) /\ e.bufferDirty = x.bufferDirty
  BY <1>1, <1>3, <1>5, Zenon DEF SameRegisters, Sheds, Settings
<1>10. k \notin z.bufferDirty /\ x.bufferDirty \subseteq z.bufferDirty \cup {k}
       /\ (k = "zeta" => z.bufferDirty = x.bufferDirty \ {k})
  BY <1>5, <1>9, Zenon
<1>11. Given(z, x, k)
  <2>1. \A b \in Addrs : b # a /\ z.surf[b].live => x.surf[b].live
    BY <1>1, <1>3, <1>7, Zenon DEF Sheds
  <2> QED
    <3>1. z.surf[a].width >= w
      <4>1. \A i \in 1..MaxWidth : i >= i
        BY WidthAssumption
      <4> QED
        BY <1>2, <1>7, <4>1, Zenon
    <3> QED
      BY <1>6, <1>7, <1>8, <1>10, <1>t, <2>1, <3>1, Zenon DEF Given
<1>12. \A o \in Kinds \ {k} :
         /\ e.bound[o] # Unbound => e.bound[o] = y.bound[o] /\ e.bound[o] = x.bound[o]
         /\ e.bound[o] # Unbound => e.bound[o] \in Addrs /\ e.bound[o] # a
         /\ y.bound[o] \notin S => e.bound[o] = y.bound[o]
  <2> TAKE o \in Kinds \ {k}
  <2>1. e.bound[o] # Unbound => e.bound[o] = y.bound[o]
    BY <1>3, Zenon DEF Sheds
  <2>2. y.bound[o] \notin S => e.bound[o] = y.bound[o]
    BY <1>3, Zenon DEF Sheds
  <2>3. y.bound[o] # Unbound => y.bound[o] = x.bound[o] /\ y.bound[o] # x.offset[k]
    BY <1>1, Zenon
  <2>4. e.bound[o] \in Addrs \cup {Unbound}
    BY <1>3, CacheParts, Zenon
  <2> QED
    BY <1>6, <2>1, <2>2, <2>3, <2>4, Zenon
<1>13. ASSUME NEW o \in Kinds \ {k}, z.bound[o] # Unbound
       PROVE  /\ z.bound[o] = x.bound[o]
              /\ z.surf[x.bound[o]] = e.surf[x.bound[o]]
              /\ x.surf[x.bound[o]].live
              /\ z.surf[x.bound[o]].live
              /\ z.surf[x.bound[o]].width = x.surf[x.bound[o]].width
  <2> DEFINE b == x.bound[o]
  <2>1. z.bound[o] = b /\ b \in Addrs /\ b # a /\ e.bound[o] = b /\ y.bound[o] = b /\ b # Unbound
    BY <1>8, <1>12, <1>13, Zenon
  <2>2. x.surf[b].live
    BY <2>1, Zenon DEF Bindings
  <2> HIDE DEF b
  <2>3. e.surf[b].live /\ e.surf[b].width = y.surf[b].width
    BY <1>1, <1>3, <2>1, <2>2, Zenon DEF Sheds
  <2> QED
    BY <1>1, <1>7, <2>1, <2>2, <2>3, Zenon DEF b
<1>14. ASSUME NEW o \in Kinds \ {k}, z.bound[o] # Unbound, o \notin z.bufferDirty
       PROVE  z.surf[z.bound[o]].width = w
  <2>0. z.bound[o] = x.bound[o] /\ z.surf[z.bound[o]].width = x.surf[x.bound[o]].width
        /\ z.surf[z.bound[o]] = e.surf[z.bound[o]]
    BY <1>13, <1>14, Zenon
  <2>1. CASE k = "zeta"
    <3>1. o = "color" /\ x.bound["color"] # Unbound
      BY <1>14, <2>0, <2>1 DEF Kinds
    <3>2. w = x.surf[x.bound["color"]].width
      BY <1>t, <2>1, <3>1 DEF TargetWidth
    <3> QED
      BY <2>0, <3>1, <3>2, Zenon
  <2>2. CASE k = "color"
    <3>1. o = "zeta" /\ zeta = z.bound[o]
      BY <1>8, <2>2, Zenon DEF Kinds
    <3>2. "zeta" \notin d
      BY <1>5, <1>14, <3>1, Zenon
    <3>3. ~(zeta # Unbound /\ e.surf[zeta].width # w)
      BY <2>2, <3>2, Zenon
    <3> QED
      BY <1>14, <2>0, <3>1, <3>3, Zenon
  <2> QED
    BY <2>1, <2>2, Zenon DEF Kinds
<1>15. ASSUME NEW o \in Kinds \ {k}, EvictsUnbound(x, k), o \notin x.bufferDirty,
              x.bound[o] # x.offset[k]
       PROVE  z.bound[o] = x.bound[o]
  <2>1. y.bound[o] = x.bound[o] /\ o \notin y.bufferDirty
    BY <1>1, <1>15 DEF Settings
  <2>2. y.bound[o] \notin S
    BY <1>u, <1>15, <2>1
  <2> QED
    BY <1>8, <1>12, <2>1, <2>2
<1>16. OthersStay(z, x, k)
  BY <1>7, <1>8, <1>13, <1>14, <1>15, Zenon DEF OthersStay
<1>17. Sized(z)
  <2> SUFFICES ASSUME NEW b \in Addrs, z.surf[b].live
               PROVE  \E f \in Draws : b \in {f.color, f.zeta} /\ f.width <= z.surf[b].width
    BY DEF Sized
  <2>1. CASE b = a
    <3>1. PICK f \in Draws : x.offset = Targets(f) /\ x.shape = f.width
      BY DEF Aimed
    <3>2. a \in {f.color, f.zeta}
      BY <1>6, <3>1, Zenon DEF Targets, Kinds
    <3> QED
      BY <1>2, <1>7, <2>1, <3>1, <3>2, Zenon
  <2>2. CASE b # a
    <3>1. e.surf[b].live /\ z.surf[b].width = e.surf[b].width
      BY <1>7, <2>2
    <3>2. x.surf[b].live /\ e.surf[b].width = x.surf[b].width
      BY <1>1, <1>3, <3>1, Zenon DEF Sheds
    <3> QED
      BY <3>1, <3>2, Zenon DEF Sized
  <2> QED
    BY <2>1, <2>2
<1>18. z \in Cache
  <2>1. e.bound \in [Kinds -> Addrs \cup {Unbound}]
    BY <1>3, Zenon DEF Cache
  <2>2. [e.bound EXCEPT ![k] = a] \in [Kinds -> Addrs \cup {Unbound}]
    BY <1>6, <2>1
  <2>3. d \in SUBSET Kinds
    BY <1>3 DEF Cache, Kinds
  <2>4. \A f \in [Addrs -> Surface], g \in [Kinds -> Addrs \cup {Unbound}], h \in SUBSET Kinds :
          [e EXCEPT !.surf = f, !.bound = g, !.bufferDirty = h] \in Cache
    BY <1>3, Zenon DEF Cache
  <2>5. [e.surf EXCEPT ![a] = NewSurface(k, w)] \in [Addrs -> Surface]
    BY <1>5, <1>7, Zenon
  <2> HIDE DEF d, z
  <2> QED
    BY <1>4, <2>2, <2>3, <2>4, <2>5, Zenon
<1> QED
  BY <1>9, <1>11, <1>16, <1>17, <1>18, Zenon DEF Gives, y, w

(* update_surface_part gives the target a surface. *)
LEMMA RebindGives ==
  ASSUME NEW x \in Cache, Sized(x), Aimed(x), Bindings(x), NEW k \in Kinds,
         TargetWidth(x, k) \in 1..MaxWidth, TargetWidth(x, k) >= x.shape
  PROVE  Gives(Rebind(x, k), x, k)
BY CreateGives, ReuseGives DEF Rebind

-----------------------------------------------------------------------------
(* What is true of the cache between two methods. *)
Whole(x) == Sound(x) /\ Sized(x) /\ Bindings(x) /\ Equal(x)

(* In the update before a draw: the last shape is that of the draw. *)
Midway(x) == Sound(x) /\ Sized(x) /\ Bindings(x) /\ Aimed(x) /\ x.last = x.shape

(* A bound target is one that has not changed. *)
Current(x, k) == x.bound[k] # Unbound => k \notin x.bufferDirty

(* Widths are ordered. *)
LEMMA Wider ==
  ASSUME NEW a \in Nat, NEW b \in Nat, NEW c \in Nat, a >= b, b >= c
  PROVE  a >= c
OBVIOUS

(* Giving a target a surface keeps the bindings right. *)
LEMMA GivesBindings ==
  ASSUME NEW x \in Cache, NEW z, NEW k \in Kinds, Gives(z, x, k), Bindings(x),
         TargetWidth(x, k) \in Nat, TargetWidth(x, k) >= x.last
  PROVE  Bindings(z)
<1>0. z \in Cache /\ x.last \in Nat /\ z.last = x.last /\ z.offset = x.offset
  BY DEF Gives, SameRegisters, Cache
<1> SUFFICES ASSUME NEW o \in Kinds, z.bound[o] # Unbound
             PROVE  /\ z.surf[z.bound[o]].live
                    /\ o \notin z.bufferDirty =>
                         z.bound[o] = z.offset[o] /\ z.surf[z.bound[o]].width >= z.last
  BY DEF Bindings
<1>1. CASE o = k
  <2>1. z.bound[o] \in Addrs
    BY <1>0 DEF Cache
  <2>2. z.surf[z.bound[o]].width \in Nat
    BY <1>0, <2>1 DEF Cache, Surface
  <2>3. z.bound[o] = x.offset[o] /\ z.surf[z.bound[o]].live
        /\ z.surf[z.bound[o]].width >= TargetWidth(x, k)
    BY <1>1 DEF Gives, Given
  <2>4. TargetWidth(x, k) >= z.last /\ z.last \in Nat
    BY <1>0, Zenon
  <2>5. z.surf[z.bound[o]].width >= z.last
    BY <2>2, <2>3, <2>4, Wider, Zenon
  <2> QED
    BY <1>0, <2>3, <2>5, Zenon
<1>2. CASE o # k
  <2>1. /\ z.bound[o] = x.bound[o]
        /\ x.surf[x.bound[o]].live =>
              /\ z.surf[x.bound[o]].live
              /\ z.surf[x.bound[o]].width = x.surf[x.bound[o]].width
    BY <1>2, Zenon DEF Gives, OthersStay
  <2>2. o \notin z.bufferDirty => o \notin x.bufferDirty
    BY <1>2 DEF Gives, Given
  <2> QED
    BY <1>0, <2>1, <2>2 DEF Bindings
<1> QED
  BY <1>1, <1>2

(* The width of a target in the update before a draw. *)
LEMMA MidwayWidth ==
  ASSUME NEW x, Midway(x), Current(x, "color"), NEW k \in Kinds
  PROVE  TargetWidth(x, k) \in 1..MaxWidth /\ TargetWidth(x, k) >= x.shape
<1>1. x \in Cache /\ x.shape \in 1..MaxWidth /\ x.last = x.shape
  BY AimedTargets DEF Midway, Sound
<1>2. x.shape \in Nat /\ x.shape >= 1 /\ MaxWidth \in Nat
  BY <1>1, WidthAssumption
<1>3. CASE k = "zeta" /\ x.bound["color"] # Unbound
  <2>1. x.bound["color"] \in Addrs
    BY <1>1, <1>3 DEF Cache, Kinds
  <2>2. x.surf[x.bound["color"]].width \in 0..MaxWidth
    BY <1>1, <2>1 DEF Cache, Surface
  <2>3. x.surf[x.bound["color"]].width >= x.last
    BY <1>3 DEF Midway, Bindings, Current, Kinds
  <2>4. TargetWidth(x, k) = x.surf[x.bound["color"]].width
    BY <1>3 DEF TargetWidth
  <2> QED
    BY <1>1, <1>2, <2>2, <2>3, <2>4
<1>4. CASE ~(k = "zeta" /\ x.bound["color"] # Unbound)
  <2>1. TargetWidth(x, k) = x.shape
    BY <1>4 DEF TargetWidth
  <2> QED
    BY <1>1, <1>2, <2>1
<1> QED
  BY <1>3, <1>4

(* A new shape makes the targets dirty; the surfaces stay. *)
LEMMA ShapeChangeMidway ==
  ASSUME NEW x, Whole(x), Aimed(x)
  PROVE  LET s == ShapeChange(x) IN
         /\ Midway(s) /\ Equal(s) /\ Steady(s, x, {})
         /\ s.offset = x.offset /\ s.shape = x.shape /\ s.mask = x.mask
         /\ s.dirty = x.dirty /\ s.cache = x.cache
<1> DEFINE s == ShapeChange(x)
<1>1. x \in Cache
  BY DEF Whole, Sound
<1>2. s \in Cache
  BY <1>1, ShapeChangeKeeps DEF Keeps
<1>3. /\ s.surf = x.surf /\ s.vram = x.vram /\ s.bound = x.bound
      /\ s.offset = x.offset /\ s.shape = x.shape /\ s.mask = x.mask
      /\ s.dirty = x.dirty /\ s.cache = x.cache /\ s.last = s.shape
      /\ (s.bufferDirty = x.bufferDirty /\ s.last = x.last) \/ s.bufferDirty = Kinds
  BY <1>1 DEF ShapeChange, Cache
<1> HIDE DEF s
<1>4. Steady(s, x, {})
  BY <1>2, <1>3, SteadySame, Zenon DEF Whole
<1>5. Bindings(s) /\ Equal(s) /\ Sized(s) /\ Aimed(s)
  BY <1>3, Zenon DEF Whole, Bindings, Equal, Sized, Aimed
<1> QED
  BY <1>3, <1>4, <1>5, Zenon DEF Midway, Steady, s

(* A dirty target loses its binding. *)
LEMMA UnbindDirtyMidway ==
  ASSUME NEW x, Midway(x), NEW k \in Kinds
  PROVE  LET y == UnbindDirty(x, k) IN
         /\ Midway(y) /\ Current(y, k) /\ Steady(y, x, {}) /\ Settings(y, x)
         /\ y.surf = x.surf
         /\ \A o \in Kinds : y.bound[o] = IF o = k /\ k \in x.bufferDirty
                                            THEN Unbound ELSE x.bound[o]
<1> DEFINE y == UnbindDirty(x, k)
<1>0. x \in Cache /\ Sound(x)
  BY DEF Midway, Sound
<1>1. CASE k \in x.bufferDirty
  <2>1. y = Unbind(x, {k})
    BY <1>1 DEF UnbindDirty
  <2>2. Sheds(y, x, Kinds \ {k}) /\ y.surf = x.surf /\ y.bound[k] = Unbound
    <3>1. Sheds(Unbind(x, {k}), x, Kinds \ {k}) /\ Unbind(x, {k}).surf = x.surf
      BY <1>0, UnbindSheds
    <3>2. \A o \in Kinds \cap {k} : Unbind(x, {k}).bound[o] = Unbound
      BY <1>0, UnbindSheds, Zenon
    <3> QED
      BY <2>1, <3>1, <3>2
  <2>3. Steady(y, x, {})
    BY <1>0, <2>1, UnbindSteady
  <2> HIDE DEF y
  <2>4. Bindings(y) /\ Sized(y) /\ Aimed(y)
    BY <1>0, <2>2, ShedsBindings DEF Midway
  <2>5. Settings(y, x) /\ \A o \in Kinds : o # k => y.bound[o] = x.bound[o]
    BY <2>2 DEF Sheds
  <2>6. Midway(y) /\ Current(y, k)
    BY <2>2, <2>3, <2>4, <2>5 DEF Midway, Steady, Settings, Current
  <2> QED
    BY <1>1, <2>2, <2>3, <2>5, <2>6 DEF y
<1>2. CASE k \notin x.bufferDirty
  <2>1. y = x
    BY <1>2 DEF UnbindDirty
  <2>2. Steady(x, x, {})
    BY <1>0, SteadyItself
  <2> QED
    BY <1>2, <2>1, <2>2 DEF Current, Settings
<1> QED
  BY <1>1, <1>2, Zenon

(* update_surface_part before a draw. *)
LEMMA UpdatePartMidway ==
  ASSUME NEW x, Midway(x), Current(x, "color"), NEW k \in Kinds
  PROVE  LET z == UpdatePart(x, k) IN
         /\ Midway(z) /\ Steady(z, x, {}) /\ SameRegisters(z, x)
         /\ (z = x /\ ~Rebinds(x, k)) \/ (Gives(z, x, k) /\ Rebinds(x, k))
<1> DEFINE z == UpdatePart(x, k)
<1> SUFFICES /\ Midway(z) /\ Steady(z, x, {}) /\ SameRegisters(z, x)
             /\ (z = x /\ ~Rebinds(x, k)) \/ (Gives(z, x, k) /\ Rebinds(x, k))
  OBVIOUS
<1>0. x \in Cache /\ Sound(x) /\ Sized(x) /\ Aimed(x) /\ Bindings(x)
  BY DEF Midway, Sound
<1>1. TargetWidth(x, k) \in 1..MaxWidth /\ TargetWidth(x, k) >= x.shape
  BY MidwayWidth
<1>2. CASE Rebinds(x, k)
  <2>1. z = Rebind(x, k)
    BY <1>2 DEF UpdatePart
  <2>2. Steady(z, x, {}) /\ Gives(z, x, k)
    BY <1>0, <1>1, <2>1, RebindSteady, RebindGives
  <2> HIDE DEF z
  <2>3. TargetWidth(x, k) \in Nat /\ TargetWidth(x, k) >= x.last
    BY <1>1, WidthAssumption DEF Midway
  <2>4. Bindings(z)
    BY <1>0, <2>2, <2>3, GivesBindings
  <2>5. Midway(z) /\ SameRegisters(z, x)
    BY <2>2, <2>4, Zenon DEF Midway, Gives, Steady, SameRegisters, Aimed
  <2> QED
    BY <1>2, <2>2, <2>5
<1>3. CASE ~Rebinds(x, k)
  <2>1. z = x
    BY <1>3 DEF UpdatePart
  <2>2. Steady(x, x, {}) /\ SameRegisters(x, x)
    BY <1>0, SteadyItself DEF SameRegisters
  <2> HIDE DEF z
  <2>3. Steady(z, x, {}) /\ SameRegisters(z, x) /\ Midway(z)
    BY <2>1, <2>2
  <2> QED
    BY <1>3, <2>1, <2>3
<1> QED
  BY <1>2, <1>3

(* Bound surfaces are surfaces. *)
LEMMA BoundAtAddrs ==
  ASSUME NEW x \in Cache
  PROVE  /\ BoundAt(x) \subseteq Addrs
         /\ \A k \in Kinds : x.bound[k] # Unbound => x.bound[k] \in BoundAt(x)
<1>1. \A k \in Kinds : x.bound[k] # Unbound => x.bound[k] \in Addrs
  BY DEF Cache
<1> QED
  BY <1>1 DEF BoundAt

(* expire_old_surfaces does not take a surface that was just used. *)
LEMMA ExpireOldKeepsUsed ==
  ASSUME NEW x \in Cache, \A k \in Kinds : x.bound[k] # Unbound => x.surf[x.bound[k]].age = 0
  PROVE  /\ Sheds(ExpireOld(x), x, Kinds)
         /\ \A k \in Kinds : x.bound[k] # Unbound =>
              ExpireOld(x).surf[x.bound[k]] = x.surf[x.bound[k]]
<1> DEFINE S == {a \in Live(x) : x.surf[a].age >= MaxAge}
<1>1. ExpireOld(x) = Evict(x, S)
  BY DEF ExpireOld
<1>2. \A k \in Kinds : x.bound[k] \notin S
  <2> SUFFICES ASSUME NEW k \in Kinds, x.bound[k] \in S PROVE FALSE
    OBVIOUS
  <2>1. x.bound[k] \in Addrs
    BY DEF Live
  <2>2. x.bound[k] # Unbound
    BY <2>1, AddrsAreNat
  <2> QED
    BY <2>2, WidthAssumption
<1> HIDE DEF S
<1>3. {k \in Kinds : x.bound[k] \notin S} = Kinds
  BY <1>2
<1>4. Sheds(Evict(x, S), x, Kinds) /\ \A a \in Addrs \ S : Evict(x, S).surf[a] = x.surf[a]
  <2>1. Sheds(Evict(x, S), x, {k \in Kinds : x.bound[k] \notin S})
    BY EvictSheds
  <2>2. \A a \in Addrs \ S : Evict(x, S).surf[a] = x.surf[a]
    BY EvictSheds, Zenon
  <2> QED
    BY <1>3, <2>1, <2>2, Zenon
<1>5. \A k \in Kinds : x.bound[k] # Unbound => x.bound[k] \in Addrs
  BY DEF Cache
<1> QED
  BY <1>1, <1>2, <1>4, <1>5

(* The end of the update before a change of state. *)
LEMMA TouchBoundDone ==
  ASSUME NEW x, Sound(x)
  PROVE  Steady(TouchBound(x), x, {}) /\ Sheds(TouchBound(x), x, Kinds)
<1> DEFINE y == Touch(x, BoundAt(x))
<1>0. x \in Cache
  BY DEF Sound
<1>1. Steady(y, x, {}) /\ Sheds(y, x, Kinds)
  BY <1>0, TouchSteady, TouchSheds
<1>2. \A k \in Kinds : y.bound[k] # Unbound => y.surf[y.bound[k]].age = 0
  <2> TAKE k \in Kinds
  <2> HAVE y.bound[k] # Unbound
  <2>1. y.bound[k] = x.bound[k]
    BY <1>1, Zenon DEF Sheds
  <2>2. x.bound[k] \in BoundAt(x) /\ x.bound[k] \in Addrs
    BY <1>0, <2>1, BoundAtAddrs
  <2> QED
    <3>1. LET s == Touch(x, BoundAt(x)).surf[x.bound[k]]
          IN x.bound[k] \in BoundAt(x) => s.age = 0
      BY <1>0, <2>2, TouchFlags, Zenon
    <3> QED
      BY <2>1, <2>2, <3>1, Zenon
<1> HIDE DEF y
<1>3. y \in Cache /\ Sound(y)
  BY <1>1 DEF Steady, Sound
<1>4. Steady(ExpireOld(y), y, {}) /\ Sheds(ExpireOld(y), y, Kinds)
  BY <1>2, <1>3, ExpireOldSteady, ExpireOldKeepsUsed
<1>5. Steady(ExpireOld(y), x, {}) /\ Sheds(ExpireOld(y), x, Kinds)
  <2>1. Sheds(ExpireOld(y), x, Kinds \cap Kinds)
    BY <1>0, <1>1, <1>4, ShedsTransitive
  <2>2. Kinds \cap Kinds = Kinds
    OBVIOUS
  <2> QED
    BY <1>1, <1>4, <2>1, <2>2, SteadyTransitive
<1> QED
  BY <1>5 DEF TouchBound, y

(* The end of the update before a draw: the bound surfaces are uploaded. *)
LEMMA UploadBoundDone ==
  ASSUME NEW x, Sound(x),
         \A a \in BoundAt(x) : x.surf[a].live /\ x.surf[a].upload => ~x.surf[a].drawDirty
  PROVE  /\ Steady(UploadBound(x), x, BoundAt(x)) /\ Sheds(UploadBound(x), x, Kinds)
         /\ \A k \in Kinds : x.bound[k] # Unbound =>
              ~UploadBound(x).surf[x.bound[k]].upload
<1> DEFINE B == BoundAt(x)
           p == Touch(x, B)
           q == Upload(p, B)
<1>0. x \in Cache /\ B \subseteq Addrs
      /\ \A k \in Kinds : x.bound[k] # Unbound => x.bound[k] \in B
  BY BoundAtAddrs DEF Sound
<1>r. UploadBound(x) = ExpireOld(q)
  BY DEF UploadBound
<1>s. \A a \in B : x.surf[a].live /\ x.surf[a].upload => ~x.surf[a].drawDirty
  OBVIOUS
<1> HIDE DEF B
<1>1. Steady(p, x, {}) /\ Sheds(p, x, Kinds)
  BY <1>0, TouchSteady, TouchSheds
<1>2. \A a \in Addrs :
        /\ p.surf[a].live = x.surf[a].live /\ p.surf[a].drawDirty = x.surf[a].drawDirty
        /\ p.surf[a].upload = x.surf[a].upload /\ (a \in B => p.surf[a].age = 0)
  <2> TAKE a \in Addrs
  <2>1. LET s == Touch(x, B).surf[a]
            t == x.surf[a]
        IN /\ s.live = t.live /\ s.drawDirty = t.drawDirty /\ s.upload = t.upload
           /\ a \in B => s.age = 0
    BY <1>0, TouchFlags, Zenon
  <2> QED
    BY <2>1, Zenon
<1> HIDE DEF p
<1>3. p \in Cache /\ Sound(p)
  BY <1>1 DEF Steady, Sound
<1>4. \A a \in B \cap Addrs : p.surf[a].live /\ p.surf[a].upload => ~p.surf[a].drawDirty
  BY <1>2, <1>s
<1>5. Steady(q, p, B) /\ \A a \in B \cap Addrs : ~q.surf[a].upload
  BY <1>3, <1>4, UploadSteady
<1>6. Sheds(q, p, Kinds) /\ \A a \in Addrs : q.surf[a].age = p.surf[a].age
  BY <1>3, UploadSheds
<1> HIDE DEF q
<1>7. q \in Cache /\ Sound(q)
  BY <1>5 DEF Steady, Sound
<1>8. \A k \in Kinds : q.bound[k] = x.bound[k]
  BY <1>1, <1>6, Zenon DEF Sheds
<1>9. \A k \in Kinds : x.bound[k] # Unbound =>
        q.surf[x.bound[k]].age = 0 /\ ~q.surf[x.bound[k]].upload
  BY <1>0, <1>2, <1>5, <1>6, Zenon
<1>10. /\ Steady(ExpireOld(q), q, {}) /\ Sheds(ExpireOld(q), q, Kinds)
       /\ \A k \in Kinds : q.bound[k] # Unbound =>
            ExpireOld(q).surf[q.bound[k]] = q.surf[q.bound[k]]
  BY <1>7, <1>8, <1>9, ExpireOldSteady, ExpireOldKeepsUsed, Zenon
<1>11. Steady(ExpireOld(q), x, B)
  <2>1. Steady(p, x, B) /\ Steady(ExpireOld(q), q, B)
    BY <1>1, <1>10, SteadyAny, Zenon
  <2> QED
    BY <1>5, <2>1, SteadyTransitive
<1>12. Sheds(ExpireOld(q), x, Kinds)
  <2>1. Kinds \cap Kinds = Kinds
    OBVIOUS
  <2>2. Sheds(q, x, Kinds \cap Kinds)
    BY <1>0, <1>1, <1>6, ShedsTransitive
  <2>3. Sheds(ExpireOld(q), x, Kinds \cap Kinds)
    BY <1>0, <1>10, <2>1, <2>2, ShedsTransitive
  <2> QED
    BY <2>1, <2>3
<1>13. \A k \in Kinds : x.bound[k] # Unbound => ~ExpireOld(q).surf[x.bound[k]].upload
  BY <1>8, <1>9, <1>10
<1> QED
  BY <1>11, <1>12, <1>13, <1>r DEF B

(* The bindings a draw begins with: its targets have surfaces which are not
   stale. *)
Ready(r, x) ==
  /\ Whole(r)
  /\ r.offset = x.offset /\ r.shape = x.shape /\ r.last = x.shape
  /\ r.dirty = x.dirty /\ r.cache = x.cache /\ r.mask = x.mask
  /\ \A k \in x.mask :
       /\ r.bound[k] = x.offset[k] /\ ~r.surf[x.offset[k]].upload
       /\ r.surf[x.offset[k]].width >= x.shape

(* pgraph_vk_surface_update(true, ...) where no assertion fails. *)
LEMMA UpdateBeforeDraw ==
  ASSUME NEW c, Whole(c), Aimed(c), NEW U, U = {c.offset[k] : k \in Kinds},
         \A a \in U : c.surf[a].live /\ c.surf[a].upload => ~c.surf[a].drawDirty,
         NEW x, x = UnbindDirty(ShapeChange(c), "color"),
         NEW y, y = UnbindDirty(UpdatePart(x, "color"), "zeta"),
         NEW z, z = UpdatePart(y, "zeta"),
         PartAllowed(x, "color"), PartAllowed(y, "zeta")
  PROVE  Ready(UploadBound(z), c) /\ Steady(UploadBound(z), c, U)
<1> DEFINE s == ShapeChange(c)
           u == UpdatePart(x, "color")
           r == UploadBound(z)
<1>k. "color" \in Kinds /\ "zeta" \in Kinds
  BY Zenon DEF Kinds
<1>o. "zeta" \in Kinds \ {"color"} /\ "color" \in Kinds \ {"zeta"}
  BY DEF Kinds
<1>1. /\ Midway(s) /\ Equal(s) /\ Steady(s, c, {})
      /\ s.offset = c.offset /\ s.shape = c.shape /\ s.mask = c.mask
      /\ s.dirty = c.dirty /\ s.cache = c.cache
  BY ShapeChangeMidway, Zenon
<1>x. x = UnbindDirty(s, "color")
  OBVIOUS
<1> HIDE DEF s
<1>2. /\ Midway(x) /\ Current(x, "color") /\ Steady(x, s, {}) /\ Settings(x, s)
      /\ x.surf = s.surf
      /\ \A o \in Kinds : x.bound[o] = IF o = "color" /\ "color" \in s.bufferDirty
                                         THEN Unbound ELSE s.bound[o]
  <2>1. LET v == UnbindDirty(s, "color") IN
        /\ Midway(v) /\ Current(v, "color") /\ Steady(v, s, {}) /\ Settings(v, s)
        /\ v.surf = s.surf
        /\ \A o \in Kinds : v.bound[o] = IF o = "color" /\ "color" \in s.bufferDirty
                                           THEN Unbound ELSE s.bound[o]
    BY <1>k, <1>1, UnbindDirtyMidway, Zenon
  <2> QED
    BY <1>x, <2>1, Zenon
<1>3. Equal(x)
  BY <1>k, <1>1, <1>2, Zenon DEF Equal
<1>4. /\ Midway(u) /\ Steady(u, x, {}) /\ SameRegisters(u, x)
      /\ (u = x /\ ~Rebinds(x, "color")) \/ (Gives(u, x, "color") /\ Rebinds(x, "color"))
  BY <1>k, <1>2, UpdatePartMidway, Zenon
<1>y. y = UnbindDirty(u, "zeta")
  BY Zenon
<1> HIDE DEF u
<1>5. /\ Current(u, "color")
      /\ "color" \in u.mask => u.bound["color"] = u.offset["color"] /\ u.bound["color"] # Unbound
      /\ "zeta" \notin u.bufferDirty => Equal(u)
  <2>1. CASE u = x /\ ~Rebinds(x, "color")
    <3>1. "color" \in x.mask => x.bound["color"] # Unbound
      BY <2>1 DEF Rebinds
    <3>2. "color" \in x.mask => x.bound["color"] = x.offset["color"]
      BY <1>k, <1>2, <3>1, Zenon DEF Midway, Bindings, Current
    <3> QED
      BY <1>2, <1>3, <2>1, <3>1, <3>2, Zenon
  <2>2. CASE Gives(u, x, "color") /\ Rebinds(x, "color")
    <3>1. u.bound["color"] = x.offset["color"] /\ "color" \notin u.bufferDirty
          /\ u.offset = x.offset
      BY <2>2, Zenon DEF Gives, Given, SameRegisters
    <3>2. x.offset["color"] # Unbound
      <4>1. Aimed(x)
        BY <1>2, Zenon DEF Midway
      <4>2. x.offset \in [Kinds -> Addrs]
        BY <4>1, AimedTargets, Zenon
      <4> QED
        BY <1>k, <4>2, AddrsAreNat, Zenon
    <3>3. ASSUME "zeta" \notin u.bufferDirty PROVE Equal(u)
      BY <1>o, <2>2, <3>3, Zenon DEF Gives, OthersStay, Equal
    <3> QED
      BY <3>1, <3>2, <3>3 DEF Current
  <2> QED
    BY <1>4, <2>1, <2>2, Zenon
<1>6. /\ Midway(y) /\ Current(y, "zeta") /\ Steady(y, u, {}) /\ Settings(y, u)
      /\ y.surf = u.surf
      /\ \A o \in Kinds : y.bound[o] = IF o = "zeta" /\ "zeta" \in u.bufferDirty
                                         THEN Unbound ELSE u.bound[o]
  <2>1. LET v == UnbindDirty(u, "zeta") IN
        /\ Midway(v) /\ Current(v, "zeta") /\ Steady(v, u, {}) /\ Settings(v, u)
        /\ v.surf = u.surf
        /\ \A o \in Kinds : v.bound[o] = IF o = "zeta" /\ "zeta" \in u.bufferDirty
                                           THEN Unbound ELSE u.bound[o]
    BY <1>k, <1>4, UnbindDirtyMidway, Zenon
  <2> QED
    BY <1>y, <2>1, Zenon
<1>7. y.bound["color"] = u.bound["color"]
  BY <1>k, <1>6, Zenon
<1>8. /\ Current(y, "color")
      /\ "color" \in y.mask => y.bound["color"] = y.offset["color"] /\ y.bound["color"] # Unbound
      /\ Equal(y)
  <2>1. Current(y, "color")
    BY <1>5, <1>6, <1>7, Zenon DEF Current, Settings
  <2>2. "color" \in y.mask => y.bound["color"] = y.offset["color"] /\ y.bound["color"] # Unbound
    BY <1>5, <1>6, <1>7, Zenon DEF Settings
  <2>3. Equal(y)
    BY <1>k, <1>5, <1>6, Zenon DEF Equal
  <2> QED
    BY <2>1, <2>2, <2>3
<1>9. /\ Midway(z) /\ Steady(z, y, {}) /\ SameRegisters(z, y)
      /\ (z = y /\ ~Rebinds(y, "zeta")) \/ (Gives(z, y, "zeta") /\ Rebinds(y, "zeta"))
  BY <1>k, <1>6, <1>8, UpdatePartMidway, Zenon
<1>10. /\ Current(z, "color") /\ Current(z, "zeta") /\ Equal(z)
       /\ \A k \in z.mask : z.bound[k] = z.offset[k] /\ z.bound[k] # Unbound
  <2>m. z.mask \subseteq {"color", "zeta"}
    BY <1>9, Zenon DEF Midway, Sound, Cache, Kinds
  <2>1. CASE z = y /\ ~Rebinds(y, "zeta")
    <3>1. "zeta" \in y.mask => y.bound["zeta"] # Unbound
      BY <2>1 DEF Rebinds
    <3>2. "zeta" \in y.mask => y.bound["zeta"] = y.offset["zeta"]
      BY <1>k, <1>6, <3>1, Zenon DEF Midway, Bindings, Current
    <3> QED
      BY <1>6, <1>8, <2>1, <2>m, <3>1, <3>2, Zenon
  <2>2. CASE Gives(z, y, "zeta") /\ Rebinds(y, "zeta")
    <3>1. /\ z.bound["zeta"] = y.offset["zeta"] /\ "zeta" \notin z.bufferDirty
          /\ z.offset = y.offset /\ z.mask = y.mask
          /\ z.bufferDirty = y.bufferDirty \ {"zeta"}
      BY <2>2, Zenon DEF Gives, Given, SameRegisters
    <3>2. y.offset["zeta"] # Unbound /\ y.offset["color"] # y.offset["zeta"]
      <4>1. Aimed(y)
        BY <1>6, Zenon DEF Midway
      <4>2. y.offset \in [Kinds -> Addrs] /\ y.offset["color"] # y.offset["zeta"]
        BY <4>1, AimedTargets, Zenon
      <4> QED
        BY <1>k, <4>2, AddrsAreNat, Zenon
    <3>3. EvictsUnbound(y, "zeta")
      BY <2>2, Zenon DEF PartAllowed
    <3>4. /\ z.bound["color"] # Unbound => z.bound["color"] = y.bound["color"]
          /\ z.bound["color"] # Unbound /\ "color" \notin z.bufferDirty =>
               z.surf[z.bound["color"]].width = z.surf[z.bound["zeta"]].width
          /\ "color" \notin y.bufferDirty /\ y.bound["color"] # y.offset["zeta"] =>
               z.bound["color"] = y.bound["color"]
      BY <1>o, <2>2, <3>3, Zenon DEF Gives, OthersStay
    <3>5. Current(z, "color") /\ Current(z, "zeta")
      BY <1>8, <3>1, <3>4, Zenon DEF Current
    <3>6. Equal(z)
      BY <3>4, <3>5, Zenon DEF Equal, Current
    <3>7. "color" \in z.mask => z.bound["color"] = z.offset["color"] /\ z.bound["color"] # Unbound
      BY <1>8, <3>1, <3>2, <3>4, Zenon DEF Current
    <3> QED
      BY <2>m, <3>1, <3>2, <3>5, <3>6, <3>7, Zenon
  <2> QED
    BY <1>9, <2>1, <2>2, Zenon
<1>11. z \in Cache /\ Sound(z) /\ Sized(z) /\ Bindings(z) /\ Aimed(z) /\ z.last = z.shape
  BY <1>9, Zenon DEF Midway, Sound
<1>12. Steady(z, c, {})
  <2>1. Steady(x, c, {})
    BY <1>1, <1>2, SteadyTransitive, Zenon
  <2>2. Steady(u, c, {})
    BY <1>4, <2>1, SteadyTransitive, Zenon
  <2>3. Steady(y, c, {})
    BY <1>6, <2>2, SteadyTransitive, Zenon
  <2> QED
    BY <1>9, <2>3, SteadyTransitive, Zenon
<1>13. /\ z.offset = c.offset /\ z.shape = c.shape /\ z.mask = c.mask
       /\ z.dirty = c.dirty /\ z.cache = c.cache
  <2>1. /\ x.offset = c.offset /\ x.shape = c.shape /\ x.mask = c.mask
        /\ x.dirty = c.dirty /\ x.cache = c.cache
    BY <1>1, <1>2, Zenon DEF Settings
  <2>2. /\ u.offset = x.offset /\ u.shape = x.shape /\ u.mask = x.mask
        /\ u.dirty = x.dirty /\ u.cache = x.cache
    BY <1>4, Zenon DEF SameRegisters
  <2>3. /\ y.offset = u.offset /\ y.shape = u.shape /\ y.mask = u.mask
        /\ y.dirty = u.dirty /\ y.cache = u.cache
    BY <1>6, Zenon DEF Settings
  <2>4. /\ z.offset = y.offset /\ z.shape = y.shape /\ z.mask = y.mask
        /\ z.dirty = y.dirty /\ z.cache = y.cache
    BY <1>9, Zenon DEF SameRegisters
  <2> QED
    BY <2>1, <2>2, <2>3, <2>4, Zenon
<1>14. BoundAt(z) \subseteq U
  <2>1. \A k \in Kinds : z.bound[k] # Unbound => z.bound[k] = c.offset[k]
    BY <1>10, <1>11, <1>13, Zenon DEF Bindings, Current, Kinds
  <2> QED
    BY <2>1, Zenon DEF BoundAt
<1>15. \A a \in BoundAt(z) : z.surf[a].live /\ z.surf[a].upload => ~z.surf[a].drawDirty
  <2> TAKE a \in BoundAt(z)
  <2>1. a \in Addrs /\ a \in U
    BY <1>11, <1>14, BoundAtAddrs, Zenon
  <2> QED
    BY <1>12, <2>1, Zenon DEF Steady, Flags
<1>16. /\ Steady(r, z, BoundAt(z)) /\ Sheds(r, z, Kinds)
       /\ \A k \in Kinds : z.bound[k] # Unbound => ~r.surf[z.bound[k]].upload
  BY <1>11, <1>15, UploadBoundDone, Zenon
<1> HIDE DEF r
<1>17. Steady(r, c, U)
  <2>1. Steady(r, z, U) /\ Steady(z, c, U)
    <3>1. Steady(r, z, U)
      BY <1>14, <1>16, SteadyMore, Zenon
    <3>2. Steady(z, c, U)
      BY <1>12, Zenon DEF Steady, Flags
    <3> QED
      BY <3>1, <3>2, Zenon
  <2> QED
    BY <2>1, SteadyTransitive, Zenon
<1>18. Whole(r)
  BY <1>10, <1>11, <1>16, <1>17, ShedsBindings, Zenon DEF Whole, Steady
<1>19. /\ r.offset = c.offset /\ r.shape = c.shape /\ r.last = c.shape /\ r.mask = c.mask
       /\ r.dirty = c.dirty /\ r.cache = c.cache
  BY <1>11, <1>13, <1>16, Zenon DEF Sheds, Settings
<1>20. ASSUME NEW k \in c.mask
       PROVE  /\ r.bound[k] = c.offset[k] /\ ~r.surf[c.offset[k]].upload
              /\ r.surf[c.offset[k]].width >= c.shape
  <2>1. c.mask \subseteq Kinds
    BY <1>11, <1>13 DEF Cache
  <2>2. k \in Kinds /\ k \in z.mask
    BY <1>13, <2>1, Zenon
  <2>3. z.bound[k] = c.offset[k] /\ z.bound[k] # Unbound
    BY <1>10, <1>13, <2>2, Zenon
  <2>4. r.bound[k] = z.bound[k]
    BY <1>16, <2>2, Zenon DEF Sheds
  <2>5. k \notin z.bufferDirty
    BY <1>10, <2>2, <2>3, Zenon DEF Current, Kinds
  <2>6. z.surf[z.bound[k]].width >= c.shape
    <3>1. z.surf[z.bound[k]].width >= z.last
      BY <1>11, <2>2, <2>3, <2>5, Zenon DEF Bindings
    <3>2. z.last = c.shape
      BY <1>11, <1>13, Zenon
    <3> QED
      BY <3>1, <3>2, Zenon
  <2>7. r.surf[r.bound[k]].live /\ r.bound[k] \in Addrs
    <3>1. r \in Cache
      BY <1>16, Zenon DEF Sheds
    <3> QED
      BY <1>18, <2>2, <2>3, <2>4, <3>1, Zenon DEF Whole, Bindings, Cache
  <2>8. r.surf[r.bound[k]].width = z.surf[r.bound[k]].width
    BY <1>16, <2>7, Zenon DEF Sheds
  <2> QED
    BY <1>16, <2>2, <2>3, <2>4, <2>6, <2>8, Zenon
<1> QED
  BY <1>17, <1>18, <1>19, <1>20, Zenon DEF Ready, r

(* A target drawn to in vain has lost its surface in a flush, so that at most the
   color surface which the same update has made is in its way. *)
Cleared(x, k) ==
  \A a \in Addrs : x.surf[a].live =>
    /\ k = "zeta" /\ a = x.offset["color"] /\ x.bound["color"] = a
    /\ x.surf[a].width = x.shape /\ "color" \notin x.bufferDirty

(* Such a target has the width of the draw. *)
LEMMA ClearedWidth ==
  ASSUME NEW x, Whole(x), Aimed(x), NEW k \in Kinds, Cleared(x, k)
  PROVE  TargetWidth(x, k) = x.shape
<1>1. x \in Cache
  BY DEF Whole, Sound
<1>2. CASE k = "zeta" /\ x.bound["color"] # Unbound
  <2>1. x.bound["color"] \in Addrs /\ x.surf[x.bound["color"]].live
    BY <1>1, <1>2 DEF Cache, Kinds, Whole, Bindings
  <2>2. x.surf[x.bound["color"]].width = x.shape
    BY <2>1 DEF Cleared
  <2> QED
    BY <1>2, <2>2 DEF TargetWidth
<1>3. CASE ~(k = "zeta" /\ x.bound["color"] # Unbound)
  BY <1>3 DEF TargetWidth
<1> QED
  BY <1>2, <1>3

(* The assertions of invalidate_surface hold for it. *)
LEMMA ClearedEvicts ==
  ASSUME NEW x, Whole(x), Aimed(x), NEW k \in Kinds, Cleared(x, k)
  PROVE  EvictsUnbound(x, k)
<1> DEFINE w == TargetWidth(x, k)
           y == Rebinding(x, k)
<1>0. x \in Cache /\ w = x.shape
  BY ClearedWidth DEF Whole, Sound
<1>1. y \in Cache /\ y.surf = x.surf /\ Settings(y, x)
  BY <1>0, RebindingFacts
<1> HIDE DEF y, w
<1>2. \A o \in Kinds : y.bound[o] \notin Overlapping(y, Span(y.offset[k], w))
  <2> SUFFICES ASSUME NEW o \in Kinds,
                      y.bound[o] \in Overlapping(y, Span(y.offset[k], w))
               PROVE  FALSE
    OBVIOUS
  <2> DEFINE b == y.bound[o]
  <2>1. b \in Addrs /\ y.surf[b].live
        /\ Span(b, y.surf[b].width) \cap Span(y.offset[k], w) # {}
    BY DEF Overlapping, Live
  <2> HIDE DEF b
  <2>2. k = "zeta" /\ b = x.offset["color"] /\ x.surf[b].width = x.shape
    BY <1>1, <2>1 DEF Cleared
  <2>3. Span(x.offset["color"], x.shape) \cap Span(x.offset["zeta"], x.shape) = {}
    BY AimedTargets, Zenon
  <2> QED
    BY <1>0, <1>1, <2>1, <2>2, <2>3 DEF Settings
<1> QED
  BY <1>2, Zenon DEF EvictsUnbound, y, w

(* It is given a surface as large as the draw. *)
LEMMA ClearedRebind ==
  ASSUME NEW x, Whole(x), Aimed(x), NEW k \in Kinds, Cleared(x, k),
         x.bound[k] = Unbound, x.last <= x.shape
  PROVE  /\ Whole(Rebind(x, k)) /\ Steady(Rebind(x, k), x, {})
         /\ SameRegisters(Rebind(x, k), x)
         /\ k = "color" => Cleared(Rebind(x, k), "zeta")
<1> DEFINE z == Rebind(x, k)
<1>0. x \in Cache /\ Sound(x) /\ Sized(x) /\ Bindings(x)
  BY DEF Whole, Sound
<1>1. TargetWidth(x, k) = x.shape /\ x.shape \in 1..MaxWidth
  BY ClearedWidth, AimedTargets
<1>2. x.shape \in Nat /\ x.last \in Nat /\ x.shape >= x.shape
  BY <1>0, <1>1 DEF Cache
<1>3. Gives(z, x, k) /\ Steady(z, x, {})
  BY <1>0, <1>1, <1>2, RebindGives, RebindSteady
<1> HIDE DEF z
<1>4. Bindings(z) /\ Sized(z) /\ SameRegisters(z, x) /\ z \in Cache
  BY <1>0, <1>1, <1>2, <1>3, GivesBindings DEF Gives
<1>5. \A o \in Kinds : x.bound[o] # Unbound => x.bound[o] \in Addrs /\ x.surf[x.bound[o]].live
  BY <1>0 DEF Cache, Bindings
<1>6. Equal(z)
  <2>1. CASE k = "color"
    <3>1. x.bound["zeta"] = Unbound
      BY <1>5, <2>1 DEF Cleared, Kinds
    <3>2. z.bound["zeta"] # Unbound => z.bound["zeta"] = x.bound["zeta"]
      BY <1>3, <2>1, Zenon DEF Gives, OthersStay, Kinds
    <3> QED
      BY <3>1, <3>2 DEF Equal
  <2>2. CASE k = "zeta"
    <3> SUFFICES ASSUME z.bound["color"] # Unbound
                 PROVE  z.surf[z.bound["color"]].width = z.surf[z.bound["zeta"]].width
      BY DEF Equal
    <3>1. z.bound["color"] = x.bound["color"]
      BY <1>3, <2>2, Zenon DEF Gives, OthersStay, Kinds
    <3>2. "color" \notin x.bufferDirty
      BY <1>5, <3>1 DEF Cleared, Kinds
    <3>3. "color" \notin z.bufferDirty
      BY <1>3, <2>2, <3>2, Zenon DEF Gives, Given
    <3> QED
      BY <1>3, <2>2, <3>3, Zenon DEF Gives, OthersStay, Kinds
  <2> QED
    BY <2>1, <2>2 DEF Kinds
<1>7. ASSUME k = "color" PROVE Cleared(z, "zeta")
  <2> SUFFICES ASSUME NEW a \in Addrs, z.surf[a].live
               PROVE  /\ a = z.offset["color"] /\ z.bound["color"] = a
                      /\ z.surf[a].width = z.shape /\ "color" \notin z.bufferDirty
    BY DEF Cleared
  <2>1. \A b \in Addrs : ~x.surf[b].live
    BY <1>7 DEF Cleared
  <2>2. x.offset["color"] \in Addrs
    BY AimedTargets DEF Kinds
  <2>3. a = x.offset["color"]
    BY <1>3, <1>7, <2>1, Zenon DEF Gives, Given
  <2>4. /\ z.bound["color"] = x.offset["color"] /\ "color" \notin z.bufferDirty
        /\ z.surf[x.offset["color"]].width = x.shape
    BY <1>1, <1>3, <1>7, <2>1, <2>2, Zenon DEF Gives, Given
  <2> QED
    BY <1>4, <2>3, <2>4, Zenon DEF SameRegisters
<1>8. Whole(z)
  BY <1>3, <1>4, <1>6 DEF Whole, Steady
<1> QED
  BY <1>3, <1>4, <1>7, <1>8, Zenon DEF z

(* x is between methods, and what it still has to account for is drawn to bound
   targets or lost in a flush. *)
Drawing(x, k) ==
  /\ Whole(x) /\ (x.dirty # {} => Aimed(x) /\ x.last <= x.shape)
  /\ x.dirty \subseteq x.mask
  /\ \A o \in x.dirty : x.bound[o] = Unbound => Cleared(x, k)

(* pgraph_vk_surface_update(false, ...), one part of it. *)
LEMMA UpdatePartAfterDone ==
  ASSUME NEW x, NEW k \in Kinds, Drawing(x, k)
  PROVE  /\ Steady(UpdatePartAfter(x, k), x, {}) /\ Whole(UpdatePartAfter(x, k))
         /\ UpdatePartAfter(x, k).dirty = x.dirty \ {k}
         /\ UpdatePartAfter(x, k).offset = x.offset
         /\ UpdatePartAfter(x, k).shape = x.shape
         /\ UpdatePartAfter(x, k).last = x.last
         /\ UpdatePartAfter(x, k).mask = x.mask
         /\ Straggles(x, k) => EvictsUnbound(x, k)
         /\ k = "color" => Drawing(UpdatePartAfter(x, k), "zeta")
<1> DEFINE y == IF Straggles(x, k) THEN Rebind(x, k) ELSE x
           z == UpdatePartAfter(x, k)
<1>0. x \in Cache /\ Whole(x) /\ Sound(x)
  BY Zenon DEF Drawing, Whole, Sound
<1>1. Drawn(x, k) <=> k \in x.dirty
  BY Zenon DEF Drawn, Drawing
<1>2. ASSUME Straggles(x, k)
      PROVE  /\ Aimed(x) /\ Cleared(x, k) /\ EvictsUnbound(x, k)
             /\ Whole(Rebind(x, k)) /\ Steady(Rebind(x, k), x, {})
             /\ SameRegisters(Rebind(x, k), x)
             /\ k = "color" => Cleared(Rebind(x, k), "zeta")
  <2>1. k \in x.dirty /\ x.bound[k] = Unbound
    BY <1>2 DEF Straggles, Drawn
  <2>2. Aimed(x) /\ x.last <= x.shape /\ Cleared(x, k)
    BY <2>1, Zenon DEF Drawing
  <2> QED
    BY <1>0, <2>1, <2>2, ClearedRebind, ClearedEvicts, Zenon
<1>3. /\ Whole(y) /\ Steady(y, x, {}) /\ SameRegisters(y, x)
      /\ k = "color" => \A o \in x.dirty : y.bound[o] = Unbound => Cleared(y, "zeta")
  <2>1. CASE Straggles(x, k)
    BY <1>2, <2>1
  <2>2. CASE ~Straggles(x, k)
    <3>1. Steady(x, x, {}) /\ SameRegisters(x, x)
      BY <1>0, SteadyItself DEF SameRegisters
    <3>2. ASSUME k = "color", NEW o \in x.dirty, x.bound[o] = Unbound
          PROVE  Cleared(x, "zeta")
      BY <3>2, Zenon DEF Drawing, Cleared
    <3>3. y = x
      BY <2>2
    <3> HIDE DEF y
    <3> QED
      BY <1>0, <3>1, <3>2, <3>3, Zenon
  <2> QED
    BY <2>1, <2>2, Zenon
<1>4. z = IF Drawn(x, k) THEN [y EXCEPT !.dirty = y.dirty \ {k}, !.cache = y.cache \ {k}]
                         ELSE y
  BY DEF UpdatePartAfter
<1> HIDE DEF y, z
<1>5. y \in Cache /\ y.dirty = x.dirty
  BY <1>3, Zenon DEF Whole, Sound, SameRegisters
<1>6. /\ z \in Cache /\ z.surf = y.surf /\ z.vram = y.vram /\ z.bound = y.bound
      /\ z.offset = y.offset /\ z.shape = y.shape /\ z.last = y.last
      /\ z.mask = y.mask /\ z.bufferDirty = y.bufferDirty /\ z.dirty = x.dirty \ {k}
  <2>1. CASE Drawn(x, k)
    <3>1. z = [y EXCEPT !.dirty = y.dirty \ {k}, !.cache = y.cache \ {k}]
      BY <1>4, <2>1
    <3> QED
      BY <1>5, <3>1, Zenon DEF Cache
  <2>2. CASE ~Drawn(x, k)
    <3>1. z = y /\ k \notin x.dirty
      BY <1>1, <1>4, <2>2
    <3> QED
      BY <1>5, <3>1
  <2> QED
    BY <2>1, <2>2, Zenon
<1>7. Steady(z, x, {})
  <2>1. Steady(z, y, {})
    BY <1>3, <1>6, SteadySame, Zenon DEF Whole
  <2> QED
    BY <1>3, <2>1, SteadyTransitive, Zenon
<1>8. Whole(z)
  <2>1. Sized(z) /\ Bindings(z) /\ Equal(z)
    <3>1. Sized(z)
      BY <1>3, <1>6, Zenon DEF Whole, Sized
    <3>2. Bindings(z)
      BY <1>3, <1>6, Zenon DEF Whole, Bindings
    <3>3. Equal(z)
      BY <1>3, <1>6, Zenon DEF Whole, Equal
    <3> QED
      BY <3>1, <3>2, <3>3, Zenon
  <2> QED
    BY <1>7, <2>1 DEF Whole, Steady
<1>9. z.offset = x.offset /\ z.shape = x.shape /\ z.last = x.last /\ z.mask = x.mask
  BY <1>3, <1>6, Zenon DEF SameRegisters
<1>10. ASSUME k = "color" PROVE Drawing(z, "zeta")
  <2>1. z.dirty \subseteq z.mask
    BY <1>6, <1>9 DEF Drawing
  <2>2. z.dirty # {} => Aimed(z) /\ z.last <= z.shape
    BY <1>6, <1>9 DEF Drawing, Aimed
  <2>3. Cleared(y, "zeta") => Cleared(z, "zeta")
    BY <1>6 DEF Cleared
  <2>4. \A o \in z.dirty : z.bound[o] = Unbound => Cleared(z, "zeta")
    BY <1>3, <1>6, <1>10, <2>3
  <2> QED
    BY <1>8, <2>1, <2>2, <2>4, Zenon DEF Drawing
<1> QED
  BY <1>2, <1>6, <1>7, <1>8, <1>9, <1>10, Zenon DEF z

(* The whole of it. *)
LEMMA UpdateAfterDone ==
  ASSUME Drawing(m, "color"), NEW r \in UpdateAfter
  PROVE  /\ Whole(r) /\ Steady(r, m, {}) /\ r.dirty = {}
         /\ r.offset = m.offset /\ r.shape = m.shape /\ r.last = m.last /\ r.mask = m.mask
<1> DEFINE x == UpdatePartAfter(m, "color")
           z == UpdatePartAfter(x, "zeta")
<1>k. "color" \in Kinds /\ "zeta" \in Kinds
  BY DEF Kinds
<1>1. r = TouchBound(z)
  BY DEF UpdateAfter
<1>2. /\ Steady(x, m, {}) /\ Whole(x) /\ x.dirty = m.dirty \ {"color"}
      /\ x.offset = m.offset /\ x.shape = m.shape /\ x.last = m.last /\ x.mask = m.mask
      /\ Drawing(x, "zeta")
  BY <1>k, UpdatePartAfterDone, Zenon
<1> HIDE DEF x
<1>3. /\ Steady(z, x, {}) /\ Whole(z) /\ z.dirty = x.dirty \ {"zeta"}
      /\ z.offset = x.offset /\ z.shape = x.shape /\ z.last = x.last /\ z.mask = x.mask
  BY <1>k, <1>2, UpdatePartAfterDone, Zenon
<1> HIDE DEF z
<1>4. Steady(r, z, {}) /\ Sheds(r, z, Kinds) /\ z \in Cache
  BY <1>1, <1>3, TouchBoundDone, Zenon DEF Whole, Sound
<1>5. Whole(r)
  BY <1>3, <1>4, ShedsBindings, Zenon DEF Whole, Steady
<1>6. Steady(r, m, {})
  <2>1. Steady(z, m, {})
    BY <1>2, <1>3, SteadyTransitive, Zenon
  <2> QED
    BY <1>4, <2>1, SteadyTransitive
<1>7. /\ r.dirty = {} /\ r.offset = m.offset /\ r.shape = m.shape
      /\ r.last = m.last /\ r.mask = m.mask
  <2>1. m.dirty \subseteq {"color", "zeta"}
    BY DEF Drawing, Whole, Sound, Cache, Kinds
  <2>2. r.dirty = z.dirty /\ r.offset = z.offset /\ r.shape = z.shape
        /\ r.last = z.last /\ r.mask = z.mask
    BY <1>4, Zenon DEF Sheds, Settings
  <2> QED
    BY <1>2, <1>3, <2>1, <2>2, Zenon
<1> QED
  BY <1>5, <1>6, <1>7

-----------------------------------------------------------------------------
(* Surface a holds the cell the CPU is accessing. *)
Holds(a) == m.surf[a].live /\ cpu.cell \in Span(a, m.surf[a].width)

(* The targets of the draw have surfaces which are not stale. *)
Prepared ==
  \A k \in m.mask :
    /\ m.bound[k] = m.offset[k] /\ ~m.surf[m.offset[k]].upload
    /\ m.surf[m.offset[k]].width >= m.shape

(* How far the FIFO thread is in a draw: from SET_SURFACE on the registers are
   those of the draw, and when it ends its targets are prepared or all was
   flushed in between. *)
Staged ==
  /\ stage = "set" => Drawing(m, "color")
  /\ stage # "set" =>
       /\ job.op = "draw" /\ m.dirty = {}
       /\ m.offset = Targets(job) /\ m.shape = job.width /\ m.mask = job.writes
  /\ stage = "end" =>
       m.last <= m.shape /\ (Prepared \/ \A a \in Addrs : ~m.surf[a].live)

(* Only the vCPU asks for downloads, and it waits for them; what it accesses is
   no concern of the job in flight. *)
Requests ==
  /\ cpu = None <=> vcpuPc = "guest"
  /\ cpu # None => cpu.cell \notin Touched(job)
  /\ "downloads" \in pending \/ fifoPc \in {"downloads", "clear", "event"} =>
       vcpuPc = "wait" /\ ~complete
  /\ fifoPc = "event" => "downloads" \notin pending

Watching == ~work => watched = WatchedCells(m)

(* From the callback to the access: what was drawn to the cell is marked for
   download and, once that is done, in memory; the image a write makes stale is
   marked for upload.  No other surface is both drawn to and stale. *)
Accessing ==
  \A a \in Addrs :
    /\ vcpuPc \in {"request", "wait"} /\ Holds(a) =>
         /\ m.surf[a].drawDirty => m.surf[a].download
         /\ cpu.op = "write" => m.surf[a].upload
    /\ vcpuPc = "wait" /\ Holds(a) /\ (complete \/ fifoPc \in {"clear", "event"}) =>
         ~m.surf[a].drawDirty
    /\ vcpuPc = "access" /\ Holds(a) =>
         ~m.surf[a].drawDirty /\ (cpu.op = "write" => m.surf[a].upload)
    /\ m.surf[a].live /\ m.surf[a].drawDirty /\ m.surf[a].upload =>
         vcpuPc \in {"request", "wait"} /\ Holds(a) /\ cpu.op = "write"

(* The inductive invariant of the refinement. *)
CoherentInv ==
  /\ Whole(m) /\ job \in Jobs \cup {None} /\ cpu \in Accesses \cup {None}
  /\ Staged /\ Requests /\ Watching /\ Accessing

(* The CPU does not write to a surface at U. *)
Unwritten(U) ==
  \A a \in U : cpu # None /\ cpu.op = "write" => cpu.cell \notin Span(a, MaxWidth)

=============================================================================
