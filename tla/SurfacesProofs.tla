---------------------------- MODULE SurfacesProofs ----------------------------
(***************************************************************************)
(* The buffers of a surface, for every size of the ring, every set of sizes *)
(* and every number of frames and messages.  The invariant is on the whole  *)
(* record; the handlers' steps are functions of it, and each has a lemma    *)
(* saying whether it commits nothing (Quiet), at most one free buffer (Drew) *)
(* or what ScreenKept asks (Painted), so that a handler is a chain of them. *)
(*                                                                         *)
(* And the compute engine that draws into them, for every set of buffers,   *)
(* pictures and programs and every sequence of calls.  Its calls are chains *)
(* of functions of one record too.  A step may spoil what the engine notes  *)
(* of the context, but never what it notes of the framebuffer, the scratch  *)
(* textures, the uniforms and the uploaded picture (Calm); between calls    *)
(* what it notes of the context is true as well (Noted).                    *)
(***************************************************************************)
EXTENDS SurfaceBuffers, GpuCaches, Compaction, TLAPS

SeenBufs == Bufs \cup {NoBuf}

Surfaces ==
    [role : {"none", "new", "ready"}, size : {0} \cup Sizes,
     ringSize : {0} \cup Sizes, busy : [Slots -> BOOLEAN], next : Slots,
     shmSize : {0} \cup Sizes, active : Halves, released : [Halves -> BOOLEAN],
     kept : SUBSET Halves, last : Slots \cup {NoSlot}, hasImage : BOOLEAN,
     left : 0..MaxFrames, front : SeenBufs,
     wire : Seq(SeenBufs), news : Seq(Bufs), held : SUBSET Bufs, top : SeenBufs]

Rings == {"ring"} \X Slots
Waiting(q) == {q[i] : i \in DOMAIN q}

(* A ring buffer is on its way to the compositor, with it, or on its way back: in one *)
(* of these places at a time, and with its flag set.                       *)
InOnePlace(s) ==
    \A b \in Rings :
        /\ b \in Waiting(s.wire) => b \notin s.held /\ b \notin Waiting(s.news)
        /\ b \in s.held => b \notin Waiting(s.news)
        /\ \A i, j \in DOMAIN s.wire : s.wire[i] = b /\ s.wire[j] = b => i = j
        /\ \A i, j \in DOMAIN s.news : s.news[i] = b /\ s.news[j] = b => i = j
        /\ b \in InUse(s) \cup Waiting(s.news) => s.busy[b[2]]

NoRingNoFlags(s) == s.ringSize = 0 => \A i \in Slots : ~s.busy[i]

ActiveShown(s) == s.front[1] = "shm" => s.front = <<"shm", s.active>>

FlagsCleared(s) ==
    \A i \in Slots : s.busy[i] => <<"ring", i>> \in InUse(s) \cup Waiting(s.news)

Sound(s) == s \in Surfaces /\ InOnePlace(s) /\ NoRingNoFlags(s) /\ ActiveShown(s)
Good(s)  == Sound(s) /\ FlagsCleared(s)

SurfInv ==
    /\ Good(surf)
    /\ gpu \in BOOLEAN /\ video \in BOOLEAN

-----------------------------------------------------------------------------

LEMMA BufferKinds ==
    /\ Rings \subseteq Bufs /\ {"shm"} \X Halves \subseteq Bufs
    /\ Rings \cap ({"shm"} \X Halves) = {} /\ NoBuf \notin Bufs
    /\ \A b \in SeenBufs : b \in Rings <=> b[1] = "ring"
    /\ \A b \in Bufs : b[1] = "ring" => b[2] \in Slots
    /\ \A b \in SeenBufs : b[1] = "shm" => b \in {"shm"} \X Halves
    /\ \A i \in Slots : <<"ring", i>> \in Rings
    /\ \A b \in Rings : b[2] \in Slots /\ b = <<"ring", b[2]>>
    /\ \A h \in Halves : <<"shm", h>> \in Bufs
  BY DEF Rings, Bufs, NoBuf, SeenBufs, Halves

LEMMA ForgetFields ==
    ASSUME NEW s \in Surfaces, NEW gone \in SUBSET Bufs
    PROVE  LET t == Forget(s, gone)
           IN  /\ t \in Surfaces
               /\ t.role = s.role /\ t.size = s.size /\ t.ringSize = s.ringSize
               /\ t.busy = s.busy /\ t.next = s.next /\ t.shmSize = s.shmSize
               /\ t.active = s.active /\ t.released = s.released /\ t.last = s.last
               /\ t.hasImage = s.hasImage /\ t.left = s.left
               /\ Len(t.wire) = Len(s.wire) /\ DOMAIN t.wire = DOMAIN s.wire
               /\ \A i \in DOMAIN s.wire :
                      t.wire[i] = IF s.wire[i] \in gone THEN NoBuf ELSE s.wire[i]
               /\ t.news = Compact(s.news, gone)
               /\ t.held = s.held \ gone
               /\ t.front = (IF s.front \in gone THEN NoBuf ELSE s.front)
               /\ t.kept = {h \in s.kept : <<"shm", h>> \notin gone}
<1> DEFINE t == Forget(s, gone)
           w == [i \in DOMAIN s.wire |-> IF s.wire[i] \in gone THEN NoBuf ELSE s.wire[i]]
<1>1. Compact(s.news, gone) \in Seq(Bufs)
  BY CompactRange DEF Surfaces
<1>2. s.wire \in Seq(SeenBufs)
  BY DEF Surfaces
<1>3. w \in Seq(SeenBufs) /\ Len(w) = Len(s.wire) /\ DOMAIN w = DOMAIN s.wire
  BY <1>2 DEF SeenBufs
<1> DEFINE p == IF s.top \in gone THEN NoBuf ELSE s.top
           f == IF s.front \in gone THEN NoBuf ELSE s.front
           k == {h \in s.kept : <<"shm", h>> \notin gone}
           n == Compact(s.news, gone)
           g == s.held \ gone
<1>4. p \in SeenBufs /\ f \in SeenBufs /\ k \in SUBSET Halves /\ g \in SUBSET Bufs
  BY DEF Surfaces, SeenBufs
<1>5. t = [s EXCEPT !.wire = w, !.news = n, !.held = g, !.top = p, !.front = f,
                    !.kept = k]
  BY DEF Forget
<1> HIDE DEF w, p, f, k, n, g
<1>6. t \in Surfaces
  BY <1>1, <1>3, <1>4, <1>5 DEF Surfaces, n
<1>7. /\ t.role = s.role /\ t.size = s.size /\ t.ringSize = s.ringSize
      /\ t.busy = s.busy /\ t.next = s.next /\ t.shmSize = s.shmSize
      /\ t.active = s.active /\ t.released = s.released /\ t.last = s.last
      /\ t.hasImage = s.hasImage /\ t.left = s.left
      /\ t.wire = w /\ t.news = n /\ t.held = g /\ t.front = f /\ t.kept = k
  BY <1>5 DEF Surfaces
<1> HIDE DEF t
<1>8. QED
  BY <1>3, <1>6, <1>7 DEF t, w, n, g, f, k

-----------------------------------------------------------------------------
(* Steps that commit nothing, and steps that may commit one buffer.        *)

RingsIn(s) == InUse(s) \cap Rings

(* Nothing is committed.  A ring that is still there has its buffers where they were. *)
Quiet(s, t) ==
    /\ Good(t)
    /\ Len(t.wire) = Len(s.wire)
    /\ FrontLost(t) => FrontLost(s)
    /\ t.ringSize # 0 /\ t.ringSize = s.ringSize => RingsIn(s) \subseteq RingsIn(t)

LastOut(t) == t.wire[Len(t.wire)]

(* At most one buffer is committed, and if it is of the ring, it was free. *)
Drew(s, t) ==
    /\ Good(t)
    /\ FrontLost(t) => FrontLost(s)
    /\ Len(t.wire) # Len(s.wire) =>
          /\ Len(t.wire) = Len(s.wire) + 1
          /\ LastOut(t) \in Rings => t.ringSize = s.ringSize /\ LastOut(t) \notin InUse(s)

(* What RingUntouched and FrontKept ask of a step. *)
Painted(s, t) ==
    /\ Good(t)
    /\ FrontLost(t) => FrontLost(s)
    /\ Len(t.wire) > Len(s.wire) /\ t.ringSize = s.ringSize => LastOut(t) \notin RingsIn(s)

LEMMA WireLength ==
    ASSUME NEW s \in Surfaces
    PROVE  Len(s.wire) \in Nat /\ DOMAIN s.wire = 1..Len(s.wire)
  BY DEF Surfaces

LEMMA NoRingNoneInUse ==
    ASSUME NEW s, Sound(s), s.ringSize = 0
    PROVE  RingsIn(s) = {}
  BY BufferKinds DEF Sound, InOnePlace, NoRingNoFlags, RingsIn

LEMMA QuietThenQuiet ==
    ASSUME NEW s, NEW t, NEW u, Good(s), Quiet(s, t), Quiet(t, u),
           t.ringSize = u.ringSize \/ s.ringSize = t.ringSize
    PROVE  Quiet(s, u)
  BY DEF Quiet

LEMMA QuietThenDrew ==
    ASSUME NEW s, NEW t, NEW u, Good(s), Quiet(s, t), Drew(t, u)
    PROVE  Painted(s, u)
<1> SUFFICES ASSUME Len(u.wire) > Len(s.wire), u.ringSize = s.ringSize,
                    LastOut(u) \in RingsIn(s)
             PROVE  FALSE
  BY DEF Quiet, Drew, Painted
<1>1. LastOut(u) \in Rings /\ Len(u.wire) # Len(t.wire)
  <2>1. Len(u.wire) \in Nat /\ Len(s.wire) \in Nat
    BY WireLength DEF Drew, Good, Sound
  <2>2. QED
    BY <2>1 DEF RingsIn, Quiet
<1>2. u.ringSize = t.ringSize /\ LastOut(u) \notin InUse(t)
  BY <1>1 DEF Drew
<1>3. s.ringSize # 0
  BY NoRingNoneInUse DEF Good
<1>4. QED
  BY <1>2, <1>3 DEF Quiet, RingsIn

LEMMA DrewIsPainted ==
    ASSUME NEW s, NEW t, Good(s), Drew(s, t)
    PROVE  Painted(s, t)
  <1>1. Quiet(s, s)
    BY DEF Quiet
  <1>2. QED
    BY <1>1, QuietThenDrew

(* What is not about buffers may change. *)
SameView(s, t) ==
    /\ t \in Surfaces
    /\ t.busy = s.busy /\ t.ringSize = s.ringSize /\ t.active = s.active
    /\ t.front = s.front /\ t.wire = s.wire /\ t.news = s.news /\ t.held = s.held
    /\ t.kept = s.kept

LEMMA SameViewQuiet ==
    ASSUME NEW s, Good(s), NEW t, SameView(s, t)
    PROVE  Quiet(s, t) /\ Good(t)
  BY DEF SameView, Quiet, Good, Sound, InOnePlace, NoRingNoFlags, ActiveShown,
         FlagsCleared, FrontLost, InUse, RingsIn

(* A new ring begins with nothing in use; without one nothing of it is. *)
LEMMA TeardownClears ==
    ASSUME NEW s, Sound(s)
    PROVE  LET t == Teardown(s)
           IN  /\ Good(t)
               /\ RingsIn(t) = {} /\ t.ringSize = 0
               /\ t.news = Compact(s.news, Rings)
               /\ Len(t.wire) = Len(s.wire)
               /\ FrontLost(t) => FrontLost(s)
               /\ t.size = s.size /\ t.role = s.role /\ t.shmSize = s.shmSize
               /\ t.left = s.left
<1> DEFINE f == Forget(s, Rings)
           t == Teardown(s)
<1>1. Rings \in SUBSET Bufs /\ s \in Surfaces
  BY BufferKinds DEF Sound
<1>2. t = [f EXCEPT !.ringSize = 0, !.busy = [i \in Slots |-> FALSE], !.next = 0,
                    !.last = NoSlot]
  BY DEF Teardown, Rings
<1>3. /\ f \in Surfaces /\ f.active = s.active /\ f.news = Compact(s.news, Rings)
      /\ f.size = s.size /\ f.role = s.role /\ f.shmSize = s.shmSize /\ f.left = s.left
      /\ Len(f.wire) = Len(s.wire) /\ DOMAIN f.wire = DOMAIN s.wire
      /\ f.held = s.held \ Rings
      /\ f.front = (IF s.front \in Rings THEN NoBuf ELSE s.front)
      /\ f.kept = {h \in s.kept : <<"shm", h>> \notin Rings}
  BY <1>1, ForgetFields
<1>4. \A i \in DOMAIN s.wire : f.wire[i] = IF s.wire[i] \in Rings THEN NoBuf ELSE s.wire[i]
  BY <1>1, ForgetFields
<1> HIDE DEF f, t
<1>5. t \in Surfaces
  <2>1. 0 \in Slots /\ [i \in Slots |-> FALSE] \in [Slots -> BOOLEAN]
    BY SurfaceAssumption DEF Slots
  <2>2. QED
    BY <1>2, <1>3, <2>1 DEF Surfaces
<1>6. /\ t.ringSize = 0 /\ t.busy = [i \in Slots |-> FALSE]
      /\ t.active = f.active /\ t.news = f.news /\ t.wire = f.wire /\ t.held = f.held
      /\ t.front = f.front /\ t.kept = f.kept
      /\ t.size = f.size /\ t.role = f.role /\ t.shmSize = f.shmSize /\ t.left = f.left
  BY <1>2, <1>3 DEF Surfaces
<1>7. s.kept = t.kept
  BY <1>1, <1>3, <1>6, BufferKinds DEF Rings, Surfaces
<1>8. Waiting(t.news) \cap Rings = {}
  <2>1. s.news \in Seq(Bufs)
    BY <1>1 DEF Surfaces
  <2>2. QED
    BY <1>3, <1>6, <2>1, CompactRange DEF Waiting
<1>9. InUse(t) \cap Rings = {}
  BY <1>3, <1>4, <1>6, BufferKinds DEF InUse
<1>10. ActiveShown(t)
  BY <1>1, <1>3, <1>6 DEF ActiveShown, Sound, NoBuf
<1>11. InOnePlace(t) /\ FlagsCleared(t) /\ NoRingNoFlags(t)
  BY <1>6, <1>8, <1>9 DEF InOnePlace, FlagsCleared, NoRingNoFlags, Waiting, InUse
<1>12. FrontLost(t) => FrontLost(s)
  BY <1>3, <1>6, <1>7 DEF FrontLost, NoBuf
<1>13. QED
  BY <1>3, <1>5, <1>6, <1>9, <1>10, <1>11, <1>12 DEF Good, Sound, RingsIn, t

LEMMA TeardownQuiet ==
    ASSUME NEW s, Sound(s)
    PROVE  Quiet(s, Teardown(s))
  BY TeardownClears DEF Quiet

(* ensure_dmabuf_ring, whether or not a ring can be made. *)
LEMMA EnsureRingQuiet ==
    ASSUME NEW s, Good(s)
    PROVE  Quiet(s, EnsureRing(s))
<1> DEFINE t == Teardown(s)
           u == [t EXCEPT !.ringSize = s.size]
<1>1. Sound(s) /\ s \in Surfaces
  BY DEF Good, Sound
<1>2. Quiet(s, t) /\ RingsIn(t) = {} /\ t.ringSize = 0 /\ t.size = s.size
      /\ t \in Surfaces /\ Good(t)
  BY <1>1, TeardownQuiet, TeardownClears DEF Good, Sound
<1> HIDE DEF t
<1>3. u \in Surfaces
  BY <1>1, <1>2 DEF Surfaces
<1>4. /\ u.ringSize = s.size /\ u.size = s.size
      /\ u.busy = t.busy /\ u.active = t.active /\ u.front = t.front /\ u.wire = t.wire
      /\ u.news = t.news /\ u.held = t.held /\ u.kept = t.kept
  BY <1>2 DEF Surfaces
<1> HIDE DEF u
<1>5. Good(u) /\ FrontLost(u) = FrontLost(t)
  BY <1>2, <1>3, <1>4
     DEF Good, Sound, InOnePlace, NoRingNoFlags, ActiveShown, FlagsCleared, FrontLost, InUse
<1>6. CASE s.ringSize = s.size
  <2>1. EnsureRing(s) = s
    BY <1>6 DEF EnsureRing
  <2>2. Quiet(s, s)
    BY DEF Quiet
  <2>3. QED
    BY <1>6, <2>1, <2>2
<1>7. CASE s.ringSize # s.size
  <2>1. Quiet(s, u)
    BY <1>2, <1>4, <1>5, <1>7 DEF Quiet
  <2>2. EnsureRing(s) = IF gpu THEN u ELSE t
    BY <1>7 DEF EnsureRing, t, u
  <2>3. QED
    BY <2>1, <2>2, <1>2, <1>4
<1>8. QED
  BY <1>6, <1>7

(* ensure_shm_buffer touches nothing of the ring. *)
LEMMA EnsureShmQuiet ==
    ASSUME NEW s, Good(s)
    PROVE  /\ Quiet(s, EnsureShm(s)) /\ EnsureShm(s).ringSize = s.ringSize
           /\ EnsureShm(s).size = s.size
<1> DEFINE shm == {"shm"} \X Halves
           f == Forget(s, shm)
           t == [f EXCEPT !.shmSize = s.size, !.active = 0,
                          !.released = [h \in Halves |-> TRUE]]
<1>1. shm \in SUBSET Bufs /\ s \in Surfaces /\ s.news \in Seq(Bufs)
  BY BufferKinds DEF Good, Sound, Surfaces
<1>2. /\ f \in Surfaces /\ f.busy = s.busy /\ f.ringSize = s.ringSize
      /\ f.news = Compact(s.news, shm) /\ f.size = s.size
      /\ Len(f.wire) = Len(s.wire) /\ DOMAIN f.wire = DOMAIN s.wire
      /\ f.held = s.held \ shm
      /\ f.front = (IF s.front \in shm THEN NoBuf ELSE s.front)
  BY <1>1, ForgetFields
<1>3. \A i \in DOMAIN s.wire : f.wire[i] = IF s.wire[i] \in shm THEN NoBuf ELSE s.wire[i]
  BY <1>1, ForgetFields
<1> HIDE DEF f
<1>4. t \in Surfaces
  <2>1. 0 \in Halves /\ [h \in Halves |-> TRUE] \in [Halves -> BOOLEAN]
    BY DEF Halves
  <2>2. QED
    BY <1>1, <1>2, <2>1 DEF Surfaces
<1>5. /\ t.busy = f.busy /\ t.ringSize = f.ringSize /\ t.news = f.news
      /\ t.wire = f.wire /\ t.held = f.held /\ t.front = f.front /\ t.size = f.size
  BY <1>2 DEF Surfaces
<1> HIDE DEF t
<1>6. ~(t.front[1] = "shm")
  <2>1. s.front \in SeenBufs
    BY <1>1 DEF Surfaces
  <2>2. QED
    BY <1>2, <1>5, <2>1, BufferKinds DEF NoBuf
<1> HIDE DEF shm
<1>7. shm \cap Rings = {}
  BY BufferKinds DEF shm
<1>8. Waiting(t.news) = Waiting(s.news) \ shm
  BY <1>1, <1>2, <1>5, CompactRange DEF Waiting
<1>9. \A b \in Rings : \A i, j \in DOMAIN t.news : t.news[i] = b /\ t.news[j] = b => i = j
  <2> SUFFICES ASSUME NEW b \in Rings, NEW i \in DOMAIN t.news, NEW j \in DOMAIN t.news,
                      t.news[i] = b, t.news[j] = b, i < j
               PROVE  FALSE
    <3>1. t.news \in Seq(Bufs)
      BY <1>4 DEF Surfaces
    <3>2. QED
      BY <3>1
  <2>1. PICK k \in DOMAIN s.news, l \in DOMAIN s.news :
            k < l /\ s.news[k] = b /\ s.news[l] = b
    BY <1>1, <1>2, <1>5, CompactOrder
  <2>2. k = l
    BY <2>1 DEF Good, Sound, InOnePlace
  <2>3. QED
    BY <2>1, <2>2, <1>1
<1>10. \A b \in Rings : \A i \in DOMAIN s.wire : t.wire[i] = b <=> s.wire[i] = b
  BY <1>3, <1>5, <1>7, BufferKinds
<1>11. \A b \in Rings :
          /\ b \in Waiting(t.wire) <=> b \in Waiting(s.wire)
          /\ b \in Waiting(t.news) <=> b \in Waiting(s.news)
          /\ b \in t.held <=> b \in s.held
          /\ b \in InUse(t) <=> b \in InUse(s)
  BY <1>2, <1>5, <1>7, <1>8, <1>10 DEF Waiting, InUse
<1>12. InOnePlace(t)
  <2>1. InOnePlace(s) /\ t.busy = s.busy /\ DOMAIN t.wire = DOMAIN s.wire
    BY <1>2, <1>5 DEF Good, Sound
  <2>2. \A b \in Rings : \A i, j \in DOMAIN t.wire : t.wire[i] = b /\ t.wire[j] = b => i = j
    BY <2>1, <1>10 DEF InOnePlace
  <2>3. \A b \in Rings :
           /\ b \in Waiting(t.wire) => b \notin t.held /\ b \notin Waiting(t.news)
           /\ b \in t.held => b \notin Waiting(t.news)
    BY <2>1, <1>11 DEF InOnePlace
  <2>4. \A b \in Rings : b \in InUse(t) \cup Waiting(t.news) => t.busy[b[2]]
    BY <2>1, <1>11 DEF InOnePlace
  <2>5. QED
    BY <2>2, <2>3, <2>4, <1>9 DEF InOnePlace
<1>13. FlagsCleared(t) /\ NoRingNoFlags(t)
  <2>1. /\ FlagsCleared(s) /\ NoRingNoFlags(s)
        /\ t.busy = s.busy /\ t.ringSize = s.ringSize
    BY <1>2, <1>5 DEF Good, Sound
  <2>2. \A i \in Slots : <<"ring", i>> \in Rings
    BY BufferKinds
  <2>3. QED
    BY <2>1, <2>2, <1>11 DEF FlagsCleared, NoRingNoFlags
<1>14. Good(t)
  <2>1. ActiveShown(t)
    BY <1>6 DEF ActiveShown
  <2>2. QED
    BY <2>1, <1>4, <1>12, <1>13 DEF Good, Sound
<1>15. Quiet(s, t)
  BY <1>2, <1>5, <1>6, <1>11, <1>14 DEF Quiet, FrontLost, RingsIn
<1>16. Quiet(s, s)
  BY DEF Quiet
<1>17. EnsureShm(s) = IF s.shmSize = s.size THEN s ELSE t
  BY DEF EnsureShm, t, f, shm
<1>18. QED
  BY <1>2, <1>5, <1>15, <1>16, <1>17

-----------------------------------------------------------------------------
(* Drawing.                                                                *)

(* The slot i with its flag set, and the next search from n. *)
Flagged(s, i, n) == [s EXCEPT !.next = n, !.busy[i] = TRUE]

LEMMA SlotsWrap == \A n \in Nat : n % RingSize \in Slots
  BY SurfaceAssumption DEF Slots

(* dmabuf_ring_acquire finds nothing, or a slot whose flag it sets. *)
LEMMA AcquireFree ==
    ASSUME NEW s, s \in Surfaces
    PROVE  LET a == Acquire(s)
           IN  \/ a.slot = NoSlot /\ a.s = s
               \/ /\ a.slot \in Slots /\ a.slot # NoSlot /\ ~s.busy[a.slot]
                  /\ \E n \in Slots : a.s = Flagged(s, a.slot, n)
<1> DEFINE free == {k \in Slots : ~s.busy[(s.next + k) % RingSize]}
           k == CHOOSE k \in free : \A j \in free : k <= j
           slot == (s.next + k) % RingSize
<1>1. CASE free = {}
  BY <1>1 DEF Acquire
<1>2. CASE free # {}
  <2>1. free \in SUBSET Nat
    BY SurfaceAssumption DEF Slots
  <2>2. k \in free
    <3> HIDE DEF free
    <3>1. \E m \in free : \A j \in free : m <= j
      BY <1>2, <2>1, LeastNatural
    <3>2. QED
      BY <3>1
  <2>3. k \in Slots /\ ~s.busy[slot]
    BY <2>2
  <2> HIDE DEF free, k
  <2>4. s.next \in Nat /\ k \in Nat
    BY <2>3, SurfaceAssumption DEF Surfaces, Slots
  <2>5. slot \in Slots
    BY <2>4, SlotsWrap
  <2> HIDE DEF slot
  <2>6. (slot + 1) % RingSize \in Slots
    BY <2>5, SlotsWrap, SurfaceAssumption DEF Slots
  <2>7. slot # NoSlot
    BY <2>5, SurfaceAssumption DEF Slots, NoSlot
  <2>8. Acquire(s) = [slot |-> slot,
                      s |-> [s EXCEPT !.next = (slot + 1) % RingSize, !.busy[slot] = TRUE]]
    BY <1>2 DEF Acquire, slot, k, free
  <2>9. Acquire(s).slot = slot /\ ~s.busy[slot]
    BY <2>3, <2>8
  <2>10. Acquire(s).s = Flagged(s, slot, (slot + 1) % RingSize)
    BY <2>8 DEF Flagged
  <2>11. QED
    BY <2>5, <2>6, <2>7, <2>9, <2>10
<1>3. QED
  BY <1>1, <1>2

(* A flagged slot that is not committed is only sound until the ring goes. *)
LEMMA FlagSound ==
    ASSUME NEW s, Good(s), s.ringSize # 0, NEW i \in Slots, NEW n \in Slots
    PROVE  LET t == Flagged(s, i, n)
           IN  /\ Sound(t) /\ t.wire = s.wire /\ t.news = s.news /\ t.held = s.held
               /\ t.front = s.front /\ t.kept = s.kept /\ t.ringSize = s.ringSize
               /\ t.active = s.active /\ t.size = s.size /\ t.left = s.left
               /\ t.busy = [s.busy EXCEPT ![i] = TRUE]
<1> DEFINE bs == [s.busy EXCEPT ![i] = TRUE]
           t == [s EXCEPT !.next = n, !.busy = bs]
<1>1. s \in Surfaces /\ bs \in [Slots -> BOOLEAN]
  BY DEF Good, Sound, Surfaces
<1>2. \A j \in Slots : s.busy[j] => bs[j]
  BY <1>1 DEF Surfaces
<1> HIDE DEF bs
<1>3. t \in Surfaces
  BY <1>1 DEF Surfaces
<1>4. /\ t.wire = s.wire /\ t.news = s.news /\ t.held = s.held
      /\ t.front = s.front /\ t.kept = s.kept /\ t.ringSize = s.ringSize
      /\ t.active = s.active /\ t.busy = bs /\ t.size = s.size /\ t.left = s.left
  BY <1>1 DEF Surfaces
<1> HIDE DEF t
<1>5. InOnePlace(t) /\ NoRingNoFlags(t) /\ ActiveShown(t)
  BY <1>2, <1>4, BufferKinds
     DEF Good, Sound, InOnePlace, NoRingNoFlags, ActiveShown, InUse
<1>6. QED
  BY <1>3, <1>4, <1>5 DEF Sound, t, bs, Flagged

LEMMA FlagKeeps ==
    ASSUME NEW s, Good(s), s.ringSize # 0, NEW i \in Slots, NEW n \in Slots
    PROVE  /\ Sound(Flagged(s, i, n))
           /\ Flagged(s, i, n).front = s.front /\ Flagged(s, i, n).kept = s.kept
<1> DEFINE t == Flagged(s, i, n)
<1>1. Sound(t) /\ t.front = s.front /\ t.kept = s.kept
  BY FlagSound, Zenon
<1>2. QED
  BY <1>1

(* A free slot, flagged and committed. *)
LEMMA CommitRingDrew ==
    ASSUME NEW s, Good(s), s.ringSize # 0,
           NEW i \in Slots, NEW n \in Slots, ~s.busy[i]
    PROVE  Drew(s, CommitRing(Flagged(s, i, n), i))
<1> DEFINE u == Flagged(s, i, n)
           b == <<"ring", i>>
           w == Append(u.wire, b)
           t == [u EXCEPT !.front = b, !.wire = w, !.last = i]
<1>1. /\ Sound(u) /\ u.wire = s.wire /\ u.news = s.news /\ u.held = s.held
      /\ u.ringSize = s.ringSize /\ u.busy = [s.busy EXCEPT ![i] = TRUE]
  BY FlagSound
<1> HIDE DEF u
<1>2. u \in Surfaces /\ b \in Rings /\ b \in SeenBufs /\ s \in Surfaces
  <2>1. b \in Rings /\ b \in SeenBufs
    BY BufferKinds DEF SeenBufs
  <2>2. QED
    BY <1>1, <2>1 DEF Sound, Good
<1>3. b \notin InUse(s) \cup Waiting(s.news)
  BY <1>2 DEF Good, Sound, InOnePlace
<1> HIDE DEF b
<1>4. /\ w \in Seq(SeenBufs) /\ Len(w) = Len(s.wire) + 1 /\ Len(s.wire) \in Nat
      /\ DOMAIN w = 1..Len(s.wire) + 1 /\ DOMAIN s.wire = 1..Len(s.wire)
      /\ w[Len(s.wire) + 1] = b
      /\ \A j \in DOMAIN s.wire : w[j] = s.wire[j]
  <2>1. s.wire \in Seq(SeenBufs) /\ u.wire = s.wire
    BY <1>1, <1>2 DEF Surfaces
  <2>2. QED
    BY <2>1, <1>2
<1> HIDE DEF w
<1>5. t \in Surfaces
  BY <1>2, <1>4 DEF Surfaces
<1>6. /\ t.front = b /\ t.wire = w /\ t.news = s.news /\ t.held = s.held
      /\ t.ringSize = s.ringSize /\ t.busy = u.busy
  BY <1>1, <1>2 DEF Surfaces
<1> HIDE DEF t
<1>7. InUse(t) = InUse(s) \cup {b} /\ Waiting(t.wire) = Waiting(s.wire) \cup {b}
  BY <1>4, <1>6 DEF InUse, Waiting
<1>8. \A j \in Slots : t.busy[j] <=> s.busy[j] \/ j = i
  BY <1>1, <1>2, <1>6 DEF Surfaces
<1>9. \A j \in Slots : <<"ring", j>> = b <=> j = i
  BY DEF b
<1>10. InOnePlace(t)
  <2>1. InOnePlace(s)
    BY DEF Good, Sound
  <2> SUFFICES ASSUME NEW c \in Rings
               PROVE  /\ c \in Waiting(t.wire) => c \notin t.held /\ c \notin Waiting(t.news)
                      /\ c \in t.held => c \notin Waiting(t.news)
                      /\ \A k, j \in DOMAIN t.wire : t.wire[k] = c /\ t.wire[j] = c => k = j
                      /\ \A k, j \in DOMAIN t.news : t.news[k] = c /\ t.news[j] = c => k = j
                      /\ c \in InUse(t) \cup Waiting(t.news) => t.busy[c[2]]
    BY DEF InOnePlace
  <2>2. CASE c = b
    <3>1. b \notin Waiting(s.wire) /\ b \notin s.held /\ b \notin Waiting(s.news)
      BY <1>3 DEF InUse, Waiting
    <3>2. \A k \in DOMAIN t.wire : t.wire[k] = b => k = Len(s.wire) + 1
      BY <1>4, <1>6, <3>1 DEF Waiting
    <3>3. \A k \in DOMAIN t.news : t.news[k] # b
      BY <1>6, <3>1 DEF Waiting
    <3>4. t.busy[b[2]]
      BY <1>8 DEF b
    <3>5. QED
      BY <2>2, <3>1, <3>2, <3>3, <3>4, <1>6
  <2>3. CASE c # b
    <3>1. \A k \in DOMAIN t.wire : t.wire[k] = c => k \in DOMAIN s.wire /\ s.wire[k] = c
      BY <1>4, <1>6, <2>3
    <3>2. c[2] \in Slots
      BY BufferKinds
    <3>3. c \in InUse(t) \cup Waiting(t.news) => t.busy[c[2]]
      BY <1>6, <1>7, <1>8, <2>1, <2>3, <3>2 DEF InOnePlace
    <3>4. QED
      BY <1>6, <1>7, <2>1, <2>3, <3>1, <3>3 DEF InOnePlace
  <2>4. QED
    BY <2>2, <2>3
<1>11. FlagsCleared(t)
  BY <1>6, <1>7, <1>8, <1>9 DEF FlagsCleared, Good
<1>12. NoRingNoFlags(t)
  BY <1>6 DEF NoRingNoFlags
<1>13. t.front[1] # "shm"
  BY <1>6 DEF b
<1>14. Good(t)
  BY <1>5, <1>10, <1>11, <1>12, <1>13 DEF Good, Sound, ActiveShown
<1>15. Drew(s, t)
  BY <1>3, <1>4, <1>6, <1>13, <1>14 DEF Drew, FrontLost, LastOut
<1>16. CommitRing(u, i) = t
  BY <1>2, <1>4 DEF CommitRing, Commit, t, w, b, Surfaces
<1>17. QED
  BY <1>15, <1>16 DEF u

(* Shared memory is drawn over whether or not it was given back, so nothing is asked of *)
(* its buffers; what is seen is what was drawn.                            *)
LEMMA CommitShmDrew ==
    ASSUME NEW s, Good(s)
    PROVE  LET t == CommitShm(s)
           IN  /\ Drew(s, t) /\ t.ringSize = s.ringSize /\ ~FrontLost(t)
               /\ Len(t.wire) = Len(s.wire) + 1 /\ LastOut(t) \notin Rings
<1> DEFINE h == 1 - s.active
           b == <<"shm", h>>
           w == Append(s.wire, b)
           r == [s.released EXCEPT ![h] = FALSE]
           k == s.kept \cup {h}
           t == [s EXCEPT !.front = b, !.wire = w, !.released = r, !.active = h, !.kept = k]
<1>1. /\ s \in Surfaces /\ s.active \in Halves /\ s.wire \in Seq(SeenBufs)
      /\ s.kept \in SUBSET Halves /\ s.released \in [Halves -> BOOLEAN]
  BY DEF Good, Sound, Surfaces
<1>2. h \in Halves
  BY <1>1 DEF Halves
<1> HIDE DEF h
<1>3. b \in SeenBufs /\ b \notin Rings /\ r \in [Halves -> BOOLEAN] /\ k \in SUBSET Halves
  <2>1. b \in Bufs /\ b[1] # "ring"
    BY <1>2, BufferKinds
  <2>2. QED
    BY <2>1, <1>1, <1>2, BufferKinds DEF SeenBufs
<1>4. b[1] = "shm" /\ b[2] = h /\ h \in k
  OBVIOUS
<1>5. b = <<"shm", h>>
  OBVIOUS
<1> HIDE DEF b, r, k
<1>6. /\ w \in Seq(SeenBufs) /\ Len(w) = Len(s.wire) + 1 /\ Len(s.wire) \in Nat
      /\ DOMAIN w = 1..Len(s.wire) + 1 /\ DOMAIN s.wire = 1..Len(s.wire)
      /\ w[Len(s.wire) + 1] = b
      /\ \A j \in DOMAIN s.wire : w[j] = s.wire[j]
  BY <1>1, <1>3
<1> HIDE DEF w
<1>7. t \in Surfaces
  BY <1>1, <1>2, <1>3, <1>6 DEF Surfaces
<1>8. /\ t.front = b /\ t.wire = w /\ t.news = s.news /\ t.held = s.held
      /\ t.ringSize = s.ringSize /\ t.busy = s.busy /\ t.active = h /\ t.kept = k
  BY <1>1 DEF Surfaces
<1>9. CommitShm(s) = t
  BY <1>1 DEF CommitShm, Commit, t, w, r, k, b, h, Surfaces
<1> HIDE DEF t
<1>10. \A c \in Rings :
          /\ c \in InUse(t) <=> c \in InUse(s)
          /\ c \in Waiting(t.wire) <=> c \in Waiting(s.wire)
  BY <1>3, <1>6, <1>8 DEF InUse, Waiting
<1>11. InOnePlace(t)
  <2>1. InOnePlace(s)
    BY DEF Good, Sound
  <2>2. \A c \in Rings : \A i, j \in DOMAIN t.wire : t.wire[i] = c /\ t.wire[j] = c => i = j
    <3> SUFFICES ASSUME NEW c \in Rings, NEW i \in DOMAIN t.wire, NEW j \in DOMAIN t.wire,
                        t.wire[i] = c, t.wire[j] = c
                 PROVE  i = j
      OBVIOUS
    <3>1. /\ i \in DOMAIN s.wire /\ s.wire[i] = c
          /\ j \in DOMAIN s.wire /\ s.wire[j] = c
      BY <1>3, <1>6, <1>8
    <3>2. QED
      BY <3>1, <2>1 DEF InOnePlace
  <2>3. QED
    BY <2>1, <2>2, <1>8, <1>10 DEF InOnePlace
<1>12. FlagsCleared(t) /\ NoRingNoFlags(t)
  <2>1. FlagsCleared(s) /\ NoRingNoFlags(s)
    BY DEF Good, Sound
  <2>2. \A i \in Slots : <<"ring", i>> \in Rings
    BY BufferKinds
  <2>3. QED
    BY <2>1, <2>2, <1>8, <1>10 DEF FlagsCleared, NoRingNoFlags
<1>13. ActiveShown(t) /\ ~FrontLost(t)
  BY <1>4, <1>5, <1>8 DEF ActiveShown, FrontLost
<1>14. Good(t)
  BY <1>7, <1>11, <1>12, <1>13 DEF Good, Sound
<1>15. LastOut(t) = b /\ Len(t.wire) = Len(s.wire) + 1
  BY <1>6, <1>8 DEF LastOut
<1>16. QED
  BY <1>3, <1>8, <1>9, <1>13, <1>14, <1>15 DEF Drew

(* The half that is shown is never dropped. *)
LEMMA DropInactiveKeeps ==
    ASSUME NEW s, Good(s)
    PROVE  LET t == DropInactive(s)
           IN  /\ Quiet(s, t) /\ t.ringSize = s.ringSize
               /\ t.wire = s.wire /\ InUse(t) = InUse(s)
<1> DEFINE k == s.kept \ {1 - s.active}
           t == [s EXCEPT !.kept = k]
<1>1. /\ s \in Surfaces /\ s.active \in Halves /\ ActiveShown(s) /\ s.front \in SeenBufs
      /\ k \in SUBSET Halves
  BY DEF Good, Sound, Surfaces
<1>2. FrontLost([s EXCEPT !.kept = k]) => FrontLost(s)
  <2>1. s.active # 1 - s.active
    BY <1>1 DEF Halves
  <2>2. t.front = s.front /\ t.kept = k
    BY <1>1 DEF Surfaces
  <2>3. s.front[1] = "shm" => s.front[2] = s.active
    BY <1>1 DEF ActiveShown
  <2>4. QED
    BY <2>1, <2>2, <2>3 DEF FrontLost
<1> HIDE DEF k
<1>3. t \in Surfaces
  BY <1>1 DEF Surfaces
<1>4. /\ t.busy = s.busy /\ t.ringSize = s.ringSize /\ t.active = s.active
      /\ t.front = s.front /\ t.wire = s.wire /\ t.news = s.news /\ t.held = s.held
  BY <1>1 DEF Surfaces
<1>5. FrontLost(t) => FrontLost(s)
  BY <1>2 DEF k
<1> HIDE DEF t
<1>6. InUse(t) = InUse(s)
  BY <1>4 DEF InUse
<1>7. Quiet(s, t)
  BY <1>3, <1>4, <1>5, <1>6 DEF Quiet, Good, Sound, InOnePlace, NoRingNoFlags, ActiveShown,
                                FlagsCleared, RingsIn
<1>8. DropInactive(s) = IF s.released[1 - s.active] THEN t ELSE s
  BY DEF DropInactive, t, k
<1>9. Quiet(s, s)
  BY DEF Quiet
<1>10. QED
  BY <1>4, <1>6, <1>7, <1>8, <1>9

(* The whole of the shared-memory path: one buffer, which is not of the ring. *)
LEMMA ShmPathDraws ==
    ASSUME NEW s, Good(s)
    PROVE  LET t == ShmPath(s)
           IN  /\ Good(t) /\ t.ringSize = s.ringSize
               /\ FrontLost(t) => FrontLost(s)
               /\ LastOut(t) \notin Rings
<1> DEFINE e == EnsureShm(s)
           c == CommitShm(e)
           d == DropInactive(c)
<1>1. Good(e) /\ e.ringSize = s.ringSize
  BY EnsureShmQuiet DEF Quiet
<1> HIDE DEF e
<1>2. Good(c) /\ c.ringSize = s.ringSize /\ ~FrontLost(c) /\ LastOut(c) \notin Rings
  BY <1>1, CommitShmDrew DEF Drew
<1> HIDE DEF c
<1>3. Quiet(c, d) /\ d.ringSize = c.ringSize /\ d.wire = c.wire
  BY <1>2, DropInactiveKeeps
<1>4. ShmPath(s) = d
  BY DEF ShmPath, d, c, e
<1>5. QED
  BY <1>2, <1>3, <1>4 DEF Quiet, LastOut

(* What follows a commit in the same step commits nothing more. *)
LEMMA DrewThenSame ==
    ASSUME NEW s, NEW t, NEW u, Drew(s, t), Quiet(t, u),
           u.wire = t.wire, u.ringSize = t.ringSize
    PROVE  Drew(s, u)
  BY DEF Drew, Quiet, LastOut

LEMMA PaintedThenSame ==
    ASSUME NEW s, NEW t, NEW u, Painted(s, t), SameView(t, u)
    PROVE  Painted(s, u)
<1>1. Quiet(t, u)
  BY SameViewQuiet DEF Painted
<1>2. QED
  BY <1>1 DEF Painted, Quiet, SameView, LastOut

LEMMA NotOfTheRing ==
    ASSUME NEW s, NEW t, Good(t), FrontLost(t) => FrontLost(s), LastOut(t) \notin Rings
    PROVE  Painted(s, t)
  BY DEF Painted, RingsIn

LEMMA StillSame ==
    ASSUME NEW s \in Surfaces
    PROVE  SameView(s, Still(s))
<1>1. 0 \in 0..MaxFrames
  BY SurfaceAssumption
<1>2. QED
  BY <1>1 DEF Still, SameView, Surfaces

(* A picture: from a free buffer of the ring, else from shared memory. *)
LEMMA PaintPainted ==
    ASSUME NEW s, Good(s), NEW uploads \in BOOLEAN
    PROVE  Painted(s, Paint(s, uploads))
<1> DEFINE r == EnsureRing(s)
           a == Acquire(r)
<1>1. Quiet(s, r) /\ Good(r) /\ r \in Surfaces
  BY EnsureRingQuiet DEF Quiet, Good, Sound
<1>2. \/ a.slot = NoSlot
      \/ /\ a.slot \in Slots /\ a.slot # NoSlot /\ ~r.busy[a.slot]
         /\ \E n \in Slots : a.s = Flagged(r, a.slot, n)
  BY <1>1, AcquireFree
<1>3. Paint(s, uploads) = IF r.ringSize = 0 \/ a.slot = NoSlot THEN ShmPath(r)
                          ELSE IF uploads THEN CommitRing(a.s, a.slot)
                          ELSE ShmPath(Teardown(a.s))
  BY DEF Paint
<1> HIDE DEF r, a
<1>4. CASE r.ringSize = 0 \/ a.slot = NoSlot
  <2>1. /\ Good(ShmPath(r))
        /\ FrontLost(ShmPath(r)) => FrontLost(s)
        /\ LastOut(ShmPath(r)) \notin Rings
    BY <1>1, ShmPathDraws DEF Quiet
  <2>2. QED
    BY <1>3, <1>4, <2>1, NotOfTheRing
<1>5. CASE ~(r.ringSize = 0 \/ a.slot = NoSlot)
  <2>1. PICK i \in Slots, n \in Slots : a.slot = i /\ a.s = Flagged(r, i, n)
    BY <1>2, <1>5
  <2>2. r.ringSize # 0 /\ ~r.busy[i]
    BY <1>2, <1>5, <2>1
  <2>3. CASE uploads
    <3>1. Drew(r, CommitRing(Flagged(r, i, n), i))
      BY <1>1, <2>2, CommitRingDrew
    <3>2. Painted(s, CommitRing(Flagged(r, i, n), i))
      BY <1>1, <3>1, QuietThenDrew
    <3>3. QED
      BY <1>3, <1>5, <2>1, <2>3, <3>2
  <2>4. CASE ~uploads
    <3>0. /\ Sound(Flagged(r, i, n))
          /\ Flagged(r, i, n).front = r.front /\ Flagged(r, i, n).kept = r.kept
      <4>1. Good(r) /\ r.ringSize # 0
        BY <1>1, <2>2
      <4>2. QED
        BY <4>1, FlagKeeps
    <3>1. Sound(a.s) /\ a.s.front = r.front /\ a.s.kept = r.kept
      BY <2>1, <3>0
    <3>2. Good(Teardown(a.s)) /\ (FrontLost(Teardown(a.s)) => FrontLost(a.s))
      BY <3>1, TeardownClears
    <3>3. FrontLost(a.s) => FrontLost(s)
      BY <3>1, <1>1 DEF Quiet, FrontLost
    <3> DEFINE t == Teardown(a.s)
    <3> HIDE DEF t
    <3>4. /\ Good(ShmPath(t))
          /\ FrontLost(ShmPath(t)) => FrontLost(t)
          /\ LastOut(ShmPath(t)) \notin Rings
      BY <3>2, ShmPathDraws DEF t
    <3>5. Painted(s, ShmPath(t))
      BY <3>2, <3>3, <3>4, NotOfTheRing DEF t
    <3>6. QED
      BY <1>3, <1>5, <2>4, <3>5 DEF t
  <2>5. QED
    BY <2>3, <2>4
<1>6. QED
  BY <1>4, <1>5

LEMMA RenderImagePainted ==
    ASSUME NEW s, Good(s), NEW uploads \in BOOLEAN
    PROVE  Painted(s, RenderImage(s, uploads))
<1> DEFINE p == Paint(s, uploads)
           q == Still(p)
           t == [q EXCEPT !.hasImage = TRUE]
<1>1. Painted(s, p) /\ p \in Surfaces
  BY PaintPainted DEF Painted, Good, Sound
<1> HIDE DEF p
<1>2. Painted(s, q) /\ q \in Surfaces
  BY <1>1, StillSame, PaintedThenSame DEF SameView
<1> HIDE DEF q
<1>3. SameView(q, t)
  BY <1>2 DEF SameView, Surfaces
<1>4. Painted(s, t) /\ Painted(s, s)
  <2>1. Painted(s, t)
    BY <1>2, <1>3, PaintedThenSame
  <2>2. QED
    BY <2>1 DEF Painted
<1>5. RenderImage(s, uploads) = IF s.role # "ready" THEN s ELSE t
  BY DEF RenderImage, t, q, p
<1>6. QED
  BY <1>4, <1>5

(* A colour: a single-pixel buffer, which is nobody's, or a picture of one colour. *)
LEMMA SingleNotOfTheRing ==
    ASSUME NEW s, Good(s)
    PROVE  LET t == [s EXCEPT !.last = NoSlot, !.front = NoBuf, !.wire = Append(@, NoBuf)]
           IN  Painted(s, t) /\ t \in Surfaces
<1> DEFINE w == Append(s.wire, NoBuf)
           t == [s EXCEPT !.last = NoSlot, !.front = NoBuf, !.wire = w]
<1>1. s \in Surfaces /\ s.wire \in Seq(SeenBufs) /\ NoBuf \in SeenBufs
  BY DEF Good, Sound, Surfaces, SeenBufs
<1>2. NoBuf \notin Rings
  BY BufferKinds
<1>3. NoBuf[1] # "shm"
  BY DEF NoBuf
<1>4. /\ w \in Seq(SeenBufs) /\ Len(w) = Len(s.wire) + 1 /\ Len(s.wire) \in Nat
      /\ DOMAIN w = 1..Len(s.wire) + 1 /\ DOMAIN s.wire = 1..Len(s.wire)
      /\ w[Len(s.wire) + 1] = NoBuf
      /\ \A j \in DOMAIN s.wire : w[j] = s.wire[j]
  BY <1>1
<1>5. t = [s EXCEPT !.last = NoSlot, !.front = NoBuf, !.wire = Append(@, NoBuf)]
  BY <1>1 DEF Surfaces
<1> HIDE DEF w
<1>6. t \in Surfaces
  BY <1>1, <1>4 DEF Surfaces
<1>7. /\ t.front = NoBuf /\ t.wire = w /\ t.news = s.news /\ t.held = s.held
      /\ t.ringSize = s.ringSize /\ t.busy = s.busy /\ t.active = s.active
      /\ t.kept = s.kept
  BY <1>1 DEF Surfaces
<1> HIDE DEF t
<1>8. \A c \in Rings :
          /\ c \in InUse(t) <=> c \in InUse(s)
          /\ c \in Waiting(t.wire) <=> c \in Waiting(s.wire)
  BY <1>2, <1>4, <1>7 DEF InUse, Waiting
<1>9. InOnePlace(t)
  <2>1. InOnePlace(s)
    BY DEF Good, Sound
  <2>2. \A c \in Rings : \A i, j \in DOMAIN t.wire : t.wire[i] = c /\ t.wire[j] = c => i = j
    <3> SUFFICES ASSUME NEW c \in Rings, NEW i \in DOMAIN t.wire, NEW j \in DOMAIN t.wire,
                        t.wire[i] = c, t.wire[j] = c
                 PROVE  i = j
      OBVIOUS
    <3>1. /\ i \in DOMAIN s.wire /\ s.wire[i] = c
          /\ j \in DOMAIN s.wire /\ s.wire[j] = c
      BY <1>2, <1>4, <1>7
    <3>2. QED
      BY <3>1, <2>1 DEF InOnePlace
  <2>3. QED
    BY <2>1, <2>2, <1>7, <1>8 DEF InOnePlace
<1>10. FlagsCleared(t) /\ NoRingNoFlags(t)
  <2>1. FlagsCleared(s) /\ NoRingNoFlags(s)
    BY DEF Good, Sound
  <2>2. \A i \in Slots : <<"ring", i>> \in Rings
    BY BufferKinds
  <2>3. QED
    BY <2>1, <2>2, <1>7, <1>8 DEF FlagsCleared, NoRingNoFlags
<1>11. Good(t) /\ ~FrontLost(t)
  BY <1>3, <1>6, <1>7, <1>9, <1>10 DEF Good, Sound, ActiveShown, FrontLost
<1>12. LastOut(t) \notin Rings
  BY <1>2, <1>4, <1>7 DEF LastOut
<1>13. Painted(s, t)
  BY <1>11, <1>12, NotOfTheRing
<1>14. QED
  BY <1>5, <1>6, <1>13

LEMMA RenderColorPainted ==
    ASSUME NEW s, Good(s), NEW single \in BOOLEAN, NEW uploads \in BOOLEAN
    PROVE  Painted(s, RenderColor(s, single, uploads))
<1> DEFINE one == [s EXCEPT !.last = NoSlot, !.front = NoBuf, !.wire = Append(@, NoBuf)]
           p == IF single THEN one ELSE Paint(s, uploads)
           q == Still(p)
           t == [q EXCEPT !.hasImage = FALSE]
<1>1. Painted(s, p) /\ p \in Surfaces
  <2>1. Painted(s, one) /\ one \in Surfaces
    BY SingleNotOfTheRing
  <2>2. Painted(s, Paint(s, uploads)) /\ Paint(s, uploads) \in Surfaces
    BY PaintPainted DEF Painted, Good, Sound
  <2> HIDE DEF one
  <2>3. QED
    BY <2>1, <2>2
<1>2. RenderColor(s, single, uploads) = IF s.role # "ready" THEN s ELSE t
  BY DEF RenderColor
<1> HIDE DEF p
<1>3. Painted(s, q) /\ q \in Surfaces
  BY <1>1, StillSame, PaintedThenSame DEF SameView
<1> HIDE DEF q
<1>4. SameView(q, t)
  BY <1>3 DEF SameView, Surfaces
<1>5. Painted(s, t) /\ Painted(s, s)
  <2>1. Painted(s, t)
    BY <1>3, <1>4, PaintedThenSame
  <2>2. QED
    BY <2>1 DEF Painted
<1>6. QED
  BY <1>2, <1>5

-----------------------------------------------------------------------------
(* Transitions.                                                            *)

(* What sets a transition up commits nothing. *)
LEMMA LeftSame ==
    ASSUME NEW s, Good(s), NEW n \in 0..MaxFrames
    PROVE  SameView(s, [s EXCEPT !.left = n])
  BY DEF SameView, Surfaces, Good, Sound

LEMMA BeginQuiet ==
    ASSUME NEW s, Good(s), NEW uploads \in BOOLEAN
    PROVE  Quiet(s, Begin(s, uploads))
<1> DEFINE lead == [s EXCEPT !.hasImage = TRUE, !.last = NoSlot]
           t == IF Snapshots(s) THEN lead ELSE s
           r == EnsureRing(t)
           d == Teardown(t)
           m == EnsureShm(d)
<1>1. SameView(s, t)
  <2>1. SameView(s, lead) /\ SameView(s, s)
    BY DEF SameView, Surfaces, Good, Sound
  <2> HIDE DEF lead
  <2>2. QED
    BY <2>1
<1>2. Begin(s, uploads) = IF r.ringSize # 0 /\ uploads THEN [r EXCEPT !.left = MaxFrames]
                          ELSE [m EXCEPT !.left = MaxFrames]
  BY DEF Begin
<1>3. Quiet(s, t) /\ Good(t) /\ t.ringSize = s.ringSize
  BY <1>1, SameViewQuiet DEF SameView
<1> HIDE DEF t
<1>4. Quiet(t, r) /\ Good(r)
  BY <1>3, EnsureRingQuiet DEF Quiet
<1>5. Quiet(s, r)
  BY <1>3, <1>4, QuietThenQuiet
<1>6. Quiet(t, d) /\ Good(d)
  BY <1>3, TeardownQuiet DEF Quiet, Good
<1>7. Quiet(s, d)
  BY <1>3, <1>6, QuietThenQuiet
<1> HIDE DEF r, d
<1>8. Quiet(d, m) /\ Good(m) /\ m.ringSize = d.ringSize
  BY <1>6, EnsureShmQuiet DEF Quiet
<1>9. Quiet(s, m)
  BY <1>7, <1>8, QuietThenQuiet
<1> HIDE DEF m
<1>10. ASSUME NEW u, Good(u), Quiet(s, u)
       PROVE  Quiet(s, [u EXCEPT !.left = MaxFrames])
  <2> DEFINE v == [u EXCEPT !.left = MaxFrames]
  <2>1. MaxFrames \in 0..MaxFrames
    BY SurfaceAssumption
  <2>2. SameView(u, v)
    BY <1>10, <2>1, LeftSame
  <2> HIDE DEF v
  <2>3. Quiet(u, v) /\ v.ringSize = u.ringSize
    BY <1>10, <2>2, SameViewQuiet DEF SameView
  <2>4. Quiet(s, v)
    BY <1>10, <2>3, QuietThenQuiet
  <2>5. QED
    BY <2>4 DEF v
<1>11. QED
  BY <1>2, <1>4, <1>5, <1>8, <1>9, <1>10


(* Nothing is committed, and what was committed last stays the last. *)
Keeps(s, t) == Quiet(s, t) /\ Good(t) /\ t.wire = s.wire /\ t.ringSize = s.ringSize

LEMMA KeepsTwice ==
    ASSUME NEW s, NEW t, NEW u, Good(s), Keeps(s, t), Keeps(t, u)
    PROVE  Keeps(s, u)
  BY QuietThenQuiet DEF Keeps

LEMMA SameViewKeeps ==
    ASSUME NEW s, Good(s), NEW t, SameView(s, t)
    PROVE  Keeps(s, t)
  BY SameViewQuiet DEF Keeps, SameView

LEMMA DropInactiveKept ==
    ASSUME NEW s, Good(s)
    PROVE  Keeps(s, DropInactive(s))
  BY DropInactiveKeeps DEF Keeps, Quiet

LEMMA EndOfTransitionKeeps ==
    ASSUME NEW s, Good(s)
    PROVE  Keeps(s, EndOfTransition(s))
<1> DEFINE d == IF s.ringSize = 0 THEN DropInactive(s) ELSE s
<1>1. Keeps(s, s)
  BY DEF Keeps, Quiet
<1>2. Keeps(s, d)
  BY <1>1, DropInactiveKept
<1>3. EndOfTransition(s) = IF s.left > 0 THEN s ELSE Still(d)
  BY DEF EndOfTransition
<1> HIDE DEF d
<1>4. Good(d) /\ d \in Surfaces
  BY <1>2 DEF Keeps, Good, Sound
<1>5. Keeps(d, Still(d))
  BY <1>4, StillSame, SameViewKeeps
<1>6. Keeps(s, Still(d))
  BY <1>2, <1>4, <1>5, KeepsTwice
<1>7. QED
  BY <1>1, <1>3, <1>6

(* A frame that is shown counts. *)
NextFrame(u) == EndOfTransition([u EXCEPT !.left = @ - 1, !.hasImage = TRUE])

LEMMA NextFrameKeeps ==
    ASSUME NEW s, Good(s), s.left # 0
    PROVE  Keeps(s, NextFrame(s))
<1> DEFINE k == s.left - 1
           t == [s EXCEPT !.left = k, !.hasImage = TRUE]
<1>1. s \in Surfaces /\ s.left \in 0..MaxFrames
  BY DEF Good, Sound, Surfaces
<1>2. k \in 0..MaxFrames
  BY <1>1, SurfaceAssumption
<1>3. t = [s EXCEPT !.left = @ - 1, !.hasImage = TRUE]
  BY <1>1 DEF Surfaces
<1> HIDE DEF k
<1>4. SameView(s, t)
  BY <1>1, <1>2 DEF SameView, Surfaces
<1> HIDE DEF t
<1>5. Keeps(s, t) /\ Good(t)
  BY <1>4, SameViewKeeps DEF Keeps
<1>6. Keeps(t, EndOfTransition(t))
  BY <1>5, EndOfTransitionKeeps
<1>7. Keeps(s, EndOfTransition(t))
  BY <1>5, <1>6, KeepsTwice
<1>8. QED
  BY <1>3, <1>7 DEF NextFrame

LEMMA CommitsLeft ==
    ASSUME NEW s \in Surfaces
    PROVE  /\ CommitShm(s).left = s.left
           /\ \A i \in Slots : CommitRing(s, i).left = s.left
  BY DEF CommitShm, CommitRing, Commit, Surfaces

LEMMA FlagLeft ==
    ASSUME NEW s, Good(s), s.ringSize # 0, NEW i \in Slots, NEW n \in Slots
    PROVE  Flagged(s, i, n).left = s.left /\ Flagged(s, i, n) \in Surfaces
  BY FlagSound DEF Sound

LEMMA DrewThenKept ==
    ASSUME NEW s, NEW t, NEW u, Drew(s, t), Keeps(t, u)
    PROVE  Drew(s, u)
  BY DrewThenSame DEF Keeps

(* A frame that could not be drawn gives its slot back: nothing has happened. *)
LEMMA GivenUpSame ==
    ASSUME NEW s, Good(s), NEW i \in Slots, NEW n \in Slots, ~s.busy[i]
    PROVE  SameView(s, [Flagged(s, i, n) EXCEPT !.busy[i] = FALSE])
<1> DEFINE t == [s EXCEPT !.next = n]
<1>1. s \in Surfaces /\ s.busy \in [Slots -> BOOLEAN]
  BY DEF Good, Sound, Surfaces
<1>2. SameView(s, t)
  BY <1>1 DEF SameView, Surfaces
<1>3. [[s.busy EXCEPT ![i] = TRUE] EXCEPT ![i] = FALSE] = s.busy
  BY <1>1
<1>4. [Flagged(s, i, n) EXCEPT !.busy[i] = FALSE]
         = [t EXCEPT !.busy = [[s.busy EXCEPT ![i] = TRUE] EXCEPT ![i] = FALSE]]
  BY <1>1 DEF Flagged, Surfaces
<1>5. [t EXCEPT !.busy = s.busy] = t
  BY <1>1 DEF Surfaces
<1>6. QED
  BY <1>2, <1>3, <1>4, <1>5

(* A tick of the transition, on whichever path, drawn or not. *)
LEMMA StepDrew ==
    ASSUME NEW s, Good(s), NEW works \in BOOLEAN
    PROVE  Drew(s, Step(s, works))
<1> DEFINE a == Acquire(s)
           g == [a.s EXCEPT !.busy[a.slot] = FALSE]
           cr == CommitRing(a.s, a.slot)
           cs == CommitShm(s)
<1>1. Step(s, works) =
         IF s.left = 0 THEN s
         ELSE IF s.ringSize # 0
         THEN IF s.ringSize # s.size THEN Still(s)
              ELSE IF a.slot = NoSlot THEN s
              ELSE IF works THEN NextFrame(cr)
              ELSE g
         ELSE IF s.shmSize # s.size THEN Still(s)
         ELSE IF s.released[1 - s.active] /\ works THEN NextFrame(cs)
         ELSE s
  BY DEF Step, NextFrame
<1>2. s \in Surfaces
  BY DEF Good, Sound
<1>3. \/ a.slot = NoSlot
      \/ /\ a.slot \in Slots /\ a.slot # NoSlot /\ ~s.busy[a.slot]
         /\ \E n \in Slots : a.s = Flagged(s, a.slot, n)
  BY <1>2, AcquireFree
<1>4. ASSUME NEW t, Keeps(s, t)
      PROVE  Drew(s, t)
  BY <1>4 DEF Keeps, Quiet, Drew
<1>5. Drew(s, s) /\ Drew(s, Still(s))
  <2>1. Keeps(s, s)
    BY DEF Keeps, Quiet
  <2>2. Keeps(s, Still(s))
    BY <1>2, StillSame, SameViewKeeps
  <2>3. QED
    BY <2>1, <2>2, <1>4
<1> HIDE DEF a
<1>6. ASSUME s.left # 0, s.ringSize # 0, a.slot # NoSlot
      PROVE  Drew(s, NextFrame(cr)) /\ Drew(s, g)
  <2>1. PICK i \in Slots, n \in Slots : a.slot = i /\ a.s = Flagged(s, i, n)
    BY <1>3, <1>6
  <2>2. ~s.busy[i] /\ s.ringSize # 0
    BY <1>3, <1>6, <2>1
  <2> DEFINE c == CommitRing(Flagged(s, i, n), i)
  <2>3. Drew(s, c)
    BY <2>2, CommitRingDrew
  <2>4. c.left = s.left
    BY <2>2, FlagLeft, CommitsLeft
  <2> HIDE DEF c
  <2>5. Good(c) /\ c.left # 0
    BY <2>3, <2>4, <1>6 DEF Drew
  <2>6. Drew(s, NextFrame(c))
    BY <2>3, <2>5, NextFrameKeeps, DrewThenKept
  <2>7. Drew(s, [Flagged(s, i, n) EXCEPT !.busy[i] = FALSE])
    BY <2>2, GivenUpSame, SameViewKeeps, <1>4
  <2>8. QED
    BY <2>1, <2>6, <2>7 DEF c
<1>7. ASSUME s.left # 0
      PROVE  Drew(s, NextFrame(cs))
  <2>1. Drew(s, cs) /\ cs.left = s.left
    BY <1>2, CommitShmDrew, CommitsLeft
  <2> HIDE DEF cs
  <2>2. Good(cs) /\ cs.left # 0
    BY <2>1, <1>7 DEF Drew
  <2>3. QED
    BY <2>1, <2>2, NextFrameKeeps, DrewThenKept
<1> HIDE DEF cr, cs, g
<1>8. QED
  BY <1>1, <1>5, <1>6, <1>7


-----------------------------------------------------------------------------
(* What the compositor does, and what the daemon hears of it.              *)

LEMMA HeadTailPlaces ==
    ASSUME NEW S, NEW q \in Seq(S), q # << >>
    PROVE  /\ Head(q) \in S /\ Tail(q) \in Seq(S)
           /\ Waiting(q) = Waiting(Tail(q)) \cup {Head(q)}
           /\ \A i \in DOMAIN Tail(q) : i + 1 \in DOMAIN q /\ Tail(q)[i] = q[i + 1]
           /\ 1 \in DOMAIN q /\ q[1] = Head(q)
           /\ DOMAIN q \subseteq Nat /\ DOMAIN Tail(q) \subseteq Nat \ {0}
           /\ Len(q) \in Nat /\ Len(Tail(q)) = Len(q) - 1
<1> DEFINE r == Tail(q)
<1>1. /\ Len(q) \in Nat /\ Len(q) # 0 /\ DOMAIN q = 1..Len(q)
      /\ r \in Seq(S) /\ Len(r) = Len(q) - 1 /\ DOMAIN r = 1..(Len(q) - 1)
      /\ Head(q) = q[1] /\ \A i \in 1..(Len(q) - 1) : r[i] = q[i + 1]
  OBVIOUS
<1>2. 1 \in DOMAIN q /\ q[1] \in S
  BY <1>1
<1> HIDE DEF r
<1>3. \A i \in DOMAIN q : i # 1 => i - 1 \in DOMAIN r /\ r[i - 1] = q[i]
  BY <1>1
<1>4. \A i \in DOMAIN r : i + 1 \in DOMAIN q /\ r[i] = q[i + 1]
  BY <1>1
<1>5. Waiting(q) = Waiting(r) \cup {Head(q)}
  <2>1. Waiting(q) \subseteq Waiting(r) \cup {Head(q)}
    BY <1>1, <1>3 DEF Waiting
  <2>2. Waiting(r) \cup {Head(q)} \subseteq Waiting(q)
    BY <1>1, <1>2, <1>4 DEF Waiting
  <2>3. QED
    BY <2>1, <2>2
<1>6. DOMAIN q \subseteq Nat /\ DOMAIN r \subseteq Nat \ {0}
  BY <1>1
<1>7. QED
  BY <1>1, <1>2, <1>4, <1>5, <1>6 DEF r

(* What stands once in a queue does not stand in its tail if it is the head. *)
LEMMA OnceInTail ==
    ASSUME NEW S, NEW q \in Seq(S), q # << >>, NEW b,
           \A i, j \in DOMAIN q : q[i] = b /\ q[j] = b => i = j
    PROVE  /\ \A i, j \in DOMAIN Tail(q) : Tail(q)[i] = b /\ Tail(q)[j] = b => i = j
           /\ b = Head(q) => b \notin Waiting(Tail(q))
<1> DEFINE r == Tail(q)
<1>1. /\ \A i \in DOMAIN r : i + 1 \in DOMAIN q /\ r[i] = q[i + 1]
      /\ 1 \in DOMAIN q /\ q[1] = Head(q)
      /\ DOMAIN r \subseteq Nat \ {0}
  BY HeadTailPlaces
<1> HIDE DEF r
<1>2. ASSUME NEW i \in DOMAIN r, NEW j \in DOMAIN r, r[i] = b, r[j] = b
      PROVE  i = j
  <2>1. i + 1 = j + 1
    BY <1>1, <1>2
  <2>2. QED
    BY <1>1, <2>1
<1>3. ASSUME b = Head(q), NEW i \in DOMAIN r, r[i] = b
      PROVE  FALSE
  <2>1. i + 1 = 1
    BY <1>1, <1>3
  <2>2. QED
    BY <1>1, <2>1
<1>4. QED
  BY <1>2, <1>3 DEF Waiting, r

(* What a step of the surface keeps, and what it leaves alone. *)
Seamless(s, t) ==
    /\ Good(t)
    /\ FrontLost(t) => video \/ FrontLost(s)
    /\ Len(t.wire) > Len(s.wire) /\ t.ringSize = s.ringSize => LastOut(t) \notin RingsIn(s)

LEMMA PaintedSeamless ==
    ASSUME NEW s, NEW t, Painted(s, t)
    PROVE  Seamless(s, t)
  BY DEF Painted, Seamless

LEMMA NothingOut ==
    ASSUME NEW s, NEW t, Good(s), Good(t), Len(t.wire) <= Len(s.wire),
           FrontLost(t) => video \/ FrontLost(s)
    PROVE  Seamless(s, t)
<1>1. Len(t.wire) \in Nat /\ Len(s.wire) \in Nat
  BY WireLength DEF Good, Sound
<1>2. QED
  BY <1>1 DEF Seamless

LEMMA ApplyGood ==
    ASSUME NEW s, Good(s), s.wire # << >>,
           NEW t, t = [s EXCEPT !.wire = Tail(@), !.top = Head(s.wire),
                                !.held = IF Head(s.wire) = NoBuf THEN @
                                         ELSE @ \cup {Head(s.wire)}]
    PROVE  Seamless(s, t)
<1> DEFINE b == Head(s.wire)
           w == Tail(s.wire)
           h == IF b = NoBuf THEN s.held ELSE s.held \cup {b}
<1>1. s \in Surfaces /\ s.wire \in Seq(SeenBufs) /\ s.held \in SUBSET Bufs
  BY DEF Good, Sound, Surfaces
<1>2. /\ b \in SeenBufs /\ w \in Seq(SeenBufs) /\ Waiting(s.wire) = Waiting(w) \cup {b}
      /\ Len(s.wire) \in Nat /\ Len(w) = Len(s.wire) - 1
  BY <1>1, HeadTailPlaces
<1>3. \A c \in Rings :
          /\ \A i, j \in DOMAIN w : w[i] = c /\ w[j] = c => i = j
          /\ c = b => c \notin Waiting(w)
  <2> TAKE c \in Rings
  <2>1. \A i, j \in DOMAIN s.wire : s.wire[i] = c /\ s.wire[j] = c => i = j
    BY DEF Good, Sound, InOnePlace
  <2>2. QED
    BY <1>1, <2>1, OnceInTail
<1>4. t = [s EXCEPT !.wire = w, !.top = b, !.held = h]
  BY <1>1 DEF Surfaces
<1> HIDE DEF b, w
<1>5. h \in SUBSET Bufs /\ \A c \in Rings : c \in h <=> c \in s.held \/ c = b
  BY <1>1, <1>2, BufferKinds DEF SeenBufs
<1> HIDE DEF h
<1>6. t \in Surfaces
  BY <1>1, <1>2, <1>4, <1>5 DEF Surfaces
<1>7. /\ t.wire = w /\ t.held = h /\ t.news = s.news /\ t.busy = s.busy
      /\ t.ringSize = s.ringSize /\ t.front = s.front /\ t.active = s.active
      /\ t.kept = s.kept
  BY <1>1, <1>4 DEF Surfaces
<1>8. \A c \in Rings : c \in InUse(t) <=> c \in InUse(s)
  BY <1>2, <1>5, <1>7 DEF InUse, Waiting
<1>9. InOnePlace(t)
  <2>1. InOnePlace(s)
    BY DEF Good, Sound
  <2> SUFFICES ASSUME NEW c \in Rings
               PROVE  /\ c \in Waiting(t.wire) => c \notin t.held /\ c \notin Waiting(t.news)
                      /\ c \in t.held => c \notin Waiting(t.news)
                      /\ \A k, j \in DOMAIN t.wire : t.wire[k] = c /\ t.wire[j] = c => k = j
                      /\ \A k, j \in DOMAIN t.news : t.news[k] = c /\ t.news[j] = c => k = j
                      /\ c \in InUse(t) \cup Waiting(t.news) => t.busy[c[2]]
    BY DEF InOnePlace
  <2>2. /\ c \in Waiting(s.wire) => c \notin s.held /\ c \notin Waiting(s.news)
        /\ c \in s.held => c \notin Waiting(s.news)
        /\ \A k, j \in DOMAIN s.news : s.news[k] = c /\ s.news[j] = c => k = j
        /\ c \in InUse(s) \cup Waiting(s.news) => s.busy[c[2]]
    BY <2>1 DEF InOnePlace
  <2>3. \A k, j \in DOMAIN t.wire : t.wire[k] = c /\ t.wire[j] = c => k = j
    BY <1>3, <1>7
  <2>4. /\ c \in Waiting(t.wire) => c \notin t.held /\ c \notin Waiting(t.news)
        /\ c \in t.held => c \notin Waiting(t.news)
    BY <1>2, <1>3, <1>5, <1>7, <2>2
  <2>5. c \in InUse(t) \cup Waiting(t.news) => t.busy[c[2]]
    BY <1>7, <1>8, <2>2
  <2>6. QED
    BY <1>7, <2>2, <2>3, <2>4, <2>5
<1>10. FlagsCleared(t) /\ NoRingNoFlags(t) /\ ActiveShown(t)
  <2>1. FlagsCleared(s) /\ NoRingNoFlags(s) /\ ActiveShown(s)
    BY DEF Good, Sound
  <2>2. \A i \in Slots : <<"ring", i>> \in Rings
    BY BufferKinds
  <2>3. QED
    BY <2>1, <2>2, <1>7, <1>8 DEF FlagsCleared, NoRingNoFlags, ActiveShown
<1>11. FrontLost(t) => FrontLost(s)
  BY <1>7 DEF FrontLost
<1>12. Good(t) /\ Len(t.wire) <= Len(s.wire)
  BY <1>2, <1>6, <1>7, <1>9, <1>10 DEF Good, Sound
<1>13. QED
  BY <1>11, <1>12, NothingOut

LEMMA GiveBackGood ==
    ASSUME NEW s, Good(s), NEW b \in s.held,
           NEW t, t = [s EXCEPT !.held = @ \ {b}, !.news = Append(@, b)]
    PROVE  Seamless(s, t)
<1> DEFINE h == s.held \ {b}
           n == Append(s.news, b)
<1>1. s \in Surfaces /\ s.news \in Seq(Bufs) /\ s.held \in SUBSET Bufs /\ b \in Bufs
  BY DEF Good, Sound, Surfaces
<1>2. /\ n \in Seq(Bufs) /\ Len(s.news) \in Nat /\ n[Len(s.news) + 1] = b
      /\ DOMAIN n = 1..Len(s.news) + 1 /\ DOMAIN s.news = 1..Len(s.news)
      /\ \A j \in DOMAIN s.news : n[j] = s.news[j]
  BY <1>1
<1>3. t = [s EXCEPT !.held = h, !.news = n]
  BY <1>1 DEF Surfaces
<1> HIDE DEF n
<1>4. Waiting(n) = Waiting(s.news) \cup {b}
  BY <1>2 DEF Waiting
<1>5. t \in Surfaces
  <2>1. h \in SUBSET Bufs
    BY <1>1
  <2> HIDE DEF h
  <2>2. QED
    BY <1>1, <1>2, <1>3, <2>1 DEF Surfaces
<1>6. /\ t.wire = s.wire /\ t.held = h /\ t.news = n /\ t.busy = s.busy
      /\ t.ringSize = s.ringSize /\ t.front = s.front /\ t.active = s.active
      /\ t.kept = s.kept
  BY <1>1, <1>3 DEF Surfaces
<1>7. InUse(t) \cup Waiting(t.news) = InUse(s) \cup Waiting(s.news)
  BY <1>4, <1>6 DEF InUse
<1>8. InOnePlace(t)
  <2>1. InOnePlace(s)
    BY DEF Good, Sound
  <2> SUFFICES ASSUME NEW c \in Rings
               PROVE  /\ c \in Waiting(t.wire) => c \notin t.held /\ c \notin Waiting(t.news)
                      /\ c \in t.held => c \notin Waiting(t.news)
                      /\ \A k, j \in DOMAIN t.wire : t.wire[k] = c /\ t.wire[j] = c => k = j
                      /\ \A k, j \in DOMAIN t.news : t.news[k] = c /\ t.news[j] = c => k = j
                      /\ c \in InUse(t) \cup Waiting(t.news) => t.busy[c[2]]
    BY DEF InOnePlace
  <2>2. /\ c \in Waiting(s.wire) => c \notin s.held /\ c \notin Waiting(s.news)
        /\ c \in s.held => c \notin Waiting(s.news)
        /\ \A k, j \in DOMAIN s.wire : s.wire[k] = c /\ s.wire[j] = c => k = j
        /\ \A k, j \in DOMAIN s.news : s.news[k] = c /\ s.news[j] = c => k = j
        /\ c \in InUse(s) \cup Waiting(s.news) => s.busy[c[2]]
    BY <2>1 DEF InOnePlace
  <2>3. /\ c \in Waiting(t.wire) => c \notin t.held /\ c \notin Waiting(t.news)
        /\ c \in t.held => c \notin Waiting(t.news)
    BY <1>4, <1>6, <2>2
  <2>4. \A k, j \in DOMAIN t.news : t.news[k] = c /\ t.news[j] = c => k = j
    <3>1. CASE c = b
      <4>1. \A k \in DOMAIN s.news : s.news[k] # b
        BY <2>2, <3>1 DEF Waiting
      <4>2. \A k \in DOMAIN n : n[k] = b => k = Len(s.news) + 1
        BY <1>2, <4>1
      <4>3. QED
        BY <1>6, <3>1, <4>2
    <3>2. CASE c # b
      <4>1. \A k \in DOMAIN n : n[k] = c => k \in DOMAIN s.news /\ s.news[k] = c
        BY <1>2, <3>2
      <4>2. QED
        BY <1>6, <2>2, <4>1
    <3>3. QED
      BY <3>1, <3>2
  <2>5. c \in InUse(t) \cup Waiting(t.news) => t.busy[c[2]]
    BY <1>6, <1>7, <2>2
  <2>6. QED
    BY <1>6, <2>2, <2>3, <2>4, <2>5
<1>9. FlagsCleared(t) /\ NoRingNoFlags(t) /\ ActiveShown(t)
  <2>1. FlagsCleared(s) /\ NoRingNoFlags(s) /\ ActiveShown(s)
    BY DEF Good, Sound
  <2>2. QED
    BY <2>1, <1>6, <1>7 DEF FlagsCleared, NoRingNoFlags, ActiveShown
<1>10. FrontLost(t) => FrontLost(s)
  BY <1>6 DEF FrontLost
<1>11. Good(t) /\ Len(t.wire) <= Len(s.wire)
  <2>1. Len(s.wire) \in Nat
    BY <1>1, WireLength
  <2>2. QED
    BY <2>1, <1>5, <1>6, <1>8, <1>9 DEF Good, Sound
<1>12. QED
  BY <1>10, <1>11, NothingOut


(* The release of a ring buffer takes its flag back. *)
LEMMA HeardRingGood ==
    ASSUME NEW s, Good(s), s.news # << >>, Head(s.news)[1] = "ring"
    PROVE  Seamless(s, [[s EXCEPT !.news = Tail(@)] EXCEPT !.busy[Head(s.news)[2]] = FALSE])
<1> DEFINE b == Head(s.news)
           n == Tail(s.news)
           bs == [s.busy EXCEPT ![b[2]] = FALSE]
           t == [s EXCEPT !.news = n, !.busy = bs]
<1>1. s \in Surfaces /\ s.news \in Seq(Bufs) /\ s.busy \in [Slots -> BOOLEAN]
  BY DEF Good, Sound, Surfaces
<1>2. b \in Bufs /\ n \in Seq(Bufs) /\ Waiting(s.news) = Waiting(n) \cup {b}
  BY <1>1, HeadTailPlaces
<1>3. b \in Rings /\ b[2] \in Slots /\ b = <<"ring", b[2]>>
  BY <1>2, BufferKinds DEF SeenBufs
<1>4. [[s EXCEPT !.news = Tail(@)] EXCEPT !.busy[Head(s.news)[2]] = FALSE] = t
  BY <1>1 DEF Surfaces
<1>5. \A c \in Rings :
          /\ \A i, j \in DOMAIN n : n[i] = c /\ n[j] = c => i = j
          /\ c = b => c \notin Waiting(n)
  <2> TAKE c \in Rings
  <2>1. \A i, j \in DOMAIN s.news : s.news[i] = c /\ s.news[j] = c => i = j
    BY DEF Good, Sound, InOnePlace
  <2>2. QED
    BY <1>1, <2>1, OnceInTail
<1> HIDE DEF b, n
<1>6. bs \in [Slots -> BOOLEAN] /\ \A i \in Slots : bs[i] <=> s.busy[i] /\ i # b[2]
  BY <1>1, <1>3
<1> HIDE DEF bs
<1>7. t \in Surfaces
  BY <1>1, <1>2, <1>6 DEF Surfaces
<1>8. /\ t.wire = s.wire /\ t.held = s.held /\ t.news = n /\ t.busy = bs
      /\ t.ringSize = s.ringSize /\ t.front = s.front /\ t.active = s.active
      /\ t.kept = s.kept
  BY <1>1 DEF Surfaces
<1> HIDE DEF t
<1>9. InUse(t) = InUse(s)
  BY <1>8 DEF InUse
<1>10. b \notin InUse(s)
  <2>1. b \notin Waiting(s.wire) /\ b \notin s.held
    BY <1>2, <1>3 DEF Good, Sound, InOnePlace
  <2>2. QED
    BY <2>1 DEF InUse, Waiting
<1>11. \A c \in Rings : c[2] = b[2] => c = b
  BY <1>3, BufferKinds
<1>12. InOnePlace(t)
  <2>1. InOnePlace(s)
    BY DEF Good, Sound
  <2> SUFFICES ASSUME NEW c \in Rings
               PROVE  /\ c \in Waiting(t.wire) => c \notin t.held /\ c \notin Waiting(t.news)
                      /\ c \in t.held => c \notin Waiting(t.news)
                      /\ \A k, j \in DOMAIN t.wire : t.wire[k] = c /\ t.wire[j] = c => k = j
                      /\ \A k, j \in DOMAIN t.news : t.news[k] = c /\ t.news[j] = c => k = j
                      /\ c \in InUse(t) \cup Waiting(t.news) => t.busy[c[2]]
    BY DEF InOnePlace
  <2>2. /\ c \in Waiting(s.wire) => c \notin s.held /\ c \notin Waiting(s.news)
        /\ c \in s.held => c \notin Waiting(s.news)
        /\ \A k, j \in DOMAIN s.wire : s.wire[k] = c /\ s.wire[j] = c => k = j
        /\ c \in InUse(s) \cup Waiting(s.news) => s.busy[c[2]]
    BY <2>1 DEF InOnePlace
  <2>3. /\ c \in Waiting(t.wire) => c \notin t.held /\ c \notin Waiting(t.news)
        /\ c \in t.held => c \notin Waiting(t.news)
    BY <1>2, <1>8, <2>2
  <2>4. \A k, j \in DOMAIN t.news : t.news[k] = c /\ t.news[j] = c => k = j
    BY <1>5, <1>8
  <2>5. c \in InUse(t) \cup Waiting(t.news) => t.busy[c[2]]
    <3> SUFFICES ASSUME c \in InUse(t) \cup Waiting(t.news)
                 PROVE  t.busy[c[2]]
      OBVIOUS
    <3>1. c # b
      BY <1>5, <1>8, <1>9, <1>10
    <3>2. c[2] # b[2] /\ c[2] \in Slots
      BY <3>1, <1>11, BufferKinds
    <3>3. s.busy[c[2]]
      BY <1>2, <1>8, <1>9, <2>2
    <3>4. QED
      BY <3>2, <3>3, <1>6, <1>8
  <2>6. QED
    BY <1>8, <2>2, <2>3, <2>4, <2>5
<1>13. FlagsCleared(t)
  <2> SUFFICES ASSUME NEW i \in Slots, t.busy[i]
               PROVE  <<"ring", i>> \in InUse(t) \cup Waiting(t.news)
    BY DEF FlagsCleared
  <2>1. s.busy[i] /\ i # b[2]
    BY <1>6, <1>8
  <2>2. <<"ring", i>> # b
    BY <1>3, <2>1
  <2>3. <<"ring", i>> \in InUse(s) \cup Waiting(s.news)
    BY <2>1 DEF Good, FlagsCleared
  <2>4. QED
    BY <1>2, <1>8, <1>9, <2>2, <2>3
<1>14. NoRingNoFlags(t) /\ ActiveShown(t)
  <2>1. NoRingNoFlags(s) /\ ActiveShown(s)
    BY DEF Good, Sound
  <2>2. QED
    BY <2>1, <1>6, <1>8 DEF NoRingNoFlags, ActiveShown
<1>15. FrontLost(t) => FrontLost(s)
  BY <1>8 DEF FrontLost
<1>16. Good(t) /\ Len(t.wire) <= Len(s.wire)
  <2>1. Len(s.wire) \in Nat
    BY <1>1, WireLength
  <2>2. QED
    BY <2>1, <1>7, <1>8, <1>12, <1>13, <1>14 DEF Good, Sound
<1>17. Seamless(s, t)
  BY <1>15, <1>16, NothingOut
<1>18. QED
  BY <1>4, <1>17

(* That of a half of the shared memory may drop its pages, if it is not the one shown. *)
LEMMA HeardShmGood ==
    ASSUME NEW s, Good(s), s.news # << >>, Head(s.news)[1] # "ring",
           NEW r \in [Halves -> BOOLEAN], NEW k \in SUBSET s.kept,
           s.active \in k \/ s.active \notin s.kept \/ video,
           NEW t, t = [s EXCEPT !.news = Tail(@), !.released = r, !.kept = k]
    PROVE  Seamless(s, t)
<1> DEFINE b == Head(s.news)
           n == Tail(s.news)
<1>1. /\ s \in Surfaces /\ s.news \in Seq(Bufs) /\ k \in SUBSET Halves /\ s.active \in Halves
      /\ s.front \in SeenBufs
  BY DEF Good, Sound, Surfaces
<1>2. b \in Bufs /\ n \in Seq(Bufs) /\ Waiting(s.news) = Waiting(n) \cup {b}
  BY <1>1, HeadTailPlaces
<1>3. b \notin Rings
  BY <1>2, BufferKinds DEF SeenBufs
<1>4. t = [s EXCEPT !.news = n, !.released = r, !.kept = k]
  BY <1>1 DEF Surfaces
<1>5. \A c \in Rings : \A i, j \in DOMAIN n : n[i] = c /\ n[j] = c => i = j
  <2> TAKE c \in Rings
  <2>1. \A i, j \in DOMAIN s.news : s.news[i] = c /\ s.news[j] = c => i = j
    BY DEF Good, Sound, InOnePlace
  <2>2. QED
    BY <1>1, <2>1, OnceInTail
<1> HIDE DEF b, n
<1>6. t \in Surfaces
  BY <1>1, <1>2, <1>4 DEF Surfaces
<1>7. /\ t.wire = s.wire /\ t.held = s.held /\ t.news = n /\ t.busy = s.busy
      /\ t.ringSize = s.ringSize /\ t.front = s.front /\ t.active = s.active
      /\ t.kept = k
  BY <1>1, <1>4 DEF Surfaces
<1>8. InUse(t) = InUse(s) /\ \A c \in Rings : c \in Waiting(t.news) <=> c \in Waiting(s.news)
  BY <1>2, <1>3, <1>7 DEF InUse
<1>9. InOnePlace(t)
  <2>1. InOnePlace(s)
    BY DEF Good, Sound
  <2>2. QED
    BY <2>1, <1>5, <1>7, <1>8 DEF InOnePlace
<1>10. FlagsCleared(t) /\ NoRingNoFlags(t) /\ ActiveShown(t)
  <2>1. FlagsCleared(s) /\ NoRingNoFlags(s) /\ ActiveShown(s)
    BY DEF Good, Sound
  <2>2. \A i \in Slots : <<"ring", i>> \in Rings
    BY BufferKinds
  <2>3. QED
    BY <2>1, <2>2, <1>7, <1>8 DEF FlagsCleared, NoRingNoFlags, ActiveShown
<1>11. FrontLost(t) => video \/ FrontLost(s)
  <2>1. s.front[1] = "shm" => s.front[2] = s.active
    BY DEF Good, Sound, ActiveShown
  <2>2. QED
    BY <2>1, <1>7 DEF FrontLost
<1>12. Good(t) /\ Len(t.wire) <= Len(s.wire)
  <2>1. Len(s.wire) \in Nat
    BY <1>1, WireLength
  <2>2. QED
    BY <2>1, <1>6, <1>7, <1>9, <1>10 DEF Good, Sound
<1>13. QED
  BY <1>11, <1>12, NothingOut

LEMMA ReleaseHeardGood ==
    ASSUME Good(surf), ReleaseHeard
    PROVE  Seamless(surf, surf')
<1> DEFINE b == Head(surf.news)
           t == [surf EXCEPT !.news = Tail(@)]
           u == [t EXCEPT !.released[b[2]] = TRUE]
           v == [u EXCEPT !.kept = @ \ {b[2]}]
           r == [surf.released EXCEPT ![b[2]] = TRUE]
<1>1. surf.news # << >>
  BY DEF ReleaseHeard
<1>2. /\ surf \in Surfaces /\ surf.released \in [Halves -> BOOLEAN]
      /\ surf.kept \in SUBSET Halves
  BY DEF Good, Sound, Surfaces
<1>3. surf' = IF b[1] = "ring" THEN [t EXCEPT !.busy[b[2]] = FALSE]
              ELSE IF surf.left = 0 /\ (b[2] # surf.active \/ video) THEN v ELSE u
  BY DEF ReleaseHeard
<1>4. CASE b[1] = "ring"
  BY <1>1, <1>3, <1>4, HeardRingGood
<1>5. CASE b[1] # "ring"
  <2>1. r \in [Halves -> BOOLEAN]
    BY <1>2
  <2>2. u = [surf EXCEPT !.news = Tail(@), !.released = r, !.kept = surf.kept]
    BY <1>2 DEF Surfaces
  <2>3. v = [surf EXCEPT !.news = Tail(@), !.released = r, !.kept = surf.kept \ {b[2]}]
    BY <1>2 DEF Surfaces
  <2> HIDE DEF r, t, u, v
  <2>4. Seamless(surf, u)
    BY <1>1, <1>5, <2>1, <2>2, HeardShmGood
  <2>5. b[2] # surf.active \/ video => Seamless(surf, v)
    <3> SUFFICES ASSUME b[2] # surf.active \/ video
                 PROVE  Seamless(surf, v)
      OBVIOUS
    <3> DEFINE k == surf.kept \ {b[2]}
    <3>1. k \in SUBSET surf.kept
      OBVIOUS
    <3>2. surf.active \in k \/ surf.active \notin surf.kept \/ video
      OBVIOUS
    <3>3. v = [surf EXCEPT !.news = Tail(@), !.released = r, !.kept = k]
      BY <2>3
    <3> HIDE DEF k
    <3>4. QED
      BY <1>1, <1>5, <2>1, <3>1, <3>2, <3>3, HeardShmGood
  <2>6. QED
    BY <1>3, <1>5, <2>4, <2>5
<1>6. QED
  BY <1>4, <1>5

(* A surface that is gone has nothing anywhere. *)
LEMMA ClosedGood ==
    ASSUME Good(surf), Closed
    PROVE  Seamless(surf, surf')
<1> DEFINE shm == {"shm"} \X Halves
           d == Teardown(surf)
           f == Forget(d, shm)
           g == Still(f)
           t == [g EXCEPT !.role = "none", !.shmSize = 0,
                          !.released = [h \in Halves |-> TRUE],
                          !.wire = << >>, !.news = << >>, !.held = {}, !.top = NoBuf]
<1>1. surf' = t
  BY DEF Closed
<1>2. Good(d) /\ d \in Surfaces /\ d.ringSize = 0 /\ d.front \in SeenBufs
  BY TeardownClears DEF Good, Sound, Surfaces
<1>3. \A i \in Slots : ~d.busy[i]
  BY <1>2 DEF Good, Sound, NoRingNoFlags
<1> HIDE DEF d
<1>4. shm \in SUBSET Bufs
  BY BufferKinds
<1>5. /\ f \in Surfaces /\ f.busy = d.busy /\ f.ringSize = 0
      /\ f.front = (IF d.front \in shm THEN NoBuf ELSE d.front)
  BY <1>2, <1>4, ForgetFields
<1>6. f.front[1] # "shm"
  BY <1>2, <1>5, BufferKinds DEF NoBuf
<1> HIDE DEF shm, f
<1>7. g \in Surfaces /\ g.busy = d.busy /\ g.front = f.front
  BY <1>5, StillSame DEF SameView
<1> HIDE DEF g
<1>8. t \in Surfaces
  <2>1. << >> \in Seq(SeenBufs) /\ << >> \in Seq(Bufs) /\ NoBuf \in SeenBufs
    BY DEF SeenBufs
  <2>2. [h \in Halves |-> TRUE] \in [Halves -> BOOLEAN] /\ {} \in SUBSET Bufs
    OBVIOUS
  <2>3. QED
    BY <1>7, <2>1, <2>2 DEF Surfaces
<1>9. /\ t.wire = << >> /\ t.news = << >> /\ t.held = {} /\ t.busy = g.busy
      /\ t.front = g.front
  BY <1>7 DEF Surfaces
<1> HIDE DEF t
<1>10. InUse(t) = {} /\ Waiting(t.wire) = {} /\ Waiting(t.news) = {}
  BY <1>9 DEF InUse, Waiting
<1>11. InOnePlace(t)
  BY <1>9, <1>10 DEF InOnePlace
<1>12. NoRingNoFlags(t) /\ FlagsCleared(t)
  BY <1>3, <1>7, <1>9 DEF NoRingNoFlags, FlagsCleared
<1>13. Good(t) /\ ~FrontLost(t)
  BY <1>6, <1>7, <1>8, <1>9, <1>11, <1>12 DEF Good, Sound, ActiveShown, FrontLost
<1>14. Len(t.wire) <= Len(surf.wire)
  <2>1. Len(surf.wire) \in Nat
    BY WireLength DEF Good, Sound
  <2>2. QED
    BY <2>1, <1>9
<1>15. QED
  BY <1>1, <1>13, <1>14, NothingOut


-----------------------------------------------------------------------------
(* Every step of the daemon and of the compositor.                         *)

LEMMA ViewThenPainted ==
    ASSUME NEW s, Good(s), NEW t, SameView(s, t), NEW u, Painted(t, u)
    PROVE  Painted(s, u)
  BY DEF SameView, Painted, FrontLost, RingsIn, InUse

LEMMA ConfigurePaints ==
    ASSUME Good(surf), NEW size \in Sizes, NEW single \in BOOLEAN, NEW uploads \in BOOLEAN,
           Configure(size, single, uploads)
    PROVE  Painted(surf, surf')
<1> DEFINE s == [surf EXCEPT !.role = "ready", !.size = size]
           c == RenderColor(s, single, uploads)
           p == RenderImage(s, uploads)
<1>1. surf' = c \/ surf' = p \/ surf' = s
  <2> DEFINE still == surf.left = 0 /\ ~video
  <2>1. surf' = IF surf.role = "new" THEN c
                ELSE IF size = surf.size \/ ~still THEN s
                ELSE IF surf.hasImage THEN p ELSE c
    BY DEF Configure
  <2> HIDE DEF c, p, s, still
  <2>2. QED
    BY <2>1
<1>2. SameView(surf, s)
  BY DEF SameView, Surfaces, Good, Sound
<1> HIDE DEF s
<1>3. Good(s) /\ Painted(s, s)
  <2>1. Good(s)
    BY <1>2, SameViewQuiet
  <2>2. QED
    BY <2>1 DEF Painted
<1>4. Painted(s, c) /\ Painted(s, p)
  BY <1>3, RenderColorPainted, RenderImagePainted
<1>5. Painted(surf, c) /\ Painted(surf, p) /\ Painted(surf, s)
  BY <1>2, <1>3, <1>4, ViewThenPainted
<1>6. QED
  BY <1>1, <1>5

LEMMA StepSeamless ==
    ASSUME SurfInv, SurfNext
    PROVE  Seamless(surf, surf') /\ gpu' \in BOOLEAN /\ video' \in BOOLEAN
<1>0. Good(surf) /\ gpu \in BOOLEAN /\ video \in BOOLEAN
  BY DEF SurfInv
<1>1. CASE CreateSurface
  <2>1. surf' = [surf EXCEPT !.role = "new"] /\ UNCHANGED <<gpu, video>>
    BY <1>1 DEF CreateSurface
  <2>2. SameView(surf, surf')
    BY <1>0, <2>1 DEF SameView, Surfaces, Good, Sound
  <2>3. Painted(surf, surf')
    <3>1. Painted(surf, surf)
      BY <1>0 DEF Painted
    <3>2. QED
      BY <2>2, <3>1, PaintedThenSame
  <2>4. QED
    BY <1>0, <2>1, <2>3, PaintedSeamless
<1>2. CASE Closed
  BY <1>0, <1>2, ClosedGood DEF Closed
<1>3. CASE ReleaseHeard
  BY <1>0, <1>3, ReleaseHeardGood DEF ReleaseHeard
<1>4. CASE Video
  <2>1. surf' = surf /\ gpu' = gpu /\ video' = ~video
    BY <1>4 DEF Video
  <2>2. Painted(surf, surf)
    BY <1>0 DEF Painted
  <2>3. QED
    BY <1>0, <2>1, <2>2, PaintedSeamless
<1>5. CASE Apply
  <2>1. /\ surf.wire # << >> /\ UNCHANGED <<gpu, video>>
        /\ surf' = [surf EXCEPT !.wire = Tail(@), !.top = Head(surf.wire),
                                !.held = IF Head(surf.wire) = NoBuf THEN @
                                         ELSE @ \cup {Head(surf.wire)}]
    BY <1>5 DEF Apply
  <2>2. QED
    BY <1>0, <2>1, ApplyGood
<1>6. ASSUME NEW single \in BOOLEAN, NEW uploads \in BOOLEAN, NEW size \in Sizes,
             Configure(size, single, uploads)
      PROVE  Seamless(surf, surf') /\ UNCHANGED <<gpu, video>>
  <2>1. UNCHANGED <<gpu, video>>
    BY <1>6 DEF Configure
  <2>2. QED
    BY <1>0, <1>6, <2>1, ConfigurePaints, PaintedSeamless
<1>7. ASSUME NEW single \in BOOLEAN, NEW uploads \in BOOLEAN, ShowColor(single, uploads)
      PROVE  Seamless(surf, surf') /\ UNCHANGED <<gpu, video>>
  <2>1. surf' = RenderColor(surf, single, uploads) /\ UNCHANGED <<gpu, video>>
    BY <1>7 DEF ShowColor, Drawing
  <2>2. QED
    BY <1>0, <2>1, RenderColorPainted, PaintedSeamless
<1>8. ASSUME NEW uploads \in BOOLEAN, ShowImage(uploads)
      PROVE  Seamless(surf, surf') /\ UNCHANGED <<gpu, video>>
  <2>1. surf' = RenderImage(surf, uploads) /\ UNCHANGED <<gpu, video>>
    BY <1>8 DEF ShowImage, Drawing
  <2>2. QED
    BY <1>0, <2>1, RenderImagePainted, PaintedSeamless
<1>9. ASSUME NEW uploads \in BOOLEAN, NEW works \in BOOLEAN, StartTransition(uploads, works)
      PROVE  Seamless(surf, surf') /\ UNCHANGED <<gpu, video>>
  <2> DEFINE t == Begin(surf, uploads)
  <2>1. surf' = Step(t, works) /\ UNCHANGED <<gpu, video>>
    BY <1>9 DEF StartTransition, Drawing
  <2>2. Quiet(surf, t) /\ Good(t)
    BY <1>0, BeginQuiet DEF Quiet
  <2> HIDE DEF t
  <2>3. Drew(t, Step(t, works))
    BY <2>2, StepDrew
  <2>4. Painted(surf, surf')
    BY <1>0, <2>1, <2>2, <2>3, QuietThenDrew
  <2>5. QED
    BY <2>1, <2>4, PaintedSeamless
<1>10. ASSUME NEW works \in BOOLEAN, Tick(works)
       PROVE  Seamless(surf, surf') /\ UNCHANGED <<gpu, video>>
  <2>1. surf' = Step(surf, works) /\ UNCHANGED <<gpu, video>>
    BY <1>10 DEF Tick
  <2>2. Painted(surf, surf')
    BY <1>0, <2>1, StepDrew, DrewIsPainted
  <2>3. QED
    BY <2>1, <2>2, PaintedSeamless
<1>11. ASSUME NEW b \in Bufs, GiveBack(b)
       PROVE  Seamless(surf, surf') /\ UNCHANGED <<gpu, video>>
  <2>1. /\ b \in surf.held /\ UNCHANGED <<gpu, video>>
        /\ surf' = [surf EXCEPT !.held = @ \ {b}, !.news = Append(@, b)]
    BY <1>11 DEF GiveBack
  <2>2. QED
    BY <1>0, <2>1, GiveBackGood
<1>12. QED
  BY <1>0, <1>1, <1>2, <1>3, <1>4, <1>5, <1>6, <1>7, <1>8, <1>9, <1>10, <1>11 DEF SurfNext

LEMMA SurfBegins == SurfInit => SurfInv
<1> SUFFICES ASSUME SurfInit
             PROVE  SurfInv
  OBVIOUS
<1>1. /\ 0 \in Slots /\ 0 \in 0..MaxFrames /\ 0 \in Halves /\ NoBuf \in SeenBufs
      /\ [i \in Slots |-> FALSE] \in [Slots -> BOOLEAN]
      /\ [h \in Halves |-> TRUE] \in [Halves -> BOOLEAN]
  BY SurfaceAssumption DEF Slots, Halves, SeenBufs
<1>2. << >> \in Seq(SeenBufs) /\ << >> \in Seq(Bufs)
  OBVIOUS
<1>3. surf \in Surfaces
  BY <1>1, <1>2 DEF SurfInit, Surfaces
<1>4. /\ surf.wire = << >> /\ surf.news = << >> /\ surf.held = {} /\ surf.front = NoBuf
      /\ surf.busy = [i \in Slots |-> FALSE]
  BY DEF SurfInit
<1>5. InUse(surf) = {} /\ Waiting(surf.news) = {} /\ Waiting(surf.wire) = {}
  BY <1>4 DEF InUse, Waiting
<1>6. InOnePlace(surf) /\ NoRingNoFlags(surf) /\ ActiveShown(surf) /\ FlagsCleared(surf)
  BY <1>4, <1>5 DEF InOnePlace, NoRingNoFlags, ActiveShown, FlagsCleared, NoBuf
<1>7. QED
  BY <1>3, <1>6 DEF SurfInv, Good, Sound, SurfInit

(* The invariant: every ring buffer is in one place, flagged while it is anywhere and only *)
(* then, and of the shared memory the half committed last is the active one. *)
THEOREM SurfaceInvariant == SurfSpec => []SurfInv
<1>1. SurfInv /\ [SurfNext]_surfVars => SurfInv'
  <2> SUFFICES ASSUME SurfInv, [SurfNext]_surfVars
               PROVE  SurfInv'
    OBVIOUS
  <2>1. CASE SurfNext
    BY <2>1, StepSeamless DEF SurfInv, Seamless
  <2>2. CASE UNCHANGED surfVars
    <3>1. surf' = surf /\ gpu' = gpu /\ video' = video
      BY <2>2 DEF surfVars
    <3>2. QED
      BY <3>1 DEF SurfInv, Good, Sound, InOnePlace, NoRingNoFlags, ActiveShown,
                  FlagsCleared, InUse
  <2>3. QED
    BY <2>1, <2>2
<1>2. QED
  BY <1>1, SurfBegins, PTL DEF SurfSpec

(* However uploads and transition frames fail, and however late releases are heard, no busy *)
(* flag stays set without a release on its way to clear it: the ring never runs dry. *)
THEOREM FlagsReturn == SurfSpec => []NoLeakedBuffer
<1>1. SurfInv => NoLeakedBuffer
  BY DEF SurfInv, Good, FlagsCleared, NoLeakedBuffer, Waiting
<1>2. QED
  BY <1>1, SurfaceInvariant, PTL

(* No step draws into a ring buffer that the compositor reads or is about to read, and the *)
(* half of shared memory shown last keeps its picture unless a video plays. *)
THEOREM DrawingDisturbsNothing == SurfSpec => ScreenKept
<1> DEFINE Untouched == surf'.ringSize = surf.ringSize =>
                            Drawn \cap InUse(surf) \cap ({"ring"} \X Slots) = {}
           ScreenKeeps == FrontLost(surf') => video \/ FrontLost(surf)
<1>1. SurfInv /\ [SurfNext]_surfVars => [Untouched]_surfVars /\ [ScreenKeeps]_surfVars
  <2> SUFFICES ASSUME SurfInv, SurfNext
               PROVE  Untouched /\ ScreenKeeps
    OBVIOUS
  <2>1. Seamless(surf, surf')
    BY StepSeamless
  <2>2. ScreenKeeps
    BY <2>1 DEF Seamless
  <2>3. Untouched
    BY <2>1 DEF Seamless, Drawn, LastOut, RingsIn, Rings
  <2>4. QED
    BY <2>2, <2>3
<1>2. SurfSpec => [][Untouched]_surfVars /\ [][ScreenKeeps]_surfVars
  BY <1>1, SurfaceInvariant, PTL DEF SurfSpec
<1>3. QED
  BY <1>2 DEF ScreenKept, RingUntouched, FrontKept

-----------------------------------------------------------------------------
(* The compute engine: what it knows. *)

Scratches == {ScratchName[i] : i \in ScratchSlots}
Progs == Effects \cup {None, "blit", "scale", "kawase", "scene"}
Texs == Bos \cup Scratches \cup OwnNames
GlStates == [prog : Progs, image : Texs, u1 : Texs, u2 : Texs, fbo : Texs]
Notes == [prog : Progs, target : Texs, old : Texs, new : Texs, fbo : Texs]
Uploads == [size : Nat, pic : Pictures \cup {None}, place : Places \cup {None}, fresh : BOOLEAN]
Uniforms == [Effects -> [gl : Values \cup {Unset}, last : Values \cup {Unset}]]
Machines ==
    [gl : GlStates, note : Notes, away : BOOLEAN, tex : SUBSET Bos, up : Uploads,
     bumped : BOOLEAN, half : Nat, pool : Seq(Nat), next : Nat, scratch : Nat,
     valid : BOOLEAN, custom : BOOLEAN, unif : Uniforms, scene : BOOLEAN,
     mem : [Places -> Pictures \cup {None}], shown : Places \cup {None},
     frame : Places \cup {None}, wrong : SUBSET STRING]

(* A note about one of the buffers, or a scratch texture, is true. What is *)
(* noted of other textures, whose names are deleted under it, may not be.  *)
BindingsTrue(s) ==
    /\ s.note.prog # None => s.gl.prog = s.note.prog
    /\ s.note.target \in Bos \cup Scratches => s.gl.image = s.note.target
    /\ s.note.old \in Bos => s.gl.u1 = s.note.old
    /\ s.note.new \in Bos => s.gl.u2 = s.note.new

FboTrue(s) == s.note.fbo \in Bos => s.gl.fbo = s.note.fbo

PoolTrue(s) ==
    /\ Len(s.pool) <= PoolSize /\ s.scratch <= Len(s.pool) /\ s.next < PoolSize
    /\ Len(s.pool) < PoolSize => s.next = Len(s.pool)

UniformsTrue(s) == \A p \in Effects : s.unif[p].gl = s.unif[p].last

PicturesTrue(s) ==
    /\ s.shown # None => s.mem[s.shown] \in Pictures
    /\ s.frame # None => s.mem[s.frame] \in Pictures
    /\ s.shown = s.frame => s.shown = None
    /\ s.up.fresh /\ s.up.place # None /\ s.up.place \in {s.shown, s.frame}
          => s.up.pic = s.mem[s.up.place]

Calm(s) ==
    /\ s \in Machines /\ s.wrong = {}
    /\ FboTrue(s) /\ PoolTrue(s) /\ UniformsTrue(s) /\ PicturesTrue(s)

Noted(s) == Calm(s) /\ BindingsTrue(s)

(* What a step does not change. *)
SamePictures(t, s) ==
    /\ t.up = s.up /\ t.bumped = s.bumped /\ t.mem = s.mem /\ t.shown = s.shown
    /\ t.frame = s.frame
SamePool(t, s) == t.pool = s.pool /\ t.scratch = s.scratch /\ t.next = s.next
SameUniforms(t, s) == t.unif = s.unif /\ t.wrong = s.wrong
SameRest(t, s) == SamePictures(t, s) /\ SamePool(t, s) /\ SameUniforms(t, s)

LEMMA NamesApart ==
    /\ PoolSize \in Nat \ {0}
    /\ \A i \in 1..PoolSize : ScratchName[i] \in Scratches
    /\ \A n \in Scratches : n \notin Bos \cup OwnNames
    /\ \A b \in Bos : b \notin OwnNames \cup Scratches
    /\ \A e \in Effects : e # None
    /\ OwnNames \cup Bos \cup Scratches \subseteq Texs
    /\ {None, Gone, UploadName, HalfName, SceneName} \subseteq OwnNames
BY CacheAssumption DEF Scratches, ScratchSlots, OwnNames, Texs

LEMMA Fields ==
    ASSUME NEW s \in Machines
    PROVE  /\ s.gl \in GlStates /\ s.note \in Notes /\ s.tex \in SUBSET Bos /\ s.up \in Uploads
           /\ s.half \in Nat /\ s.pool \in Seq(Nat) /\ s.next \in Nat /\ s.scratch \in Nat
           /\ s.unif \in Uniforms /\ s.mem \in [Places -> Pictures \cup {None}]
           /\ s.shown \in Places \cup {None} /\ s.frame \in Places \cup {None}
           /\ s.away \in BOOLEAN /\ s.bumped \in BOOLEAN /\ s.valid \in BOOLEAN
BY DEF Machines

LEMMA StillCalm ==
    ASSUME NEW s, NEW t \in Machines, Calm(s), SameRest(t, s), FboTrue(t)
    PROVE  Calm(t)
<1>1. PoolTrue(t) /\ UniformsTrue(t) /\ PicturesTrue(t) /\ t.wrong = {}
  BY DEF Calm, PoolTrue, UniformsTrue, PicturesTrue, SameRest, SamePool, SameUniforms, SamePictures
<1> QED BY <1>1 DEF Calm

LEMMA ForgottenIsNote == Forgotten \in Notes
BY NamesApart DEF Forgotten, Notes, Progs

LEMMA InvalidatedIs ==
    ASSUME NEW s \in Machines
    PROVE  /\ Invalidated(s) \in Machines /\ SameRest(Invalidated(s), s)
           /\ Invalidated(s).gl = s.gl /\ Invalidated(s).note = Forgotten
<1>1. Invalidated(s) = [s EXCEPT !.note = Forgotten]
  BY DEF Invalidated
<1> HIDE DEF Forgotten
<1>2. QED
  BY <1>1, ForgottenIsNote DEF Machines, SameRest, SamePool, SameUniforms, SamePictures

LEMMA ForgottenTrue ==
    ASSUME NEW s, s.note = Forgotten
    PROVE  FboTrue(s) /\ BindingsTrue(s)
BY NamesApart DEF FboTrue, BindingsTrue, Forgotten

LEMMA InvalidatedNoted ==
    ASSUME NEW s, Calm(s)
    PROVE  Noted(Invalidated(s)) /\ SameRest(Invalidated(s), s)
<1>1. s \in Machines
  BY DEF Calm
<1> QED BY <1>1, InvalidatedIs, ForgottenTrue, StillCalm DEF Noted

(* What deleting a texture changes. *)
Unbound(t, s, n) ==
    LET Off(x) == IF x = n THEN None ELSE x
    IN  /\ t \in Machines /\ SameRest(t, s) /\ t.note = s.note
        /\ t.gl.prog = s.gl.prog /\ t.gl.image = Off(s.gl.image) /\ t.gl.u1 = Off(s.gl.u1)
        /\ t.gl.u2 = Off(s.gl.u2) /\ t.gl.fbo = IF s.gl.fbo = n THEN Gone ELSE s.gl.fbo

LEMMA DeletedUnbinds ==
    ASSUME NEW s \in Machines, NEW n
    PROVE  Unbound(Deleted(s, n), s, n)
<1> DEFINE t == Deleted(s, n)
           Off(x) == IF x = n THEN None ELSE x
           h == [s.gl EXCEPT !.image = Off(@), !.u1 = Off(@), !.u2 = Off(@),
                             !.fbo = IF @ = n THEN Gone ELSE @]
<1>1. s.gl \in GlStates
  BY Fields
<1>2. None \in Texs /\ Gone \in Texs
  BY NamesApart
<1>3. h \in GlStates
  BY <1>1, <1>2 DEF GlStates
<1>4. /\ h.prog = s.gl.prog /\ h.image = Off(s.gl.image) /\ h.u1 = Off(s.gl.u1)
      /\ h.u2 = Off(s.gl.u2) /\ h.fbo = IF s.gl.fbo = n THEN Gone ELSE s.gl.fbo
  BY <1>1 DEF GlStates
<1>5. t = [s EXCEPT !.gl = h]
  BY DEF Deleted
<1> HIDE DEF t, h
<1>6. t \in Machines /\ SameRest(t, s) /\ t.note = s.note /\ t.gl = h
  BY <1>3, <1>5 DEF Machines, SameRest, SamePool, SameUniforms, SamePictures
<1> QED BY <1>4, <1>6 DEF Unbound, t

(* A texture that is not a buffer's. *)
LEMMA DeletedNoted ==
    ASSUME NEW s, Calm(s), NEW n, n \notin Bos
    PROVE  /\ Calm(Deleted(s, n)) /\ SameRest(Deleted(s, n), s)
           /\ BindingsTrue(s) /\ (n \in Scratches => s.note.target # n)
                 => BindingsTrue(Deleted(s, n))
<1> DEFINE t == Deleted(s, n)
<1>1. Unbound(t, s, n)
  BY DeletedUnbinds DEF Calm
<1> HIDE DEF t
<1>2. FboTrue(t)
  BY <1>1 DEF FboTrue, Calm, Unbound
<1>3. BindingsTrue(s) /\ (n \in Scratches => s.note.target # n) => BindingsTrue(t)
  BY <1>1 DEF BindingsTrue, Unbound
<1>4. Calm(t)
  BY <1>1, <1>2, StillCalm DEF Unbound
<1> QED BY <1>1, <1>3, <1>4 DEF Unbound, t

(* The engine's context is made current, a buffer gets its texture. *)
LEMMA CurrentNoted ==
    ASSUME NEW s, Calm(s)
    PROVE  /\ Calm(Current(s)) /\ SameRest(Current(s), s)
           /\ BindingsTrue(s) => BindingsTrue(Current(s))
<1>1. PICK r : /\ Current(s) = [r EXCEPT !.away = FALSE]
               /\ Calm(r) /\ SameRest(r, s) /\ (BindingsTrue(s) => BindingsTrue(r))
  <2>1. CASE s.away
    <3>1. Current(s) = [Invalidated(s) EXCEPT !.away = FALSE]
      BY <2>1 DEF Current
    <3> QED BY <3>1, InvalidatedNoted DEF Noted
  <2>2. CASE ~s.away
    <3>1. Current(s) = [s EXCEPT !.away = FALSE]
      BY <2>2 DEF Current
    <3>2. SameRest(s, s)
      BY DEF SameRest, SamePool, SameUniforms, SamePictures
    <3> QED BY <3>1, <3>2
  <2> QED BY <2>1, <2>2
<1> DEFINE t == Current(s)
<1>2. t = [r EXCEPT !.away = FALSE]
  BY <1>1
<1> HIDE DEF t
<1>3. t \in Machines /\ t.gl = r.gl /\ t.note = r.note /\ SameRest(t, r)
  BY <1>1, <1>2 DEF Calm, Machines, SameRest, SamePool, SameUniforms, SamePictures
<1>4. FboTrue(t) /\ (BindingsTrue(r) => BindingsTrue(t))
  BY <1>1, <1>3 DEF Calm, FboTrue, BindingsTrue
<1>5. SameRest(t, s)
  BY <1>1, <1>3 DEF SameRest, SamePool, SameUniforms, SamePictures
<1> QED BY <1>1, <1>3, <1>4, <1>5, StillCalm DEF t

LEMMA ImportedNoted ==
    ASSUME NEW s, Calm(s), NEW b \in Bos
    PROVE  /\ Calm(Imported(s, b)) /\ SameRest(Imported(s, b), s)
           /\ BindingsTrue(s) => BindingsTrue(Imported(s, b))
<1> DEFINE t == Imported(s, b)
<1>1. CASE b \in s.tex
  BY <1>1 DEF Imported, SameRest, SamePool, SameUniforms, SamePictures
<1>2. CASE b \notin s.tex
  <2> DEFINE h == [Forgotten EXCEPT !.prog = s.note.prog]
  <2>1. s \in Machines /\ s.note.prog \in Progs
    BY Fields DEF Calm, Notes
  <2>2. h \in Notes
    BY <2>1, ForgottenIsNote DEF Notes
  <2>3. h.prog = s.note.prog /\ h.target = None /\ h.old = None /\ h.new = None /\ h.fbo = None
    BY DEF Forgotten
  <2>4. t = [s EXCEPT !.tex = s.tex \cup {b}, !.note = h]
    BY <1>2 DEF Imported
  <2> HIDE DEF t, h
  <2>5. t \in Machines /\ SameRest(t, s) /\ t.note = h /\ t.gl = s.gl
    BY <2>1, <2>2, <2>4 DEF Machines, SameRest, SamePool, SameUniforms, SamePictures
  <2>6. FboTrue(t) /\ (BindingsTrue(s) => BindingsTrue(t))
    BY <2>3, <2>5, NamesApart DEF FboTrue, BindingsTrue
  <2> QED BY <2>5, <2>6, StillCalm DEF t
<1> QED BY <1>1, <1>2

LEMMA DetachedIs ==
    ASSUME NEW s \in Machines, NEW b
    PROVE  Detached(s, b) \in Machines /\ SameRest(Detached(s, b), s)
<1> DEFINE h == [s.gl EXCEPT !.fbo = None]
           d == Detached(s, b)
<1>1. CASE s.note.fbo # b
  BY <1>1 DEF Detached, SameRest, SamePool, SameUniforms, SamePictures
<1>2. CASE s.note.fbo = b
  <2>1. h \in GlStates
    BY NamesApart, Fields DEF GlStates
  <2>2. d = [s EXCEPT !.gl = h]
    BY <1>2 DEF Detached
  <2> HIDE DEF d, h
  <2>3. d \in Machines /\ SameRest(d, s)
    BY <2>1, <2>2 DEF Machines, SameRest, SamePool, SameUniforms, SamePictures
  <2> QED BY <2>3 DEF d
<1> QED BY <1>1, <1>2

LEMMA ReleasedNoted ==
    ASSUME NEW s, Calm(s), NEW b \in Bos
    PROVE  Noted(Released(s, b)) /\ SameRest(Released(s, b), s)
<1>1. s \in Machines
  BY DEF Calm
<1>2. PICK e \in Machines :
         /\ SameRest(e, s)
         /\ Released(s, b) = [Invalidated(e) EXCEPT !.tex = @ \ {b}, !.away = FALSE]
  <2>1. CASE b \notin s.tex
    <3>1. Released(s, b) = [Invalidated(s) EXCEPT !.tex = @ \ {b}, !.away = FALSE]
      BY <2>1 DEF Released
    <3>2. SameRest(s, s)
      BY DEF SameRest, SamePool, SameUniforms, SamePictures
    <3> QED BY <1>1, <3>1, <3>2
  <2>2. CASE b \in s.tex
    <3>1. Unbound(Deleted(Detached(s, b), b), Detached(s, b), b)
      BY <1>1, DetachedIs, DeletedUnbinds
    <3>2. Released(s, b) = [Invalidated(Deleted(Detached(s, b), b)) EXCEPT !.tex = @ \ {b}, !.away = FALSE]
      BY <2>2 DEF Released
    <3>3. SameRest(Deleted(Detached(s, b), b), s)
      BY <1>1, <3>1, DetachedIs DEF Unbound, SameRest, SamePool, SameUniforms, SamePictures
    <3>4. Deleted(Detached(s, b), b) \in Machines
      BY <3>1 DEF Unbound
    <3> QED BY <3>2, <3>3, <3>4
  <2> QED BY <2>1, <2>2
<1> DEFINE i == Invalidated(e)
           t == Released(s, b)
<1>3. i \in Machines /\ i.note = Forgotten /\ SameRest(i, e)
  BY InvalidatedIs
<1>4. t = [i EXCEPT !.tex = @ \ {b}, !.away = FALSE]
  BY <1>2
<1> HIDE DEF i, t
<1>5. t \in Machines /\ t.note = Forgotten /\ SameRest(t, i)
  BY <1>3, <1>4 DEF Machines, SameRest, SamePool, SameUniforms, SamePictures
<1>6. SameRest(t, s)
  BY <1>2, <1>3, <1>5 DEF SameRest, SamePool, SameUniforms, SamePictures
<1> QED BY <1>5, <1>6, ForgottenTrue, StillCalm DEF Noted, t

-----------------------------------------------------------------------------
(* The scratch textures. *)

LEMMA SmallRemainders == \A a, n \in Nat : a < n => a % n = a /\ n % n = 0
OBVIOUS

LEMMA RoundAgain ==
    ASSUME NEW a \in Nat, NEW n \in Nat, a < n
    PROVE  /\ (a % n) + 1 = a + 1
           /\ (a + 1) % n \in Nat /\ (a + 1) % n < n /\ (a + 1 < n => (a + 1) % n = a + 1)
<1>1. CASE a + 1 < n
  BY <1>1, SmallRemainders
<1>2. CASE a + 1 = n
  BY <1>2, SmallRemainders
<1> QED BY <1>1, <1>2

(* What has a scratch texture of a size at hand. *)
Ready(t, s, size) ==
    /\ t \in Machines /\ SamePictures(t, s) /\ SameUniforms(t, s)
    /\ PoolTrue(t) /\ t.scratch \in 1..Len(t.pool) /\ t.pool[t.scratch] = size
    /\ t.gl.prog = s.gl.prog /\ t.note.fbo = s.note.fbo
    /\ FboTrue(t) /\ (BindingsTrue(s) => BindingsTrue(t))

(* The slot that is filled next. *)
SlotFree(s, size) ==
    /\ Slot(s) \in 1..PoolSize /\ Slot(s) % PoolSize \in Nat /\ Slot(s) % PoolSize < PoolSize
    /\ Refilled(s, size) \in Seq(Nat) /\ Len(Refilled(s, size)) <= PoolSize
    /\ Slot(s) \in 1..Len(Refilled(s, size)) /\ Refilled(s, size)[Slot(s)] = size
    /\ Len(Refilled(s, size)) < PoolSize => Slot(s) % PoolSize = Len(Refilled(s, size))

LEMMA SlotIsFree ==
    ASSUME NEW s \in Machines, PoolTrue(s), NEW size \in Nat
    PROVE  SlotFree(s, size)
<1> DEFINE slot == Slot(s)
           after == slot % PoolSize
           pool == Refilled(s, size)
<1>1. PoolSize \in Nat \ {0} /\ s.next \in Nat /\ s.pool \in Seq(Nat) /\ Len(s.pool) \in Nat
  BY NamesApart, Fields
<1>2. s.next < PoolSize /\ Len(s.pool) <= PoolSize /\ (Len(s.pool) < PoolSize => s.next = Len(s.pool))
  BY DEF PoolTrue
<1>3. /\ slot = s.next + 1 /\ after \in Nat /\ after < PoolSize
      /\ (slot < PoolSize => after = slot)
  BY <1>1, <1>2, RoundAgain DEF Slot
<1>4. pool = IF slot \in 1..Len(s.pool) THEN [s.pool EXCEPT ![slot] = size] ELSE Append(s.pool, size)
  BY <1>1 DEF Refilled
<1> HIDE DEF slot, after, pool
<1>5. CASE slot \in 1..Len(s.pool)
  <2>1. pool \in Seq(Nat) /\ Len(pool) = Len(s.pool) /\ pool[slot] = size
    BY <1>1, <1>4, <1>5
  <2>2. Len(s.pool) = PoolSize
    BY <1>1, <1>2, <1>3, <1>5
  <2>3. slot \in 1..PoolSize
    BY <1>5, <2>2
  <2> QED BY <1>1, <1>3, <1>5, <2>1, <2>2, <2>3 DEF SlotFree, slot, after, pool
<1>6. CASE slot \notin 1..Len(s.pool)
  <2>1. pool \in Seq(Nat) /\ Len(pool) = Len(s.pool) + 1 /\ pool[Len(s.pool) + 1] = size
    BY <1>1, <1>4, <1>6
  <2>2. slot = Len(s.pool) + 1
    BY <1>1, <1>2, <1>3, <1>6
  <2>3. slot \in 1..PoolSize /\ Len(pool) <= PoolSize /\ slot \in 1..Len(pool) /\ pool[slot] = size
    BY <1>1, <1>2, <1>3, <2>1, <2>2
  <2>4. Len(pool) < PoolSize => after = Len(pool)
    BY <1>3, <2>1, <2>2
  <2> QED BY <1>3, <2>1, <2>3, <2>4 DEF SlotFree, slot, after, pool
<1> QED BY <1>5, <1>6

LEMMA LeastOf ==
    ASSUME NEW n \in Nat, NEW S \in SUBSET (1..n), S # {}
    PROVE  (CHOOSE i \in S : \A j \in S : i <= j) \in S
<1>1. \E i \in S : \A j \in S : i <= j
  BY LeastNatural
<1> QED BY <1>1

LEMMA ScratchReady ==
    ASSUME NEW s, Calm(s), NEW size \in Nat
    PROVE  Ready(Scratch(s, size), s, size)
<1> DEFINE t == Scratch(s, size)
           has == {i \in DOMAIN s.pool : s.pool[i] = size}
           handy == s.scratch # Absent /\ s.pool[s.scratch] = size
<1>1. s \in Machines /\ s.pool \in Seq(Nat) /\ Len(s.pool) \in Nat /\ s.scratch \in Nat
  BY Fields DEF Calm
<1>2. CASE handy
  <2>1. t = s
    BY <1>2 DEF Scratch
  <2>2. SamePictures(s, s) /\ SameUniforms(s, s)
    BY DEF SamePictures, SameUniforms
  <2>3. s.scratch \in 1..Len(s.pool)
    BY <1>1, <1>2 DEF Absent, Calm, PoolTrue
  <2> QED BY <1>1, <1>2, <2>1, <2>2, <2>3 DEF Ready, Calm
<1>3. CASE ~handy /\ has # {}
  <2> DEFINE i == CHOOSE i \in has : \A j \in has : i <= j
  <2>1. has \in SUBSET (1..Len(s.pool))
    BY <1>1
  <2>2. i \in has
    BY <1>1, <1>3, <2>1, LeastOf
  <2>3. t = [s EXCEPT !.scratch = i]
    BY <1>3 DEF Scratch
  <2>4. i \in 1..Len(s.pool) /\ s.pool[i] = size /\ i \in Nat
    BY <1>1, <2>1, <2>2
  <2> HIDE DEF i, t
  <2>5. t \in Machines /\ SamePictures(t, s) /\ SameUniforms(t, s) /\ t.gl = s.gl
        /\ t.note = s.note /\ t.pool = s.pool /\ t.next = s.next /\ t.scratch = i
    BY <1>1, <2>3, <2>4 DEF Machines, SamePictures, SameUniforms
  <2>6. PoolTrue(t) /\ FboTrue(t) /\ (BindingsTrue(s) => BindingsTrue(t))
    BY <1>1, <2>4, <2>5 DEF Calm, PoolTrue, FboTrue, BindingsTrue
  <2> QED BY <2>4, <2>5, <2>6 DEF Ready, t
<1>4. CASE ~handy /\ has = {}
  <2> DEFINE d == Emptied(s)
             pool == Refilled(s, size)
             slot == Slot(s)
             after == slot % PoolSize
             n == [d.note EXCEPT !.target = None]
  <2>1. SlotFree(s, size)
    BY <1>1, SlotIsFree DEF Calm
  <2>2. t = [d EXCEPT !.pool = pool, !.next = after, !.scratch = slot, !.note = n]
    BY <1>4 DEF Scratch
  <2>3. /\ d \in Machines /\ SameRest(d, s) /\ d.note = s.note /\ d.gl.prog = s.gl.prog /\ FboTrue(d)
        /\ s.note.old \in Bos /\ BindingsTrue(s) => d.gl.u1 = s.note.old
        /\ s.note.new \in Bos /\ BindingsTrue(s) => d.gl.u2 = s.note.new
    <3>1. CASE slot \in DOMAIN s.pool
      <4>1. d = Deleted(s, ScratchName[slot])
        BY <3>1 DEF Emptied
      <4>2. ScratchName[slot] \notin Bos
        BY <2>1, NamesApart DEF SlotFree
      <4>3. Unbound(d, s, ScratchName[slot]) /\ Calm(d)
        BY <1>1, <4>1, <4>2, DeletedUnbinds, DeletedNoted
      <4> HIDE DEF d, slot
      <4>4. /\ s.note.old \in Bos /\ BindingsTrue(s) => d.gl.u1 = s.note.old
            /\ s.note.new \in Bos /\ BindingsTrue(s) => d.gl.u2 = s.note.new
        BY <4>2, <4>3 DEF BindingsTrue, Unbound
      <4> QED BY <4>3, <4>4 DEF Unbound, Calm
    <3>2. CASE slot \notin DOMAIN s.pool
      <4>1. d = s
        BY <3>2 DEF Emptied
      <4>2. SameRest(s, s)
        BY DEF SameRest, SamePool, SameUniforms, SamePictures
      <4> HIDE DEF d
      <4> QED BY <1>1, <4>1, <4>2 DEF Calm, BindingsTrue
    <3> QED BY <3>1, <3>2
  <2>4. /\ n \in Notes /\ n.prog = d.note.prog /\ n.target = None /\ n.old = d.note.old
        /\ n.new = d.note.new /\ n.fbo = d.note.fbo
    <3> HIDE DEF d
    <3> QED BY <2>3, NamesApart, Fields DEF Notes
  <2>5. /\ slot \in Nat /\ slot \in 1..Len(pool) /\ after \in Nat /\ after < PoolSize
        /\ pool \in Seq(Nat) /\ Len(pool) \in Nat /\ Len(pool) <= PoolSize /\ pool[slot] = size
        /\ Len(pool) < PoolSize => after = Len(pool)
    <3>1. Slot(s) \in Nat
      BY <2>1, NamesApart DEF SlotFree
    <3> QED BY <2>1, <3>1 DEF SlotFree
  <2> HIDE DEF slot, pool, after, n, d, t, has, handy
  <2>6. t \in Machines /\ SamePictures(t, d) /\ SameUniforms(t, d) /\ t.gl = d.gl
        /\ t.note = n /\ t.pool = pool /\ t.next = after /\ t.scratch = slot
    BY <2>2, <2>3, <2>4, <2>5 DEF Machines, SamePictures, SameUniforms
  <2>7. PoolTrue(t)
    BY <2>5, <2>6 DEF PoolTrue
  <2>8. FboTrue(t)
    BY <2>3, <2>4, <2>6 DEF FboTrue
  <2>9. BindingsTrue(s) => BindingsTrue(t)
    BY <2>3, <2>4, <2>6, NamesApart DEF BindingsTrue
  <2>10. SamePictures(t, s) /\ SameUniforms(t, s)
    BY <2>3, <2>6 DEF SameRest, SamePictures, SameUniforms
  <2> QED BY <2>3, <2>4, <2>5, <2>6, <2>7, <2>8, <2>9, <2>10 DEF Ready, t
<1> QED BY <1>2, <1>3, <1>4

-----------------------------------------------------------------------------
(* Binding. *)

(* What only binds: the framebuffer, the pictures and the uniforms are let be. *)
Kin(t, s) ==
    /\ t \in Machines /\ SameRest(t, s) /\ t.note.fbo = s.note.fbo /\ t.gl.fbo = s.gl.fbo
    /\ BindingsTrue(s) => BindingsTrue(t)

LEMMA KinCalm ==
    ASSUME NEW s, Calm(s), NEW t, Kin(t, s)
    PROVE  Calm(t)
<1>1. FboTrue(t)
  BY DEF Kin, Calm, FboTrue
<1> QED BY <1>1, StillCalm DEF Kin

LEMMA UsedBinds ==
    ASSUME NEW s \in Machines, NEW prog \in Progs
    PROVE  /\ Kin(Used(s, prog), s) /\ Used(s, prog).gl.prog = prog
           /\ Used(s, prog).gl.image = s.gl.image /\ Used(s, prog).gl.u1 = s.gl.u1 /\ Used(s, prog).gl.u2 = s.gl.u2
<1> DEFINE t == Used(s, prog)
           g == [s.gl EXCEPT !.prog = prog]
           n == [s.note EXCEPT !.prog = prog]
<1>1. /\ g \in GlStates /\ g.prog = prog /\ g.fbo = s.gl.fbo
      /\ g.image = s.gl.image /\ g.u1 = s.gl.u1 /\ g.u2 = s.gl.u2
  BY Fields DEF GlStates
<1>2. /\ n \in Notes /\ n.prog = prog /\ n.fbo = s.note.fbo
      /\ n.target = s.note.target /\ n.old = s.note.old /\ n.new = s.note.new
  BY Fields DEF Notes
<1>3. t = [s EXCEPT !.gl = g, !.note = n]
  BY DEF Used
<1> HIDE DEF t, g, n
<1>4. t \in Machines /\ SameRest(t, s) /\ t.gl = g /\ t.note = n
  BY <1>1, <1>2, <1>3 DEF Machines, SameRest, SamePool, SameUniforms, SamePictures
<1>5. BindingsTrue(s) => BindingsTrue(t)
  BY <1>1, <1>2, <1>4 DEF BindingsTrue
<1> QED BY <1>1, <1>2, <1>4, <1>5 DEF Kin, t

LEMMA OnImageBinds ==
    ASSUME NEW s \in Machines, NEW x \in Texs
    PROVE  /\ Kin(OnImage(s, x), s) /\ OnImage(s, x).gl.image = x
           /\ OnImage(s, x).gl.prog = s.gl.prog /\ OnImage(s, x).gl.u1 = s.gl.u1 /\ OnImage(s, x).gl.u2 = s.gl.u2
<1> DEFINE t == OnImage(s, x)
           g == [s.gl EXCEPT !.image = x]
           n == [s.note EXCEPT !.target = x]
<1>1. /\ g \in GlStates /\ g.image = x /\ g.fbo = s.gl.fbo
      /\ g.prog = s.gl.prog /\ g.u1 = s.gl.u1 /\ g.u2 = s.gl.u2
  BY Fields DEF GlStates
<1>2. /\ n \in Notes /\ n.target = x /\ n.fbo = s.note.fbo
      /\ n.prog = s.note.prog /\ n.old = s.note.old /\ n.new = s.note.new
  BY Fields DEF Notes
<1>3. t = [s EXCEPT !.gl = g, !.note = n]
  BY DEF OnImage
<1> HIDE DEF t, g, n
<1>4. t \in Machines /\ SameRest(t, s) /\ t.gl = g /\ t.note = n
  BY <1>1, <1>2, <1>3 DEF Machines, SameRest, SamePool, SameUniforms, SamePictures
<1>5. BindingsTrue(s) => BindingsTrue(t)
  BY <1>1, <1>2, <1>4 DEF BindingsTrue
<1> QED BY <1>1, <1>2, <1>4, <1>5 DEF Kin, t

LEMMA OnUnit1Binds ==
    ASSUME NEW s \in Machines, NEW x \in Texs
    PROVE  /\ Kin(OnUnit1(s, x), s) /\ OnUnit1(s, x).gl.u1 = x
           /\ OnUnit1(s, x).gl.prog = s.gl.prog /\ OnUnit1(s, x).gl.image = s.gl.image /\ OnUnit1(s, x).gl.u2 = s.gl.u2
<1> DEFINE t == OnUnit1(s, x)
           g == [s.gl EXCEPT !.u1 = x]
           n == [s.note EXCEPT !.old = x]
<1>1. /\ g \in GlStates /\ g.u1 = x /\ g.fbo = s.gl.fbo
      /\ g.prog = s.gl.prog /\ g.image = s.gl.image /\ g.u2 = s.gl.u2
  BY Fields DEF GlStates
<1>2. /\ n \in Notes /\ n.old = x /\ n.fbo = s.note.fbo
      /\ n.prog = s.note.prog /\ n.target = s.note.target /\ n.new = s.note.new
  BY Fields DEF Notes
<1>3. t = [s EXCEPT !.gl = g, !.note = n]
  BY DEF OnUnit1
<1> HIDE DEF t, g, n
<1>4. t \in Machines /\ SameRest(t, s) /\ t.gl = g /\ t.note = n
  BY <1>1, <1>2, <1>3 DEF Machines, SameRest, SamePool, SameUniforms, SamePictures
<1>5. BindingsTrue(s) => BindingsTrue(t)
  BY <1>1, <1>2, <1>4 DEF BindingsTrue
<1> QED BY <1>1, <1>2, <1>4, <1>5 DEF Kin, t

LEMMA OnUnit2Binds ==
    ASSUME NEW s \in Machines, NEW x \in Texs
    PROVE  /\ Kin(OnUnit2(s, x), s) /\ OnUnit2(s, x).gl.u2 = x
           /\ OnUnit2(s, x).gl.prog = s.gl.prog /\ OnUnit2(s, x).gl.image = s.gl.image /\ OnUnit2(s, x).gl.u1 = s.gl.u1
<1> DEFINE t == OnUnit2(s, x)
           g == [s.gl EXCEPT !.u2 = x]
           n == [s.note EXCEPT !.new = x]
<1>1. /\ g \in GlStates /\ g.u2 = x /\ g.fbo = s.gl.fbo
      /\ g.prog = s.gl.prog /\ g.image = s.gl.image /\ g.u1 = s.gl.u1
  BY Fields DEF GlStates
<1>2. /\ n \in Notes /\ n.new = x /\ n.fbo = s.note.fbo
      /\ n.prog = s.note.prog /\ n.target = s.note.target /\ n.old = s.note.old
  BY Fields DEF Notes
<1>3. t = [s EXCEPT !.gl = g, !.note = n]
  BY DEF OnUnit2
<1> HIDE DEF t, g, n
<1>4. t \in Machines /\ SameRest(t, s) /\ t.gl = g /\ t.note = n
  BY <1>1, <1>2, <1>3 DEF Machines, SameRest, SamePool, SameUniforms, SamePictures
<1>5. BindingsTrue(s) => BindingsTrue(t)
  BY <1>1, <1>2, <1>4 DEF BindingsTrue
<1> QED BY <1>1, <1>2, <1>4, <1>5 DEF Kin, t

(* A dispatch that finds what it is meant to find notes nothing wrong. *)
LEMMA NothingWrong ==
    ASSUME NEW s \in Machines, s.wrong = {}, NEW X, X = {}
    PROVE  [s EXCEPT !.wrong = @ \cup X] = s
<1>1. s.wrong \cup X = s.wrong
  OBVIOUS
<1> QED BY <1>1 DEF Machines

LEMMA DispatchedRight ==
    ASSUME NEW s \in Machines, s.wrong = {}, NEW wanted,
           \A f \in DOMAIN wanted : s.gl[f] = wanted[f]
    PROVE  Dispatched(s, wanted) = s
<1>1. {f \in DOMAIN wanted : s.gl[f] # wanted[f]} = {}
  OBVIOUS
<1> QED BY <1>1, NothingWrong DEF Dispatched

LEMMA SeenRight ==
    ASSUME NEW s \in Machines, s.wrong = {}, NEW wanted, NEW place,
           \A f \in DOMAIN wanted : s.gl[f] = wanted[f], s.up.pic = s.mem[place]
    PROVE  Seen(s, place, wanted) = s
<1>1. Dispatched(s, wanted) = s
  BY DispatchedRight
<1> QED BY <1>1, NothingWrong DEF Seen

-----------------------------------------------------------------------------
(* Writing to a buffer. *)

(* A call keeps what is true, and changes no picture in memory. *)
Call(t, s) ==
    /\ Calm(t) /\ (BindingsTrue(s) => BindingsTrue(t))
    /\ t.mem = s.mem /\ t.shown = s.shown /\ t.frame = s.frame

LEMMA CallThenCall ==
    ASSUME NEW s, NEW t, NEW u, Call(t, s), Call(u, t)
    PROVE  Call(u, s)
BY DEF Call

LEMMA KinStep ==
    ASSUME NEW s, Calm(s), NEW t, Kin(t, s)
    PROVE  Call(t, s)
BY KinCalm DEF Call, Kin, SameRest, SamePictures

LEMMA Stays ==
    ASSUME NEW s, Calm(s)
    PROVE  Call(s, s)
BY DEF Call

(* There is a target of the buffer's size. *)
Aimed(s, b) == b \in Tiled => s.pool[s.scratch] = Size[b]

LEMMA PreparedAims ==
    ASSUME NEW s, Calm(s), NEW b \in Bos
    PROVE  /\ Call(Prepared(s, b), s) /\ SamePictures(Prepared(s, b), s)
           /\ Prepared(s, b).gl.prog = s.gl.prog /\ Aimed(Prepared(s, b), b)
           /\ Target(Prepared(s, b), b) \in Bos \cup Scratches
<1> DEFINE t == Prepared(s, b)
<1>1. CASE b \notin Tiled
  <2>1. t = s /\ Target(t, b) = b
    BY <1>1 DEF Prepared, Target
  <2>2. SamePictures(s, s)
    BY DEF SamePictures
  <2> HIDE DEF t
  <2> QED BY <1>1, <2>1, <2>2, Stays DEF Aimed, t
<1>2. CASE b \in Tiled
  <2>1. t = Scratch(s, Size[b]) /\ Target(t, b) = ScratchName[t.scratch] /\ Size[b] \in Nat
    BY <1>2, CacheAssumption DEF Prepared, Target
  <2>2. Ready(t, s, Size[b])
    BY <2>1, ScratchReady
  <2> HIDE DEF t
  <2>3. t.pool \in Seq(Nat) /\ Len(t.pool) \in Nat /\ PoolSize \in Nat /\ Len(t.pool) <= PoolSize
    BY <2>2, NamesApart, Fields DEF Ready, PoolTrue
  <2>4. t.scratch \in 1..PoolSize
    BY <2>2, <2>3 DEF Ready
  <2>5. Target(t, b) \in Scratches
    BY <2>1, <2>4, NamesApart
  <2>6. UniformsTrue(t) /\ PicturesTrue(t) /\ t.wrong = {}
    BY <2>2 DEF Ready, Calm, UniformsTrue, PicturesTrue, SameUniforms, SamePictures
  <2>7. Calm(t)
    BY <2>2, <2>6 DEF Ready, Calm
  <2> QED BY <2>2, <2>5, <2>7 DEF Ready, Aimed, Call, SamePictures, t
<1> QED BY <1>1, <1>2

LEMMA BlittedSteps ==
    ASSUME NEW s, Calm(s), NEW b \in Bos, Aimed(s, b)
    PROVE  Call(Blitted(s, b), s)
<1>1. CASE b \notin Tiled
  BY <1>1, Stays DEF Blitted
<1>2. CASE b \in Tiled
  <2> DEFINE g == [s.gl EXCEPT !.fbo = IF s.note.fbo = b THEN s.gl.fbo ELSE b, !.prog = "blit"]
             n == [s.note EXCEPT !.fbo = b, !.prog = "blit", !.target = None]
             r == [s EXCEPT !.gl = g, !.note = n, !.valid = TRUE]
             X == IF s.pool[s.scratch] = Size[b] THEN {} ELSE {"size"}
  <2>1. s \in Machines /\ b \in Texs /\ None \in Texs /\ "blit" \in Progs
    BY NamesApart DEF Calm, Progs
  <2>2. /\ g \in GlStates /\ g.fbo = b /\ g.prog = "blit"
        /\ g.image = s.gl.image /\ g.u1 = s.gl.u1 /\ g.u2 = s.gl.u2
    BY <2>1, Fields DEF GlStates, Calm, FboTrue
  <2>3. /\ n \in Notes /\ n.fbo = b /\ n.prog = "blit" /\ n.target = None
        /\ n.old = s.note.old /\ n.new = s.note.new
    BY <2>1, Fields DEF Notes
  <2>4. Blitted(s, b) = [Dispatched(r, [fbo |-> b]) EXCEPT !.wrong = @ \cup X]
    BY <1>2 DEF Blitted
  <2>5. X = {}
    BY <1>2 DEF Aimed
  <2> HIDE DEF g, n, X
  <2>6. r \in Machines /\ SameRest(r, s) /\ r.gl = g /\ r.note = n
    BY <2>1, <2>2, <2>3 DEF Machines, SameRest, SamePool, SameUniforms, SamePictures
  <2> HIDE DEF r
  <2>7. r.wrong = {}
    BY <2>6 DEF Calm, SameRest, SameUniforms
  <2>8. \A f \in DOMAIN [fbo |-> b] : r.gl[f] = [fbo |-> b][f]
    BY <2>2, <2>6
  <2>9. Blitted(s, b) = r
    BY <2>4, <2>5, <2>6, <2>7, <2>8, DispatchedRight, NothingWrong
  <2>10. FboTrue(r) /\ (BindingsTrue(s) => BindingsTrue(r))
    BY <2>2, <2>3, <2>6, NamesApart DEF FboTrue, BindingsTrue
  <2> QED BY <2>6, <2>9, <2>10, StillCalm DEF Call, SameRest, SamePictures
<1> QED BY <1>1, <1>2

LEMMA RefusedSteps ==
    ASSUME NEW s, Calm(s), NEW b \in Bos
    PROVE  Call(Refused(s, b), s)
<1> DEFINE g == [s.gl EXCEPT !.fbo = b]
           n == [s.note EXCEPT !.fbo = None]
           t == Refused(s, b)
<1>1. s \in Machines /\ b \in Texs /\ None \in Texs
  BY NamesApart DEF Calm
<1>2. /\ g \in GlStates /\ g.prog = s.gl.prog
      /\ g.image = s.gl.image /\ g.u1 = s.gl.u1 /\ g.u2 = s.gl.u2
  BY <1>1, Fields DEF GlStates
<1>3. /\ n \in Notes /\ n.fbo = None /\ n.prog = s.note.prog /\ n.target = s.note.target
      /\ n.old = s.note.old /\ n.new = s.note.new
  BY <1>1, Fields DEF Notes
<1>4. t = [s EXCEPT !.gl = g, !.note = n]
  BY DEF Refused
<1> HIDE DEF g, n, t
<1>5. t \in Machines /\ SameRest(t, s) /\ t.gl = g /\ t.note = n
  BY <1>1, <1>2, <1>3, <1>4 DEF Machines, SameRest, SamePool, SameUniforms, SamePictures
<1>6. FboTrue(t) /\ (BindingsTrue(s) => BindingsTrue(t))
  BY <1>2, <1>3, <1>5, NamesApart DEF FboTrue, BindingsTrue
<1> QED BY <1>5, <1>6, StillCalm DEF Call, SameRest, SamePictures, t

LEMMA EndsSteps ==
    ASSUME NEW s, Calm(s), NEW b \in Bos, Aimed(s, b), NEW t \in Ends(s, b)
    PROVE  Call(t, s)
<1>1. t = Blitted(s, b) \/ t = Refused(s, b)
  BY DEF Ends
<1> QED BY <1>1, BlittedSteps, RefusedSteps

-----------------------------------------------------------------------------
(* A transition. *)

LEMMA GivenUniform ==
    ASSUME NEW s, Calm(s), NEW p \in Effects, NEW v \in Values
    PROVE  /\ Call(Given(s, p, v), s) /\ SamePool(Given(s, p, v), s)
           /\ Given(s, p, v).gl = s.gl /\ Given(s, p, v).unif[p].gl = v
<1> DEFINE t == Given(s, p, v)
<1>1. s \in Machines /\ s.unif \in Uniforms /\ s.unif[p].gl = s.unif[p].last
  BY Fields DEF Calm, UniformsTrue
<1>2. CASE s.unif[p].last = v
  BY <1>1, <1>2, Stays DEF Given, SamePool
<1>3. CASE s.unif[p].last # v
  <2> DEFINE u == [s.unif EXCEPT ![p] = [gl |-> v, last |-> v]]
  <2>1. u \in Uniforms /\ u[p].gl = v /\ (\A q \in Effects : u[q].gl = u[q].last)
    BY <1>1 DEF Uniforms, Calm, UniformsTrue
  <2>2. t = [s EXCEPT !.unif = u]
    BY <1>3 DEF Given
  <2> HIDE DEF t, u
  <2>3. t \in Machines /\ SamePictures(t, s) /\ SamePool(t, s) /\ t.gl = s.gl /\ t.note = s.note
        /\ t.unif = u /\ t.wrong = s.wrong
    BY <1>1, <2>1, <2>2 DEF Machines, SamePool, SamePictures
  <2>4. FboTrue(t) /\ (BindingsTrue(s) => BindingsTrue(t)) /\ PoolTrue(t) /\ UniformsTrue(t)
        /\ PicturesTrue(t)
    BY <2>1, <2>3 DEF Calm, FboTrue, BindingsTrue, PoolTrue, UniformsTrue, PicturesTrue, SamePool, SamePictures
  <2> QED BY <2>1, <2>3, <2>4 DEF Calm, Call, SamePictures, t
<1> QED BY <1>2, <1>3

LEMMA ImportedSteps ==
    ASSUME NEW s, Calm(s), NEW b \in Bos
    PROVE  Call(Imported(s, b), s)
BY ImportedNoted DEF Call, SameRest, SamePictures

LEMMA CurrentSteps ==
    ASSUME NEW s, Calm(s)
    PROVE  Call(Current(s), s)
BY CurrentNoted DEF Call, SameRest, SamePictures

(* Each of the bindings of a transition: it is there, or it is made. *)
Bound(t, s) == Calm(t) /\ Noted(t) /\ Kin(t, s)

LEMMA KinKin ==
    ASSUME NEW s, NEW t, NEW u, Kin(t, s), Kin(u, t)
    PROVE  Kin(u, s)
BY DEF Kin, SameRest, SamePool, SameUniforms, SamePictures

LEMMA KinSelf ==
    ASSUME NEW s, Calm(s)
    PROVE  Kin(s, s)
BY DEF Kin, Calm, SameRest, SamePool, SameUniforms, SamePictures

LEMMA UsesProgram ==
    ASSUME NEW s, Noted(s), NEW p \in Effects
    PROVE  LET a == IF s.note.prog = p THEN s ELSE Used(s, p)
           IN  Kin(a, s) /\ Noted(a) /\ a.gl.prog = p
<1>1. s \in Machines /\ Calm(s) /\ p \in Progs /\ p # None
  BY NamesApart DEF Noted, Calm, Progs
<1>2. CASE s.note.prog = p
  BY <1>1, <1>2, KinSelf DEF Noted, BindingsTrue
<1>3. CASE s.note.prog # p
  BY <1>1, <1>3, UsedBinds, KinCalm DEF Noted, Kin
<1> QED BY <1>2, <1>3

LEMMA WritesImage ==
    ASSUME NEW s, Noted(s), NEW x \in Bos \cup Scratches
    PROVE  LET b == IF s.note.target = x THEN s ELSE OnImage(s, x)
           IN  Kin(b, s) /\ Noted(b) /\ b.gl.image = x /\ b.gl.prog = s.gl.prog
<1>1. s \in Machines /\ Calm(s) /\ x \in Texs
  BY NamesApart DEF Noted, Calm
<1>2. CASE s.note.target = x
  BY <1>1, <1>2, KinSelf DEF Noted, BindingsTrue
<1>3. CASE s.note.target # x
  BY <1>1, <1>3, OnImageBinds, KinCalm DEF Noted, Kin
<1> QED BY <1>2, <1>3

LEMMA ReadsOld ==
    ASSUME NEW s, Noted(s), NEW x \in Bos
    PROVE  LET c == IF s.note.old = x THEN s ELSE OnUnit1(s, x)
           IN  /\ Kin(c, s) /\ Noted(c) /\ c.gl.u1 = x
               /\ c.gl.prog = s.gl.prog /\ c.gl.image = s.gl.image
<1>1. s \in Machines /\ Calm(s) /\ x \in Texs
  BY NamesApart DEF Noted, Calm
<1>2. CASE s.note.old = x
  BY <1>1, <1>2, KinSelf DEF Noted, BindingsTrue
<1>3. CASE s.note.old # x
  BY <1>1, <1>3, OnUnit1Binds, KinCalm DEF Noted, Kin
<1> QED BY <1>2, <1>3

LEMMA ReadsNew ==
    ASSUME NEW s, Noted(s), NEW x \in Bos
    PROVE  LET d == IF s.note.new = x THEN s ELSE OnUnit2(s, x)
           IN  /\ Kin(d, s) /\ Noted(d) /\ d.gl.u2 = x
               /\ d.gl.prog = s.gl.prog /\ d.gl.image = s.gl.image /\ d.gl.u1 = s.gl.u1
<1>1. s \in Machines /\ Calm(s) /\ x \in Texs
  BY NamesApart DEF Noted, Calm
<1>2. CASE s.note.new = x
  BY <1>1, <1>2, KinSelf DEF Noted, BindingsTrue
<1>3. CASE s.note.new # x
  BY <1>1, <1>3, OnUnit2Binds, KinCalm DEF Noted, Kin
<1> QED BY <1>2, <1>3

LEMMA TransitionNoted ==
    ASSUME NEW t \in Bos, NEW o \in Bos, NEW n \in Bos, NEW e \in Effects, NEW v \in Values,
           Noted(gc), Transition(t, o, n, e, v)
    PROVE  Noted(gc')
<1> DEFINE i == Imported(Imported(Imported(Current(gc), t), o), n)
           s == Prepared(i, t)
           dst == Target(s, t)
           p == Program(s, e)
           a == IF s.note.prog = p THEN s ELSE Used(s, p)
           b == IF a.note.target = dst THEN a ELSE OnImage(a, dst)
           c == IF b.note.old = o THEN b ELSE OnUnit1(b, o)
           d == IF c.note.new = n THEN c ELSE OnUnit2(c, n)
           r == Given(d, p, v)
           X == IF r.unif[p].gl = v THEN {} ELSE {"uniform"}
           wanted == [prog |-> p, image |-> dst, u1 |-> o, u2 |-> n]
           done == [Dispatched(r, wanted) EXCEPT !.wrong = @ \cup X]
<1>1. gc' \in Ends(done, t)
  BY DEF Transition
<1>2. Noted(i)
  <2>1. Noted(Current(gc))
    BY CurrentSteps DEF Noted, Call
  <2>2. Noted(Imported(Current(gc), t))
    BY <2>1, ImportedSteps DEF Noted, Call
  <2>3. Noted(Imported(Imported(Current(gc), t), o))
    BY <2>2, ImportedSteps DEF Noted, Call
  <2> QED BY <2>3, ImportedSteps DEF Noted, Call
<1> HIDE DEF i
<1>3. Noted(s) /\ Aimed(s, t) /\ dst \in Bos \cup Scratches
  BY <1>2, PreparedAims DEF Noted, Call
<1>4. p \in Effects
  BY CacheAssumption DEF Program
<1> HIDE DEF s, p, dst
<1>5. Kin(a, s) /\ Noted(a) /\ a.gl.prog = p
  BY <1>3, <1>4, UsesProgram
<1> HIDE DEF a
<1>6. Kin(b, a) /\ Noted(b) /\ b.gl.image = dst /\ b.gl.prog = p
  BY <1>3, <1>5, WritesImage
<1> HIDE DEF b
<1>7. Kin(c, b) /\ Noted(c) /\ c.gl.u1 = o /\ c.gl.prog = p /\ c.gl.image = dst
  BY <1>6, ReadsOld
<1> HIDE DEF c
<1>8. /\ Kin(d, c) /\ Noted(d) /\ d.gl.u2 = n /\ d.gl.prog = p /\ d.gl.image = dst
      /\ d.gl.u1 = o
  BY <1>7, ReadsNew
<1> HIDE DEF d
<1>9. Kin(d, s)
  BY <1>5, <1>6, <1>7, <1>8, KinKin
<1>10. /\ Call(r, d) /\ SamePool(r, d) /\ r.gl = d.gl /\ r.unif[p].gl = v
  BY <1>4, <1>8, GivenUniform DEF Noted
<1> HIDE DEF r
<1>11. Aimed(r, t)
  BY <1>3, <1>9, <1>10 DEF Aimed, Kin, SameRest, SamePool
<1>12. r \in Machines /\ r.wrong = {} /\ X = {}
  BY <1>10 DEF Call, Calm
<1>13. \A f \in DOMAIN wanted : r.gl[f] = wanted[f]
  BY <1>8, <1>10
<1> HIDE DEF X, wanted
<1>14. done = r
  BY <1>12, <1>13, DispatchedRight, NothingWrong
<1> HIDE DEF done
<1>15. Call(gc', r)
  BY <1>1, <1>10, <1>11, <1>14, EndsSteps DEF Call
<1> QED BY <1>8, <1>10, <1>15 DEF Noted, Call

LEMMA CompileNoted ==
    ASSUME NEW ok \in BOOLEAN, Noted(gc), Compile(ok)
    PROVE  Noted(gc')
<1> DEFINE s == gc
           g == [s.gl EXCEPT !.prog = IF @ = "custom" THEN None ELSE @]
           n == [s.note EXCEPT !.prog = None]
           u == [s.unif EXCEPT !["custom"] = IF ok THEN [gl |-> Unset, last |-> Unset] ELSE @]
           t == gc'
<1>1. Calm(s) /\ s \in Machines /\ BindingsTrue(s) /\ s.unif \in Uniforms
  BY Fields DEF Noted, Calm
<1>2. /\ g \in GlStates /\ g.image = s.gl.image /\ g.u1 = s.gl.u1 /\ g.u2 = s.gl.u2
      /\ g.fbo = s.gl.fbo
  BY <1>1, Fields DEF GlStates, Progs
<1>3. /\ n \in Notes /\ n.prog = None /\ n.target = s.note.target /\ n.old = s.note.old
      /\ n.new = s.note.new /\ n.fbo = s.note.fbo
  BY <1>1, Fields DEF Notes, Progs
<1>4. u \in Uniforms /\ (\A p \in Effects : u[p].gl = u[p].last)
  BY <1>1 DEF Uniforms, Calm, UniformsTrue
<1>5. t = [s EXCEPT !.away = FALSE, !.custom = ok, !.note = n, !.gl = g, !.unif = u]
  BY DEF Compile
<1> HIDE DEF g, n, u, s, t
<1>6. /\ t \in Machines /\ SamePictures(t, s) /\ SamePool(t, s) /\ t.wrong = s.wrong
      /\ t.gl = g /\ t.note = n /\ t.unif = u
  BY <1>1, <1>2, <1>3, <1>4, <1>5 DEF Machines, SamePictures, SamePool
<1>7. FboTrue(t) /\ BindingsTrue(t) /\ PoolTrue(t) /\ UniformsTrue(t) /\ PicturesTrue(t)
  BY <1>1, <1>2, <1>3, <1>4, <1>6
     DEF Calm, FboTrue, BindingsTrue, PoolTrue, UniformsTrue, PicturesTrue, SamePool, SamePictures
<1> QED BY <1>1, <1>6, <1>7 DEF Noted, Calm, t

-----------------------------------------------------------------------------
(* Pictures. *)

(* A picture the engine is given: the one kept, or the decoder's. *)
Held(s, place) ==
    place \in Places /\ place \in {s.shown, s.frame} /\ s.mem[place] \in Pictures

LEMMA NewUpload ==
    ASSUME NEW s, Calm(s), NEW size \in Nat
    PROVE  LET r == [Deleted(s, UploadName) EXCEPT !.up = [NoUpload EXCEPT !.size = size]]
           IN  Call(r, s) /\ SamePool(r, s)
<1> DEFINE d == Deleted(s, UploadName)
           u == [NoUpload EXCEPT !.size = size]
           r == [d EXCEPT !.up = u]
<1>1. UploadName \notin Bos \cup Scratches
  BY NamesApart
<1>2. Calm(d) /\ SameRest(d, s) /\ (BindingsTrue(s) => BindingsTrue(d))
  BY <1>1, DeletedNoted
<1>3. u \in Uploads /\ ~u.fresh
  BY DEF NoUpload, Uploads, Absent
<1> HIDE DEF d, u
<1>4. /\ r \in Machines /\ SamePool(r, d) /\ SameUniforms(r, d) /\ r.gl = d.gl /\ r.note = d.note
      /\ r.up = u /\ r.mem = d.mem /\ r.shown = d.shown /\ r.frame = d.frame
  BY <1>2, <1>3 DEF Calm, Machines, SamePool, SameUniforms
<1> HIDE DEF r
<1>5. /\ FboTrue(r) /\ (BindingsTrue(d) => BindingsTrue(r)) /\ PoolTrue(r) /\ UniformsTrue(r)
      /\ PicturesTrue(r) /\ r.wrong = {}
  BY <1>2, <1>3, <1>4
     DEF Calm, FboTrue, BindingsTrue, PoolTrue, UniformsTrue, PicturesTrue, SamePool, SameUniforms
<1>6. Call(r, s) /\ SamePool(r, s)
  BY <1>2, <1>4, <1>5 DEF Calm, Call, SamePool, SameRest, SamePictures
<1> QED BY <1>6 DEF r, u, d

LEMMA UploadedSteps ==
    ASSUME NEW s, Calm(s), NEW place, Held(s, place)
    PROVE  /\ Call(Uploaded(s, place), s) /\ SamePool(Uploaded(s, place), s)
           /\ Uploaded(s, place).up.pic = s.mem[place]
<1> DEFINE size == Extent[s.mem[place]]
           r == IF s.up.size # size
                THEN [Deleted(s, UploadName) EXCEPT !.up = [NoUpload EXCEPT !.size = size]]
                ELSE s
           t == Uploaded(s, place)
<1>1. size \in Nat
  BY CacheAssumption DEF Held
<1>2. Call(r, s) /\ SamePool(r, s)
  <2> HIDE DEF size
  <2>1. CASE s.up.size # size
    BY <1>1, <2>1, NewUpload
  <2>2. CASE s.up.size = size
    BY <2>2, Stays DEF SamePool
  <2> QED BY <2>1, <2>2
<1>3. t = IF r.bumped /\ r.up.fresh /\ r.up.place = place THEN r
          ELSE [r EXCEPT !.up = [@ EXCEPT !.pic = r.mem[place], !.place = place, !.fresh = TRUE]]
  BY DEF Uploaded
<1> HIDE DEF r, size, t
<1>4. Calm(r) /\ r \in Machines /\ Held(r, place) /\ None \notin Places
  BY <1>2, CacheAssumption DEF Call, Calm, Held
<1>5. CASE r.bumped /\ r.up.fresh /\ r.up.place = place
  <2>1. t = r
    BY <1>3, <1>5
  <2>2. r.up.pic = r.mem[place]
    BY <1>4, <1>5 DEF Calm, PicturesTrue, Held
  <2> QED BY <1>2, <2>1, <2>2 DEF Call, t
<1>6. CASE ~(r.bumped /\ r.up.fresh /\ r.up.place = place)
  <2> DEFINE u == [r.up EXCEPT !.pic = r.mem[place], !.place = place, !.fresh = TRUE]
  <2>1. u \in Uploads /\ u.pic = r.mem[place] /\ u.place = place
    BY <1>4, Fields DEF Uploads, Held
  <2>2. t = [r EXCEPT !.up = u]
    BY <1>3, <1>6
  <2> HIDE DEF u
  <2>3. /\ t \in Machines /\ SamePool(t, r) /\ SameUniforms(t, r) /\ t.gl = r.gl /\ t.note = r.note
        /\ t.up = u /\ t.mem = r.mem /\ t.shown = r.shown /\ t.frame = r.frame
    BY <1>4, <2>1, <2>2 DEF Machines, SamePool, SameUniforms
  <2>4. /\ FboTrue(t) /\ (BindingsTrue(r) => BindingsTrue(t)) /\ PoolTrue(t) /\ UniformsTrue(t)
        /\ PicturesTrue(t) /\ t.wrong = {}
    BY <1>4, <2>1, <2>3
       DEF Calm, FboTrue, BindingsTrue, PoolTrue, UniformsTrue, PicturesTrue, SamePool, SameUniforms
  <2>5. Call(t, r)
    BY <2>3, <2>4 DEF Calm, Call
  <2> QED BY <1>2, <2>1, <2>3, <2>5, CallThenCall DEF Call, SamePool, t
<1> QED BY <1>5, <1>6

(* A program that scales: its image is the target. *)
LEMMA ScalingBinds ==
    ASSUME NEW s, Calm(s), NEW b \in Bos, Target(s, b) \in Texs
    PROVE  /\ Kin(Scaling(s, b), s) /\ Calm(Scaling(s, b))
           /\ Scaling(s, b).gl.prog = "scale" /\ Scaling(s, b).gl.image = Target(s, b)
<1> DEFINE u == Used(s, "scale")
           x == Target(s, b)
<1>1. s \in Machines /\ "scale" \in Progs
  BY DEF Calm, Progs
<1>2. Kin(u, s) /\ u.gl.prog = "scale" /\ u \in Machines
  BY <1>1, UsedBinds DEF Kin
<1> HIDE DEF u, x
<1>3. Kin(OnImage(u, x), u) /\ OnImage(u, x).gl.image = x /\ OnImage(u, x).gl.prog = "scale"
  BY <1>2, OnImageBinds DEF x
<1>4. Scaling(s, b) = OnImage(u, x)
  BY DEF Scaling, u, x
<1> QED BY <1>2, <1>3, <1>4, KinKin, KinCalm DEF x

LEMMA TextureNames ==
    {UploadName, HalfName} \cup Bos \cup Scratches \subseteq Texs
BY NamesApart

LEMMA StaticSteps ==
    ASSUME NEW s0, Calm(s0), NEW b \in Bos, NEW place, Held(s0, place), NEW t \in Static(s0, b, place)
    PROVE  Call(t, s0)
<1> DEFINE i == Imported(Current(s0), b)
           u == Uploaded(i, place)
           s == Prepared(u, b)
           c == Scaling(s, b)
           r == OnUnit1(c, UploadName)
           wanted == [prog |-> "scale", image |-> Target(s, b), u1 |-> UploadName]
<1>1. t \in Ends(Seen(r, place, wanted), b)
  BY DEF Static
<1>2. Call(i, s0) /\ Calm(i) /\ Held(i, place)
  <2>1. Call(Current(s0), s0)
    BY CurrentSteps
  <2>2. Call(i, Current(s0))
    BY <2>1, ImportedSteps DEF Call
  <2> HIDE DEF i
  <2> QED BY <2>1, <2>2, CallThenCall DEF Call, Held
<1> HIDE DEF i
<1>3. Call(u, i) /\ Calm(u) /\ u.up.pic = i.mem[place]
  BY <1>2, UploadedSteps DEF Call
<1> HIDE DEF u
<1>4. /\ Call(s, u) /\ Calm(s) /\ SamePictures(s, u) /\ Aimed(s, b) /\ Target(s, b) \in Texs
  BY <1>3, PreparedAims, TextureNames DEF Call
<1> HIDE DEF s
<1>5. Kin(c, s) /\ Calm(c) /\ c.gl.prog = "scale" /\ c.gl.image = Target(s, b)
  BY <1>4, ScalingBinds
<1> HIDE DEF c
<1>6. /\ Kin(r, c) /\ r.gl.u1 = UploadName /\ r.gl.prog = "scale" /\ r.gl.image = Target(s, b)
  BY <1>5, OnUnit1Binds, TextureNames DEF Calm
<1> HIDE DEF r
<1>7. Kin(r, s) /\ Calm(r) /\ Call(r, s)
  BY <1>4, <1>5, <1>6, KinKin, KinCalm, KinStep
<1>8. \A f \in DOMAIN wanted : r.gl[f] = wanted[f]
  BY <1>6
<1>9. r.up.pic = r.mem[place] /\ Aimed(r, b)
  BY <1>3, <1>4, <1>7 DEF Kin, SameRest, SamePictures, SamePool, Aimed, Call
<1> HIDE DEF wanted
<1>10. Seen(r, place, wanted) = r
  BY <1>7, <1>8, <1>9, SeenRight DEF Calm
<1>11. Call(t, r)
  BY <1>1, <1>7, <1>9, <1>10, EndsSteps
<1> QED BY <1>2, <1>3, <1>4, <1>7, <1>11, CallThenCall

LEMMA FilledSteps ==
    ASSUME NEW s0, Calm(s0), NEW b \in Bos, NEW t \in Filled(s0, b)
    PROVE  Call(t, s0)
<1> DEFINE i == Imported(Current(s0), b)
           s == Prepared(i, b)
           r == Scaling(s, b)
           wanted == [prog |-> "scale", image |-> Target(s, b)]
<1>1. t \in Ends(Dispatched(r, wanted), b)
  BY DEF Filled
<1>2. Call(i, s0) /\ Calm(i)
  <2>1. Call(Current(s0), s0)
    BY CurrentSteps
  <2>2. Call(i, Current(s0))
    BY <2>1, ImportedSteps DEF Call
  <2> HIDE DEF i
  <2> QED BY <2>1, <2>2, CallThenCall DEF Call
<1> HIDE DEF i
<1>3. Call(s, i) /\ Calm(s) /\ Aimed(s, b) /\ Target(s, b) \in Texs
  BY <1>2, PreparedAims, TextureNames DEF Call
<1> HIDE DEF s
<1>4. Kin(r, s) /\ Calm(r) /\ r.gl.prog = "scale" /\ r.gl.image = Target(s, b)
  BY <1>3, ScalingBinds
<1> HIDE DEF r
<1>5. \A f \in DOMAIN wanted : r.gl[f] = wanted[f]
  BY <1>4
<1>6. Aimed(r, b) /\ Call(r, s)
  BY <1>3, <1>4, KinStep DEF Kin, SameRest, SamePool, Aimed
<1> HIDE DEF wanted
<1>7. Dispatched(r, wanted) = r
  BY <1>4, <1>5, DispatchedRight DEF Calm
<1>8. Call(t, r)
  BY <1>1, <1>4, <1>6, <1>7, EndsSteps
<1> QED BY <1>2, <1>3, <1>6, <1>8, CallThenCall

LEMMA CopiedSteps ==
    ASSUME NEW s0, Calm(s0), NEW a \in Bos, NEW b \in Bos, NEW release \in BOOLEAN,
           NEW t \in Copied(s0, a, b, release)
    PROVE  Call(t, s0)
<1> DEFINE i == Imported(Imported(Current(s0), a), b)
           s == Prepared(i, b)
           c == Scaling(s, b)
           r == OnUnit1(c, a)
           wanted == [prog |-> "scale", image |-> Target(s, b), u1 |-> a]
<1>1. PICK x \in Ends(Dispatched(r, wanted), b) : t = IF release THEN Released(x, a) ELSE x
  BY DEF Copied
<1>2. Call(i, s0) /\ Calm(i)
  <2>1. Call(Current(s0), s0)
    BY CurrentSteps
  <2>2. Call(Imported(Current(s0), a), Current(s0))
    BY <2>1, ImportedSteps DEF Call
  <2>3. Call(i, Imported(Current(s0), a))
    BY <2>2, ImportedSteps DEF Call
  <2> HIDE DEF i
  <2> QED BY <2>1, <2>2, <2>3, CallThenCall DEF Call
<1> HIDE DEF i
<1>3. Call(s, i) /\ Calm(s) /\ Aimed(s, b) /\ Target(s, b) \in Texs
  BY <1>2, PreparedAims, TextureNames DEF Call
<1> HIDE DEF s
<1>4. Kin(c, s) /\ Calm(c) /\ c.gl.prog = "scale" /\ c.gl.image = Target(s, b)
  BY <1>3, ScalingBinds
<1> HIDE DEF c
<1>5. Kin(r, c) /\ r.gl.u1 = a /\ r.gl.prog = "scale" /\ r.gl.image = Target(s, b)
  BY <1>4, OnUnit1Binds, TextureNames DEF Calm
<1> HIDE DEF r
<1>6. \A f \in DOMAIN wanted : r.gl[f] = wanted[f]
  BY <1>5
<1>7. Kin(r, s) /\ Call(r, s) /\ Calm(r)
  BY <1>3, <1>4, <1>5, KinKin, KinCalm, KinStep
<1>8. Aimed(r, b)
  BY <1>3, <1>7 DEF Kin, SameRest, SamePool, Aimed
<1> HIDE DEF wanted
<1>9. Dispatched(r, wanted) = r
  BY <1>6, <1>7, DispatchedRight DEF Calm
<1>10. Call(x, r)
  BY <1>1, <1>7, <1>8, <1>9, EndsSteps
<1>11. Call(t, x)
  BY <1>1, <1>10, ReleasedNoted, Stays DEF Call, Noted, SameRest, SamePictures
<1> QED BY <1>2, <1>3, <1>7, <1>10, <1>11, CallThenCall

LEMMA HalfSteps ==
    ASSUME NEW s, Calm(s), NEW size \in Nat
    PROVE  Call(Half(s, size), s) /\ SamePictures(Half(s, size), s)
<1> DEFINE t == Half(s, size)
           d == Deleted(s, HalfName)
<1>1. CASE s.half = size
  BY <1>1, Stays DEF Half, SamePictures
<1>2. CASE s.half # size
  <2>1. HalfName \notin Bos \cup Scratches
    BY NamesApart
  <2>2. Calm(d) /\ SameRest(d, s) /\ (BindingsTrue(s) => BindingsTrue(d))
    BY <2>1, DeletedNoted
  <2>3. t = [d EXCEPT !.half = size]
    BY <1>2 DEF Half
  <2> HIDE DEF d, t
  <2>4. t \in Machines /\ SameRest(t, d) /\ t.gl = d.gl /\ t.note = d.note
    BY <2>2, <2>3 DEF Calm, Machines, SameRest, SamePool, SameUniforms, SamePictures
  <2>5. FboTrue(t) /\ (BindingsTrue(d) => BindingsTrue(t))
    BY <2>2, <2>4 DEF Calm, FboTrue, BindingsTrue
  <2>6. Calm(t)
    BY <2>2, <2>4, <2>5, StillCalm
  <2> QED BY <2>2, <2>4, <2>5, <2>6 DEF Call, SameRest, SamePictures, t
<1> QED BY <1>1, <1>2

LEMMA BlurredSteps ==
    ASSUME NEW s0, Calm(s0), NEW b \in Bos, NEW place, Held(s0, place), NEW t \in Blurred(s0, b, place)
    PROVE  Call(t, s0)
<1> DEFINE i == Imported(Current(s0), b)
           u == Uploaded(i, place)
           s == Half(u, Size[b])
           k == Used(s, "kawase")
           l == OnImage(k, HalfName)
           down == OnUnit1(l, UploadName)
           reads == [prog |-> "kawase", image |-> HalfName, u1 |-> UploadName]
           p == Prepared(Seen(down, place, reads), b)
           m == OnImage(p, Target(p, b))
           up == OnUnit1(m, HalfName)
           writes == [prog |-> "kawase", image |-> Target(p, b), u1 |-> HalfName]
<1>1. t \in Ends(Dispatched(up, writes), b)
  BY DEF Blurred
<1>2. Call(i, s0) /\ Calm(i) /\ Held(i, place)
  <2>1. Call(Current(s0), s0)
    BY CurrentSteps
  <2>2. Call(i, Current(s0))
    BY <2>1, ImportedSteps DEF Call
  <2> HIDE DEF i
  <2> QED BY <2>1, <2>2, CallThenCall DEF Call, Held
<1> HIDE DEF i
<1>3. Call(u, i) /\ Calm(u) /\ u.up.pic = i.mem[place]
  BY <1>2, UploadedSteps DEF Call
<1> HIDE DEF u
<1>4. Size[b] \in Nat
  BY CacheAssumption
<1>5. Call(s, u) /\ Calm(s) /\ SamePictures(s, u) /\ s \in Machines
  BY <1>3, <1>4, HalfSteps DEF Call, Calm
<1> HIDE DEF s
<1>6. Kin(k, s) /\ k.gl.prog = "kawase" /\ k \in Machines
  BY <1>5, UsedBinds DEF Kin, Progs
<1> HIDE DEF k
<1>7. Kin(l, k) /\ l.gl.image = HalfName /\ l.gl.prog = "kawase" /\ l \in Machines
  BY <1>6, OnImageBinds, TextureNames DEF Kin
<1> HIDE DEF l
<1>8. /\ Kin(down, l) /\ down.gl.u1 = UploadName /\ down.gl.image = HalfName
      /\ down.gl.prog = "kawase"
  BY <1>7, OnUnit1Binds, TextureNames
<1> HIDE DEF down
<1>9. Kin(down, s) /\ Calm(down) /\ Call(down, s)
  BY <1>5, <1>6, <1>7, <1>8, KinKin, KinCalm, KinStep
<1>10. \A f \in DOMAIN reads : down.gl[f] = reads[f]
  BY <1>8
<1>11. down.up.pic = down.mem[place]
  BY <1>3, <1>5, <1>9 DEF Kin, SameRest, SamePictures, Call
<1> HIDE DEF reads
<1>12. Seen(down, place, reads) = down
  BY <1>9, <1>10, <1>11, SeenRight DEF Calm
<1>13. /\ Call(p, down) /\ Calm(p) /\ Aimed(p, b) /\ Target(p, b) \in Texs /\ p \in Machines
       /\ p.gl.prog = "kawase"
  BY <1>8, <1>9, <1>12, PreparedAims, TextureNames DEF Call, Calm
<1> HIDE DEF p
<1>14. Kin(m, p) /\ m.gl.image = Target(p, b) /\ m.gl.prog = "kawase" /\ m \in Machines
  BY <1>13, OnImageBinds DEF Kin
<1> HIDE DEF m
<1>15. Kin(up, m) /\ up.gl.u1 = HalfName /\ up.gl.image = Target(p, b) /\ up.gl.prog = "kawase"
  BY <1>14, OnUnit1Binds, TextureNames
<1> HIDE DEF up
<1>16. Kin(up, p) /\ Calm(up) /\ Call(up, p)
  BY <1>13, <1>14, <1>15, KinKin, KinCalm, KinStep
<1>17. \A f \in DOMAIN writes : up.gl[f] = writes[f]
  BY <1>15
<1>18. Aimed(up, b)
  BY <1>13, <1>16 DEF Kin, SameRest, SamePool, Aimed
<1> HIDE DEF writes
<1>19. Dispatched(up, writes) = up
  BY <1>16, <1>17, DispatchedRight DEF Calm
<1>20. Call(t, up)
  BY <1>1, <1>16, <1>18, <1>19, EndsSteps
<1> QED BY <1>2, <1>3, <1>5, <1>9, <1>13, <1>16, <1>20, CallThenCall

LEMMA DroppedSteps ==
    ASSUME NEW s0, Calm(s0)
    PROVE  Call(Dropped(s0), s0)
<1>1. CASE s0.up.size = Absent
  BY <1>1, Stays DEF Dropped
<1>2. CASE s0.up.size # Absent
  <2> DEFINE s == Current(s0)
             Not(x) == IF x = UploadName THEN None ELSE x
             n == [s.note EXCEPT !.old = Not(s.note.old), !.new = Not(s.note.new)]
             q == [s EXCEPT !.note = n]
             d == Deleted(q, UploadName)
             t == [d EXCEPT !.up = NoUpload]
  <2>1. Dropped(s0) = t
    BY <1>2 DEF Dropped
  <2>2. Call(s, s0) /\ Calm(s) /\ s \in Machines
    BY CurrentSteps DEF Call, Calm
  <2> HIDE DEF s
  <2>3. /\ n \in Notes /\ n.prog = s.note.prog /\ n.target = s.note.target
        /\ n.old = Not(s.note.old) /\ n.new = Not(s.note.new) /\ n.fbo = s.note.fbo
    BY <2>2, NamesApart, Fields DEF Notes
  <2>4. UploadName \notin Bos \cup Scratches /\ None \notin Bos \cup Scratches
    BY NamesApart
  <2> HIDE DEF n
  <2>5. q \in Machines /\ SameRest(q, s) /\ q.gl = s.gl /\ q.note = n
    BY <2>2, <2>3 DEF Machines, SameRest, SamePool, SameUniforms, SamePictures
  <2> HIDE DEF q
  <2>6. FboTrue(q) /\ (BindingsTrue(s) => BindingsTrue(q))
    BY <2>2, <2>3, <2>4, <2>5 DEF Calm, FboTrue, BindingsTrue
  <2>7. Calm(q)
    BY <2>2, <2>5, <2>6, StillCalm
  <2>8. Calm(d) /\ SameRest(d, q) /\ (BindingsTrue(q) => BindingsTrue(d))
    BY <2>4, <2>7, DeletedNoted
  <2> HIDE DEF d
  <2>9. NoUpload \in Uploads /\ ~NoUpload.fresh
    BY DEF NoUpload, Uploads, Absent
  <2> HIDE DEF NoUpload
  <2>10. /\ t \in Machines /\ SamePool(t, d) /\ SameUniforms(t, d) /\ t.gl = d.gl
         /\ t.note = d.note /\ t.up = NoUpload /\ t.mem = d.mem /\ t.shown = d.shown
         /\ t.frame = d.frame
    BY <2>8, <2>9 DEF Calm, Machines, SamePool, SameUniforms
  <2> HIDE DEF t
  <2>11. /\ FboTrue(t) /\ (BindingsTrue(d) => BindingsTrue(t)) /\ PoolTrue(t) /\ UniformsTrue(t)
         /\ PicturesTrue(t) /\ t.wrong = {}
    BY <2>8, <2>9, <2>10
       DEF Calm, FboTrue, BindingsTrue, PoolTrue, UniformsTrue, PicturesTrue, SamePool, SameUniforms
  <2>12. Call(t, d)
    BY <2>10, <2>11 DEF Calm, Call
  <2> QED BY <2>1, <2>2, <2>5, <2>6, <2>8, <2>12 DEF Call, SameRest, SamePictures
<1> QED BY <1>1, <1>2

-----------------------------------------------------------------------------
(* The calls. *)

LEMMA KeptNoted ==
    ASSUME NEW s, NEW results, NEW drop \in BOOLEAN, Kept(results, drop),
           Noted(s), \A x \in results : Call(x, s)
    PROVE  Noted(gc')
<1>1. PICK x \in results : gc' = IF drop THEN Dropped(x) ELSE x
  BY DEF Kept
<1>2. Call(x, s) /\ Calm(x)
  BY DEF Call
<1>3. Call(gc', x)
  BY <1>1, <1>2, DroppedSteps, Stays
<1> QED BY <1>2, <1>3 DEF Call, Noted

(* Pictures change in memory, and what was uploaded does not count any more. *)
Changed(s, mem, shown, frame) ==
    Bumped([s EXCEPT !.mem = mem, !.shown = shown, !.frame = frame])

LEMMA ChangedNoted ==
    ASSUME NEW s, Noted(s), NEW mem \in [Places -> Pictures \cup {None}],
           NEW shown \in Places \cup {None}, NEW frame \in Places \cup {None},
           shown # None => mem[shown] \in Pictures, frame # None => mem[frame] \in Pictures,
           shown = frame => shown = None,
           NEW t, t = Changed(s, mem, shown, frame)
    PROVE  Noted(t) /\ t.mem = mem /\ t.shown = shown /\ t.frame = frame
<1> DEFINE u == [s.up EXCEPT !.fresh = FALSE]
<1>1. s \in Machines /\ Calm(s) /\ BindingsTrue(s)
  BY DEF Noted, Calm
<1>2. u \in Uploads /\ ~u.fresh
  BY <1>1, Fields DEF Uploads
<1>3. t = [s EXCEPT !.mem = mem, !.shown = shown, !.frame = frame, !.bumped = TRUE, !.up = u]
  BY <1>1 DEF Changed, Bumped, Machines
<1> HIDE DEF u
<1>4. /\ t \in Machines /\ SamePool(t, s) /\ SameUniforms(t, s) /\ t.gl = s.gl /\ t.note = s.note
      /\ t.up = u /\ t.mem = mem /\ t.shown = shown /\ t.frame = frame
  BY <1>1, <1>2, <1>3 DEF Machines, SamePool, SameUniforms
<1>5. FboTrue(t) /\ BindingsTrue(t) /\ PoolTrue(t) /\ UniformsTrue(t) /\ t.wrong = {}
  BY <1>1, <1>4 DEF Calm, FboTrue, BindingsTrue, PoolTrue, UniformsTrue, SamePool, SameUniforms
<1>6. PicturesTrue(t)
  BY <1>2, <1>4 DEF PicturesTrue
<1> QED BY <1>4, <1>5, <1>6 DEF Noted, Calm

LEMMA ImageNoted ==
    ASSUME Noted(gc), NEW b \in Bos, NEW behind \in SUBSET Bos, NEW place \in Places,
           NEW pic \in Pictures, Image(b, behind, place, pic)
    PROVE  Noted(gc')
<1> DEFINE mem == [a \in Places |-> CASE a = place -> pic
                                      [] a = gc.shown -> None
                                      [] OTHER -> gc.mem[a]]
           s == Bumped([gc EXCEPT !.mem = mem, !.shown = place])
           blur == IF behind = {} THEN {s} ELSE UNION {Blurred(s, x, place) : x \in behind}
<1>1. place \notin {gc.shown, gc.frame} /\ Kept(UNION {Static(x, b, place) : x \in blur}, TRUE)
  BY DEF Image
<1>2. gc \in Machines /\ PicturesTrue(gc) /\ gc.mem \in [Places -> Pictures \cup {None}]
      /\ gc.frame \in Places \cup {None} /\ None \notin Places
  BY Fields, CacheAssumption DEF Noted, Calm
<1>3. mem \in [Places -> Pictures \cup {None}] /\ mem[place] = pic
  BY <1>1, <1>2
<1>4. gc.frame # None => mem[gc.frame] \in Pictures
  <2>1. CASE gc.frame # None
    <3>1. gc.frame # gc.shown /\ gc.frame # place /\ gc.frame \in Places
      BY <1>1, <1>2, <2>1 DEF PicturesTrue
    <3>2. mem[gc.frame] = gc.mem[gc.frame]
      BY <3>1
    <3> QED BY <2>1, <3>2, <1>2 DEF PicturesTrue
  <2> QED BY <2>1
<1> HIDE DEF mem
<1>5. [gc EXCEPT !.mem = mem, !.shown = place] = [gc EXCEPT !.mem = mem, !.shown = place, !.frame = gc.frame]
  BY <1>2 DEF Machines
<1>0. s = Changed(gc, mem, place, gc.frame)
  BY <1>5 DEF Changed
<1> HIDE DEF s
<1>6. Noted(s) /\ s.mem = mem /\ s.shown = place /\ s.frame = gc.frame
  <2>1. place \in Places \cup {None} /\ (place # None => mem[place] \in Pictures)
        /\ (place = gc.frame => place = None)
    BY <1>1, <1>3
  <2> QED BY <1>0, <1>2, <1>3, <1>4, <2>1, ChangedNoted
<1>7. Held(s, place) /\ Calm(s)
  BY <1>3, <1>6 DEF Held, Noted
<1>8. \A x \in blur : Call(x, s)
  BY <1>7, BlurredSteps, Stays
<1>9. \A y \in UNION {Static(x, b, place) : x \in blur} : Call(y, s)
  <2> TAKE y \in UNION {Static(x, b, place) : x \in blur}
  <2>1. PICK x \in blur : y \in Static(x, b, place)
    OBVIOUS
  <2> HIDE DEF blur
  <2>2. Call(x, s) /\ Calm(x) /\ Held(x, place)
    BY <1>7, <1>8 DEF Call, Held
  <2>3. Call(y, x)
    BY <2>1, <2>2, StaticSteps
  <2> QED BY <2>2, <2>3, CallThenCall
<1> HIDE DEF blur
<1> QED BY <1>1, <1>6, <1>9, KeptNoted

LEMMA FrameNoted ==
    ASSUME Noted(gc), NEW b \in Bos, NEW place \in Places, NEW pic \in Pictures,
           NEW alone \in BOOLEAN, Frame(b, place, pic, alone)
    PROVE  Noted(gc')
<1> DEFINE mem == [gc.mem EXCEPT ![place] = pic]
           q == [gc EXCEPT !.mem[place] = pic, !.frame = place]
           s == Bumped(q)
<1>1. place # gc.shown /\ Kept(Static(s, b, place), alone)
  BY DEF Frame
<1>2. gc \in Machines /\ PicturesTrue(gc) /\ gc.mem \in [Places -> Pictures \cup {None}]
      /\ gc.shown \in Places \cup {None} /\ None \notin Places
  BY Fields, CacheAssumption DEF Noted, Calm
<1>3. mem \in [Places -> Pictures \cup {None}] /\ mem[place] = pic
      /\ (gc.shown # None => mem[gc.shown] \in Pictures)
  BY <1>1, <1>2 DEF PicturesTrue
<1>4. q = [gc EXCEPT !.mem = mem, !.shown = gc.shown, !.frame = place]
  BY <1>2 DEF Machines
<1> HIDE DEF mem, q
<1>0. s = Changed(gc, mem, gc.shown, place)
  BY <1>4 DEF Changed
<1> HIDE DEF s
<1>5. Noted(s) /\ s.mem = mem /\ s.frame = place
  <2>1. place \in Places \cup {None} /\ (place # None => mem[place] \in Pictures)
        /\ (gc.shown = place => gc.shown = None)
    BY <1>1, <1>3
  <2> QED BY <1>0, <1>2, <1>3, <2>1, ChangedNoted
<1>6. Held(s, place) /\ Calm(s)
  BY <1>3, <1>5 DEF Held, Noted
<1>7. \A x \in Static(s, b, place) : Call(x, s)
  BY <1>6, StaticSteps
<1> QED BY <1>1, <1>5, <1>7, KeptNoted

LEMMA FramesEndNoted ==
    ASSUME Noted(gc), NEW drop \in BOOLEAN, FramesEnd(drop)
    PROVE  Noted(gc')
<1> DEFINE mem == [gc.mem EXCEPT ![gc.frame] = None]
           s == [gc EXCEPT !.frame = None, !.mem[gc.frame] = None]
<1>1. gc.frame # None /\ Kept({s}, drop)
  BY DEF FramesEnd
<1>2. gc \in Machines /\ PicturesTrue(gc) /\ gc.mem \in [Places -> Pictures \cup {None}]
      /\ gc.shown \in Places \cup {None} /\ gc.frame \in Places
  BY <1>1, Fields DEF Noted, Calm
<1>3. /\ mem \in [Places -> Pictures \cup {None}]
      /\ gc.shown # None => mem[gc.shown] = gc.mem[gc.shown]
  BY <1>1, <1>2 DEF PicturesTrue
<1>4. s = [gc EXCEPT !.frame = None, !.mem = mem]
  BY <1>2 DEF Machines
<1> HIDE DEF mem, s
<1>5. /\ s \in Machines /\ SamePool(s, gc) /\ SameUniforms(s, gc) /\ s.gl = gc.gl
      /\ s.note = gc.note /\ s.up = gc.up /\ s.mem = mem /\ s.shown = gc.shown /\ s.frame = None
  BY <1>2, <1>3, <1>4 DEF Machines, SamePool, SameUniforms
<1>6. FboTrue(s) /\ BindingsTrue(s) /\ PoolTrue(s) /\ UniformsTrue(s) /\ s.wrong = {}
  BY <1>5 DEF Noted, Calm, FboTrue, BindingsTrue, PoolTrue, UniformsTrue, SamePool, SameUniforms
<1>7. PicturesTrue(s)
  BY <1>2, <1>3, <1>5 DEF PicturesTrue
<1>8. Noted(s) /\ (\A x \in {s} : Call(x, s))
  BY <1>5, <1>6, <1>7, Stays DEF Noted, Calm
<1> QED BY <1>1, <1>8, KeptNoted

LEMMA DrawnAgainNoted ==
    ASSUME Noted(gc), NEW b \in Bos, NEW drop \in BOOLEAN,
           NEW place \in {gc.shown, gc.frame}, place # None, Kept(Static(gc, b, place), drop)
    PROVE  Noted(gc')
<1>1. Calm(gc) /\ gc \in Machines /\ PicturesTrue(gc)
  BY DEF Noted, Calm
<1>2. Held(gc, place)
  BY <1>1, Fields DEF PicturesTrue, Held
<1>3. \A x \in Static(gc, b, place) : Call(x, gc)
  BY <1>1, <1>2, StaticSteps
<1> QED BY <1>3, KeptNoted

LEMMA DisturbedCalm ==
    ASSUME NEW s, Calm(s)
    PROVE  Calm(Disturbed(s))
<1> DEFINE g == [s.gl EXCEPT !.prog = "scene", !.u1 = SceneName, !.u2 = SceneName, !.image = None]
           t == Disturbed(s)
<1>1. s \in Machines
  BY DEF Calm
<1>2. g \in GlStates /\ g.fbo = s.gl.fbo
  BY <1>1, NamesApart, Fields DEF GlStates, Progs
<1>3. t = [s EXCEPT !.gl = g, !.away = FALSE, !.scene = TRUE]
  BY DEF Disturbed
<1> HIDE DEF g, t
<1>4. t \in Machines /\ SameRest(t, s) /\ t.gl = g /\ t.note = s.note
  BY <1>1, <1>2, <1>3 DEF Machines, SameRest, SamePool, SameUniforms, SamePictures
<1>5. FboTrue(t)
  BY <1>2, <1>4 DEF Calm, FboTrue
<1> QED BY <1>4, <1>5, StillCalm DEF t

LEMMA SceneEndsNoted ==
    ASSUME Noted(gc), SceneEnds
    PROVE  Noted(gc')
<1> DEFINE d == Deleted(gc, SceneName)
           t == gc'
<1>1. SceneName \notin Bos \cup Scratches
  BY NamesApart
<1>2. Calm(d) /\ BindingsTrue(d)
  BY <1>1, DeletedNoted DEF Noted
<1>3. t = [d EXCEPT !.scene = FALSE, !.away = FALSE]
  BY DEF SceneEnds
<1> HIDE DEF d, t
<1>4. t \in Machines /\ SameRest(t, d) /\ t.gl = d.gl /\ t.note = d.note
  BY <1>2, <1>3 DEF Calm, Machines, SameRest, SamePool, SameUniforms, SamePictures
<1>5. FboTrue(t) /\ BindingsTrue(t)
  BY <1>2, <1>4 DEF Calm, FboTrue, BindingsTrue
<1> QED BY <1>2, <1>4, <1>5, StillCalm DEF Noted, t

LEMMA ShaderDrawsNoted ==
    ASSUME Noted(gc), ShaderDraws
    PROVE  Noted(gc')
<1> DEFINE t == gc'
<1>1. t = [gc EXCEPT !.away = TRUE] /\ gc \in Machines /\ Calm(gc)
  BY DEF ShaderDraws, Noted, Calm
<1> HIDE DEF t
<1>2. t \in Machines /\ SameRest(t, gc) /\ t.gl = gc.gl /\ t.note = gc.note
  BY <1>1 DEF Machines, SameRest, SamePool, SameUniforms, SamePictures
<1>3. FboTrue(t) /\ BindingsTrue(t)
  BY <1>2 DEF Noted, Calm, FboTrue, BindingsTrue
<1> QED BY <1>1, <1>2, <1>3, StillCalm DEF Noted, t

LEMMA CallNoted ==
    ASSUME Noted(gc), CacheCall
    PROVE  Noted(gc')
<1>1. Calm(gc)
  BY DEF Noted
<1>2. ASSUME NEW t \in Bos, NEW o \in Bos, NEW n \in Bos, NEW e \in Effects, NEW v \in Values,
             Transition(t, o, n, e, v)
      PROVE  Noted(gc')
  BY <1>2, TransitionNoted
<1>3. ASSUME NEW ok \in BOOLEAN, Compile(ok)
      PROVE  Noted(gc')
  BY <1>3, CompileNoted
<1>4. ASSUME NEW b \in Bos, NEW behind \in SUBSET Bos, NEW a \in Places, NEW p \in Pictures,
             Image(b, behind, a, p)
      PROVE  Noted(gc')
  BY <1>4, ImageNoted
<1>5. ASSUME NEW b \in Bos, NEW a \in Places, NEW p \in Pictures, NEW alone \in BOOLEAN,
             Frame(b, a, p, alone)
      PROVE  Noted(gc')
  BY <1>5, FrameNoted
<1>6. ASSUME NEW drop \in BOOLEAN, FramesEnd(drop)
      PROVE  Noted(gc')
  BY <1>6, FramesEndNoted
<1>7. ASSUME NEW b \in Bos, NEW alone \in BOOLEAN, Again(b, alone)
      PROVE  Noted(gc')
  BY <1>7, DrawnAgainNoted DEF Again
<1>8. ASSUME NEW a \in Bos, NEW b \in Bos, NEW release \in BOOLEAN, Copy(a, b, release)
      PROVE  Noted(gc')
  <2>1. \A x \in Copied(gc, a, b, release) : Call(x, gc)
    BY <1>1, CopiedSteps
  <2> QED BY <1>8, <2>1, KeptNoted DEF Copy
<1>9. ASSUME NEW b \in Bos, SameFrame(b)
      PROVE  Noted(gc')
  BY <1>9, DrawnAgainNoted DEF SameFrame
<1>10. ASSUME NEW b \in Bos, Fill(b)
       PROVE  Noted(gc')
  <2>1. \A x \in Filled(gc, b) : Call(x, gc)
    BY <1>1, FilledSteps
  <2> QED BY <1>10, <2>1, KeptNoted DEF Fill
<1>11. ASSUME NEW b \in Bos, Release(b)
       PROVE  Noted(gc')
  BY <1>1, <1>11, ReleasedNoted DEF Release
<1>12. SceneDraws => Noted(gc')
  BY <1>1, DisturbedCalm, InvalidatedNoted DEF SceneDraws
<1>13. ASSUME NEW a \in Bos, NEW b \in Bos, SceneStarts(a, b)
       PROVE  Noted(gc')
  <2>1. PICK r \in Copied(Disturbed(gc), a, b, FALSE) : gc' = Invalidated(r)
    BY <1>13 DEF SceneStarts
  <2>2. Call(r, Disturbed(gc))
    BY <1>1, <2>1, DisturbedCalm, CopiedSteps
  <2> QED BY <2>1, <2>2, InvalidatedNoted DEF Call
<1> QED BY <1>2, <1>3, <1>4, <1>5, <1>6, <1>7, <1>8, <1>9, <1>10, <1>11, <1>12, <1>13,
           SceneEndsNoted, ShaderDrawsNoted DEF CacheCall

LEMMA CacheInitNoted ==
    ASSUME CacheInit
    PROVE  Noted(gc)
<1> DEFINE g == [prog |-> None, image |-> None, u1 |-> None, u2 |-> None, fbo |-> None]
           u == [p \in Effects |-> [gl |-> Unset, last |-> Unset]]
           m == [a \in Places |-> None]
<1>1. g \in GlStates /\ Forgotten \in Notes
  BY NamesApart, ForgottenIsNote DEF GlStates, Progs
<1>2. NoUpload \in Uploads /\ ~NoUpload.fresh
  BY DEF NoUpload, Uploads, Absent
<1>3. u \in Uniforms /\ (\A p \in Effects : u[p].gl = u[p].last)
  BY DEF Uniforms
<1>4. m \in [Places -> Pictures \cup {None}]
  OBVIOUS
<1>5. << >> \in Seq(Nat) /\ Len(<< >>) = 0 /\ PoolSize \in Nat \ {0}
  BY CacheAssumption
<1>6. /\ gc.gl = g /\ gc.note = Forgotten /\ gc.up = NoUpload /\ gc.pool = << >> /\ gc.next = 0
      /\ gc.scratch = 0 /\ gc.unif = u /\ gc.mem = m /\ gc.shown = None /\ gc.frame = None
      /\ gc.wrong = {}
  BY DEF CacheInit, Absent
<1>7. gc \in Machines
  <2> HIDE DEF g, u, m
  <2>1. gc = [gl |-> g, note |-> Forgotten, away |-> FALSE, tex |-> {}, up |-> NoUpload,
              bumped |-> FALSE, half |-> 0, pool |-> << >>, next |-> 0, scratch |-> 0,
              valid |-> FALSE, custom |-> FALSE, unif |-> u, scene |-> FALSE, mem |-> m,
              shown |-> None, frame |-> None, wrong |-> {}]
    BY DEF CacheInit, Absent, g, u, m
  <2> QED BY <1>1, <1>2, <1>3, <1>4, <1>5, <2>1 DEF Machines
<1> HIDE DEF g, u, m
<1>8. FboTrue(gc) /\ BindingsTrue(gc)
  BY <1>6, ForgottenTrue
<1>9. PoolTrue(gc) /\ UniformsTrue(gc) /\ PicturesTrue(gc)
  BY <1>2, <1>3, <1>5, <1>6 DEF PoolTrue, UniformsTrue, PicturesTrue
<1> QED BY <1>6, <1>7, <1>8, <1>9 DEF Noted, Calm

(* Whatever calls are made, in whatever order, every dispatch finds what it is *)
(* meant to work on, although the engine binds, sets and uploads only what its *)
(* notes lack.                                                                 *)
THEOREM CachesSound == CacheSpec => []BoundAsWanted
<1>1. CacheInit => Noted(gc)
  BY CacheInitNoted
<1>2. Noted(gc) /\ [CacheNext]_cacheVars => Noted(gc)'
  <2> SUFFICES ASSUME Noted(gc), [CacheNext]_cacheVars
               PROVE  Noted(gc')
    OBVIOUS
  <2>1. CASE CacheNext
    BY <2>1, CallNoted DEF CacheNext
  <2>2. CASE UNCHANGED cacheVars
    BY <2>2 DEF cacheVars
  <2> QED BY <2>1, <2>2
<1>3. Noted(gc) => BoundAsWanted
  BY DEF Noted, Calm, BoundAsWanted
<1> QED BY <1>1, <1>2, <1>3, PTL DEF CacheSpec

=============================================================================
