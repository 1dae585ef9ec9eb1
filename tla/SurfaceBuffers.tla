--------------------------- MODULE SurfaceBuffers ---------------------------
(***************************************************************************)
(* The buffers of one output's surface (layer_shell.c, dmabuf_alloc.c): a  *)
(* ring of dma-bufs with a busy flag each, two halves of shared memory with *)
(* a released flag each, and the transition that draws into them while the *)
(* compositor reads, holds and gives back what was committed before.        *)
(*                                                                         *)
(* The compositor is external: it takes commits in order from the wire,    *)
(* keeps what it shows and anything it still scans out, and tells when it  *)
(* has done with a buffer; the daemon hears of it later.  Of the pictures  *)
(* it matters which buffer holds the one committed last.                    *)
(***************************************************************************)
EXTENDS Compaction

CONSTANTS
    RingSize,   \* WAYWAL_DMABUF_RING_SIZE
    Sizes,      \* the sizes an output may have; 0 stands for none
    MaxFrames,  \* frames of a transition
    MaxWire     \* bound: commits and releases on their way

ASSUME SurfaceAssumption ==
    /\ RingSize \in Nat \ {0}
    /\ 0 \notin Sizes
    /\ MaxFrames \in Nat \ {0} /\ MaxWire \in Nat \ {0}

VARIABLES
    surf,     \* the output's buffers as the daemon and the compositor have them
    gpu,      \* does the machine have dma-bufs that work
    video     \* does the global video engine play, here or on another output

surfVars == <<surf, gpu, video>>

Slots == 0..RingSize - 1
Halves == {0, 1}
Bufs == ({"ring"} \X Slots) \cup ({"shm"} \X Halves)
NoBuf == <<"gone", 0>>      \* a destroyed buffer, or none

NoSlot == RingSize     \* last_committed_ring_idx = -1

SurfInit ==
    /\ surf = [role |-> "none", size |-> 0,
               ringSize |-> 0,                          \* 0: use_dmabuf is false
               busy |-> [i \in Slots |-> FALSE], next |-> 0,
               shmSize |-> 0,                           \* 0: nothing mapped
               active |-> 0, released |-> [h \in Halves |-> TRUE],
               kept |-> {},                             \* halves with their pages
               last |-> NoSlot, hasImage |-> FALSE,
               left |-> 0,                              \* transition frames to draw
               front |-> NoBuf,                         \* committed last
               wire |-> << >>, news |-> << >>,          \* commits out, releases in
               held |-> {}, top |-> NoBuf]              \* the compositor's
    /\ gpu \in BOOLEAN
    /\ video = FALSE

-----------------------------------------------------------------------------
\* Steps of a handler, as functions of the record.

\* Destroyed buffers: the compositor's messages about them go nowhere.
Forget(s, gone) ==
    [s EXCEPT !.wire = [i \in DOMAIN @ |-> IF @[i] \in gone THEN NoBuf ELSE @[i]],
              !.news = Compact(@, gone),
              !.held = @ \ gone,
              !.top = IF @ \in gone THEN NoBuf ELSE @,
              !.front = IF @ \in gone THEN NoBuf ELSE @,
              !.kept = {h \in @ : <<"shm", h>> \notin gone}]

\* teardown_output_dmabuf.
Teardown(s) ==
    [Forget(s, {"ring"} \X Slots) EXCEPT
        !.ringSize = 0, !.busy = [i \in Slots |-> FALSE], !.next = 0, !.last = NoSlot]

\* ensure_dmabuf_ring: keep a ring of the right size, else make one, if that works.
EnsureRing(s) ==
    IF s.ringSize = s.size THEN s
    ELSE IF gpu THEN [Teardown(s) EXCEPT !.ringSize = s.size]
    ELSE Teardown(s)

\* ensure_shm_buffer: the same for the two halves; a new mapping is blank.
EnsureShm(s) ==
    IF s.shmSize = s.size THEN s
    ELSE [Forget(s, {"shm"} \X Halves) EXCEPT
             !.shmSize = s.size, !.active = 0, !.released = [h \in Halves |-> TRUE]]

\* Seeded fault: the search takes the next slot without looking at its flag.
AcquireNext(s) == [slot |-> s.next, s |-> [s EXCEPT !.next = (@ + 1) % RingSize,
                                                    !.busy[s.next] = TRUE]]

\* dmabuf_ring_acquire: the first slot from `next` on that is not busy, NoSlot if none.
Acquire(s) ==
    LET free == {k \in Slots : ~s.busy[(s.next + k) % RingSize]}
        k == CHOOSE k \in free : \A j \in free : k <= j
        slot == (s.next + k) % RingSize
    IN  IF free = {} THEN [slot |-> NoSlot, s |-> s]
        ELSE [slot |-> slot, s |-> [s EXCEPT !.next = (slot + 1) % RingSize,
                                             !.busy[slot] = TRUE]]

\* Draw into a buffer and commit it; it is what is seen until the next commit.
Commit(s, b) == [s EXCEPT !.front = b, !.wire = Append(@, b)]

CommitRing(s, i) == [Commit(s, <<"ring", i>>) EXCEPT !.last = i]

\* MADV_REMOVE of the half that is not shown, once it was given back.
DropInactive(s) ==
    IF s.released[1 - s.active] THEN [s EXCEPT !.kept = @ \ {1 - s.active}] ELSE s

\* The shared-memory path draws over the other half, given back or not.
CommitShm(s) ==
    LET back == 1 - s.active
    IN  [Commit(s, <<"shm", back>>) EXCEPT
            !.released[back] = FALSE, !.active = back, !.kept = @ \cup {back}]

ShmPath(s) == DropInactive(CommitShm(EnsureShm(s)))

\* The dma-buf path if there is a ring and a free buffer in it, else shared memory.
Paint(s, uploads) ==
    LET r == EnsureRing(s)
        a == Acquire(r)
    IN  IF r.ringSize = 0 \/ a.slot = NoSlot THEN ShmPath(r)
        ELSE IF uploads THEN CommitRing(a.s, a.slot)
        ELSE ShmPath(Teardown(a.s))

\* No transition runs (any more).
Still(s) == [s EXCEPT !.left = 0]

\* output_node_render_image and output_node_render_color; a single-pixel buffer needs
\* neither ring nor memory.
RenderImage(s, uploads) ==
    IF s.role # "ready" THEN s
    ELSE [Still(Paint(s, uploads)) EXCEPT !.hasImage = TRUE]

RenderColor(s, single, uploads) ==
    IF s.role # "ready" THEN s
    ELSE [Still(IF single THEN [s EXCEPT !.last = NoSlot, !.front = NoBuf,
                                         !.wire = Append(@, NoBuf)]
                ELSE Paint(s, uploads)) EXCEPT !.hasImage = FALSE]

\* layer_shell_snapshot_live_output copies aside the ring buffer committed last.
Snapshots(s) == s.ringSize # 0 /\ s.last # NoSlot

\* What daemon_start_image_transition sets up: a snapshot to lead from, dma-bufs if they
\* work, else the staging memory, and the number of frames.
Begin(s, uploads) ==
    LET t == IF Snapshots(s) THEN [s EXCEPT !.hasImage = TRUE, !.last = NoSlot] ELSE s
        r == EnsureRing(t)
    IN  IF r.ringSize # 0 /\ uploads THEN [r EXCEPT !.left = MaxFrames]
        ELSE [EnsureShm(Teardown(t)) EXCEPT !.left = MaxFrames]

\* One output's share of transition_engine_step: skip the tick while no buffer is free,
\* give up when the size has changed, else draw the next frame.
EndOfTransition(s) ==
    IF s.left > 0 THEN s ELSE Still(IF s.ringSize = 0 THEN DropInactive(s) ELSE s)

\* Seeded fault: a frame that could not be drawn keeps its buffer.
StepLeaky(s, works) ==
    LET a == Acquire(s)
        abort == Still(s)
        Next(u) == EndOfTransition([u EXCEPT !.left = @ - 1, !.hasImage = TRUE])
    IN  IF s.left = 0 THEN s
        ELSE IF s.ringSize # 0
        THEN IF s.ringSize # s.size THEN abort
             ELSE IF a.slot = NoSlot THEN s
             ELSE IF works THEN Next(CommitRing(a.s, a.slot))
             ELSE a.s
        ELSE IF s.shmSize # s.size THEN abort
        ELSE IF s.released[1 - s.active] /\ works THEN Next(CommitShm(s))
        ELSE s

Step(s, works) ==
    LET a == Acquire(s)
        abort == Still(s)
        Next(u) == EndOfTransition([u EXCEPT !.left = @ - 1, !.hasImage = TRUE])
    IN  IF s.left = 0 THEN s
        ELSE IF s.ringSize # 0
        THEN IF s.ringSize # s.size THEN abort
             ELSE IF a.slot = NoSlot THEN s
             ELSE IF works THEN Next(CommitRing(a.s, a.slot))
             ELSE [a.s EXCEPT !.busy[a.slot] = FALSE]
        ELSE IF s.shmSize # s.size THEN abort
        ELSE IF s.released[1 - s.active] /\ works THEN Next(CommitShm(s))
        ELSE s

-----------------------------------------------------------------------------
\* The daemon's handlers.

Wired == Len(surf.wire) + Len(surf.news) < MaxWire
Drawing == surf.role = "ready" /\ Wired /\ UNCHANGED <<gpu, video>>

\* output_node_create_surface.
CreateSurface ==
    /\ surf.role = "none"
    /\ surf' = [surf EXCEPT !.role = "new"]
    /\ UNCHANGED <<gpu, video>>

\* layer_surface_configure: the first one paints the colour; a later one repaints when
\* the size has changed and nothing moves.
Configure(size, single, uploads) ==
    LET s == [surf EXCEPT !.role = "ready", !.size = size]
        still == surf.left = 0 /\ ~video
    IN  /\ surf.role # "none" /\ Wired
        /\ surf' = IF surf.role = "new" THEN RenderColor(s, single, uploads)
                   ELSE IF size = surf.size \/ ~still THEN s
                   ELSE IF surf.hasImage THEN RenderImage(s, uploads)
                   ELSE RenderColor(s, single, uploads)
        /\ UNCHANGED <<gpu, video>>

\* layer_surface_closed, and the removal of the output: output_node_destroy_surface.
Closed ==
    /\ surf.role # "none"
    /\ surf' = [Still(Forget(Teardown(surf), {"shm"} \X Halves)) EXCEPT
                  !.role = "none", !.shmSize = 0,
                  !.released = [h \in Halves |-> TRUE],
                  !.wire = << >>, !.news = << >>, !.held = {}, !.top = NoBuf]
    /\ UNCHANGED <<gpu, video>>

\* A wallpaper without a transition.
ShowImage(uploads) ==
    /\ Drawing
    /\ surf' = RenderImage(surf, uploads)

ShowColor(single, uploads) ==
    /\ Drawing
    /\ surf' = RenderColor(surf, single, uploads)

\* A wallpaper with one: daemon_start_image_transition and its first frame.
StartTransition(uploads, works) ==
    /\ Drawing
    /\ surf' = Step(Begin(surf, uploads), works)

\* transition_engine_dispatch_tick.
Tick(works) ==
    /\ surf.left > 0 /\ Wired
    /\ surf' = Step(surf, works)
    /\ UNCHANGED <<gpu, video>>

\* dmabuf_release_handler and shm_buffer_release: the flag, and the pages of a half that
\* is not needed any more.
ReleaseHeard ==
    LET b == Head(surf.news)
        t == [surf EXCEPT !.news = Tail(@)]
        u == [t EXCEPT !.released[b[2]] = TRUE]
    IN  /\ surf.news # << >>
        /\ surf' = IF b[1] = "ring" THEN [t EXCEPT !.busy[b[2]] = FALSE]
                   ELSE IF surf.left = 0 /\ (b[2] # surf.active \/ video)
                   THEN [u EXCEPT !.kept = @ \ {b[2]}]
                   ELSE u
        /\ UNCHANGED <<gpu, video>>

\* The global video engine starts or stops, on this output or on others.
Video ==
    /\ video' = ~video
    /\ UNCHANGED <<surf, gpu>>

-----------------------------------------------------------------------------
\* The compositor.

\* It applies the next commit and reads the buffer from now on.
Apply ==
    /\ surf.wire # << >>
    /\ LET b == Head(surf.wire)
       IN  surf' = [surf EXCEPT !.wire = Tail(@), !.top = b,
                                !.held = IF b = NoBuf THEN @ ELSE @ \cup {b}]
    /\ UNCHANGED <<gpu, video>>

\* It has done with a buffer: with one it does not show any more, and with shared memory
\* once it has copied it.
GiveBack(b) ==
    /\ b \in surf.held
    /\ b[1] = "ring" => b # surf.top
    /\ Len(surf.news) < MaxWire
    /\ surf' = [surf EXCEPT !.held = @ \ {b}, !.news = Append(@, b)]
    /\ UNCHANGED <<gpu, video>>

SurfNext ==
    \/ CreateSurface \/ Closed \/ ReleaseHeard \/ Video \/ Apply
    \/ \E single, uploads \in BOOLEAN :
          \/ \E size \in Sizes : Configure(size, single, uploads)
          \/ ShowColor(single, uploads)
    \/ \E uploads \in BOOLEAN :
          \/ ShowImage(uploads)
          \/ \E works \in BOOLEAN : StartTransition(uploads, works)
    \/ \E works \in BOOLEAN : Tick(works)
    \/ \E b \in Bufs : GiveBack(b)

SurfSpec == SurfInit /\ [][SurfNext]_surfVars

-----------------------------------------------------------------------------

InUse(s) == s.held \cup {s.wire[i] : i \in DOMAIN s.wire}

\* The buffer a step draws into and commits, if any.
Drawn == IF Len(surf'.wire) > Len(surf.wire) THEN {surf'.wire[Len(surf'.wire)]} ELSE {}

\* A busy flag is set only as long as the compositor will clear it: every failed upload or
\* transition frame takes its flag back, so the ring never runs dry for good.
NoLeakedBuffer ==
    \A i \in Slots : surf.busy[i] =>
        LET b == <<"ring", i>>
        IN  b \in InUse(surf) \/ \E k \in DOMAIN surf.news : surf.news[k] = b

FrontLost(s) == s.front[1] = "shm" /\ s.front[2] \notin s.kept

\* Drawing disturbs nothing that is seen or needed.
\* - "Quad buffering for tear-free async transition presentation" (dmabuf.h:23): nothing
\*   is drawn into a ring buffer that the compositor reads or is about to read, however
\*   late its releases are heard and whatever failed before.
\* - The half of the shared memory that was shown last keeps its picture, from which the
\*   next transition starts, through all orders of releases, steps and repaints; only a
\*   release heard while a video plays may drop it.
RingUntouched ==
    [][surf'.ringSize = surf.ringSize =>
          Drawn \cap InUse(surf) \cap ({"ring"} \X Slots) = {}]_surfVars
FrontKept ==
    [][FrontLost(surf') => video \/ FrontLost(surf)]_surfVars
ScreenKept == RingUntouched /\ FrontKept
=============================================================================
