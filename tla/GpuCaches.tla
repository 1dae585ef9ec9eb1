------------------------------ MODULE GpuCaches ------------------------------
(***************************************************************************)
(* The compute engine's copies of GL state. To spare the driver it binds a  *)
(* program, an image or a texture, sets a uniform or uploads a picture only *)
(* when its own notes say that GL does not have it yet. Textures come and   *)
(* go under names GL reuses, Workshop scenes draw in the same GL context,   *)
(* and pictures change in place: each of these must spoil the right notes.  *)
(***************************************************************************)
EXTENDS Naturals, Sequences, FiniteSets

CONSTANTS
    Bos,          \* the buffers of outputs and transitions
    Size,         \* Size[b]: a buffer's dimensions
    Tiled,        \* the buffers that are written through a scratch texture and a framebuffer
    Effects,      \* the transitions' programs; "custom" is compiled from a client's text
    Values,       \* the values of a uniform
    PoolSize,     \* the scratch textures kept (4)
    ScratchName,  \* ScratchName[i]: the name of the i-th of them
    Places,       \* the addresses of pictures in memory
    Pictures,     \* what may be in them
    Extent,       \* Extent[p]: a picture's dimensions
    Calls         \* a bound: how many calls are followed

None == "none"
Gone == "gone"        \* a texture deleted while a framebuffer holds it
Unset == 0
Absent == 0

\* A texture's name is its owner's: what the owner deletes and makes again has the same
\* name, as GL reuses the numbers of what was deleted.
UploadName == "upload"
HalfName == "half"
SceneName == "scene"
OwnNames == {UploadName, HalfName, SceneName, Gone, None}
ScratchSlots == 1..PoolSize

ASSUME CacheAssumption ==
    /\ PoolSize \in Nat \ {0}
    /\ Tiled \subseteq Bos /\ Size \in [Bos -> Nat \ {0}]
    /\ Extent \in [Pictures -> Nat \ {0}]
    /\ Bos \cap OwnNames = {} /\ \A i \in ScratchSlots : ScratchName[i] \notin Bos \cup OwnNames
    /\ "fade" \in Effects /\ None \notin Effects \cup Places

VARIABLES gc,
          asked    \* how many calls were made
cacheVars == <<gc, asked>>

Forgotten == [prog |-> None, target |-> None, old |-> None, new |-> None, fbo |-> None]
NoUpload == [size |-> Absent, pic |-> None, place |-> None, fresh |-> FALSE]

\* gl: what GL has bound; note: what the engine believes; tex: the buffers that have a
\* texture; up: the texture pictures are uploaded to, what it holds, and from which
\* address; half: the size of the blur's small texture; pool: the sizes of the scratch
\* textures, scratch the one in use; unif[p]: a program's uniform and the engine's copy;
\* scene: whether a scene has textures; mem: the pictures in memory; shown: where the
\* one is that the daemon keeps to draw again; frame: where a decoder puts its frames;
\* wrong: what some dispatch did not find as it was meant to be.
CacheInit ==
    /\ gc = [gl |-> [prog |-> None, image |-> None, u1 |-> None, u2 |-> None, fbo |-> None],
          note |-> Forgotten, away |-> FALSE, tex |-> {}, up |-> NoUpload, bumped |-> FALSE,
          half |-> Absent, pool |-> << >>, next |-> 0, scratch |-> Absent, valid |-> FALSE,
          custom |-> FALSE, unif |-> [p \in Effects |-> [gl |-> Unset, last |-> Unset]],
          scene |-> FALSE, mem |-> [a \in Places |-> None], shown |-> None,
          frame |-> None, wrong |-> {}]
    /\ asked = 0

-----------------------------------------------------------------------------
\* GL: a deleted texture leaves the units of the context.
Deleted(s, n) ==
    LET Off(x) == IF x = n THEN None ELSE x
    IN  [s EXCEPT !.gl = [@ EXCEPT !.image = Off(s.gl.image), !.u1 = Off(s.gl.u1),
                                   !.u2 = Off(s.gl.u2),
                                   !.fbo = IF s.gl.fbo = n THEN Gone ELSE s.gl.fbo]]

\* gpu_compute_invalidate_state_cache
Invalidated(s) == [s EXCEPT !.note = Forgotten]

\* The engine's context is made current; if another was, nothing is believed.
Current(s) == [(IF s.away THEN Invalidated(s) ELSE s) EXCEPT !.away = FALSE]

\* gpu_compute_import_bo
Imported(s, b) ==
    IF b \in s.tex THEN s
    ELSE [s EXCEPT !.tex = @ \cup {b}, !.note = [Forgotten EXCEPT !.prog = s.note.prog]]

\* gpu_compute_release_bo: the framebuffer lets go of the texture if it is noted there.
Detached(s, b) == IF s.note.fbo = b THEN [s EXCEPT !.gl.fbo = None] ELSE s
Released(s, b) ==
    LET d == IF b \in s.tex THEN Deleted(Detached(s, b), b) ELSE s
    IN  [Invalidated(d) EXCEPT !.tex = @ \ {b}, !.away = FALSE]

\* ensure_10bit_scratch_target: a scratch texture of the buffer's size; when none has it,
\* the next one in turn is made anew.
Slot(s) == (s.next % PoolSize) + 1
Refilled(s, size) ==
    IF Slot(s) \in DOMAIN s.pool THEN [s.pool EXCEPT ![Slot(s)] = size] ELSE Append(s.pool, size)
Emptied(s) == IF Slot(s) \in DOMAIN s.pool THEN Deleted(s, ScratchName[Slot(s)]) ELSE s
Scratch(s, size) ==
    LET has == {i \in DOMAIN s.pool : s.pool[i] = size}
    IN  IF s.scratch # Absent /\ s.pool[s.scratch] = size THEN s
        ELSE IF has # {} THEN [s EXCEPT !.scratch = CHOOSE i \in has : \A j \in has : i <= j]
        ELSE [Emptied(s) EXCEPT !.pool = Refilled(s, size), !.next = Slot(s) % PoolSize,
                                !.scratch = Slot(s), !.note.target = None]

\* What the program writes to: the buffer, or a scratch texture that is copied to it.
Prepared(s, b) == IF b \in Tiled THEN Scratch(s, Size[b]) ELSE s
Target(s, b) == IF b \in Tiled THEN ScratchName[s.scratch] ELSE b

\* A dispatch: what GL has is compared with what the program is meant to work on.
Dispatched(s, wanted) ==
    [s EXCEPT !.wrong = @ \cup {f \in DOMAIN wanted : s.gl[f] # wanted[f]}]

\* blit_scratch_to_10bit_bo, when the framebuffer does.
Blitted(s, b) ==
    IF b \notin Tiled THEN s
    ELSE LET r == [s EXCEPT !.gl = [@ EXCEPT !.fbo = IF s.note.fbo = b THEN s.gl.fbo ELSE b, !.prog = "blit"],
                            !.note = [@ EXCEPT !.fbo = b, !.prog = "blit", !.target = None],
                            !.valid = TRUE]
         IN  [Dispatched(r, [fbo |-> b]) EXCEPT
                !.wrong = @ \cup IF s.pool[s.scratch] = Size[b] THEN {} ELSE {"size"}]

\* The first time the framebuffer is looked at, and may not do: the call fails.
Refused(s, b) == [s EXCEPT !.gl.fbo = b, !.note.fbo = None]
MayRefuse(s, b) == b \in Tiled /\ ~s.valid /\ s.note.fbo # b

\* After the program: the copy to a tiled buffer, and the picture is waited for.
Ends(s, b) == {Blitted(s, b)} \cup IF MayRefuse(s, b) THEN {Refused(s, b)} ELSE {}

-----------------------------------------------------------------------------
Used(s, prog) == [s EXCEPT !.gl.prog = prog, !.note.prog = prog]
OnImage(s, t) == [s EXCEPT !.gl.image = t, !.note.target = t]
OnUnit1(s, t) == [s EXCEPT !.gl.u1 = t, !.note.old = t]
OnUnit2(s, t) == [s EXCEPT !.gl.u2 = t, !.note.new = t]

\* select_transition_program: a custom program that was not compiled is a fade.
Program(s, e) == IF e = "custom" /\ ~s.custom THEN "fade" ELSE e

\* A program's uniform is set when it differs from what it was last set to.
Given(s, p, v) == IF s.unif[p].last = v THEN s ELSE [s EXCEPT !.unif[p] = [gl |-> v, last |-> v]]

\* gpu_compute_dispatch_transition: each binding only when the notes lack it.
Transition(t, o, n, e, v) ==
    LET i == Imported(Imported(Imported(Current(gc), t), o), n)
        s == Prepared(i, t)
        dst == Target(s, t)
        p == Program(s, e)
        a == IF s.note.prog = p THEN s ELSE Used(s, p)
        b == IF a.note.target = dst THEN a ELSE OnImage(a, dst)
        c == IF b.note.old = o THEN b ELSE OnUnit1(b, o)
        d == IF c.note.new = n THEN c ELSE OnUnit2(c, n)
        r == Given(d, p, v)
        done == [Dispatched(r, [prog |-> p, image |-> dst, u1 |-> o, u2 |-> n]) EXCEPT
                   !.wrong = @ \cup IF r.unif[p].gl = v THEN {} ELSE {"uniform"}]
    IN  gc' \in Ends(done, t)

\* gpu_compute_load_custom_shader
Compile(ok) ==
    gc' = [gc EXCEPT !.away = FALSE, !.custom = ok, !.note.prog = None,
                     !.gl.prog = IF @ = "custom" THEN None ELSE @,
                     !.unif["custom"] = IF ok THEN [gl |-> Unset, last |-> Unset] ELSE @]

-----------------------------------------------------------------------------
\* upload_source_rgba_dedup: the picture at an address, unless it has it already.
Uploaded(s, place) ==
    LET size == Extent[s.mem[place]]
        r == IF s.up.size # size
             THEN [Deleted(s, UploadName) EXCEPT !.up = [NoUpload EXCEPT !.size = size]]
             ELSE s
    IN  IF r.bumped /\ r.up.fresh /\ r.up.place = place THEN r
        ELSE [r EXCEPT !.up = [@ EXCEPT !.pic = r.mem[place], !.place = place, !.fresh = TRUE]]

\* What a program that reads the uploaded picture finds.
Seen(s, place, wanted) ==
    [Dispatched(s, wanted) EXCEPT
       !.wrong = @ \cup IF s.up.pic = s.mem[place] THEN {} ELSE {"picture"}]

\* gpu_compute_upload_static: a picture, scaled to a buffer, or a colour alone.
Scaling(s, b) == OnImage(Used(s, "scale"), Target(s, b))
Static(s0, b, place) ==
    LET s == Prepared(Uploaded(Imported(Current(s0), b), place), b)
        r == OnUnit1(Scaling(s, b), UploadName)
    IN  Ends(Seen(r, place, [prog |-> "scale", image |-> Target(s, b), u1 |-> UploadName]), b)
Filled(s0, b) ==
    LET s == Prepared(Imported(Current(s0), b), b)
    IN  Ends(Dispatched(Scaling(s, b), [prog |-> "scale", image |-> Target(s, b)]), b)

\* gpu_compute_scale_bo: one buffer scaled to another, and forgotten if asked to.
Copied(s0, a, b, release) ==
    LET s == Prepared(Imported(Imported(Current(s0), a), b), b)
        r == OnUnit1(Scaling(s, b), a)
        done == Dispatched(r, [prog |-> "scale", image |-> Target(s, b), u1 |-> a])
    IN  {IF release THEN Released(x, a) ELSE x : x \in Ends(done, b)}

\* ensure_kawase_half_tex
Half(s, size) ==
    IF s.half = size THEN s ELSE [Deleted(s, HalfName) EXCEPT !.half = size]

\* gpu_compute_render_kawase_blur: down into the small texture, up into the buffer.
Blurred(s0, b, place) ==
    LET s == Half(Uploaded(Imported(Current(s0), b), place), Size[b])
        down == OnUnit1(OnImage(Used(s, "kawase"), HalfName), UploadName)
        p == Prepared(Seen(down, place, [prog |-> "kawase", image |-> HalfName, u1 |-> UploadName]), b)
        up == OnUnit1(OnImage(p, Target(p, b)), HalfName)
    IN  Ends(Dispatched(up, [prog |-> "kawase", image |-> Target(p, b), u1 |-> HalfName]), b)

\* gpu_compute_bump_upload_gen: what was uploaded before does not count any more.
Bumped(s) == [s EXCEPT !.bumped = TRUE, !.up.fresh = FALSE]

\* gpu_compute_release_upload_cache
Dropped(s0) ==
    IF s0.up.size = Absent THEN s0
    ELSE LET s == Current(s0)
             Not(x) == IF x = UploadName THEN None ELSE x
         IN  [Deleted([s EXCEPT !.note = [@ EXCEPT !.old = Not(s.note.old), !.new = Not(s.note.new)]], UploadName) EXCEPT
                !.up = NoUpload]

-----------------------------------------------------------------------------
\* What the caller of a call that may fail is left with.
Kept(results, drop) == gc' \in {IF drop THEN Dropped(x) ELSE x : x \in results}

\* daemon_start_image_transition: a new picture for a buffer, a blurred one behind. The
\* one kept to be drawn again is freed when the new one takes its place.
Image(b, behind, place, pic) ==
    /\ place \notin {gc.shown, gc.frame}
    /\ LET s == Bumped([gc EXCEPT !.mem = [a \in Places |-> CASE a = place -> pic
                                                           [] a = gc.shown -> None
                                                           [] OTHER -> gc.mem[a]],
                                   !.shown = place])
           blur == IF behind = {} THEN {s} ELSE UNION {Blurred(s, x, place) : x \in behind}
       IN  Kept(UNION {Static(x, b, place) : x \in blur}, TRUE)

\* daemon_anim_dispatch_frame, and a frame of the software decoder: the picture is put
\* where the one before was. With one output what was uploaded is not kept.
Frame(b, place, pic, alone) ==
    /\ place # gc.shown /\ gc.frame \in {None, place}
    /\ LET s == [gc EXCEPT !.mem[place] = pic, !.frame = place]
       IN  Kept(Static(Bumped(s), b, place), alone)

\* The decoder is closed; with an animation's end nothing uploaded is kept.
FramesEnd(drop) ==
    gc.frame # None /\ Kept({[gc EXCEPT !.frame = None, !.mem[gc.frame] = None]}, drop)

\* The picture kept is drawn again on an output that was configured anew.
Again(b, alone) == gc.shown # None /\ Kept(Static(gc, b, gc.shown), alone)

\* The same frame for the next output, and video_engine_snapshot_output.
SameFrame(b) == gc.frame # None /\ Kept(Static(gc, b, gc.frame), FALSE)

Fill(b) == Kept(Filled(gc, b), FALSE)
Copy(a, b, release) == a # b /\ Kept(Copied(gc, a, b, release), FALSE)
Release(b) == gc' = Released(gc, b)

\* A shader engine draws in a context of its own.
ShaderDraws == gc' = [gc EXCEPT !.away = TRUE]

\* A Workshop scene uses the units, the programs and names of textures of this context.
Disturbed(s) ==
    [s EXCEPT !.gl = [@ EXCEPT !.prog = "scene", !.u1 = SceneName, !.u2 = SceneName, !.image = None],
              !.away = FALSE, !.scene = TRUE]

\* Seeded fault: what the scene bound is not forgotten.
SceneDrawsUntold == gc' = Disturbed(gc)

\* daemon_shader_render_once
SceneDraws == gc' = Invalidated(Disturbed(gc))

\* daemon_start_workshop: between the scenes of two outputs the second one's picture is kept.
SceneStarts(a, b) ==
    /\ a # b /\ ~gc.scene
    /\ \E r \in Copied(Disturbed(gc), a, b, FALSE) : gc' = Invalidated(r)

\* we_scene_destroy
SceneEnds == gc.scene /\ gc' = [Deleted(gc, SceneName) EXCEPT !.scene = FALSE, !.away = FALSE]

CacheCall ==
    \/ \E t, o, n \in Bos, e \in Effects, v \in Values : Transition(t, o, n, e, v)
    \/ \E ok \in BOOLEAN : Compile(ok)
    \/ \E b \in Bos, behind \in SUBSET Bos, a \in Places, p \in Pictures :
          Cardinality(behind) <= 1 /\ Image(b, behind, a, p)
    \/ \E b \in Bos, a \in Places, p \in Pictures, alone \in BOOLEAN : Frame(b, a, p, alone)
    \/ \E drop \in BOOLEAN : FramesEnd(drop)
    \/ \E b \in Bos, alone \in BOOLEAN : Again(b, alone)
    \/ \E a, b \in Bos, release \in BOOLEAN : Copy(a, b, release)
    \/ \E b \in Bos : SameFrame(b) \/ Fill(b)
    \/ \E b \in Bos : Release(b)
    \/ ShaderDraws \/ SceneDraws \/ SceneEnds
    \/ \E a, b \in Bos : SceneStarts(a, b)

CacheNext == asked < Calls /\ asked' = asked + 1 /\ CacheCall

CacheSpec == CacheInit /\ [][CacheNext]_cacheVars

-----------------------------------------------------------------------------
\* Every dispatch finds in GL the program, the image, the textures, the framebuffer and
\* the uniform it is meant to work with, and the picture that is in memory now,
\* although the engine binds, sets and uploads only what its notes lack.
BoundAsWanted == gc.wrong = {}
=============================================================================
