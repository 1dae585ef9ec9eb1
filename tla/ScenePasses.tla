---------------------------- MODULE ScenePasses ----------------------------
(***************************************************************************)
(* A frame of a Workshop scene: its objects in order, each drawn straight   *)
(* to the frame or, if it has effects, through two textures of its own that *)
(* the passes of its effects read and draw in turn. Passes may also draw to *)
(* and read textures with names, of the effect or of the scene, and read    *)
(* what the frame shows so far. A picture is named for the pass that drew   *)
(* it and the pictures it was drawn from.                                   *)
(***************************************************************************)
EXTENDS Naturals, Sequences, FiniteSets, FiniteSetsExt, SequencesExt

CONSTANTS
    Scenes,    \* [size, objects]; size 0 is that of the output it is drawn for
    Widths,    \* the sizes of the outputs
    MaxNamed   \* how many targets of its own a scene has (WE_MAX_SCENE_RT_FBOS)

VARIABLE sn
sceneVars == <<sn>>

Picture(pass, of) == [pass |-> pass, of |-> of]
Stale == Picture(<<"stale">>, << >>)     \* of an earlier frame, or never drawn
Cut == Picture(<<"cut">>, << >>)         \* drawn or read with another size than the texture's
Nothing == Picture(<<"nothing">>, << >>) \* texture 0
Loaded(name) == Picture(<<name>>, << >>)

NoTarget == [size |-> 0, holds |-> Stale]

\* ensure_fbo_pair
Ensured(t, size) == IF t.size = size THEN t ELSE [size |-> size, holds |-> Stale]

Filled(t, size, picture) == [t EXCEPT !.holds = IF t.size = size THEN picture ELSE Cut]
Copied(t, size) == IF t.size = size THEN t.holds ELSE Cut

-----------------------------------------------------------------------------
(* What passes name *)

Frame == "frame"                          \* _rt_FullFrameBuffer
Previous == "previous"
Files == {"file"}

PassesOf(object) ==
    {object.base} \cup UNION {Range(object.effects[e].passes) : e \in DOMAIN object.effects}

Reads(pass) == Range(pass.paths) \cup {pass.binds[s] : s \in DOMAIN pass.binds}

\* scene_references_layer_composite (_rt_imageLayerComposite_<id>_a): by any pass of any
\* object, drawn or not
CompositeWanted(objects, o) ==
    \E object \in Range(objects) : \E pass \in PassesOf(object) :
        objects[o].composite \in Reads(pass) \cup {pass.target}

\* needs_full_fb_copy
CopiesFrame(object) ==
    object.copies \/ \E pass \in PassesOf(object) : Frame \in Reads(pass)

-----------------------------------------------------------------------------
(* A frame being drawn: f.screen, f.copy, f.named: the scene's targets in order of  *)
(* their creation; f.ping[o]: the two textures; f.own[o][e]: the effects' targets;   *)
(* f.spoilt: whether something was drawn that the frame does not account for.        *)

NamedAt(f, name) == SelectInSeq(f.named, LAMBDA n : n.name = name)

\* get_or_create_scene_rt_fbo
WithNamed(f, name, size) ==
    LET i == NamedAt(f, name)
    IN  CASE i # 0 -> [f EXCEPT !.named[i].tex = Ensured(@, size)]
          [] i = 0 /\ Len(f.named) < MaxNamed ->
                 [f EXCEPT !.named = Append(@, [name |-> name, tex |-> Ensured(NoTarget, size)])]
          [] OTHER -> [f EXCEPT !.spoilt = TRUE]

\* resolve_named_rt_tex
Resolved(f, own, name, prev) ==
    CASE name = Previous -> prev
      [] name = Frame -> IF f.copy.size # 0 THEN f.copy.holds ELSE f.screen.holds
      [] name \in Files -> Loaded(name)
      [] name \in DOMAIN own -> own[name].holds
      [] name \notin DOMAIN own /\ NamedAt(f, name) # 0 -> f.named[NamedAt(f, name)].tex.holds
      [] OTHER -> prev

\* bind_pass_uniforms: the first slot is the previous picture's, if there is one, and
\* what the effect binds comes before everything.
Inputs(f, own, pass, prev) ==
    [s \in DOMAIN pass.paths |->
        IF s \in DOMAIN pass.binds THEN Resolved(f, own, pass.binds[s], prev)
        ELSE IF s = 1 /\ prev # Nothing THEN prev ELSE Resolved(f, own, pass.paths[s], prev)]

Drawing(f, o, e, p, own, pass, prev) == Picture(<<o, e, p>>, Inputs(f, own, pass, prev))

\* A pass that draws: to a target of the effect, of the scene, or to the one of the
\* two textures that is not read.
PassDrawn(c, o, e, p, pass, size) ==
    LET own == c.f.own[o][e]
        f == IF pass.target \in {""} \cup DOMAIN own THEN c.f ELSE WithNamed(c.f, pass.target, size)
        i == NamedAt(f, pass.target)
        next == 3 - c.cur
        picture == Drawing(f, o, e, p, own, pass, f.ping[o][c.cur].holds)
    IN  CASE pass.target \in DOMAIN own -> [c EXCEPT !.f.own[o][e][pass.target].holds = picture]
          [] pass.target \notin DOMAIN own /\ i # 0 -> [c EXCEPT !.f = [f EXCEPT !.named[i].tex.holds = picture]]
          [] OTHER -> [f |-> [f EXCEPT !.ping[o][next] = Filled(@, size, picture),
                                       !.spoilt = @ \/ f.ping[o][next].size # size \/ pass.blends],
                       cur |-> next]

PassCopied(c, o, e, pass, size) ==
    LET own == c.f.own[o][e]
        from == c.f.ping[o][c.cur]
        picture == Copied(from, size)
        f == [WithNamed(c.f, pass.target, size) EXCEPT !.spoilt = @ \/ from.size # size]
        i == NamedAt(f, pass.target)
    IN  CASE pass.target = "" -> c
          [] pass.target \in DOMAIN own -> [c EXCEPT !.f.own[o][e][pass.target].holds = picture]
          [] pass.target \notin {""} \cup DOMAIN own /\ i # 0 ->
                 [c EXCEPT !.f = [f EXCEPT !.named[i].tex.holds = picture]]
          [] OTHER -> [c EXCEPT !.f = f]

PassDone(c, o, e, p, pass, size) ==
    CASE pass.command = "swap" -> [c EXCEPT !.cur = 3 - @]
      [] pass.command = "copy" -> PassCopied(c, o, e, pass, size)
      [] pass.command = "" /\ pass.works -> PassDrawn(c, o, e, p, pass, size)
      [] OTHER -> c

EffectDone(c, o, e, effect, size) ==
    LET own == [name \in DOMAIN effect.own |->
                   Ensured(c.f.own[o][e][name], Max({size \div effect.own[name], 1}))]
    IN  FoldLeft(LAMBDA d, p : PassDone(d, o, e, p, effect.passes[p], size),
                 [c EXCEPT !.f.own[o][e] = own], [p \in DOMAIN effect.passes |-> p])

-----------------------------------------------------------------------------
(* Objects *)

Onto(f, picture) == [f EXCEPT !.screen.holds.of = Append(@, picture)]

WithFrameCopied(f, object) ==
    IF CopiesFrame(object) THEN [f EXCEPT !.copy = [size |-> f.screen.size, holds |-> f.screen.holds]]
    ELSE f

DrawnStraight(f, o, object) ==
    Onto(f, Drawing(f, o, 0, 0, << >>, object.base, Nothing))

\* The second texture is made as large as the first was the first time.
WithPing(f, o, size) ==
    LET first == Ensured(f.ping[o][1], size)
        second == IF f.ping[o][2].size = 0 THEN Ensured(NoTarget, size) ELSE f.ping[o][2]
    IN  [f EXCEPT !.ping[o] = <<first, second>>]

\* The base pass into the first texture, and the effects that are shown.
Chained(f, o, object, shown, size) ==
    FoldLeft(LAMBDA c, e : IF <<o, e>> \in shown THEN EffectDone(c, o, e, object.effects[e], size) ELSE c,
             [f |-> [f EXCEPT !.ping[o][1] = Filled(@, size, Drawing(f, o, 0, 0, << >>, object.base, Nothing))],
              cur |-> 1],
             [e \in DOMAIN object.effects |-> e])

WithComposite(f, name, picture, size) ==
    LET g == WithNamed(f, name, size)
        i == NamedAt(g, name)
    IN  IF i = 0 THEN g ELSE [g EXCEPT !.named[i].tex.holds = Copied(picture, size)]

\* What the chain ends with is kept under the object's name if it is wanted, and shown.
ChainShown(f, o, last, object, size, objects) ==
    LET g == IF CompositeWanted(objects, o) THEN WithComposite(f, object.composite, last, size) ELSE f
    IN  [Onto(g, last.holds) EXCEPT !.ping[o][1].holds = Stale, !.ping[o][2].holds = Stale]

EndOfChain(c, o, object, size, objects) == ChainShown(c.f, o, c.f.ping[o][c.cur], object, size, objects)

DrawnThrough(f, o, object, shown, size, objects) ==
    EndOfChain(Chained(WithPing(f, o, size), o, object, shown, size), o, object, size, objects)

\* Effects that are drawn: shown, and with passes.
Active(object, o, shown) ==
    {e \in DOMAIN object.effects : <<o, e>> \in shown /\ object.effects[e].passes # << >>}

SizeOf(object, size) == IF object.size = 0 THEN size ELSE object.size

ObjectDrawn(f, o, object, shown, objects) ==
    LET g == WithFrameCopied(f, object)
    IN  CASE object.kind = "particles" -> Onto(f, Picture(<<o, 0, 0>>, <<Loaded("file")>>))
          [] object.kind = "image" /\ Active(object, o, shown) = {} -> DrawnStraight(g, o, object)
          [] object.kind = "image" /\ Active(object, o, shown) # {} ->
                 DrawnThrough(g, o, object, shown, SizeOf(object, f.screen.size), objects)
          [] OTHER -> f

\* At the end of a frame everything is of an earlier frame.
Aged(s) ==
    [s EXCEPT !.copy.holds = Stale,
              !.named = [i \in DOMAIN s.named |-> [s.named[i] EXCEPT !.tex.holds = Stale]],
              !.own = [o \in DOMAIN s.own |-> [e \in DOMAIN s.own[o] |->
                          [n \in DOMAIN s.own[o][e] |-> [s.own[o][e][n] EXCEPT !.holds = Stale]]]]]

\* render_scene_to_fbo: visible objects in order. objects: what the properties and the
\* scripts have made of the scene's.
FrameDrawn(s, objects, visible, shown, width) ==
    LET size == IF s.scene.size = 0 THEN width ELSE s.scene.size
        cleared == [Ensured(s.screen, size) EXCEPT !.holds = Picture(<<"screen">>, << >>)]
    IN  FoldLeft(LAMBDA f, o : IF o \in visible THEN ObjectDrawn(f, o, objects[o], shown, objects) ELSE f,
                 [s EXCEPT !.screen = cleared, !.spoilt = FALSE], [o \in DOMAIN objects |-> o])

-----------------------------------------------------------------------------
(* What a frame means: m.shown and m.before are the last two pictures of an object's *)
(* chain, m.names what has been drawn to a name, m.over what the frame shows so far. *)

Key(object, o, e, name) == IF e # 0 /\ name \in DOMAIN object.effects[e].own THEN <<o, e, name>> ELSE <<0, 0, name>>

MeantInput(m, object, o, e, name) ==
    LET key == Key(object, o, e, name)
    IN  CASE name = Previous -> m.shown
          [] name = Frame -> m.over
          [] name \in Files -> Loaded(name)
          [] OTHER -> IF key \in DOMAIN m.names THEN m.names[key] ELSE IF key[1] # 0 THEN Stale ELSE m.shown

MeantDrawing(m, object, o, e, p, pass) ==
    Picture(<<o, e, p>>,
        [s \in DOMAIN pass.paths |->
            IF s \in DOMAIN pass.binds THEN MeantInput(m, object, o, e, pass.binds[s])
            ELSE IF s = 1 /\ e # 0 THEN m.shown ELSE MeantInput(m, object, o, e, pass.paths[s])])

Named(m, key, picture) ==
    [m EXCEPT !.names = [n \in DOMAIN m.names \cup {key} |-> IF n = key THEN picture ELSE m.names[n]]]

MeantPass(m, object, o, e, p) ==
    LET pass == object.effects[e].passes[p]
        key == Key(object, o, e, pass.target)
        drawing == MeantDrawing(m, object, o, e, p, pass)
    IN  CASE pass.command = "swap" -> [m EXCEPT !.shown = m.before, !.before = m.shown]
          [] pass.command = "copy" /\ pass.target # "" -> Named(m, key, m.shown)
          [] pass.command = "" /\ pass.works /\ pass.target # "" -> Named(m, key, drawing)
          [] pass.command = "" /\ pass.works /\ pass.target = "" ->
                 [m EXCEPT !.shown = drawing, !.before = m.shown]
          [] OTHER -> m

MeantEffects(m, object, o, shown) ==
    LET effects == SelectSeq([e \in DOMAIN object.effects |-> e], LAMBDA e : <<o, e>> \in shown)
    IN  FoldLeft(LAMBDA n, e : FoldLeft(LAMBDA k, p : MeantPass(k, object, o, e, p), n,
                                        [p \in DOMAIN object.effects[e].passes |-> p]), m, effects)

MeantShown(m, object, composite) ==
    [(IF composite THEN Named(m, <<0, 0, object.composite>>, m.shown) ELSE m) EXCEPT
        !.over.of = Append(@, m.shown)]

MeantObject(m, o, objects, shown) ==
    LET object == objects[o]
        seed == MeantDrawing([m EXCEPT !.shown = Nothing], object, o, 0, 0, object.base)
    IN  CASE object.kind = "particles" -> [m EXCEPT !.over.of = Append(@, Picture(<<o, 0, 0>>, <<Loaded("file")>>))]
          [] object.kind = "image" ->
                 MeantShown(MeantEffects([m EXCEPT !.shown = seed, !.before = Stale], object, o, shown), object,
                            Active(object, o, shown) # {} /\ CompositeWanted(objects, o))
          [] OTHER -> m

MeantFrame(names, objects, visible, shown) ==
    FoldLeft(LAMBDA m, o : IF o \in visible THEN MeantObject(m, o, objects, shown) ELSE m,
             [shown |-> Nothing, before |-> Stale, over |-> Picture(<<"screen">>, << >>),
              names |-> [n \in names |-> Stale]], [o \in DOMAIN objects |-> o])

-----------------------------------------------------------------------------
SceneInit ==
    \E scene \in Scenes :
        sn = [scene |-> scene, screen |-> NoTarget, copy |-> NoTarget, named |-> << >>,
              ping |-> [o \in DOMAIN scene.objects |-> <<NoTarget, NoTarget>>],
              own |-> [o \in DOMAIN scene.objects |-> [e \in DOMAIN scene.objects[o].effects |->
                          [n \in DOMAIN scene.objects[o].effects[e].own |-> NoTarget]]],
              spoilt |-> FALSE, names |-> {}, meant |-> Stale]

\* we_scene_render_frame, after the properties and the scripts have decided what is
\* visible, which effects are shown and how large a scripted object is.
RenderFrame(visible, shown, sizes, width) ==
    LET objects == [o \in DOMAIN sn.scene.objects |-> [sn.scene.objects[o] EXCEPT !.size = sizes[o]]]
        meant == MeantFrame(sn.names, objects, visible, shown)
    IN  sn' = [Aged(FrameDrawn(sn, objects, visible, shown, width)) EXCEPT
                  !.names = DOMAIN meant.names, !.meant = meant.over]

SceneNext ==
    LET objects == sn.scene.objects
    IN  \E visible \in SUBSET DOMAIN objects, width \in Widths :
        \E shown \in SUBSET UNION {{<<o, e>> : e \in DOMAIN objects[o].effects} : o \in visible} :
        \E sizes \in {s \in [DOMAIN objects -> UNION {objects[o].sizes : o \in DOMAIN objects}] :
                         \A o \in DOMAIN objects : s[o] \in objects[o].sizes} :
            RenderFrame(visible, shown, sizes, width)

SceneSpec == SceneInit /\ [][SceneNext]_sceneVars

-----------------------------------------------------------------------------
\* Every frame shows the visible objects in their order, each through the passes of its
\* shown effects, every pass drawn from the picture before it, from what was last drawn
\* to the names it reads and from what the frame shows before its object: whichever
\* textures are shared, re-made, swapped or left from earlier frames (we_scene.c:2205).
\* Frames in which an object has changed its size, a pass blends onto what is left in a
\* texture, or the table of names is full are exempt.
FrameAsMeant ==
    ~sn.spoilt /\ Len(sn.named) < MaxNamed => sn.screen.holds = sn.meant
=============================================================================
