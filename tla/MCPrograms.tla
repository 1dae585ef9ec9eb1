----------------------------- MODULE MCPrograms -----------------------------
(* What draws: the rows of the CPU's effects, the passes of shader files and  *)
(* of scenes, the memory of scenes' scripts and what they do to layers, and   *)
(* the textures of the GPU's buffers; and what plays, of MCMedia.  Each        *)
(* behaviour is one of the parts and `it' is the state of that part, so that  *)
(* their state spaces add up.                                                 *)
EXTENDS MCMedia

CONSTANTS e1, e2

-----------------------------------------------------------------------------
(* The effects of the CPU: rows of nine pixels *)
W == 9
Still == [x \in 0..W-1 |-> 0]
Swaying == [x \in 0..W-1 |-> IF x % 3 = 0 THEN 1 ELSE IF x % 3 = 1 THEN 0 ELSE -1]

Band(type, margin, sway) ==
    [type : {type}, base : -3..9, d : -2..2, p : -2..8, edge : {2}, margin : {margin},
     sway : {sway}]
Shoves ==
    [type : {"slide"}, base : {-3, 0, 4, 9}, d : -2..2, p : -2..8, edge : {2}, margin : {2},
     sway : {Still}, shiftOld : {-3, 0, 4}, shiftNew : {-2, 5}]
Rounds ==
    [type : {"grow", "outer", "ripple"}, cx : -2..10, dy2 : {0, 1, 4, 9, 16}, r : -2..9,
     edge : {2}]
Cubes ==
    {[type |-> "cube", front |-> <<a, b>>, right |-> <<b, c>>, height |-> h,
      depth |-> [x \in 0..W-1 |-> IF x < b THEN b - x ELSE x - b + 1]] :
        a \in 0..3, b \in 3..6, c \in 6..9, h \in 0..5}
Grains ==
    [type : {"noise", "burn", "luma"}, p : 0..4, edge : {1},
     grain : {[x \in 0..W-1 |-> (x * 5) % 4], [x \in 0..W-1 |-> (x * x) % 5],
              [x \in 0..W-1 |-> x]}]
Others ==
    [type : {"pixelate"}, size : 1..10]
    \cup [type : {"doom"}, size : {4}, y : 0..2, fall : [0..2 -> 0..2]]
    \cup [type : {"glitch"}, size : {3, 4}, jitter : -2..2]
    \cup [type : {"crosszoom"}, cx : 0..8, zoom : 0..2]
    \cup [type : {"curl"}, p : -5..9, edge : {2}, curl : {1}]
    \cup [type : {"swirl", "leak"}, cx : -3..12, reach : 0..6]
MCFrames == Band("wipe", 2, Still) \cup Band("wave", 3, Swaying) \cup Shoves
            \cup Rounds \cup Cubes \cup Grains \cup Others

Rows == INSTANCE CpuEffects WITH fx <- it, Lanes <- 4, Frames <- MCFrames

-----------------------------------------------------------------------------
(* Shader files *)
Common == "common"
Image == "image"
MCBufs == <<"A", "B">>
S(p) == [type |-> "section", pass |-> p]
Good == [type |-> "code", good |-> TRUE]
Bad == [type |-> "code", good |-> FALSE]
M(p, c) == [type |-> "macro", pass |-> p, comment |-> c]
Ch(p, c, f) == [type |-> "channel", pass |-> p, channel |-> c, from |-> f]
Rate(p) == [type |-> "rate", pass |-> p]
MCTexts == <<
  <<Good>>,
  <<Good, Ch(Common, 0, "A"), S("A"), Ch(Common, 1, "B"), Rate(Common), Good, S("B"), Good, S(Image), Good>>,
  <<S(Common), Good, S("A"), Good, S("B"), Bad, S(Image), Good>>,
  <<Good, M("A", FALSE), M("B", TRUE), Ch("A", 0, "A"), Ch(Image, 0, "A"), Ch(Image, 1, "B")>>,
  <<Ch(Common, 0, "art"), Ch(Common, 1, "A"), Rate("A"), S("A"), Good, S(Common), Good, S("B"), Good>>,
  <<S("A"), Good, S(Image), Bad>>,
  <<Good>> >>
Names == <<"f1", "f2", "f3", "f4", "f5", "f6", "depth">>
MCText == [n \in {Names[i] : i \in 1 .. 7} |-> MCTexts[CHOOSE i \in 1 .. 7 : Names[i] = n]]
MCFiles == {Names[i] : i \in 1 .. 6}

Passes == INSTANCE ShaderPasses WITH sp <- it,
    Bufs <- MCBufs, Channels <- {0, 1}, Files <- MCFiles, Text <- MCText

-----------------------------------------------------------------------------
(* Scenes: an object with effects that draws to targets and reads the frame, among     *)
(* others; and objects whose size scripts change, whose passes swap, copy and blend    *)
Pass(command, target, paths, binds) ==
    [command |-> command, target |-> target, paths |-> paths, binds |-> binds,
     works |-> TRUE, blends |-> FALSE]
ADraw == Pass("", "", <<"">>, << >>)
Layer(sizes, base, effects, composite) ==
    [kind |-> "image", size |-> CHOOSE n \in sizes : TRUE, sizes |-> sizes, copies |-> FALSE,
     base |-> Pass("", "", base, << >>), effects |-> effects, composite |-> composite]
SceneOfLayers ==
    [size |-> 4, objects |-> <<
        [Layer({2}, <<"file">>, << >>, "c1") EXCEPT !.copies = TRUE],
        Layer({0}, <<"file">>,
            << [own |-> [h |-> 2], passes |-> <<Pass("", "h", <<"">>, << >>), ADraw, Pass("", "", <<"", "">>, 2 :> "h")>>],
               [own |-> << >>, passes |-> <<Pass("", "", <<"", "", "">>, (2 :> "h") @@ (3 :> "frame"))>>] >>, "c2"),
        [Layer({2}, <<"file">>, << >>, "c3") EXCEPT !.kind = "particles"],
        Layer({2}, <<"c2", "frame">>, << >>, "c4") >>]
SceneOfChains ==
    [size |-> 0, objects |-> <<
        Layer({2, 4}, <<"file">>,
            << [own |-> << >>, passes |-> <<ADraw, ADraw, Pass("swap", "", << >>, << >>), ADraw, Pass("copy", "k", << >>, << >>)>>],
               [own |-> << >>, passes |-> <<[ADraw EXCEPT !.blends = TRUE]>>] >>, "c1"),
        Layer({2}, <<"k">>,
            << [own |-> [n |-> 1], passes |-> <<Pass("copy", "n", << >>, << >>), Pass("", "m", <<"", "k">>, << >>), [ADraw EXCEPT !.works = FALSE],
                                                Pass("", "", <<"", "n", "m">>, 1 :> "m")>>]>>, "c2") >>]
Scene == INSTANCE ScenePasses WITH sn <- it, Scenes <- {SceneOfLayers, SceneOfChains},
    Widths <- {2, 4}, MaxNamed <- 3

-----------------------------------------------------------------------------
(* Scripts: room for everything, and little of each sort *)
Room(arena, scratch, forwards, depth, items, statements) ==
    [arena |-> arena, scratch |-> scratch, forwards |-> forwards, depth |-> depth,
     items |-> items, statements |-> statements,
     makes |-> {<<1, "arr">>, <<1, "obj">>, <<2, "str">>, <<2, "vec">>}]
Heap == INSTANCE ScriptHeap WITH vm <- it,
    Limits <- {Room(20, 12, 8, 5, 4, 4), Room(20, 3, 8, 5, 4, 3), Room(20, 12, 1, 5, 4, 3),
               Room(20, 12, 8, 1, 4, 3), Room(7, 12, 8, 5, 1, 3)}

(* Scripts of two layers that know each other, and of a second layer beyond the slots *)
Script(target, has) == [target |-> target, has |-> has]
LayersOfTwo ==
    [slots |-> 2, layers |-> <<
        [bound |-> TRUE, scripts |-> <<Script("alpha", {"init", "update"})>>],
        [bound |-> TRUE, scripts |-> <<Script("origin", {"move", "update"}), Script("none", {"apply", "update"})>>]>>]
LayersOfOne ==
    [slots |-> 1, layers |-> <<
        [bound |-> TRUE, scripts |-> << >>],
        [bound |-> TRUE, scripts |-> <<Script("none", {"update"}), Script("origin", {"apply", "update"})>>]>>]
To(place, from) == [to |-> place, from |-> from, cmd |-> "none"]
Shared == <<0, "shared">>
Do(n, cmd) == [to |-> <<n, "sound">>, from |-> Shared, cmd |-> cmd]
Alpha(n) == <<n, "alpha">>
Origin(n) == <<n, "origin">>
Value == <<0, "value">>
Return == <<0, "return">>
Statements ==
    {To(Alpha(0), Alpha(0)), To(Alpha(1), Alpha(0)), To(Alpha(0), Alpha(1)), To(Alpha(2), Origin(1)),
     To(Origin(2), Shared), To(Origin(0), Alpha(2)), To(Shared, Alpha(2)), To(Value, Origin(0)),
     To(Return, Alpha(1)), Do(0, "play"), Do(2, "pause"), Do(0, "stop")}
LastStatements == {To(Alpha(1), Alpha(0)), To(Origin(2), Shared), To(Return, Value), Do(1, "stop")}
Layers == INSTANCE LayerScripts WITH ls <- it, Scenes <- {LayersOfTwo, LayersOfOne},
    Bodies <- {<< >>} \cup (Statements \X LastStatements), Base <- 2, MaxCalls <- 3

-----------------------------------------------------------------------------
(* Textures *)
Homes == <<e1, e1, e2>>
Tex == INSTANCE Textures WITH tx <- it,
    Shaders <- {e1, e2}, Buffers <- {1, 2, 3}, Kept4Fade <- {2}, Home <- Homes,
    TableSize <- 4, Alike <- {{<< <<"compute", 3>>, <<e1, 1>> >>}}

-----------------------------------------------------------------------------
ProgramsInit ==
    \/ part = "effects" /\ Rows!EffectInit
    \/ part = "shaders" /\ Passes!ShaderInit
    \/ part = "scenes" /\ Scene!SceneInit
    \/ part = "scripts" /\ Heap!HeapInit
    \/ part = "layers" /\ Layers!LayersInit
    \/ part = "textures" /\ Tex!TexInit

ProgramsNext ==
    /\ UNCHANGED part
    /\ \/ part = "effects" /\ Rows!EffectNext
       \/ part = "shaders" /\ Passes!ShaderNext
       \/ part = "scenes" /\ Scene!SceneNext
       \/ part = "scripts" /\ Heap!HeapNext
       \/ part = "layers" /\ Layers!LayersNext
       \/ part = "textures" /\ Tex!TexNext

ContentInit == MediaInit \/ ProgramsInit
ContentNext == MediaNext \/ ProgramsNext
ContentSpec == ContentInit /\ [][ContentNext]_mediaVars

\* Each row of each effect of the CPU, however the code splits it into runs, vector steps
\* and single pixels, holds at every pixel what the effect's formula says, and
\* nothing is read or written beside the row (cpu_transitions.c).
RowsAsMeant == part = "effects" => Rows!RowsAsMeant

\* A shader file's passes are built from the sections it has, whatever file was shown
\* before or fails to load in between, each frame draws every pass once in their
\* order, and each channel reads the texture the file names (shader_engine.c). A frame
\* of a scene shows its objects through the passes of their effects, each drawn from the
\* picture before it, whatever textures they share (we_scene.c:2205). And no engine draws
\* with a texture of a buffer that has been destroyed or replaced (shader_engine.c:2417).
PassesAsWritten ==
    /\ part = "shaders" => Passes!ShaderAsWritten
    /\ part = "scenes" => Scene!FrameAsMeant
    /\ part = "textures" => Tex!TexturesOwned

\* After any callbacks a script's variables have the values its statements gave them, what
\* was one thing is still one, and nothing refers to memory that was given back, although
\* what they hold is copied out and in after each callback (we_script.c:3543). And each
\* layer has what was last written to it, although scripts write to copies (we_scene_parse.c:628).
ScriptsKeepTheirs ==
    /\ part = "scripts" => Heap!ScriptsKeepTheirs
    /\ part = "layers" => Layers!WritesArrive
=============================================================================
