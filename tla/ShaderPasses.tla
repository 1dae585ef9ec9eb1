---------------------------- MODULE ShaderPasses ----------------------------
(***************************************************************************)
(* A shader: how the daemon makes the passes of one file, follows the file  *)
(* when it is edited, and draws its frames: the buffer passes in order, each *)
(* into the one of its two textures that nobody reads, then the image.      *)
(***************************************************************************)
EXTENDS Naturals, Sequences, FiniteSets, FiniteSetsExt, SequencesExt

CONSTANTS
    Bufs,     \* the buffer passes in the order they are drawn (A to D)
    Channels, \* the inputs of a pass (0 to 3)
    Files,    \* what the shader's file may hold
    Text      \* Text[f]: its tokens

VARIABLE sp
shaderVars == <<sp>>

Image == "image"
Common == "common"
Order == Append(Bufs, Image)
Passes == Range(Order)
Buffers == Range(Bufs)

-----------------------------------------------------------------------------
(* The passes of a file *)

Sections(f) == {Text[f][i].pass : i \in {n \in DOMAIN Text[f] : Text[f][n].type = "section"}}

\* detect_active_passes: a buffer is drawn if it has a section or if a preprocessor line
\* outside comments names it.
ActivePasses(f) ==
    {Image} \cup (Sections(f) \ {Common})
      \cup {Text[f][i].pass : i \in {n \in DOMAIN Text[f] : Text[f][n].type = "macro" /\ ~Text[f][n].comment}}

\* The section a token is in: that of the last marker before it.
SectionAt(f, i) ==
    LET marks == {n \in 1 .. i : Text[f][n].type = "section"}
    IN  IF marks = {} THEN Common ELSE Text[f][Max(marks)].pass

\* waywal_shader_wrap_pass_source: common lines go to every pass, the others to theirs.
Lines(f, p) == {i \in DOMAIN Text[f] : Text[f][i].type = "code" /\ SectionAt(f, i) \in {Common, p}}

Compiles(f, p) == \A i \in Lines(f, p) : Text[f][i].good

\* A directive is about the pass it names, or about those of its section.
AboutPass(f, i, p) ==
    LET to == IF Text[f][i].pass = Common THEN SectionAt(f, i) ELSE Text[f][i].pass
    IN  to \in {Common, p}

\* parse_shader_channel_directives: the last directive about a pass counts.
Binding(f, p, c) ==
    LET said == {i \in DOMAIN Text[f] : Text[f][i].type = "channel" /\ Text[f][i].channel = c /\ AboutPass(f, i, p)}
    IN  IF said = {} THEN "audio" ELSE Text[f][Max(said)].from

Slow(f, p) == \E i \in DOMAIN Text[f] : Text[f][i].type = "rate" /\ p \in Buffers /\ AboutPass(f, i, p)

NoPass == [on |-> FALSE, lines |-> {}, from |-> [c \in Channels |-> "audio"], slow |-> FALSE,
           tex |-> << >>, read |-> 1]

PassOf(f, p) ==
    [NoPass EXCEPT !.on = p \in ActivePasses(f), !.lines = Lines(f, p),
                   !.from = [c \in Channels |-> Binding(f, p, c)], !.slow = Slow(f, p)]

\* The passes before one that does not compile were made and are thrown away.
Broken(f) == {p \in ActivePasses(f) : ~Compiles(f, p)}

-----------------------------------------------------------------------------
None == "none"
Depth == "depth"       \* the built-in shader over a picture and its depths

\* disk: what the file holds; changed: the directory's watch has an event; hand: what
\* a load has read of the file and not yet followed; shown: the file whose passes run.
ShaderInit ==
    sp = [disk |-> None, changed |-> FALSE, watched |-> FALSE, hand |-> None, raced |-> FALSE,
          shown |-> None, pass |-> [p \in Passes |-> NoPass], first |-> TRUE,
          have |-> {}, drawn |-> {}, since |-> {}, seen |-> [p \in Passes |-> << >>]]

\* waywal_shader_engine_load_source
Loaded(s, f) ==
    IF Broken(f) # {} THEN s
    ELSE [s EXCEPT !.pass = [p \in Passes |-> PassOf(f, p)], !.shown = f, !.first = TRUE,
                   !.drawn = {}, !.since = {}, !.seen = [p \in Passes |-> << >>]]

\* The file is written, replaced or taken away by its author.
Edit(f) ==
    /\ f # sp.disk
    /\ sp' = [sp EXCEPT !.disk = f, !.changed = @ \/ sp.watched,
                        !.raced = @ \/ sp.hand # None]

\* waywal_shader_engine_load_file: the file is read, then watched, then made.
LoadFile ==
    /\ sp.hand = None /\ sp.disk # None
    /\ sp' = [sp EXCEPT !.hand = sp.disk, !.raced = FALSE]

LoadOn ==
    /\ sp.hand # None
    /\ sp' = Loaded([sp EXCEPT !.watched = TRUE, !.hand = None], sp.hand)

\* load_depth_parallax_internal: a built-in shader over two pictures; no file is watched.
LoadDepth(works) ==
    /\ sp.hand = None
    /\ LET s == [sp EXCEPT !.watched = FALSE, !.have = @ \cup {"wallpaper", "depth"}]
           r == Loaded(s, Depth)
       IN  sp' = IF ~works THEN s
                 ELSE [r EXCEPT !.pass[Image].from =
                         [c \in Channels |-> IF c = 0 THEN "wallpaper" ELSE IF c = 1 THEN "depth" ELSE "audio"]]

\* waywal_shader_engine_set_wallpaper, waywal_shader_engine_set_album_art
SetPicture(name) == sp.hand = None /\ sp' = [sp EXCEPT !.have = @ \cup {name}]

\* waywal_shader_engine_poll_hot_reload
HotReload ==
    /\ sp.hand = None /\ sp.changed /\ sp.watched
    /\ LET s == [sp EXCEPT !.changed = FALSE, !.raced = FALSE]
       IN  sp' = IF sp.disk = None THEN s ELSE Loaded(s, sp.disk)

-----------------------------------------------------------------------------
(* A frame *)

Zeros == <<"zeros", "zeros">>

\* ensure_pass_ping_pong_textures
WithTextures(q, resized) ==
    IF q.tex # << >> /\ ~resized THEN q ELSE [q EXCEPT !.tex = Zeros, !.read = 1]

\* resolve_channel_texture: what an input shows, and what is shown in its place.
Shows(s, from) ==
    CASE from \in Buffers /\ s.pass[from].on /\ s.pass[from].tex # << >> ->
              <<from, s.pass[from].tex[s.pass[from].read]>>
      [] from = "art" /\ from \notin s.have /\ "wallpaper" \in s.have -> <<"wallpaper">>
      [] from \in s.have \cup {"noise", "picture"} -> <<from>>
      [] OTHER -> <<"audio">>

\* Seeded fault: the texture that was drawn is not the one read from then on.
DrawnUnread(s, p) ==
    LET q == s.pass[p]
    IN  [s EXCEPT !.seen[p] = [c \in Channels |-> Shows(s, q.from[c])], !.drawn = @ \cup {p},
                  !.pass[p].tex = IF p = Image THEN @
                                  ELSE [n \in 1 .. 2 |-> IF n # q.read THEN "now" ELSE @[n]]]

Drawn(s, p) ==
    LET q == s.pass[p]
        other == 3 - q.read
    IN  [s EXCEPT !.seen[p] = [c \in Channels |-> Shows(s, q.from[c])], !.drawn = @ \cup {p},
                  !.pass[p].tex = IF p = Image THEN @
                                  ELSE [n \in 1 .. 2 |-> IF n = other THEN "now"
                                                         ELSE IF @[n] = "last" THEN "older" ELSE @[n]],
                  !.pass[p].read = IF p = Image THEN @ ELSE other]

Aged(q) == [q EXCEPT !.tex = [n \in 1 .. 2 |-> IF @[n] = "now" THEN "last" ELSE @[n]]]

\* waywal_shader_engine_render_frame: what is resized starts from nothing, a slow buffer
\* is left out of some frames but not of the first.
RenderFrame(resized, early) ==
    /\ sp.hand = None /\ sp.pass[Image].on
    /\ LET old == sp.pass
           Anew(p) == old[p].tex = << >> \/ resized
           drawn == {p \in Buffers : old[p].on}
           s == [sp EXCEPT !.first = FALSE, !.drawn = {},
                           !.since = {p \in drawn \cap (@ \cup sp.drawn) : ~Anew(p)},
                           !.seen = [p \in Passes |-> << >>],
                           !.pass = [p \in Passes |-> IF p \in drawn THEN Aged(WithTextures(old[p], resized))
                                                      ELSE old[p]]]
           Skipped(p) == p \in early /\ old[p].slow /\ ~Anew(p) /\ ~sp.first
       IN  sp' = FoldLeft(LAMBDA r, p : IF ~old[p].on \/ Skipped(p) THEN r ELSE Drawn(r, p), s, Order)

\* waywal_shader_engine_release_scratch: a shader that is not seen gives its textures up.
ReleaseScratch ==
    /\ sp.hand = None
    /\ sp' = [sp EXCEPT !.pass = [p \in Passes |-> [@[p] EXCEPT !.tex = << >>, !.read = 1]],
                        !.since = {}, !.drawn = {}, !.seen = [p \in Passes |-> << >>]]

ShaderNext ==
    \/ \E f \in Files \cup {None} : Edit(f)
    \/ LoadFile \/ LoadOn \/ HotReload \/ ReleaseScratch
    \/ \E works \in BOOLEAN : LoadDepth(works)
    \/ \E name \in {"wallpaper", "art"} : SetPicture(name)
    \/ \E resized \in BOOLEAN, early \in SUBSET {p \in Buffers : sp.pass[p].slow} : RenderFrame(resized, early)

ShaderSpec == ShaderInit /\ [][ShaderNext]_shaderVars

-----------------------------------------------------------------------------
\* Once the daemon has heard of every change, the passes are those of the file as it is,
\* unless the file cannot be read or does not compile; a file that changes while it is
\* loaded is heard of only with the next change.
FollowsTheFile ==
    sp.watched /\ ~sp.changed /\ ~sp.raced /\ sp.hand = None /\ sp.disk # None
      /\ Broken(sp.disk) = {} => sp.shown = sp.disk

\* All the passes are of one file, and each has the lines before the first marker, those
\* of every common section and those of its own.
PassesOfOneFile ==
    sp.shown \notin {None, Depth} =>
        LET f == sp.shown
            First == Min({i \in DOMAIN Text[f] : Text[f][i].type = "section"} \cup {Len(Text[f]) + 1})
            Own(p) == {i \in DOMAIN Text[f] : Text[f][i].type = "code" /\
                          (i < First \/ \E m \in First .. i : Text[f][m].type = "section" /\ Text[f][m].pass \in {Common, p}
                                          /\ \A n \in (m + 1) .. i : Text[f][n].type # "section")}
        IN  \A p \in Passes : sp.pass[p].on => sp.pass[p].lines = Own(p) /\ Compiles(f, p)

\* A pass that reads a buffer drawn before it in this frame sees this frame's picture;
\* one that reads itself or a later one sees what that last drew, and never a picture
\* from before that; a buffer not drawn since it was made is empty.
FramesInStep ==
    \A p \in sp.drawn : \A c \in Channels :
        LET from == sp.pass[p].from[c]
            At(x) == SelectInSeq(Order, LAMBDA y : y = x)
        IN  from \in Buffers =>
               sp.seen[p][c] =
                  IF ~sp.pass[from].on THEN <<"audio">>
                  ELSE <<from, CASE At(from) < At(p) /\ from \in sp.drawn -> "now"
                                 [] from \in sp.since -> "last"
                                 [] OTHER -> "zeros">>

ShaderAsWritten == FollowsTheFile /\ PassesOfOneFile /\ FramesInStep
=============================================================================
