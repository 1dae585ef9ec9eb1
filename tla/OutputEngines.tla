---------------------------- MODULE OutputEngines ----------------------------
(***************************************************************************)
(* What draws on which output (src/daemon/main.c, stop_engines_on_output   *)
(* and the daemon_activate_*, daemon_start_* and daemon_slideshow_*        *)
(* functions; slideshow.c; the video and slideshow requests of             *)
(* ipc_server.c; output_node_destroy_surface of layer_shell.c).            *)
(*                                                                         *)
(* An output is drawn on by a shader or Workshop scene, an animated image, *)
(* or a video engine; a slideshow puts one of these, or a still image, on  *)
(* its outputs again and again.  Video engines and slideshows are shared   *)
(* by outputs: the daemon has one of each of its own (Main) and allocates  *)
(* more when its own is taken.                                             *)
(*                                                                         *)
(* The daemon has one thread and a request is one step.  The operators     *)
(* below take and return the whole state as a record (On: a world), the    *)
(* way the C functions pass daemon_state_t along.  A list of target        *)
(* outputs is a set of them, the empty one meaning every output, as        *)
(* num_target_outputs = 0 does.  The size of a file, how it is drawn and   *)
(* the transition to it are left out, and so are the requests that arrive  *)
(* while no output exists.                                                 *)
(*                                                                         *)
(* Bound: Spares is how many engines of each sort may be allocated at one  *)
(* time; a request that may need one more is not made.                     *)
(***************************************************************************)
EXTENDS Compaction

CONSTANTS Outputs,      \* names of outputs
          Removable,    \* those that may be unplugged
          Boards,       \* the lists of outputs the daemon may start with
          Specs,        \* the target lists of requests
          ShowSpecs,    \* those of requests for slideshows
          Videos,       \* requests for videos: pairs of a target list and a file
          Files,        \* video files
          Broken,       \* those that cannot be played
          Spares,       \* engines that may be allocated
          Items,        \* what a slideshow's directory holds: "still", ...
          Restored,     \* what a rule or the state file holds for an output
          Controls      \* slideshow controls

(* Besides videos: what a slideshow shows, and what a rule asks for. *)
Media == {"unreadable", "still", "anim", "shader", "workshop"}
Rules == {"nothing", "still", "shader", "slideshow"}
Pauses == {"pause", "resume"}

ASSUME OutputEnginesAssumption ==
    /\ \A board \in Boards : board \in Seq(Outputs) /\ OnceEach(board)
    /\ Specs \cup ShowSpecs \subseteq SUBSET Outputs
    /\ Videos \subseteq (SUBSET Outputs) \X Files
    /\ {"Main", "None"} \cap Spares = {}
    /\ Items \subseteq Media \cup Files /\ Restored \subseteq Rules \cup Files
    /\ Controls \subseteq Pauses
    /\ Media \cap Files = {} /\ Rules \cap Files = {} /\ Pauses \cap Files = {}

Main == "Main"
None == "None"
Engines == {Main} \cup Spares

VARIABLES
    outputs,  \* state.outputs, the newest first
    out,      \* the engines of each output, see Node
    video,    \* the video engines
    shows,    \* the slideshow engines
    shown     \* what was put on each output last

vars  == <<outputs, out, video, shows, shown>>

(* scene stands for shader_active and workshop_active, anim for anim_active *)
(* with its decoder; video and slides are the engines the output uses.      *)
NoEngines == [scene |-> "none", anim |-> FALSE, video |-> None, targeted |-> FALSE,
              slides |-> None]
StoppedVideo == [running |-> FALSE, file |-> None, target |-> None, filter |-> FALSE]
IdleShow == [active |-> FALSE, paused |-> FALSE, targets |-> {}]

World == [outputs |-> outputs, out |-> out, video |-> video, shows |-> shows,
          shown |-> shown]

Init ==
    /\ outputs \in Boards
    /\ out = [o \in Outputs |-> NoEngines]
    /\ video = [e \in {Main} |-> StoppedVideo] /\ shows = [s \in {Main} |-> IdleShow]
    /\ shown = [o \in Outputs |-> "nothing"]

-----------------------------------------------------------------------------
(* Outputs and engines.                                                    *)

Matches(spec, o) == spec = {} \/ o \in spec
Matched(w, spec) == IF spec = {} THEN w.outputs ELSE Compact(w.outputs, Outputs \ spec)
Targets(w, spec) == {o \in Members(w.outputs) : Matches(spec, o)}

Watching(w, e) == {o \in Members(w.outputs) : w.out[o].video = e}
Showing(w, s)  == {o \in Members(w.outputs) : w.out[o].slides = s}

With(f, e, new) == [x \in DOMAIN f \cup {e} |-> IF x = e THEN new ELSE f[x]]
Without(f, e) == [x \in DOMAIN f \ {e} |-> f[x]]
Spare(f) == CHOOSE e \in Spares : e \notin DOMAIN f
Full(f)  == Spares \subseteq DOMAIN f

(* video_engine_stop: the outputs forget the engine, which is freed unless *)
(* it is the daemon's own.                                                 *)
StopVideo(w, e) ==
    LET v == [w EXCEPT !.out = [o \in Outputs |-> IF w.out[o].video = e
                                                  THEN [w.out[o] EXCEPT !.video = None]
                                                  ELSE w.out[o]]]
    IN IF e = Main THEN [v EXCEPT !.video[Main] = StoppedVideo]
       ELSE [v EXCEPT !.video = Without(@, e)]

StopShow(w, s) ==
    IF s = Main
    THEN [w EXCEPT !.shows[Main] = [@ EXCEPT !.active = FALSE, !.paused = FALSE]]
    ELSE [w EXCEPT !.shows = Without(@, s)]

(* An output without an engine of its own may be showing the daemon's own  *)
(* one, which plays for every output until it is told otherwise.           *)
ReleaseVideoForgets(w, o) ==                               \* seeded fault
    [w EXCEPT !.out[o].video = None, !.out[o].targeted = FALSE]
ReleaseVideo(w, o) ==
    LET e == w.out[o].video
        v == [w EXCEPT !.out[o] = [w.out[o] EXCEPT !.video = None, !.targeted = FALSE]]
        filtered == [v EXCEPT !.video[Main].filter = TRUE]
        wanted == \E x \in Members(w.outputs) \ {o} :
                      v.out[x].video = Main \/ v.out[x].targeted
    IN IF e # None
       THEN IF Watching(v, e) = {} THEN StopVideo(v, e)
            ELSE IF e = Main THEN filtered ELSE v
       ELSE IF ~v.video[Main].running THEN v
       ELSE IF v.video[Main].target = o \/ ~wanted THEN StopVideo(v, Main)
       ELSE filtered

(* p is the slideshow that is presenting an item just now: its outputs     *)
(* stay its own.                                                           *)
ReleaseShowFrees(w, o, p) ==                               \* seeded fault
    LET s == w.out[o].slides
        v == [w EXCEPT !.out[o].slides = None]
    IN IF p # None /\ s = p THEN w ELSE IF s = None THEN v ELSE StopShow(v, s)
ReleaseShow(w, o, p) ==
    LET s == w.out[o].slides
        v == [w EXCEPT !.out[o].slides = None]
    IN IF p # None /\ s = p THEN w
       ELSE IF s = None THEN v
       ELSE IF Showing(v, s) = {} THEN StopShow(v, s)
       ELSE [v EXCEPT !.shows[s].targets = Showing(v, s)]

(* stop_engines_on_output; keep names the engines to leave alone, of the   *)
(* video engines only the daemon's own.                                    *)
EndScene(w, o, keep) ==
    IF "scene" \in keep THEN w ELSE [w EXCEPT !.out[o].scene = "none"]
EndAnim(w, o, keep) ==
    IF "anim" \in keep THEN w ELSE [w EXCEPT !.out[o].anim = FALSE]
EndVideo(w, o, keep) ==
    IF "video" \in keep /\ w.out[o].video = Main THEN w ELSE ReleaseVideo(w, o)
EndShow(w, o, keep, p) == IF "slides" \in keep THEN w ELSE ReleaseShow(w, o, p)
StopOn(w, o, keep, p) ==
    EndShow(EndVideo(EndAnim(EndScene(w, o, keep), o, keep), o, keep), o, keep, p)

(* What takes the place of the engines that were stopped. *)
Put(w, o, what) ==
    CASE what = "nothing"  -> w
      [] what = "anim"     -> [w EXCEPT !.out[o].anim = TRUE]
      [] what = "shader"   -> [w EXCEPT !.out[o].scene = "shader"]
      [] what = "workshop" -> [w EXCEPT !.out[o].scene = "workshop"]
      [] what = "video"    -> [w EXCEPT !.out[o] = [w.out[o] EXCEPT !.video = Main,
                                                                !.targeted = TRUE]]

(* One target after the other. *)
EachReplaced(w, list, keep, p, what) ==
    LET after[k \in 0..Len(list)] ==
            IF k = 0 THEN w
            ELSE Put(StopOn(after[k - 1], list[k], keep, p), list[k], what)
    IN  after[Len(list)]

Replaced(w, spec, keep, p, what) == EachReplaced(w, Matched(w, spec), keep, p, what)
StopAllOn(w, spec, keep, p) == Replaced(w, spec, keep, p, "nothing")

Shown(w, spec, what) ==
    [w EXCEPT !.shown = [o \in Outputs |-> IF o \in Targets(w, spec) THEN what ELSE w.shown[o]]]

-----------------------------------------------------------------------------
(* What can be put on outputs.                                             *)

(* try_start_native_animation, of an image that has several frames. *)
Animated(w, spec) == Replaced(Shown(w, spec, "anim"), spec, {"slides"}, None, "anim")

(* A still or animated image, or a colour, from a client, a rule or the    *)
(* state file.                                                             *)
Drawn(w, spec, kind) == IF kind = "anim" THEN Animated(w, spec) ELSE w
Image(w, spec, kind) == Drawn(Shown(StopAllOn(w, spec, {}, None), spec, "still"), spec, kind)

(* A shader that cannot be compiled stops the one the first output had. *)
Unshaded(w, o) == IF w.out[o].scene = "shader" THEN [w EXCEPT !.out[o].scene = "none"] ELSE w
Shader(w, spec, ok, p) ==
    IF ok THEN Replaced(Shown(w, spec, "shader"), spec, {"scene"}, p, "shader")
    ELSE IF Targets(w, spec) = {} THEN w
    ELSE Unshaded(Shown(w, spec, "failed"), Head(Matched(w, spec)))

(* A Workshop scene that cannot be loaded has replaced the old one already. *)
Workshop(w, spec, ok, p) ==
    LET lost == {o \in Targets(w, spec) : w.out[o].scene = "workshop"}
    IN  IF ok THEN Replaced(Shown(w, spec, "workshop"), spec, {"scene"}, p, "workshop")
        ELSE [Shown(w, spec, "failed") EXCEPT
                 !.out = [o \in Outputs |-> IF o \in lost THEN [w.out[o] EXCEPT !.scene = "none"]
                                            ELSE w.out[o]]]

(* A video.  The daemon's own engine is taken unless it plays something    *)
(* for another target; a request from a client for several outputs never   *)
(* takes it from a video that plays.                                       *)
TargetOf(w, spec) ==
    IF spec # {} /\ Len(Matched(w, spec)) = 1 THEN Head(Matched(w, spec)) ELSE None

Retargeted(w, target) ==
    IF w.video[Main].target = target THEN w ELSE [w EXCEPT !.video[Main].target = None]
JoinVideo(w, spec, p) ==
    Retargeted(Replaced(Shown(w, spec, w.video[Main].file), spec, {"video"}, p, "video"),
               TargetOf(w, spec))

(* The engines that a new video on spec ends; on every output it ends all. *)
Blank(w) ==
    [w EXCEPT !.out = [o \in Outputs |-> [w.out[o] EXCEPT !.scene = "none", !.anim = FALSE]]]
AllEnded(w, spec, p) ==
    IF spec # {} THEN w ELSE Blank(IF p = Main THEN w ELSE StopShow(w, Main))
ClearedFor(w, spec, p) == AllEnded(StopAllOn(w, spec, {"video"}, p), spec, p)

NewVideoUntaken(w, spec, client) ==                        \* seeded fault
    IF spec # {} /\ w.video[Main].running THEN Spare(w.video) ELSE Main
NewVideo(w, spec, client) ==
    LET own == w.video[Main]
    IN IF spec # {} /\ own.running
          /\ (own.target # TargetOf(w, spec) \/ (client /\ TargetOf(w, spec) = None))
       THEN Spare(w.video) ELSE Main

(* The outputs that will show engine e: for the daemon's own engine every  *)
(* output is told whether it is meant.                                     *)
Assigned(w, e, spec) ==
    [w EXCEPT !.out =
        [o \in Outputs |->
            IF o \in Targets(w, spec) THEN [w.out[o] EXCEPT !.video = e, !.targeted = TRUE]
            ELSE IF e = Main /\ o \in Members(w.outputs)
            THEN [w.out[o] EXCEPT !.targeted = FALSE,
                                  !.video = IF w.out[o].video = Main THEN None
                                            ELSE w.out[o].video]
            ELSE w.out[o]]]

Loaded(w, e, spec, file) ==
    [Shown(w, spec, file) EXCEPT
        !.video = With(w.video, e, [running |-> TRUE, file |-> file,
                                    target |-> TargetOf(w, spec), filter |-> spec # {}])]

(* The outputs forget an engine that could not play. *)
Unassigned(w, e) ==
    [w EXCEPT !.out = [o \in Outputs |->
        IF w.out[o].video = e THEN [w.out[o] EXCEPT !.video = None, !.targeted = FALSE]
        ELSE w.out[o]]]
NotLoaded(w, e, spec) ==
    IF e # Main THEN Unassigned(w, e)
    ELSE [Unassigned(w, e) EXCEPT
             !.video[Main] = [w.video[Main] EXCEPT !.running = FALSE, !.file = None,
                                                   !.filter = spec # {}]]

Played(w, e, spec, file) ==
    IF file \notin Broken THEN Loaded(Assigned(w, e, spec), e, spec, file)
    ELSE Shown(NotLoaded(Assigned(w, e, spec), e, spec), spec, "failed")
PlayedNew(w, spec, file, client) == Played(w, NewVideo(w, spec, client), spec, file)

Video(w, spec, file, client, p) ==
    IF Targets(w, spec) = {} THEN w
    ELSE IF spec # {} /\ w.video[Main].running /\ w.video[Main].file = file
    THEN JoinVideo(w, spec, p)
    ELSE PlayedNew(ClearedFor(w, spec, p), spec, file, client)

-----------------------------------------------------------------------------
(* Slideshows.                                                             *)

Claim(w, s) ==
    [w EXCEPT !.out = [o \in Outputs |->
        IF o \in Targets(w, w.shows[s].targets) THEN [w.out[o] EXCEPT !.slides = s]
        ELSE w.out[o]]]

(* display_current_image: an image takes the outputs of the slideshow from *)
(* all other engines; other media are requests made while the slideshow    *)
(* presents.                                                               *)
Display(w, s, item) ==
    LET spec == w.shows[s].targets
    IN CASE item = "unreadable" -> w
         [] item \in {"still", "anim"} ->
                Drawn(Shown(Claim(StopAllOn(w, spec, {"slides"}, s), s), spec, "still"),
                      spec, item)
         [] item = "shader"     -> Claim(Shader(w, spec, TRUE, s), s)
         [] item = "workshop"   -> Claim(Workshop(w, spec, TRUE, s), s)
         [] item \in Files      -> Claim(Video(w, spec, item, FALSE, s), s)

TakesSpare(w, spec) ==
    /\ spec # {} /\ w.shows[Main].active
    /\ \E o \in Members(w.outputs) : ~Matches(spec, o) /\ w.out[o].slides = Main

(* daemon_start_slideshow_isolated; no item is "none": nothing was found. *)
NewShow(w, spec) == IF TakesSpare(w, spec) THEN Spare(w.shows) ELSE Main
Opened(w, s, spec) ==
    [w EXCEPT !.shows = With(w.shows, s, [active |-> TRUE, paused |-> FALSE, targets |-> spec])]
Started(w, s, spec, item) ==
    IF item # "none" THEN Display(Claim(Opened(w, s, spec), s), s, item)
    ELSE IF s = Main THEN StopShow(w, Main) ELSE w
StartedNew(w, spec, item) == Started(w, NewShow(w, spec), spec, item)

Slideshow(w, spec, item) ==
    IF Targets(w, spec) = {} THEN w
    ELSE StartedNew(Shown(StopAllOn(w, spec, {}, None), spec, "nothing"), spec, item)

Control(w, s, what) ==
    CASE what = "pause"  -> [w EXCEPT !.shows[s].paused = w.shows[s].active]
      [] what = "resume" -> [w EXCEPT !.shows[s].paused = FALSE]
      [] what \in Items  -> IF w.shows[s].active THEN Display(w, s, what) ELSE w

(* SLIDESHOW_CTRL with action stop: the slideshows that were seen on the   *)
(* targets go on where else they are shown.                                *)
SeenOn(w, spec) == {w.out[o].slides : o \in Targets(w, spec)} \ {None}
Unseen(w, spec) ==
    [w EXCEPT !.out = [o \in Outputs |->
        IF o \in Targets(w, spec) THEN [w.out[o] EXCEPT !.slides = None] ELSE w.out[o]]]
Over(w, seen) == {s \in seen : Showing(w, s) = {}}
Trimmed(w, seen, over) ==
    [w EXCEPT !.shows = [s \in DOMAIN w.shows \ (over \ {Main}) |->
                            IF s \in seen \ over
                            THEN [w.shows[s] EXCEPT !.targets = Showing(w, s)]
                            ELSE w.shows[s]]]
ShowsEnded(w, seen, over) ==
    Trimmed(IF Main \in over THEN StopShow(w, Main) ELSE w, seen, over)
SeenEnded(w, seen) == ShowsEnded(w, seen, Over(w, seen))
StopShows(w, spec) ==
    SeenEnded(IF spec = {} THEN StopShow(Unseen(w, spec), Main) ELSE Unseen(w, spec),
              SeenOn(w, spec))

(* WAYWAL_REQ_CLEAR. *)
AllCleared(w, spec) == IF spec = {} THEN StopShow(StopVideo(w, Main), Main) ELSE w
Cleared(w, spec) == AllCleared(Shown(StopAllOn(w, spec, {}, None), spec, "still"), spec)

(* The other controls, of every slideshow or of the one an output shows. A *)
(* slideshow that other outputs show too is copied first.                  *)
ControlNext(x, o, what) ==
    IF x.w.out[o].slides \in x.seen THEN x
    ELSE [w |-> Control(x.w, x.w.out[o].slides, what), seen |-> x.seen \cup {x.w.out[o].slides}]
ControlEach(w, list, what) ==
    LET after[k \in 0..Len(list)] ==
            IF k = 0 THEN [w |-> w, seen |-> {None, Main}]
            ELSE ControlNext(after[k - 1], list[k], what)
    IN  after[Len(list)].w
ControlAll(w, what) ==
    ControlEach(IF w.shows[Main].active THEN Control(w, Main, what) ELSE w, w.outputs, what)

SplitUntrimmed(w, o) ==                                    \* seeded fault
    LET s == w.out[o].slides
        c == Spare(w.shows)
    IN [w EXCEPT !.out[o].slides = c,
                 !.shows = With(@, c, [w.shows[s] EXCEPT !.targets = {o}])]

Split(w, o) ==
    LET s == w.out[o].slides
        c == Spare(w.shows)
        v == [w EXCEPT !.out[o].slides = c]
        rest == [w.shows EXCEPT ![s].targets = Showing(v, s)]
    IN [v EXCEPT !.shows = With(rest, c, [w.shows[s] EXCEPT !.targets = {o}])]

ControlOne(w, o, what) ==
    LET s == w.out[o].slides
    IN IF s = None THEN w
       ELSE IF Showing(w, s) # {o} THEN Control(Split(w, o), Spare(w.shows), what)
       ELSE Control([w EXCEPT !.shows[s].targets = IF @ = {} THEN {o} ELSE @], s, what)

-----------------------------------------------------------------------------
(* Outputs that come and go.                                               *)

(* daemon_on_output_configured: the output's rule or what the state file   *)
(* holds for it.                                                           *)
Restore(w, o, what) ==
    CASE what = "nothing"   -> w
      [] what = "still"     -> Image(w, {o}, "still")
      [] what = "shader"    -> Shader(w, {o}, TRUE, None)
      [] what = "slideshow" -> Slideshow(w, {o}, "still")
      [] what \in Files     -> Video(w, {o}, what, FALSE, None)

(* registry_global_remove and output_node_destroy_surface: the daemon's    *)
(* own engines are kept, and so are the targets of slideshows.             *)
Removed(w, o) ==
    LET v == w.out[o].video
        s == w.out[o].slides
        forgot == [e \in DOMAIN w.video |->
                      IF e \in {Main, v} /\ w.video[e].target = o
                      THEN [w.video[e] EXCEPT !.target = None] ELSE w.video[e]]
    IN [outputs |-> Compact(w.outputs, {o}),
        out     |-> [w.out EXCEPT ![o] = NoEngines],
        video   |-> IF v \notin {Main, None} /\ Watching(w, v) = {o} THEN Without(forgot, v)
                    ELSE forgot,
        shows   |-> IF s \notin {Main, None} /\ Showing(w, s) = {o} THEN Without(w.shows, s)
                    ELSE w.shows,
        shown   |-> [w.shown EXCEPT ![o] = "nothing"]]

-----------------------------------------------------------------------------
Do(w) ==
    /\ outputs' = w.outputs /\ out' = w.out /\ video' = w.video /\ shows' = w.shows
    /\ shown' = w.shown

Requested == outputs # <<>>
Room == Requested /\ ~Full(video) /\ ~Full(shows)

ShowImage == Requested /\ \E spec \in Specs, kind \in {"still", "anim"} :
                 Do(Image(World, spec, kind))
ShowShader == Requested /\ \E spec \in Specs, ok \in BOOLEAN :
                  Do(Shader(World, spec, ok, None))
ShowWorkshop == Requested /\ \E spec \in Specs, ok \in BOOLEAN :
                    Do(Workshop(World, spec, ok, None))
PlayVideo == Room /\ \E v \in Videos, client \in BOOLEAN :
                 Do(Video(World, v[1], v[2], client, None))
StartSlideshow == Room /\ \E spec \in ShowSpecs, item \in Items \cup {"none"} :
                      Do(Slideshow(World, spec, item))
StopSlideshow == Requested /\ \E spec \in Specs \cup ShowSpecs : Do(StopShows(World, spec))
ControlSlideshows == Room /\ \E what \in Controls \cup Items : Do(ControlAll(World, what))
ControlSlideshow(o) == Room /\ \E what \in Controls \cup Items : Do(ControlOne(World, o, what))
Clear == Requested /\ \E spec \in Specs : Do(Cleared(World, spec))

(* A slideshow's timer: the daemon's own, or one that an output shows. *)
Tick(s) ==
    /\ ~Full(video) /\ s \in DOMAIN shows /\ shows[s].active /\ ~shows[s].paused
    /\ s # Main => Showing(World, s) # {}
    /\ \E item \in Items : Do(Display(World, s, item))

Plug(o) ==
    /\ o \notin Members(outputs) /\ ~Full(video) /\ ~Full(shows)
    /\ \E what \in Restored : Do(Restore([World EXCEPT !.outputs = <<o>> \o @], o, what))

Unplug(o) == o \in Members(outputs) \cap Removable /\ Do(Removed(World, o))

Next ==
    \/ ShowImage \/ ShowShader \/ ShowWorkshop \/ PlayVideo \/ Clear
    \/ StartSlideshow \/ StopSlideshow \/ ControlSlideshows
    \/ \E o \in Members(outputs) : ControlSlideshow(o) \/ Unplug(o)
    \/ \E o \in Outputs : Plug(o)
    \/ \E s \in Engines : Tick(s)

Spec == Init /\ [][Next]_vars

-----------------------------------------------------------------------------
(* Properties.                                                             *)

(* is_output_active_for_video: an engine draws on the outputs it was given *)
(* to, and the daemon's own one also on others that nothing else draws on. *)
DrawsOn(e, o) ==
    IF out[o].video # None THEN out[o].video = e
    ELSE IF e # Main THEN video[e].target = o
    ELSE /\ out[o].scene # "shader" /\ ~out[o].anim
         /\ IF video[Main].target # None THEN video[Main].target = o
            ELSE video[Main].filter => out[o].targeted

Drawers(o) ==
    (IF out[o].scene = "none" THEN {} ELSE {out[o].scene})
    \cup (IF out[o].anim THEN {"anim"} ELSE {})
    \cup {video[e].file : e \in {x \in DOMAIN video : video[x].running /\ DrawsOn(x, o)}}

(* On every output exactly what was last put there is drawn: nothing, for  *)
(* a still image.  Where the last request failed nothing is promised.      *)
DrawnAsAsked ==
    \A o \in Members(outputs) :
        \/ shown[o] = "failed"
        \/ Drawers(o) = {shown[o]} \ {"nothing", "still"}

(* An output never refers to a video engine or a slideshow that was freed  *)
(* (main.c:458, 505), nor to a slideshow that was stopped.                 *)
Active(w, s) == s \in DOMAIN w.shows /\ w.shows[s].active

NoFreedEngine ==
    \A o \in Outputs :
        /\ out[o].video \in DOMAIN video \cup {None}
        /\ out[o].slides # None => Active(World, out[o].slides)

(* No engine is left over: a video that is decoded is drawn somewhere, a   *)
(* slideshow is active only while some output shows it, its targets are    *)
(* the outputs that do, and one that was allocated is active.              *)
NoLostEngine ==
    /\ \A e \in DOMAIN video :
          video[e].running => \E o \in Members(outputs) : DrawsOn(e, o)
    /\ \A s \in DOMAIN shows :
          /\ shows[s].active => Showing(World, s) # {} /\ shows[s].targets = Showing(World, s)
          /\ s # Main => shows[s].active

(* What is done to one slideshow stays on its outputs (slideshow.c:749,    *)
(* ipc_server.c:1820).                                                     *)
(* - A slideshow's timer changes nothing on an output that does not show   *)
(*   it.                                                                   *)
Redrawn(o) == Drawers(o)' # Drawers(o) \/ shown'[o] # shown[o]

TicksStayHome ==
    [][\A s \in DOMAIN shows :
          (\E o \in Members(outputs) : Redrawn(o) /\ out[o].slides # s) => ~Tick(s)]_vars

(* - Controlling the slideshow of one output changes nothing on the        *)
(*   others, whether they show the same slideshow or not, and pauses none  *)
(*   of theirs.                                                            *)
PausedOn(o) == out[o].slides # None /\ shows[out[o].slides].paused

Disturbed(o) == Redrawn(o) \/ PausedOn(o)' # PausedOn(o)

ControlStaysHome ==
    [][\A o \in Members(outputs) :
          (\E x \in Members(outputs) \ {o} : Disturbed(x)) => ~ControlSlideshow(o)]_vars

OthersUndisturbed == TicksStayHome /\ ControlStaysHome

(* An output shows the video it was given last, by a client or when it was *)
(* plugged in.                                                             *)
GivenVideoPlays ==
    \A o \in Members(outputs) : shown[o] \in Files => shown[o] \in Drawers(o)
==============================================================================
