------------------------------ MODULE Lifetimes ------------------------------
(***************************************************************************)
(* What the daemon's parts take when they are set up and give back when     *)
(* they are torn down. A part's set-up is a sequence of steps, each of      *)
(* which may fail; what is released then is what the code's error path      *)
(* releases, and where it goes on is where the code goes on.                *)
(***************************************************************************)
EXTENDS FileParts, SceneParts, TLC

VARIABLE lt
lifeVars == <<lt>>

-----------------------------------------------------------------------------
(* the hardware decoder *)
VaapiDrops ==
    <<"vppContext", "vppSurfaces", "vppConfig", "context", "surfaces", "config", "display", "node">>

VaapiOpens ==
    << Step("node", {}, << >>, {0, Fails}),
       Step("display", {"node"}, <<"node">>, {Fails} \cup {-1}),
       Step("", {}, <<"display", "node">>, {Fails} \cup {-2}) >>

VaapiTakes == VaapiOpens \o
    << Need("config", {"display"}, <<"display", "node">>),
       Need("surfaces", {"display"}, <<"config", "display", "node">>),
       Need("context", {"config", "surfaces"}, <<"surfaces", "config", "display", "node">>),
       Check(<< >>, Done),
       May("vppConfig", {"display"}, Done),
       Step("vppSurfaces", {"display"}, <<"vppConfig">>, {Done}),
       Step("vppContext", {"vppConfig", "vppSurfaces"}, <<"vppSurfaces", "vppConfig">>, {Done}) >>

(* the software decoder *)
SwdecDrops ==
    <<"wlBuffers", "bos", "scaler", "frame", "packet", "codec", "libraries", "rgba", "swdec">>

SwdecTakes ==
    << Need("swdec", {}, << >>),
       Need("libraries", {}, SwdecDrops), Check(SwdecDrops, Fails),
       Need("codec", {"libraries"}, SwdecDrops), Need("packet", {"libraries"}, SwdecDrops),
       Need("frame", {"libraries"}, SwdecDrops), Check(SwdecDrops, Fails),
       May("bos", {}, 2), Step("wlBuffers", {"bos"}, <<"bos">>, {1}),
       Unless({"wlBuffers"}, Need("rgba", {}, SwdecDrops)) >>

(* a file of pictures *)
DemuxDrops == <<"samples", "mapping", "file", "table", "demuxer">>

DemuxTakes ==
    << Need("file", {}, << >>), Check(<<"file">>, Fails),
       Need("mapping", {"file"}, <<"file">>), Check(<<"mapping", "file">>, Fails),
       Need("samples", {}, <<"mapping", "file">>),
       Check(<<"samples", "mapping", "file">>, Fails),
       Need("demuxer", {}, <<"samples", "mapping", "file">>),
       Need("table", {}, <<"samples", "demuxer", "mapping", "file">>) >>

(* a buffer of the graphics card, and a ring of them *)
BoDrops == <<"wlBuffer", "plane0", "plane1", "bo">>

BoTakes ==
    << Need("bo", {}, << >>), May("params", {}, 1),
       Need("plane0", {"bo"}, <<"params", "bo">>),
       Need("plane1", {"bo"}, <<"params", "plane0", "bo">>),
       May("wlBuffer", {"params", "bo"}, 1), Frees(<<"params">>) >>

RingDrops == <<"buffer0", "buffer1", "buffer2">>
RingTakes ==
    << Need("buffer0", {}, << >>), Need("buffer1", {}, <<"buffer0">>),
       Need("buffer2", {}, <<"buffer0", "buffer1">>) >>

(* the shaders of the transitions *)
GpuDrops == <<"program0", "program1", "textures", "current", "context", "display", "gpu">>

GpuTakes ==
    << Need("display", {}, << >>), Check(<<"display">>, Fails),
       Need("context", {"display"}, <<"display">>),
       Need("current", {"context"}, <<"context", "display">>),
       Need("gpu", {}, <<"current", "context", "display">>),
       Check(<<"gpu", "current", "context", "display">>, Fails),
       May("program0", {"current"}, 1), May("program1", {"current"}, 1),
       Unless({"program0", "program1"}, Sure(GpuDrops, Fails)),
       May("textures", {"current"}, 1) >>

(* an animation *)
AnimDrops ==
    <<"webp", "demuxLibrary", "codecLibrary", "chunks", "frames", "scratch", "canvas", "saved",
      "raw", "decoder">>

AnimOpens == << Need("decoder", {}, << >>), Need("raw", {}, <<"decoder">>) >>

GifTakes == AnimOpens \o
    << Check(AnimDrops, Fails), Need("frames", {}, AnimDrops), Check(AnimDrops, Fails),
       Need("canvas", {}, AnimDrops), Need("scratch", {}, AnimDrops), May("saved", {}, 1) >>

ApngTakes == AnimOpens \o
    << Need("frames", {}, AnimDrops), Need("chunks", {}, AnimDrops),
       Need("canvas", {}, AnimDrops), Frees(<<"raw">>),
       May("scratch", {}, 1), May("saved", {}, 1) >>

WebpTakes == AnimOpens \o
    << May("codecLibrary", {}, 1), Need("demuxLibrary", {}, AnimDrops), Check(AnimDrops, Fails),
       Need("webp", {"demuxLibrary", "raw"}, AnimDrops), Check(AnimDrops, Fails) >>

(* the sound: without PipeWire the analysis lives on *)
AudioDrops ==
    <<"thread", "playback", "capture", "nodes", "registry", "core", "context", "loop", "library",
      "fft">>
AudioUndo == <<"capture", "registry", "core", "context", "loop">>

AudioTakes ==
    << Need("fft", {}, << >>), May("library", {}, Done), Check(<< >>, Done),
       May("loop", {"library"}, Done),
       May("context", {"loop"}, 3), May("core", {"context"}, 2), May("registry", {"core"}, 1),
       Step("capture", {"loop"}, AudioUndo, {Done}), Check(AudioUndo, Done),
       May("playback", {"loop"}, 2), Check(<<"playback">>, 1),
       Step("thread", {"loop", "capture"}, <<"playback">> \o AudioUndo, {Done}),
       May("nodes", {"registry"}, 1) >>

(* the media players *)
MprisDrops ==
    <<"art", "queries", "names", "properties", "owners", "bus", "library", "mpris">>

MprisTakes ==
    << Need("mpris", {}, << >>), May("library", {}, Done), May("bus", {"library"}, Done),
       May("properties", {"bus"}, 1), May("owners", {"bus"}, 1), May("names", {"bus"}, 1),
       May("queries", {"bus"}, 1), May("art", {}, 1) >>

(* the governor *)
GovDrops == <<"socket", "inotify", "batteries", "mains", "profile", "gov">>

GovTakes ==
    << Need("gov", {}, << >>), May("socket", {}, 1), May("inotify", {}, 1),
       May("batteries", {}, 1), May("mains", {}, 1), May("profile", {}, 1) >>

(* a slideshow and the copy an output gets *)
ShowDrops == <<"list", "timer">>
ShowTakes == << Need("timer", {}, << >>), Step("list", {}, ShowDrops, {Fails, 1}) >>

(* an engine of shaders, with a context of its own *)
ShaderDrops ==
    <<"programs", "textures", "framebuffers", "images", "context", "inotify", "engine">>

ShaderTakes ==
    << Need("engine", {}, << >>), Check(<<"engine">>, Fails),
       Need("context", {}, <<"engine">>), Check(<<"context", "engine">>, Fails),
       Always("textures", {"context"}), Always("framebuffers", {"context"}),
       May("inotify", {}, 1), May("programs", {"context"}, 1), May("images", {"context"}, 1) >>

(* the connection to the compositor; where it fails the daemon ends *)
WaylandDrops ==
    <<"handles", "surfaces", "outputs", "renderer", "feedback", "dmabuf", "drm", "toplevels",
      "cursorShape", "cursorShapes", "idle", "idleNotifier", "pointer", "seat", "layerShell",
      "shm", "compositor", "registry", "display">>

Globals ==
    << May("compositor", {"registry"}, 1), May("shm", {"registry"}, 1),
       May("layerShell", {"registry"}, 1), May("cursorShapes", {"registry"}, 1),
       May("toplevels", {"registry"}, 1), May("idleNotifier", {"registry"}, 1),
       May("dmabuf", {"registry"}, 1), May("seat", {"registry"}, 1),
       May("outputs", {"registry"}, 1) >>

WaylandTakes ==
    << Need("display", {}, << >>), May("drm", {}, 1),
       Step("registry", {"display"}, <<"display">>, {Exits}) >> \o Globals \o
    << Check(<< >>, Exits), May("pointer", {"seat"}, 1),
       May("cursorShape", {"cursorShapes", "pointer"}, 1),
       May("idle", {"idleNotifier", "seat"}, 1), May("handles", {"toplevels"}, 1),
       May("feedback", {"dmabuf"}, 1), May("renderer", {"drm"}, 1),
       May("surfaces", {"outputs", "layerShell", "compositor"}, 1), Check(<< >>, Exits) >>

(* the daemon as a whole *)
MainUndo == <<"readyPipe", "mpris", "gov", "audio">>

MainStarts ==
    << Step("readyPipe", {}, << >>, {1, Fails}),
       May("audio", {}, 1), May("gov", {}, 1), May("mpris", {}, 1),
       Need("arena", {}, MainUndo), Check(<<"arena">> \o MainUndo, Fails),
       Need("signalFd", {}, <<"arena">> \o MainUndo),
       Need("wayland", {"arena"}, <<"signalFd", "arena">> \o MainUndo),
       Need("socket", {}, <<"wayland", "signalFd", "arena">> \o MainUndo),
       Need("epoll", {}, <<"socket", "wayland", "signalFd", "arena">> \o MainUndo) >>

MainRuns ==
    << May("video", {"epoll", "wayland"}, 1), May("transitionTimer", {}, 1),
       May("slideshow", {}, 1), May("timers", {}, 1), May("uring", {}, 1),
       Frees(<<"readyPipe">>), May("subscribers", {"socket"}, 1),
       May("engines", {"wayland"}, 1), May("shader", {"wayland"}, 1), May("scene", {"wayland"}, 1) >>

\* Seeded fault: the connection is closed before what was made with it.
MainDropsEarly ==
    <<"subscribers", "wayland", "engines", "transitionTimer", "video", "slideshow", "shader",
      "scene", "audio", "mpris", "gov", "timers", "uring", "socket", "epoll", "signalFd", "arena">>

MainDrops ==
    <<"subscribers", "engines", "transitionTimer", "video", "slideshow", "shader", "scene",
      "audio", "mpris", "gov", "timers", "uring", "socket", "epoll", "signalFd", "wayland", "arena">>

DaemonParts ==
    [vaapi |-> [takes |-> VaapiTakes, drops |-> VaapiDrops],
     swdec |-> [takes |-> SwdecTakes, drops |-> SwdecDrops],
     demux |-> [takes |-> DemuxTakes, drops |-> DemuxDrops],
     bo |-> [takes |-> BoTakes, drops |-> BoDrops],
     ring |-> [takes |-> RingTakes, drops |-> RingDrops],
     gpu |-> [takes |-> GpuTakes, drops |-> GpuDrops],
     gif |-> [takes |-> GifTakes, drops |-> AnimDrops],
     apng |-> [takes |-> ApngTakes, drops |-> AnimDrops],
     webp |-> [takes |-> WebpTakes, drops |-> AnimDrops],
     audio |-> [takes |-> AudioTakes, drops |-> AudioDrops],
     mpris |-> [takes |-> MprisTakes, drops |-> MprisDrops],
     gov |-> [takes |-> GovTakes, drops |-> GovDrops],
     show |-> [takes |-> ShowTakes, drops |-> ShowDrops],
     shader |-> [takes |-> ShaderTakes, drops |-> ShaderDrops],
     wayland |-> [takes |-> WaylandTakes, drops |-> WaylandDrops],
     main |-> [takes |-> MainStarts \o MainRuns, drops |-> MainDrops]]

Parts == DaemonParts @@ PictureParts @@ TextureParts @@ SceneFileParts @@ SceneOwnParts

-----------------------------------------------------------------------------
LifeInit ==
    \E part \in DOMAIN Parts :
        lt = [part |-> part, phase |-> "none", at |-> 0, held |-> {}, ill |-> FALSE]

\* The parameters a buffer is created with are not part of it.
MadeFrom(y) ==
    UNION {s.from : s \in {t \in ToSet(Parts[lt.part].takes) : t.x = y}} \ {"params"}

\* Released in this order; ill if something made from it is still held.
Release(l, undo) ==
    FoldLeft(LAMBDA m, x :
                 IF x \notin m.held THEN m
                 ELSE [m EXCEPT !.held = @ \ {x},
                                !.ill = @ \/ \E y \in m.held \ {x} : x \in MadeFrom(y)],
             l, undo)

\* Where the set-up is after step i.
At(l, i) ==
    IF i > Len(Parts[l.part].takes) \/ i >= Done
    THEN [l EXCEPT !.phase = "alive", !.at = 0] ELSE [l EXCEPT !.at = i]

SetUp == lt.phase = "none" /\ lt' = [lt EXCEPT !.phase = "taking", !.at = 1]

TheStep == Parts[lt.part].takes[lt.at]
PassedOver == TheStep.unless # {} /\ TheStep.unless \subseteq lt.held

PassOver == lt.phase = "taking" /\ PassedOver /\ lt' = At(lt, lt.at + 1)

Succeed ==
    /\ lt.phase = "taking" /\ ~PassedOver
    /\ TheStep.x # "released" /\ TheStep.from \subseteq lt.held
    /\ lt' = At([lt EXCEPT !.held = @ \cup ({TheStep.x} \ {""}),
                           !.ill = @ \/ TheStep.x \in lt.held], lt.at + 1)

Lapse ==
    /\ lt.phase = "taking" /\ ~PassedOver
    /\ \E n \in TheStep.next :
          LET l == Release(lt, TheStep.undo)
          IN  lt' = CASE n = Fails -> [l EXCEPT !.phase = "none", !.at = 0]
                      [] n = Exits -> [l EXCEPT !.phase = "ended", !.at = 0]
                      [] OTHER -> At(l, lt.at + n)

TearDown ==
    /\ lt.phase = "alive"
    /\ lt' = [Release(lt, Parts[lt.part].drops) EXCEPT !.phase = "none"]

LifeNext == SetUp \/ PassOver \/ Succeed \/ Lapse \/ TearDown

LifeSpec == LifeInit /\ [][LifeNext]_lifeVars

-----------------------------------------------------------------------------
\* A part whose set-up failed at whatever step, and a part that was torn down
\* whatever it had got hold of, holds nothing any more; nothing is taken twice;
\* and nothing is released before what was made from it.
NothingLeft == (lt.phase = "none" => lt.held = {}) /\ ~lt.ill
=============================================================================
