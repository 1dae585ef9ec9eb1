# A verification project for WayWal

WayWal draws wallpapers on Wayland compositors: `wwald` is the daemon, `wwal` the
command that talks to it. This directory holds TLA+ models of the daemon's
control logic, the TLC configurations that check them on small instances, and
TLAPS proofs of what matters most. `PROJECT.json` is the machine-readable index:
runs, mutants, the source lines behind every definition, hazards and theorems.

Run things from this directory:

    tlc -workers 2 -config uring_safety.cfg MCUringLoop.tla
    tlapm UringLoopProofs.tla

## The system

The daemon is one thread around an event loop, with two exceptions: PipeWire's
real-time thread plays and captures sound, and worker threads decode and scale images
inside one call. Paths are below `src/src/` and `src/include/waywal/`.

| component | state | operations | interacts with |
|---|---|---|---|
| event loop (`daemon/uring_loop.c`) | 128 slots (fd, kind, generation, tag, in-flight flag), the io_uring | add, remove, dispatch, stop | every component that owns a descriptor |
| main loop (`daemon/main.c`: `main`, `daemon_uring_event_callback`) | `running`, `g_daemon_wl_ok`, epoll or io_uring | start, wait, dispatch by descriptor, signals, shutdown | all |
| engine ownership (`daemon/main.c`: `stop_engines_on_output`, `reconcile_global_engine_flags`, `daemon_activate_*`, rules) | per output: which of transition, video, slideshow, animation, shader, scene owns it; global engines shared by outputs | set image, colour, shader, video, slideshow, scene, clear, stop, apply rules | engines, event loop, state store |
| power reconciliation (`daemon/main.c`: `daemon_reconcile_power_state`) | armed timers of the engines | reconcile, dispatch a frame, governor events | power governor, timers |
| power governor (`daemon/power_governor.c`) | per output a mask of reasons, a global mask, the battery, an IPC connection to the compositor | set and clear reasons, dispatch Hyprland, Sway, niri, poll battery, reconnect | wayland core, power reconciliation |
| IPC server (`daemon/ipc_server.c`, `common/ipc_proto.c`) | listening socket, up to 16 subscribers | accept, one request per connection, subscribe, broadcast, reap | all requests reach the owners above |
| wayland core (`daemon/wayland_core.c`, `daemon/output_state.c`) | globals, list of outputs, foreign toplevels, idle | add and remove outputs, toplevel and idle events | surfaces, power governor |
| layer surfaces (`daemon/layer_shell.c`, `daemon/dmabuf_alloc.c`, `daemon/dmabuf_feedback.c`) | per output: surface, SHM pair or DMA-BUF ring, snapshots, transition | configure, closed, render, release, destroy | compositor |
| presentation (`daemon/presentation.c`) | phase-locked loop per output | feedback, predict | video engine |
| video (`daemon/video_engine.c`, `daemon/demuxer.c`, `daemon/vaapi_*.c`, `daemon/video_vaapi.c`) | playing state, timer, decoded frames, surfaces | load, start, pause, resume, stop, dispatch a frame | power governor, layer surfaces |
| slideshow (`daemon/slideshow.c`) | file list, index, active, paused, timer | start, stop, next, previous, pause, resume, tick, rescan | layer surfaces, video |
| animation, shader, Workshop scene engines (`daemon/anim_engine.c`, `daemon/shader_engine.c`, `daemon/we_*.c`, `daemon/gpu_compute.c`, `daemon/render_engine.c`, `daemon/simd`) | decoded frames, programs, scripts, particles | load, render a frame, destroy | layer surfaces, audio |
| state store (`common/state_store.c`) | restored entries on disk, in memory | load, save atomically, update, find, export themes | restore at start, hot-plug |
| media players (`daemon/mpris.c`) | players, the active one | name changes, property changes, reconcile | theme colours |
| audio (`daemon/audio_fft.c`) | ring between PipeWire's thread and the daemon, spectrum | push, copy, process, destroy | scenes and shaders |
| solar and schedule (`common/solar_schedule.c`, `daemon/main.c`: `daemon_tick_solar_and_schedule`) | rules, the active phase, one timer | tick, reload | wallpaper rendering |
| configuration (`common/toml_parser.c`, `daemon/main.c`: `daemon_reload_config`) | parsed rules | parse, reload on SIGHUP | all |
| pure parts (`common/palette_hct.c`, `common/bezier.c`, `common/path.c`, `common/image_loader.c`, `client/gif_transcode.c`, `common/we_json.c`, ...) | none or one call's | colours, curves, paths, decoding | callers |
| sandbox (`daemon/security.c`) | one Landlock rule set | register paths, apply once | start-up |
| client (`client/`) | one request | parse the command line, connect, send, receive | IPC server |

### What is hard

* Completions of earlier polls arrive after their slot, or their descriptor
  number, has been given to somebody else.
* A multishot poll reports edges, and edges coalesce; a handler that leaves
  something unread is not called again.
* A callback changes what is registered, and pumps Wayland, while the loop walks
  its completions and while its callers walk the list of outputs.
* Pausing and resuming: timers are disarmed by one event and have to be armed
  again by another, from several sources of reasons to pause.
* One output is owned by one engine at a time, while global engines are shared.
* Buffers belong to the compositor until it releases them, across resizes and
  removal of the output.
* The compositor's IPC connection, its surfaces and its outputs come and go.

### What makes each part correct

* Event loop: a callback runs only for what is registered now; whatever is
  registered and readable is called; slot, tag and in-flight flag tell the truth
  about the kernel.
* Main loop: nothing that arrives is left unread while the thread sleeps; the
  daemon ends when it is told to, and when the compositor is gone.
* Engine ownership: an output shows exactly what was put there last; no engine
  runs unseen, is lost, or is freed while an output refers to it.
* Power: an output is paused while a reason holds and only then; a timer is armed
  when something visible depends on it and off when nothing does.
* Socket: a daemon that serves is reachable by its path. Subscribers: closed only
  for a reason of their own, and until then they see every event, whole and in order.
* State store: the file on disk is always a complete table, and what it restores is
  what was shown. Palette: what is exported is of the wallpaper that is there.
* Wallpapers: the last request is what is seen in the end; ticks of the sun and the
  schedule leave chosen wallpapers alone; every transition ends.
* Surfaces: nothing is drawn into a ring buffer the compositor reads, and every buffer
  comes back.
* Video: a surface that is a reference, waits or is shown is not decoded into;
  pictures are shown in order; the tables of a file become the samples it means.
* Sound: what is played is what was submitted, in order, and a captured window is one
  that was recorded. Players: the table settles on the players that are there.
* Drawing: rows hold what the effect's formula says; passes are those of one file;
  what is believed about GL and its textures is true; everything that is acquired is
  released once, whatever fails.

## The modules

| module | models | uses |
|---|---|---|
| `EventLoop` | what clients of the event loop are promised: an abstract specification | |
| `UringLoop` | `uring_loop.c` on an io_uring: slots, tags, submission and completion rings, the kernel's polls | instantiates `EventLoop` |
| `MCUringLoop` | small sets of descriptors for it | extends `UringLoop` |
| `UringLoopProofs` | its theorems | extends `UringLoop`, `TLAPS` |
| `DaemonLoop` | the main loop under both backends, signals, accept loop; its theorems | extends `TLAPS` |
| `PowerGovernor` | the governor's record and its operators (no behaviour of its own) | |
| `PowerState` | windows, hotplug, requests, reloads, engines' timers around the governor | extends `PowerGovernor` |
| `PowerStateProofs` | its theorems | extends `PowerState`, `TLAPS` |
| `OutputEngines` | which engine draws on which output | extends `Compaction` |
| `MCOutputEngines` | instances of it | extends `OutputEngines` |
| `OutputEnginesProofs` | its theorem | extends `OutputEngines`, `TLAPS` |
| `ServerSocket` | daemons that start, crash and leave over one socket path | |
| `Compaction` | what stays of an array moves down in order, with the facts the proofs about tables need; least and greatest numbers | extends `TLAPS` |
| `EventFeed` | what a subscriber is promised: an abstract specification | |
| `Subscribers` | the table of subscribers | extends `Compaction`, instantiates `EventFeed` |
| `StateStore` | the table of restored wallpapers, its file and what monitors show | |
| `Palettes` | the exported palette between wallpaper and album art | |
| `LifeSteps`, `FileParts`, `SceneParts`, `Lifetimes` | set-ups as sequences of steps that take, and on failure release, what they took | `Lifetimes` extends the three |
| `AudioRings` | playback and capture rings against PipeWire's thread, streams of other programs | extends `Compaction` |
| `MCServices` | one behaviour per part: socket, subscribers, store, palettes, samples, set-ups | extends the five and `Lifetimes` |
| `ServicesProofs` | theorems about the five | extends `MCServices`, `TLAPS` |
| `WallpaperOwner` | request, sun or schedule: who paints | |
| `Transitions` | the transition timer over several outputs | |
| `MCWallpapers` | both | extends the two |
| `WallpapersProofs` | theorems about both | extends `MCWallpapers`, `Compaction` |
| `SurfaceBuffers` | one output's ring and halves of shared memory against its compositor | extends `Compaction` |
| `GpuCaches` | the compute engine's notes of what GL has bound and uploaded | |
| `MCSurfaces` | both | extends the two |
| `SurfacesProofs` | theorems about both | extends the two, `Compaction`, `TLAPS` |
| `VideoPictures` | surfaces, references, reordering and the buffers on screen | |
| `RefLists` | H.264's reference lists and their modifications, HEVC's lists | |
| `Demuxer` | the tables of MP4 and WebM files | |
| `AnimFrames` | the frames of GIF and APNG files and their canvas | |
| `SlideOrder` | the order of a slideshow's pictures | |
| `Players` | the table of media players | |
| `MCMedia` | instances of the six, one behaviour per part, over one variable `it` | named instances of the six |
| `CpuEffects` | the CPU's transition effects, row by row | |
| `ShaderPasses` | shader files: sections, passes, channels, reloading | |
| `Textures` | the textures of the GPU's buffers in two GL contexts | |
| `ScenePasses` | the frames of a Workshop scene: objects, effects, passes and the textures they share | |
| `ScriptHeap` | the memory of a scene's script: an arena that is cut back after each callback | |
| `LayerScripts` | what scripts write to the layers of a scene, through copies | |
| `MCPrograms` | one behaviour per part, these six and those of `MCMedia` | extends `MCMedia`, named instances of the six |

The layers meet at narrow places, which is why they are checked apart.
`DaemonLoop` takes from `UringLoop` that completions reach the right handler;
what it adds is what a completion means (an edge, with a handler that may leave
something unread). `PowerState` and `OutputEngines` start where a handler starts:
one thread runs a handler to its end, so a handler is one step. They look at the
same engines from two sides, timers and ownership; `PowerState` has one video
engine and no slideshow, `OutputEngines` has no timers but the slideshow's.
`WallpaperOwner` says who may paint, `Transitions` how a painting gets to the screen,
`SurfaceBuffers` into which memory; each takes the one below for granted.

The modules `MCServices`, `MCWallpapers`, `MCSurfaces` and `MCPrograms` check parts that
share no state side by side: `part` is chosen at the start, and the variables of the
other parts keep their first value. A property of such a module that says
`part = "x" => P` is the property `P` of one part.

### UringLoop

`slots`, `running` and `multishot` are the fields of `uring_loop_t`; `sq` and `cq`
are the two rings, `kq` what has been submitted and not yet taken, `kpolls` the
kernel's armed polls. `disp` holds the program counter and the locals of
`uring_loop_dispatch`: pass (Wayland first, then the rest), position, the count to
consume. A callback is a state (`pc = "handler"`) in which `AddPoll`, `RemovePoll`,
`Stop` and `Reopen` may happen any number of times, as callbacks do.
`Reopen` is a descriptor number that comes back for another file; the one
client that does so while it is registered is the power governor's reconnection,
and `stale` says that its handler has yet to register again. The kernel may
refuse multishot polls, end them, complete with errors, wake spuriously, and fail
a submission. Generations are natural numbers: a wrap of the 32 bits needs 2^32
arms of one slot between the posting and the reading of one completion.

### DaemonLoop

One iteration of `main`: `Wait` takes the batch, the handlers empty it in any
order after Wayland, `EndBatch` decides whether to go on. Under `epoll` a batch is
what is readable; under `multishot` it is what has been woken since, so that two
wake-ups may be one event. The four descriptors stand for their kinds. The
accept loop is a state of its own (`pc = "accept"`), since clients keep coming
while it runs; every other handler is one step.

### PowerGovernor and PowerState

`gov` is the governor: for the session and for each output it knows, a set of
reasons to pause. Its operators are the functions of `power_governor.c` that feed
and ask it; events of Hyprland, Sway and niri are taken whole, after parsing.
`PowerState` adds the windows (`wayland_core.c`), the outputs, the flags of the
configuration and the engines: on which outputs, active, armed. Every action
ends with exactly the reconciliation the handler performs, and those that
perform none (`Pause`, `Image`, `Noted`, `AddOutput`) say so. `settled` is a
history variable: no window changed since the masks were computed.

### OutputEngines

The state is passed through operators as one record, as `daemon_state_t` is. `out`
has what an output refers to, `video` and `shows` the engines that exist: the
daemon's own (`Main`) and allocated ones. `shown` is a history variable: what
was put on each output last. `StopOn` is `stop_engines_on_output`, in its four parts `EndScene`,
`EndAnim`, `EndVideo` and `EndShow`; a handler that goes through the outputs is a recursive
function over their list (`EachReplaced`, `ControlEach`). The
other operators are named for what they put on outputs. A slideshow's tick
performs the request its item asks for, with itself as the presenting slideshow.
Left out, besides what the head of the module names: a video that ends after its
loop count, transitions, solar, schedule and workspace rules, and the fallback
that paints a shader on several outputs when there is no GPU.

### ServerSocket, Subscribers, StateStore, Palettes, AudioRings

`ServerSocket` splits the start of a daemon at the system calls (probe, unlink, bind,
listen) and its end likewise (leave the loop, unlink, close), lets daemons crash in
between, and gives one of them its socket from systemd. In `Subscribers` the
compaction of the table is one step, as the code runs it; a broadcast writes to a socket
that has room, has none, or takes a part. `EventFeed` is the promise: a snapshot, then
every event, whole and in order, until the stream ends; the refinement mapping reads
what a client has read and what its socket holds. `StateStore` keeps table, file
and temporary file apart, and a crash may come between any two of their changes. A request is for a
picture (an image or a colour) or an engine (a video, a shader, a scene or a slideshow), for named
monitors or for all, and `NamesOf` says under which names it is noted: a picture for all under `*` and
every plugged monitor's name (`ipc_server.c:1097`), an engine for all under `*` only (`ipc_server.c:1470`). An older
entry of a monitor then stays and is preferred (`state_store.c:328`), which `Overshadowed` describes;
`byEngine` is a history variable. Left out are requests that are not to be noted (`no_cache`) and
`SET_UNIFORM`, which changes a noted shader's properties.
`Palettes` has one action per handler that may export: a wallpaper, a solar tick, album
art that comes or goes, a reload. `AudioRings` interleaves the two threads at the accesses to the
shared indices: a period of PipeWire's thread loads the writer's index, loads its own, copies frame by frame and stores its
own, and in between the daemon may submit, clear, or give up half of a full ring. A sample is the number it was submitted or captured with.

### WallpaperOwner and Transitions

The day has four phases. `WallpaperOwner` keeps the flags by which `main.c` tells who
painted last, the timer, the schedule's rules with the place of the last one shown, and
what each output shows. `Transitions` keeps per output the delay, the frames to go and
the wallpaper it leads to; a tick of the shared timer steps each of them, and an output
without a free buffer skips the frame and counts as active.

### SurfaceBuffers and GpuCaches

The compositor is half of the module: commits and releases travel on a wire and are
handled later, buffers are held until it gives them back, and a destroyed buffer's
messages are lost. `front` is where the last committed picture is. `GpuCaches` keeps what GL has
bound, loaded and uploaded (`gl`, `unif`, `up`) next to what the engine believes of it (`note`); an action is one
call of the engine, scenes draw in its context between calls, other contexts become current, textures
are deleted and their names come back, pictures change in memory. `wrong` collects what a dispatch did not find as
it was meant to be.

### The media modules

`VideoPictures` decodes streams whose frames say what they refer to and whether they can
be decoded; surfaces are busy while anything needs them, and what a surface holds is
compared with what the stream meant. `RefLists` has lists as wide as the code's,
of which a modification moves the active places and one more (`Padded`, `Modified`); long-term pictures are left
out. It, `Demuxer` and `AnimFrames` are
algorithms: the operators follow the code's loops, and the properties compare their
results with a definition taken from what the format means (`Mp4Says`, `Whole`,
`FramesOf`).
`Players` lets names, owners, queries and answers come in any order the bus allows.

### The drawing modules

`CpuEffects` follows how each effect splits a row into runs, vector steps and single pixels
and compares with the effect's formula pixel by pixel; colours are places in the old and
the new picture. `ShaderPasses` compiles files that are lists of sections, code, macros
and channels, and draws frames with feedback textures. `Textures` keeps
the textures of two GL contexts next to what the engines believe of them. `ScenePasses` names every
picture for the pass that drew it and the pictures it read, draws a frame as the code does,
through two textures per object, textures of effects and of the scene, and a copy of the frame, and
compares it with what the passes mean (`MeantFrame`), whatever objects and effects are hidden,
shown or resized from frame to frame. `ScriptHeap` has the arena and the scratch space as one
function from addresses to cells; a statement of a script allocates and stores as the
interpreter does, the end of a callback (`EndCall`) copies out, cuts back and copies in, and `meant` is
what the same statements mean to values that live as long as they are needed. `LayerScripts` has
the two ways in which a callback reaches a layer, `thisLayer` and `getLayer`, each with a copy of
its own, and the order in which copies, a returned value and the user's properties come into the
layers; `meant` is what they would be if statements worked on the layers. In `Lifetimes` a
part is a sequence of steps, `Step(what, from, undone, next)`: it takes `what`, which is made
with `from`; if that fails the code's error path releases `undone`, in that order, and
goes on where `next` says.

## The runs

| run | instance | shows |
|---|---|---|
| `uring_safety` | 2 slots, 2 descriptors, a ring of 2, errors, `EAGAIN`, ended polls, 5 steps of the outside | the invariants of the loop, that a delivery is current, and that it implements `EventLoop` |
| `uring_live` | the same without faults, both kernels | a readable descriptor gets its callback |
| `daemon_loop` | both backends, three signals, KILL and other requests, a failing accept, 4 outside steps | signals, clients, timers and a lost compositor are noticed; at most one late client |
| `power_masks` | 2 outputs, a window, no compositor socket, unplugging, battery, shaders, 7 outside events | masks come from the windows that are there |
| `power_engines` | 1 output, all protocols, engines, policies and reloads, 4 outside events | timers follow visibility; session reasons follow their causes |
| `engines_apart` | 2 monitors that stay with videos and slideshows, one that comes and goes, every request | outputs show what they were given; no engine is lost, idle or freed too early; slideshows stay at home |
| `engines_replug` | a monitor with a video is replugged | finding: the restored video does not play |
| `services` | 4 daemons, one of them activated; 3 clients for 2 seats, sockets of one event, 2 events; 3 monitors, 3 entries, 2 requests; 4 wallpapers, one without cache, one without theme, and a cover; rings of 4, periods of 2, a window of 3, 10 samples, 3 streams for 2 places; some fifty set-ups | a daemon that serves is reachable; subscribers are closed for cause and the table implements `EventFeed`; what would be restored is what is shown, or the older entry of a monitor that shows an engine for all; the palette is the wallpaper's; samples come in order; nothing that is acquired is kept or released twice |
| `wallpapers` | 2 outputs; schedules of two and three rules, dark and light hours, rules of outputs; 2 frames, a delay of one tick, 2 requests | chosen wallpapers stay, the sun's hours are kept, the last request wins, transitions end |
| `surfaces` | a ring of 2, 2 sizes, transitions of one frame, 2 messages on the wire; 2 buffers of the engine, 2 effects, one scratch texture, 2 pictures at 2 places, 3 calls | the ring is left alone while it is read and loses no buffer; the front half keeps its pages; a dispatch finds in GL what it is meant to find |
| `content` | films of a few frames with pyramids, missing and damaged pictures; frame numbers below 4; files of two tracks, tables of all shapes, 4 samples; animations of 4 tokens; 3 pictures; 2 names, owners and slots; rows of 9 pixels in steps of 4; 6 shader files and the depth shader; 3 buffers, 2 engines; a scene of layers and one of effect chains, over outputs of two sizes; scripts of 4 statements in 3 rounds, 3 where memory is short; 2 layers, one or two slots, 3 callbacks | pictures, the samples of films, frames and slides come as they are meant and in order; the table of players settles; rows, passes, frames and textures are as meant; scripts keep their values, layers what was last written |
| `store_restore` | 2 monitors, 3 entries, 2 requests | finding: restoring brings back what an engine for all monitors had replaced |

Why the bounds are enough. Two slots and two descriptors let a slot and a
number be reused while completions of the earlier use are still in the ring, and a
ring of two entries fills up when a poll is replaced. The interesting cases need a
registration, its removal, another registration and an arrival: four outside
steps. In `DaemonLoop` two things must be pending on one descriptor while it is
handled. In `PowerState` a mask depends on one window and at most two outputs at a
time, and seven events are enough to open, place, cover, commit and unplug. In
`OutputEngines` there is no event bound; two spare engines of each sort suffice
because the instance's two monitors can hold two apart from the daemon's own.
In `Subscribers` a third client makes the table evict, and a socket of one event is full
after one broadcast and takes a part of the second. A ring of two buffers is full with one
shown and one on the wire. Rows of nine pixels hold two vector steps and a remainder, with every
position of a seam. Four samples in up to three chunks make every table of an MP4
file end a run in the middle of another's. A playback ring of four wraps within two periods.
Four statements of a script put a container into another, through which both of its variables reach
it, and three rounds make one callback change what the previous one left.
The parts in `Lifetimes` are not bounded: every step of each is failed.
Deadlock is not checked: the models' outside world is bounded or may stay quiet,
and a daemon may stop.

Fairness. `UringLoop` and `DaemonLoop` assume that the one thread goes on when it is
not blocked, which is what the loop in `main` does, and that the kernel works off
what was submitted. `PowerState` assumes that armed timers expire. `Transitions` assumes
that an armed timer expires (weakly), that a tick in which no output has to skip or fails
happens if it can again and again (strongly), and that the compositor gives buffers back:
without the last two an output may skip its frames for ever, as the code lets it.
Nothing is assumed of clients, windows, users or descriptors.

`services` and `surfaces` use symmetry: of daemons started by hand, of plain wallpapers,
of the sizes of a surface, of the places and pictures in memory. None of them has a liveness property.

`engines_apart` is narrow on purpose, and what it leaves out are cases in which
`DrawnAsAsked` or `NoLostEngine` does not hold of the code; see the known divergences.

## The proofs

`UringLoopProofs`, for any number of slots, descriptors, event kinds and ring
entries, any faults and any length of run, from `UringAssumption` only:

* `TagInvariant` and `TypeCorrect`. `TagInv` is inductive: a slot's tag carries its
  own current generation; whatever is on its way with a tag of a slot is of
  that generation or an earlier one; and what carries the current tag is a poll on
  the descriptor, and on the file, of the slot. Without the second part a re-armed
  slot might meet a completion from the future; without the third a current tag
  would say nothing about whose completion it is. `CallbackInv` and `ScanInv` carry
  the same facts across a callback and across the consumption of the ring.
* `CanceledStale` and `DeliveryCurrent` follow from it.
* `Refinement`: initial states map to initial states, and every step to a step of
  `EventLoop` or a stutter, again from `TagInv`.

Of its polls, from the same assumptions, each invariant on top of `TagInv`:

* `FlagTellsTruth`: `InFlightBacked`. The invariant `AwaitedInv` says what a slot in flight
  waits for, and, when that is a completion which has been taken from the ring, that the walk has
  not passed it: without the second half a flag could outlive the completion that should clear it.
* `NoPollOrphaned`: `NoOrphanPoll`, for loops whose submissions succeed (`Submits`). `Kept`
  follows a poll along the line that leads to the kernel, the submission ring behind what is
  already submitted: a poll that is in the line or armed is that of a slot in flight, or its
  withdrawal is behind it in the line; each tag has one poll; a completion that ends a request leaves
  none of its tag.
* `NobodyGoesDeaf`: `NoDeafSlot`, also with `Submits`. `HeardInv` names the slots that may
  be without a poll while the thread is inside of dispatch.

`Submits` is the assumption of the run `uring_safety` too. When `io_uring_submit` fails, `uring_loop_add_poll`
clears the slot and leaves its entry in the ring, and `uring_loop_remove_poll` gives up a
withdrawal if it cannot flush a full ring: there the two do not hold.

`DaemonLoop`: `LoopTypeCorrect`, and `OneLateClient` for `AtMostOneLateClient`. The count of
late clients is not enough: an iteration begins only while the daemon runs, a batch holds the
server's socket at most once, and the accept loop is left for good with the first answer given
after `running` is false.

`PowerStateProofs`, for any outputs, windows, events and configuration, from
`PowerGovernorAssumption` and `PowerStateAssumption`:

* `PowerTypes`, `BatteryMaskHolds`, `NoGhostOutputs`, `NoPhantomPauseHolds`. The
  inductive invariant `IInv` says that the state has its shape, that the governor is
  good (the battery reason is there exactly when it should be, and an
  output that is not known has no reason), that engines are on outputs that
  exist, and that without a compositor socket the governor knows only live outputs
  and has only reasons with a window behind them once the windows are settled.
* `EarlyReasonsMove`: `EarlyReasonMoves`, with `Moved`: once an output is focused the session
  has no window reason.
* `CoveredOutputsPause`: `CoveredIsPaused` without reloads (`NoReload`, as in the run
  `power_masks`): a reload that begins to want a reason computes no masks (`main.c:4504`). `CoverInv`
  says that windows are on live outputs only and that each live output's mask holds
  what its windows give it, as far as the windows' events are in.
* `NoFrozenEngine`: `AwakeWhenVisible` on a machine with one output (`OneOutput`, as in
  `power_engines`), with all protocols, reloads and hotplug. With two it is false: `should_pause_all` asks
  only the outputs the governor has heard of (`power_governor.c:957`). `AwakeInv` adds what
  happens to an engine that is not awake: a video has its timer until the first frame is decoded,
  and an engine which waits for its timer to be armed waits on an output that is paused.

There is one lemma for each operator that changes the governor, one for each action, and
the theorems cite them.

`OutputEnginesProofs`, for any outputs and lists of targets, any requests and engines, from
`OutputEnginesAssumption`: `EnginesOutlastTheirOutputs` (`NoFreedEngine`). The inductive invariant `Sound` says that only
outputs that are plugged in refer to engines, that the video engines they refer to exist, and that the
slideshows do and are active. `Goes` is what each handler keeps while it stops engines and a slideshow may be presenting:
the list of outputs; references to slideshows are only lost; the one that presents stays active, so that it can claim its
outputs afterwards. Where a handler stops the daemon's own slideshow whatever shows it (a video for all
outputs, a clear), every output was released before, and this is what has to be shown. A handler that goes through
the outputs defines a function recursively; that the function exists, and what it is at the end, is
shown by least counterexample. Worlds are not typed, only the fields of their records are known: what an
engine plays says nothing about which engines there are.

`ServicesProofs`, for any number of daemons, clients, seats, events, monitors, entries, wallpapers, samples and streams:

* Socket: `SockTypeCorrect`; `ServesWhoIsReached` (`ServingIsReachable`) and `NamespaceHasOneDaemon`
  when starts do not overlap, as in the run. The invariant: the path is systemd's or belongs to
  the one daemon that serves or leaves; who starts has found it refused.
* Subscribers: `SubTypeCorrect`; `EndedForCause` for the action property `ClosedForCause`; and
  `ClientsSeeTheFeed`, that the table implements `EventFeed`: initial states map to initial states, and every step
  of the table to a step of the feed or a stutter. What is needed is that a client is in the table at most
  once and only with a stream that has not ended, so that compacting the table loses and doubles nobody.
* Store: `StoreTypeCorrect`, `RestoredAsShown` (`StoredAsShown`), across crashes at any point. The
  table has one entry to a name; an entry of one monitor and the entry of all are
  followed through `UpdateAll`, a recursive function over the names a request is noted under. Entries
  carry the numbers of their requests, none of which is to come (`Dated`): so the entry of all that an engine leaves is
  newer than every monitor's own, and the monitors that show it either had none or are `Overshadowed`.
  `RequestFollowed` has this for a request, `RequestKeeps` that it disturbs no other monitor's.
* Palettes: `ColoursOfWallpaper` (`PaletteOfWallpaper`).
* Samples: `SamplesKeepOrder` (`SamplesInOrder`), from `AudioAssumption`: the indices come round with the rings
  (2^32 is a multiple of their sizes) and distinguish more than a ring holds, and a window fits into the ring it is
  taken from. Indices come round and samples are counted for ever, so the invariants say for which count an index stands.
  `PlayInv`: unless the daemon moved the reader's index under a copy, there is a number R of frames played or
  given up of which the index is the remainder, also between the two loads that begin a period; the frames from R on are in the ring at their places, also while a
  submission is half written, because a submission takes no more than is free behind R; and what is being copied starts at R.
  `CaptureInv` has such a number for what was analysed last, and the window it left behind. `StreamInv`: the tracked
  streams are there, and all that are there are tracked unless one was missed.

`SurfacesProofs`, of the buffers and for rings of any size, any sizes of surfaces, frames and messages on the wire:
`SurfaceInvariant`, `FlagsReturn` (`NoLeakedBuffer`) and `DrawingDisturbsNothing` (the action property
`ScreenKept`). `SurfInv` says that a ring buffer is on its way to the compositor, with it, or on its
way back, in one of these places at a time, and that its flag is set then and only then; and that the half
committed last is the active one. The handlers are functions of the state, and a lemma for each says whether
it commits nothing, at most one free buffer, or what `ScreenKept` asks.

Of the compute engine, from `CacheAssumption`: `CachesSound` (`BoundAsWanted`), for any buffers, sizes, effects, values,
scratch textures and pictures, and any number of calls. `Noted` is inductive: between calls what the engine notes of
the program, the images and the textures it bound is true, as far as the notes name buffers or scratch
textures. In the middle of a call that need not be so; what holds at every point of a call is `Calm`, about the
framebuffer, the sizes of the scratch textures, the copies of uniforms, and the address and freshness of what was
uploaded. There is a lemma for each thing a call is made of (a context made current, a texture made or
deleted, a scratch texture found, a binding, an upload), and each dispatch is preceded by the bindings that make its
notes true. A note may name a texture that is gone, but not one of a buffer or a scratch texture: their names
come back, and then the engine has forgotten them.

`WallpapersProofs`:

* `TransTypeCorrect`, `LastOneWins` (`LastRequestWins`) and `TransitionsTimed`, for any outputs, frames,
  delays and requests. `TransInv`: a transition that is on leads to what was asked for last and
  has frames left, and its timer is armed or due; so whatever ends it leaves that wallpaper behind.
  The staggered delays need that a finite set of outputs can be numbered.
* `OwnerTypeCorrect` and `OwnersKeep` (`OwnersKeepTheirs`), for any outputs, schedules and images.
  `OwnerInv`: once something is chosen on an output the sun does not own the wallpaper and no manifest
  is for that output or for all, so that a tick, which draws for the sun or on a manifest's
  outputs, leaves it alone; a timer that is owed follows from the owner. That of rules with times the
  one that began last is picked is a lemma about `ChosenRule`, for every schedule.
* `WallpapersKeep` carries these to the specification the run checks.

`Compaction` has the lemmas on tables: what `Compact` returns has the members that stay, once each if they
were there once, in a sequence no longer than before. It counts ranks instead of recursing, because no
induction over sequences can be instantiated. Its one induction is `LeastNatural`, which follows from the
well-foundedness of finite sets under inclusion; greatest and latest elements follow from it.

### What is only model-checked

* Liveness: `ReadyServed`, `EventsServed`, `StopsWhenTold`, `FrameTimersSleep`, `TransitionsEnd`,
  `GivenVideoPlays`. The prover has no rule for fairness or `ENABLED`.
* Of `OutputEngines`, `DrawnAsAsked` and `NoLostEngine`: they are false of some instances (the known divergences),
  so that no theorem for all of them exists. `OthersUndisturbed` compares what outputs draw; the daemon's own
  video draws also on outputs that do not refer to it, and which these are rests on the same two.
* `NothingKept` walks `Lifetimes`' sequences of steps: each is a finite table without parameters which TLC goes
  through completely, so a proof would say no more than the run does.
* The properties of `content`. The tables of `Demuxer`, the values in `ScriptHeap` and the
  pictures of `VideoPictures` are RECURSIVE operators, which the prover does not accept in a module or in
  what it uses; the lists of `RefLists` and the lines of `ShaderPasses` are recursive functions whose
  results need the same induction.

`NoGhostOutputs` states `GovernedAreLive`, and `TransitionsTimed` states `Timed`, which no run
checks: they are proved for every instance.

## Findings

Two runs end in a violation of what the repository's documentation says; `PROJECT.json` quotes the lines.

* `engines_replug`: the restored video of a replugged monitor does not play.
* `store_restore`: a monitor is given an image, alone or with all others, then all are given a video; the
  image's entry stays, and restoring brings it back.

## Known divergences

What follows was met while modelling. The models describe what the code does; the properties
exempt these cases, by the instance, by a condition in the property, or because
nothing in the repository promises otherwise.

The loop and power:

* Under io_uring a SIGTERM that is pending behind a SIGHUP stays unread (`main.c:4752`; `wwald.1:203`
  says that it ends the daemon). After a failed accept clients wait for the next one.
* An engine started on an output that was plugged in while all others are paused stands still
  until some mask changes (`power_governor.c:957`; `wwal-config.5:56`); `AwakeWhenVisible` is checked with one output, where this cannot happen.
* A video started while everything is paused wakes up every 250 ms (`video_engine.c:1141`; `wwald.1:80`);
  `FrameTimersSleep` is about shaders and animations only.
* `pause_on_idle = false` is ignored unless `idle_timeout_sec` is 0 (`wayland_core.c:311`; `wwal-config.5:71`).
* Masks are not recomputed on a reload (`main.c:4504`); an image request may change the policy or
  end a manual pause and leaves other outputs' timers as they were (`ipc_server.c:950`).

Engines and outputs:

* The daemon's own video, started for all outputs, survives a video given to one of them and
  comes back when an image is given to that one (`main.c:463`; `README.md:26`).
* A video joined by a second output that is then replaced, or whose load fails,
  goes on unseen, and a later join to the same file stops it.
* A slideshow for all outputs takes an output that was plugged in later, although
  something else was put there; a slideshow restored there is then lost with its timer registered.
* With three outputs, re-targeting the daemon's own video takes it from a third one (`main.c:2657`). A
  client's video for several outputs, followed by another, loses the engine of the
  first (`ipc_server.c:1294`).

Wallpapers and palettes:

* An output that is plugged in with nothing saved lets the sun paint over every output's
  wallpaper (`main.c:4056`); one with a saved entry takes it from the sun everywhere (`main.c:525`).
* A client's image for one output ends the manifest of another (`ipc_server.c:1015`). A reload before
  the first palette lets the sun take over (`main.c:4638`).
* A solar tick while media play takes the palette of a `no_cache` wallpaper after all (`main.c:3960`); a
  switch between light and dark by a reload meanwhile leaves the saved palette stale; a
  `no_theme` wallpaper leaves the album art's palette exported when the music stops.
* An output at rest that is resized is repainted with the newest picture, also when that was
  meant for another; one resized in a transition keeps the frame it had.

Surfaces and services:

* Halves of the shared memory are drawn over although the compositor may still read
  them (`layer_shell.c:1757`; `output_state.h:127`).
* A transition after a failed upload starts from another picture than the one that is seen.
* Two daemons that start at once over a stale socket file can unlink each other's (`ipc_proto.c:109`);
  `ServingIsReachable` is checked and proved without such starts, and fails with `Overlap = TRUE`.
* An output plugged in before the compositor's dma-buf feedback gets no surface (`wayland_core.c:731`).
  `daemon_wayland_init` does not release what it bound when it fails (`wayland_core.c:806`); the
  process then exits.

Media:

* HEVC's references leave the decoder first in, first out (`video_vaapi.c:1484`), so long-lived ones
  are lost; failing VP9 and AV1 frames leave stale slots; after a failed picture what waits is
  shown at once.
* WebM clusters of unknown size hide the later ones; of several video tracks WebM takes the last,
  MP4 the first; a file that ends early ends the pass, and reading goes on behind it.
* An animation whose frame cannot be decoded stays there and is tried again every 100 ms.
* A player's status that is told by invalidation is lost when duplicates are merged (`mpris.c:512`).
* When the writer moves the playback ring's read index inside a period, the period's store undoes that
  (`audio_fft.c:812`, `1561`); `SamplesInOrder` promises nothing afterwards.
* A random slideshow may show a picture twice after a rescan (`slideshow.c:567`).

Drawing:

* Beyond 32 textures an engine forgets one that is still in use (`shader_engine.c:2417`); texture
  numbers of the two contexts may coincide (`shader_engine.c:3378`); contexts are shared in ways that
  leave a scene without its own (`we_scene.c:380`, `412`, `423`).
* A shader file may change between its load and its watch (`shader_engine.c:2309`); the depth
  shader leaves the watch's descriptor readable (`shader_engine.c:2338`); a new file that fails is
  watched while the old passes run.
* A scene object's second texture keeps its old size when the object is resized (`we_scene.c:2215`);
  passes that blend are drawn onto whatever is left in it (`we_scene.c:2324`); a seventeenth named
  target is not made and its pass draws into the chain instead (`we_scene.c:670`). A layer's composite
  is not refreshed when all of the layer's effects are hidden.
* After a script's callback, structures deeper than 64 are left referring to memory that is used again
  (`we_script.c:3301`, `3429`), and so is everything of a script whose own statements were stopped
  (`we_script.c:3079`). When the table of 1024 forwards is full, shared values are doubled. A script with
  text properties and no callback takes memory every frame until none is left (`we_script.c:3147`).
* A callback that reaches its own layer both as `thisLayer` and through `getLayer` works on two copies, and
  the second one wins (`we_script.c:898`, `we_scene_parse.c:726`). Of several commands to one sound only the last
  counts, so `stop()` and `play()` do not start it again (`we_script.c:954`).
* An SVG's handle leaks without `g_object_unref`; `we_shader_preprocess_pair` frees what it has
  not set when memory runs out (`we_shader.c:1687`).
* The client's thumbnail cache is written in place, without a rename.

## Plan

What is left, in this order:

1. Theorems about the parts of `content` whose state is sets and functions:
   `SlideOrder`, `LayerScripts`.
2. The EGL contexts and who may delete what in which.
3. The lookup in Workshop packages; globals and feedback of the compositor; the phase-locked
   loop of presentation; the client's connection.
4. `FdWalk`: the walk over the outputs whose handler pumps Wayland and may remove one.

Components that do not interact share an MC module whose next-state relation is the
disjunction of theirs, so that one run checks them together.

## Not modelled, and why

Pixels and kernels of single pixels; texts of shaders; what the script interpreter computes; parsers of
foreign file formats and of the configuration (one call each, no state across calls, fuzzed
by the repository); slice headers and driver calls of hardware decoding; colour science
(numerical functions); paths and curves; the sandbox (system calls made once); the client's
command line and output. H.264's picture order count of type 1 with wrapping frame numbers and
memory operation 5 is left out of `RefLists`, and so are long-term pictures. Each component is listed with its reason
in `PROJECT.json`.
