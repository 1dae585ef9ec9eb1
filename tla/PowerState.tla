------------------------------ MODULE PowerState ------------------------------
(***************************************************************************)
(* When the daemon's animations run: the frame timers of the shader, the   *)
(* animated image and the video engine (src/daemon/main.c,                 *)
(* daemon_reconcile_power_state and the three dispatchers), driven by the  *)
(* governor (PowerGovernor), the windows the compositor reports            *)
(* (wayland_core.c, recompute_wlr_toplevel_power_state), hotplug, client   *)
(* requests (ipc_server.c) and reloads.                                    *)
(*                                                                         *)
(* The daemon has one thread, so a handler is one step; which handlers end *)
(* in daemon_reconcile_power_state, and which do not, is what the          *)
(* properties are about.  A timer is armed or not, its rate is left out.   *)
(* One video engine is modelled, the daemon's own.                         *)
(*                                                                         *)
(* Bounds: MaxEnv caps the events from outside; Actors, Started and        *)
(* Flavors choose which of them a run looks at.                            *)
(***************************************************************************)
EXTENDS PowerGovernor

CONSTANTS Plugged,      \* the sets of outputs the daemon may start with
          Windows,      \* toplevel windows
          Flavors,      \* compositor sockets the daemon may find
          IdleTimeouts, \* idle_timeout_sec in the configuration
          Actors,       \* who acts: "windows", "ipc", "battery", "idle", ...
          Started,      \* engines that clients start
          MaxEnv

ASSUME PowerStateAssumption ==
    /\ Plugged \subseteq SUBSET Outputs
    /\ Flavors \subseteq {"none", "hyprland", "sway", "niri"}
    /\ IdleTimeouts \subseteq Nat /\ MaxEnv \in Nat

Kinds == {"shader", "anim", "video"}
Flags == WindowReasons \cup {"minimized"}

VARIABLES
    gov,      \* the governor
    flavor,   \* the compositor found at start
    ipc,      \* is its socket open?
    idle,     \* pause_on_idle, and whether an idle notification exists
    live,     \* the outputs of the daemon
    win,      \* the windows: there, on which outputs, with which flags
    settled,  \* no window changed since the masks were computed
    eng,      \* the engines, see Engines
    env       \* events from outside so far

vars == <<gov, flavor, ipc, idle, live, win, settled, eng, env>>

(* on: outputs an engine was started on; active: the global flag (for the  *)
(* video engine its state); filter, decoded: has_target_filter and         *)
(* has_decoded_any of the video engine.                                    *)
Engines ==
    [on : [Kinds -> SUBSET Outputs], active : [Kinds -> {"off", "on", "paused"}],
     armed : [Kinds -> BOOLEAN], filter : BOOLEAN, decoded : BOOLEAN]

NoWindow == [there |-> FALSE, outs |-> {}, flags |-> {}]

Init ==
    /\ \E policy \in Policies, onBattery \in BOOLEAN, allowed \in SUBSET WindowReasons :
          gov = SyncBattery([known |-> {}, mask |-> [o \in Outputs |-> {}],
                             global |-> {}, focused |-> NoOutput,
                             onBattery |-> onBattery, policy |-> policy,
                             allowed |-> allowed,
                             niriOut |-> NoOutput, niriWin |-> Unidentified])
    /\ flavor \in Flavors /\ ipc = (flavor # "none")
    /\ \E pause \in BOOLEAN, timeout \in IdleTimeouts :
          idle = [wanted |-> pause, bound |-> pause \/ timeout > 0]
    /\ live \in Plugged
    /\ win = [w \in Windows |-> NoWindow] /\ settled = TRUE
    /\ eng = [on |-> [k \in Kinds |-> {}], active |-> [k \in Kinds |-> "off"],
              armed |-> [k \in Kinds |-> FALSE], filter |-> FALSE, decoded |-> FALSE]
    /\ env = 0

From(actor) == actor \in Actors /\ env < MaxEnv /\ env' = env + 1

-----------------------------------------------------------------------------
(* The windows and the masks computed from them.                           *)

OnOutputAlone(w, o, wins, outs, socket) ==                 \* seeded fault
    wins[w].outs = {o} \/ (wins[w].outs = {} /\ outs = {o} /\ ~socket)
OnOutput(w, o, wins, outs, socket) ==
    \/ o \in wins[w].outs
    \/ wins[w].outs = {} /\ outs = {o} /\ ~socket

Shown(r, o, wins, outs, socket) ==
    \E w \in Windows : /\ r \in wins[w].flags /\ "minimized" \notin wins[w].flags
                       /\ OnOutput(w, o, wins, outs, socket)

(* recompute_wlr_toplevel_power_state: with a compositor socket, which     *)
(* reports fullscreen windows itself, only the maximized ones count.       *)
RecomputeOnlyAdds(g, wins, outs, socket) ==                \* seeded fault
    LET computed == IF socket THEN {"maximized"} ELSE WindowReasons
    IN [g EXCEPT !.known = @ \cup outs,
                 !.mask = [o \in Outputs |-> IF o \notin outs THEN @[o] ELSE
                     @[o] \cup {r \in computed \cap g.allowed :
                                   Shown(r, o, wins, outs, socket)}]]
Recompute(g, wins, outs, socket) ==
    LET computed == IF socket THEN {"maximized"} ELSE WindowReasons
        Paused(o) == {r \in computed \cap g.allowed : Shown(r, o, wins, outs, socket)}
    IN [g EXCEPT !.known = @ \cup outs,
                 !.mask = [o \in Outputs |-> IF o \in outs
                           THEN (@[o] \ computed) \cup Paused(o) ELSE @[o]],
                 !.global = @ \ {r \in computed : \E o \in outs : r \notin Paused(o)}]

MasksDiffer(g, h) == \E o \in live : OutputMask(g, o) # OutputMask(h, o)

-----------------------------------------------------------------------------
(* The engines.                                                            *)

VideoOutputs(e, outs) == IF e.filter THEN e.on["video"] ELSE outs
OutputsOf(e, k, outs) == IF k = "video" THEN VideoOutputs(e, outs) ELSE e.on[k]

(* Some output of the engine is awake; without any output only what holds  *)
(* for the whole session counts.                                           *)
Visible(e, g, k, outs) ==
    LET mine == OutputsOf(e, k, outs)
    IN IF mine = {} THEN AwakeAnywhere(g) ELSE \E o \in mine : Awake(g, o)

(* The first frame of a video is never held back. *)
Governed(e, k) == e.active[k] = "on" /\ (k = "video" => e.decoded)

ReconcileDisarms(e, g, outs) ==                            \* seeded fault
    [e EXCEPT !.armed = [k \in Kinds |->
        @[k] /\ (Governed(e, k) => Visible(e, g, k, outs))]]
Reconcile(e, g, outs) ==
    [e EXCEPT !.armed = [k \in Kinds |->
        IF Governed(e, k) THEN ~ShouldPauseAll(g) /\ Visible(e, g, k, outs)
        ELSE @[k]]]

StopVideo(e) ==
    [e EXCEPT !.on["video"] = {}, !.active["video"] = "off",
              !.armed["video"] = FALSE, !.filter = FALSE, !.decoded = FALSE]

(* stop_engines_on_output for every output of a non-empty set: a video     *)
(* that is left on some other output goes on there.                        *)
StopOn(e, targets) ==
    LET f == [e EXCEPT !.on = [k \in Kinds |-> @[k] \ targets]]
    IN IF e.active["video"] = "off" THEN f
       ELSE IF f.on["video"] = {} THEN StopVideo(f) ELSE [f EXCEPT !.filter = TRUE]

(* shader_engine_stop_playback, anim_engine_stop_playback *)
StopAll(e) ==
    StopVideo([e EXCEPT !.on = [k \in Kinds |-> {}], !.active = [k \in Kinds |-> "off"],
                        !.armed = [k \in Kinds |-> FALSE]])

(* reconcile_global_engine_flags: without outputs the flags stay. *)
Flagged(e, outs) ==
    LET active == [k \in Kinds |-> IF outs = {} \/ k = "video" THEN e.active[k]
                                   ELSE IF e.on[k] # {} THEN "on" ELSE "off"]
    IN [e EXCEPT !.active = active,
                 !.armed = [k \in Kinds |-> @[k] /\ (k # "video" => active[k] = "on")]]

-----------------------------------------------------------------------------
(* Events the governor gets.                                               *)

Names == Outputs \cup {NoOutput}

IpcEvents ==
    CASE flavor = "hyprland" ->
             {HyprFocusedMon(gov, o) : o \in Outputs} \cup {HyprWorkspace(gov)}
             \cup {HyprFullscreen(gov, on) : on \in BOOLEAN}
      [] flavor = "sway" ->
             {SwayPayload(gov, o, mode) : o \in Names, mode \in {"none", "on", "off"}}
      [] flavor = "niri" ->
             {NiriEvent(gov, o, kind, id, field) :
                 o \in Names, kind \in {"activated", "closed", "windows", "other"},
                 id \in WinIds \cup {Unidentified}, field \in {"none", "on", "off"}}
      [] flavor = "none" -> {}

(* Each of these ends in daemon_reconcile_power_state. *)
Governor(g) ==
    /\ gov' = g /\ eng' = Reconcile(eng, g, live)
    /\ UNCHANGED <<flavor, idle, live, win, settled>>

IpcLine == From("ipc") /\ ipc /\ \E g \in IpcEvents : Governor(g) /\ UNCHANGED ipc

(* One attempt to connect again, and no other if it fails.  What the       *)
(* compositor said before stays.                                           *)
IpcLost == From("ipc") /\ ipc /\ ipc' \in BOOLEAN /\ Governor(gov)

Battery ==
    \E onBattery \in BOOLEAN :
        From("battery") /\ Governor(PollBattery(gov, onBattery)) /\ UNCHANGED ipc

Idled ==
    From("idle") /\ idle.bound /\ Governor(SetGlobal(gov, "idle", TRUE)) /\ UNCHANGED ipc

Resumed ==
    /\ From("idle") /\ "idle" \in gov.global
    /\ Governor(SetGlobal(gov, "idle", FALSE)) /\ UNCHANGED ipc

-----------------------------------------------------------------------------
(* Windows: enter and state wait for done, leave and closed do not.        *)

Recomputed(wins) ==
    LET g == Recompute(gov, wins, live, ipc)
    IN /\ win' = wins /\ gov' = g /\ settled' = TRUE
       /\ eng' = IF MasksDiffer(gov, g) THEN Reconcile(eng, g, live) ELSE eng
       /\ UNCHANGED <<flavor, ipc, idle, live>>

Noted(wins) ==
    /\ win' = wins /\ settled' = (settled /\ wins = win)
    /\ UNCHANGED <<gov, flavor, ipc, idle, live, eng>>

Opened(w) ==
    /\ From("windows") /\ ~win[w].there
    /\ Noted([win EXCEPT ![w].there = TRUE])

Entered(w, o) ==
    /\ From("windows") /\ win[w].there /\ o \in live
    /\ Noted([win EXCEPT ![w].outs = @ \cup {o}])

StateOf(w, flags) ==
    From("windows") /\ win[w].there /\ Noted([win EXCEPT ![w].flags = flags])

Done(w) == From("windows") /\ win[w].there /\ Recomputed(win)

Left(w, o) ==
    /\ From("windows") /\ o \in win[w].outs
    /\ Recomputed([win EXCEPT ![w].outs = @ \ {o}])

Closed(w) == From("windows") /\ win[w].there /\ Recomputed([win EXCEPT ![w] = NoWindow])

-----------------------------------------------------------------------------
(* Hotplug.                                                                *)

AddOutput(o) ==
    /\ From("plug") /\ o \notin live /\ live' = live \cup {o}
    /\ UNCHANGED <<gov, flavor, ipc, idle, win, settled, eng>>

(* registry_global_remove: the masks are computed before and after the     *)
(* governor forgets the output.  Destroying the surface takes the engines  *)
(* off it, but does not stop the video engine.                             *)
Removed(o, wins) ==
    Recompute(RemoveOutput(Recompute(gov, wins, live, ipc), o), wins, live \ {o}, ipc)

Unplug(o) ==
    LET wins == [w \in Windows |-> [win[w] EXCEPT !.outs = @ \ {o}]]
        g    == Removed(o, wins)
        e    == [eng EXCEPT !.on = [k \in Kinds |-> @[k] \ {o}]]
    IN /\ From("unplug") /\ o \in live /\ live' = live \ {o}
       /\ win' = wins /\ gov' = g /\ settled' = TRUE
       /\ eng' = Reconcile(Flagged(e, live \ {o}), g, live \ {o})
       /\ UNCHANGED <<flavor, ipc, idle>>

-----------------------------------------------------------------------------
(* Client requests.                                                        *)

Requested == UNCHANGED <<flavor, ipc, idle, live, win, settled>>

(* The timers are stopped by hand, without daemon_reconcile_power_state. *)
Pause ==
    /\ From("user") /\ Requested
    /\ gov' = SetGlobal(gov, "manual", TRUE)
    /\ eng' = [eng EXCEPT !.armed = [k \in Kinds |-> @[k] /\ eng.active[k] # "on"],
                          !.active["video"] = IF @ = "on" THEN "paused" ELSE @]

Unpause ==
    LET g == SetGlobal(gov, "manual", FALSE)
        e == IF eng.active["video"] = "paused"
             THEN [eng EXCEPT !.active["video"] = "on", !.armed["video"] = TRUE] ELSE eng
    IN /\ From("user") /\ Requested
       /\ gov' = g /\ eng' = Reconcile(e, g, live)

ManuallyPaused ==
    eng.active["video"] = "paused" \/ "manual" \in gov.global

Toggle == IF ManuallyPaused THEN Unpause ELSE Pause

(* A still or animated image on some outputs.  It may carry a battery      *)
(* policy, and it ends a manual pause; the timers of the engines it leaves *)
(* alone are not looked at.                                                *)
Image(targets, animated, policy) ==
    LET h == IF policy = "keep" THEN gov ELSE SetPolicy(gov, policy)
        g == SetGlobal(h, "manual", FALSE)
        e == IF live = {} THEN StopAll(eng)
             ELSE Flagged(StopOn(eng, targets), live)
        f == Flagged([e EXCEPT !.on["anim"] = @ \cup targets], live)
    IN /\ From("image") /\ Requested /\ gov' = g
       /\ eng' = IF ~animated \/ live = {} THEN e
                 ELSE [f EXCEPT !.armed["anim"] = @ \/ ~ShouldPauseAll(g)]

(* A shader is started on some outputs (without any output it stops all    *)
(* else and waits for one).                                                *)
StartShader(targets) ==
    LET e == IF live = {}
             THEN [StopAll(eng) EXCEPT !.active["shader"] = "on",
                                       !.armed["shader"] = eng.armed["shader"]]
             ELSE Flagged([StopOn(eng, targets) EXCEPT !.on["shader"] = @ \cup targets], live)
    IN /\ From("start") /\ Requested /\ UNCHANGED gov
       /\ eng' = Reconcile(e, gov, live)

(* A video gets the daemon's own engine when that is free; its first frame *)
(* is due at once.                                                         *)
StartVideo(targets, filter) ==
    LET e == IF live = {} THEN StopAll(eng) ELSE Flagged(StopOn(eng, targets), live)
        f == [e EXCEPT !.on["video"] = targets, !.filter = filter,
                       !.active["video"] = "on", !.armed["video"] = TRUE,
                       !.decoded = FALSE]
    IN /\ From("start") /\ Requested /\ UNCHANGED gov
       /\ e.active["video"] = "off" /\ (~filter => targets = live)
       /\ eng' = Reconcile(f, gov, live)

Targets == IF live = {} THEN {{}} ELSE (SUBSET live) \ {{}}

-----------------------------------------------------------------------------
(* A reload takes a new configuration, and computes no masks.              *)

Reload ==
    \E policy \in Policies, allowed \in SUBSET WindowReasons, pause \in BOOLEAN :
        LET g == SetAllowed(SetPolicy(gov, policy), allowed)
        IN /\ From("reload")
           /\ gov' = g /\ idle' = [idle EXCEPT !.wanted = pause]
           /\ eng' = Reconcile(eng, g, live)
           /\ UNCHANGED <<flavor, ipc, live, win, settled>>

-----------------------------------------------------------------------------
(* The timers.                                                             *)

Ticked == Requested /\ UNCHANGED <<gov, env>>

(* The shader timer is periodic: it goes on until it is disarmed. *)
ShaderTick ==
    /\ eng.armed["shader"] /\ eng.active["shader"] = "on" /\ Ticked
    /\ eng' = [eng EXCEPT !.armed["shader"] = ~ShouldPauseAll(gov)]

(* The other two are set again for every frame: an animation on a paused   *)
(* output looks again a quarter of a second later, and so does a video     *)
(* whose outputs are all paused, which does not ask for the pause of all.  *)
AnimTick ==
    LET looked == eng.active["anim"] = "on" /\ ~ShouldPauseAll(gov)
    IN /\ eng.armed["anim"] /\ Ticked
       /\ eng' = [eng EXCEPT !.armed["anim"] = looked /\ eng.on["anim"] # {},
                             !.active["anim"] = IF looked /\ eng.on["anim"] = {}
                                                THEN "off" ELSE @]

VideoTick ==
    /\ eng.armed["video"] /\ Ticked
    /\ IF eng.active["video"] # "on" THEN eng' = [eng EXCEPT !.armed["video"] = FALSE]
       ELSE eng' = [eng EXCEPT !.decoded = @ \/ ~Governed(eng, "video")]

-----------------------------------------------------------------------------

Next ==
    \/ IpcLine \/ IpcLost \/ Battery \/ Idled \/ Resumed \/ Reload
    \/ \E w \in Windows : Opened(w) \/ Done(w) \/ Closed(w)
    \/ \E w \in Windows, o \in Outputs : Entered(w, o) \/ Left(w, o)
    \/ \E w \in Windows, flags \in SUBSET Flags : StateOf(w, flags)
    \/ \E o \in Outputs : AddOutput(o) \/ Unplug(o)
    \/ Pause \/ Unpause \/ Toggle
    \/ \E targets \in Targets, policy \in Policies \cup {"keep"} :
          \/ Image(targets, FALSE, policy)
          \/ "anim" \in Started /\ Image(targets, TRUE, policy)
    \/ \E targets \in Targets :
          \/ "shader" \in Started /\ StartShader(targets)
          \/ "video" \in Started /\ \E filter \in BOOLEAN : StartVideo(targets, filter)
    \/ ShaderTick \/ AnimTick \/ VideoTick

Spec == Init /\ [][Next]_vars

(* A timer that is armed expires and the main loop hands it to its engine. *)
FairSpec == Spec /\ WF_vars(ShaderTick) /\ WF_vars(AnimTick) /\ WF_vars(VideoTick)

-----------------------------------------------------------------------------
(* Properties.                                                             *)

(* The shape of the state, and: an output the governor does not know has   *)
(* no reason of its own, and an engine is only on outputs that are there.  *)
TypeOK ==
    /\ gov \in Governors /\ flavor \in Flavors /\ ipc \in BOOLEAN
    /\ idle \in [wanted : BOOLEAN, bound : BOOLEAN]
    /\ live \subseteq Outputs /\ settled \in BOOLEAN
    /\ win \in [Windows -> [there : BOOLEAN, outs : SUBSET Outputs, flags : SUBSET Flags]]
    /\ eng \in Engines /\ env \in Nat
    /\ \A o \in Outputs \ gov.known : gov.mask[o] = {}
    /\ \A k \in Kinds : eng.on[k] \subseteq live

(* The battery pauses the session exactly while the machine is on battery  *)
(* and the policy in force, however it got in force, says so.              *)
BatteryMask ==
    "battery" \in gov.global <=> gov.onBattery /\ gov.policy = "pause"

(* Without a compositor socket the governor knows no output that is gone.  *)
GovernedAreLive == flavor = "none" => gov.known \subseteq live

(* Without a compositor socket, an output with a fullscreen or maximized   *)
(* window is paused for it once the window's events are in, if the         *)
(* configuration wants that.                                               *)
CoveredIsPaused ==
    flavor = "none" /\ settled =>
        \A o \in live, w \in Windows :
            LET covering == win[w].flags \cap gov.allowed
            IN o \in win[w].outs /\ "minimized" \notin win[w].flags
                   => covering \subseteq OutputMask(gov, o)

(* And a window reason is never left behind: some window that may be on    *)
(* the output has it.                                                      *)
NoPhantomPause ==
    flavor = "none" /\ settled =>
        \A o \in live : \A r \in OutputMask(gov, o) \cap WindowReasons :
            \E w \in Windows : /\ r \in win[w].flags /\ "minimized" \notin win[w].flags
                               /\ o \in win[w].outs \/ win[w].outs = {}

(* Under Hyprland a window reason that came before the first focused       *)
(* output does not stay with the whole session.                            *)
EarlyReasonMoves ==
    flavor = "hyprland" /\ gov.focused # NoOutput => gov.global \cap WindowReasons = {}

(* An engine that is running and has an output that is not paused has its  *)
(* timer armed.                                                            *)
AwakeWhenVisible ==
    \A k \in Kinds :
        /\ eng.active[k] = "on"
        /\ \E o \in OutputsOf(eng, k, live) : Awake(gov, o)
        => eng.armed[k]

AllPaused == live # {} /\ \A o \in live : ~Awake(gov, o)

(* While every output is paused the timers of shaders and animated images  *)
(* are off (main.c, daemon_reconcile_power_state): they may still expire   *)
(* once, and they stay off until some output is not paused.                *)
FrameTimersSleep ==
    AllPaused ~> (~AllPaused \/ ~(eng.armed["shader"] \/ eng.armed["anim"]))
==============================================================================
