----------------------------- MODULE PowerGovernor -----------------------------
(***************************************************************************)
(* The power governor of wwald (src/daemon/power_governor.c) as operators  *)
(* on its record.  The governor keeps the set of reasons to pause that     *)
(* hold for the whole session (global) and for each output it knows by     *)
(* name (mask), fed by compositor events, sysfs, the idle notifier and the *)
(* user.  It knows an output from the first event that names it until      *)
(* remove_output, whether or not the output is there.                      *)
(*                                                                         *)
(* The reasons no code sets (unmapped, occluded) are left out, and so is   *)
(* the limit of 16 known outputs.                                          *)
(***************************************************************************)
EXTENDS Naturals

CONSTANTS Outputs,   \* names of outputs
          WinIds,    \* window ids in Niri events
          NoOutput   \* the empty name

ASSUME PowerGovernorAssumption == NoOutput \notin Outputs

WindowReasons == {"fullscreen", "maximized"}
Reasons       == WindowReasons \cup {"idle", "battery", "manual"}
Policies      == {"ignore", "reduce", "pause"}
Unidentified  == 0     \* an event without a window id

Governors ==
    [known : SUBSET Outputs, mask : [Outputs -> SUBSET WindowReasons],
     global : SUBSET Reasons, focused : Outputs \cup {NoOutput},
     onBattery : BOOLEAN, policy : Policies, allowed : SUBSET WindowReasons,
     niriOut : Outputs \cup {NoOutput}, niriWin : WinIds \cup {Unidentified}]

-----------------------------------------------------------------------------
(* The primitives.                                                         *)

Know(g, o) == [g EXCEPT !.known = @ \cup {o}]

SetGlobal(g, r, active) ==
    [g EXCEPT !.global = IF active THEN @ \cup {r} ELSE @ \ {r}]

(* A window reason that ends on an output also ends globally. *)
SetOutput(g, o, r, active) ==
    IF active THEN [Know(g, o) EXCEPT !.mask[o] = @ \cup {r}]
    ELSE [Know(g, o) EXCEPT !.mask[o] = @ \ {r}, !.global = @ \ {r}]

SetReason(g, o, r, active) ==
    IF o = NoOutput THEN SetGlobal(g, r, active) ELSE SetOutput(g, o, r, active)

RemoveOutput(g, o) ==
    [g EXCEPT !.known = @ \ {o}, !.mask[o] = {}]

SyncBattery(g) ==
    SetGlobal(g, "battery", g.onBattery /\ g.policy = "pause")

SetPolicyNoSync(g, policy) == [g EXCEPT !.policy = policy] \* seeded fault
SetPolicy(g, policy)      == SyncBattery([g EXCEPT !.policy = policy])
PollBattery(g, onBattery) == SyncBattery([g EXCEPT !.onBattery = onBattery])
SetAllowed(g, allowed)    == [g EXCEPT !.allowed = allowed]

-----------------------------------------------------------------------------
(* What the daemon asks.                                                   *)

Allowed(g) == (Reasons \ WindowReasons) \cup g.allowed

OutputMask(g, o) == (g.global \cup g.mask[o]) \cap Allowed(g)

(* Outputs the governor was never told about do not count. *)
ShouldPauseAllOutputs(g) ==                                \* seeded fault
    g.known # {} /\ \A o \in g.known : g.mask[o] \cap Allowed(g) # {}
ShouldPauseAll(g) ==
    \/ g.global \cap Allowed(g) # {}
    \/ /\ g.known # {}
       /\ \A o \in g.known : g.mask[o] \cap Allowed(g) # {}

(* waywal_power_governor_effective_fps is not zero for this output; the     *)
(* rate itself (at most 24 on a battery) is left out.                      *)
Awake(g, o)      == OutputMask(g, o) = {}
AwakeAnywhere(g) == g.global \cap Allowed(g) = {}

-----------------------------------------------------------------------------
(* Compositor events.                                                      *)

Focus(g, o) == Know([g EXCEPT !.focused = o], o)

(* Hyprland.  A window reason that came before the first focused output is *)
(* moved to that output.                                                   *)
HyprFocusedMonForgets(g, o) == Focus(g, o)                 \* seeded fault
HyprFocusedMon(g, o) ==
    [Focus(g, o) EXCEPT !.mask[o] = @ \cup (g.global \cap WindowReasons),
                        !.global = @ \ WindowReasons]

HyprFullscreen(g, on) ==
    SetReason(IF on THEN g ELSE SetGlobal(g, "fullscreen", FALSE),
              g.focused, "fullscreen", on)

HyprWorkspace(g) ==
    SetReason(SetGlobal(g, "fullscreen", FALSE), g.focused, "fullscreen", FALSE)

(* Sway: one payload may name an output, and may carry a fullscreen mode   *)
(* ("none" when the field is absent).                                      *)
SwayPayload(g, o, mode) ==
    LET h == IF o = NoOutput THEN g ELSE Focus(g, o)
    IN IF mode = "none" THEN h
       ELSE SetReason(IF mode = "on" THEN h ELSE SetGlobal(h, "fullscreen", FALSE),
                      h.focused, "fullscreen", mode = "on")

(* Niri: the governor remembers the last output and window that went       *)
(* fullscreen, and takes an event without an id to be about that window.   *)
SameWindow(g, id) ==
    g.niriOut # NoOutput /\ (id = Unidentified \/ g.niriWin \in {Unidentified, id})

Forget(g) == [g EXCEPT !.niriOut = NoOutput, !.niriWin = Unidentified]

EndFullscreen(g, o) ==
    IF o = NoOutput THEN g ELSE SetOutput(g, o, "fullscreen", FALSE)

NiriRemembered(g, id) ==
    LET h == SetGlobal(g, "fullscreen", FALSE)
    IN IF SameWindow(h, id) THEN Forget(EndFullscreen(h, h.niriOut)) ELSE h

NiriWorkspaceActivated(g) ==
    EndFullscreen(SetGlobal(g, "fullscreen", FALSE), g.focused)

NiriWindowClosed(g, id) == EndFullscreen(NiriRemembered(g, id), g.focused)

NiriWindowsChanged(g) ==
    Forget([g EXCEPT !.global = @ \ {"fullscreen"},
                     !.mask = [o \in Outputs |-> @[o] \ {"fullscreen"}]])

NiriFullscreen(g, id) ==
    LET moved == g.focused # NoOutput /\ g.niriOut # g.focused /\ SameWindow(g, id)
        h == IF moved THEN EndFullscreen(g, g.niriOut) ELSE g
    IN IF g.focused = NoOutput THEN SetGlobal(h, "fullscreen", TRUE)
       ELSE SetOutput([h EXCEPT !.niriOut = g.focused, !.niriWin = id],
                      g.focused, "fullscreen", TRUE)

NiriNotFullscreen(g, id) == EndFullscreen(NiriRemembered(g, id), g.focused)

(* One line from Niri: it may name an output, then what kind it is, then   *)
(* the fullscreen field (the first "true" wins over any "false").          *)
NiriEvent(g, o, kind, id, field) ==
    LET h == IF o = NoOutput THEN g ELSE Focus(g, o)
        k == CASE kind = "activated" -> NiriWorkspaceActivated(h)
               [] kind = "closed"    -> NiriWindowClosed(h, id)
               [] kind = "windows"   -> NiriWindowsChanged(h)
               [] kind = "other"     -> h
    IN CASE field = "on"   -> NiriFullscreen(k, id)
         [] field = "off"  -> NiriNotFullscreen(k, id)
         [] field = "none" -> k
==============================================================================
