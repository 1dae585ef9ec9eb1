--------------------------- MODULE PowerStateProofs ---------------------------
(***************************************************************************)
(* Proofs about PowerState: its type invariant; that the battery reason    *)
(* follows the battery and the policy; that without a compositor socket a  *)
(* window reason never outlives the windows it came from, and a covered    *)
(* output is paused; that under Hyprland an early window reason moves to   *)
(* the first focused output; and that on a machine with one output no      *)
(* running engine is left without its timer.                               *)
(*                                                                         *)
(* Good(g) is what every operator of the governor preserves.  The lemmas   *)
(* of the first part say so operator by operator; the inductive invariant  *)
(* of the second part adds what ties the governor to outputs and windows.  *)
(* The other parts each add what their property needs: Moved, CoverInv and *)
(* AwakeInv.                                                               *)
(***************************************************************************)
EXTENDS PowerState, TLAPS

Matches(g) == "battery" \in g.global <=> g.onBattery /\ g.policy = "pause"

Good(g) == /\ g \in Governors
           /\ \A o \in Outputs \ g.known : g.mask[o] = {}
           /\ Matches(g)

-----------------------------------------------------------------------------
(* Part 1: the governor.                                                   *)

(* A reason other than the battery's may be set and cleared globally. *)
LEMMA SetGlobalGood ==
    ASSUME NEW g, Good(g), NEW r \in Reasons \ {"battery"}, NEW active \in BOOLEAN
    PROVE  Good(SetGlobal(g, r, active))
  BY DEF Good, Matches, SetGlobal, Governors, Reasons, WindowReasons

(* To learn of an output, or to focus it, changes no reason. *)
LEMMA KnowGood ==
    ASSUME NEW g, Good(g), NEW o \in Outputs
    PROVE  Good(Know(g, o)) /\ Know(g, o).mask = g.mask
  BY DEF Good, Matches, Know, Governors

LEMMA FocusGood ==
    ASSUME NEW g, Good(g), NEW o \in Outputs
    PROVE  Good(Focus(g, o)) /\ Focus(g, o).focused = o
  BY DEF Good, Matches, Know, Focus, Governors

LEMMA SetOutputGood ==
    ASSUME NEW g, Good(g), NEW o \in Outputs, NEW r \in WindowReasons,
           NEW active \in BOOLEAN
    PROVE  Good(SetOutput(g, o, r, active))
  BY DEF Good, Matches, SetOutput, Know, Governors, Reasons, WindowReasons

LEMMA SetReasonGood ==
    ASSUME NEW g, Good(g), NEW o \in Outputs \cup {NoOutput},
           NEW r \in WindowReasons, NEW active \in BOOLEAN
    PROVE  Good(SetReason(g, o, r, active))
  BY SetOutputGood, SetGlobalGood DEF SetReason, Reasons, WindowReasons

LEMMA RemoveOutputGood ==
    ASSUME NEW g, Good(g), NEW o \in Outputs
    PROVE  Good(RemoveOutput(g, o))
  BY DEF Good, Matches, RemoveOutput, Governors

(* The battery is looked at again whenever one of its two inputs changes. *)
LEMMA BatteryGood ==
    ASSUME NEW g, g \in Governors, \A o \in Outputs \ g.known : g.mask[o] = {}
    PROVE  Good(SyncBattery(g))
  BY DEF Good, Matches, SyncBattery, SetGlobal, Governors, Reasons, WindowReasons

LEMMA SetPolicyGood ==
    ASSUME NEW g, Good(g), NEW policy \in Policies
    PROVE  Good(SetPolicy(g, policy))
  BY BatteryGood DEF Good, SetPolicy, Governors

LEMMA PollBatteryGood ==
    ASSUME NEW g, Good(g), NEW onBattery \in BOOLEAN
    PROVE  Good(PollBattery(g, onBattery))
  BY BatteryGood DEF Good, PollBattery, Governors

LEMMA SetAllowedGood ==
    ASSUME NEW g, Good(g), NEW allowed \in SUBSET WindowReasons
    PROVE  Good(SetAllowed(g, allowed))
  BY DEF Good, Matches, SetAllowed, Governors

(* The compositor events. *)
LEMMA HyprGood ==
    ASSUME NEW g, Good(g)
    PROVE  /\ \A o \in Outputs : Good(HyprFocusedMon(g, o))
           /\ \A on \in BOOLEAN : Good(HyprFullscreen(g, on))
           /\ Good(HyprWorkspace(g))
<1>. DEFINE h == SetGlobal(g, "fullscreen", FALSE)
<1>0. Good(h) /\ h.focused = g.focused /\ g.focused \in Outputs \cup {NoOutput}
  BY SetGlobalGood DEF Good, SetGlobal, Governors, Reasons, WindowReasons
<1>1. ASSUME NEW o \in Outputs PROVE Good(HyprFocusedMon(g, o))
  BY DEF Good, Matches, HyprFocusedMon, Focus, Know, Governors, Reasons, WindowReasons
<1>2. ASSUME NEW on \in BOOLEAN PROVE Good(HyprFullscreen(g, on))
  BY <1>0, SetReasonGood DEF HyprFullscreen, WindowReasons
<1>3. Good(HyprWorkspace(g))
  BY <1>0, SetReasonGood DEF HyprWorkspace, WindowReasons
<1>. QED BY <1>1, <1>2, <1>3

LEMMA SwayGood ==
    ASSUME NEW g, Good(g), NEW o \in Outputs \cup {NoOutput},
           NEW mode \in {"none", "on", "off"}
    PROVE  Good(SwayPayload(g, o, mode))
<1>. DEFINE h == IF o = NoOutput THEN g ELSE Focus(g, o)
            k == IF mode = "on" THEN h ELSE SetGlobal(h, "fullscreen", FALSE)
<1>1. Good(h) /\ h.focused \in Outputs \cup {NoOutput}
  BY FocusGood DEF Good, Governors
<1>2. Good(k)
  BY <1>1, SetGlobalGood DEF Reasons, WindowReasons
<1>3. Good(SetReason(k, h.focused, "fullscreen", mode = "on"))
  BY <1>1, <1>2, SetReasonGood DEF WindowReasons
<1>. QED BY <1>1, <1>3 DEF SwayPayload

LEMMA EndFullscreenGood ==
    ASSUME NEW g, Good(g), NEW o \in Outputs \cup {NoOutput}
    PROVE  Good(EndFullscreen(g, o))
  BY SetOutputGood DEF EndFullscreen, WindowReasons

LEMMA NiriRememberedGood ==
    ASSUME NEW g, Good(g), NEW id
    PROVE  Good(NiriRemembered(g, id))
<1>. DEFINE h == SetGlobal(g, "fullscreen", FALSE)
            k == EndFullscreen(h, h.niriOut)
<1>1. Good(h) /\ h.niriOut \in Outputs \cup {NoOutput}
  BY SetGlobalGood DEF Good, Governors, Reasons, WindowReasons
<1>2. Good(k)
  BY <1>1, EndFullscreenGood
<1>3. Good(Forget(k))
  BY <1>2 DEF Good, Matches, Forget, Governors
<1>. QED BY <1>1, <1>3 DEF NiriRemembered

LEMMA NiriGood ==
    ASSUME NEW g, Good(g), NEW o \in Outputs \cup {NoOutput},
           NEW kind \in {"activated", "closed", "windows", "other"},
           NEW id \in WinIds \cup {Unidentified}, NEW field \in {"none", "on", "off"}
    PROVE  Good(NiriEvent(g, o, kind, id, field))
<1>1. ASSUME NEW h, Good(h) PROVE h.focused \in Outputs \cup {NoOutput}
  BY <1>1 DEF Good, Governors
<1>2. ASSUME NEW h, Good(h)
      PROVE  /\ Good(NiriWorkspaceActivated(h))
             /\ Good(NiriWindowClosed(h, id))
             /\ Good(NiriNotFullscreen(h, id))
  <2>1. Good(SetGlobal(h, "fullscreen", FALSE))
    BY <1>2, SetGlobalGood DEF Reasons, WindowReasons
  <2>. QED BY <1>1, <1>2, <2>1, NiriRememberedGood, EndFullscreenGood
           DEF NiriWorkspaceActivated, NiriWindowClosed, NiriNotFullscreen
<1>3. ASSUME NEW h, Good(h) PROVE Good(NiriWindowsChanged(h))
  <2>. DEFINE k == [h EXCEPT !.global = @ \ {"fullscreen"},
                             !.mask = [p \in Outputs |-> @[p] \ {"fullscreen"}]]
  <2>1. Good(k)
    BY <1>3 DEF Good, Matches, Governors
  <2>. QED BY <2>1 DEF NiriWindowsChanged, Forget, Good, Matches, Governors
<1>4. ASSUME NEW h, Good(h) PROVE Good(NiriFullscreen(h, id))
  <2>. DEFINE k == IF /\ h.focused # NoOutput /\ h.niriOut # h.focused
                      /\ SameWindow(h, id)
                   THEN EndFullscreen(h, h.niriOut) ELSE h
  <2>1. h.niriOut \in Outputs \cup {NoOutput} /\ h.focused \in Outputs \cup {NoOutput}
    BY <1>4 DEF Good, Governors
  <2>2. Good(k)
    BY <1>4, <2>1, EndFullscreenGood
  <2>3. CASE h.focused = NoOutput
    BY <2>2, <2>3, SetGlobalGood DEF NiriFullscreen, Reasons, WindowReasons
  <2>4. CASE h.focused # NoOutput
    <3>. DEFINE m == [k EXCEPT !.niriOut = h.focused, !.niriWin = id]
    <3>1. Good(m)
      BY <2>1, <2>2, <2>4 DEF Good, Matches, Governors
    <3>2. Good(SetOutput(m, h.focused, "fullscreen", TRUE))
      BY <2>1, <2>4, <3>1, SetOutputGood DEF WindowReasons
    <3>. QED BY <2>4, <3>2 DEF NiriFullscreen
  <2>. QED BY <2>3, <2>4
<1>. DEFINE h == IF o = NoOutput THEN g ELSE Focus(g, o)
            k == CASE kind = "activated" -> NiriWorkspaceActivated(h)
                   [] kind = "closed"    -> NiriWindowClosed(h, id)
                   [] kind = "windows"   -> NiriWindowsChanged(h)
                   [] kind = "other"     -> h
<1>5. Good(h)
  BY FocusGood
<1>6. Good(k)
  BY <1>2, <1>3, <1>5
<1>7. Good(CASE field = "on"   -> NiriFullscreen(k, id)
             [] field = "off"  -> NiriNotFullscreen(k, id)
             [] field = "none" -> k)
  <2>. HIDE DEF k
  <2>. QED BY <1>2, <1>4, <1>6
<1>. QED BY <1>7 DEF NiriEvent

(* Taking the masks from the windows sets no reason that the windows and   *)
(* the configuration do not give, and learns of the outputs that are there. *)
LEMMA RecomputeGood ==
    ASSUME NEW g, Good(g), NEW wins, NEW outs \in SUBSET Outputs, NEW socket \in BOOLEAN
    PROVE  /\ Good(Recompute(g, wins, outs, socket))
           /\ Recompute(g, wins, outs, socket).known = g.known \cup outs
           /\ Recompute(g, wins, outs, socket).global \subseteq g.global
           /\ ~socket => \A o \in outs :
                  Recompute(g, wins, outs, socket).mask[o] \subseteq
                      {r \in WindowReasons : Shown(r, o, wins, outs, socket)}
<1>. DEFINE computed == IF socket THEN {"maximized"} ELSE WindowReasons
            Paused(o) == {r \in computed \cap g.allowed : Shown(r, o, wins, outs, socket)}
            mask == [o \in Outputs |-> IF o \in outs
                     THEN (g.mask[o] \ computed) \cup Paused(o) ELSE g.mask[o]]
            ended == {r \in computed : \E o \in outs : r \notin Paused(o)}
            h == [g EXCEPT !.known = @ \cup outs, !.mask = mask, !.global = @ \ ended]
<1>1. h = Recompute(g, wins, outs, socket)
  BY DEF Recompute
<1>2. \A o \in Outputs : Paused(o) \subseteq WindowReasons
  BY DEF WindowReasons
<1>3. mask \in [Outputs -> SUBSET WindowReasons]
  BY <1>2 DEF Good, Governors
<1>4. ended \subseteq WindowReasons
  BY DEF WindowReasons
<1>. HIDE DEF mask, ended
<1>5. /\ h.known = g.known \cup outs /\ h.mask = mask /\ h.global = g.global \ ended
      /\ h \in Governors
      /\ h.onBattery = g.onBattery /\ h.policy = g.policy
  BY <1>3 DEF Good, Governors
<1>6. Matches(h)
  BY <1>4, <1>5 DEF Good, Matches, WindowReasons
<1>7. \A o \in Outputs \ outs : mask[o] = g.mask[o]
  BY DEF mask
<1>8. \A o \in Outputs \ h.known : h.mask[o] = {}
  BY <1>5, <1>7 DEF Good
<1>9. ~socket => \A o \in outs : mask[o] = Paused(o)
  BY DEF mask, Good, Governors
<1>10. ~socket => \A o \in outs :
          Paused(o) \subseteq {r \in WindowReasons : Shown(r, o, wins, outs, socket)}
  OBVIOUS
<1>. HIDE DEF h, Paused, computed
<1>. QED BY <1>1, <1>5, <1>6, <1>7, <1>8, <1>9, <1>10 DEF Good

-----------------------------------------------------------------------------
(* The engines.                                                            *)

EnginesOn(e, outs) == e \in Engines /\ \A k \in Kinds : e.on[k] \subseteq outs

(* To arm or disarm timers moves no engine. *)
LEMMA ReconcileOn ==
    ASSUME NEW e, NEW outs \in SUBSET Outputs, EnginesOn(e, outs), NEW g
    PROVE  EnginesOn(Reconcile(e, g, outs), outs)
<1>. DEFINE armed == [k \in Kinds |-> IF Governed(e, k)
                        THEN ~ShouldPauseAll(g) /\ Visible(e, g, k, outs)
                        ELSE e.armed[k]]
<1>1. \A k \in Kinds : (~ShouldPauseAll(g) /\ Visible(e, g, k, outs)) \in BOOLEAN
  OBVIOUS
<1>2. \A k \in Kinds : e.armed[k] \in BOOLEAN
  BY DEF EnginesOn, Engines
<1>3. armed \in [Kinds -> BOOLEAN]
  BY <1>1, <1>2
<1>. HIDE DEF armed
<1>4. [e EXCEPT !.armed = armed] \in Engines /\ [e EXCEPT !.armed = armed].on = e.on
  BY <1>3 DEF EnginesOn, Engines
<1>5. Reconcile(e, g, outs) = [e EXCEPT !.armed = armed]
  BY DEF Reconcile, armed
<1>. QED BY <1>4, <1>5 DEF EnginesOn

LEMMA StopVideoOn ==
    ASSUME NEW e, NEW outs \in SUBSET Outputs, EnginesOn(e, outs)
    PROVE  EnginesOn(StopVideo(e), outs)
  BY DEF EnginesOn, StopVideo, Engines, Kinds

LEMMA StopOnOn ==
    ASSUME NEW e, NEW outs \in SUBSET Outputs, EnginesOn(e, outs), NEW targets
    PROVE  EnginesOn(StopOn(e, targets), outs)
<1>. DEFINE f == [e EXCEPT !.on = [k \in Kinds |-> @[k] \ targets]]
<1>1. EnginesOn(f, outs)
  BY DEF EnginesOn, Engines
<1>2. EnginesOn([f EXCEPT !.filter = TRUE], outs)
  BY <1>1 DEF EnginesOn, Engines
<1>. HIDE DEF f
<1>3. EnginesOn(StopVideo(f), outs)
  BY <1>1, StopVideoOn
<1>. QED BY <1>1, <1>2, <1>3 DEF StopOn, f

LEMMA StopAllOn ==
    ASSUME NEW e, NEW outs \in SUBSET Outputs, EnginesOn(e, outs)
    PROVE  EnginesOn(StopAll(e), outs)
<1>. DEFINE f == [e EXCEPT !.on = [k \in Kinds |-> {}],
                          !.active = [k \in Kinds |-> "off"],
                          !.armed = [k \in Kinds |-> FALSE]]
<1>1. EnginesOn(f, outs)
  BY DEF EnginesOn, Engines
<1>. HIDE DEF f
<1>. QED BY <1>1, StopVideoOn DEF StopAll, f

LEMMA FlaggedOn ==
    ASSUME NEW e, NEW outs \in SUBSET Outputs, EnginesOn(e, outs), NEW some
    PROVE  EnginesOn(Flagged(e, some), outs)
<1>. DEFINE active == [k \in Kinds |-> IF some = {} \/ k = "video" THEN e.active[k]
                                      ELSE IF e.on[k] # {} THEN "on" ELSE "off"]
            armed == [k \in Kinds |-> e.armed[k] /\ (k # "video" => active[k] = "on")]
<1>1. active \in [Kinds -> {"off", "on", "paused"}] /\ armed \in [Kinds -> BOOLEAN]
  BY DEF EnginesOn, Engines
<1>2. Flagged(e, some) = [e EXCEPT !.active = active, !.armed = armed]
  BY DEF Flagged
<1>. HIDE DEF active, armed
<1>. QED BY <1>1, <1>2 DEF EnginesOn, Engines

-----------------------------------------------------------------------------
(* Part 2: the daemon.                                                     *)

(* The window reasons some window may give an output. *)
Given(o, wins) ==
    {r \in WindowReasons : \E w \in Windows :
        /\ r \in wins[w].flags /\ "minimized" \notin wins[w].flags
        /\ o \in wins[w].outs \/ wins[w].outs = {}}

(* Without a socket the governor knows only outputs that are there, no     *)
(* window reason is global, and settled masks come from the windows.       *)
FromWindows(g, wins, outs, fresh) ==
    /\ g.known \subseteq outs /\ g.global \cap WindowReasons = {}
    /\ fresh => \A o \in outs : g.mask[o] \subseteq Given(o, wins)

Shape ==
    /\ flavor \in Flavors /\ ipc \in BOOLEAN
    /\ idle \in [wanted : BOOLEAN, bound : BOOLEAN]
    /\ live \subseteq Outputs /\ settled \in BOOLEAN
    /\ win \in [Windows -> [there : BOOLEAN, outs : SUBSET Outputs, flags : SUBSET Flags]]
    /\ env \in Nat

IInv == /\ Shape /\ Good(gov) /\ EnginesOn(eng, live)
        /\ flavor = "none" => ~ipc /\ FromWindows(gov, win, live, settled)

(* What a handler that ends in Governor needs to show. *)
LEMMA GovernorStep ==
    ASSUME IInv, NEW g, Good(g), Governor(g), ipc' \in BOOLEAN, ~ipc => ~ipc',
           env' \in Nat,
           flavor = "none" => /\ g.known = gov.known /\ g.mask = gov.mask
                              /\ g.global \cap WindowReasons = gov.global \cap WindowReasons
    PROVE  IInv'
<1>1. EnginesOn(eng', live')
  BY ReconcileOn DEF Governor, IInv, Shape
<1>2. Shape'
  BY DEF Governor, IInv, Shape
<1>3. flavor' = "none" => ~ipc' /\ FromWindows(gov', win', live', settled')
  BY DEF Governor, IInv, FromWindows
<1>. QED BY <1>1, <1>2, <1>3 DEF IInv, Governor, Good, Matches

(* A recomputation leaves the masks what the windows say. *)
LEMMA RecomputedFrom ==
    ASSUME NEW g, Good(g), NEW wins, NEW outs \in SUBSET Outputs,
           NEW old \in SUBSET Outputs, g.global \cap WindowReasons = {},
           g.known \subseteq old
    PROVE  LET h == Recompute(g, wins, outs, FALSE)
           IN /\ h.known \subseteq old \cup outs
              /\ h.global \cap WindowReasons = {}
              /\ \A o \in outs : h.mask[o] \subseteq Given(o, wins)
<1>. DEFINE h == Recompute(g, wins, outs, FALSE)
<1>1. /\ h.known = g.known \cup outs /\ h.global \subseteq g.global
      /\ \A o \in outs : h.mask[o] \subseteq
             {r \in WindowReasons : Shown(r, o, wins, outs, FALSE)}
  BY RecomputeGood
<1>2. \A o \in outs : \A r : Shown(r, o, wins, outs, FALSE) =>
         \E w \in Windows : /\ r \in wins[w].flags /\ "minimized" \notin wins[w].flags
                            /\ o \in wins[w].outs \/ wins[w].outs = {}
  BY DEF Shown, OnOutput
<1>. HIDE DEF h
<1>. QED BY <1>1, <1>2 DEF Given, h

LEMMA RecomputedStep ==
    ASSUME IInv, NEW wins, Recomputed(wins), env' \in Nat,
           wins \in [Windows -> [there : BOOLEAN, outs : SUBSET Outputs, flags : SUBSET Flags]]
    PROVE  IInv'
<1>. DEFINE g == Recompute(gov, wins, live, ipc)
<1>1. gov' = g /\ Good(g)
  BY RecomputeGood DEF Recomputed, IInv, Shape
<1>2. EnginesOn(eng', live')
  BY ReconcileOn DEF Recomputed, IInv, Shape
<1>3. Shape'
  BY DEF Recomputed, IInv, Shape
<1>4. ASSUME flavor = "none" PROVE ~ipc /\ FromWindows(g, wins, live, TRUE)
  <2>1. ipc = FALSE /\ gov.global \cap WindowReasons = {} /\ gov.known \subseteq live
    BY <1>4 DEF IInv, Shape, FromWindows
  <2>. QED BY <2>1, RecomputedFrom DEF IInv, Shape, FromWindows
<1>. HIDE DEF g
<1>. QED BY <1>1, <1>2, <1>3, <1>4 DEF IInv, Recomputed, Good, Matches

(* Windows that changed wait for their next recomputation. *)
LEMMA NotedStep ==
    ASSUME IInv, NEW wins, Noted(wins), env' \in Nat,
           wins \in [Windows -> [there : BOOLEAN, outs : SUBSET Outputs, flags : SUBSET Flags]]
    PROVE  IInv'
<1>1. Shape'
  BY DEF Noted, IInv, Shape
<1>2. Good(gov') /\ EnginesOn(eng', live')
  BY DEF Noted, IInv
<1>3. flavor' = "none" => ~ipc' /\ FromWindows(gov', win', live', settled')
  BY DEF Noted, IInv, FromWindows
<1>. QED BY <1>1, <1>2, <1>3 DEF IInv, Good, Matches

(* Steps that change only the engines and, under SetPolicy and SetGlobal,  *)
(* the governor's session reasons.                                         *)
LEMMA RequestStep ==
    ASSUME IInv, Requested, NEW g, Good(g), gov' = g, env' \in Nat,
           EnginesOn(eng', live),
           g.known = gov.known /\ g.mask = gov.mask,
           g.global \cap WindowReasons = gov.global \cap WindowReasons
    PROVE  IInv'
<1>1. Shape' /\ EnginesOn(eng', live')
  BY DEF Requested, IInv, Shape
<1>2. flavor' = "none" => ~ipc' /\ FromWindows(gov', win', live', settled')
  BY DEF Requested, IInv, FromWindows
<1>. QED BY <1>1, <1>2 DEF IInv, Good, Matches

LEMMA InitInv == Init => IInv
<1>. SUFFICES ASSUME Init PROVE IInv
  OBVIOUS
<1>1. Good(gov) /\ gov.known = {} /\ gov.global \subseteq {"battery"}
      /\ gov.mask = [o \in Outputs |-> {}]
  <2>1. PICK policy \in Policies, onBattery \in BOOLEAN, allowed \in SUBSET WindowReasons :
          gov = SyncBattery([known |-> {}, mask |-> [o \in Outputs |-> {}],
                             global |-> {}, focused |-> NoOutput,
                             onBattery |-> onBattery, policy |-> policy,
                             allowed |-> allowed,
                             niriOut |-> NoOutput, niriWin |-> Unidentified])
    BY DEF Init
  <2>. DEFINE g == [known |-> {}, mask |-> [o \in Outputs |-> {}],
                    global |-> {}, focused |-> NoOutput,
                    onBattery |-> onBattery, policy |-> policy, allowed |-> allowed,
                    niriOut |-> NoOutput, niriWin |-> Unidentified]
  <2>2. g \in Governors /\ \A o \in Outputs \ g.known : g.mask[o] = {}
    BY DEF Governors
  <2>3. Good(SyncBattery(g))
    BY <2>2, BatteryGood
  <2>4. /\ SyncBattery(g).known = {} /\ SyncBattery(g).global \subseteq {"battery"}
        /\ SyncBattery(g).mask = [o \in Outputs |-> {}]
    BY DEF SyncBattery, SetGlobal
  <2>. QED BY <2>1, <2>3, <2>4
<1>2. Shape
  <2>1. idle \in [wanted : BOOLEAN, bound : BOOLEAN]
    <3>1. PICK pause \in BOOLEAN, timeout \in IdleTimeouts :
             idle = [wanted |-> pause, bound |-> pause \/ timeout > 0]
      BY DEF Init
    <3>2. (pause \/ timeout > 0) \in BOOLEAN
      OBVIOUS
    <3>. QED BY <3>1, <3>2
  <2>2. live \subseteq Outputs
    BY PowerStateAssumption DEF Init
  <2>3. win \in [Windows -> [there : BOOLEAN, outs : SUBSET Outputs, flags : SUBSET Flags]]
    BY DEF Init, NoWindow
  <2>. QED BY <2>1, <2>2, <2>3 DEF Init, Shape
<1>3. EnginesOn(eng, live)
  BY DEF Init, EnginesOn, Engines, Kinds
<1>4. FromWindows(gov, win, live, settled) /\ (flavor = "none" => ~ipc)
  BY <1>1, <1>2 DEF FromWindows, Init, WindowReasons, Shape
<1>. QED BY <1>1, <1>2, <1>3, <1>4 DEF IInv

(* What the governor's setters leave alone. *)
LEMMA SettersKeep ==
    ASSUME NEW g, Good(g)
    PROVE  /\ \A r, active : /\ SetGlobal(g, r, active).known = g.known
                             /\ SetGlobal(g, r, active).mask = g.mask
           /\ \A r \in Reasons \ WindowReasons, active \in BOOLEAN :
                  SetGlobal(g, r, active).global \cap WindowReasons = g.global \cap WindowReasons
           /\ \A policy : /\ SetPolicy(g, policy).known = g.known
                          /\ SetPolicy(g, policy).mask = g.mask
                          /\ SetPolicy(g, policy).global \cap WindowReasons
                                 = g.global \cap WindowReasons
           /\ \A onBattery : /\ PollBattery(g, onBattery).known = g.known
                             /\ PollBattery(g, onBattery).mask = g.mask
                             /\ PollBattery(g, onBattery).global \cap WindowReasons
                                    = g.global \cap WindowReasons
<1>1. \A r, active : /\ SetGlobal(g, r, active).known = g.known
                    /\ SetGlobal(g, r, active).mask = g.mask
  BY DEF SetGlobal, Good, Governors
<1>2. \A r \in Reasons \ WindowReasons, active \in BOOLEAN :
         SetGlobal(g, r, active).global \cap WindowReasons = g.global \cap WindowReasons
  BY DEF SetGlobal, Good, Governors, WindowReasons
<1>3. \A policy : /\ SetPolicy(g, policy).known = g.known
                 /\ SetPolicy(g, policy).mask = g.mask
                 /\ SetPolicy(g, policy).global \cap WindowReasons = g.global \cap WindowReasons
  BY DEF SetPolicy, SyncBattery, SetGlobal, Good, Governors, WindowReasons
<1>4. \A onBattery : /\ PollBattery(g, onBattery).known = g.known
                    /\ PollBattery(g, onBattery).mask = g.mask
                    /\ PollBattery(g, onBattery).global \cap WindowReasons
                           = g.global \cap WindowReasons
  BY DEF PollBattery, SyncBattery, SetGlobal, Good, Governors, WindowReasons
<1>. QED BY <1>1, <1>2, <1>3, <1>4

(* Every line a compositor can send leaves a good governor. *)
LEMMA IpcGood == ASSUME Good(gov), flavor \in Flavors, NEW g \in IpcEvents PROVE Good(g)
<1>1. CASE flavor = "hyprland"
  BY <1>1, HyprGood DEF IpcEvents
<1>2. CASE flavor = "sway"
  BY <1>2, SwayGood DEF IpcEvents, Names
<1>3. CASE flavor = "niri"
  <2>1. g \in {NiriEvent(gov, o, kind, id, field) :
                 o \in Names, kind \in {"activated", "closed", "windows", "other"},
                 id \in WinIds \cup {Unidentified}, field \in {"none", "on", "off"}}
    BY <1>3 DEF IpcEvents
  <2>2. PICK o \in Names, kind \in {"activated", "closed", "windows", "other"},
             id \in WinIds \cup {Unidentified}, field \in {"none", "on", "off"} :
             g = NiriEvent(gov, o, kind, id, field)
    BY <2>1
  <2>. QED BY <2>2, NiriGood DEF Names
<1>4. CASE flavor = "none"
  BY <1>4 DEF IpcEvents
<1>. QED BY <1>1, <1>2, <1>3, <1>4, PowerStateAssumption

LEMMA UnplugStep == ASSUME IInv, NEW o \in Outputs, Unplug(o) PROVE IInv'
<1>. DEFINE wins == [w \in Windows |-> [win[w] EXCEPT !.outs = @ \ {o}]]
            a == Recompute(gov, wins, live, ipc)
            b == RemoveOutput(a, o)
            g == Recompute(b, wins, live \ {o}, ipc)
            e == [eng EXCEPT !.on = [k \in Kinds |-> @[k] \ {o}]]
            outs == live \ {o}
<1>1. outs \in SUBSET Outputs /\ live \in SUBSET Outputs /\ live' = outs
  BY DEF Unplug, IInv, Shape
<1>2. Good(a) /\ a.known = gov.known \cup live /\ a.global \subseteq gov.global
  <2>1. Good(gov) /\ ipc \in BOOLEAN
    BY DEF IInv, Shape
  <2>2. live \in SUBSET Outputs
    BY <1>1
  <2>. HIDE DEF wins, outs, e, g
  <2>. QED BY <2>1, <2>2, RecomputeGood
<1>3. Good(b)
  BY <1>2, RemoveOutputGood
<1>4. b.known = a.known \ {o} /\ b.global = a.global
  BY <1>2 DEF RemoveOutput, Good, Governors
<1>5. Good(g)
  <2>1. ipc \in BOOLEAN
    BY DEF IInv, Shape
  <2>. HIDE DEF b, wins, outs, e
  <2>. QED BY <1>1, <1>3, <2>1, RecomputeGood DEF outs
<1>6. gov' = g
  BY DEF Unplug, Removed
<1>7. wins \in [Windows -> [there : BOOLEAN, outs : SUBSET Outputs, flags : SUBSET Flags]]
  BY DEF IInv, Shape
<1>8. Shape'
  <2>1. win' = wins /\ settled' = TRUE /\ env' = env + 1 /\ UNCHANGED <<flavor, ipc, idle>>
    BY DEF Unplug, From
  <2>. HIDE DEF wins
  <2>. QED BY <1>1, <1>7, <2>1 DEF IInv, Shape
<1>9. EnginesOn(eng', live')
  <2>1. EnginesOn(e, outs)
    BY DEF IInv, EnginesOn, Engines
  <2>2. EnginesOn(Flagged(e, outs), outs)
    <3>. HIDE DEF e, outs
    <3>. QED BY <1>1, <2>1, FlaggedOn
  <2>3. eng' = Reconcile(Flagged(e, outs), g, outs)
    BY DEF Unplug, Removed
  <2>. HIDE DEF e, outs, g
  <2>. QED BY <1>1, <2>2, <2>3, ReconcileOn
<1>10. ASSUME flavor = "none"
       PROVE  ~ipc /\ FromWindows(g, wins, outs, TRUE)
  <2>1. ipc = FALSE /\ gov.global \cap WindowReasons = {} /\ gov.known \subseteq live
    BY <1>10 DEF IInv, Shape, FromWindows
  <2>2. b.global \cap WindowReasons = {} /\ b.known \subseteq outs
    BY <1>2, <1>4, <2>1
  <2>3. g = Recompute(b, wins, outs, FALSE)
    BY <2>1
  <2>. HIDE DEF b, g, wins, outs
  <2>. QED BY <1>1, <1>3, <2>1, <2>2, <2>3, RecomputedFrom DEF FromWindows
<1>11. settled' = TRUE /\ win' = wins /\ flavor' = flavor /\ ipc' = ipc
  BY DEF Unplug
<1>. HIDE DEF g, wins, outs
<1>. QED BY <1>1, <1>5, <1>6, <1>8, <1>9, <1>10, <1>11 DEF IInv, Good, Matches, FromWindows

LEMMA FromNat == ASSUME IInv, NEW actor, From(actor) PROVE env' \in Nat
  BY DEF From, IInv, Shape

(* The manual pause is a session reason that no window or battery gives. *)
LEMMA ManualGood ==
    ASSUME NEW g, Good(g), NEW active \in BOOLEAN
    PROVE  LET h == SetGlobal(g, "manual", active)
           IN /\ Good(h) /\ h.known = g.known /\ h.mask = g.mask
              /\ h.global \cap WindowReasons = g.global \cap WindowReasons
<1>1. "manual" \in Reasons \ {"battery"} /\ "manual" \in Reasons \ WindowReasons
  BY DEF Reasons, WindowReasons
<1>. QED BY <1>1, SetGlobalGood, SettersKeep

(* The requests, by what they do to the engines. *)
LEMMA PauseStep == ASSUME IInv, Pause PROVE IInv'
<1>. DEFINE g == SetGlobal(gov, "manual", TRUE)
<1>1. /\ Good(g) /\ g.known = gov.known /\ g.mask = gov.mask
      /\ g.global \cap WindowReasons = gov.global \cap WindowReasons
  BY ManualGood DEF IInv
<1>2. EnginesOn(eng', live)
  <2>. DEFINE armed == [k \in Kinds |-> eng.armed[k] /\ eng.active[k] # "on"]
              active == [eng.active EXCEPT !["video"] = IF @ = "on" THEN "paused" ELSE @]
  <2>1. armed \in [Kinds -> BOOLEAN] /\ active \in [Kinds -> {"off", "on", "paused"}]
    BY DEF IInv, EnginesOn, Engines, Kinds
  <2>2. eng' = [eng EXCEPT !.armed = armed, !.active = active]
    BY DEF Pause, IInv, EnginesOn, Engines
  <2>. HIDE DEF armed, active
  <2>. QED BY <2>1, <2>2 DEF IInv, EnginesOn, Engines
<1>3. Requested /\ gov' = g /\ env' \in Nat
  BY DEF Pause, From, IInv, Shape
<1>. HIDE DEF g
<1>. QED BY <1>1, <1>2, <1>3, RequestStep

LEMMA UnpauseStep == ASSUME IInv, Unpause PROVE IInv'
<1>. DEFINE g == SetGlobal(gov, "manual", FALSE)
            e == IF eng.active["video"] = "paused"
                 THEN [eng EXCEPT !.active["video"] = "on", !.armed["video"] = TRUE] ELSE eng
<1>1. /\ Good(g) /\ g.known = gov.known /\ g.mask = gov.mask
      /\ g.global \cap WindowReasons = gov.global \cap WindowReasons
  BY ManualGood DEF IInv
<1>2. EnginesOn(e, live) /\ live \in SUBSET Outputs
  BY DEF IInv, EnginesOn, Engines, Shape, Kinds
<1>3. Requested /\ gov' = g /\ env' \in Nat /\ eng' = Reconcile(e, g, live)
  BY DEF Unpause, From, IInv, Shape
<1>. HIDE DEF g, e
<1>4. EnginesOn(eng', live)
  BY <1>2, <1>3, ReconcileOn
<1>. QED BY <1>1, <1>3, <1>4, RequestStep

LEMMA TargetsLive == ASSUME IInv, NEW targets \in Targets PROVE targets \subseteq live
  BY DEF Targets

LEMMA ImageStep ==
    ASSUME IInv, NEW targets \in Targets, NEW animated \in BOOLEAN,
           NEW policy \in Policies \cup {"keep"}, Image(targets, animated, policy)
    PROVE  IInv'
<1>. DEFINE h == IF policy = "keep" THEN gov ELSE SetPolicy(gov, policy)
            g == SetGlobal(h, "manual", FALSE)
            e == IF live = {} THEN StopAll(eng) ELSE Flagged(StopOn(eng, targets), live)
            m == [e EXCEPT !.on["anim"] = @ \cup targets]
            f == Flagged(m, live)
            n == [f EXCEPT !.armed["anim"] = @ \/ ~ShouldPauseAll(g)]
<1>1. Good(gov) /\ EnginesOn(eng, live) /\ live \in SUBSET Outputs /\ targets \subseteq live
  BY TargetsLive DEF IInv, Shape
<1>2. /\ Good(h) /\ h.known = gov.known /\ h.mask = gov.mask
      /\ h.global \cap WindowReasons = gov.global \cap WindowReasons
  BY <1>1, SetPolicyGood, SettersKeep
<1>3. /\ Good(g) /\ g.known = gov.known /\ g.mask = gov.mask
      /\ g.global \cap WindowReasons = gov.global \cap WindowReasons
  <2>. HIDE DEF h
  <2>. QED BY <1>2, ManualGood
<1>4. EnginesOn(e, live)
  BY <1>1, StopAllOn, StopOnOn, FlaggedOn
<1>5. EnginesOn(m, live)
  <2>. HIDE DEF e
  <2>. QED BY <1>1, <1>4 DEF EnginesOn, Engines, Kinds
<1>6. EnginesOn(f, live)
  <2>. HIDE DEF m
  <2>. QED BY <1>1, <1>5, FlaggedOn
<1>7. EnginesOn(n, live)
  <2>. HIDE DEF f, g
  <2>. QED BY <1>6 DEF EnginesOn, Engines, Kinds
<1>8. Requested /\ gov' = g /\ env' \in Nat /\ eng' \in {e, n}
  <2>1. Requested /\ gov' = g /\ From("image")
    BY DEF Image
  <2>2. eng' = IF ~animated \/ live = {} THEN e ELSE n
    BY DEF Image
  <2>. HIDE DEF e, n, g
  <2>. QED BY <2>1, <2>2, FromNat
<1>. HIDE DEF g, e, n
<1>. QED BY <1>3, <1>4, <1>7, <1>8, RequestStep

LEMMA StartShaderStep ==
    ASSUME IInv, NEW targets \in Targets, StartShader(targets)
    PROVE  IInv'
<1>. DEFINE a == [StopAll(eng) EXCEPT !.active["shader"] = "on",
                                     !.armed["shader"] = eng.armed["shader"]]
            b == [StopOn(eng, targets) EXCEPT !.on["shader"] = @ \cup targets]
            e == IF live = {} THEN a ELSE Flagged(b, live)
<1>1. Good(gov) /\ EnginesOn(eng, live) /\ live \in SUBSET Outputs /\ targets \subseteq live
  BY TargetsLive DEF IInv, Shape
<1>2. EnginesOn(StopAll(eng), live) /\ EnginesOn(StopOn(eng, targets), live)
  BY <1>1, StopAllOn, StopOnOn
<1>3. EnginesOn(a, live) /\ EnginesOn(b, live)
  BY <1>1, <1>2 DEF EnginesOn, Engines, Kinds
<1>4. EnginesOn(e, live)
  <2>. HIDE DEF a, b
  <2>. QED BY <1>1, <1>3, FlaggedOn
<1>5. Requested /\ gov' = gov /\ env' \in Nat /\ eng' = Reconcile(e, gov, live)
  BY DEF StartShader, From, IInv, Shape
<1>. HIDE DEF e
<1>6. EnginesOn(eng', live)
  BY <1>1, <1>4, <1>5, ReconcileOn
<1>. QED BY <1>1, <1>5, <1>6, RequestStep

LEMMA StartVideoStep ==
    ASSUME IInv, NEW targets \in Targets, NEW filter \in BOOLEAN, StartVideo(targets, filter)
    PROVE  IInv'
<1>. DEFINE e == IF live = {} THEN StopAll(eng) ELSE Flagged(StopOn(eng, targets), live)
            f == [e EXCEPT !.on["video"] = targets, !.filter = filter,
                           !.active["video"] = "on", !.armed["video"] = TRUE,
                           !.decoded = FALSE]
<1>1. Good(gov) /\ EnginesOn(eng, live) /\ live \in SUBSET Outputs /\ targets \subseteq live
  BY TargetsLive DEF IInv, Shape
<1>2. EnginesOn(e, live)
  BY <1>1, StopAllOn, StopOnOn, FlaggedOn
<1>3. EnginesOn(f, live)
  <2>. HIDE DEF e
  <2>. QED BY <1>1, <1>2 DEF EnginesOn, Engines, Kinds
<1>4. Requested /\ gov' = gov /\ env' \in Nat /\ eng' = Reconcile(f, gov, live)
  BY DEF StartVideo, From, IInv, Shape
<1>. HIDE DEF f
<1>5. EnginesOn(eng', live)
  BY <1>1, <1>3, <1>4, ReconcileOn
<1>. QED BY <1>1, <1>4, <1>5, RequestStep

LEMMA TickStep == ASSUME IInv, ShaderTick \/ AnimTick \/ VideoTick PROVE IInv'
<1>1. Requested /\ gov' = gov /\ env' \in Nat
  BY DEF ShaderTick, AnimTick, VideoTick, Ticked, IInv, Shape
<1>2. EnginesOn(eng, live) /\ Good(gov)
  BY DEF IInv
<1>3. ASSUME ShaderTick PROVE EnginesOn(eng', live)
  BY <1>2, <1>3 DEF ShaderTick, EnginesOn, Engines, Kinds
<1>4. ASSUME AnimTick PROVE EnginesOn(eng', live)
  <2>. DEFINE looked == eng.active["anim"] = "on" /\ ~ShouldPauseAll(gov)
              armed == [eng.armed EXCEPT !["anim"] = looked /\ eng.on["anim"] # {}]
              active == [eng.active EXCEPT !["anim"] = IF looked /\ eng.on["anim"] = {}
                                                       THEN "off" ELSE @]
  <2>1. armed \in [Kinds -> BOOLEAN] /\ active \in [Kinds -> {"off", "on", "paused"}]
    BY <1>2 DEF EnginesOn, Engines, Kinds
  <2>2. eng' = [eng EXCEPT !.armed = armed, !.active = active]
    BY <1>4, <1>2 DEF AnimTick, EnginesOn, Engines
  <2>. HIDE DEF armed, active
  <2>. QED BY <1>2, <2>1, <2>2 DEF EnginesOn, Engines
<1>5. ASSUME VideoTick PROVE EnginesOn(eng', live)
  <2>1. CASE eng.active["video"] # "on"
    <3>1. eng' = [eng EXCEPT !.armed["video"] = FALSE]
      BY <1>5, <2>1 DEF VideoTick
    <3>. QED BY <1>2, <3>1 DEF EnginesOn, Engines, Kinds
  <2>2. CASE eng.active["video"] = "on"
    BY <1>2, <1>5, <2>2 DEF VideoTick, EnginesOn, Engines
  <2>. QED BY <2>1, <2>2
<1>. QED BY <1>1, <1>2, <1>3, <1>4, <1>5, RequestStep

LEMMA WindowStep ==
    ASSUME IInv, NEW w \in Windows,
           \/ Opened(w) \/ Done(w) \/ Closed(w)
           \/ \E o \in Outputs : Entered(w, o) \/ Left(w, o)
           \/ \E flags \in SUBSET Flags : StateOf(w, flags)
    PROVE  IInv'
<1>. DEFINE Shapes == [Windows -> [there : BOOLEAN, outs : SUBSET Outputs, flags : SUBSET Flags]]
<1>1. win \in Shapes
  BY DEF IInv, Shape
<1>2. env' \in Nat
  BY FromNat DEF Opened, Done, Closed, Entered, Left, StateOf
<1>3. /\ [win EXCEPT ![w].there = TRUE] \in Shapes
      /\ [win EXCEPT ![w] = NoWindow] \in Shapes
      /\ \A o \in Outputs : /\ [win EXCEPT ![w].outs = @ \cup {o}] \in Shapes
                            /\ [win EXCEPT ![w].outs = @ \ {o}] \in Shapes
      /\ \A flags \in SUBSET Flags : [win EXCEPT ![w].flags = flags] \in Shapes
  BY <1>1 DEF NoWindow
<1>4. \/ \E wins \in Shapes : Noted(wins)
      \/ \E wins \in Shapes : Recomputed(wins)
  <2>. HIDE DEF Shapes
  <2>. QED BY <1>1, <1>3 DEF Opened, Done, Closed, Entered, Left, StateOf
<1>. QED BY <1>2, <1>4, NotedStep, RecomputedStep

LEMMA GovernorEventStep ==
    ASSUME IInv, IpcLine \/ IpcLost \/ Battery \/ Idled \/ Resumed PROVE IInv'
<1>1. Good(gov) /\ ipc \in BOOLEAN /\ flavor \in Flavors
  BY DEF IInv, Shape
<1>2. env' \in Nat
  BY FromNat DEF IpcLine, IpcLost, Battery, Idled, Resumed
<1>3. CASE IpcLine
  <2>1. PICK g \in IpcEvents : Governor(g) /\ UNCHANGED ipc
    BY <1>3 DEF IpcLine
  <2>2. flavor # "none"
    BY <1>3 DEF IpcLine, IInv
  <2>3. Good(g)
    BY <1>1, IpcGood
  <2>. QED BY <1>1, <1>2, <2>1, <2>2, <2>3, GovernorStep
<1>4. CASE IpcLost
  <2>1. Governor(gov) /\ ipc /\ ipc' \in BOOLEAN
    BY <1>4 DEF IpcLost
  <2>. QED BY <1>1, <1>2, <2>1, GovernorStep
<1>5. CASE Battery
  <2>1. PICK onBattery \in BOOLEAN : Governor(PollBattery(gov, onBattery)) /\ UNCHANGED ipc
    BY <1>5 DEF Battery
  <2>. QED BY <1>1, <1>2, <2>1, PollBatteryGood, SettersKeep, GovernorStep
<1>6. ASSUME NEW on \in BOOLEAN, Governor(SetGlobal(gov, "idle", on)), UNCHANGED ipc
      PROVE  IInv'
  <2>1. "idle" \in Reasons \ {"battery"} /\ "idle" \in Reasons \ WindowReasons
    BY DEF Reasons, WindowReasons
  <2>. QED BY <1>1, <1>2, <1>6, <2>1, SetGlobalGood, SettersKeep, GovernorStep
<1>. QED BY <1>3, <1>4, <1>5, <1>6 DEF Idled, Resumed

LEMMA ReloadStep == ASSUME IInv, Reload PROVE IInv'
<1>1. PICK policy \in Policies, allowed \in SUBSET WindowReasons, pause \in BOOLEAN :
          /\ From("reload")
          /\ gov' = SetAllowed(SetPolicy(gov, policy), allowed)
          /\ idle' = [idle EXCEPT !.wanted = pause]
          /\ eng' = Reconcile(eng, SetAllowed(SetPolicy(gov, policy), allowed), live)
          /\ UNCHANGED <<flavor, ipc, live, win, settled>>
  BY DEF Reload
<1>. DEFINE h == SetPolicy(gov, policy)
            g == SetAllowed(h, allowed)
<1>2. /\ Good(h) /\ h.known = gov.known /\ h.mask = gov.mask
      /\ h.global \cap WindowReasons = gov.global \cap WindowReasons
  BY SetPolicyGood, SettersKeep DEF IInv
<1>. HIDE DEF h
<1>3. /\ Good(g) /\ g.known = gov.known /\ g.mask = gov.mask
      /\ g.global \cap WindowReasons = gov.global \cap WindowReasons
  BY <1>2, SetAllowedGood DEF SetAllowed, Good, Governors
<1>4. Shape'
  BY <1>1 DEF From, IInv, Shape
<1>5. gov' = g /\ EnginesOn(eng', live')
  BY <1>1, ReconcileOn DEF IInv, Shape, h
<1>. HIDE DEF g
<1>6. flavor' = "none" => ~ipc' /\ FromWindows(gov', win', live', settled')
  BY <1>1, <1>3, <1>5 DEF IInv, FromWindows
<1>. QED BY <1>3, <1>4, <1>5, <1>6 DEF IInv, Good, Matches

(* An output that is plugged in is one the governor does not know.         *)
LEMMA AddOutputStep == ASSUME IInv, NEW o \in Outputs, AddOutput(o) PROVE IInv'
<1>1. Shape'
  BY DEF AddOutput, From, IInv, Shape
<1>2. Good(gov') /\ EnginesOn(eng', live')
  BY DEF AddOutput, IInv, EnginesOn
<1>3. ASSUME flavor = "none" PROVE FromWindows(gov, win, live \cup {o}, settled)
  <2>1. FromWindows(gov, win, live, settled) /\ o \notin live
    BY <1>3 DEF IInv, AddOutput
  <2>2. gov.mask[o] = {}
    BY <2>1 DEF FromWindows, IInv, Good
  <2>. QED BY <2>1, <2>2 DEF FromWindows
<1>. QED BY <1>1, <1>2, <1>3 DEF AddOutput, IInv, Good, Matches, FromWindows

LEMMA StepInv == IInv /\ [Next]_vars => IInv'
<1>. SUFFICES ASSUME IInv, [Next]_vars PROVE IInv'
  OBVIOUS
<1>1. CASE IpcLine \/ IpcLost \/ Battery \/ Idled \/ Resumed
  BY <1>1, GovernorEventStep
<1>2. CASE Reload
  BY <1>2, ReloadStep
<1>3. CASE \/ \E w \in Windows : Opened(w) \/ Done(w) \/ Closed(w)
           \/ \E w \in Windows, o \in Outputs : Entered(w, o) \/ Left(w, o)
           \/ \E w \in Windows, flags \in SUBSET Flags : StateOf(w, flags)
  BY <1>3, WindowStep
<1>4. CASE \E o \in Outputs : AddOutput(o) \/ Unplug(o)
  BY <1>4, AddOutputStep, UnplugStep
<1>5. CASE Pause \/ Unpause \/ Toggle
  BY <1>5, PauseStep, UnpauseStep DEF Toggle
<1>6. CASE \E targets \in Targets, policy \in Policies \cup {"keep"}, animated \in BOOLEAN :
              Image(targets, animated, policy)
  BY <1>6, ImageStep
<1>7. CASE \E targets \in Targets :
              StartShader(targets) \/ \E filter \in BOOLEAN : StartVideo(targets, filter)
  BY <1>7, StartShaderStep, StartVideoStep
<1>8. CASE ShaderTick \/ AnimTick \/ VideoTick
  BY <1>8, TickStep
<1>9. CASE UNCHANGED vars
  BY <1>9 DEF vars, IInv, Shape, Good, Matches, EnginesOn, FromWindows
<1>. QED BY <1>1, <1>2, <1>3, <1>4, <1>5, <1>6, <1>7, <1>8, <1>9 DEF Next

LEMMA AlwaysIInv == Spec => []IInv
  BY InitInv, StepInv, PTL DEF Spec

(* The state of the power manager always has its shape, whatever events,   *)
(* requests, reloads and hotplug come in whatever order.                   *)
THEOREM PowerTypes == Spec => []TypeOK
<1>1. IInv => TypeOK
  BY DEF IInv, Shape, Good, EnginesOn, TypeOK
<1>. QED BY <1>1, AlwaysIInv, PTL

(* The battery pauses the session exactly while it should: no path that    *)
(* changes the battery state or the policy (sysfs, reload, image request)  *)
(* forgets to look at the other.                                           *)
THEOREM BatteryMaskHolds == Spec => []BatteryMask
<1>1. IInv => BatteryMask
  BY DEF IInv, Good, Matches, BatteryMask
<1>. QED BY <1>1, AlwaysIInv, PTL

(* Without a compositor socket the governor forgets every output that is   *)
(* unplugged, although the windows are looked at while it still knows it.  *)
THEOREM NoGhostOutputs == Spec => []GovernedAreLive
<1>1. IInv => GovernedAreLive
  BY DEF IInv, FromWindows, GovernedAreLive
<1>. QED BY <1>1, AlwaysIInv, PTL

(* Without a compositor socket no output stays paused for a window that is *)
(* gone, was moved or changed, whatever was reloaded or plugged meanwhile. *)
THEOREM NoPhantomPauseHolds == Spec => []NoPhantomPause
<1>1. IInv => NoPhantomPause
  <2>. SUFFICES ASSUME IInv, flavor = "none", settled, NEW o \in live,
                       NEW r \in OutputMask(gov, o) \cap WindowReasons
                PROVE  \E w \in Windows :
                          /\ r \in win[w].flags /\ "minimized" \notin win[w].flags
                          /\ o \in win[w].outs \/ win[w].outs = {}
    BY DEF NoPhantomPause
  <2>1. gov.global \cap WindowReasons = {} /\ gov.mask[o] \subseteq Given(o, win)
    BY DEF IInv, FromWindows
  <2>2. r \in gov.mask[o]
    BY <2>1 DEF OutputMask
  <2>. QED BY <2>1, <2>2 DEF Given
<1>. QED BY <1>1, AlwaysIInv, PTL

-----------------------------------------------------------------------------
(* Part 3: what the compositor said before the first focused output.       *)

(* Every operator of the governor but a focused output's own leaves the    *)
(* focus alone, and none but a fullscreen event adds a window reason to    *)
(* the session.                                                            *)
Quiet(g, h) == /\ h.focused = g.focused
               /\ h.global \cap WindowReasons \subseteq g.global

LEMMA SettersQuiet ==
    ASSUME NEW g, Good(g)
    PROVE  /\ \A r \in Reasons \ WindowReasons, active \in BOOLEAN : Quiet(g, SetGlobal(g, r, active))
           /\ Quiet(g, SetGlobal(g, "fullscreen", FALSE))
           /\ \A policy : Quiet(g, SetPolicy(g, policy))
           /\ \A onBattery : Quiet(g, PollBattery(g, onBattery))
           /\ \A allowed : Quiet(g, SetAllowed(g, allowed))
           /\ \A o : Quiet(g, RemoveOutput(g, o))
<1>1. /\ \A r \in Reasons \ WindowReasons, active \in BOOLEAN : Quiet(g, SetGlobal(g, r, active))
      /\ Quiet(g, SetGlobal(g, "fullscreen", FALSE))
  BY DEF Quiet, SetGlobal, Good, Governors, WindowReasons
<1>2. \A policy : Quiet(g, SetPolicy(g, policy))
  BY DEF Quiet, SetPolicy, SyncBattery, SetGlobal, Good, Governors, WindowReasons
<1>3. \A onBattery : Quiet(g, PollBattery(g, onBattery))
  BY DEF Quiet, PollBattery, SyncBattery, SetGlobal, Good, Governors, WindowReasons
<1>4. (\A allowed : Quiet(g, SetAllowed(g, allowed))) /\ \A o : Quiet(g, RemoveOutput(g, o))
  BY DEF Quiet, SetAllowed, RemoveOutput, Good, Governors
<1>. QED BY <1>1, <1>2, <1>3, <1>4

LEMMA QuietTwice ==
    ASSUME NEW g, NEW h, NEW k, Quiet(g, h), Quiet(h, k) PROVE Quiet(g, k)
  BY DEF Quiet

(* A recomputation also leaves the configured reasons alone. *)
LEMMA RecomputeQuiet ==
    ASSUME NEW g, Good(g), NEW wins, NEW outs \in SUBSET Outputs, NEW socket \in BOOLEAN
    PROVE  /\ Quiet(g, Recompute(g, wins, outs, socket))
           /\ Recompute(g, wins, outs, socket).allowed = g.allowed
           /\ outs = {} => /\ Recompute(g, wins, outs, socket).known = g.known
                           /\ Recompute(g, wins, outs, socket).mask = g.mask
                           /\ Recompute(g, wins, outs, socket).global = g.global
           /\ ~socket => \A o \in outs, w \in Windows :
                 o \in wins[w].outs /\ "minimized" \notin wins[w].flags
                 => wins[w].flags \cap g.allowed \subseteq Recompute(g, wins, outs, socket).mask[o]
<1>. DEFINE computed == IF socket THEN {"maximized"} ELSE WindowReasons
            Paused(o) == {r \in computed \cap g.allowed : Shown(r, o, wins, outs, socket)}
            mask == [o \in Outputs |-> IF o \in outs
                     THEN (g.mask[o] \ computed) \cup Paused(o) ELSE g.mask[o]]
            ended == {r \in computed : \E o \in outs : r \notin Paused(o)}
            h == [g EXCEPT !.known = @ \cup outs, !.mask = mask, !.global = @ \ ended]
<1>1. h = Recompute(g, wins, outs, socket)
  BY DEF Recompute
<1>2. \A o \in outs : Paused(o) \subseteq mask[o]
  OBVIOUS
<1>3. ASSUME ~socket, NEW o \in outs, NEW w \in Windows, o \in wins[w].outs,
             "minimized" \notin wins[w].flags
      PROVE  wins[w].flags \cap g.allowed \subseteq Paused(o)
  <2>1. computed \cap g.allowed = g.allowed
    BY <1>3 DEF Good, Governors
  <2>2. \A r \in wins[w].flags : Shown(r, o, wins, outs, socket)
    BY <1>3 DEF Shown, OnOutput
  <2>. QED BY <2>1, <2>2
<1>4. outs = {} => mask = g.mask /\ ended = {}
  BY DEF Good, Governors
<1>. HIDE DEF mask, ended, Paused, computed
<1>5. /\ h.focused = g.focused /\ h.allowed = g.allowed /\ h.mask = mask
      /\ h.known = g.known \cup outs /\ h.global = g.global \ ended
  BY DEF Good, Governors
<1>. HIDE DEF h
<1>. QED BY <1>1, <1>2, <1>3, <1>4, <1>5 DEF Quiet

Moved == flavor = "hyprland" /\ gov.focused # NoOutput => gov.global \cap WindowReasons = {}

LEMMA HyprMoved ==
    ASSUME IInv, Moved, flavor = "hyprland", NEW g \in IpcEvents
    PROVE  g.focused # NoOutput => g.global \cap WindowReasons = {}
<1>1. Good(gov)
  BY DEF IInv
<1>2. \/ \E o \in Outputs : g = HyprFocusedMon(gov, o)
      \/ g = HyprWorkspace(gov)
      \/ \E on \in BOOLEAN : g = HyprFullscreen(gov, on)
  BY DEF IpcEvents
<1>3. CASE \E o \in Outputs : g = HyprFocusedMon(gov, o)
  BY <1>1, <1>3 DEF HyprFocusedMon, Focus, Know, Good, Governors
<1>. DEFINE h == SetGlobal(gov, "fullscreen", FALSE)
<1>4. Good(h) /\ Quiet(gov, h)
  BY <1>1, SettersQuiet, SetGlobalGood DEF Reasons, WindowReasons
<1>5. \A k : Good(k) => Quiet(k, SetReason(k, k.focused, "fullscreen", FALSE))
  BY DEF SetReason, SetGlobal, SetOutput, Know, Quiet, Good, Governors, WindowReasons
<1>6. CASE g = HyprWorkspace(gov)
  <2>1. g = SetReason(h, h.focused, "fullscreen", FALSE)
    BY <1>6 DEF HyprWorkspace, SetGlobal, IInv, Good, Governors
  <2>. QED BY <1>4, <1>5, <2>1 DEF Quiet, Moved
<1>7. CASE g = HyprFullscreen(gov, FALSE)
  <2>1. g = SetReason(h, h.focused, "fullscreen", FALSE)
    BY <1>7 DEF HyprFullscreen, SetGlobal, IInv, Good, Governors
  <2>. QED BY <1>4, <1>5, <2>1 DEF Quiet, Moved
<1>8. CASE g = HyprFullscreen(gov, TRUE)
  <2>1. g = SetReason(gov, gov.focused, "fullscreen", TRUE)
    BY <1>8 DEF HyprFullscreen
  <2>2. CASE gov.focused = NoOutput
    BY <1>1, <2>1, <2>2 DEF SetReason, SetGlobal, Good, Governors
  <2>3. CASE gov.focused # NoOutput
    <3>1. g.global = gov.global
      BY <1>1, <2>1, <2>3 DEF SetReason, SetOutput, Know, Good, Governors
    <3>. QED BY <2>3, <3>1 DEF Moved
  <2>. QED BY <2>2, <2>3
<1>. QED BY <1>2, <1>3, <1>6, <1>7, <1>8

(* Every step keeps the flavor, and every step but a compositor's line is quiet. *)
LEMMA QuietStep == ASSUME IInv, Next, ~IpcLine PROVE flavor' = flavor /\ Quiet(gov, gov')
<1>1. Good(gov) /\ live \in SUBSET Outputs /\ ipc \in BOOLEAN
  BY DEF IInv, Shape
<1>2. Quiet(gov, gov)
  BY DEF Quiet
<1>3. \A r \in Reasons \ WindowReasons, active \in BOOLEAN :
         Quiet(gov, SetGlobal(gov, r, active)) /\ "idle" \in Reasons \ WindowReasons
         /\ "manual" \in Reasons \ WindowReasons
  BY <1>1, SettersQuiet DEF Reasons, WindowReasons
<1>4. CASE IpcLost \/ Battery \/ Idled \/ Resumed
  BY <1>1, <1>2, <1>3, <1>4, SettersQuiet DEF IpcLost, Battery, Idled, Resumed, Governor, Reasons,
                                             WindowReasons
<1>5. CASE Reload
  <2>1. PICK policy \in Policies, allowed \in SUBSET WindowReasons :
          gov' = SetAllowed(SetPolicy(gov, policy), allowed) /\ flavor' = flavor
    BY <1>5 DEF Reload
  <2>2. Good(SetPolicy(gov, policy)) /\ Quiet(gov, SetPolicy(gov, policy))
    BY <1>1, SetPolicyGood, SettersQuiet
  <2>. QED BY <2>1, <2>2, SettersQuiet, QuietTwice
<1>6. ASSUME NEW wins, Recomputed(wins) PROVE flavor' = flavor /\ Quiet(gov, gov')
  BY <1>1, <1>6, RecomputeQuiet DEF Recomputed
<1>7. CASE \/ \E w \in Windows : Opened(w) \/ Done(w) \/ Closed(w)
           \/ \E w \in Windows, o \in Outputs : Entered(w, o) \/ Left(w, o)
           \/ \E w \in Windows, flags \in SUBSET Flags : StateOf(w, flags)
  BY <1>2, <1>6, <1>7 DEF Opened, Done, Closed, Entered, Left, StateOf, Noted
<1>8. ASSUME NEW o \in Outputs, Unplug(o) PROVE flavor' = flavor /\ Quiet(gov, gov')
  <2>. DEFINE wins == [w \in Windows |-> [win[w] EXCEPT !.outs = @ \ {o}]]
              a == Recompute(gov, wins, live, ipc)
              b == RemoveOutput(a, o)
              g == Recompute(b, wins, live \ {o}, ipc)
  <2>1. gov' = g /\ flavor' = flavor
    BY <1>8 DEF Unplug, Removed
  <2>. HIDE DEF wins
  <2>2. Good(a) /\ Quiet(gov, a)
    BY <1>1, RecomputeGood, RecomputeQuiet
  <2>. HIDE DEF a
  <2>3. Good(b) /\ Quiet(a, b)
    BY <2>2, RemoveOutputGood, SettersQuiet
  <2>. HIDE DEF b
  <2>4. live \ {o} \in SUBSET Outputs
    BY <1>1
  <2>5. Quiet(b, g)
    BY <1>1, <2>3, <2>4, RecomputeQuiet
  <2>. HIDE DEF g
  <2>. QED BY <2>1, <2>2, <2>3, <2>5, QuietTwice
<1>9. CASE \E o \in Outputs : AddOutput(o)
  BY <1>2, <1>9 DEF AddOutput
<1>10. CASE Pause \/ Unpause \/ Toggle
  <2>1. PICK on \in BOOLEAN : flavor' = flavor /\ gov' = SetGlobal(gov, "manual", on)
    BY <1>10 DEF Pause, Unpause, Toggle, Requested
  <2>2. "manual" \in Reasons \ WindowReasons
    BY DEF Reasons, WindowReasons
  <2>3. Quiet(gov, SetGlobal(gov, "manual", on))
    BY <1>1, <2>2, SettersQuiet
  <2>. QED BY <2>1, <2>3
<1>11. ASSUME NEW targets, NEW policy \in Policies \cup {"keep"}, NEW animated \in BOOLEAN,
              Image(targets, animated, policy)
       PROVE  flavor' = flavor /\ Quiet(gov, gov')
  <2>. DEFINE h == IF policy = "keep" THEN gov ELSE SetPolicy(gov, policy)
  <2>1. gov' = SetGlobal(h, "manual", FALSE) /\ flavor' = flavor
    BY <1>11 DEF Image, Requested
  <2>2. Good(h) /\ Quiet(gov, h)
    BY <1>1, <1>2, SetPolicyGood, SettersQuiet
  <2>. HIDE DEF h
  <2>3. Quiet(h, SetGlobal(h, "manual", FALSE))
    BY <2>2, SettersQuiet DEF Reasons, WindowReasons
  <2>. QED BY <2>1, <2>2, <2>3, QuietTwice
<1>12. CASE \/ \E targets \in Targets :
                  StartShader(targets) \/ \E filter \in BOOLEAN : StartVideo(targets, filter)
            \/ ShaderTick \/ AnimTick \/ VideoTick
  BY <1>2, <1>12 DEF StartShader, StartVideo, ShaderTick, AnimTick, VideoTick, Ticked, Requested
<1>. QED BY <1>4, <1>5, <1>7, <1>8, <1>9, <1>10, <1>11, <1>12 DEF Next

(* Under Hyprland a window reason never stays with the whole session once  *)
(* some output has been focused, whatever else happens in between.         *)
THEOREM EarlyReasonsMove == Spec => []EarlyReasonMoves
<1>1. Init => Moved
  <2>. SUFFICES ASSUME Init PROVE Moved
    OBVIOUS
  <2>1. gov.focused = NoOutput
    BY DEF Init, SyncBattery, SetGlobal
  <2>. QED BY <2>1 DEF Moved
<1>2. IInv /\ Moved /\ [Next]_vars => Moved'
  <2>. SUFFICES ASSUME IInv, Moved, [Next]_vars PROVE Moved'
    OBVIOUS
  <2>1. CASE IpcLine
    <3>1. PICK g \in IpcEvents : Governor(g)
      BY <2>1 DEF IpcLine
    <3>. QED BY <3>1, HyprMoved DEF Governor, Moved
  <2>2. CASE Next /\ ~IpcLine
    BY <2>2, QuietStep DEF Moved, Quiet
  <2>3. CASE UNCHANGED vars
    BY <2>3 DEF vars, Moved
  <2>. QED BY <2>1, <2>2, <2>3
<1>. QED BY <1>1, <1>2, AlwaysIInv, PTL DEF Spec, EarlyReasonMoves, Moved

-----------------------------------------------------------------------------
(* Part 4: a window that covers an output.                                 *)

NoReload == "reload" \notin Actors

(* Windows are only on outputs that are there, and the masks of those hold *)
(* what the windows give them and the configuration wants.                 *)
Covered(g, wins, outs) ==
    \A o \in outs, w \in Windows :
        o \in wins[w].outs /\ "minimized" \notin wins[w].flags
        => wins[w].flags \cap g.allowed \subseteq g.mask[o]

OnLive(wins, outs) == \A w \in Windows : wins[w].outs \subseteq outs

CoverInv == flavor = "none" => /\ OnLive(win, live)
                               /\ settled => Covered(gov, win, live)

LEMMA SettersAllow ==
    ASSUME NEW g, Good(g)
    PROVE  /\ \A r, active : SetGlobal(g, r, active).allowed = g.allowed
           /\ \A policy : SetPolicy(g, policy).allowed = g.allowed
           /\ \A onBattery : PollBattery(g, onBattery).allowed = g.allowed
  BY DEF SetPolicy, PollBattery, SyncBattery, SetGlobal, Good, Governors

(* A step that leaves the windows, the masks and the configuration alone. *)
LEMMA CoverSame ==
    ASSUME CoverInv, UNCHANGED <<flavor, win, live, settled>>,
           flavor = "none" => gov'.mask = gov.mask /\ gov'.allowed = gov.allowed
    PROVE  CoverInv'
  BY DEF CoverInv, Covered, OnLive

LEMMA CoverRecomputed ==
    ASSUME IInv, CoverInv, NEW wins, Recomputed(wins), OnLive(wins, live) \/ flavor # "none"
    PROVE  CoverInv'
<1>1. Good(gov) /\ live \in SUBSET Outputs /\ ipc \in BOOLEAN /\ (flavor = "none" => ~ipc)
  BY DEF IInv, Shape
<1>. DEFINE g == Recompute(gov, wins, live, ipc)
<1>2. g.allowed = gov.allowed /\ (~ipc => Covered(gov, wins, {}))
  BY <1>1, RecomputeQuiet DEF Covered
<1>3. ~ipc => Covered(g, wins, live)
  BY <1>1, <1>2, RecomputeQuiet DEF Covered
<1>. HIDE DEF g
<1>4. gov' = g /\ win' = wins /\ UNCHANGED <<flavor, live>>
  BY DEF Recomputed, g
<1>. QED BY <1>1, <1>3, <1>4 DEF CoverInv, Covered, OnLive

LEMMA CoverWindows ==
    ASSUME IInv, CoverInv,
           \/ \E w \in Windows : Opened(w) \/ Done(w) \/ Closed(w)
           \/ \E w \in Windows, o \in Outputs : Entered(w, o) \/ Left(w, o)
           \/ \E w \in Windows, flags \in SUBSET Flags : StateOf(w, flags)
    PROVE  CoverInv'
<1>. DEFINE Shapes == [Windows -> [there : BOOLEAN, outs : SUBSET Outputs, flags : SUBSET Flags]]
<1>1. win \in Shapes
  BY DEF IInv, Shape
<1>2. ASSUME NEW wins, Noted(wins), OnLive(wins, live) \/ flavor # "none" PROVE CoverInv'
  BY <1>2 DEF Noted, CoverInv, Covered, OnLive
<1>3. flavor = "none" => \A w \in Windows : win[w].outs \subseteq live
  BY DEF CoverInv, OnLive
<1>4. ASSUME NEW w \in Windows
      PROVE  LET Put(wins) == OnLive(wins, live) \/ flavor # "none"
             IN /\ Put(win) /\ Put([win EXCEPT ![w].there = TRUE]) /\ Put([win EXCEPT ![w] = NoWindow])
                /\ \A o \in live : Put([win EXCEPT ![w].outs = @ \cup {o}])
                /\ \A o : Put([win EXCEPT ![w].outs = @ \ {o}])
                /\ \A flags : Put([win EXCEPT ![w].flags = flags])
  <2>1. CASE flavor # "none"
    BY <2>1
  <2>2. CASE flavor = "none"
    <3>1. OnLive(win, live) /\ OnLive([win EXCEPT ![w].there = TRUE], live)
      BY <1>1, <1>3, <2>2 DEF OnLive
    <3>2. OnLive([win EXCEPT ![w] = NoWindow], live)
      BY <1>1, <1>3, <2>2 DEF OnLive, NoWindow
    <3>3. \A o \in live : OnLive([win EXCEPT ![w].outs = @ \cup {o}], live)
      BY <1>1, <1>3, <2>2 DEF OnLive
    <3>4. \A o : OnLive([win EXCEPT ![w].outs = @ \ {o}], live)
      BY <1>1, <1>3, <2>2 DEF OnLive
    <3>5. \A flags : OnLive([win EXCEPT ![w].flags = flags], live)
      BY <1>1, <1>3, <2>2 DEF OnLive
    <3>. QED BY <3>1, <3>2, <3>3, <3>4, <3>5
  <2>. QED BY <2>1, <2>2
<1>. HIDE DEF Shapes
<1>. QED BY <1>2, <1>4, CoverRecomputed DEF Opened, Done, Closed, Entered, Left, StateOf

LEMMA CoverUnplug == ASSUME IInv, CoverInv, NEW o \in Outputs, Unplug(o) PROVE CoverInv'
<1>. DEFINE wins == [w \in Windows |-> [win[w] EXCEPT !.outs = @ \ {o}]]
            a == Recompute(gov, wins, live, ipc)
            b == RemoveOutput(a, o)
            outs == live \ {o}
            g == Recompute(b, wins, outs, ipc)
<1>1. Good(gov) /\ live \in SUBSET Outputs /\ ipc \in BOOLEAN /\ (flavor = "none" => ~ipc)
  BY DEF IInv, Shape
<1>2. gov' = g /\ win' = wins /\ live' = outs /\ flavor' = flavor
  BY DEF Unplug, Removed
<1>3. flavor = "none" => OnLive(wins, outs)
  BY DEF CoverInv, OnLive, IInv, Shape
<1>. HIDE DEF wins
<1>4. Good(a)
  BY <1>1, RecomputeGood
<1>. HIDE DEF a
<1>5. Good(b)
  BY <1>4, RemoveOutputGood
<1>. HIDE DEF b
<1>6. outs \in SUBSET Outputs
  BY <1>1
<1>. HIDE DEF outs
<1>7. g.allowed = b.allowed
  BY <1>1, <1>5, <1>6, RecomputeQuiet
<1>8. ~ipc => Covered(g, wins, outs)
  BY <1>1, <1>5, <1>6, <1>7, RecomputeQuiet DEF Covered
<1>. HIDE DEF g
<1>. QED BY <1>1, <1>2, <1>3, <1>8 DEF CoverInv, Covered, OnLive

LEMMA CoverStep == ASSUME NoReload, IInv, CoverInv, [Next]_vars PROVE CoverInv'
<1>1. Good(gov) /\ flavor \in Flavors
  BY DEF IInv, Shape
<1>2. CASE IpcLine
  <2>1. flavor # "none" /\ flavor' = flavor
    BY <1>2 DEF IpcLine, IInv, Governor
  <2>. QED BY <2>1 DEF CoverInv
<1>3. CASE IpcLost \/ Battery \/ Idled \/ Resumed
  <2>1. UNCHANGED <<flavor, win, live, settled>>
    BY <1>3 DEF IpcLost, Battery, Idled, Resumed, Governor
  <2>2. gov'.mask = gov.mask /\ gov'.allowed = gov.allowed
    <3>1. /\ \A r, active : /\ SetGlobal(gov, r, active).mask = gov.mask
                            /\ SetGlobal(gov, r, active).allowed = gov.allowed
          /\ \A onBattery : /\ PollBattery(gov, onBattery).mask = gov.mask
                            /\ PollBattery(gov, onBattery).allowed = gov.allowed
      BY <1>1, SettersKeep, SettersAllow
    <3>2. CASE IpcLost
      BY <3>2 DEF IpcLost, Governor
    <3>3. CASE Battery
      BY <3>1, <3>3 DEF Battery, Governor
    <3>4. CASE Idled \/ Resumed
      BY <3>1, <3>4 DEF Idled, Resumed, Governor
    <3>. QED BY <1>3, <3>2, <3>3, <3>4
  <2>. QED BY <2>1, <2>2, CoverSame
<1>4. CASE Reload
  BY <1>4 DEF Reload, From, NoReload
<1>5. CASE \/ \E w \in Windows : Opened(w) \/ Done(w) \/ Closed(w)
           \/ \E w \in Windows, o \in Outputs : Entered(w, o) \/ Left(w, o)
           \/ \E w \in Windows, flags \in SUBSET Flags : StateOf(w, flags)
  BY <1>5, CoverWindows
<1>6. CASE \E o \in Outputs : Unplug(o)
  BY <1>6, CoverUnplug
<1>7. CASE \E o \in Outputs : AddOutput(o)
  BY <1>7 DEF AddOutput, CoverInv, Covered, OnLive
<1>8. CASE Pause \/ Unpause \/ Toggle
  <2>1. UNCHANGED <<flavor, win, live, settled>> /\ \E on \in BOOLEAN : gov' = SetGlobal(gov, "manual", on)
    BY <1>8 DEF Pause, Unpause, Toggle, Requested
  <2>. QED BY <1>1, <2>1, SettersKeep, SettersAllow, CoverSame
<1>9. ASSUME NEW targets, NEW policy \in Policies \cup {"keep"}, NEW animated \in BOOLEAN,
             Image(targets, animated, policy)
      PROVE  CoverInv'
  <2>. DEFINE h == IF policy = "keep" THEN gov ELSE SetPolicy(gov, policy)
  <2>1. gov' = SetGlobal(h, "manual", FALSE) /\ UNCHANGED <<flavor, win, live, settled>>
    BY <1>9 DEF Image, Requested
  <2>2. Good(h) /\ h.mask = gov.mask /\ h.allowed = gov.allowed
    BY <1>1, SetPolicyGood, SettersKeep, SettersAllow
  <2>. HIDE DEF h
  <2>3. \A r, active : SetGlobal(h, r, active).mask = h.mask /\ SetGlobal(h, r, active).allowed = h.allowed
    BY <2>2, SettersKeep, SettersAllow
  <2>. QED BY <2>1, <2>2, <2>3, CoverSame
<1>10. CASE \/ \E targets \in Targets :
                  StartShader(targets) \/ \E filter \in BOOLEAN : StartVideo(targets, filter)
            \/ ShaderTick \/ AnimTick \/ VideoTick \/ UNCHANGED vars
  <2>1. UNCHANGED <<flavor, win, live, settled, gov>>
    BY <1>10 DEF StartShader, StartVideo, ShaderTick, AnimTick, VideoTick, Ticked, Requested, vars
  <2>. QED BY <2>1, CoverSame
<1>. QED BY <1>2, <1>3, <1>4, <1>5, <1>6, <1>7, <1>8, <1>9, <1>10 DEF Next

(* Without a compositor socket an output with a fullscreen or maximized    *)
(* window is paused for it as soon as the window's events are in, through  *)
(* every recomputation and with outputs coming and going.  A reload that   *)
(* begins to want a reason computes no masks, and is excluded.             *)
THEOREM CoveredOutputsPause ==
    ASSUME NoReload
    PROVE  Spec => []CoveredIsPaused
<1>1. Init => CoverInv
  BY DEF Init, CoverInv, Covered, OnLive, NoWindow
<1>2. IInv /\ CoverInv /\ [Next]_vars => CoverInv'
  BY CoverStep
<1>3. IInv /\ CoverInv => CoveredIsPaused
  <2>. SUFFICES ASSUME IInv, CoverInv, flavor = "none", settled, NEW o \in live, NEW w \in Windows,
                       o \in win[w].outs, "minimized" \notin win[w].flags
                PROVE  win[w].flags \cap gov.allowed \subseteq OutputMask(gov, o)
    BY DEF CoveredIsPaused
  <2>1. win[w].flags \cap gov.allowed \subseteq gov.mask[o]
    BY DEF CoverInv, Covered
  <2>. QED BY <2>1 DEF OutputMask, Allowed
<1>. QED BY <1>1, <1>2, <1>3, AlwaysIInv, PTL DEF Spec

-----------------------------------------------------------------------------
(* Part 5: the timers, on a machine with one output.                       *)

OneOutput == \E only : Outputs = {only}

(* The first frame of a video is due until it is decoded. *)
FrameDue(e) == e.active["video"] = "on" /\ ~e.decoded => e.armed["video"]

(* A video on every output, while there is none, waits armed for the first *)
(* that comes.                                                             *)
WaitsArmed(e, g, outs) ==
    e.active["video"] = "on" /\ ~e.filter /\ outs = {} /\ ~ShouldPauseAll(g) => e.armed["video"]

Armed(e, g, outs) ==
    \A k \in Kinds : /\ e.active[k] = "on"
                     /\ \E o \in OutputsOf(e, k, outs) : Awake(g, o)
                     => e.armed[k]

AwakeInv(e, g, outs) == Armed(e, g, outs) /\ FrameDue(e) /\ WaitsArmed(e, g, outs)

(* An output that is awake keeps the only one from being a pause of all. *)
LEMMA AwakeIsNotAll ==
    ASSUME OneOutput, NEW g \in Governors, NEW o \in Outputs, Awake(g, o)
    PROVE  ~ShouldPauseAll(g)
<1>1. PICK only : Outputs = {only}
  BY DEF OneOutput
<1>2. g.known \subseteq {o}
  BY <1>1 DEF Governors
<1>3. g.global \cap Allowed(g) = {} /\ g.mask[o] \cap Allowed(g) = {}
  BY DEF Awake, OutputMask
<1>. QED BY <1>2, <1>3 DEF ShouldPauseAll

LEMMA OutputsIn ==
    ASSUME NEW outs \in SUBSET Outputs, NEW e, EnginesOn(e, outs), NEW k \in Kinds
    PROVE  OutputsOf(e, k, outs) \subseteq outs
  BY DEF OutputsOf, VideoOutputs, EnginesOn, Kinds

(* To reconcile is enough, whatever the timers were, but for the first     *)
(* frame of a video.                                                       *)
LEMMA ReconcileAwake ==
    ASSUME OneOutput, NEW g, Good(g), NEW outs \in SUBSET Outputs,
           NEW e, EnginesOn(e, outs), FrameDue(e)
    PROVE  AwakeInv(Reconcile(e, g, outs), g, outs)
<1>. DEFINE armed == [k \in Kinds |-> IF Governed(e, k)
                        THEN ~ShouldPauseAll(g) /\ Visible(e, g, k, outs)
                        ELSE e.armed[k]]
            f == Reconcile(e, g, outs)
<1>1. f = [e EXCEPT !.armed = armed]
  BY DEF Reconcile
<1>2. ASSUME NEW k \in Kinds, Governed(e, k) PROVE armed[k] = (~ShouldPauseAll(g) /\ Visible(e, g, k, outs))
  BY <1>2
<1>3. ASSUME NEW k \in Kinds, ~Governed(e, k) PROVE armed[k] = e.armed[k]
  BY <1>3
<1>. HIDE DEF armed, f
<1>4. /\ f.armed = armed /\ f.active = e.active /\ f.on = e.on
      /\ f.filter = e.filter /\ f.decoded = e.decoded
  BY <1>1 DEF EnginesOn, Engines
<1>5. "video" \in Kinds
  BY DEF Kinds
<1>6. FrameDue(f)
  BY <1>3, <1>4, <1>5 DEF FrameDue, Governed
<1>7. Armed(f, g, outs)
  <2>. SUFFICES ASSUME NEW k \in Kinds, f.active[k] = "on",
                       NEW o \in OutputsOf(f, k, outs), Awake(g, o)
                PROVE  f.armed[k]
    BY DEF Armed
  <2>1. o \in OutputsOf(e, k, outs)
    BY <1>4 DEF OutputsOf, VideoOutputs
  <2>2. o \in Outputs
    BY <2>1, OutputsIn
  <2>3. ~ShouldPauseAll(g)
    BY <2>2, AwakeIsNotAll DEF Good
  <2>4. Visible(e, g, k, outs)
    BY <2>1 DEF Visible
  <2>5. CASE Governed(e, k)
    BY <1>2, <1>4, <2>3, <2>4, <2>5
  <2>6. CASE ~Governed(e, k)
    BY <1>4, <1>6, <2>6 DEF Governed, FrameDue
  <2>. QED BY <2>5, <2>6
<1>8. WaitsArmed(f, g, outs)
  <2>. SUFFICES ASSUME f.active["video"] = "on", ~f.filter, outs = {}, ~ShouldPauseAll(g)
                PROVE  f.armed["video"]
    BY DEF WaitsArmed
  <2>1. CASE e.decoded
    <3>1. Governed(e, "video")
      BY <1>4, <2>1 DEF Governed
    <3>2. OutputsOf(e, "video", outs) = {} /\ AwakeAnywhere(g)
      BY <1>4 DEF OutputsOf, VideoOutputs, ShouldPauseAll, AwakeAnywhere
    <3>3. Visible(e, g, "video", outs)
      BY <3>2 DEF Visible
    <3>. QED BY <1>2, <1>4, <1>5, <3>1, <3>3
  <2>2. CASE ~e.decoded
    BY <1>4, <1>6, <2>2 DEF FrameDue
  <2>. QED BY <2>1, <2>2
<1>. QED BY <1>6, <1>7, <1>8 DEF AwakeInv, f

(* The video engine is left alone by the flags, and stopped or left as it  *)
(* was by the rest.                                                        *)
LEMMA FrameDueKept ==
    ASSUME NEW outs, NEW e, EnginesOn(e, outs), FrameDue(e)
    PROVE  /\ \A some : FrameDue(Flagged(e, some))
           /\ \A targets : FrameDue(StopOn(e, targets))
           /\ StopAll(e).active["video"] = "off"
<1>1. ASSUME NEW some PROVE FrameDue(Flagged(e, some))
  <2>. DEFINE active == [k \in Kinds |-> IF some = {} \/ k = "video" THEN e.active[k]
                                        ELSE IF e.on[k] # {} THEN "on" ELSE "off"]
              armed == [k \in Kinds |-> e.armed[k] /\ (k # "video" => active[k] = "on")]
  <2>1. active["video"] = e.active["video"] /\ armed["video"] = e.armed["video"]
    BY DEF Kinds, EnginesOn, Engines
  <2>2. Flagged(e, some) = [e EXCEPT !.active = active, !.armed = armed]
    BY DEF Flagged
  <2>. HIDE DEF active, armed
  <2>3. /\ Flagged(e, some).active = active /\ Flagged(e, some).armed = armed
        /\ Flagged(e, some).decoded = e.decoded
    BY <2>2 DEF EnginesOn, Engines
  <2>. QED BY <2>1, <2>3 DEF FrameDue
<1>2. ASSUME NEW f, EnginesOn(f, outs) PROVE StopVideo(f).active["video"] = "off"
  BY <1>2 DEF EnginesOn, Engines, StopVideo, Kinds
<1>3. ASSUME NEW targets PROVE FrameDue(StopOn(e, targets))
  <2>. DEFINE f == [e EXCEPT !.on = [k \in Kinds |-> @[k] \ targets]]
              h == [f EXCEPT !.filter = TRUE]
  <2>1. EnginesOn(f, outs)
    BY DEF EnginesOn, Engines
  <2>2. FrameDue(f)
    BY DEF FrameDue, EnginesOn, Engines
  <2>. HIDE DEF f
  <2>3. FrameDue(StopVideo(f))
    BY <1>2, <2>1 DEF FrameDue
  <2>4. FrameDue(h)
    BY <2>1, <2>2 DEF FrameDue, EnginesOn, Engines
  <2>5. StopOn(e, targets) \in {f, h, StopVideo(f)}
    BY DEF StopOn, f
  <2>. QED BY <2>2, <2>3, <2>4, <2>5
<1>4. StopAll(e).active["video"] = "off"
  <2>. DEFINE f == [e EXCEPT !.on = [k \in Kinds |-> {}],
                            !.active = [k \in Kinds |-> "off"],
                            !.armed = [k \in Kinds |-> FALSE]]
  <2>1. EnginesOn(f, outs)
    BY DEF EnginesOn, Engines
  <2>. HIDE DEF f
  <2>. QED BY <1>2, <2>1 DEF StopAll, f
<1>. QED BY <1>1, <1>3, <1>4

(* Events that leave the engines to a reconciliation. *)
LEMMA AwakeReconciled ==
    ASSUME OneOutput, IInv', NEW e, EnginesOn(e, live'), FrameDue(e),
           eng' = Reconcile(e, gov', live')
    PROVE  AwakeInv(eng', gov', live')
  BY ReconcileAwake DEF IInv, Shape

(* A recomputation that changes no mask of an output that is there. *)
LEMMA AwakeRecomputed ==
    ASSUME OneOutput, IInv, IInv', AwakeInv(eng, gov, live), NEW wins, Recomputed(wins)
    PROVE  AwakeInv(eng', gov', live')
<1>. DEFINE g == Recompute(gov, wins, live, ipc)
<1>1. /\ Good(gov) /\ live \in SUBSET Outputs /\ ipc \in BOOLEAN /\ EnginesOn(eng, live)
      /\ FrameDue(eng)
  BY DEF IInv, Shape, AwakeInv
<1>2. /\ g.allowed = gov.allowed
      /\ live = {} => g.known = gov.known /\ g.mask = gov.mask /\ g.global = gov.global
  BY <1>1, RecomputeQuiet
<1>3. gov' = g /\ live' = live
  BY DEF Recomputed
<1>4. CASE MasksDiffer(gov, g)
  <2>1. eng' = Reconcile(eng, gov', live')
    BY <1>3, <1>4 DEF Recomputed
  <2>. HIDE DEF g
  <2>. QED BY <1>1, <1>3, <2>1, AwakeReconciled
<1>5. CASE ~MasksDiffer(gov, g)
  <2>1. eng' = eng
    BY <1>5 DEF Recomputed
  <2>. HIDE DEF g
  <2>2. \A o \in live : Awake(g, o) <=> Awake(gov, o)
    BY <1>5 DEF MasksDiffer, Awake
  <2>3. live = {} => (ShouldPauseAll(g) <=> ShouldPauseAll(gov))
    BY <1>2 DEF ShouldPauseAll, Allowed
  <2>4. Armed(eng, g, live)
    <3>. SUFFICES ASSUME NEW k \in Kinds, eng.active[k] = "on",
                         NEW o \in OutputsOf(eng, k, live), Awake(g, o)
                  PROVE  eng.armed[k]
      BY DEF Armed
    <3>1. o \in live
      BY <1>1, OutputsIn
    <3>. QED BY <2>2, <3>1 DEF AwakeInv, Armed
  <2>5. WaitsArmed(eng, g, live)
    BY <2>3 DEF AwakeInv, WaitsArmed
  <2>. QED BY <1>1, <1>3, <2>1, <2>4, <2>5 DEF AwakeInv
<1>. QED BY <1>4, <1>5

LEMMA AwakeUnplug ==
    ASSUME OneOutput, IInv, IInv', AwakeInv(eng, gov, live), NEW o \in Outputs, Unplug(o)
    PROVE  AwakeInv(eng', gov', live')
<1>. DEFINE e == [eng EXCEPT !.on = [k \in Kinds |-> @[k] \ {o}]]
            outs == live \ {o}
<1>1. outs \in SUBSET Outputs /\ live' = outs
  BY DEF Unplug, IInv, Shape
<1>2. EnginesOn(e, outs) /\ FrameDue(e)
  BY DEF IInv, EnginesOn, Engines, AwakeInv, FrameDue
<1>3. eng' = Reconcile(Flagged(e, outs), gov', outs)
  BY DEF Unplug
<1>. HIDE DEF e, outs
<1>4. EnginesOn(Flagged(e, outs), outs) /\ FrameDue(Flagged(e, outs))
  BY <1>1, <1>2, FlaggedOn, FrameDueKept
<1>. QED BY <1>1, <1>3, <1>4, AwakeReconciled

(* The only output may come while a video waits for it. *)
LEMMA AwakeAddOutput ==
    ASSUME OneOutput, IInv, AwakeInv(eng, gov, live), NEW o \in Outputs, AddOutput(o)
    PROVE  AwakeInv(eng', gov', live')
<1>1. live = {} /\ live' = {o} /\ eng' = eng /\ gov' = gov
  BY DEF AddOutput, OneOutput, IInv, Shape
<1>2. EnginesOn(eng, live) /\ gov \in Governors
  BY DEF IInv, Good
<1>3. Armed(eng, gov, {o})
  <2>. SUFFICES ASSUME NEW k \in Kinds, eng.active[k] = "on",
                       NEW p \in OutputsOf(eng, k, {o}), Awake(gov, p)
                PROVE  eng.armed[k]
    BY DEF Armed
  <2>1. eng.on[k] = {}
    BY <1>1, <1>2 DEF EnginesOn
  <2>2. k = "video" /\ ~eng.filter /\ p = o
    BY <2>1 DEF OutputsOf, VideoOutputs
  <2>3. ~ShouldPauseAll(gov)
    BY <1>2, <2>2, AwakeIsNotAll
  <2>. QED BY <1>1, <2>2, <2>3 DEF AwakeInv, WaitsArmed
<1>4. WaitsArmed(eng, gov, {o})
  BY DEF WaitsArmed
<1>. QED BY <1>1, <1>3, <1>4 DEF AwakeInv

(* A pause is the user's word on every output. *)
LEMMA AwakePause ==
    ASSUME IInv, AwakeInv(eng, gov, live), Pause
    PROVE  AwakeInv(eng', gov', live')
<1>. DEFINE armed == [k \in Kinds |-> eng.armed[k] /\ eng.active[k] # "on"]
            active == [eng.active EXCEPT !["video"] = IF @ = "on" THEN "paused" ELSE @]
<1>1. eng' = [eng EXCEPT !.armed = armed, !.active = active]
  BY DEF Pause, IInv, EnginesOn, Engines
<1>2. active["video"] # "on"
  BY DEF IInv, EnginesOn, Engines, Kinds
<1>. HIDE DEF armed, active
<1>3. eng'.active = active
  BY <1>1 DEF IInv, EnginesOn, Engines
<1>4. "manual" \in gov'.global \cap Allowed(gov')
  BY DEF Pause, SetGlobal, IInv, Good, Governors, Allowed, Reasons, WindowReasons
<1>5. \A o : ~Awake(gov', o)
  BY <1>4 DEF Awake, OutputMask
<1>. QED BY <1>2, <1>3, <1>5 DEF AwakeInv, Armed, FrameDue, WaitsArmed

LEMMA AwakeUnpause ==
    ASSUME OneOutput, IInv, IInv', AwakeInv(eng, gov, live), Unpause
    PROVE  AwakeInv(eng', gov', live')
<1>. DEFINE e == IF eng.active["video"] = "paused"
                 THEN [eng EXCEPT !.active["video"] = "on", !.armed["video"] = TRUE] ELSE eng
<1>1. EnginesOn(eng, live) /\ FrameDue(eng)
  BY DEF IInv, AwakeInv
<1>2. EnginesOn(e, live) /\ FrameDue(e)
  <2>1. CASE eng.active["video"] = "paused"
    BY <1>1, <2>1 DEF EnginesOn, Engines, Kinds, FrameDue
  <2>2. CASE eng.active["video"] # "paused"
    BY <1>1, <2>2
  <2>. QED BY <2>1, <2>2
<1>3. eng' = Reconcile(e, gov', live') /\ live' = live
  BY DEF Unpause, Requested
<1>. HIDE DEF e
<1>. QED BY <1>2, <1>3, AwakeReconciled

(* With one output an image takes every engine off it. *)
LEMMA AwakeImage ==
    ASSUME OneOutput, IInv, IInv', NEW targets \in Targets, NEW policy, NEW animated \in BOOLEAN,
           Image(targets, animated, policy)
    PROVE  AwakeInv(eng', gov', live')
<1>. DEFINE g == SetGlobal(IF policy = "keep" THEN gov ELSE SetPolicy(gov, policy), "manual", FALSE)
            s == StopOn(eng, targets)
            e == IF live = {} THEN StopAll(eng) ELSE Flagged(s, live)
            m == [e EXCEPT !.on["anim"] = @ \cup targets]
            f == Flagged(m, live)
            n == [f EXCEPT !.armed["anim"] = @ \/ ~ShouldPauseAll(g)]
<1>1. EnginesOn(eng, live) /\ live \in SUBSET Outputs /\ Good(gov') /\ gov' \in Governors
  BY DEF IInv, Shape, Good
<1>2. gov' = g /\ live' = live /\ eng' = IF ~animated \/ live = {} THEN e ELSE n
  BY DEF Image, Requested
<1>3. ASSUME NEW x, \A k \in Kinds : x.active[k] = "off" PROVE AwakeInv(x, gov', live')
  BY <1>3 DEF AwakeInv, Armed, FrameDue, WaitsArmed, Kinds
<1>4. CASE live = {}
  <2>1. \A k \in Kinds : StopAll(eng).active[k] = "off"
    BY <1>1 DEF StopAll, StopVideo, EnginesOn, Engines, Kinds
  <2>2. eng' = StopAll(eng)
    BY <1>2, <1>4
  <2>. QED BY <1>3, <2>1, <2>2
<1>5. CASE live # {}
  <2>1. targets = live
    <3>1. PICK only : Outputs = {only}
      BY DEF OneOutput
    <3>2. targets \in SUBSET live /\ targets # {}
      BY <1>5 DEF Targets
    <3>. QED BY <1>1, <3>1, <3>2
  <2>2. EnginesOn(s, live) /\ \A k \in Kinds : s.on[k] = {}
    <3>. DEFINE x == [eng EXCEPT !.on = [k \in Kinds |-> @[k] \ targets]]
    <3>1. EnginesOn(x, live) /\ \A k \in Kinds : x.on[k] = {}
      BY <1>1, <2>1 DEF EnginesOn, Engines
    <3>2. s = IF eng.active["video"] = "off" THEN x ELSE StopVideo(x)
      BY <3>1 DEF StopOn, Kinds
    <3>. HIDE DEF x
    <3>3. \A k \in Kinds : StopVideo(x).on[k] = {}
      BY <3>1 DEF StopVideo, EnginesOn, Engines, Kinds
    <3>. HIDE DEF s
    <3>. QED BY <1>1, <3>1, <3>2, <3>3, StopVideoOn
  <2>3. s.active["video"] = "off"
    <3>. DEFINE x == [eng EXCEPT !.on = [k \in Kinds |-> @[k] \ targets]]
    <3>1. EnginesOn(x, live) /\ x.on["video"] = {} /\ x.active = eng.active
      BY <1>1, <2>1 DEF EnginesOn, Engines, Kinds
    <3>2. s = IF eng.active["video"] = "off" THEN x ELSE StopVideo(x)
      BY <3>1 DEF StopOn
    <3>. HIDE DEF x
    <3>3. StopVideo(x).active["video"] = "off"
      BY <3>1 DEF StopVideo, EnginesOn, Engines, Kinds
    <3>. HIDE DEF s
    <3>. QED BY <3>1, <3>2, <3>3
  <2>. HIDE DEF s
  <2>4. EnginesOn(e, live) /\ \A k \in Kinds : e.active[k] = "off" /\ e.on[k] = {}
    <3>1. EnginesOn(Flagged(s, live), live)
      BY <1>1, <2>2, FlaggedOn
    <3>2. \A k \in Kinds : Flagged(s, live).active[k] = "off" /\ Flagged(s, live).on[k] = {}
      BY <1>5, <2>2, <2>3 DEF Flagged, EnginesOn, Engines
    <3>. QED BY <1>5, <3>1, <3>2
  <2>. HIDE DEF e
  <2>5. CASE ~animated
    BY <1>2, <1>3, <2>4, <2>5
  <2>6. CASE animated
    <3>1. EnginesOn(m, live) /\ m.active = e.active /\ m.on["shader"] = {}
      BY <1>1, <2>1, <2>4 DEF EnginesOn, Engines, Kinds
    <3>. HIDE DEF m
    <3>2. EnginesOn(f, live)
      BY <1>1, <3>1, FlaggedOn
    <3>3. f.active["video"] = "off" /\ f.active["shader"] = "off"
      BY <1>5, <2>4, <3>1 DEF Flagged, EnginesOn, Engines, Kinds
    <3>. HIDE DEF f, g
    <3>4. /\ n.active = f.active /\ n.on = f.on
          /\ ~ShouldPauseAll(g) => n.armed["anim"]
      BY <3>2 DEF EnginesOn, Engines, Kinds
    <3>. HIDE DEF n
    <3>5. \A k \in Kinds : n.active[k] = "on" => k = "anim"
      BY <3>3, <3>4 DEF Kinds
    <3>6. ASSUME NEW o \in n.on["anim"], Awake(g, o) PROVE n.armed["anim"]
      <4>1. o \in Outputs
        BY <1>1, <3>2, <3>4, <3>6 DEF EnginesOn, Kinds
      <4>. QED BY <1>1, <1>2, <3>4, <3>6, <4>1, AwakeIsNotAll
    <3>7. Armed(n, g, live)
      BY <3>5, <3>6 DEF Armed, OutputsOf
    <3>8. FrameDue(n) /\ WaitsArmed(n, g, live)
      BY <1>5, <3>3, <3>4 DEF FrameDue, WaitsArmed
    <3>. QED BY <1>2, <1>5, <2>6, <3>7, <3>8 DEF AwakeInv
  <2>. QED BY <2>5, <2>6
<1>. QED BY <1>4, <1>5

LEMMA AwakeStart ==
    ASSUME OneOutput, IInv, IInv', AwakeInv(eng, gov, live), NEW targets \in Targets,
           StartShader(targets) \/ \E filter \in BOOLEAN : StartVideo(targets, filter)
    PROVE  AwakeInv(eng', gov', live')
<1>. DEFINE b == StopOn(eng, targets)
            c == [b EXCEPT !.on["shader"] = @ \cup targets]
            a == [StopAll(eng) EXCEPT !.active["shader"] = "on",
                                     !.armed["shader"] = eng.armed["shader"]]
<1>1. /\ EnginesOn(eng, live) /\ live \in SUBSET Outputs /\ targets \subseteq live
      /\ FrameDue(eng)
  BY TargetsLive DEF IInv, Shape, AwakeInv
<1>2. EnginesOn(b, live) /\ FrameDue(b) /\ EnginesOn(StopAll(eng), live)
      /\ StopAll(eng).active["video"] = "off"
  BY <1>1, StopOnOn, StopAllOn, FrameDueKept
<1>3. EnginesOn(c, live) /\ FrameDue(c)
  <2>. HIDE DEF b
  <2>. QED BY <1>1, <1>2 DEF EnginesOn, Engines, Kinds, FrameDue
<1>4. EnginesOn(a, live) /\ FrameDue(a)
  BY <1>1, <1>2 DEF EnginesOn, Engines, Kinds, FrameDue
<1>5. CASE StartShader(targets)
  <2>. DEFINE e == IF live = {} THEN a ELSE Flagged(c, live)
  <2>1. eng' = Reconcile(e, gov', live') /\ live' = live
    BY <1>5 DEF StartShader, Requested
  <2>. HIDE DEF a, c
  <2>2. EnginesOn(Flagged(c, live), live) /\ FrameDue(Flagged(c, live))
    BY <1>1, <1>3, FlaggedOn, FrameDueKept
  <2>3. EnginesOn(e, live) /\ FrameDue(e)
    BY <1>4, <2>2
  <2>. HIDE DEF e
  <2>. QED BY <2>1, <2>3, AwakeReconciled
<1>6. ASSUME NEW filter \in BOOLEAN, StartVideo(targets, filter)
      PROVE  AwakeInv(eng', gov', live')
  <2>. DEFINE e == IF live = {} THEN StopAll(eng) ELSE Flagged(b, live)
              f == [e EXCEPT !.on["video"] = targets, !.filter = filter,
                             !.active["video"] = "on", !.armed["video"] = TRUE,
                             !.decoded = FALSE]
  <2>1. eng' = Reconcile(f, gov', live') /\ live' = live
    BY <1>6 DEF StartVideo, Requested
  <2>2. EnginesOn(e, live)
    BY <1>1, <1>2, FlaggedOn
  <2>. HIDE DEF e
  <2>3. EnginesOn(f, live) /\ FrameDue(f)
    BY <1>1, <2>2 DEF EnginesOn, Engines, Kinds, FrameDue
  <2>. HIDE DEF f
  <2>. QED BY <2>1, <2>3, AwakeReconciled
<1>. QED BY <1>5, <1>6

(* A timer that stops itself has nothing to draw. *)
LEMMA AwakeTick ==
    ASSUME OneOutput, IInv, AwakeInv(eng, gov, live), ShaderTick \/ AnimTick \/ VideoTick
    PROVE  AwakeInv(eng', gov', live')
<1>1. gov' = gov /\ live' = live /\ EnginesOn(eng, live) /\ live \in SUBSET Outputs /\ gov \in Governors
  BY DEF ShaderTick, AnimTick, VideoTick, Ticked, Requested, IInv, Shape, Good
<1>2. ASSUME NEW k \in Kinds, NEW o \in OutputsOf(eng, k, live), Awake(gov, o)
      PROVE  ~ShouldPauseAll(gov)
  BY <1>1, <1>2, OutputsIn, AwakeIsNotAll
<1>3. CASE ShaderTick
  <2>1. eng' = [eng EXCEPT !.armed["shader"] = ~ShouldPauseAll(gov)]
    BY <1>3 DEF ShaderTick
  <2>2. /\ eng'.on = eng.on /\ eng'.active = eng.active /\ eng'.filter = eng.filter
        /\ eng'.decoded = eng.decoded /\ eng'.armed["shader"] = ~ShouldPauseAll(gov)
        /\ \A k \in Kinds \ {"shader"} : eng'.armed[k] = eng.armed[k]
    BY <1>1, <2>1 DEF EnginesOn, Engines, Kinds
  <2>3. Armed(eng', gov, live)
    BY <1>2, <2>2 DEF AwakeInv, Armed, OutputsOf, VideoOutputs
  <2>4. FrameDue(eng') /\ WaitsArmed(eng', gov, live)
    BY <2>2 DEF AwakeInv, FrameDue, WaitsArmed, Kinds
  <2>. QED BY <1>1, <2>3, <2>4 DEF AwakeInv
<1>4. CASE AnimTick
  <2>. DEFINE looked == eng.active["anim"] = "on" /\ ~ShouldPauseAll(gov)
              on == looked /\ eng.on["anim"] # {}
              to == IF looked /\ eng.on["anim"] = {} THEN "off" ELSE eng.active["anim"]
  <2>1. eng' = [eng EXCEPT !.armed["anim"] = on, !.active["anim"] = to]
    BY <1>4 DEF AnimTick
  <2>2. to = "on" => eng.active["anim"] = "on"
    OBVIOUS
  <2>3. on <=> looked /\ eng.on["anim"] # {}
    OBVIOUS
  <2>. HIDE DEF on, to
  <2>4. /\ eng'.on = eng.on /\ eng'.filter = eng.filter /\ eng'.decoded = eng.decoded
        /\ eng'.armed["anim"] = on /\ eng'.active["anim"] = to
        /\ \A k \in Kinds \ {"anim"} : eng'.armed[k] = eng.armed[k] /\ eng'.active[k] = eng.active[k]
    BY <1>1, <2>1 DEF EnginesOn, Engines, Kinds
  <2>5. Armed(eng', gov, live)
    <3>. SUFFICES ASSUME NEW k \in Kinds, eng'.active[k] = "on",
                         NEW o \in OutputsOf(eng, k, live), Awake(gov, o)
                  PROVE  eng'.armed[k]
      BY <2>4 DEF Armed, OutputsOf, VideoOutputs
    <3>1. CASE k # "anim"
      BY <2>4, <3>1 DEF AwakeInv, Armed
    <3>2. CASE k = "anim"
      <4>1. looked
        BY <1>2, <2>2, <2>4, <3>2
      <4>2. eng.on["anim"] # {}
        BY <3>2 DEF OutputsOf
      <4>3. on
        BY <2>3, <4>1, <4>2
      <4>. QED BY <2>4, <3>2, <4>3
    <3>. QED BY <3>1, <3>2
  <2>6. FrameDue(eng') /\ WaitsArmed(eng', gov, live)
    BY <2>4 DEF AwakeInv, FrameDue, WaitsArmed, Kinds
  <2>. QED BY <1>1, <2>5, <2>6 DEF AwakeInv
<1>5. CASE VideoTick
  <2>1. CASE eng.active["video"] # "on"
    <3>1. eng' = [eng EXCEPT !.armed["video"] = FALSE]
      BY <1>5, <2>1 DEF VideoTick
    <3>2. /\ eng'.on = eng.on /\ eng'.active = eng.active /\ eng'.filter = eng.filter
          /\ eng'.decoded = eng.decoded
          /\ \A k \in Kinds \ {"video"} : eng'.armed[k] = eng.armed[k]
      BY <1>1, <3>1 DEF EnginesOn, Engines, Kinds
    <3>3. Armed(eng', gov, live)
      BY <2>1, <3>2 DEF AwakeInv, Armed, OutputsOf, VideoOutputs
    <3>4. FrameDue(eng') /\ WaitsArmed(eng', gov, live)
      BY <2>1, <3>2 DEF FrameDue, WaitsArmed
    <3>. QED BY <1>1, <3>3, <3>4 DEF AwakeInv
  <2>2. CASE eng.active["video"] = "on"
    <3>. DEFINE now == eng.decoded \/ ~Governed(eng, "video")
    <3>1. eng' = [eng EXCEPT !.decoded = now]
      BY <1>5, <2>2 DEF VideoTick
    <3>2. ~now => ~eng.decoded
      OBVIOUS
    <3>. HIDE DEF now
    <3>3. /\ eng'.on = eng.on /\ eng'.active = eng.active /\ eng'.filter = eng.filter
          /\ eng'.decoded = now /\ eng'.armed = eng.armed
      BY <1>1, <3>1 DEF EnginesOn, Engines
    <3>4. Armed(eng', gov, live)
      BY <3>3 DEF AwakeInv, Armed, OutputsOf, VideoOutputs
    <3>5. FrameDue(eng') /\ WaitsArmed(eng', gov, live)
      BY <3>2, <3>3 DEF AwakeInv, FrameDue, WaitsArmed
    <3>. QED BY <1>1, <3>4, <3>5 DEF AwakeInv
  <2>. QED BY <2>1, <2>2
<1>. QED BY <1>3, <1>4, <1>5

LEMMA AwakeStep ==
    ASSUME OneOutput, IInv, IInv', AwakeInv(eng, gov, live), [Next]_vars
    PROVE  AwakeInv(eng', gov', live')
<1>1. EnginesOn(eng, live) /\ FrameDue(eng)
  BY DEF IInv, AwakeInv
<1>2. CASE \/ IpcLine \/ IpcLost \/ Battery \/ Idled \/ Resumed \/ Reload
  <2>1. eng' = Reconcile(eng, gov', live') /\ live' = live
    BY <1>2 DEF IpcLine, IpcLost, Battery, Idled, Resumed, Reload, Governor
  <2>. QED BY <1>1, <2>1, AwakeReconciled
<1>3. CASE \/ \E w \in Windows : Opened(w) \/ Done(w) \/ Closed(w)
           \/ \E w \in Windows, o \in Outputs : Entered(w, o) \/ Left(w, o)
           \/ \E w \in Windows, flags \in SUBSET Flags : StateOf(w, flags)
  <2>1. ASSUME NEW wins, Noted(wins) PROVE AwakeInv(eng', gov', live')
    BY <2>1 DEF Noted
  <2>. QED BY <1>3, <2>1, AwakeRecomputed DEF Opened, Done, Closed, Entered, Left, StateOf
<1>4. CASE \E o \in Outputs : AddOutput(o) \/ Unplug(o)
  BY <1>4, AwakeAddOutput, AwakeUnplug
<1>5. CASE Pause \/ Unpause \/ Toggle
  BY <1>5, AwakePause, AwakeUnpause DEF Toggle
<1>6. CASE \E targets \in Targets, policy \in Policies \cup {"keep"} :
              \/ Image(targets, FALSE, policy)
              \/ "anim" \in Started /\ Image(targets, TRUE, policy)
  BY <1>6, AwakeImage
<1>7. CASE \E targets \in Targets :
              \/ "shader" \in Started /\ StartShader(targets)
              \/ "video" \in Started /\ \E filter \in BOOLEAN : StartVideo(targets, filter)
  BY <1>7, AwakeStart
<1>8. CASE ShaderTick \/ AnimTick \/ VideoTick
  BY <1>8, AwakeTick
<1>9. CASE UNCHANGED vars
  BY <1>9 DEF vars
<1>. QED BY <1>2, <1>3, <1>4, <1>5, <1>6, <1>7, <1>8, <1>9 DEF Next

(* On a machine with one output, whatever clients, the compositor, the     *)
(* battery, windows, hotplug and reloads do and in whatever order, an      *)
(* engine that is running on an output that is not paused has its timer    *)
(* armed.  With more outputs it is not so: should_pause_all asks only the  *)
(* outputs the governor has heard of.                                      *)
THEOREM NoFrozenEngine ==
    ASSUME OneOutput
    PROVE  Spec => []AwakeWhenVisible
<1>1. Init => AwakeInv(eng, gov, live)
  BY DEF Init, AwakeInv, Armed, FrameDue, WaitsArmed, Kinds
<1>2. IInv /\ IInv' /\ AwakeInv(eng, gov, live) /\ [Next]_vars => AwakeInv(eng, gov, live)'
  BY AwakeStep
<1>3. AwakeInv(eng, gov, live) => AwakeWhenVisible
  BY DEF AwakeInv, Armed, AwakeWhenVisible
<1>. QED BY <1>1, <1>2, <1>3, AlwaysIInv, PTL DEF Spec
===============================================================================
