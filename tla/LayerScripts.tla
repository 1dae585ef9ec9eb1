---------------------------- MODULE LayerScripts ----------------------------
(***************************************************************************)
(* What scripts do to the layers of a scene. A callback works on copies:    *)
(* one of the layer the script belongs to, and one of each layer of the     *)
(* scene, the same among them. What it has written to a copy is put into    *)
(* the layer when it returns; after a callback that was stopped nothing is. *)
(* Beside the layers the state has what they would be if every statement    *)
(* worked on the layers themselves.                                         *)
(***************************************************************************)
EXTENDS Naturals, Sequences

CONSTANTS
    Scenes,    \* a set of [slots, layers], a layer being [bound, scripts], and a script
               \* [target, has]: the field its value is for, and its callbacks
    Bodies,    \* what a callback may do: sequences of statements [to, from, cmd]
    Base,      \* values are below this
    MaxCalls   \* bound on the callbacks of a behaviour

VARIABLE ls
layerVars == <<ls>>

This == 0               \* thisLayer, among the layers' numbers
NoReturn == Base
Fields == {"alpha", "origin"}

-----------------------------------------------------------------------------
(* Copies *)

\* sync_layer_from_obj
CopyOf(layer) == [alpha |-> layer.alpha, origin |-> layer.origin, cmd |-> "none", dirty |-> {}]

Commanded(layer, cmd) ==
    CASE cmd = "play" -> [layer EXCEPT !.playing = TRUE, !.paused = FALSE,
                                       !.begun = @ /\ (layer.playing \/ layer.paused)]
      [] cmd = "stop" -> [layer EXCEPT !.playing = FALSE, !.paused = FALSE, !.begun = FALSE]
      [] cmd = "pause" -> [layer EXCEPT !.playing = FALSE, !.paused = TRUE]

\* sync_obj_from_layer: a property the user had bound is the script's from then on.
Merged(layer, copy) ==
    LET l == [layer EXCEPT !.alpha = IF "alpha" \in copy.dirty THEN copy.alpha ELSE @,
                           !.origin = IF "origin" \in copy.dirty THEN copy.origin ELSE @,
                           !.bound = @ /\ "alpha" \notin copy.dirty]
    IN  IF "sound" \in copy.dirty THEN Commanded(l, copy.cmd) ELSE l

-----------------------------------------------------------------------------
(* A callback of a script of layer o: its copies, the value it is given and returns *)

\* sync_scene_layers_to_vm, sync_layer_to_vm
Entered(o, given) ==
    [this |-> CopyOf(ls.layers[o]), slots |-> [n \in 1..ls.scene.slots |-> CopyOf(ls.layers[n])],
     shared |-> ls.shared, value |-> given, return |-> NoReturn]

\* getLayer; a layer beyond the slots is known to its own scripts only.
ByThis(o, n) == n = This \/ (n > ls.scene.slots /\ n = o)
Found(o, n) == n = This \/ n = o \/ n <= ls.scene.slots

Read(c, o, place) ==
    CASE place[2] \notin Fields -> c[place[2]]
      [] place[2] \in Fields /\ ByThis(o, place[1]) -> c.this[place[2]]
      [] OTHER -> c.slots[place[1]][place[2]]

CopyWritten(copy, field, v, cmd) ==
    IF field = "sound" THEN [copy EXCEPT !.cmd = cmd, !.dirty = @ \cup {field}]
    ELSE [copy EXCEPT ![field] = v, !.dirty = @ \cup {field}]

\* apply_layer_state_prop, sync_bound_vec, call_scene_layer_method, shared_set_val
Written(c, o, place, v, cmd) ==
    CASE place[2] \in {"shared", "value", "return"} -> [c EXCEPT ![place[2]] = v]
      [] place[2] \in Fields \cup {"sound"} /\ ByThis(o, place[1]) ->
             [c EXCEPT !.this = CopyWritten(@, place[2], v, cmd)]
      [] OTHER -> [c EXCEPT !.slots[place[1]] = CopyWritten(@, place[2], v, cmd)]

Step(c, o, st) == Written(c, o, st.to, IF st.cmd = "none" THEN (Read(c, o, st.from) + 1) % Base ELSE 0, st.cmd)

\* What a callback gives back for its target: what it returned, or else the vector it was given.
Given(c) == IF c.return = NoReturn THEN c.value ELSE c.return

\* sync_obj_from_layer, sync_scene_layers_from_vm, and the target if its value has changed
Left(c, o, target, given) ==
    LET own == [ls.layers EXCEPT ![o] = Merged(@, c.this)]
        all == [n \in DOMAIN own |-> IF n <= ls.scene.slots THEN Merged(own[n], c.slots[n]) ELSE own[n]]
    IN  IF target \in Fields /\ Given(c) # given THEN [all EXCEPT ![o][target] = Given(c)] ELSE all

-----------------------------------------------------------------------------
(* What the statements mean *)

MRead(m, o, place) ==
    IF place[2] \in Fields THEN m.layers[IF place[1] = This THEN o ELSE place[1]][place[2]] ELSE m[place[2]]

MStep(m, o, st) ==
    LET n == IF st.to[1] = This THEN o ELSE st.to[1]
        v == IF st.cmd = "none" THEN (MRead(m, o, st.from) + 1) % Base ELSE 0
    IN  CASE st.to[2] = "sound" -> [m EXCEPT !.layers[n] = Commanded(@, st.cmd)]
          [] st.to[2] \in Fields ->
                 [m EXCEPT !.layers[n][st.to[2]] = v, !.layers[n].bound = @ /\ st.to[2] # "alpha"]
          [] OTHER -> [m EXCEPT ![st.to[2]] = v]

\* Bodies that reach the script's own layer in both ways, or give a layer two commands
Twofold(o, body) ==
    LET places == {body[i].to : i \in DOMAIN body} \cup {body[i].from : i \in DOMAIN body}
        Layer(p) == IF p[1] = This THEN o ELSE p[1]
    IN  \/ \E p, q \in places : /\ Layer(p) = o /\ Layer(q) = o
                               /\ p[2] = q[2] /\ ByThis(o, p[1]) # ByThis(o, q[1])
        \/ \E i, j \in DOMAIN body : /\ i # j /\ body[i].cmd # "none" /\ body[j].cmd # "none"
                                    /\ Layer(body[i].to) = Layer(body[j].to)

-----------------------------------------------------------------------------
(* The order of callbacks *)

\* Layer by layer and script by script, the callbacks of the kinds that it has.
InOrder(scene, kinds) ==
    LET OfScript(o, s) == [i \in DOMAIN kinds |-> [layer |-> o, script |-> s, kind |-> kinds[i]]]
        Has(t) == t.kind \in scene.layers[t.layer].scripts[t.script].has
        OfLayer[o \in Nat, s \in Nat] ==
            IF o > Len(scene.layers) THEN << >>
            ELSE IF s > Len(scene.layers[o].scripts) THEN OfLayer[o + 1, 1]
            ELSE SelectSeq(OfScript(o, s), Has) \o OfLayer[o, s + 1]
    IN  OfLayer[1, 1]

\* The end of we_scene_load_cpu. A script for a field takes it from the user's property.
LayersInit ==
    \E scene \in Scenes :
        LET layers == [o \in DOMAIN scene.layers |->
                [alpha |-> 0, origin |-> 0, playing |-> TRUE, paused |-> FALSE, begun |-> TRUE,
                 bound |-> scene.layers[o].bound
                           /\ \A s \in DOMAIN scene.layers[o].scripts : scene.layers[o].scripts[s].target # "alpha"]]
        IN  ls = [scene |-> scene, layers |-> layers, shared |-> 0, property |-> 0, calls |-> 0,
                  todo |-> InOrder(scene, <<"apply", "init">>),
                  meant |-> [layers |-> layers, shared |-> 0]]

Bound(layers, v) == [o \in DOMAIN layers |-> IF layers[o].bound THEN [layers[o] EXCEPT !.alpha = v] ELSE layers[o]]

\* we_scene_set_uniform_override
SetProperty(v) ==
    /\ ls.todo = << >> /\ ls.property # v
    /\ ls' = [ls EXCEPT !.property = v, !.layers = Bound(@, v), !.meant.layers = Bound(@, v),
                        !.todo = InOrder(ls.scene, <<"apply">>)]

\* render_scene_to_fbo, up to the drawing
Frame(moved) ==
    /\ ls.todo = << >>
    /\ ls' = [ls EXCEPT !.layers = Bound(@, ls.property), !.meant.layers = Bound(@, ls.property),
                        !.todo = InOrder(ls.scene, IF moved THEN <<"move", "update">> ELSE <<"update">>)]

\* step_object_scripts, init_scene_scripts, apply_scene_script_user_properties
Callback(body, stopped) ==
    /\ ls.todo # << >> /\ ls.calls < MaxCalls
    /\ LET t == Head(ls.todo)
           o == t.layer
           target == IF t.kind \in {"init", "update"} THEN ls.scene.layers[o].scripts[t.script].target ELSE "none"
           given == IF target \in Fields THEN ls.layers[o][target] ELSE 0
           places == {body[i].to : i \in DOMAIN body} \cup {body[i].from : i \in DOMAIN body}
           Run[i \in 0..Len(body)] == IF i = 0 THEN Entered(o, given) ELSE Step(Run[i - 1], o, body[i])
           c == Run[Len(body)]
           layers == IF stopped THEN ls.layers ELSE Left(c, o, target, given)
           MRun[i \in 0..Len(body)] ==
               IF i = 0 THEN [layers |-> ls.meant.layers, shared |-> ls.meant.shared, value |-> given, return |-> NoReturn]
               ELSE MStep(MRun[i - 1], o, body[i])
           m == MRun[Len(body)]
           returned == target \in Fields /\ Given(m) # given
           meant == CASE stopped -> ls.meant.layers
                      [] ~stopped /\ returned -> [m.layers EXCEPT ![o][target] = Given(m)]
                      [] OTHER -> m.layers
       IN  /\ \A p \in places : Found(o, p[1]) /\ (p[2] = "value" => target = "origin") /\ (p[2] = "return" => target \in Fields)
           /\ ls' = [ls EXCEPT !.layers = layers, !.shared = c.shared, !.todo = Tail(@), !.calls = @ + 1,
                               !.meant = IF Twofold(o, body) THEN [layers |-> layers, shared |-> c.shared]
                                         ELSE [layers |-> meant, shared |-> m.shared]]

LayersNext ==
    \/ \E v \in 0..Base-1 : SetProperty(v)
    \/ \E moved \in BOOLEAN : Frame(moved)
    \/ \E body \in Bodies, stopped \in BOOLEAN : Callback(body, stopped)

LayersSpec == LayersInit /\ [][LayersNext]_layerVars

-----------------------------------------------------------------------------
\* Whatever scripts of several layers write to each other's layers, in whatever order their
\* callbacks come and are stopped: each layer has what was last written to it, by a script
\* or by the user's property it is still bound to, and what nobody wrote stays
\* (we_scene_parse.c:628). Exempt are callbacks that reach their own layer in both ways, or that
\* give a layer two commands.
WritesArrive == ls.layers = ls.meant.layers /\ ls.shared = ls.meant.shared
=============================================================================
