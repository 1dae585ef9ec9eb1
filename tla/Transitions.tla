---------------------------- MODULE Transitions ----------------------------
(***************************************************************************)
(* The transition engine (layer_shell.c): one timer drives the transitions *)
(* of all outputs.  Each has a delay of its own, may have to wait for a     *)
(* buffer, may fail to draw, and may be replaced, resized or closed while  *)
(* others go on; the timer must run exactly as long as one of them needs it.*)
(*                                                                         *)
(* A wallpaper is the number of the request that asked for it.  Which      *)
(* buffer a frame goes to is the matter of SurfaceBuffers: here an output   *)
(* has a free one or not.                                                   *)
(***************************************************************************)
EXTENDS Naturals, FiniteSets

CONSTANTS
    Panels,        \* the outputs
    Frames,       \* frames a transition has
    MaxDelay,     \* ticks by which a staggered output starts later
    MaxWanted     \* bound: wallpapers asked for

ASSUME TransitionsAssumption ==
    /\ IsFiniteSet(Panels)
    /\ Frames \in Nat \ {0} /\ MaxDelay \in Nat /\ MaxWanted \in Nat

VARIABLES
    trans,    \* per output: is a transition on, its delay, frames left, where it leads
    ready,    \* outputs with a configured surface
    free,     \* outputs with a buffer to draw into
    stale,    \* outputs whose size has changed since their buffers were made
    screen,   \* what an output shows: a wallpaper, or Between
    asked,    \* the wallpaper asked for last, per output (history)
    live,     \* outputs that show a shader or a scene
    latest,   \* wallpaper_rgba: the image loaded last, for whatever output
    wiped,    \* outputs repainted with another's image by a resize (history)
    timer,    \* transition_timer_fd: "off", "armed" or "due"
    going,    \* transitions_in_progress
    wanted    \* wallpapers asked for so far

transVars == <<trans, ready, free, stale, screen, asked, live, latest, wiped, timer, going,
               wanted>>

Between == MaxWanted + 1
Off == [on |-> FALSE, delay |-> 0, left |-> 0, to |-> 0]

TransTypeOK ==
    /\ trans \in [Panels -> [on : BOOLEAN, delay : 0..MaxDelay, left : 0..Frames,
                            to : 0..MaxWanted]]
    /\ ready \subseteq Panels /\ free \subseteq Panels /\ stale \subseteq Panels
    /\ screen \in [Panels -> 0..Between] /\ asked \in [Panels -> 0..MaxWanted]
    /\ live \subseteq Panels /\ wiped \subseteq Panels /\ latest \in 0..MaxWanted
    /\ timer \in {"off", "armed", "due"} /\ going \in BOOLEAN /\ wanted \in 0..MaxWanted

TransInit ==
    /\ trans = [o \in Panels |-> Off]
    /\ ready = {} /\ free = Panels /\ stale = {}
    /\ screen = [o \in Panels |-> 0] /\ asked = [o \in Panels |-> 0]
    /\ live = {} /\ latest = 0 /\ wiped = {}
    /\ timer = "off" /\ going = FALSE /\ wanted = 0

-----------------------------------------------------------------------------

\* One output's next state in a step: wait out the delay, give up when the size has
\* changed, skip a frame without a buffer or whose drawing fails, else draw it;
\* a late tick makes up for the time lost.
NextFrame(x, o, wrong, drawn, late) ==
    IF ~x.on THEN x
    ELSE IF x.delay > 0 THEN [x EXCEPT !.delay = @ - 1]
    ELSE IF o \in wrong THEN Off
    ELSE IF o \notin drawn THEN x
    ELSE LET left == IF o \in late /\ x.left > 1 THEN x.left - 2 ELSE x.left - 1
         IN  IF left = 0 THEN Off ELSE [x EXCEPT !.left = left]

Shown(x, y, o, wrong, drawn, before) ==
    IF ~x.on \/ x.delay > 0 \/ o \in wrong \/ o \notin drawn THEN before
    ELSE IF y.on THEN Between ELSE x.to

\* Seeded fault: an output that skips its frame does not count as active.
StepForgetful(t, before, wrong, works, late) ==
    LET drawn == works \cap free
        next == [o \in Panels |-> NextFrame(t[o], o, wrong, drawn, late)]
        busy == \E o \in Panels : next[o].on /\ next[o] # t[o]
    IN  /\ trans' = next
        /\ screen' = [o \in Panels |-> Shown(t[o], next[o], o, wrong, drawn, before[o])]
        /\ free' = {o \in free : next[o] = t[o] \/ t[o].delay > 0 \/ o \in wrong}
        /\ going' = busy
        /\ timer' = IF busy THEN "armed" ELSE "off"

\* transition_engine_step over all outputs from the state t; the timer stops when none is
\* left.  `wrong` are the outputs with buffers of another size, `works` those whose
\* drawing succeeds.
Step(t, before, wrong, works, late) ==
    LET drawn == works \cap free
        next == [o \in Panels |-> NextFrame(t[o], o, wrong, drawn, late)]
        busy == \E o \in Panels : next[o].on
    IN  /\ trans' = next
        /\ screen' = [o \in Panels |-> Shown(t[o], next[o], o, wrong, drawn, before[o])]
        /\ free' = {o \in free : next[o] = t[o] \/ t[o].delay > 0 \/ o \in wrong}
        /\ going' = busy
        /\ timer' = IF busy THEN "armed" ELSE "off"

Ask(targets) ==
    /\ wanted < MaxWanted
    /\ wanted' = wanted + 1
    /\ wiped' = wiped \ (targets \cap ready)
    /\ asked' = [o \in Panels |-> IF o \in targets \cap ready THEN wanted + 1 ELSE asked[o]]
    /\ UNCHANGED ready

\* The request is for an image; shaders and scenes on its targets stop.
AskImage(targets) ==
    /\ Ask(targets)
    /\ latest' = wanted + 1
    /\ live' = live \ targets

\* The wallpaper at once (no transition asked for): what ran on its targets ends, and the
\* timer with it if nothing else runs.
ShowNow(targets) ==
    /\ AskImage(targets)
    /\ trans' = [o \in Panels |-> IF o \in targets THEN Off ELSE trans[o]]
    /\ screen' = [o \in Panels |-> IF o \in targets \cap ready THEN wanted + 1 ELSE screen[o]]
    /\ stale' = stale \ (targets \cap ready)
    /\ going' = (going /\ \E o \in Panels : trans'[o].on)
    /\ timer' = IF timer = "due" /\ ~\E o \in Panels : trans'[o].on THEN "armed" ELSE timer
    /\ UNCHANGED free

\* Seeded fault: an output in a transition keeps the wallpaper it was on its way to.
StartKeepsWay(targets, broken, gap, works, late) ==
    LET started == (targets \cap ready) \ broken
        t == [o \in Panels |->
                 IF o \in started
                 THEN [on |-> TRUE, delay |-> 0, left |-> Frames,
                       to |-> IF trans[o].on THEN trans[o].to ELSE wanted + 1]
                 ELSE IF o \in targets THEN Off ELSE trans[o]]
    IN  /\ broken = {}
        /\ AskImage(targets)
        /\ stale' = stale \ (targets \cap ready)
        /\ IF started = {}
           THEN /\ trans' = t
                /\ going' = (going /\ \E o \in Panels : t[o].on)
                /\ timer' = IF timer = "due" /\ ~going' THEN "armed" ELSE timer
                /\ UNCHANGED <<free, screen>>
           ELSE Step(t, screen, stale \ (targets \cap ready), works, late)

\* daemon_start_image_transition.  Targets that are ready set out for the new wallpaper,
\* one after the other by `gap` ticks; the `broken`, for which no buffers or no
\* staging memory can be had, show it at once.  The first step is taken here.
Start(targets, broken, gap, works, late) ==
    LET started == (targets \cap ready) \ broken
        Turn == CHOOSE f \in [started -> 0..Cardinality(started) - 1] :
                   \A x, y \in started : x # y => f[x] # f[y]
        Delay(o) == IF Turn[o] * gap > MaxDelay THEN MaxDelay ELSE Turn[o] * gap
        t == [o \in Panels |->
                 IF o \in started
                 THEN [on |-> TRUE, delay |-> Delay(o), left |-> Frames, to |-> wanted + 1]
                 ELSE IF o \in targets THEN Off ELSE trans[o]]
        before == [o \in Panels |-> IF o \in targets \cap ready \cap broken THEN wanted + 1
                                   ELSE screen[o]]
    IN  /\ broken \subseteq targets \cap ready
        /\ AskImage(targets)
        /\ stale' = stale \ (targets \cap ready)
        /\ IF started = {}
           THEN /\ trans' = t /\ screen' = before
                /\ going' = (going /\ \E o \in Panels : t[o].on)
                /\ timer' = IF timer = "due" /\ ~going' THEN "armed" ELSE timer
                /\ UNCHANGED free
           ELSE Step(t, before, stale \ (targets \cap ready), works, late)

\* daemon_activate_shader and daemon_activate_workshop with a transition: an output with a
\* ring and a snapshot sets out at once; the timer is armed afterwards, without a
\* first step.
Animate(targets, plain) ==
    LET started == (targets \cap ready) \ plain
    IN  /\ Ask(targets)
        /\ live' = live \cup (targets \cap ready)
        /\ trans' = [o \in Panels |->
              IF o \in started
              THEN [on |-> TRUE, delay |-> 0, left |-> Frames, to |-> wanted + 1]
              ELSE IF o \in targets THEN Off ELSE trans[o]]
        /\ screen' = [o \in Panels |-> IF o \in targets \cap ready \cap plain THEN wanted + 1
                                      ELSE screen[o]]
        /\ stale' = stale \ (targets \cap ready)
        /\ going' = (going \/ started # {})
        /\ timer' = IF started # {} THEN "armed" ELSE timer
        /\ UNCHANGED <<free, latest>>

\* transition_engine_dispatch_tick.
Tick(works, late) ==
    /\ timer = "due"
    /\ Step(trans, screen, stale, works, late)
    /\ UNCHANGED <<ready, stale, asked, live, latest, wiped, wanted>>

\* The timer, which repeats.
Expire ==
    /\ timer = "armed"
    /\ timer' = "due"
    /\ UNCHANGED <<trans, ready, free, stale, screen, asked, live, latest, wiped, going,
                   wanted>>

\* The compositor gives a buffer back.
GiveBack(o) ==
    /\ o \notin free
    /\ free' = free \cup {o}
    /\ UNCHANGED <<trans, ready, stale, screen, asked, live, latest, wiped, timer, going,
                   wanted>>

\* layer_surface_configure: the surface is there, and daemon_on_output_configured puts back
\* what was asked for.
Appear(o) ==
    /\ o \notin ready
    /\ ready' = ready \cup {o}
    /\ screen' = [screen EXCEPT ![o] = asked[o]]
    /\ UNCHANGED <<trans, free, stale, asked, live, latest, wiped, timer, going, wanted>>

\* layer_surface_configure with another size.  While anything moves the size alone
\* changes; otherwise an output with an image is painted with the one loaded last.
Resize(o) ==
    /\ o \in ready
    /\ IF trans[o].on THEN stale' = stale \cup {o} /\ UNCHANGED <<screen, wiped>>
       ELSE IF live # {} \/ asked[o] = 0 THEN UNCHANGED <<stale, screen, wiped>>
       ELSE /\ screen' = [screen EXCEPT ![o] = latest]
            /\ wiped' = IF latest # asked[o] THEN wiped \cup {o} ELSE wiped
            /\ stale' = stale \ {o}
    /\ UNCHANGED <<trans, ready, free, asked, live, latest, timer, going, wanted>>

\* output_node_destroy_surface.
Close(o) ==
    /\ o \in ready
    /\ ready' = ready \ {o}
    /\ trans' = [trans EXCEPT ![o] = Off]
    /\ stale' = stale \ {o}
    /\ free' = free \cup {o}
    /\ live' = live \ {o} /\ wiped' = wiped \ {o}
    /\ UNCHANGED <<screen, asked, latest, timer, going, wanted>>

TransNext ==
    \/ Expire
    \/ \E targets \in SUBSET Panels :
          \/ ShowNow(targets)
          \/ \E plain \in SUBSET Panels : Animate(targets, plain)
          \/ \E broken, works, late \in SUBSET Panels, gap \in 0..1 :
                Start(targets, broken, gap, works, late)
    \/ \E works, late \in SUBSET Panels : Tick(works, late)
    \/ \E o \in Panels : GiveBack(o) \/ Appear(o) \/ Resize(o) \/ Close(o)

\* The timer expires, the loop handles it, the compositor gives buffers back, and drawing
\* does not fail for ever.
TransFairness ==
    /\ WF_transVars(Expire)
    /\ SF_transVars(Tick(Panels, {}))
    /\ \A o \in Panels : WF_transVars(GiveBack(o))

TransSpec == TransInit /\ [][TransNext]_transVars /\ TransFairness

-----------------------------------------------------------------------------

\* The wallpaper asked for last wins: an output that is in no transition shows it, also
\* when it was asked for in the middle of the transition to another.  (Not after a
\* resize in a transition, when the step gives up and nobody paints the rest; nor on an
\* output at rest that a resize repaints with the newest picture of another one.)
LastRequestWins ==
    \A o \in ready \ (stale \cup wiped) : ~trans[o].on => screen[o] = asked[o]

\* Whatever was started, replaced, delayed, skipped, failed, resized or closed in between:
\* every transition comes to its end, so the timer runs while one needs it.
TransitionsEnd == \A o \in Panels : trans[o].on ~> ~trans[o].on
=============================================================================
