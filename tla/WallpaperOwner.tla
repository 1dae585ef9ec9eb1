--------------------------- MODULE WallpaperOwner ---------------------------
(***************************************************************************)
(* Who decides what an output shows (main.c, ipc_server.c): the sun and    *)
(* the schedule of the configuration, a dynamic wallpaper (manifest) that   *)
(* a client asked for, or the user.  One timer lets the sun in; requests,   *)
(* rules, slideshows, hotplug, reloads and pauses happen at any time.       *)
(*                                                                         *)
(* The day has four phases, one image each.  A picture is <<kind, number>>. *)
(***************************************************************************)
EXTENDS Naturals, Sequences, FiniteSets

CONSTANTS
    Screens,     \* names of outputs
    Everywhere,  \* the target "*"
    Nowhere,     \* no target
    Plans,       \* the schedules that may be configured: sequences of rules
    Lits,        \* the sets of phases that may be configured with an image
    RuledSets    \* the sets of outputs that may be configured with a rule

Night == 0
Dawn == 1
Day == 2
Dusk == 3
Skies == Night..Dusk

\* One rule of a schedule: when it begins, and on which outputs.
Rules == [kind : {"time", "phase", "part"}, at : Skies, out : Screens \cup {Everywhere}]

ASSUME OwnerAssumption ==
    /\ Everywhere \notin Screens /\ Nowhere \notin Screens \cup {Everywhere}
    /\ Plans \subseteq Seq(Rules) /\ Lits \subseteq SUBSET Skies
    /\ RuledSets \subseteq SUBSET Screens

VARIABLES
    sky,       \* the phase of the day: night, dawn, day, dusk
    wp,        \* the wallpapers as the daemon has them
    chosen     \* outputs whose picture was chosen since the sun was last let in (history)

ownerVars == <<sky, wp, chosen>>

Nothing == <<"none", 0>>
Chosen == <<"chosen", 0>>

OwnerTypeOK ==
    /\ sky \in Skies /\ chosen \subseteq wp.here
    /\ wp.owns \in BOOLEAN /\ wp.palette \in BOOLEAN /\ wp.alarm \in BOOLEAN /\ wp.asleep \in BOOLEAN
    /\ wp.manifest \in Screens \cup {Everywhere, Nowhere}
    /\ wp.here \subseteq Screens /\ wp.kept \subseteq Screens /\ wp.ruled \subseteq Screens
    /\ wp.lit \subseteq Skies /\ wp.plan \in Plans /\ wp.lastRule \in 0..Len(wp.plan)
    /\ wp.lastFrame[1] \in {"none", "sun", "frame"}
    /\ \A o \in Screens : wp.seen[o][1] \in {"none", "chosen", "sun", "frame", "rule"}

\* config_has_solar_or_schedule_paths.
HasPaths(s) == s.lit # {} \/ s.plan # << >>

-----------------------------------------------------------------------------

\* The last of the rules for this phase, or for a part of it that it is now.
LastOf(s, kind) ==
    LET S == {i \in DOMAIN s.plan : s.plan[i].kind = kind /\ s.plan[i].at = sky}
    IN  IF S = {} THEN 0 ELSE CHOOSE i \in S : \A j \in S : j <= i

\* Of rules with a time the latest; of two with the same time the later in the file.
Latest(s, S) ==
    CHOOSE i \in S : \A j \in S :
        \/ s.plan[j].at < s.plan[i].at
        \/ s.plan[j].at = s.plan[i].at /\ j <= i

\* The schedule's choice, 0 if there is none: a rule for the part of the phase, for the
\* phase, the latest time that has passed, or yesterday's last (unless there
\* are rules for phases and it is not before sunrise).
ChosenRule(s) ==
    LET timed == {i \in DOMAIN s.plan : s.plan[i].kind = "time"}
        passed == {i \in timed : s.plan[i].at <= sky}
        wraps == timed = DOMAIN s.plan \/ sky = Night
    IN  IF LastOf(s, "part") # 0 THEN LastOf(s, "part")
        ELSE IF LastOf(s, "phase") # 0 THEN LastOf(s, "phase")
        ELSE IF passed # {} THEN Latest(s, passed)
        ELSE IF timed # {} /\ wraps THEN Latest(s, timed)
        ELSE 0

\* The image of the phase; dawn falls back on the day's and dusk on the night's.
PhaseFrame(s) ==
    LET p == IF sky \in s.lit THEN sky
             ELSE IF sky = Dawn THEN Day ELSE IF sky = Dusk THEN Night ELSE sky
    IN  IF p \in s.lit THEN <<"sun", p>> ELSE Nothing

Put(s, target, pic) ==
    [s EXCEPT !.seen = [o \in Screens |->
        IF o \in s.here /\ (target = Everywhere \/ target = o) THEN pic ELSE @[o]]]

\* One half of a tick: the manifest's frame, or the phase's, unless it is there already.
FrameTick(s, loads) ==
    LET frame == IF s.manifest # Nowhere THEN <<"frame", sky>>
                 ELSE IF s.owns THEN PhaseFrame(s) ELSE Nothing
        target == IF s.manifest # Nowhere THEN s.manifest ELSE Everywhere
    IN  IF frame = Nothing \/ frame = s.lastFrame \/ ~loads THEN s
        ELSE [Put(s, target, frame) EXCEPT !.lastFrame = frame, !.palette = TRUE]

\* The other half: the schedule's picture, over it.
RuleTick(s, loads) ==
    LET i == ChosenRule(s)
    IN  IF ~s.owns \/ i = 0 \/ i = s.lastRule \/ ~loads THEN s
        ELSE [Put(s, s.plan[i].out, <<"rule", i>>) EXCEPT !.lastRule = i, !.palette = TRUE]

Alarm(s) ==
    [s EXCEPT !.alarm = ~s.asleep /\ (s.manifest # Nowhere \/ (s.owns /\ HasPaths(s)))]

\* daemon_tick_solar_and_schedule.  A picture that cannot be loaded is tried again at the
\* next tick.
TickOf(s, frameLoads, ruleLoads) == Alarm(RuleTick(FrameTick(s, frameLoads), ruleLoads))

\* stop_engines_on_output for some outputs, outside a tick: the sun loses the wallpaper,
\* and the manifest if it was for one of them.
Stopped(s, targets) ==
    IF targets = {} THEN s
    ELSE IF s.manifest = Everywhere \/ s.manifest \in targets
    THEN [s EXCEPT !.owns = FALSE, !.manifest = Nowhere, !.lastFrame = Nothing]
    ELSE [s EXCEPT !.owns = FALSE]

Shows(s, targets, pic) ==
    [s EXCEPT !.seen = [o \in Screens |-> IF o \in targets THEN pic ELSE @[o]]]

\* An image gives the daemon its palette; videos and shaders do not.
Takes(s, targets, image) ==
    [Shows(Stopped(s, targets), targets, Chosen) EXCEPT !.palette = @ \/ image]

\* The end of a reload.
Renewed(s, lets) == [s EXCEPT !.owns = @ \/ lets, !.lastFrame = Nothing, !.lastRule = 0]

\* The sun is let in again, and draws everywhere at its next tick.
LetIn(s) == [s EXCEPT !.owns = TRUE, !.lastFrame = Nothing, !.lastRule = 0]

-----------------------------------------------------------------------------

OwnerInit ==
    /\ sky \in Skies
    /\ \E lit \in Lits, plan \in Plans :
          wp = TickOf([lit |-> lit, plan |-> plan, ruled |-> {},
                       owns |-> lit # {} \/ plan # << >>, manifest |-> Nowhere,
                       lastFrame |-> Nothing, lastRule |-> 0, palette |-> FALSE,
                       alarm |-> FALSE, asleep |-> FALSE, here |-> {}, kept |-> {},
                       seen |-> [o \in Screens |-> Nothing]], TRUE, TRUE)
    /\ chosen = {}

Elapse ==
    /\ sky' = (sky + 1) % 4
    /\ UNCHANGED <<wp, chosen>>

\* The timer's handler.
SunTick(frameLoads, ruleLoads) ==
    /\ wp.alarm
    /\ wp' = TickOf(wp, frameLoads, ruleLoads)
    /\ UNCHANGED <<sky, chosen>>

\* A client's wallpaper of any kind: the sun and the manifest lose, for whatever outputs
\* they were; what is shown is kept for the next time.
Wallpaper(targets, image) ==
    /\ targets # {} /\ targets \subseteq wp.here
    /\ wp' = [Takes(wp, targets, image) EXCEPT !.owns = FALSE, !.manifest = Nowhere,
                                        !.lastFrame = Nothing, !.kept = @ \cup targets]
    /\ chosen' = chosen \cup targets
    /\ UNCHANGED sky

\* A client's manifest: its frame of now; then the sun owns the wallpaper.
Manifest(target) ==
    LET T == {o \in wp.here : target = Everywhere \/ target = o}
        s == [Shows(Stopped(wp, T), T, <<"frame", sky>>) EXCEPT
                 !.owns = TRUE, !.manifest = target, !.lastFrame = <<"frame", sky>>,
                 !.kept = @ \cup T, !.palette = TRUE]
    IN  /\ T # {}
        /\ wp' = TickOf(s, TRUE, TRUE)
        /\ chosen' = {}
        /\ UNCHANGED sky

\* A workspace rule or an item of a slideshow puts its picture on an output.
Presented(o, image) ==
    /\ o \in wp.here
    /\ wp' = Takes(wp, {o}, image)
    /\ chosen' = chosen \cup {o}
    /\ UNCHANGED sky

\* daemon_on_output_configured: the output's rule, or what was kept for it, or the sun.
Attach(o) ==
    LET s == [wp EXCEPT !.here = @ \cup {o}]
    IN  /\ o \notin wp.here
        /\ IF o \in wp.ruled \cup wp.kept
           THEN wp' = Takes(s, {o}, TRUE) /\ chosen' = chosen \cup {o}
           ELSE IF wp.manifest # Nowhere \/ HasPaths(wp)
           THEN wp' = TickOf(LetIn(s), TRUE, TRUE) /\ chosen' = {}
           ELSE wp' = s /\ UNCHANGED chosen
        /\ UNCHANGED sky

Detach(o) ==
    /\ o \in wp.here
    /\ wp' = [wp EXCEPT !.here = @ \ {o}, !.seen[o] = Nothing]
    /\ chosen' = chosen \ {o}
    /\ UNCHANGED sky

\* daemon_apply_output_config_rule for each output that has a rule.
RulesApplied(s) == Takes(s, s.ruled \cap s.here, s.ruled \cap s.here # {})

\* daemon_reload_config: the rules are applied; without any, and before the first palette,
\* the sun is let in; then a tick.
Reload(lit, plan, ruled) ==
    LET s == RulesApplied([wp EXCEPT !.lit = lit, !.plan = plan, !.ruled = ruled])
        lets == ~wp.palette /\ ruled = {} /\ HasPaths(s)
    IN  /\ wp' = TickOf(Renewed(s, lets), TRUE, TRUE)
        /\ chosen' = IF lets THEN {} ELSE chosen \cup (ruled \cap wp.here)
        /\ UNCHANGED sky

\* daemon_reconcile_power_state: everything is paused, or something is awake again.
Pause ==
    /\ ~wp.asleep
    /\ wp' = [wp EXCEPT !.asleep = TRUE, !.alarm = FALSE]
    /\ UNCHANGED <<sky, chosen>>

\* Seeded fault: the timer waits for a request to be armed again.
ResumeUnarmed ==
    /\ wp.asleep
    /\ wp' = [wp EXCEPT !.asleep = FALSE]
    /\ UNCHANGED <<sky, chosen>>

Resume ==
    /\ wp.asleep
    /\ wp' = [wp EXCEPT !.asleep = FALSE, !.alarm = wp.manifest # Nowhere \/ HasPaths(wp)]
    /\ UNCHANGED <<sky, chosen>>

OwnerNext ==
    \/ Elapse \/ Pause \/ Resume
    \/ \E frameLoads, ruleLoads \in BOOLEAN : SunTick(frameLoads, ruleLoads)
    \/ \E targets \in SUBSET Screens, image \in BOOLEAN : Wallpaper(targets, image)
    \/ \E target \in Screens \cup {Everywhere} : Manifest(target)
    \/ \E o \in Screens : Attach(o) \/ Detach(o) \/ \E image \in BOOLEAN : Presented(o, image)
    \/ \E lit \in Lits, plan \in Plans, ruled \in RuledSets :
          Reload(lit, plan, ruled)

OwnerSpec == OwnerInit /\ [][OwnerNext]_ownerVars

-----------------------------------------------------------------------------

\* Once the user, a rule or a slideshow has put a picture on an output, no tick of the sun
\* or the schedule paints over it, through pauses, reloads and pictures that do
\* not load, until the sun is let in again: by a manifest, by an output
\* that is plugged in with nothing of its own, or by a reload before the first image.
ChosenStays == \A o \in chosen : wp.seen[o] = Chosen

\* The sun keeps its hours.  As long as it or a manifest owns the wallpaper and something is
\* awake, the timer is armed, whatever paused, failed or was reloaded before; and
\* of rules with times the schedule picks the one that began last, today or yesterday,
\* in whatever order the file has them.
SunKeepsHours ==
    LET Since(i) == (sky + 4 - wp.plan[i].at) % 4
    IN  /\ ~wp.asleep /\ (wp.manifest # Nowhere \/ (wp.owns /\ HasPaths(wp))) => wp.alarm
        /\ (\A i \in DOMAIN wp.plan : wp.plan[i].kind = "time") /\ wp.plan # << >> =>
               \A i \in DOMAIN wp.plan : Since(ChosenRule(wp)) <= Since(i)
=============================================================================
