---------------------------- MODULE MCWallpapers ----------------------------
(* What is shown, by whom it was chosen and how it comes to the screen: each *)
(* behaviour is one of the two, so that their state spaces add up.            *)
EXTENDS WallpaperOwner, Transitions

CONSTANTS A, B

VARIABLE part

MCScreens == {A, B}

Rule(kind, at, out) == [kind |-> kind, at |-> at, out |-> out]

\* Rules with times only, out of order; and rules of all three kinds.
MCPlans ==
    {<<Rule("time", Dusk, A), Rule("time", Dawn, Everywhere)>>,
     <<Rule("phase", Day, B), Rule("part", Day, Everywhere), Rule("time", Day, A)>>}

MCLits == {{}, {Night, Day}}
MCRuledSets == {{}, {A}}

wallpapersVars == <<part, ownerVars, transVars>>

WallpapersInit ==
    /\ part \in {"owner", "transitions"}
    /\ OwnerInit /\ TransInit
    /\ part # "owner" => sky = Night /\ wp.lit = {} /\ Len(wp.plan) = 2

WallpapersNext ==
    /\ UNCHANGED part
    /\ \/ part = "owner" /\ OwnerNext /\ UNCHANGED transVars
       \/ part = "transitions" /\ TransNext /\ UNCHANGED ownerVars

WallpapersSpec == WallpapersInit /\ [][WallpapersNext]_wallpapersVars /\ TransFairness

\* No tick of the sun or the schedule paints over what was chosen (main.c:4056), and as
\* long as either owns the wallpaper its timer is armed and picks the rule of the hour
\* (main.c:3900, solar_schedule.c:1204), through pauses, reloads and failures.
OwnersKeepTheirs == ChosenStays /\ SunKeepsHours
=============================================================================
