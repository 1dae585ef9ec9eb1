----------------------------- MODULE MCServices -----------------------------
(* What the daemon is to others and what it holds, side by side: each         *)
(* behaviour is one of its socket, its subscribers, the state it stores, the  *)
(* palettes it exports, the samples it plays and hears, and one of the things *)
(* it sets up and tears down.                                                 *)
(* They share no state, so their state spaces add up.                         *)
EXTENDS ServerSocket, Subscribers, StateStore, Palettes, AudioRings, Lifetimes, TLC

CONSTANTS d1, d2, d3, d4, c1, c2, c3, m1, m2, m3, p1, p2, p3, p4, cover, s1, s2, s3

VARIABLE part

MCDaemons == {d1, d2, d3, d4}
MCActivated == {d1}
MCClients == {c1, c2, c3}
MCMonitors == {m1, m2, m3}
MCWallpaperIds == {p1, p2, p3, p4}
MCNoCache == {p3}
MCNoTheme == {p4}
MCPrograms == {s1, s2, s3}

\* Daemons started by hand, and plain wallpapers, are alike.
MCSymmetry == Permutations({d2, d3, d4}) \cup Permutations({p1, p2})

servicesVars == <<part, sockVars, subVars, storeVars, palVars, audioVars, lt>>
Idle == "idle"

ServicesInit ==
    /\ part \in {"socket", "subscribers", "store", "palettes", "audio", "lives"}
    /\ SockInit /\ SubInit /\ StoreInit /\ PaletteInit /\ AudioInit
    /\ IF part = "lives" THEN LifeInit ELSE lt = Idle
    /\ part = "lives" => file = NoFile
    /\ part # "palettes" => daylight /\ pal.light /\ pal.auto

ServicesNext ==
    /\ UNCHANGED part
    /\ \/ part = "socket" /\ SockNext /\ UNCHANGED <<subVars, storeVars, palVars, audioVars, lt>>
       \/ part = "subscribers" /\ SubNext /\ UNCHANGED <<sockVars, storeVars, palVars, audioVars, lt>>
       \/ part = "store" /\ StoreNext /\ UNCHANGED <<sockVars, subVars, palVars, audioVars, lt>>
       \/ part = "palettes" /\ PaletteNext /\ UNCHANGED <<sockVars, subVars, storeVars, audioVars, lt>>
       \/ part = "audio" /\ AudioNext /\ UNCHANGED <<sockVars, subVars, storeVars, palVars, lt>>
       \/ part = "lives" /\ LifeNext /\ UNCHANGED <<sockVars, subVars, storeVars, palVars, audioVars>>

ServicesSpec == ServicesInit /\ [][ServicesNext]_servicesVars

\* A crash at any point of a save leaves the last saved table on disk (state_store.c:174),
\* and what a monitor shows is what would be restored to it (state_store.c:286, 328), or
\* newer than that, an engine for all monitors (ipc_server.c:1470).
StoredAsShown == AckedOnDisk /\ StoreFollowsScreen

\* Whichever step of a set-up, a file or a scene fails, everything that was acquired is
\* released exactly once, after what was made with it.
NothingKept == part = "lives" => NothingLeft
=============================================================================
