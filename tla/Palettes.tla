------------------------------ MODULE Palettes ------------------------------
(***************************************************************************)
(* Which colours the desktop gets (main.c): a palette is taken from the    *)
(* wallpaper, or, while a player has a cover and the configuration says so, *)
(* from the cover; it is light or dark by the configuration or by the sun.  *)
(* Other programs read what was last exported.  Some wallpapers (no_cache)  *)
(* must leave no trace there, others (no_theme) give no palette at all.     *)
(***************************************************************************)
EXTENDS FiniteSets

CONSTANTS
    Wallpapers,       \* images that are shown
    NoCache, NoTheme, \* those whose request said no_cache, no_theme
    Covers,           \* covers of what is played
    Unset             \* no image, no palette

ASSUME PaletteAssumption ==
    /\ NoCache \cup NoTheme \subseteq Wallpapers /\ NoCache \cap NoTheme = {}
    /\ Unset \notin Wallpapers \cup Covers /\ Wallpapers \cap Covers = {}
    /\ Unset \notin [of : Wallpapers \cup Covers, light : BOOLEAN]

VARIABLES
    daylight,  \* the sun is up
    pal,       \* the daemon's palettes and the settings they depend on
    player     \* the player that is followed: its cover, and whether it stopped

palVars == <<daylight, pal, player>>

Of(image, light) == [of |-> image, light |-> light]
SomePalettes == [of : Wallpapers \cup Covers, light : BOOLEAN]

PaletteTypeOK ==
    /\ daylight \in BOOLEAN
    /\ player \in [cover : Covers \cup {Unset}, stopped : BOOLEAN]
    /\ pal \in [wall : Wallpapers \cup {Unset},
                active : SomePalettes \cup {Unset}, saved : SomePalettes \cup {Unset},
                exported : SomePalettes \cup {Unset}, media : BOOLEAN, lastDay : {Unset} \cup BOOLEAN,
                enabled : BOOLEAN, fromMedia : BOOLEAN, light : BOOLEAN, auto : BOOLEAN]

Private(s) == s.wall \in NoCache
Themeless(s) == s.wall \in NoTheme

\* daemon_resolve_effective_theme_mode.
Mode(s) == IF s.auto THEN daylight ELSE s.light

Export(s) == [s EXCEPT !.exported = s.active]

\* A palette taken again from the wallpaper's pixels; a private one is not kept.
Retaken(s, light) ==
    LET p == Of(s.wall, light)
    IN  [s EXCEPT !.active = p, !.saved = IF Private(s) THEN @ ELSE p]

\* What follows a change of the active palette because of a player.
Themed(s) ==
    IF ~s.enabled \/ (~s.media /\ (Themeless(s) \/ Private(s))) THEN s ELSE Export(s)

\* Seeded fault: when the music stops the saved palette is taken back for any wallpaper.
HeardSavedAlways(s, changed) ==
    IF s.fromMedia /\ player'.cover # Unset /\ ~player'.stopped
    THEN IF changed \/ ~s.media
         THEN Themed([s EXCEPT !.active = Of(player'.cover, Mode(s)), !.media = TRUE])
         ELSE s
    ELSE IF ~s.media THEN s
    ELSE IF s.saved # Unset THEN Themed([s EXCEPT !.media = FALSE, !.active = s.saved])
    ELSE IF s.wall # Unset THEN Themed(Retaken([s EXCEPT !.media = FALSE], Mode(s)))
    ELSE [s EXCEPT !.media = FALSE]

\* daemon_apply_mpris_album_art_and_theme, for the player as it is now.
Heard(s, changed) ==
    LET quiet == [s EXCEPT !.media = FALSE]
    IN  IF s.fromMedia /\ player'.cover # Unset /\ ~player'.stopped
        THEN IF changed \/ ~s.media
             THEN Themed([s EXCEPT !.active = Of(player'.cover, Mode(s)), !.media = TRUE])
             ELSE s
        ELSE IF ~s.media THEN s
        ELSE IF s.saved # Unset /\ ~Private(s) THEN Themed([quiet EXCEPT !.active = s.saved])
        ELSE IF s.wall # Unset THEN Themed(Retaken(quiet, Mode(s)))
        ELSE quiet

\* daemon_update_palette_from_bgra.  While the cover's palette is active the wallpaper's is
\* only saved.
ImageLoaded(s, w, exports) ==
    LET p == Of(w, Mode(s))
        t == [s EXCEPT !.wall = w, !.saved = IF w \in NoTheme THEN Unset
                                             ELSE IF w \in NoCache THEN @ ELSE p]
    IN  IF w \in NoTheme \/ (s.fromMedia /\ s.media) THEN t
        ELSE IF exports /\ s.enabled /\ w \notin NoCache THEN Export([t EXCEPT !.active = p])
        ELSE [t EXCEPT !.active = p]

\* The end of daemon_tick_solar_and_schedule, when the tick itself put up no picture.  While a
\* cover's palette is active the saved one is taken again, of a private wallpaper too.
SunThemed(s) ==
    LET t == [s EXCEPT !.lastDay = daylight]
        turned == s.lastDay # Unset /\ s.lastDay # daylight
        wrong == s.active # Unset /\ s.active.light # daylight
        applies == /\ turned \/ wrong
                   /\ s.enabled /\ s.active # Unset /\ s.wall # Unset /\ ~Themeless(s)
    IN  IF ~s.auto THEN s
        ELSE IF ~applies THEN t
        ELSE IF ~s.media THEN IF Private(s) THEN Retaken(t, daylight) ELSE Export(Retaken(t, daylight))
        ELSE IF s.saved # Unset THEN [t EXCEPT !.saved = Of(s.wall, daylight)]
        ELSE t

\* The palette's part of daemon_reload_config.  A palette that was never saved stays so.
Rethemed(s) ==
    LET t == IF s.media \/ s.wall = Unset THEN s
             ELSE [Retaken(s, Mode(s)) EXCEPT !.saved = IF s.saved = Unset THEN Unset ELSE @]
    IN  IF ~s.enabled \/ s.active = Unset \/ (Themeless(s) /\ ~s.media) THEN s
        ELSE IF Private(s) /\ ~s.media THEN t
        ELSE Export(t)

-----------------------------------------------------------------------------

PaletteInit ==
    /\ daylight \in BOOLEAN
    /\ player = [cover |-> Unset, stopped |-> TRUE]
    /\ pal \in [wall : {Unset}, active : {Unset}, saved : {Unset}, exported : {Unset},
                media : {FALSE}, lastDay : {Unset}, enabled : {TRUE}, fromMedia : {TRUE},
                light : BOOLEAN, auto : BOOLEAN]
    /\ pal.auto => pal.light

\* The sun rises or sets; nothing notices before the next tick.
Turn ==
    /\ daylight' = ~daylight
    /\ UNCHANGED <<pal, player>>

ThemeTick ==
    /\ pal' = SunThemed(pal)
    /\ UNCHANGED <<daylight, player>>

\* An image is shown for a client, which exports by itself, or for a rule or a slideshow.
Load(w, exports) ==
    /\ pal' = ImageLoaded(pal, w, exports)
    /\ UNCHANGED <<daylight, player>>

\* daemon_mpris_on_change.
Play(cover, stopped) ==
    /\ player' = [cover |-> cover, stopped |-> stopped]
    /\ player' # player
    /\ pal' = Heard(pal, cover # player.cover)
    /\ UNCHANGED daylight

\* daemon_reload_config: new settings, then the rules, the palette and a tick.
ReloadTheme(enabled, fromMedia, light, rule) ==
    LET s == [pal EXCEPT !.enabled = enabled, !.fromMedia = fromMedia, !.light = light]
        t == IF fromMedia # pal.fromMedia THEN Heard(s, TRUE) ELSE s
    IN  /\ UNCHANGED <<daylight, player>>
        /\ pal' = SunThemed(IF rule = Unset THEN Rethemed(t) ELSE ImageLoaded(t, rule, TRUE))

PaletteNext ==
    \/ Turn \/ ThemeTick
    \/ \E w \in Wallpapers, exports \in BOOLEAN : Load(w, exports)
    \/ \E cover \in Covers \cup {Unset}, stopped \in BOOLEAN : Play(cover, stopped)
    \/ \E enabled, fromMedia, light \in BOOLEAN, rule \in Wallpapers \cup {Unset} :
          /\ pal.auto => light     \* which is not looked at then
          /\ ReloadTheme(enabled, fromMedia, light, rule)

PaletteSpec == PaletteInit /\ [][PaletteNext]_palVars

-----------------------------------------------------------------------------

\* Whatever is played, stopped, reloaded and loaded in between, and in whatever order: while
\* no cover's palette is active the palette is that of the wallpaper shown last (one that
\* gives a palette), so a stopped player never brings an older one back; and a
\* wallpaper shown with no_cache or no_theme never reaches the files other programs read,
\* though its palette is saved, taken again and taken back with the others.
PaletteOfWallpaper ==
    /\ ~pal.media /\ pal.wall # Unset /\ ~Themeless(pal) => pal.active.of = pal.wall
    /\ pal.exported = Unset \/ pal.exported.of \notin NoCache \cup NoTheme
=============================================================================
