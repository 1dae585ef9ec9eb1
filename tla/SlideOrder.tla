----------------------------- MODULE SlideOrder -----------------------------
(***************************************************************************)
(* The order in which a slideshow presents its files (slideshow.c): the     *)
(* list is read once, sorted or shuffled, walked by the timer and by        *)
(* requests, shuffled again at its end and read again when the daemon       *)
(* reloads, while files come and go in the directory.                       *)
(***************************************************************************)
EXTENDS Naturals, Sequences, FiniteSets, SequencesExt

CONSTANTS
    Pictures,   \* what may be in the directory: numbers, in the order of their names
    Age(_),     \* the older, the larger
    NoPicture

VARIABLE sl
slideVars == <<sl>>

Modes == {"random", "ascending", "descending", "mtime"}

Before(mode, a, b) ==
    CASE mode = "descending" -> a > b
      [] mode = "mtime" -> Age(a) < Age(b)
      [] OTHER -> a < b

\* shuffle_files: any order that does not begin with what was shown last.
Shuffles(list, last) ==
    {p \in [DOMAIN list -> Range(list)] :
        IsInjective(p) /\ (Len(list) > 1 => p[1] # last)}

\* scan_path_recursive and apply_sort_or_shuffle
Scans(files, mode, last) ==
    LET sorted == SetToSortSeq(files, LAMBDA a, b : Before(mode, a, b))
    IN  IF mode = "random" THEN Shuffles(sorted, last) ELSE {sorted}

\* display_current_image: what cannot be loaded leaves the screen as it is.
Display(s) ==
    IF s.list = << >> THEN s
    ELSE LET p == s.list[s.idx]
         IN  [s EXCEPT !.last = p, !.shown = IF p \in s.files THEN p ELSE @, !.read = FALSE]

\* Seeded fault: the walk begins again whenever the list is read.
KeptNever(list, mode, cur) == 1

\* slideshow_rescan: a sorted list goes on at the picture it was at.
Kept(list, mode, cur) ==
    LET at == {i \in DOMAIN list : list[i] = cur}
    IN  IF mode = "random" \/ at = {} THEN 1 ELSE CHOOSE i \in at : TRUE

Current(s) == IF s.idx \in DOMAIN s.list THEN s.list[s.idx] ELSE NoPicture

Rescans(s, mode) ==
    {[s EXCEPT !.list = l, !.mode = mode, !.idx = Kept(l, mode, Current(s)),
               !.last = IF @ = NoPicture THEN Current(s) ELSE @, !.read = TRUE]
        : l \in Scans(s.files, mode, IF s.last = NoPicture THEN Current(s) ELSE s.last)}

\* advance_slideshow_index
Advances(s) ==
    IF s.idx + 1 <= Len(s.list) THEN {[s EXCEPT !.idx = @ + 1]}
    ELSE IF s.mode = "random" /\ Len(s.list) > 1
    THEN {[s EXCEPT !.idx = 1, !.list = l] : l \in Shuffles(s.list, s.last)}
    ELSE {[s EXCEPT !.idx = 1]}

Armed(s) == [s EXCEPT !.armed = TRUE, !.expired = FALSE]
Disarmed(s) == [s EXCEPT !.armed = FALSE, !.expired = FALSE]

SlideInit ==
    \E files \in SUBSET Pictures :
        sl = [files |-> files, list |-> << >>, idx |-> 1, last |-> NoPicture,
              mode |-> "random", active |-> FALSE, paused |-> FALSE,
              armed |-> FALSE, expired |-> FALSE, shown |-> NoPicture, read |-> FALSE]

\* slideshow_start
Begin(mode) ==
    \E s \in Rescans([sl EXCEPT !.list = << >>, !.idx = 1, !.last = NoPicture], mode) :
        sl' = IF s.list = << >>
              THEN IF s.active THEN [Disarmed(s) EXCEPT !.active = FALSE, !.paused = FALSE] ELSE s
              ELSE Armed(Display([s EXCEPT !.active = TRUE, !.paused = FALSE, !.idx = 1]))

\* slideshow_dispatch_tick
TickOnce ==
    /\ sl.expired
    /\ LET s == [sl EXCEPT !.expired = FALSE]
       IN  IF ~s.active \/ s.paused \/ s.list = << >> THEN sl' = s
           ELSE \E a \in Advances(s) : sl' = Display(a)

Rearmed(s) == IF s.paused THEN s ELSE Armed(s)

NextPicture ==
    /\ sl.active /\ sl.list # << >>
    /\ \E a \in Advances(sl) : sl' = Rearmed(Display(a))

PrevPicture ==
    /\ sl.active /\ sl.list # << >>
    /\ sl' = Rearmed(Display([sl EXCEPT !.idx = IF @ = 1 THEN Len(sl.list) ELSE @ - 1]))

PauseShow == sl.active /\ ~sl.paused /\ sl' = [Disarmed(sl) EXCEPT !.paused = TRUE]

ResumeShow == sl.active /\ sl.paused /\ sl' = [Armed(sl) EXCEPT !.paused = FALSE]

EndShow == sl.active /\ sl' = [Disarmed(sl) EXCEPT !.active = FALSE, !.paused = FALSE]

\* daemon_reload_config: the list is read again, perhaps in another order.
ReloadShow(mode) == sl.active /\ \E s \in Rescans(sl, mode) : sl' = s

\* slideshow_clone: an output gets a copy with a timer of its own.
CloneShow ==
    /\ sl.active
    /\ LET s == [Disarmed(sl) EXCEPT
                   !.idx = IF @ > Len(sl.list) /\ sl.list # << >> THEN Len(sl.list) ELSE @]
       IN  sl' = IF s.active /\ ~s.paused THEN Armed(s) ELSE s

Expires == sl.armed /\ ~sl.expired /\ sl' = [sl EXCEPT !.expired = TRUE]
FileComes(p) == p \notin sl.files /\ sl' = [sl EXCEPT !.files = @ \cup {p}]
FileGoes(p) == p \in sl.files /\ sl' = [sl EXCEPT !.files = @ \ {p}]

SlideNext ==
    \/ TickOnce \/ NextPicture \/ PrevPicture \/ PauseShow \/ ResumeShow \/ EndShow
    \/ CloneShow \/ Expires
    \/ \E mode \in Modes : Begin(mode) \/ ReloadShow(mode)
    \/ \E p \in Pictures : FileComes(p) \/ FileGoes(p)

SlideSpec == SlideInit /\ [][SlideNext]_slideVars

-----------------------------------------------------------------------------
\* A slideshow that is neither paused nor stopped has its timer armed, through
\* requests, reloads and copies; unless it begins anew, the picture after the
\* one shown last is another one, also where a shuffled list begins again,
\* provided the list was not read in between; and a sorted list that was read
\* again goes on at the picture it was at, as long as that is still there.
GoesOnStep ==
    /\ sl'.armed <=> sl'.active /\ ~sl'.paused
    /\ (~\E mode \in Modes : Begin(mode))
       => /\ sl.active /\ sl'.active /\ sl'.idx # sl.idx /\ ~sl.read /\ ~sl'.read
                 /\ Len(sl.list) > 1 => sl'.last # sl.last
          /\ sl.active /\ ~sl.read /\ sl'.read /\ sl'.mode # "random"
                 /\ sl.last \in sl.files => Current(sl') = sl.last
=============================================================================
