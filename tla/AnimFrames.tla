------------------------------ MODULE AnimFrames ------------------------------
(***************************************************************************)
(* Animated pictures: how the daemon reads the frames of a GIF or of an     *)
(* animated PNG, and how it draws them one after the other on one canvas,   *)
(* with what a frame leaves behind for the next, over and over.             *)
(***************************************************************************)
EXTENDS Naturals, Sequences, FiniteSets, FiniteSetsExt, SequencesExt

CONSTANTS
    Cells,      \* the places of the canvas
    AnimFiles   \* the files: records [kind, tokens], tokens a sequence

Through == 0    \* a cell that shows what is below
Nothing == [c \in Cells |-> Through]

VARIABLE an
animVars == <<an>>

-----------------------------------------------------------------------------
(* Reading the files *)

NoControl == [after |-> "keep", slow |-> FALSE]

\* One token of a GIF: a control block is about the image after it, an image
\* of no size is not a frame, and what is cut off ends the list.
GifToken(r, t) ==
    IF r.ended THEN r
    ELSE CASE t.type = "control" -> [r EXCEPT !.control = [after |-> t.after, slow |-> t.slow]]
           [] t.type = "image" ->
                 [r EXCEPT !.frames =
                             IF t.paint = << >> THEN @
                             ELSE Append(@, [paint |-> t.paint, over |-> TRUE,
                                             after |-> r.control.after, slow |-> r.control.slow,
                                             data |-> t.good]),
                           !.control = NoControl]
           [] t.type = "text" -> r
           [] OTHER -> [r EXCEPT !.ended = TRUE]

\* One chunk of an animated PNG: the data after a control chunk are that
\* frame's, the still picture only if a control chunk came before it.
ApngToken(r, t) ==
    IF r.ended THEN r
    ELSE LET n == Len(r.frames)
         IN CASE t.type = "control" ->
                    [r EXCEPT !.frames = Append(@, [paint |-> t.paint, over |-> t.over,
                                                    after |-> t.after, slow |-> t.slow,
                                                    data |-> FALSE]),
                              !.first = @ \/ ~r.still]
              [] t.type = "image" ->
                    [r EXCEPT !.still = TRUE,
                              !.frames = IF r.first /\ n > 0 THEN [@ EXCEPT ![n].data = t.good] ELSE @]
              [] t.type = "more" ->
                    [r EXCEPT !.frames = IF n > 0 THEN [@ EXCEPT ![n].data = t.good] ELSE @]
              [] t.type = "text" -> r
              [] OTHER -> [r EXCEPT !.ended = TRUE]

FramesOf(file) ==
    FoldLeft(LAMBDA r, t : IF file.kind = "gif" THEN GifToken(r, t) ELSE ApngToken(r, t),
             [frames |-> << >>, control |-> NoControl, first |-> FALSE, still |-> FALSE,
              ended |-> FALSE], file.tokens).frames

-----------------------------------------------------------------------------
(* Drawing the frames *)

Stopped == [up |-> FALSE, frames |-> << >>, at |-> 1, canvas |-> Nothing, saved |-> Nothing,
            left |-> "keep", rect |-> {}, shown |-> 0]

AnimInit == an = Stopped

\* waywal_anim_reset
Rewound(a) == [a EXCEPT !.at = 1, !.left = "keep", !.rect = {}, !.canvas = Nothing, !.saved = Nothing]

Disposed(a) ==
    [a EXCEPT !.left = "keep",
              !.canvas = CASE a.left = "clear" -> [c \in Cells |-> IF c \in a.rect THEN Through ELSE @[c]]
                           [] a.left = "restore" -> a.saved
                           [] OTHER -> @]

Kept(a, f) == IF f.after = "restore" THEN [a EXCEPT !.saved = a.canvas] ELSE a

Drawn(a, f) ==
    [a EXCEPT !.canvas = [c \in Cells |-> IF c \in DOMAIN f.paint /\ (f.paint[c] # Through \/ ~f.over)
                                          THEN f.paint[c] ELSE @[c]],
              !.left = f.after, !.rect = DOMAIN f.paint, !.at = @ + 1]

\* A frame that cannot be decoded is tried again the next time.
Stepped(a) ==
    LET b == Disposed(IF a.at > Len(a.frames) THEN Rewound(a) ELSE a)
        f == b.frames[b.at]
        c == Kept(b, f)
    IN  IF f.data THEN [Drawn(c, f) EXCEPT !.shown = b.at] ELSE [c EXCEPT !.shown = 0]

\* Only what moves is played, and its first frame is drawn to see that it can be.
Play ==
    /\ ~an.up
    /\ \E file \in AnimFiles :
          LET frames == FramesOf(file)
              first == Stepped([Stopped EXCEPT !.frames = frames])
          IN  /\ Len(frames) > 1 /\ first.shown = 1
              /\ an' = Rewound([first EXCEPT !.up = TRUE, !.shown = 0])

Tick == an.up /\ an' = Stepped(an)

Halt == an.up /\ an' = Stopped

AnimNext == Play \/ Tick \/ Halt

AnimSpec == AnimInit /\ [][AnimNext]_animVars

-----------------------------------------------------------------------------
\* What the formats say is seen in a cell with frame i: the last frame up to i
\* that drew there, or was to clear there when its time was over; a frame that is
\* to be undone counts only while it is shown.
Draws(j, c) ==
    /\ c \in DOMAIN an.frames[j].paint
    /\ an.frames[j].paint[c] # Through \/ ~an.frames[j].over

Seen(i, c) ==
    LET Clears(j) == j < i /\ an.frames[j].after = "clear" /\ c \in DOMAIN an.frames[j].paint
        Stays(j) == j = i \/ an.frames[j].after # "restore"
        count == {j \in 1 .. i : Clears(j) \/ (Stays(j) /\ Draws(j, c))}
        last == Max(count)
    IN  IF count = {} \/ Clears(last) THEN Through ELSE an.frames[last].paint[c]

\* What a GIF's frames are: the images of some size before the first thing that is
\* cut off or unknown, each with the control block that came since the image before.
GifFramesOf(file) ==
    LET t == file.tokens
        whole == {n \in 1 .. Len(t) : \A m \in 1 .. n : t[m].type \in {"control", "image", "text"}}
        images == {n \in whole : t[n].type = "image" /\ t[n].paint # << >>}
        Control(n) == {m \in 1 .. (n - 1) : t[m].type = "control"
                          /\ \A k \in m .. (n - 1) : t[k].type # "image"}
    IN  [i \in 1 .. Cardinality(images) |->
            LET n == CHOOSE n \in images : Cardinality({m \in images : m <= n}) = i
            IN  [paint |-> t[n].paint,
                 after |-> IF Control(n) = {} THEN "keep" ELSE t[Max(Control(n))].after]]

FilesAsMeant ==
    \A file \in {x \in AnimFiles : x.kind = "gif"} :
        [i \in DOMAIN FramesOf(file) |-> [paint |-> FramesOf(file)[i].paint,
                                          after |-> FramesOf(file)[i].after]] = GifFramesOf(file)

\* Every frame looks the same each time round, and as the formats say it does,
\* whatever the frames before it and the last ones of the round before left behind;
\* and the frames are those the file has.
FramesAsMeant ==
    /\ ~an.up => FilesAsMeant
    /\ an.shown > 0 => an.canvas = [c \in Cells |-> Seen(an.shown, c)]
=============================================================================
