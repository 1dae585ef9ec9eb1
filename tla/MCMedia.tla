------------------------------ MODULE MCMedia ------------------------------
(* What plays: video files and their pictures, the references of H.264,       *)
(* animations, slideshows and the media players on the bus. Each behaviour is *)
(* one of the parts and `it' is the state of that part, so that their state   *)
(* spaces add up.  MCPrograms adds its parts and the specification.           *)
EXTENDS Integers, Sequences, FiniteSets, SequencesExt, TLC

CONSTANTS NoSurface, Nobody, Bus, NoPicture, n1, n2, o1, o2

VARIABLES part, it

-----------------------------------------------------------------------------
(* Video *)

Pic(id, idr, ref, num, poc, uses) ==
    [id |-> id, idr |-> idr, ref |-> ref, num |-> num, poc |-> poc,
     uses |-> uses, unmark |-> {},
     deltas |-> {}]

\* A picture of HEVC names its references by their distance in order.
Refers(pocs, p) == [p EXCEPT !.deltas = {q - p.poc : q \in pocs}]

\* H.264, two references, groups of two B-frames.
Film ==
    [codec |-> "h264", refs |-> 2, reorder |-> 1, packets |->
        <<Pic(1, TRUE, TRUE, 0, 0, {}), Pic(2, FALSE, TRUE, 1, 6, {1}),
          Pic(3, FALSE, FALSE, 2, 2, {1, 2}), Pic(4, FALSE, FALSE, 2, 4, {1, 2}),
          Pic(5, FALSE, TRUE, 2, 12, {2}), Pic(6, FALSE, FALSE, 3, 8, {2, 5}),
          Pic(7, FALSE, FALSE, 3, 10, {2, 5}), Pic(8, FALSE, TRUE, 3, 18, {5}),
          Pic(9, FALSE, FALSE, 4, 16, {8}),
          Pic(10, TRUE, TRUE, 0, 0, {}), Pic(11, FALSE, TRUE, 1, 2, {10})>>]

\* HEVC, a pyramid of B-frames.
Pyramid ==
    [codec |-> "hevc", refs |-> 4, reorder |-> 2, packets |->
        <<Pic(1, TRUE, TRUE, 0, 0, {}), Refers({0}, Pic(2, FALSE, TRUE, 1, 4, {1})),
          Refers({0, 4}, Pic(3, FALSE, TRUE, 2, 2, {1, 2})),
          Refers({0, 2}, Pic(4, FALSE, FALSE, 3, 1, {1, 3})),
          Refers({2, 4}, Pic(5, FALSE, FALSE, 3, 3, {2, 3})),
          Refers({4}, Pic(6, FALSE, TRUE, 3, 8, {2})),
          Refers({4, 8}, Pic(7, FALSE, TRUE, 4, 6, {2, 6})),
          Refers({4, 6}, Pic(8, FALSE, FALSE, 5, 5, {2, 7})),
          Refers({6, 8}, Pic(9, FALSE, FALSE, 5, 7, {6, 7}))>>]

Fr(id, key, refresh, shown, existing) ==
    [id |-> id, key |-> key, refresh |-> refresh, shown |-> shown, existing |-> existing]

\* VP9 with a hidden frame that is shown later.
Web ==
    [codec |-> "vp9", refs |-> 8, reorder |-> 0, packets |->
        <<[frames |-> <<Fr(1, TRUE, {0, 1, 2}, TRUE, NoSurface)>>, shows |-> 1, uses |-> {}],
          [frames |-> <<Fr(2, FALSE, {1}, FALSE, NoSurface), Fr(3, FALSE, {0}, TRUE, NoSurface)>>,
           shows |-> 3, uses |-> {1}],
          [frames |-> <<Fr(4, FALSE, {2}, TRUE, NoSurface)>>, shows |-> 4, uses |-> {2, 3}],
          [frames |-> <<Fr(0, FALSE, {}, TRUE, 1)>>, shows |-> 2, uses |-> {2}],
          [frames |-> <<Fr(5, FALSE, {}, TRUE, NoSurface)>>, shows |-> 5, uses |-> {2, 4}]>>]

\* The same in AV1.
Stream == [Web EXCEPT !.codec = "av1"]

Films == {Film, Pyramid, Web, Stream}

Video == INSTANCE VideoPictures WITH vid <- it, Blank <- NoSurface,
    Streams <- Films, Spare <- 6, MinPool <- 8, Lsb <- 16, Vpp <- BOOLEAN, LoopCounts <- {0, 2},
    MaxHeld <- 2, MaxPasses <- 2, MaxLoads <- 2, MaxFaults <- 1

References == INSTANCE RefLists WITH ref <- it, MaxFrameNum <- 4, Entries <- 3, Active <- 2

-----------------------------------------------------------------------------
(* Files of video *)
Run(n, v) == [n |-> n, v |-> v]
Track(codec, cut, runs, times, shifts, keyed) ==
    [video |-> TRUE, codec |-> codec, scale |-> 4, sizes |-> <<2, 1, 3, 2, 1>>,
     chunks |-> <<20, 40, 10>>, runs |-> runs, times |-> times, shifts |-> shifts,
     keyed |-> keyed, keys |-> {1, 4}, cut |-> cut]
Sound == [Track("aac", "none", << >>, << >>, << >>, FALSE) EXCEPT !.video = FALSE]
Runs == {<<[first |-> 1, per |-> 2]>>, <<[first |-> 1, per |-> 1], [first |-> 2, per |-> 2]>>,
         <<[first |-> 1, per |-> 3], [first |-> 3, per |-> 2]>>,
         <<[first |-> 1, per |-> 1], [first |-> 2, per |-> 3], [first |-> 3, per |-> 1]>>}
Times == {<<Run(5, 3)>>, <<Run(2, 1), Run(3, 5)>>, <<Run(1, 2), Run(1, 3), Run(4, 1)>>}
Shifts == {<< >>, <<Run(1, 2), Run(2, 6), Run(2, 1)>>, <<Run(2, 1), Run(1, -2), Run(2, 3)>>}
Mp4Files ==
    {[kind |-> "mp4", size |-> z, tracks |-> ts] : z \in {60, 42},
       ts \in {<<Sound, Track(c, cut, r, m, s, k)>> :
                 c \in {"h264", "mjpeg"}, cut \in {"none", "shifts", "times"},
                 r \in Runs, m \in Times, s \in Shifts, k \in BOOLEAN}}
Ordered(f) == f.kind = "mp4" => \A t \in {f.tracks[2]} : t.keyed \/ t.shifts = << >>
Block(at, rel, lacing, sizes, len, key) ==
    [track |-> 2, at |-> at, rel |-> rel, lacing |-> lacing, sizes |-> sizes, len |-> len,
     flag |-> key, grouped |-> lacing # "none", refers |-> ~key]
WTracks == <<[video |-> FALSE, codec |-> "opus", no |-> 1, step |-> 0],
             [video |-> TRUE, codec |-> "vp9", no |-> 2, step |-> 3]>>
Laces == {<<"none", <<4>> >>, <<"xiph", <<1, 2, 1>> >>, <<"fixed", <<1, 1, 2>> >>,
          <<"ebml", <<1, 1, 2>> >>, <<"xiph", <<3, 3, 1>> >>}
Clusters(open, lace, key) ==
    << [time |-> 0, open |-> open,
        blocks |-> <<Block(2, -1, "none", <<3>>, 3, TRUE), Block(5, 4, lace[1], lace[2], 4, key)>>],
       [time |-> 12, open |-> FALSE, blocks |-> <<Block(20, 0, "none", <<2>>, 2, TRUE)>>] >>
WebMFiles ==
    {[kind |-> "webm", size |-> z, scale |-> 1000, tracks |-> WTracks,
      clusters |-> Clusters(o, l, k)] :
        o \in BOOLEAN, z \in {21, 60}, l \in Laces, k \in BOOLEAN}
VideoFiles == {f \in Mp4Files : Ordered(f)} \cup WebMFiles

Demux == INSTANCE Demuxer WITH dm <- it,
    Files <- VideoFiles, Micro <- 6, LaceStep <- 2, Targets <- {0, 5, 9}

-----------------------------------------------------------------------------
(* Animations *)
P1 == (1 :> 3)
P2 == (1 :> 4 @@ 2 :> 5)
P3 == (1 :> 0 @@ 2 :> 6)   \* what is below shows through
GifToks ==
    [type : {"control"}, after : {"clear", "restore"}, slow : {FALSE}]
    \cup [type : {"image"}, paint : {P1, P2, P3, << >>}, good : {TRUE}]
    \cup [type : {"image"}, paint : {P2}, good : {FALSE}] \cup [type : {"end"}]
PngToks ==
    [type : {"control"}, paint : {P1, P3}, over : BOOLEAN,
     after : {"keep", "clear", "restore"}, slow : {FALSE}]
    \cup [type : {"image", "more"}, good : {TRUE}]
Animations ==
    [kind : {"gif"}, tokens : BoundedSeq(GifToks, 4)]
    \cup [kind : {"apng"}, tokens : [1..4 -> PngToks]]

Anim == INSTANCE AnimFrames WITH an <- it, Cells <- {1, 2}, AnimFiles <- Animations

-----------------------------------------------------------------------------
(* Slideshows and players *)
Older(p) == (p * 2) % 3
Slides == INSTANCE SlideOrder WITH sl <- it, Pictures <- {1, 2, 3}, Age <- Older

Media == INSTANCE Players WITH mp <- it, None <- Nobody,
    Names <- {n1, n2}, Owners <- {o1, o2},
    Started <- {[n \in {n1, n2} |-> Nobody], [n \in {n1, n2} |-> IF n = n1 THEN o1 ELSE o2]},
    Moves <- {"stopped", "playing"}, MaxPlayers <- 2, MaxEvents <- 2

-----------------------------------------------------------------------------
mediaVars == <<part, it>>

MediaInit ==
    \/ part = "video" /\ Video!VideoInit
    \/ part = "references" /\ References!RefInit
    \/ part = "files" /\ Demux!DemuxInit
    \/ part = "animation" /\ Anim!AnimInit
    \/ part = "slides" /\ Slides!SlideInit
    \/ part = "players" /\ Media!PlayersInit

MediaNext ==
    /\ UNCHANGED part
    /\ \/ part = "video" /\ Video!VideoNext
       \/ part = "references" /\ References!Want
       \/ part = "files" /\ Demux!DemuxNext
       \/ part = "animation" /\ Anim!AnimNext
       \/ part = "slides" /\ Slides!SlideNext
       \/ part = "players" /\ Media!PlayersNext

\* While a picture is shown, waits to be shown or is a reference, its surface keeps it,
\* and a picture is decoded from the references its headers name (video_vaapi.c:594,
\* video_engine.c:1023); the references an H.264 slice asks for come first and in that
\* order, across the wrap of the frame numbers (vaapi_h264.c:623).
PicturesRight ==
    /\ part = "video" => Video!PicturesIntact /\ Video!ReferencesTold
    /\ part = "references" => References!ListsRight

\* Each pass of a video shows its pictures once and in the order they are to be shown
\* (video_engine.c:1044, 1306); a slideshow goes on to another picture, with its timer
\* armed as long as it is neither paused nor stopped (slideshow.c:534, 706).
ShownInOrder ==
    [][ /\ part = "video" => Video!InOrderStep
        /\ part = "slides" => Slides!GoesOnStep ]_mediaVars

\* The samples of a video file are where and when its tables say, and a seek stands at
\* the key picture before what was asked for (demuxer.c:121-1411); an animation shows
\* what its format says, each time round (anim_engine.c:466-1304).
FilesAsWritten ==
    /\ part = "files" => Demux!SamplesAsWritten
    /\ part = "animation" => Anim!FramesAsMeant

\* Once the bus is quiet the table knows every player that had room, each once and with
\* what it does, and the one that is followed plays if any does (mpris.c:497, 582).
PlayersSettle == part = "players" => Media!PlayersSettle
=============================================================================
