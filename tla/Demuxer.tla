------------------------------ MODULE Demuxer ------------------------------
(***************************************************************************)
(* The pictures of a video file. When a file is opened its tables (MP4) or *)
(* its blocks (WebM) are turned into one list of samples: where each is,    *)
(* how long it is, when it is decoded and shown, and whether decoding can   *)
(* start there. Packets are then read along the list, and a seek finds the  *)
(* key picture to go on from.                                              *)
(***************************************************************************)
EXTENDS Integers, Sequences, FiniteSets, FiniteSetsExt, SequencesExt

CONSTANTS
    Files,        \* the files that may be opened
    Micro,        \* the units of a sample's time in a second (1000000)
    LaceStep,     \* the time between the pictures of one block when the track does not say
    Targets       \* the times a seek may ask for

VARIABLE dm
demuxVars == <<dm>>

Known == {"h264", "hevc", "vp9", "av1"}
NoSample == [at |-> 0, size |-> 0, dts |-> 0, pts |-> 0, key |-> FALSE]
Refused == << >>

Total(s) == FoldSeq(+, 0, s)

-----------------------------------------------------------------------------
(* MP4 *)

\* parse_moov and what it calls: the first video track in a codec the decoder knows. A
\* track has sizes, chunk offsets, runs of chunks with as many samples each, runs of
\* decoding times, of shifts of the showing time and the key samples; a table may be cut.
VideoTracks(f) == {i \in DOMAIN f.tracks : f.tracks[i].video /\ f.tracks[i].codec \in Known}
Parsed(f) == f.tracks[Min(VideoTracks(f))]

\* The samples in each chunk: a run begins at the chunk it names, one run per chunk.
RECURSIVE PerChunk(_, _, _, _)
PerChunk(t, chunk, run, per) ==
    IF chunk > Len(t.chunks) THEN << >>
    ELSE LET begins == run <= Len(t.runs) /\ chunk >= t.runs[run].first
             n == IF begins THEN t.runs[run].per ELSE per
             ended == begins /\ run < Len(t.runs) /\ chunk + 1 >= t.runs[run + 1].first
         IN  <<n>> \o PerChunk(t, chunk + 1, IF ended THEN run + 1 ELSE run, n)

\* Where each sample is: one after the other from the offset of its chunk.
Offsets(t) ==
    LET per == PerChunk(t, 1, 1, 0)
        InChunk(c, from) ==
            [s \in 1 .. Min({per[c], Len(t.sizes) - from}) |->
                t.chunks[c] + Total(SubSeq(t.sizes, from + 1, from + s - 1))]
    IN  FoldLeft(LAMBDA all, c : all \o InChunk(c, Len(all)), << >>, [c \in DOMAIN per |-> c])

\* A table of runs, one value for each sample, no more than there are samples.
Expanded(runs, n) ==
    LET all == FlattenSeq([i \in DOMAIN runs |-> [j \in 1 .. runs[i].n |-> runs[i].v]])
    IN  SubSeq(all, 1, Min({n, Len(all)}))

\* Times are turned to microseconds before they are added up.
Dts(t) ==
    LET d == Expanded(t.times, Len(t.sizes))
    IN  [i \in DOMAIN t.sizes |->
            IF i > Len(d) THEN 0 ELSE Total([j \in 1 .. i - 1 |-> (d[j] * Micro) \div t.scale])]

\* C's division rounds to zero.
Quotient(a, b) == IF a < 0 THEN -((-a) \div b) ELSE a \div b

\* The showing times, moved so that the first picture shown is shown at once.
Pts(t, dts) ==
    IF t.cut = "shifts" \/ t.shifts = << >> THEN dts
    ELSE LET s == Expanded(t.shifts, Len(t.sizes))
             p == [i \in DOMAIN dts |-> IF i > Len(s) THEN dts[i]
                                        ELSE dts[i] + Quotient(s[i] * Micro, t.scale)]
             first == Min({p[i] : i \in DOMAIN s})
         IN  [i \in DOMAIN dts |-> p[i] - first]

\* demuxer_open_mem: a table that is cut short refuses the file, except that of the shifts.
Mp4(f) ==
    IF VideoTracks(f) = {} \/ Parsed(f).cut \in {"chunks", "runs", "times", "keys"}
       \/ Parsed(f).sizes = << >> \/ Parsed(f).chunks = << >>
    THEN Refused
    ELSE LET t == Parsed(f)
             at == Offsets(t)
             dts == Dts(t)
             pts == Pts(t, dts)
         IN  [i \in DOMAIN t.sizes |->
                 [at |-> IF i <= Len(at) THEN at[i] ELSE 0, size |-> t.sizes[i], dts |-> dts[i],
                  pts |-> pts[i], key |-> ~t.keyed \/ i \in t.keys]]

-----------------------------------------------------------------------------
(* WebM *)

\* The last video track in a codec the decoder knows.
Chosen(f) == IF VideoTracks(f) = {} THEN [no |-> 1, codec |-> "none", step |-> 0]
             ELSE f.tracks[Max(VideoTracks(f))]

\* The sizes of the pictures in a block: the last one is what is left, and those of the
\* fixed kind are equal; nothing if the sizes do not fit in.
LaceSizes(b) ==
    LET n == Len(b.sizes)
        written == SubSeq(b.sizes, 1, n - 1)
        equal == b.len \div n
    IN  CASE b.lacing = "none" -> <<b.len>>
          [] b.lacing = "fixed" /\ b.len < n -> << >>
          [] b.lacing = "fixed" -> [i \in 1 .. n |-> IF i < n THEN equal ELSE b.len - (n - 1) * equal]
          [] b.lacing = "ebml" /\ \E i \in 2 .. n - 1 : written[i] = 0 -> << >>
          [] Total(written) > b.len -> << >>
          [] OTHER -> Append(written, b.len - Total(written))

\* The pictures of a block of the chosen track, up to one with nothing in it.
BlockSamples(f, cluster, b) ==
    LET t == Chosen(f)
        sizes == LaceSizes(b)
        pts == (Max({cluster.time + b.rel, 0}) * f.scale) \div 1000
        step == IF t.step > 0 THEN t.step ELSE LaceStep
        Picture(i) ==
            [at |-> b.at + Total(SubSeq(sizes, 1, i - 1)), size |-> sizes[i],
             dts |-> pts + (i - 1) * step, pts |-> pts + (i - 1) * step,
             key |-> i = 1 /\ (IF b.grouped THEN ~b.refers ELSE b.flag)]
        there == {i \in DOMAIN sizes : \A j \in 1 .. i : sizes[j] > 0}
    IN  IF b.track # t.no THEN << >> ELSE [i \in 1 .. Cardinality(there) |-> Picture(i)]

\* The clusters that are seen: one whose size is unknown hides those after it.
Clusters(f) ==
    LET open == {i \in DOMAIN f.clusters : f.clusters[i].open}
    IN  IF open = {} THEN f.clusters ELSE SubSeq(f.clusters, 1, Min(open))

\* webm_demuxer_open
WebM(f) ==
    LET Of(c) == FlattenSeq([i \in DOMAIN c.blocks |-> BlockSamples(f, c, c.blocks[i])])
    IN  IF VideoTracks(f) = {} THEN Refused
        ELSE FlattenSeq([i \in DOMAIN Clusters(f) |-> Of(Clusters(f)[i])])

Samples(f) == IF f.kind = "webm" THEN WebM(f) ELSE Mp4(f)

-----------------------------------------------------------------------------
\* next: the sample that is read next; got: the last packet read; sought: the time last
\* asked for; state: what happened last.
DemuxInit ==
    dm = [file |-> {}, samples |-> << >>, next |-> 1, got |-> NoSample, state |-> "closed",
          sought |-> 0]

\* demuxer_open_file
OpenFile(f) ==
    /\ dm.state = "closed"
    /\ dm' = [dm EXCEPT !.file = {f}, !.samples = Samples(f), !.next = 1,
                        !.state = IF Samples(f) = Refused THEN "refused" ELSE "open"]

File == CHOOSE f \in dm.file : TRUE

\* mp4_read_packet and webm_read_packet: a sample that is not in the file ends the pass,
\* and the next read goes on behind it.
ReadPacket ==
    /\ dm.state \in {"open", "read", "sought", "end"}
    /\ dm' = IF dm.next > Len(dm.samples) THEN [dm EXCEPT !.state = "end"]
             ELSE LET s == dm.samples[dm.next]
                  IN  [dm EXCEPT !.next = @ + 1, !.got = s,
                                 !.state = IF s.at + s.size > File.size THEN "end" ELSE "read"]

\* Seeded fault: decoding goes on from the next key picture.
SeekToNext(to) ==
    LET keys == {i \in DOMAIN dm.samples : dm.samples[i].key /\ dm.samples[i].pts >= to}
    IN  IF keys = {} THEN 1 ELSE Min(keys)

\* mp4_seek_us and webm_seek_us: key pictures are looked at up to the first that is later.
SeekTo(to) ==
    LET keys == {i \in DOMAIN dm.samples : dm.samples[i].key}
        later == {i \in keys : dm.samples[i].pts > to}
        before == {i \in keys : \A j \in later : i < j}
    IN  IF to <= 0 \/ before = {} THEN 1 ELSE Max(before)

Seek(to) ==
    /\ dm.state \in {"open", "read", "sought", "end"}
    /\ dm' = [dm EXCEPT !.next = SeekTo(to), !.state = "sought", !.sought = to]

\* mp4_destroy and webm_destroy
CloseFile ==
    /\ dm.state # "closed"
    /\ dm' = [dm EXCEPT !.file = {}, !.samples = << >>, !.next = 1, !.got = NoSample,
                        !.sought = 0, !.state = "closed"]

DemuxNext ==
    \/ \E f \in Files : OpenFile(f)
    \/ ReadPacket
    \/ \E to \in Targets : Seek(to)
    \/ CloseFile

DemuxSpec == DemuxInit /\ [][DemuxNext]_demuxVars

-----------------------------------------------------------------------------
\* What a file says, sample by sample: the chunk a sample is in is the first by whose
\* end as many samples have gone by, and its time is exact.
Whole(t) == t.cut = "none"

Mp4Says(f, i) ==
    LET t == Parsed(f)
        Per(c) == t.runs[Max({r \in DOMAIN t.runs : t.runs[r].first <= c})].per
        By(c) == Total([k \in 1 .. c |-> Per(k)])
        chunk == Min({c \in DOMAIN t.chunks : By(c) >= i})
        Value(runs, k) ==
            LET upto == {r \in DOMAIN runs : Total([q \in 1 .. r |-> runs[q].n]) >= k}
            IN  runs[Min(upto)].v
        time == Total([k \in 1 .. i - 1 |-> Value(t.times, k)])
        Shown(k) == Total([j \in 1 .. k - 1 |-> Value(t.times, j)])
                    + IF t.shifts = << >> THEN 0 ELSE Value(t.shifts, k)
        first == IF t.shifts = << >> THEN 0 ELSE Min({Shown(k) : k \in DOMAIN t.sizes})
    IN  [at |-> t.chunks[chunk] + Total(SubSeq(t.sizes, By(chunk - 1) + 1, i - 1)),
         dts |-> time, pts |-> Shown(i) - first, scale |-> t.scale]

Near(us, time, scale, i) ==
    us * scale - time * Micro \in (-(2 * i * scale)) .. (2 * i * scale)

\* The samples of a whole file are where the file says, in its order, decoded and shown
\* when it says but for the rounding of each, key pictures as it marks them, and the
\* first one shown at time 0; a seek stands at the last key picture not later than what
\* was asked for, so that nothing before that is missing.
SamplesAsWritten ==
    /\ (dm.state # "closed" /\ File.kind = "mp4" /\ VideoTracks(File) # {} /\ Whole(Parsed(File))) =>
          LET t == Parsed(File)
          IN  /\ Len(dm.samples) = Len(t.sizes)
              /\ \A i \in DOMAIN t.sizes :
                    LET s == dm.samples[i]
                        w == Mp4Says(File, i)
                    IN  /\ s.at = w.at /\ s.size = t.sizes[i]
                        /\ Near(s.dts, w.dts, w.scale, i) /\ Near(s.pts, w.pts, w.scale, i)
                        /\ s.key = (~t.keyed \/ i \in t.keys)
              /\ Min({dm.samples[i].pts : i \in DOMAIN t.sizes}) = 0
    /\ (dm.state # "closed" /\ File.kind = "webm") =>
          \A i \in DOMAIN dm.samples : \A j \in 1 .. i - 1 :
              dm.samples[j].at + dm.samples[j].size <= dm.samples[i].at
    /\ dm.state = "sought" =>
          LET s == dm.samples[dm.next]
          IN  \/ dm.next = 1
              \/ /\ s.key /\ s.pts <= dm.sought
                 /\ \A i \in dm.next + 1 .. Len(dm.samples) :
                       dm.samples[i].key => dm.samples[i].pts > dm.sought
=============================================================================
