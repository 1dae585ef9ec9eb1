--------------------------- MODULE VideoPictures ---------------------------
(***************************************************************************)
(* The pictures of a playing video: the pool of surfaces they are decoded   *)
(* into (video_vaapi.c), the references the decoder keeps, the queue that   *)
(* puts B-frames back into display order and the buffers the compositor     *)
(* still holds (video_engine.c).  Nothing locks a surface: a picture lives  *)
(* as long as every party counts it as busy.                                *)
(*                                                                          *)
(* A stream is what the headers of its packets say: for H.264 and HEVC one  *)
(* picture in each packet, for VP9 and AV1 some frames, shown or hidden,    *)
(* that refresh numbered slots.  What a surface contains is the identity of *)
(* the picture decoded into it.                                             *)
(***************************************************************************)
EXTENDS Naturals, Integers, Sequences, FiniteSets, SequencesExt, Functions

CONSTANTS
    Streams,    \* the videos: [codec, refs, reorder, packets]
    Spare,      \* WAYWAL_VA: surfaces beyond the references (6 in the code)
    MinPool,    \* the smallest pool (8 in the code)
    Lsb,        \* the modulus of the picture order count in a header
    Vpp,        \* {TRUE} if frames are converted into buffers of their own
    LoopCounts, \* 0: for ever
    MaxHeld,    \* buffers a compositor that keeps up holds at a time
    MaxPasses, MaxLoads, MaxFaults,
    Blank       \* no surface, no picture

QueueCap == 6   \* WAYWAL_VIDEO_REORDER_CAP
VppPool == 3    \* WAYWAL_VA_VPP_POOL_SIZE
Slots == 0..2   \* of the eight reference slots, those the streams use
Indexes == 0..23 \* WAYWAL_VA_SURFACE_POOL_SIZE
NoBuffer == [b \in Indexes |-> 0]

VARIABLE vid
videoVars == <<vid>>

Dpb(s) == s.codec \in {"h264", "hevc"}

\* vaapi_decoder_init_with_params: the pool's size, from the stream's own
\* limit on references.
PoolSize(s) ==
    LET refs == CASE s.codec = "h264" -> IF s.refs < 1 THEN 1 ELSE s.refs
                  [] s.codec = "hevc" -> IF s.refs < 4 THEN 4 ELSE s.refs
                  [] OTHER -> Cardinality(Slots)
    IN  IF refs + Spare < MinPool THEN MinPool ELSE refs + Spare

Surfaces(v) == 0..PoolSize(v.stream) - 1
Buffers(v) == IF v.vpp THEN 0..VppPool - 1 ELSE Surfaces(v)

\* update_combined_busy_mask: what is shown or waits to be shown.
Busy(v) ==
    (IF v.vpp THEN {} ELSE {b \in Surfaces(v) : v.inUse[b] > 0})
        \cup {v.queue[i].surf : i \in DOMAIN v.queue}

Referenced(v) ==
    IF Dpb(v.stream) THEN {v.dpb[i].surf : i \in DOMAIN v.dpb}
    ELSE {v.slot[r] : r \in Slots} \ {Blank}

\* The first surface nobody needs; if there is none, the one the decoder
\* stands at, whoever needs it.
Pick(v) ==
    LET free == Surfaces(v) \ (Referenced(v) \cup Busy(v))
    IN  IF free = {} THEN v.cur ELSE CHOOSE s \in free : \A t \in free : s <= t

\* A picture is decoded into a surface.
Into(v, s, id) == [v EXCEPT !.holds[s] = <<v.load, v.loop, id>>, !.cur = s]

-----------------------------------------------------------------------------
(* H.264 and HEVC: one picture in a packet, references in a list. *)

\* The order count of a picture from its low bits and the last reference's.
OrderCount(v, p) ==
    LET lsb == p.poc % Lsb
        msb == CASE p.idr -> 0
                 [] ~p.idr /\ lsb < v.lsb /\ v.lsb - lsb >= Lsb \div 2 -> v.msb + Lsb
                 [] ~p.idr /\ lsb > v.lsb /\ lsb - v.lsb > Lsb \div 2 -> v.msb - Lsb
                 [] OTHER -> v.msb
    IN  [msb |-> msb, poc |-> IF p.idr THEN 0 ELSE msb + lsb]

\* The headers in a packet: they begin a new sequence or place the picture.
Placed(v, p) ==
    LET oc == OrderCount(v, p)
        at == [v EXCEPT !.poc = oc.poc]
    IN  IF p.idr THEN [at EXCEPT !.msb = 0, !.lsb = 0, !.dpb = << >>]
        ELSE IF p.ref THEN [at EXCEPT !.msb = oc.msb, !.lsb = p.poc % Lsb]
        ELSE at

\* Seeded fault: the newest reference gives way.
EvictNewest(dpb, max) == SubSeq(dpb, 1, IF Len(dpb) < max THEN Len(dpb) ELSE max - 1)

\* The sliding window: the oldest references give way to one more.
Evict(dpb, max) == SubSeq(dpb, IF Len(dpb) < max THEN 1 ELSE Len(dpb) - max + 2, Len(dpb))

\* After the picture: the marking of references.
Marked(v, p, s) ==
    LET max == IF v.stream.refs < 1 THEN 8 ELSE v.stream.refs
        kept == IF p.idr THEN << >> ELSE SelectSeq(v.dpb, LAMBDA e : e.num \notin p.unmark)
        entry == [surf |-> s, num |-> p.num, poc |-> v.poc, id |-> p.id]
    IN  [v EXCEPT !.dpb = IF p.ref THEN Append(Evict(kept, max), entry) ELSE kept,
                  !.out = s, !.idr = p.idr, !.cur = (s + 1) % PoolSize(v.stream)]

\* A surface that is decoded into leaves the list of references.
Unlisted(v, s) == [v EXCEPT !.dpb = SelectSeq(@, LAMBDA e : e.surf # s)]

\* H.264: the surface is chosen before the headers are read, and the decoder
\* is told of every reference.
DecodeH264(v, p) ==
    LET s == Pick(v)
        ready == Unlisted(Placed(v, p), s)
        refs == {ready.dpb[i].id : i \in DOMAIN ready.dpb}
    IN  Marked(Into([ready EXCEPT !.refs = refs], s, p.id), p, s)

\* HEVC: of the references, those whose distance the slice names.
Matched(v, p) ==
    {v.dpb[i].id : i \in {j \in DOMAIN v.dpb : v.dpb[j].poc - v.poc \in p.deltas}}

DecodeHevc(v, p) ==
    LET s == Pick(v)
        ready == Unlisted(Placed(v, p), s)
        refs == IF p.idr THEN {} ELSE Matched(ready, p)
    IN  Marked(Into([ready EXCEPT !.refs = refs], s, p.id), p, s)

-----------------------------------------------------------------------------
(* VP9 and AV1: frames of a packet, references in slots. *)

Refreshed(v, f, s) ==
    [v EXCEPT !.slot = [r \in Slots |-> IF r \in f.refresh THEN s ELSE @[r]]]

\* VP9: an old frame is shown again, or a new one gets a surface, its slots
\* and, unless it is hidden, the display.
Vp9Frame(v, f) ==
    IF f.existing # Blank
    THEN IF v.slot[f.existing] = Blank THEN v ELSE [v EXCEPT !.out = v.slot[f.existing]]
    ELSE LET s == Pick(v)
         IN  [Into(Refreshed(v, f, s), s, f.id) EXCEPT
                 !.out = IF f.shown THEN s ELSE @, !.idr = @ \/ f.key]

\* AV1 does as VP9, but of an empty slot it shows what came before.
Av1Frame(v, f) ==
    IF f.existing # Blank
    THEN [v EXCEPT !.out = IF v.slot[f.existing] = Blank THEN v.cur ELSE v.slot[f.existing]]
    ELSE LET s == Pick(v)
         IN  [Into(Refreshed(v, f, s), s, f.id) EXCEPT
                 !.out = IF f.shown THEN s ELSE @, !.idr = @ \/ f.key]

\* Packets are numbered in the order they come, which is how they are shown.
Numbered(v) ==
    LET num == IF v.idr THEN 0 ELSE v.frame
    IN  [v EXCEPT !.poc = 2 * num, !.frame = num + 1,
                  !.cur = (@ + 1) % PoolSize(v.stream), !.refs = Blank]

Unshown(v) == [v EXCEPT !.out = Blank, !.idr = FALSE]

\* The frames of a superframe, and of a temporal unit.
DecodeVp9(v, p) == Numbered(FoldLeft(Vp9Frame, Unshown(v), p.frames))
DecodeAv1(v, p) == Numbered(FoldLeft(Av1Frame, Unshown(v), p.frames))

Decode(v, p) ==
    CASE v.stream.codec = "h264" -> DecodeH264(v, p)
      [] v.stream.codec = "hevc" -> DecodeHevc(v, p)
      [] v.stream.codec = "vp9" -> DecodeVp9(v, p)
      [] v.stream.codec = "av1" -> DecodeAv1(v, p)

-----------------------------------------------------------------------------
(* The queue between decoding and showing. *)

\* How many pictures must wait before the first of them can be shown.
Depth(s) ==
    LET d == CASE s.codec = "hevc" -> s.reorder + 1
               [] s.codec = "h264" -> IF s.refs <= 1 THEN 1 ELSE 4
               [] OTHER -> 1
    IN  IF d > QueueCap - 1 THEN QueueCap - 1 ELSE d

OfGop(v, g) == {i \in DOMAIN v.queue : v.queue[i].gop = g}

\* reorder_has_ready_frame moves on to the group that is being decoded once
\* nothing of the last one waits.
Settled(v) ==
    IF /\ v.queue # << >> /\ ~v.draining /\ Len(v.queue) < Depth(v.stream)
       /\ v.gop > v.nextGop /\ OfGop(v, v.nextGop) = {}
    THEN [v EXCEPT !.nextGop = v.gop, !.nextPoc = 0] ELSE v

Ready(v) ==
    /\ v.queue # << >>
    /\ \/ v.draining
       \/ Len(v.queue) >= Depth(v.stream)
       \/ v.gop > v.nextGop /\ OfGop(v, v.nextGop) # {}
       \/ v.nextPoc = 0 /\ \E i \in OfGop(v, v.nextGop) : v.queue[i].poc <= 0

Reset(v) ==
    [v EXCEPT !.dpb = << >>, !.slot = [r \in Slots |-> Blank],
              !.msb = 0, !.lsb = 0, !.frame = 0, !.poc = 0, !.idr = FALSE]

Stopped(v) ==
    [Reset(v) EXCEPT !.state = "stopped", !.queue = << >>, !.draining = FALSE,
        !.any = FALSE, !.cur = 0, !.inUse = NoBuffer, !.screen = NoBuffer,
        !.last = Blank, !.given = << >>, !.lost = {}]

\* The end of a pass: the last one ends the video, any other begins again.
Rewound(v) ==
    IF v.count > 0 /\ v.loop + 1 >= v.count THEN Stopped(v)
    ELSE [Reset(v) EXCEPT !.loop = @ + 1, !.pos = 0, !.gop = @ + 1,
                          !.given = << >>, !.lost = {}]

\* A decoded picture takes its place in the queue.
Queued(v) ==
    IF v.out = Blank THEN v
    ELSE LET gop == IF v.idr /\ v.any THEN v.gop + 1 ELSE v.gop
             entry == [surf |-> v.out, poc |-> v.poc, gop |-> gop, is |-> v.holds[v.out]]
         IN  [v EXCEPT !.gop = gop, !.any = TRUE, !.queue = Append(@, entry)]

\* Decoding goes on until a picture is ready, the packets end or one fails
\* (at position `bad`, before anything of it is decoded).
RECURSIVE Filled(_, _)
Filled(u, bad) ==
    IF u.state # "playing" \/ u.draining \/ Len(u.queue) >= QueueCap THEN u
    ELSE LET v == Settled(u)
             n == Len(v.stream.packets)
             p == v.stream.packets[v.pos + 1]
         IN  IF Ready(v) THEN v
             ELSE IF v.pos = n
             THEN IF v.queue # << >> THEN [v EXCEPT !.draining = TRUE]
                  ELSE Filled(Rewound(v), bad)
             ELSE IF v.pos + 1 = bad
             THEN [v EXCEPT !.pos = @ + 1, !.faults = @ + 1, !.lost = @ \cup {p.id}]
             ELSE Filled(Queued(Decode([v EXCEPT !.pos = @ + 1], p)), bad)

\* Of the queue, the earliest group and in it the lowest order count.
First(v) ==
    CHOOSE i \in DOMAIN v.queue : \A j \in DOMAIN v.queue :
        \/ v.queue[i].gop < v.queue[j].gop
        \/ v.queue[i].gop = v.queue[j].gop /\ v.queue[i].poc < v.queue[j].poc
        \/ v.queue[i].gop = v.queue[j].gop /\ v.queue[i].poc = v.queue[j].poc /\ i <= j

\* The buffer a picture is shown in: its surface, or the first converted one
\* that is free, or else the next one.
Buffer(v, e) ==
    LET free == {b \in 0..VppPool - 1 : v.inUse[b] = 0}
    IN  IF ~v.vpp THEN e.surf
        ELSE IF free = {} THEN (v.lastVpp + 1) % VppPool
        ELSE CHOOSE b \in free : \A c \in free : b <= c

\* The picture leaves the queue and is given to the compositor.
Presented(v) ==
    IF v.state # "playing" \/ v.queue = << >> THEN v
    ELSE LET i == First(v)
             e == v.queue[i]
             b == Buffer(v, e)
         IN  [v EXCEPT !.queue = RemoveAt(@, i),
                       !.nextGop = e.gop, !.nextPoc = e.poc + 1,
                       !.lastVpp = IF v.vpp THEN b ELSE @,
                       !.inUse[b] = @ + 1, !.screen[b] = @ + 1, !.last = b,
                       !.shows[b] = e.is,
                       !.conv = IF v.vpp THEN [@ EXCEPT ![b] = v.holds[e.surf]] ELSE @,
                       !.given = Append(@, e.is[3])]

\* What a buffer contains: itself if it is a surface, else what was converted.
Contents(v, b) == IF v.vpp THEN v.conv[b] ELSE v.holds[b]

-----------------------------------------------------------------------------
Held(v) == {b \in Buffers(v) : v.screen[b] > 0}

Fresh(s, vpp, count) ==
    [stream |-> s, vpp |-> vpp, count |-> count, state |-> "playing", load |-> 1,
     pos |-> 0, loop |-> 0, gop |-> 0, nextGop |-> 0, nextPoc |-> 0,
     dpb |-> << >>, slot |-> [r \in Slots |-> Blank], cur |-> 0,
     msb |-> 0, lsb |-> 0, frame |-> 0, poc |-> 0, idr |-> FALSE, out |-> Blank,
     refs |-> Blank,
     queue |-> << >>, draining |-> FALSE, any |-> FALSE,
     inUse |-> NoBuffer, screen |-> NoBuffer, lastVpp |-> 0, last |-> Blank,
     holds |-> [b \in Indexes |-> Blank], conv |-> [b \in 0..VppPool - 1 |-> Blank],
     shows |-> [b \in Indexes |-> Blank], given |-> << >>, lost |-> {}, faults |-> 0]

\* The packets that vaBeginPicture may refuse.
MayFail(s) ==
    IF Dpb(s) THEN {k \in 1..Len(s.packets) : ~s.packets[k].idr} ELSE {}

VideoInit ==
    \E s \in Streams, vpp \in Vpp, count \in LoopCounts : vid = Fresh(s, vpp, count)

\* The engine's timer: decode as far as needed, show one picture.
Dispatch ==
    /\ vid.state = "playing" /\ Cardinality(Held(vid)) < MaxHeld
    /\ vid.loop < MaxPasses
    /\ \E bad \in {0} \cup IF vid.faults < MaxFaults THEN MayFail(vid.stream) ELSE {} :
          LET v == IF vid.draining /\ vid.queue = << >>
                   THEN Rewound([vid EXCEPT !.draining = FALSE]) ELSE vid
          IN  vid' = Presented(Filled(v, bad))

\* The compositor lets go of a buffer that has been replaced.
Release ==
    \E b \in Buffers(vid) :
        /\ vid.screen[b] > 0 /\ (b = vid.last => vid.screen[b] > 1)
        /\ vid' = [vid EXCEPT !.screen[b] = @ - 1, !.inUse[b] = IF @ > 0 THEN @ - 1 ELSE 0]

Pause == vid.state = "playing" /\ vid' = [vid EXCEPT !.state = "paused"]
Resume == vid.state = "paused" /\ vid' = [vid EXCEPT !.state = "playing"]
Stop == vid.state # "stopped" /\ vid' = Stopped(vid)

\* A video of the same shape keeps the decoder and its buffers, with what
\* the compositor still shows; any other gets a new pool.
Reused(v, s) ==
    IF s.codec = v.stream.codec /\ PoolSize(s) = PoolSize(v.stream)
    THEN [Reset(v) EXCEPT !.stream = s]
    ELSE [Reset(v) EXCEPT !.stream = s, !.inUse = NoBuffer, !.screen = NoBuffer,
                          !.holds = [b \in DOMAIN v.holds |-> Blank], !.last = Blank]

Open ==
    /\ vid.load < MaxLoads
    /\ \E s \in Streams :
          vid' = [Reused(vid, s) EXCEPT
                    !.load = @ + 1, !.state = "playing", !.pos = 0, !.loop = 0,
                    !.gop = 0, !.nextGop = 0, !.nextPoc = 0, !.cur = 0, !.queue = << >>,
                    !.draining = FALSE, !.any = FALSE, !.lastVpp = 0,
                    !.given = << >>, !.lost = {}]

VideoNext == Dispatch \/ Release \/ Pause \/ Resume \/ Stop \/ Open
VideoSpec == VideoInit /\ [][VideoNext]_videoVars

-----------------------------------------------------------------------------
(* The frames of a stream that are shown, in display order: by group, then  *)
(* by order count.                                                          *)
DisplayOrder(s) ==
    LET n == Len(s.packets)
        shown == IF Dpb(s) THEN [k \in 1..n |-> s.packets[k].id]
                 ELSE [k \in 1..n |-> s.packets[k].shows]
        group == IF Dpb(s) THEN [k \in 1..n |-> Cardinality({j \in 1..k : s.packets[j].idr})]
                 ELSE [k \in 1..n |-> k]
        poc(k) == IF Dpb(s) THEN s.packets[k].poc ELSE 0
        sorted == SortSeq([k \in 1..n |-> k], LAMBDA a, b :
                     group[a] < group[b] \/ (group[a] = group[b] /\ poc(a) < poc(b)))
    IN  SelectSeq([k \in 1..n |-> shown[sorted[k]]], LAMBDA id : id # Blank)

Kept(v) == {v.holds[s] : s \in Referenced(v)}

(* Every picture that somebody still needs is intact: those that wait in   *)
(* the queue, the references, and whatever the compositor holds, also      *)
(* across the end of a pass, a new video in the same decoder and frames    *)
(* that fail; and what the next packet refers to is among the references   *)
(* (update_combined_busy_mask, the choice of a surface and the marking in  *)
(* vaapi_decoder_decode_packet).  It rests on the six spare surfaces.      *)
PicturesIntact ==
    /\ \A i \in DOMAIN vid.queue : vid.holds[vid.queue[i].surf] = vid.queue[i].is
    /\ \A i \in DOMAIN vid.dpb : vid.holds[vid.dpb[i].surf][3] = vid.dpb[i].id
    /\ \A b \in Held(vid) : Contents(vid, b) = vid.shows[b]
    /\ vid.state = "playing" /\ vid.lost = {} /\ vid.pos < Len(vid.stream.packets)
        => \A id \in vid.stream.packets[vid.pos + 1].uses :
              <<vid.load, vid.loop, id>> \in Kept(vid)

(* The decoder is told of every picture that the one it decodes refers to. *)
ReferencesTold ==
    Dpb(vid.stream) /\ vid.lost = {} /\ vid.state = "playing" /\ vid.pos > 0
        => vid.stream.packets[vid.pos].uses \subseteq vid.refs

(* A pass shows each frame that could be decoded once, and all of them     *)
(* before the next one begins; if none failed, in display order.  (After a  *)
(* failure what waits is shown at once, ready or not.)                      *)
InOrderStep ==
    LET frames == DisplayOrder(vid.stream)
        goes == vid'.load = vid.load /\ vid'.state # "stopped"
    IN  /\ goes /\ vid'.loop = vid.loop =>
              /\ IsInjective(vid'.given)
              /\ vid'.lost = {} => IsPrefix(vid'.given, frames)
        /\ goes /\ vid'.loop # vid.loop =>
              Range(vid.given) = Range(frames) \ vid.lost
=============================================================================
