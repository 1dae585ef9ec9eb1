------------------------- MODULE OutputEnginesProofs -------------------------
(***************************************************************************)
(* An output never refers to a video engine or a slideshow that was freed: *)
(* theorem EnginesOutlastTheirOutputs, for any outputs, requests and        *)
(* engines.                                                                *)
(*                                                                         *)
(* Worlds are not typed: what an engine plays says nothing about which      *)
(* engines there are.  Of each record only its fields are known.            *)
(***************************************************************************)
EXTENDS OutputEngines, TLAPS

IsNode(n) == DOMAIN n = {"scene", "anim", "video", "targeted", "slides"}
IsShow(r) == DOMAIN r = {"active", "paused", "targets"}

Framed(w) ==
    /\ DOMAIN w = {"outputs", "out", "video", "shows", "shown"}
    /\ w.outputs \in Seq(Outputs)
    /\ DOMAIN w.out = Outputs /\ \A o \in Outputs : IsNode(w.out[o])
    /\ Main \in DOMAIN w.video
    /\ Main \in DOMAIN w.shows /\ \A s \in DOMAIN w.shows : IsShow(w.shows[s])

(* Only outputs that are plugged in refer to engines, and to such as exist. *)
Refers(w) ==
    \A o \in Outputs :
        /\ w.out[o].video # None => w.out[o].video \in DOMAIN w.video /\ o \in Members(w.outputs)
        /\ w.out[o].slides # None => Active(w, w.out[o].slides) /\ o \in Members(w.outputs)

Sound(w) == Framed(w) /\ Refers(w)

(* What stopping engines, with slideshow p presenting, leaves as it was. *)
Goes(t, w, p) ==
    /\ Sound(t) /\ t.outputs = w.outputs
    /\ \A o \in Outputs : t.out[o].slides \in {w.out[o].slides, None}
    /\ p # None /\ Active(w, p) => Active(t, p)
    /\ DOMAIN t.shows \subseteq DOMAIN w.shows

LEMMA GoesOn ==
    ASSUME NEW w, NEW t, NEW u, NEW p, Goes(t, w, p), Goes(u, t, p)
    PROVE  Goes(u, w, p)
BY DEF Goes

LEMMA Stays ==
    ASSUME NEW w, NEW p, Sound(w)
    PROVE  Goes(w, w, p)
BY DEF Goes

(* A step that at most takes engines away from outputs. *)
Milder(t, w) ==
    /\ Framed(t) /\ t.outputs = w.outputs /\ t.shows = w.shows
    /\ DOMAIN t.video = DOMAIN w.video
    /\ \A o \in Outputs : /\ t.out[o].video \in {w.out[o].video, None}
                          /\ t.out[o].slides \in {w.out[o].slides, None}

LEMMA MilderGoes ==
    ASSUME NEW w, NEW t, NEW p, Sound(w), Milder(t, w)
    PROVE  Goes(t, w, p)
BY DEF Goes, Sound, Milder, Refers, Active

(* One output's entry is replaced. *)
LEMMA EntryReplaced ==
    ASSUME NEW w, Framed(w), NEW o \in Outputs, NEW n, IsNode(n)
    PROVE  LET t == [w EXCEPT !.out[o] = n]
           IN  /\ Framed(t) /\ t.outputs = w.outputs /\ t.video = w.video /\ t.shows = w.shows
               /\ t.out[o] = n /\ \A x \in Outputs \ {o} : t.out[x] = w.out[x]
BY DEF Framed

LEMMA EntriesReplaced ==
    ASSUME NEW w, Framed(w), NEW F, DOMAIN F = Outputs, \A o \in Outputs : IsNode(F[o])
    PROVE  LET t == [w EXCEPT !.out = F]
           IN  /\ Framed(t) /\ t.outputs = w.outputs /\ t.video = w.video /\ t.shows = w.shows
               /\ t.out = F
BY DEF Framed

LEMMA VideoReplaced ==
    ASSUME NEW w, Framed(w), NEW F, Main \in DOMAIN F
    PROVE  LET t == [w EXCEPT !.video = F]
           IN  /\ Framed(t) /\ t.outputs = w.outputs /\ t.out = w.out /\ t.shows = w.shows
               /\ t.video = F
BY DEF Framed

LEMMA ShowsReplaced ==
    ASSUME NEW w, Framed(w), NEW F, Main \in DOMAIN F, \A s \in DOMAIN F : IsShow(F[s])
    PROVE  LET t == [w EXCEPT !.shows = F]
           IN  /\ Framed(t) /\ t.outputs = w.outputs /\ t.out = w.out /\ t.video = w.video
               /\ t.shows = F
BY DEF Framed

LEMMA Listed ==
    ASSUME NEW w, Framed(w)
    PROVE  Members(w.outputs) \subseteq Outputs
BY DEF Framed, Members

LEMMA ShownOnly ==
    ASSUME NEW w, Framed(w), NEW spec, NEW what
    PROVE  LET t == Shown(w, spec, what)
           IN  /\ Framed(t) /\ t.outputs = w.outputs /\ t.out = w.out /\ t.video = w.video
               /\ t.shows = w.shows
BY DEF Framed, Shown

LEMMA ShownGoes ==
    ASSUME NEW w, Sound(w), NEW spec, NEW what, NEW p
    PROVE  Goes(Shown(w, spec, what), w, p)
<1>1. Milder(Shown(w, spec, what), w)
  BY ShownOnly DEF Milder, Sound
<1>2. QED
  BY <1>1, MilderGoes
-----------------------------------------------------------------------------
(* The daemon stops a video engine.                                        *)
LEMMA StopVideoGoes ==
    ASSUME NEW w, Sound(w), NEW e, NEW p
    PROVE  /\ Goes(StopVideo(w, e), w, p)
           /\ StopVideo(w, e).shows = w.shows
<1> DEFINE F == [o \in Outputs |-> IF w.out[o].video = e
                                   THEN [w.out[o] EXCEPT !.video = None] ELSE w.out[o]]
           v == [w EXCEPT !.out = F]
           G == IF e = Main THEN [v.video EXCEPT ![Main] = StoppedVideo] ELSE Without(v.video, e)
           t == [v EXCEPT !.video = G]
<1>1. StopVideo(w, e) = t
  BY DEF StopVideo
<1>2. /\ DOMAIN F = Outputs
      /\ \A o \in Outputs : /\ IsNode(F[o]) /\ F[o].slides = w.out[o].slides
                            /\ F[o].video = IF w.out[o].video = e THEN None ELSE w.out[o].video
  BY DEF Sound, Framed, IsNode
<1> HIDE DEF F
<1>3. Framed(v) /\ v.outputs = w.outputs /\ v.video = w.video /\ v.shows = w.shows /\ v.out = F
  BY <1>2, EntriesReplaced DEF Sound
<1> HIDE DEF v
<1>4. Main \in DOMAIN G /\ DOMAIN v.video \ {e} \subseteq DOMAIN G
  BY <1>3 DEF Framed, Without
<1> HIDE DEF G
<1>5. Framed(t) /\ t.outputs = v.outputs /\ t.out = F /\ t.shows = v.shows /\ t.video = G
  BY <1>3, <1>4, VideoReplaced
<1> HIDE DEF t
<1>6. Refers(t)
  BY <1>2, <1>3, <1>4, <1>5 DEF Sound, Refers, Active
<1>7. QED
  BY <1>1, <1>2, <1>3, <1>5, <1>6 DEF Goes, Sound, Active

(* A slideshow that no output shows is stopped. *)
LEMMA StopShowGoes ==
    ASSUME NEW w, Sound(w), NEW s, \A o \in Outputs : w.out[o].slides # s,
           NEW p, p = None \/ p # s
    PROVE  Goes(StopShow(w, s), w, p)
<1> DEFINE r == [w.shows[Main] EXCEPT !.active = FALSE, !.paused = FALSE]
           F == IF s = Main THEN [w.shows EXCEPT ![Main] = r] ELSE Without(w.shows, s)
           t == [w EXCEPT !.shows = F]
<1>1. StopShow(w, s) = t
  BY DEF StopShow
<1>2. IsShow(r)
  BY DEF Sound, Framed, IsShow
<1> HIDE DEF r
<1>3. /\ DOMAIN F \subseteq DOMAIN w.shows /\ DOMAIN w.shows \ {s} \subseteq DOMAIN F
      /\ Main \in DOMAIN F
      /\ \A x \in DOMAIN F : /\ IsShow(F[x])
                             /\ x # s => F[x] = w.shows[x]
  BY <1>2 DEF Sound, Framed, Without
<1> HIDE DEF F
<1>4. Framed(t) /\ t.outputs = w.outputs /\ t.out = w.out /\ t.video = w.video /\ t.shows = F
  BY <1>3, ShowsReplaced DEF Sound
<1> HIDE DEF t
<1>5. \A x : x # s /\ Active(w, x) => Active(t, x)
  BY <1>3, <1>4 DEF Active
<1>6. Refers(t)
  BY <1>4, <1>5 DEF Sound, Refers
<1>7. QED
  BY <1>1, <1>3, <1>4, <1>5, <1>6 DEF Goes, Sound

-----------------------------------------------------------------------------
(* What stop_engines_on_output does to one output.                         *)
LEMMA ReleaseVideoGoes ==
    ASSUME NEW w, Sound(w), NEW o \in Outputs, NEW p
    PROVE  Goes(ReleaseVideo(w, o), w, p)
<1> DEFINE e == w.out[o].video
           n == [w.out[o] EXCEPT !.video = None, !.targeted = FALSE]
           v == [w EXCEPT !.out[o] = n]
           F == [v.video EXCEPT ![Main] = [v.video[Main] EXCEPT !.filter = TRUE]]
           f == [v EXCEPT !.video = F]
<1>1. IsNode(n) /\ n.video = None /\ n.slides = w.out[o].slides
  BY DEF Sound, Framed, IsNode
<1> HIDE DEF n
<1>2. /\ Framed(v) /\ v.outputs = w.outputs /\ v.video = w.video /\ v.shows = w.shows
      /\ v.out[o] = n /\ \A x \in Outputs \ {o} : v.out[x] = w.out[x]
  BY <1>1, EntryReplaced DEF Sound
<1>3. ReleaseVideo(w, o) \in {v, f, StopVideo(v, e), StopVideo(v, Main)}
  BY DEF ReleaseVideo, n
<1> HIDE DEF v
<1>4. Milder(v, w)
  BY <1>1, <1>2 DEF Milder
<1>5. Goes(v, w, p)
  BY <1>4, MilderGoes
<1>6. Main \in DOMAIN F /\ DOMAIN F = DOMAIN v.video
  BY <1>2 DEF Framed
<1> HIDE DEF F
<1>7. Framed(f) /\ f.outputs = v.outputs /\ f.out = v.out /\ f.shows = v.shows /\ f.video = F
  BY <1>2, <1>6, VideoReplaced
<1>8. Goes(f, v, p)
  <2> HIDE DEF f
  <2>1. Milder(f, v)
    BY <1>6, <1>7 DEF Milder
  <2>2. QED
    BY <1>5, <2>1, MilderGoes DEF Goes
<1> HIDE DEF f, e
<1>9. Goes(StopVideo(v, e), v, p) /\ Goes(StopVideo(v, Main), v, p)
  <2>1. Sound(v)
    BY <1>5 DEF Goes
  <2>2. QED
    BY <2>1, StopVideoGoes
<1>10. QED
  BY <1>3, <1>5, <1>8, <1>9, GoesOn

(* Afterwards the output shows no slideshow but the one that presents. *)
LEMMA ReleaseShowGoes ==
    ASSUME NEW w, Sound(w), NEW o \in Outputs, NEW p
    PROVE  LET t == ReleaseShow(w, o, p)
           IN  Goes(t, w, p) /\ t.out[o].slides \in {None, p}
<1> DEFINE s == w.out[o].slides
           n == [w.out[o] EXCEPT !.slides = None]
           v == [w EXCEPT !.out[o] = n]
           r == [v.shows[s] EXCEPT !.targets = Showing(v, s)]
           F == [v.shows EXCEPT ![s] = r]
           u == [v EXCEPT !.shows = F]
<1>1. IsNode(n) /\ n.video = w.out[o].video /\ n.slides = None
  BY DEF Sound, Framed, IsNode
<1>2. /\ Framed(v) /\ v.outputs = w.outputs /\ v.video = w.video /\ v.shows = w.shows
      /\ v.out[o] = n /\ \A x \in Outputs \ {o} : v.out[x] = w.out[x]
  <2> HIDE DEF n
  <2>1. QED
    BY <1>1, EntryReplaced DEF Sound
<1>3. ReleaseShow(w, o, p) = IF p # None /\ s = p THEN w
                             ELSE IF s = None THEN v
                             ELSE IF Showing(v, s) = {} THEN StopShow(v, s)
                             ELSE u
  BY DEF ReleaseShow
<1> HIDE DEF n, v
<1>4. Milder(v, w)
  BY <1>1, <1>2 DEF Milder
<1>5. Goes(v, w, p) /\ v.out[o].slides = None
  BY <1>1, <1>2, <1>4, MilderGoes
<1>6. CASE p # None /\ s = p
  BY <1>3, <1>6, Stays
<1>7. CASE ~(p # None /\ s = p) /\ s = None
  BY <1>3, <1>5, <1>7
<1>8. CASE ~(p # None /\ s = p) /\ s # None /\ Showing(v, s) = {}
  <2>1. \A x \in Outputs : v.out[x].slides # s
    BY <1>5, <1>8 DEF Goes, Sound, Refers, Showing
  <2>2. p = None \/ p # s
    BY <1>8
  <2> HIDE DEF s
  <2>3. Goes(StopShow(v, s), v, p)
    BY <1>5, <2>1, <2>2, StopShowGoes DEF Goes
  <2>4. StopShow(v, s).out[o].slides = None
    BY <1>5, <2>3 DEF Goes
  <2>5. QED
    BY <1>3, <1>5, <1>8, <2>3, <2>4, GoesOn
<1>9. CASE ~(p # None /\ s = p) /\ s # None /\ Showing(v, s) # {}
  <2>1. Active(w, s) /\ s \in DOMAIN v.shows
    BY <1>2, <1>9 DEF Sound, Refers, Active
  <2> HIDE DEF s
  <2>2. IsShow(r) /\ r.active = v.shows[s].active
    BY <1>2, <2>1 DEF Framed, IsShow
  <2> HIDE DEF r
  <2>3. /\ DOMAIN F = DOMAIN v.shows /\ Main \in DOMAIN F
        /\ \A x \in DOMAIN F : IsShow(F[x]) /\ F[x].active = v.shows[x].active
    BY <1>2, <2>1, <2>2 DEF Framed
  <2> HIDE DEF F
  <2>4. /\ Framed(u) /\ u.outputs = v.outputs /\ u.out = v.out /\ u.video = v.video
        /\ u.shows = F
    BY <1>2, <2>3, ShowsReplaced
  <2> HIDE DEF u
  <2>5. \A x : Active(v, x) <=> Active(u, x)
    BY <2>3, <2>4 DEF Active
  <2>6. Goes(u, v, p) /\ u.out[o].slides = None
    BY <1>5, <2>3, <2>4, <2>5 DEF Goes, Sound, Refers
  <2>7. QED
    BY <1>3, <1>5, <1>9, <2>6, GoesOn
<1>10. QED
  BY <1>6, <1>7, <1>8, <1>9

LEMMA EndSceneGoes ==
    ASSUME NEW w, Sound(w), NEW o \in Outputs, NEW keep, NEW p
    PROVE  Goes(EndScene(w, o, keep), w, p)
<1> DEFINE n == [w.out[o] EXCEPT !.scene = "none"]
           v == [w EXCEPT !.out[o] = n]
<1>1. IsNode(n) /\ n.video = w.out[o].video /\ n.slides = w.out[o].slides
  BY DEF Sound, Framed, IsNode
<1>2. EndScene(w, o, keep) \in {w, v}
  BY DEF EndScene
<1> HIDE DEF n
<1>3. /\ Framed(v) /\ v.outputs = w.outputs /\ v.video = w.video /\ v.shows = w.shows
      /\ v.out[o] = n /\ \A x \in Outputs \ {o} : v.out[x] = w.out[x]
  BY <1>1, EntryReplaced DEF Sound
<1> HIDE DEF v
<1>4. Milder(v, w)
  BY <1>1, <1>3 DEF Milder
<1>5. QED
  BY <1>2, <1>4, MilderGoes, Stays

LEMMA EndAnimGoes ==
    ASSUME NEW w, Sound(w), NEW o \in Outputs, NEW keep, NEW p
    PROVE  Goes(EndAnim(w, o, keep), w, p)
<1> DEFINE n == [w.out[o] EXCEPT !.anim = FALSE]
           v == [w EXCEPT !.out[o] = n]
<1>1. IsNode(n) /\ n.video = w.out[o].video /\ n.slides = w.out[o].slides
  BY DEF Sound, Framed, IsNode
<1>2. EndAnim(w, o, keep) \in {w, v}
  BY DEF EndAnim
<1> HIDE DEF n
<1>3. /\ Framed(v) /\ v.outputs = w.outputs /\ v.video = w.video /\ v.shows = w.shows
      /\ v.out[o] = n /\ \A x \in Outputs \ {o} : v.out[x] = w.out[x]
  BY <1>1, EntryReplaced DEF Sound
<1> HIDE DEF v
<1>4. Milder(v, w)
  BY <1>1, <1>3 DEF Milder
<1>5. QED
  BY <1>2, <1>4, MilderGoes, Stays

LEMMA StopOnGoes ==
    ASSUME NEW w, Sound(w), NEW o \in Outputs, NEW keep, NEW p
    PROVE  LET t == StopOn(w, o, keep, p)
           IN  Goes(t, w, p) /\ ("slides" \notin keep => t.out[o].slides \in {None, p})
<1> DEFINE a == EndScene(w, o, keep)
           b == EndAnim(a, o, keep)
           c == EndVideo(b, o, keep)
           t == EndShow(c, o, keep, p)
<1>1. StopOn(w, o, keep, p) = t
  BY DEF StopOn
<1>2. Goes(a, w, p)
  BY EndSceneGoes
<1> HIDE DEF a
<1>3. Goes(b, a, p)
  <2>1. Sound(a)
    BY <1>2 DEF Goes
  <2>2. QED
    BY <2>1, EndAnimGoes
<1> HIDE DEF b
<1>4. Goes(c, b, p)
  BY <1>3, ReleaseVideoGoes, Stays DEF Goes, EndVideo
<1> HIDE DEF c
<1>5. Goes(t, c, p) /\ ("slides" \notin keep => t.out[o].slides \in {None, p})
  BY <1>4, ReleaseShowGoes, Stays DEF Goes, EndShow
<1> HIDE DEF t
<1>6. Goes(b, w, p)
  BY <1>2, <1>3, GoesOn
<1>7. Goes(c, w, p)
  BY <1>4, <1>6, GoesOn
<1>8. Goes(t, w, p)
  BY <1>5, <1>7, GoesOn
<1>9. QED
  BY <1>1, <1>5, <1>8

(* What takes an engine's place. *)
Replacements == {"nothing", "anim", "shader", "workshop", "video"}

LEMMA PutGoes ==
    ASSUME NEW w, Sound(w), NEW o \in Members(w.outputs), NEW what \in Replacements, NEW p
    PROVE  LET t == Put(w, o, what)
           IN  Goes(t, w, p) /\ t.out[o].slides = w.out[o].slides
<1> DEFINE entry == w.out[o]
           n == CASE what = "nothing"  -> entry
                  [] what = "anim"     -> [entry EXCEPT !.anim = TRUE]
                  [] what = "shader"   -> [entry EXCEPT !.scene = "shader"]
                  [] what = "workshop" -> [entry EXCEPT !.scene = "workshop"]
                  [] what = "video"    -> [entry EXCEPT !.video = Main, !.targeted = TRUE]
           t == [w EXCEPT !.out[o] = n]
<1>1. o \in Outputs
  BY Listed DEF Sound
<1>2. IsNode(entry)
  BY <1>1 DEF Sound, Framed
<1>3. Put(w, o, what) = IF what = "nothing" THEN w ELSE t
  BY DEF Put, Replacements
<1>4. IsNode(n) /\ n.video \in {entry.video, Main} /\ n.slides = entry.slides
  <2> HIDE DEF entry
  <2>1. QED
    BY <1>2 DEF IsNode, Replacements
<1> HIDE DEF n
<1>5. /\ Framed(t) /\ t.outputs = w.outputs /\ t.video = w.video /\ t.shows = w.shows
      /\ t.out[o] = n /\ \A x \in Outputs \ {o} : t.out[x] = w.out[x]
  BY <1>1, <1>4, EntryReplaced DEF Sound
<1> HIDE DEF t
<1>6. \A x \in Outputs : /\ t.out[x].slides = w.out[x].slides
                         /\ \/ t.out[x].video = w.out[x].video
                            \/ x = o /\ t.out[x].video = Main
  BY <1>4, <1>5
<1>7. Refers(t)
  BY <1>5, <1>6 DEF Sound, Framed, Refers, Active
<1>8. Goes(t, w, p)
  BY <1>5, <1>6, <1>7 DEF Goes, Sound, Active
<1>9. QED
  BY <1>1, <1>3, <1>6, <1>8, Stays

-----------------------------------------------------------------------------
(* One target after the other: the worlds on the way, up to the n-th.      *)
Replacing(g, n, w, list, keep, p, what) ==
    g = [k \in 0..n |-> IF k = 0 THEN w
                        ELSE Put(StopOn(g[k - 1], list[k], keep, p), list[k], what)]

LEMMA SomeReplacing ==
    ASSUME NEW w, NEW list, NEW keep, NEW p, NEW what
    PROVE  \A n \in Nat : \E g : Replacing(g, n, w, list, keep, p, what)
<1> DEFINE Next1(t, k) == Put(StopOn(t, list[k], keep, p), list[k], what)
           Refuting == {n \in Nat : ~\E g : Replacing(g, n, w, list, keep, p, what)}
<1> SUFFICES ASSUME Refuting # {}
             PROVE  FALSE
  OBVIOUS
<1>1. PICK n \in Refuting : \A m \in Refuting : n <= m
  BY LeastNatural
<1>2. n \in Nat /\ ~\E g : Replacing(g, n, w, list, keep, p, what)
  OBVIOUS
<1>3. n # 0
  <2> SUFFICES ASSUME n = 0
               PROVE  FALSE
    OBVIOUS
  <2> DEFINE g == [k \in 0..0 |-> w]
  <2>1. \A k \in 0..0 : k = 0
    OBVIOUS
  <2>2. g = [k \in 0..0 |-> IF k = 0 THEN w ELSE Next1(g[k - 1], k)]
    BY <2>1
  <2> HIDE DEF g
  <2>3. Replacing(g, n, w, list, keep, p, what)
    BY <2>2 DEF Replacing
  <2>4. QED
    BY <1>2, <2>3
<1>4. n - 1 \in Nat /\ n - 1 \notin Refuting
  BY <1>1, <1>2, <1>3
<1>5. PICK g : Replacing(g, n - 1, w, list, keep, p, what)
  BY <1>4
<1>6. g = [k \in 0..(n - 1) |-> IF k = 0 THEN w ELSE Next1(g[k - 1], k)]
  BY <1>5 DEF Replacing
<1> DEFINE last == Next1(g[n - 1], n)
           h == [k \in 0..n |-> IF k = n THEN last ELSE g[k]]
<1>7. \A k \in 0..n : h[k] = IF k = 0 THEN w ELSE Next1(h[k - 1], k)
  <2> SUFFICES ASSUME NEW k \in 0..n
               PROVE  h[k] = IF k = 0 THEN w ELSE Next1(h[k - 1], k)
    OBVIOUS
  <2>1. CASE k = n
    <3>1. k - 1 \in 0..n /\ k - 1 # n /\ k # 0
      BY <1>2, <1>3, <2>1
    <3>2. h[k - 1] = g[k - 1] /\ h[k] = last
      BY <2>1, <3>1
    <3>3. QED
      BY <2>1, <3>1, <3>2
  <2>2. CASE k = 0
    <3>1. k \in 0..(n - 1) /\ k # n
      BY <1>2, <1>3, <2>2
    <3>2. h[k] = g[k] /\ g[k] = w
      BY <1>6, <2>2, <3>1
    <3>3. QED
      BY <2>2, <3>2
  <2>3. CASE k # n /\ k # 0
    <3>1. k \in 0..(n - 1) /\ k - 1 \in 0..n /\ k - 1 # n
      BY <1>2, <2>3
    <3>2. h[k] = g[k] /\ h[k - 1] = g[k - 1]
      BY <2>3, <3>1
    <3>3. g[k] = Next1(g[k - 1], k)
      BY <1>6, <2>3, <3>1
    <3>4. QED
      BY <2>3, <3>2, <3>3
  <2>4. QED
    BY <2>1, <2>2, <2>3
<1>8. h = [k \in 0..n |-> IF k = 0 THEN w ELSE Next1(h[k - 1], k)]
  <2>1. h = [k \in 0..n |-> h[k]]
    OBVIOUS
  <2> HIDE DEF h
  <2>2. QED
    BY <1>7, <2>1
<1> HIDE DEF h
<1>9. QED
  BY <1>2, <1>8 DEF Replacing

(* After the n-th target, the first n show no other slideshow than the one  *)
(* that presents, unless slideshows are kept.                               *)
Past(t, w, list, n, keep, p) ==
    /\ Goes(t, w, p)
    /\ "slides" \notin keep => \A j \in 1..n : t.out[list[j]].slides \in {None, p}

LEMMA EachReplacedGoes ==
    ASSUME NEW w, Sound(w), NEW list \in Seq(Members(w.outputs)), NEW keep, NEW p,
           NEW what \in Replacements
    PROVE  Past(EachReplaced(w, list, keep, p, what), w, list, Len(list), keep, p)
<1> DEFINE N == Len(list)
           after == CHOOSE g : Replacing(g, N, w, list, keep, p, what)
           Refuting == {k \in Nat : k <= N /\ ~Past(after[k], w, list, k, keep, p)}
<1>1. N \in Nat /\ \A j \in 1..N : list[j] \in Members(w.outputs)
  OBVIOUS
<1>2. EachReplaced(w, list, keep, p, what) = after[N]
  BY DEF EachReplaced, Replacing
<1> HIDE DEF N
<1>3. Replacing(after, N, w, list, keep, p, what)
  BY <1>1, SomeReplacing
<1> HIDE DEF after
<1>4. \A k \in 0..N :
        after[k] = IF k = 0 THEN w
                   ELSE Put(StopOn(after[k - 1], list[k], keep, p), list[k], what)
  BY <1>3 DEF Replacing
<1>5. Refuting = {}
  <2> SUFFICES ASSUME Refuting # {}
               PROVE  FALSE
    OBVIOUS
  <2>1. PICK k \in Refuting : \A m \in Refuting : k <= m
    BY LeastNatural
  <2>2. k \in Nat /\ k <= N /\ ~Past(after[k], w, list, k, keep, p)
    OBVIOUS
  <2>3. k # 0
    <3>1. after[0] = w
      BY <1>1, <1>4
    <3>2. \A j \in 1..0 : FALSE
      OBVIOUS
    <3>3. Past(after[0], w, list, 0, keep, p)
      BY <3>1, <3>2, Stays DEF Past
    <3>4. QED
      BY <2>2, <3>3
  <2> DEFINE l == k - 1
             o == list[k]
             t == after[l]
             u == StopOn(t, o, keep, p)
             v == Put(u, o, what)
  <2>4. /\ l \in Nat /\ l <= N /\ l < k /\ k \in 0..N /\ k \in 1..N
        /\ \A j \in 1..k : j \in 1..l \/ j = k
    BY <1>1, <2>2, <2>3
  <2>5. Past(t, w, list, l, keep, p)
    <3>1. l \notin Refuting
      BY <2>1, <2>4
    <3>2. QED
      BY <2>4, <3>1
  <2>6. after[k] = v
    BY <1>4, <2>3, <2>4
  <2>7. o \in Members(w.outputs) /\ o \in Outputs
    BY <1>1, <2>4, Listed DEF Sound
  <2> HIDE DEF l, o
  <2>8. Goes(t, w, p) /\ Sound(t) /\ t.outputs = w.outputs
    BY <2>5 DEF Past, Goes
  <2> HIDE DEF t
  <2>9. Goes(u, t, p) /\ ("slides" \notin keep => u.out[o].slides \in {None, p})
    BY <2>7, <2>8, StopOnGoes
  <2>10. Sound(u) /\ u.outputs = w.outputs
    BY <2>8, <2>9 DEF Goes
  <2> HIDE DEF u
  <2>11. Goes(v, u, p) /\ v.out[o].slides = u.out[o].slides
    BY <2>7, <2>10, PutGoes
  <2> HIDE DEF v
  <2>12. Goes(v, t, p)
    BY <2>9, <2>11, GoesOn
  <2>13. Goes(v, w, p)
    BY <2>8, <2>12, GoesOn
  <2>14. ASSUME "slides" \notin keep, NEW j \in 1..k
         PROVE  v.out[list[j]].slides \in {None, p}
    <3>1. CASE j = k
      BY <2>9, <2>11, <2>14, <3>1 DEF o
    <3>2. CASE j \in 1..l
      <4>1. list[j] \in Outputs
        BY <1>1, <2>4, <2>14, <2>2, Listed DEF Sound
      <4>2. t.out[list[j]].slides \in {None, p}
        BY <2>5, <2>14, <3>2 DEF Past, t
      <4>3. QED
        BY <2>12, <4>1, <4>2 DEF Goes
    <3>3. QED
      BY <2>4, <2>14, <3>1, <3>2
  <2>15. QED
    BY <2>2, <2>6, <2>13, <2>14 DEF Past
<1>6. N \notin Refuting
  BY <1>5
<1>7. QED
  BY <1>1, <1>2, <1>6 DEF N

(* The targets of a request are among the outputs, and all are reached. *)
LEMMA MatchedTargets ==
    ASSUME NEW w, Framed(w), NEW spec
    PROVE  /\ Matched(w, spec) \in Seq(Members(w.outputs))
           /\ Members(Matched(w, spec)) = Targets(w, spec)
<1> DEFINE q == w.outputs
           leaving == Outputs \ spec
           c == Compact(q, leaving)
<1>1. q \in Seq(Outputs) /\ q \in Seq(Members(q))
  BY DEF Framed, Members
<1> HIDE DEF q
<1>2. c \in Seq(Members(q)) /\ Members(c) = Members(q) \ leaving
  <2> DEFINE S == Members(q)
  <2>1. q \in Seq(S)
    BY <1>1
  <2>2. S = {q[i] : i \in DOMAIN q} /\ Members(c) = {c[i] : i \in DOMAIN c}
    BY DEF Members
  <2> HIDE DEF S, leaving
  <2>3. c \in Seq(S) /\ {c[i] : i \in DOMAIN c} = {q[i] : i \in DOMAIN q} \ leaving
    BY <2>1, CompactRange
  <2>4. QED
    BY <2>2, <2>3 DEF S
<1>3. Members(q) \subseteq Outputs
  BY <1>1 DEF Members
<1> HIDE DEF c
<1>4. CASE spec = {}
  BY <1>1, <1>4 DEF Matched, Targets, Matches, q
<1>5. CASE spec # {}
  <2>1. Matched(w, spec) = c
    BY <1>5 DEF Matched, c, q
  <2>2. Targets(w, spec) = {o \in Members(q) : o \in spec}
    BY <1>5 DEF Targets, Matches, q
  <2>3. QED
    BY <1>2, <1>3, <2>1, <2>2 DEF q
<1>6. QED
  BY <1>4, <1>5

LEMMA ReplacedGoes ==
    ASSUME NEW w, Sound(w), NEW spec, NEW keep, NEW p,
           NEW what \in Replacements
    PROVE  LET t == Replaced(w, spec, keep, p, what)
           IN  /\ Goes(t, w, p)
               /\ "slides" \notin keep =>
                     \A o \in Targets(w, spec) : t.out[o].slides \in {None, p}
<1> DEFINE list == Matched(w, spec)
           t == EachReplaced(w, list, keep, p, what)
<1>1. list \in Seq(Members(w.outputs)) /\ Members(list) = Targets(w, spec)
  BY MatchedTargets DEF Sound
<1>2. Replaced(w, spec, keep, p, what) = t
  BY DEF Replaced
<1> HIDE DEF list
<1>3. Past(t, w, list, Len(list), keep, p)
  BY <1>1, EachReplacedGoes
<1> HIDE DEF t
<1>4. \A o \in Targets(w, spec) : \E j \in 1..Len(list) : list[j] = o
  BY <1>1 DEF Members
<1>5. QED
  BY <1>2, <1>3, <1>4 DEF Past

-----------------------------------------------------------------------------
(* What is put on outputs.                                                 *)
LEMMA ReplacedShownGoes ==
    ASSUME NEW w, Sound(w), NEW spec, NEW keep, NEW p, NEW what \in Replacements, NEW name
    PROVE  Goes(Replaced(Shown(w, spec, name), spec, keep, p, what), w, p)
<1> DEFINE v == Shown(w, spec, name)
           t == Replaced(v, spec, keep, p, what)
<1>1. Goes(v, w, p)
  BY ShownGoes
<1>2. Sound(v)
  BY <1>1 DEF Goes
<1> HIDE DEF v
<1>3. Goes(t, v, p)
  BY <1>2, ReplacedGoes
<1> HIDE DEF t
<1>4. QED
  BY <1>1, <1>3, GoesOn DEF t, v

LEMMA AnimatedGoes ==
    ASSUME NEW w, Sound(w), NEW spec
    PROVE  Goes(Animated(w, spec), w, None)
BY ReplacedShownGoes DEF Animated, Replacements

LEMMA DrawnGoes ==
    ASSUME NEW w, Sound(w), NEW spec, NEW kind
    PROVE  Goes(Drawn(w, spec, kind), w, None)
BY AnimatedGoes, Stays DEF Drawn

(* All engines of some outputs are stopped, and what they show is noted. *)
LEMMA StoppedShownGoes ==
    ASSUME NEW w, Sound(w), NEW spec, NEW keep, NEW p, NEW name
    PROVE  LET t == Shown(StopAllOn(w, spec, keep, p), spec, name)
           IN  /\ Goes(t, w, p)
               /\ "slides" \notin keep =>
                     \A o \in Targets(w, spec) : t.out[o].slides \in {None, p}
<1> DEFINE v == StopAllOn(w, spec, keep, p)
           t == Shown(v, spec, name)
<1>1. /\ Goes(v, w, p)
      /\ "slides" \notin keep =>
            \A o \in Targets(w, spec) : v.out[o].slides \in {None, p}
  BY ReplacedGoes DEF StopAllOn, Replacements
<1>2. Sound(v)
  BY <1>1 DEF Goes
<1> HIDE DEF v
<1>3. Goes(t, v, p) /\ t.out = v.out
  BY <1>2, ShownGoes, ShownOnly DEF Sound
<1> HIDE DEF t
<1>4. Goes(t, w, p)
  BY <1>1, <1>3, GoesOn
<1>5. QED
  BY <1>1, <1>3, <1>4 DEF t, v

LEMMA ImageSound ==
    ASSUME NEW w, Sound(w), NEW spec, NEW kind
    PROVE  LET t == Image(w, spec, kind) IN Sound(t) /\ t.outputs = w.outputs
<1> DEFINE v == Shown(StopAllOn(w, spec, {}, None), spec, "still")
           t == Drawn(v, spec, kind)
<1>1. Goes(v, w, None)
  BY StoppedShownGoes
<1> HIDE DEF v
<1>2. Goes(t, v, None)
  <2>1. Sound(v)
    BY <1>1 DEF Goes
  <2>2. QED
    BY <2>1, DrawnGoes
<1> HIDE DEF t
<1>3. QED
  BY <1>1, <1>2 DEF Goes, Image, t, v

LEMMA UnshadedGoes ==
    ASSUME NEW w, Sound(w), NEW o \in Outputs, NEW p
    PROVE  Goes(Unshaded(w, o), w, p)
<1> DEFINE n == [w.out[o] EXCEPT !.scene = "none"]
           v == [w EXCEPT !.out[o] = n]
<1>1. IsNode(n) /\ n.video = w.out[o].video /\ n.slides = w.out[o].slides
  BY DEF Sound, Framed, IsNode
<1>2. Unshaded(w, o) \in {w, v}
  BY DEF Unshaded
<1> HIDE DEF n
<1>3. /\ Framed(v) /\ v.outputs = w.outputs /\ v.video = w.video /\ v.shows = w.shows
      /\ v.out[o] = n /\ \A x \in Outputs \ {o} : v.out[x] = w.out[x]
  BY <1>1, EntryReplaced DEF Sound
<1> HIDE DEF v
<1>4. Milder(v, w)
  BY <1>1, <1>3 DEF Milder
<1>5. QED
  BY <1>2, <1>4, MilderGoes, Stays

LEMMA ShaderGoes ==
    ASSUME NEW w, Sound(w), NEW spec, NEW ok, NEW p
    PROVE  Goes(Shader(w, spec, ok, p), w, p)
<1> DEFINE v == Shown(w, spec, "failed")
           list == Matched(w, spec)
           first == Head(list)
<1>1. Goes(Replaced(Shown(w, spec, "shader"), spec, {"scene"}, p, "shader"), w, p)
  BY ReplacedShownGoes DEF Replacements
<1>2. Goes(v, w, p)
  BY ShownGoes
<1> HIDE DEF v
<1>3. ASSUME Targets(w, spec) # {}
      PROVE  Goes(Unshaded(v, first), w, p)
  <2>1. list \in Seq(Members(w.outputs)) /\ Members(list) = Targets(w, spec)
    BY MatchedTargets DEF Sound
  <2> HIDE DEF list
  <2>2. list # << >>
    BY <1>3, <2>1 DEF Members
  <2>3. first \in Members(w.outputs)
    BY <2>1, <2>2
  <2>4. first \in Outputs
    BY <2>3, Listed DEF Sound
  <2> HIDE DEF first
  <2>5. Goes(Unshaded(v, first), v, p)
    <3>1. Sound(v)
      BY <1>2 DEF Goes
    <3>2. QED
      BY <2>4, <3>1, UnshadedGoes
  <2>6. QED
    BY <1>2, <2>5, GoesOn
<1>4. QED
  BY <1>1, <1>3, Stays DEF Shader, v

LEMMA WorkshopGoes ==
    ASSUME NEW w, Sound(w), NEW spec, NEW ok, NEW p
    PROVE  Goes(Workshop(w, spec, ok, p), w, p)
<1> DEFINE v == Shown(w, spec, "failed")
           lost == {o \in Targets(w, spec) : w.out[o].scene = "workshop"}
           F == [o \in Outputs |-> IF o \in lost THEN [w.out[o] EXCEPT !.scene = "none"]
                                   ELSE w.out[o]]
           t == [v EXCEPT !.out = F]
<1>1. Goes(Replaced(Shown(w, spec, "workshop"), spec, {"scene"}, p, "workshop"), w, p)
  BY ReplacedShownGoes DEF Replacements
<1>2. Workshop(w, spec, FALSE, p) = t
  BY DEF Workshop
<1>3. Framed(v) /\ v.outputs = w.outputs /\ v.out = w.out /\ v.video = w.video /\ v.shows = w.shows
  BY ShownOnly DEF Sound
<1> HIDE DEF v, lost
<1>4. /\ DOMAIN F = Outputs
      /\ \A o \in Outputs : /\ IsNode(F[o]) /\ F[o].video = w.out[o].video
                            /\ F[o].slides = w.out[o].slides
  BY DEF Sound, Framed, IsNode
<1> HIDE DEF F
<1>5. Framed(t) /\ t.outputs = v.outputs /\ t.video = v.video /\ t.shows = v.shows /\ t.out = F
  BY <1>3, <1>4, EntriesReplaced
<1> HIDE DEF t
<1>6. Milder(t, w)
  BY <1>3, <1>4, <1>5 DEF Milder
<1>7. Goes(t, w, p)
  BY <1>6, MilderGoes
<1>8. CASE ok
  BY <1>1, <1>8 DEF Workshop
<1>9. CASE ~ok
  BY <1>7, <1>9 DEF Workshop, t, F, lost, v
<1>10. QED
  BY <1>8, <1>9

-----------------------------------------------------------------------------
(* Videos.                                                                 *)
LEMMA RetargetedGoes ==
    ASSUME NEW w, Sound(w), NEW target, NEW p
    PROVE  Goes(Retargeted(w, target), w, p)
<1> DEFINE r == [w.video[Main] EXCEPT !.target = None]
           F == [w.video EXCEPT ![Main] = r]
           t == [w EXCEPT !.video = F]
<1>1. Retargeted(w, target) \in {w, t}
  BY DEF Retargeted
<1>2. Main \in DOMAIN F /\ DOMAIN F = DOMAIN w.video
  BY DEF Sound, Framed
<1> HIDE DEF F
<1>3. Framed(t) /\ t.outputs = w.outputs /\ t.out = w.out /\ t.shows = w.shows /\ t.video = F
  BY <1>2, VideoReplaced DEF Sound
<1> HIDE DEF t
<1>4. Milder(t, w)
  BY <1>2, <1>3 DEF Milder
<1>5. QED
  BY <1>1, <1>4, MilderGoes, Stays

LEMMA JoinVideoGoes ==
    ASSUME NEW w, Sound(w), NEW spec, NEW p
    PROVE  Goes(JoinVideo(w, spec, p), w, p)
<1> DEFINE v == Replaced(Shown(w, spec, w.video[Main].file), spec, {"video"}, p, "video")
           target == TargetOf(w, spec)
           t == Retargeted(v, target)
<1>1. Goes(v, w, p)
  BY ReplacedShownGoes DEF Replacements
<1> HIDE DEF v, target
<1>2. Goes(t, v, p)
  <2>1. Sound(v)
    BY <1>1 DEF Goes
  <2>2. QED
    BY <2>1, RetargetedGoes
<1>3. JoinVideo(w, spec, p) = t
  BY DEF JoinVideo, v, target
<1> HIDE DEF t
<1>4. QED
  BY <1>1, <1>2, <1>3, GoesOn

LEMMA BlankGoes ==
    ASSUME NEW w, Sound(w), NEW p
    PROVE  Goes(Blank(w), w, p)
<1> DEFINE F == [o \in Outputs |-> [w.out[o] EXCEPT !.scene = "none", !.anim = FALSE]]
           t == [w EXCEPT !.out = F]
<1>1. Blank(w) = t
  BY DEF Blank
<1>2. /\ DOMAIN F = Outputs
      /\ \A o \in Outputs : /\ IsNode(F[o]) /\ F[o].video = w.out[o].video
                            /\ F[o].slides = w.out[o].slides
  BY DEF Sound, Framed, IsNode
<1> HIDE DEF F
<1>3. Framed(t) /\ t.outputs = w.outputs /\ t.video = w.video /\ t.shows = w.shows /\ t.out = F
  BY <1>2, EntriesReplaced DEF Sound
<1> HIDE DEF t
<1>4. Milder(t, w)
  BY <1>2, <1>3 DEF Milder
<1>5. QED
  BY <1>1, <1>4, MilderGoes

(* Once every output is released, only the slideshow that presents is shown *)
(* anywhere.                                                                *)
LEMMA AllReleased ==
    ASSUME NEW w, Sound(w), NEW p, NEW t, Goes(t, w, p),
           \A o \in Targets(w, {}) : t.out[o].slides \in {None, p}
    PROVE  \A o \in Outputs : t.out[o].slides \in {None, p}
<1>1. Targets(w, {}) = Members(w.outputs)
  BY DEF Targets, Matches
<1>2. QED
  BY <1>1 DEF Goes, Sound, Refers

LEMMA ClearedForGoes ==
    ASSUME NEW w, Sound(w), NEW spec, NEW p
    PROVE  Goes(ClearedFor(w, spec, p), w, p)
<1> DEFINE v == StopAllOn(w, spec, {"video"}, p)
           u == IF p = Main THEN v ELSE StopShow(v, Main)
           t == Blank(u)
<1>1. Goes(v, w, p) /\ \A o \in Targets(w, spec) : v.out[o].slides \in {None, p}
  BY ReplacedGoes DEF StopAllOn, Replacements
<1>2. ClearedFor(w, spec, p) = IF spec # {} THEN v ELSE t
  BY DEF ClearedFor, AllEnded
<1> HIDE DEF v
<1>3. ASSUME spec = {}
      PROVE  Goes(t, w, p)
  <2>1. \A o \in Outputs : v.out[o].slides \in {None, p}
    BY <1>1, <1>3, AllReleased
  <2>2. Sound(v)
    BY <1>1 DEF Goes
  <2>3. Main # None
    BY DEF Main, None
  <2>4. Goes(u, v, p)
    <3>1. CASE p = Main
      BY <2>2, <3>1, Stays
    <3>2. CASE p # Main
      <4>1. \A o \in Outputs : v.out[o].slides # Main
        BY <2>1, <2>3, <3>2
      <4>2. Goes(StopShow(v, Main), v, p)
        BY <2>2, <3>2, <4>1, StopShowGoes
      <4>3. QED
        BY <3>2, <4>2
    <3>3. QED
      BY <3>1, <3>2
  <2> HIDE DEF u
  <2>5. Goes(t, u, p)
    <3>1. Sound(u)
      BY <2>4 DEF Goes
    <3>2. QED
      BY <3>1, BlankGoes
  <2> HIDE DEF t
  <2>6. Goes(u, w, p)
    BY <1>1, <2>4, GoesOn
  <2>7. QED
    BY <2>5, <2>6, GoesOn
<1>4. QED
  BY <1>1, <1>2, <1>3

(* An engine is assigned to some outputs: its reference is the only new one. *)
LEMMA AssignedParts ==
    ASSUME NEW w, Sound(w), NEW e, NEW spec
    PROVE  LET t == Assigned(w, e, spec)
           IN  /\ Framed(t) /\ t.outputs = w.outputs /\ t.video = w.video /\ t.shows = w.shows
               /\ \A o \in Outputs :
                     /\ t.out[o].slides = w.out[o].slides
                     /\ \/ t.out[o].video \in {w.out[o].video, None}
                        \/ t.out[o].video = e /\ o \in Members(w.outputs)
<1> DEFINE n(o) == IF o \in Targets(w, spec) THEN [w.out[o] EXCEPT !.video = e, !.targeted = TRUE]
                   ELSE IF e = Main /\ o \in Members(w.outputs)
                   THEN [w.out[o] EXCEPT !.targeted = FALSE,
                                         !.video = IF w.out[o].video = Main THEN None
                                                   ELSE w.out[o].video]
                   ELSE w.out[o]
           F == [o \in Outputs |-> n(o)]
           t == [w EXCEPT !.out = F]
<1>1. Assigned(w, e, spec) = t
  BY DEF Assigned
<1>2. ASSUME NEW o \in Outputs
      PROVE  /\ IsNode(n(o)) /\ n(o).slides = w.out[o].slides
             /\ \/ n(o).video \in {w.out[o].video, None}
                \/ n(o).video = e /\ o \in Members(w.outputs)
  <2> DEFINE entry == w.out[o]
  <2>1. IsNode(entry)
    BY DEF Sound, Framed
  <2>2. o \in Targets(w, spec) => o \in Members(w.outputs)
    BY DEF Targets
  <2> HIDE DEF entry
  <2>3. QED
    BY <2>1, <2>2 DEF IsNode, entry
<1>3. DOMAIN F = Outputs /\ \A o \in Outputs : F[o] = n(o)
  OBVIOUS
<1> HIDE DEF F, n
<1>4. Framed(t) /\ t.outputs = w.outputs /\ t.video = w.video /\ t.shows = w.shows /\ t.out = F
  BY <1>2, <1>3, EntriesReplaced DEF Sound
<1>5. QED
  BY <1>1, <1>2, <1>3, <1>4

LEMMA LoadedGoes ==
    ASSUME NEW w, Sound(w), NEW e, NEW spec, NEW file, NEW p
    PROVE  Goes(Loaded(Assigned(w, e, spec), e, spec, file), w, p)
<1> DEFINE a == Assigned(w, e, spec)
           b == Shown(a, spec, file)
           r == [running |-> TRUE, file |-> file, target |-> TargetOf(a, spec),
                 filter |-> spec # {}]
           F == With(a.video, e, r)
           t == [b EXCEPT !.video = F]
<1>1. Loaded(a, e, spec, file) = t
  BY DEF Loaded
<1>2. /\ Framed(a) /\ a.outputs = w.outputs /\ a.video = w.video /\ a.shows = w.shows
      /\ \A o \in Outputs :
            /\ a.out[o].slides = w.out[o].slides
            /\ \/ a.out[o].video \in {w.out[o].video, None}
               \/ a.out[o].video = e /\ o \in Members(w.outputs)
  BY AssignedParts
<1> HIDE DEF a, r
<1>3. Framed(b) /\ b.outputs = a.outputs /\ b.out = a.out /\ b.video = a.video /\ b.shows = a.shows
  BY <1>2, ShownOnly
<1> HIDE DEF b
<1>4. DOMAIN F = DOMAIN w.video \cup {e} /\ Main \in DOMAIN F
  BY <1>2 DEF With, Framed
<1> HIDE DEF F
<1>5. Framed(t) /\ t.outputs = b.outputs /\ t.out = b.out /\ t.shows = b.shows /\ t.video = F
  BY <1>3, <1>4, VideoReplaced
<1> HIDE DEF t
<1>6. Refers(t)
  BY <1>2, <1>3, <1>4, <1>5 DEF Sound, Refers, Active
<1>7. Goes(t, w, p)
  BY <1>2, <1>3, <1>5, <1>6 DEF Goes, Sound, Active
<1>8. QED
  BY <1>1, <1>7 DEF a

LEMMA NotLoadedGoes ==
    ASSUME NEW w, Sound(w), NEW e, NEW spec, NEW p
    PROVE  Goes(NotLoaded(Assigned(w, e, spec), e, spec), w, p)
<1> DEFINE a == Assigned(w, e, spec)
           F == [o \in Outputs |->
                    IF a.out[o].video = e
                    THEN [a.out[o] EXCEPT !.video = None, !.targeted = FALSE] ELSE a.out[o]]
           b == [a EXCEPT !.out = F]
           r == [a.video[Main] EXCEPT !.running = FALSE, !.file = None, !.filter = spec # {}]
           V == [b.video EXCEPT ![Main] = r]
           t == [b EXCEPT !.video = V]
<1>1. NotLoaded(a, e, spec) = IF e # Main THEN b ELSE t
  BY DEF NotLoaded, Unassigned
<1>2. /\ Framed(a) /\ a.outputs = w.outputs /\ a.video = w.video /\ a.shows = w.shows
      /\ \A o \in Outputs :
            /\ a.out[o].slides = w.out[o].slides
            /\ \/ a.out[o].video \in {w.out[o].video, None}
               \/ a.out[o].video = e /\ o \in Members(w.outputs)
  BY AssignedParts
<1> HIDE DEF a, r
<1>3. /\ DOMAIN F = Outputs
      /\ \A o \in Outputs : /\ IsNode(F[o]) /\ F[o].slides = a.out[o].slides
                            /\ F[o].video = IF a.out[o].video = e THEN None ELSE a.out[o].video
  BY <1>2 DEF Framed, IsNode
<1> HIDE DEF F
<1>4. Framed(b) /\ b.outputs = a.outputs /\ b.video = a.video /\ b.shows = a.shows /\ b.out = F
  BY <1>2, <1>3, EntriesReplaced
<1> HIDE DEF b
<1>5. Milder(b, w)
  BY <1>2, <1>3, <1>4 DEF Milder
<1>6. DOMAIN V = DOMAIN b.video /\ Main \in DOMAIN V
  BY <1>4 DEF Framed
<1> HIDE DEF V
<1>7. Framed(t) /\ t.outputs = b.outputs /\ t.out = b.out /\ t.shows = b.shows /\ t.video = V
  BY <1>4, <1>6, VideoReplaced
<1> HIDE DEF t
<1>8. Milder(t, w)
  BY <1>5, <1>6, <1>7 DEF Milder
<1>9. QED
  BY <1>1, <1>5, <1>8, MilderGoes DEF a

LEMMA PlayedGoes ==
    ASSUME NEW w, Sound(w), NEW e, NEW spec, NEW file, NEW p
    PROVE  Goes(Played(w, e, spec, file), w, p)
<1> DEFINE v == NotLoaded(Assigned(w, e, spec), e, spec)
<1>1. Goes(v, w, p)
  BY NotLoadedGoes
<1>2. Goes(Loaded(Assigned(w, e, spec), e, spec, file), w, p)
  BY LoadedGoes
<1>3. Played(w, e, spec, file) \in
        {Loaded(Assigned(w, e, spec), e, spec, file), Shown(v, spec, "failed")}
  BY DEF Played
<1> HIDE DEF v
<1>4. Goes(Shown(v, spec, "failed"), v, p)
  <2>1. Sound(v)
    BY <1>1 DEF Goes
  <2>2. QED
    BY <2>1, ShownGoes
<1>5. Goes(Shown(v, spec, "failed"), w, p)
  BY <1>1, <1>4, GoesOn
<1>6. QED
  BY <1>2, <1>3, <1>5

LEMMA VideoGoes ==
    ASSUME NEW w, Sound(w), NEW spec, NEW file, NEW client, NEW p
    PROVE  Goes(Video(w, spec, file, client, p), w, p)
<1> DEFINE c == ClearedFor(w, spec, p)
           e == NewVideo(c, spec, client)
           t == Played(c, e, spec, file)
<1>1. Video(w, spec, file, client, p) \in {w, JoinVideo(w, spec, p), t}
  BY DEF Video, PlayedNew
<1>2. Goes(c, w, p)
  BY ClearedForGoes
<1> HIDE DEF c, e
<1>3. Goes(t, c, p)
  <2>1. Sound(c)
    BY <1>2 DEF Goes
  <2>2. QED
    BY <2>1, PlayedGoes
<1> HIDE DEF t
<1>4. QED
  BY <1>1, <1>2, <1>3, Stays, JoinVideoGoes, GoesOn

-----------------------------------------------------------------------------
(* Slideshows.                                                             *)
LEMMA ClaimSound ==
    ASSUME NEW w, Sound(w), NEW s, s = None \/ Active(w, s)
    PROVE  LET t == Claim(w, s)
           IN  Sound(t) /\ t.outputs = w.outputs /\ t.shows = w.shows
<1> DEFINE F == [o \in Outputs |-> IF o \in Targets(w, w.shows[s].targets)
                                   THEN [w.out[o] EXCEPT !.slides = s] ELSE w.out[o]]
           t == [w EXCEPT !.out = F]
<1>1. Claim(w, s) = t
  BY DEF Claim
<1>2. /\ DOMAIN F = Outputs
      /\ \A o \in Outputs : /\ IsNode(F[o]) /\ F[o].video = w.out[o].video
                            /\ \/ F[o].slides = w.out[o].slides
                               \/ F[o].slides = s /\ o \in Members(w.outputs)
  BY DEF Sound, Framed, IsNode, Targets
<1> HIDE DEF F
<1>3. Framed(t) /\ t.outputs = w.outputs /\ t.video = w.video /\ t.shows = w.shows /\ t.out = F
  BY <1>2, EntriesReplaced DEF Sound
<1> HIDE DEF t
<1>4. Refers(t)
  BY <1>2, <1>3 DEF Sound, Refers, Active
<1>5. QED
  BY <1>1, <1>3, <1>4 DEF Sound

(* What a slideshow shows next. *)
LEMMA DisplaySound ==
    ASSUME NEW w, Sound(w), NEW s, s = None \/ Active(w, s), NEW item \in Media \cup Files
    PROVE  LET t == Display(w, s, item)
           IN  Sound(t) /\ t.outputs = w.outputs
<1> DEFINE spec == w.shows[s].targets
           a == StopAllOn(w, spec, {"slides"}, s)
           b == Shown(Claim(a, s), spec, "still")
           still == Drawn(b, spec, item)
           shader == Shader(w, spec, TRUE, s)
           workshop == Workshop(w, spec, TRUE, s)
           film == Video(w, spec, item, FALSE, s)
<1>1. Display(w, s, item) = IF item = "unreadable" THEN w
                            ELSE IF item \in {"still", "anim"} THEN still
                            ELSE IF item = "shader" THEN Claim(shader, s)
                            ELSE IF item = "workshop" THEN Claim(workshop, s)
                            ELSE Claim(film, s)
  BY OutputEnginesAssumption DEF Display, Media
<1>2. \A t : Goes(t, w, s) => Sound(Claim(t, s)) /\ Claim(t, s).outputs = w.outputs
  <2> TAKE t
  <2> SUFFICES ASSUME Goes(t, w, s)
               PROVE  Sound(Claim(t, s)) /\ Claim(t, s).outputs = w.outputs
    OBVIOUS
  <2>1. Sound(t) /\ (s = None \/ Active(t, s)) /\ t.outputs = w.outputs
    BY DEF Goes
  <2>2. QED
    BY <2>1, ClaimSound
<1>3. Goes(a, w, s)
  BY ReplacedGoes DEF StopAllOn, Replacements
<1>4. Goes(shader, w, s) /\ Goes(workshop, w, s) /\ Goes(film, w, s)
  BY ShaderGoes, WorkshopGoes, VideoGoes
<1> HIDE DEF a, shader, workshop, film, spec
<1>5. Sound(Claim(a, s)) /\ Claim(a, s).outputs = w.outputs
  BY <1>2, <1>3
<1>6. Goes(b, Claim(a, s), None)
  BY <1>5, ShownGoes
<1>7. Sound(b) /\ b.outputs = w.outputs
  BY <1>5, <1>6 DEF Goes
<1> HIDE DEF b
<1>8. Goes(still, b, None)
  BY <1>7, DrawnGoes
<1>9. Sound(still) /\ still.outputs = w.outputs
  BY <1>7, <1>8 DEF Goes
<1> HIDE DEF still
<1>10. QED
  BY <1>1, <1>2, <1>4, <1>9

(* A slideshow starts where the others are released. *)
LEMMA StartedSound ==
    ASSUME NEW w, Sound(w), ~Full(w.shows), NEW spec,
           \A o \in Targets(w, spec) : w.out[o].slides = None,
           NEW item \in Media \cup Files \cup {"none"}
    PROVE  LET t == StartedNew(w, spec, item)
           IN  Sound(t) /\ t.outputs = w.outputs
<1> DEFINE s == NewShow(w, spec)
           new == [active |-> TRUE, paused |-> FALSE, targets |-> spec]
           F == With(w.shows, s, new)
           v == [w EXCEPT !.shows = F]
           u == Claim(v, s)
           t == Display(u, s, item)
<1>1. StartedNew(w, spec, item) = IF item # "none" THEN t
                                  ELSE IF s = Main THEN StopShow(w, Main) ELSE w
  BY DEF StartedNew, Started, Opened
<1>2. ASSUME s = Main
      PROVE  \A o \in Outputs : w.out[o].slides # Main
  <2>1. ~TakesSpare(w, spec)
    <3>1. \E e \in Spares : e \notin DOMAIN w.shows
      BY DEF Full
    <3>2. Spare(w.shows) \in Spares
      BY <3>1 DEF Spare
    <3>3. Main \notin Spares
      BY OutputEnginesAssumption DEF Main
    <3>4. QED
      BY <1>2, <3>2, <3>3 DEF NewShow
  <2>2. Main # None
    BY DEF Main, None
  <2>3. SUFFICES ASSUME NEW o \in Outputs, w.out[o].slides = Main
                 PROVE  FALSE
    OBVIOUS
  <2>4. o \in Members(w.outputs) /\ Active(w, Main)
    BY <2>2, <2>3 DEF Sound, Refers
  <2>5. ~Matches(spec, o)
    BY <2>2, <2>3, <2>4 DEF Targets
  <2>6. spec # {} /\ w.shows[Main].active
    BY <2>4, <2>5 DEF Matches, Active
  <2>7. QED
    BY <2>1, <2>3, <2>4, <2>5, <2>6 DEF TakesSpare
<1>3. ASSUME s = Main
      PROVE  Goes(StopShow(w, Main), w, None)
  BY <1>2, <1>3, StopShowGoes
<1> HIDE DEF s
<1>4. /\ DOMAIN F = DOMAIN w.shows \cup {s} /\ Main \in DOMAIN F
      /\ F[s] = new /\ \A x \in DOMAIN w.shows \ {s} : F[x] = w.shows[x]
  BY DEF With, Sound, Framed
<1>5. IsShow(new) /\ new.active
  BY DEF IsShow
<1> HIDE DEF new, F
<1>6. \A x \in DOMAIN F : IsShow(F[x])
  BY <1>4, <1>5 DEF Sound, Framed
<1>7. Framed(v) /\ v.outputs = w.outputs /\ v.out = w.out /\ v.video = w.video /\ v.shows = F
  BY <1>4, <1>6, ShowsReplaced DEF Sound
<1> HIDE DEF v
<1>8. Active(v, s) /\ \A x : Active(w, x) => Active(v, x)
  BY <1>4, <1>5, <1>7 DEF Active
<1>9. Sound(v)
  BY <1>7, <1>8 DEF Sound, Refers
<1>10. Sound(u) /\ u.outputs = w.outputs /\ u.shows = v.shows
  BY <1>7, <1>8, <1>9, ClaimSound
<1> HIDE DEF u
<1>11. Active(u, s)
  BY <1>8, <1>10 DEF Active
<1>12. ASSUME item # "none"
       PROVE  Sound(t) /\ t.outputs = w.outputs
  <2>1. item \in Media \cup Files
    BY <1>12
  <2>2. QED
    BY <1>10, <1>11, <2>1, DisplaySound
<1> HIDE DEF t
<1>13. QED
  BY <1>1, <1>3, <1>12 DEF Goes

LEMMA SlideshowSound ==
    ASSUME NEW w, Sound(w), ~Full(w.shows), NEW spec,
           NEW item \in Media \cup Files \cup {"none"}
    PROVE  LET t == Slideshow(w, spec, item)
           IN  Sound(t) /\ t.outputs = w.outputs
<1> DEFINE c == Shown(StopAllOn(w, spec, {}, None), spec, "nothing")
           t == StartedNew(c, spec, item)
<1>1. Slideshow(w, spec, item) \in {w, t}
  BY DEF Slideshow
<1>2. Goes(c, w, None) /\ \A o \in Targets(w, spec) : c.out[o].slides \in {None, None}
  BY StoppedShownGoes
<1> HIDE DEF c
<1>3. Sound(c) /\ c.outputs = w.outputs /\ ~Full(c.shows)
  BY <1>2 DEF Goes, Full
<1>4. Targets(c, spec) = Targets(w, spec)
  BY <1>3 DEF Targets
<1>5. Sound(t) /\ t.outputs = c.outputs
  BY <1>2, <1>3, <1>4, StartedSound
<1> HIDE DEF t
<1>6. QED
  BY <1>1, <1>3, <1>5

(* A slideshow is paused, resumed, or goes to another item. *)
LEMMA ControlSound ==
    ASSUME NEW w, Sound(w), NEW s \in DOMAIN w.shows, NEW what \in Controls \cup Items
    PROVE  LET t == Control(w, s, what)
           IN  Sound(t) /\ t.outputs = w.outputs
<1> DEFINE r(on) == [w.shows[s] EXCEPT !.paused = on]
           F(on) == [w.shows EXCEPT ![s] = r(on)]
           t(on) == [w EXCEPT !.shows = F(on)]
<1>1. ASSUME NEW on
      PROVE  Sound(t(on)) /\ t(on).outputs = w.outputs
  <2>1. IsShow(r(on)) /\ r(on).active = w.shows[s].active
    BY DEF Sound, Framed, IsShow
  <2> HIDE DEF r
  <2>2. /\ DOMAIN F(on) = DOMAIN w.shows
        /\ \A x \in DOMAIN w.shows : IsShow(F(on)[x]) /\ F(on)[x].active = w.shows[x].active
    BY <2>1 DEF Sound, Framed
  <2>3. Main \in DOMAIN F(on)
    BY <2>2 DEF Sound, Framed
  <2> HIDE DEF F
  <2>4. /\ Framed(t(on)) /\ t(on).outputs = w.outputs /\ t(on).out = w.out
        /\ t(on).video = w.video /\ t(on).shows = F(on)
    BY <2>2, <2>3, ShowsReplaced DEF Sound
  <2> HIDE DEF t
  <2>5. \A x : Active(t(on), x) <=> Active(w, x)
    BY <2>2, <2>4 DEF Active
  <2>6. QED
    BY <2>4, <2>5 DEF Sound, Refers
<1>2. CASE what = "pause"
  <2>1. Control(w, s, what) = t(w.shows[s].active)
    BY <1>2, OutputEnginesAssumption DEF Control, Media, Pauses
  <2> HIDE DEF t
  <2>2. QED
    BY <1>1, <2>1
<1>3. CASE what = "resume"
  <2>1. Control(w, s, what) = t(FALSE)
    BY <1>3, OutputEnginesAssumption DEF Control, Media, Pauses
  <2> HIDE DEF t
  <2>2. QED
    BY <1>1, <2>1
<1>4. CASE what \notin Pauses
  <2>1. what \in Items /\ what \in Media \cup Files
    BY <1>4, OutputEnginesAssumption
  <2>2. Control(w, s, what) = IF w.shows[s].active THEN Display(w, s, what) ELSE w
    BY <1>4, <2>1 DEF Control, Pauses
  <2>3. w.shows[s].active => Active(w, s)
    BY DEF Active
  <2>4. QED
    BY <2>1, <2>2, <2>3, DisplaySound
<1>5. QED
  BY <1>2, <1>3, <1>4 DEF Pauses

(* Every slideshow is controlled in turn: the states on the way.            *)
Controlling(g, n, w, list, what) ==
    g = [k \in 0..n |-> IF k = 0 THEN [w |-> w, seen |-> {None, Main}]
                        ELSE ControlNext(g[k - 1], list[k], what)]

LEMMA SomeControlling ==
    ASSUME NEW w, NEW list, NEW what
    PROVE  \A n \in Nat : \E g : Controlling(g, n, w, list, what)
<1> DEFINE first == [w |-> w, seen |-> {None, Main}]
           Next1(t, k) == ControlNext(t, list[k], what)
           Refuting == {n \in Nat : ~\E g : Controlling(g, n, w, list, what)}
<1> SUFFICES ASSUME Refuting # {}
             PROVE  FALSE
  OBVIOUS
<1>1. PICK n \in Refuting : \A m \in Refuting : n <= m
  BY LeastNatural
<1>2. n \in Nat /\ ~\E g : Controlling(g, n, w, list, what)
  OBVIOUS
<1>3. n # 0
  <2> SUFFICES ASSUME n = 0
               PROVE  FALSE
    OBVIOUS
  <2> DEFINE g == [k \in 0..0 |-> first]
  <2>1. \A k \in 0..0 : k = 0
    OBVIOUS
  <2>2. g = [k \in 0..0 |-> IF k = 0 THEN first ELSE Next1(g[k - 1], k)]
    BY <2>1
  <2> HIDE DEF g
  <2>3. Controlling(g, n, w, list, what)
    BY <2>2 DEF Controlling
  <2>4. QED
    BY <1>2, <2>3
<1>4. n - 1 \in Nat /\ n - 1 \notin Refuting
  BY <1>1, <1>2, <1>3
<1>5. PICK g : Controlling(g, n - 1, w, list, what)
  BY <1>4
<1>6. g = [k \in 0..(n - 1) |-> IF k = 0 THEN first ELSE Next1(g[k - 1], k)]
  BY <1>5 DEF Controlling
<1> DEFINE last == Next1(g[n - 1], n)
           h == [k \in 0..n |-> IF k = n THEN last ELSE g[k]]
<1>7. \A k \in 0..n : h[k] = IF k = 0 THEN first ELSE Next1(h[k - 1], k)
  <2> SUFFICES ASSUME NEW k \in 0..n
               PROVE  h[k] = IF k = 0 THEN first ELSE Next1(h[k - 1], k)
    OBVIOUS
  <2>1. CASE k = n
    <3>1. k - 1 \in 0..n /\ k - 1 # n /\ k # 0
      BY <1>2, <1>3, <2>1
    <3>2. h[k - 1] = g[k - 1] /\ h[k] = last
      BY <2>1, <3>1
    <3>3. QED
      BY <2>1, <3>1, <3>2
  <2>2. CASE k = 0
    <3>1. k \in 0..(n - 1) /\ k # n
      BY <1>2, <1>3, <2>2
    <3>2. h[k] = g[k] /\ g[k] = first
      BY <1>6, <2>2, <3>1
    <3>3. QED
      BY <2>2, <3>2
  <2>3. CASE k # n /\ k # 0
    <3>1. k \in 0..(n - 1) /\ k - 1 \in 0..n /\ k - 1 # n
      BY <1>2, <2>3
    <3>2. h[k] = g[k] /\ h[k - 1] = g[k - 1]
      BY <2>3, <3>1
    <3>3. g[k] = Next1(g[k - 1], k)
      BY <1>6, <2>3, <3>1
    <3>4. QED
      BY <2>3, <3>2, <3>3
  <2>4. QED
    BY <2>1, <2>2, <2>3
<1>8. h = [k \in 0..n |-> IF k = 0 THEN first ELSE Next1(h[k - 1], k)]
  <2>1. h = [k \in 0..n |-> h[k]]
    OBVIOUS
  <2> HIDE DEF h
  <2>2. QED
    BY <1>7, <2>1
<1> HIDE DEF h
<1>9. QED
  BY <1>2, <1>8 DEF Controlling

Controlled(x, w) == Sound(x.w) /\ x.w.outputs = w.outputs /\ None \in x.seen

LEMMA ControlNextSound ==
    ASSUME NEW w, NEW x, Controlled(x, w), NEW o \in Outputs, NEW what \in Controls \cup Items
    PROVE  Controlled(ControlNext(x, o, what), w)
<1> DEFINE v == x.w
           s == v.out[o].slides
           u == Control(v, s, what)
           y == [w |-> u, seen |-> x.seen \cup {s}]
<1>1. ControlNext(x, o, what) = IF s \in x.seen THEN x ELSE y
  BY DEF ControlNext
<1>2. Sound(v) /\ v.outputs = w.outputs /\ None \in x.seen
  BY DEF Controlled
<1> HIDE DEF v
<1>3. ASSUME s \notin x.seen
      PROVE  Controlled(y, w)
  <2>1. s \in DOMAIN v.shows
    BY <1>2, <1>3 DEF Sound, Refers, Active
  <2> HIDE DEF s
  <2>2. Sound(u) /\ u.outputs = v.outputs
    BY <1>2, <2>1, ControlSound
  <2> HIDE DEF u
  <2>3. QED
    BY <1>2, <2>2 DEF Controlled
<1>4. QED
  BY <1>1, <1>3

LEMMA ControlAllSound ==
    ASSUME NEW w, Sound(w), NEW what \in Controls \cup Items
    PROVE  LET t == ControlAll(w, what)
           IN  Sound(t) /\ t.outputs = w.outputs
<1> DEFINE v == IF w.shows[Main].active THEN Control(w, Main, what) ELSE w
           list == w.outputs
           N == Len(list)
           after == CHOOSE g : Controlling(g, N, v, list, what)
           Refuting == {k \in Nat : k <= N /\ ~Controlled(after[k], w)}
<1>1. N \in Nat /\ \A j \in 1..N : list[j] \in Outputs
  BY DEF Sound, Framed
<1>2. ControlAll(w, what) = after[N].w
  BY DEF ControlAll, ControlEach, Controlling
<1>3. Sound(v) /\ v.outputs = w.outputs
  BY ControlSound DEF Sound, Framed
<1> HIDE DEF N, v, list
<1>4. Controlling(after, N, v, list, what)
  BY <1>1, SomeControlling
<1> HIDE DEF after
<1>5. \A k \in 0..N :
        after[k] = IF k = 0 THEN [w |-> v, seen |-> {None, Main}]
                   ELSE ControlNext(after[k - 1], list[k], what)
  BY <1>4 DEF Controlling
<1>6. Refuting = {}
  <2> SUFFICES ASSUME Refuting # {}
               PROVE  FALSE
    OBVIOUS
  <2>1. PICK k \in Refuting : \A m \in Refuting : k <= m
    BY LeastNatural
  <2>2. k \in Nat /\ k <= N /\ ~Controlled(after[k], w)
    OBVIOUS
  <2>3. k # 0
    <3>1. after[0] = [w |-> v, seen |-> {None, Main}]
      BY <1>1, <1>5
    <3>2. Controlled(after[0], w)
      BY <1>3, <3>1 DEF Controlled
    <3>3. QED
      BY <2>2, <3>2
  <2> DEFINE l == k - 1
             o == list[k]
             x == after[l]
  <2>4. l \in Nat /\ l <= N /\ l < k /\ k \in 0..N /\ k \in 1..N
    BY <1>1, <2>2, <2>3
  <2>5. Controlled(x, w)
    <3>1. l \notin Refuting
      BY <2>1, <2>4
    <3>2. QED
      BY <2>4, <3>1
  <2>6. after[k] = ControlNext(x, o, what)
    BY <1>5, <2>3, <2>4
  <2>7. o \in Outputs
    BY <1>1, <2>4
  <2> HIDE DEF x, o
  <2>8. Controlled(ControlNext(x, o, what), w)
    BY <2>5, <2>7, ControlNextSound
  <2>9. QED
    BY <2>2, <2>6, <2>8
<1>7. N \notin Refuting
  BY <1>6
<1>8. QED
  BY <1>1, <1>2, <1>7 DEF Controlled

(* A slideshow other outputs show too is copied before it is controlled. *)
LEMMA SplitSound ==
    ASSUME NEW w, Sound(w), NEW o \in Members(w.outputs), Active(w, w.out[o].slides)
    PROVE  LET t == Split(w, o)
           IN  Sound(t) /\ t.outputs = w.outputs /\ Spare(w.shows) \in DOMAIN t.shows
<1> DEFINE s == w.out[o].slides
           c == Spare(w.shows)
           n == [w.out[o] EXCEPT !.slides = c]
           v == [w EXCEPT !.out[o] = n]
           kept == [w.shows[s] EXCEPT !.targets = Showing(v, s)]
           copy == [w.shows[s] EXCEPT !.targets = {o}]
           rest == [w.shows EXCEPT ![s] = kept]
           F == With(rest, c, copy)
           t == [v EXCEPT !.shows = F]
<1>1. Split(w, o) = t
  BY DEF Split
<1>2. o \in Outputs
  BY Listed DEF Sound
<1>3. s \in DOMAIN w.shows /\ w.shows[s].active /\ IsShow(w.shows[s])
  BY DEF Active, Sound, Framed
<1>4. IsNode(n) /\ n.video = w.out[o].video /\ n.slides = c
  BY <1>2 DEF Sound, Framed, IsNode
<1> HIDE DEF n
<1>5. /\ Framed(v) /\ v.outputs = w.outputs /\ v.video = w.video /\ v.shows = w.shows
      /\ v.out[o] = n /\ \A x \in Outputs \ {o} : v.out[x] = w.out[x]
  BY <1>2, <1>4, EntryReplaced DEF Sound
<1> HIDE DEF v, s, c
<1>6. IsShow(kept) /\ kept.active /\ IsShow(copy) /\ copy.active
  BY <1>3 DEF IsShow
<1> HIDE DEF kept, copy
<1>7. /\ DOMAIN rest = DOMAIN w.shows
      /\ \A x \in DOMAIN w.shows : /\ IsShow(rest[x])
                                   /\ w.shows[x].active => rest[x].active
  BY <1>3, <1>6 DEF Sound, Framed
<1> HIDE DEF rest
<1>8. /\ DOMAIN F = DOMAIN w.shows \cup {c} /\ Main \in DOMAIN F /\ F[c] = copy
      /\ \A x \in DOMAIN w.shows : x # c => F[x] = rest[x]
  BY <1>7 DEF With, Sound, Framed
<1> HIDE DEF F
<1>9. \A x \in DOMAIN F : /\ IsShow(F[x])
                          /\ x = c \/ w.shows[x].active => F[x].active
  BY <1>6, <1>7, <1>8
<1>10. Framed(t) /\ t.outputs = w.outputs /\ t.out = v.out /\ t.video = w.video /\ t.shows = F
  BY <1>5, <1>8, <1>9, ShowsReplaced
<1> HIDE DEF t
<1>11. Active(t, c) /\ \A x : Active(w, x) => Active(t, x)
  BY <1>8, <1>9, <1>10 DEF Active
<1>12. \A x \in Outputs : /\ t.out[x].video = w.out[x].video
                          /\ \/ t.out[x].slides = w.out[x].slides
                             \/ t.out[x].slides = c /\ x \in Members(w.outputs)
  BY <1>4, <1>5, <1>10
<1>13. Refers(t)
  BY <1>10, <1>11, <1>12 DEF Sound, Refers
<1>14. QED
  BY <1>1, <1>8, <1>10, <1>13 DEF Sound, c

LEMMA ControlOneSound ==
    ASSUME NEW w, Sound(w), NEW o \in Members(w.outputs), NEW what \in Controls \cup Items
    PROVE  LET t == ControlOne(w, o, what)
           IN  Sound(t) /\ t.outputs = w.outputs
<1> DEFINE s == w.out[o].slides
           c == Spare(w.shows)
           v == Split(w, o)
           r == [w.shows[s] EXCEPT !.targets = IF w.shows[s].targets = {} THEN {o}
                                               ELSE w.shows[s].targets]
           F == [w.shows EXCEPT ![s] = r]
           u == [w EXCEPT !.shows = F]
<1>1. ControlOne(w, o, what) = IF s = None THEN w
                               ELSE IF Showing(w, s) # {o} THEN Control(v, c, what)
                               ELSE Control(u, s, what)
  BY DEF ControlOne
<1>2. o \in Outputs
  BY Listed DEF Sound
<1>3. CASE s = None
  BY <1>1, <1>3
<1>4. CASE s # None
  <2>1. Active(w, s)
    BY <1>2, <1>4 DEF Sound, Refers
  <2>2. Sound(v) /\ v.outputs = w.outputs /\ c \in DOMAIN v.shows
    BY <2>1, SplitSound
  <2>3. IsShow(r) /\ r.active = w.shows[s].active
    BY <2>1 DEF Active, Sound, Framed, IsShow
  <2> HIDE DEF s, v, c, r
  <2>4. /\ DOMAIN F = DOMAIN w.shows /\ s \in DOMAIN F /\ Main \in DOMAIN F
        /\ \A x \in DOMAIN F : IsShow(F[x]) /\ F[x].active = w.shows[x].active
    BY <2>1, <2>3 DEF Active, Sound, Framed
  <2> HIDE DEF F
  <2>5. Framed(u) /\ u.outputs = w.outputs /\ u.out = w.out /\ u.video = w.video /\ u.shows = F
    BY <2>4, ShowsReplaced DEF Sound
  <2> HIDE DEF u
  <2>6. \A x : Active(u, x) <=> Active(w, x)
    BY <2>4, <2>5 DEF Active
  <2>7. Sound(u)
    BY <2>5, <2>6 DEF Sound, Refers
  <2>8. Sound(Control(v, c, what)) /\ Control(v, c, what).outputs = w.outputs
    BY <2>2, ControlSound
  <2>9. Sound(Control(u, s, what)) /\ Control(u, s, what).outputs = w.outputs
    BY <2>4, <2>5, <2>7, ControlSound
  <2>10. QED
    BY <1>1, <1>4, <2>8, <2>9
<1>5. QED
  BY <1>3, <1>4

-----------------------------------------------------------------------------
(* Slideshows and engines are stopped on request.                          *)
LEMMA UnseenGoes ==
    ASSUME NEW w, Sound(w), NEW spec
    PROVE  LET t == Unseen(w, spec)
           IN  Goes(t, w, None) /\ \A o \in Targets(w, spec) : t.out[o].slides \in {None, None}
<1> DEFINE F == [o \in Outputs |-> IF o \in Targets(w, spec)
                                   THEN [w.out[o] EXCEPT !.slides = None] ELSE w.out[o]]
           t == [w EXCEPT !.out = F]
<1>1. Unseen(w, spec) = t
  BY DEF Unseen
<1>2. /\ DOMAIN F = Outputs
      /\ \A o \in Outputs : /\ IsNode(F[o]) /\ F[o].video = w.out[o].video
                            /\ F[o].slides = IF o \in Targets(w, spec) THEN None
                                             ELSE w.out[o].slides
  BY DEF Sound, Framed, IsNode
<1> HIDE DEF F
<1>3. Framed(t) /\ t.outputs = w.outputs /\ t.video = w.video /\ t.shows = w.shows /\ t.out = F
  BY <1>2, EntriesReplaced DEF Sound
<1> HIDE DEF t
<1>4. Milder(t, w)
  BY <1>2, <1>3 DEF Milder
<1>5. Targets(w, spec) \subseteq Outputs
  BY Listed DEF Targets, Sound
<1>6. QED
  BY <1>1, <1>2, <1>3, <1>4, <1>5, MilderGoes

(* The slideshows of a list that no output shows are freed, the others are  *)
(* trimmed to the outputs that show them.                                   *)
LEMMA SeenEndedSound ==
    ASSUME NEW w, Sound(w), NEW seen, None \notin seen
    PROVE  LET t == SeenEnded(w, seen)
           IN  Sound(t) /\ t.outputs = w.outputs
<1> DEFINE over == Over(w, seen)
           x == IF Main \in over THEN StopShow(w, Main) ELSE w
           r(s) == [x.shows[s] EXCEPT !.targets = Showing(x, s)]
           F == [s \in DOMAIN x.shows \ (over \ {Main}) |->
                    IF s \in seen \ over THEN r(s) ELSE x.shows[s]]
           t == [x EXCEPT !.shows = F]
<1>1. SeenEnded(w, seen) = t
  BY DEF SeenEnded, ShowsEnded, Trimmed
<1>2. \A s \in over, o \in Outputs : w.out[o].slides # s
  BY DEF Sound, Refers, Over, Showing
<1> HIDE DEF over
<1>3. Goes(x, w, None)
  BY <1>2, StopShowGoes, Stays
<1>4. Sound(x) /\ x.outputs = w.outputs
  BY <1>3 DEF Goes
<1>5. \A s \in over, o \in Outputs : s # None => x.out[o].slides # s
  BY <1>2, <1>3 DEF Goes
<1> HIDE DEF x
<1>6. ASSUME NEW s \in DOMAIN x.shows
      PROVE  IsShow(r(s)) /\ r(s).active = x.shows[s].active
  BY <1>4 DEF Sound, Framed, IsShow
<1> HIDE DEF r
<1>7. /\ DOMAIN F = DOMAIN x.shows \ (over \ {Main}) /\ Main \in DOMAIN F
      /\ \A s \in DOMAIN F : IsShow(F[s]) /\ F[s].active = x.shows[s].active
  BY <1>4, <1>6 DEF Sound, Framed
<1> HIDE DEF F
<1>8. Framed(t) /\ t.outputs = x.outputs /\ t.out = x.out /\ t.video = x.video /\ t.shows = F
  BY <1>4, <1>7, ShowsReplaced DEF Sound
<1> HIDE DEF t
<1>9. ASSUME NEW o \in Outputs, t.out[o].slides # None
      PROVE  Active(t, t.out[o].slides)
  <2>1. Active(x, x.out[o].slides) /\ x.out[o].slides \notin over
    BY <1>4, <1>5, <1>8, <1>9 DEF Sound, Refers
  <2>2. QED
    BY <1>7, <1>8, <2>1 DEF Active
<1>10. Refers(t)
  BY <1>4, <1>8, <1>9 DEF Sound, Refers
<1>11. QED
  BY <1>1, <1>4, <1>8, <1>10 DEF Sound

LEMMA StopShowsSound ==
    ASSUME NEW w, Sound(w), NEW spec
    PROVE  LET t == StopShows(w, spec)
           IN  Sound(t) /\ t.outputs = w.outputs
<1> DEFINE v == Unseen(w, spec)
           u == IF spec = {} THEN StopShow(v, Main) ELSE v
           seen == SeenOn(w, spec)
           t == SeenEnded(u, seen)
<1>1. StopShows(w, spec) = t
  BY DEF StopShows
<1>2. Goes(v, w, None) /\ \A o \in Targets(w, spec) : v.out[o].slides \in {None, None}
  BY UnseenGoes
<1>3. None \notin seen
  BY DEF SeenOn
<1> HIDE DEF v, seen
<1>4. Sound(v) /\ v.outputs = w.outputs
  BY <1>2 DEF Goes
<1>5. Goes(u, v, None)
  <2>1. CASE spec = {}
    <3>1. \A o \in Outputs : v.out[o].slides \in {None, None}
      BY <1>2, <2>1, AllReleased
    <3>2. \A o \in Outputs : v.out[o].slides # Main
      BY <3>1 DEF Main, None
    <3>3. Goes(StopShow(v, Main), v, None)
      BY <1>4, <3>2, StopShowGoes
    <3>4. QED
      BY <2>1, <3>3
  <2>2. CASE spec # {}
    BY <1>4, <2>2, Stays
  <2>3. QED
    BY <2>1, <2>2
<1> HIDE DEF u
<1>6. Sound(u) /\ u.outputs = v.outputs
  BY <1>5 DEF Goes
<1>7. Sound(t) /\ t.outputs = u.outputs
  BY <1>3, <1>6, SeenEndedSound
<1> HIDE DEF t
<1>8. QED
  BY <1>1, <1>4, <1>6, <1>7

LEMMA ClearedSound ==
    ASSUME NEW w, Sound(w), NEW spec
    PROVE  LET t == Cleared(w, spec)
           IN  Sound(t) /\ t.outputs = w.outputs
<1> DEFINE c == Shown(StopAllOn(w, spec, {}, None), spec, "still")
           v == StopVideo(c, Main)
           u == StopShow(v, Main)
<1>1. Cleared(w, spec) = IF spec = {} THEN u ELSE c
  BY DEF Cleared, AllCleared
<1>2. Goes(c, w, None) /\ \A o \in Targets(w, spec) : c.out[o].slides \in {None, None}
  BY StoppedShownGoes
<1> HIDE DEF c
<1>3. Sound(c) /\ c.outputs = w.outputs
  BY <1>2 DEF Goes
<1>4. Goes(v, c, None)
  BY <1>3, StopVideoGoes
<1>5. Sound(v) /\ v.outputs = c.outputs
  BY <1>4 DEF Goes
<1>6. ASSUME spec = {}
      PROVE  Goes(u, v, None)
  <2>1. \A o \in Outputs : c.out[o].slides \in {None, None}
    BY <1>2, <1>6, AllReleased
  <2>2. \A o \in Outputs : v.out[o].slides # Main
    BY <1>4, <2>1 DEF Goes, Main, None
  <2> HIDE DEF v
  <2>3. QED
    BY <1>5, <2>2, StopShowGoes
<1> HIDE DEF u, v
<1>7. QED
  BY <1>1, <1>3, <1>5, <1>6 DEF Goes

-----------------------------------------------------------------------------
(* Outputs that come and go.                                               *)
LEMMA RestoreSound ==
    ASSUME NEW w, Sound(w), ~Full(w.shows), NEW o, NEW what \in Restored
    PROVE  LET t == Restore(w, o, what)
           IN  Sound(t) /\ t.outputs = w.outputs
<1>1. what \in Rules \cup Files /\ Rules \cap Files = {}
  BY OutputEnginesAssumption
<1>2. Restore(w, o, what) = IF what = "nothing" THEN w
                            ELSE IF what = "still" THEN Image(w, {o}, "still")
                            ELSE IF what = "shader" THEN Shader(w, {o}, TRUE, None)
                            ELSE IF what = "slideshow" THEN Slideshow(w, {o}, "still")
                            ELSE Video(w, {o}, what, FALSE, None)
  BY <1>1 DEF Restore, Rules
<1>3. Sound(Image(w, {o}, "still")) /\ Image(w, {o}, "still").outputs = w.outputs
  BY ImageSound
<1>4. Goes(Shader(w, {o}, TRUE, None), w, None)
  BY ShaderGoes
<1>5. Goes(Video(w, {o}, what, FALSE, None), w, None)
  BY VideoGoes
<1>6. Sound(Slideshow(w, {o}, "still")) /\ Slideshow(w, {o}, "still").outputs = w.outputs
  BY SlideshowSound DEF Media
<1>7. QED
  BY <1>2, <1>3, <1>4, <1>5, <1>6 DEF Goes

LEMMA RemovedSound ==
    ASSUME NEW w, Sound(w), NEW o \in Members(w.outputs)
    PROVE  Sound(Removed(w, o))
<1> DEFINE v == w.out[o].video
           s == w.out[o].slides
           forgot == [e \in DOMAIN w.video |->
                         IF e \in {Main, v} /\ w.video[e].target = o
                         THEN [w.video[e] EXCEPT !.target = None] ELSE w.video[e]]
           left == Compact(w.outputs, {o})
           F == [w.out EXCEPT ![o] = NoEngines]
           V == IF v \notin {Main, None} /\ Watching(w, v) = {o} THEN Without(forgot, v) ELSE forgot
           S == IF s \notin {Main, None} /\ Showing(w, s) = {o} THEN Without(w.shows, s)
                ELSE w.shows
           t == Removed(w, o)
<1>1. t = [outputs |-> left, out |-> F, video |-> V, shows |-> S,
           shown |-> [w.shown EXCEPT ![o] = "nothing"]]
  BY DEF Removed
<1>2. o \in Outputs
  BY Listed DEF Sound
<1>3. left \in Seq(Outputs) /\ Members(left) = Members(w.outputs) \ {o}
  <2> DEFINE q == w.outputs
             leaving == {o}
             c == Compact(q, leaving)
  <2>1. q \in Seq(Outputs)
    BY DEF Sound, Framed
  <2> HIDE DEF q, leaving
  <2>2. c \in Seq(Outputs) /\ {c[i] : i \in DOMAIN c} = {q[i] : i \in DOMAIN q} \ leaving
    BY <2>1, CompactRange
  <2>3. QED
    BY <2>2 DEF Members, q, leaving
<1>4. /\ DOMAIN F = Outputs /\ F[o] = NoEngines
      /\ \A x \in Outputs \ {o} : F[x] = w.out[x]
  BY <1>2 DEF Sound, Framed
<1>5. IsNode(NoEngines) /\ NoEngines.video = None /\ NoEngines.slides = None
  BY DEF IsNode, NoEngines
<1>6. /\ Main \in DOMAIN V
      /\ \A x \in Outputs \ {o} :
            w.out[x].video # None => w.out[x].video \in DOMAIN V
  <2>1. DOMAIN forgot = DOMAIN w.video
    OBVIOUS
  <2> HIDE DEF forgot
  <2>2. QED
    BY <1>2, <2>1 DEF Sound, Framed, Refers, Without, Watching
<1>7. /\ Main \in DOMAIN S
      /\ \A x \in DOMAIN S : x \in DOMAIN w.shows /\ S[x] = w.shows[x]
      /\ \A x \in Outputs \ {o} :
            w.out[x].slides # None => w.out[x].slides \in DOMAIN S
  BY <1>2 DEF Sound, Framed, Refers, Active, Without, Showing
<1> HIDE DEF left, F, V, S, t
<1>8. /\ DOMAIN t = {"outputs", "out", "video", "shows", "shown"}
      /\ t.outputs = left /\ t.out = F /\ t.video = V /\ t.shows = S
  BY <1>1
<1>9. Framed(t)
  BY <1>3, <1>4, <1>5, <1>6, <1>7, <1>8 DEF Sound, Framed
<1>10. ASSUME NEW x \in Outputs
       PROVE  /\ t.out[x].video # None => t.out[x].video \in DOMAIN t.video /\ x \in Members(t.outputs)
              /\ t.out[x].slides # None => Active(t, t.out[x].slides) /\ x \in Members(t.outputs)
  <2>1. CASE x = o
    BY <1>4, <1>5, <1>8, <2>1
  <2>2. CASE x # o
    BY <1>3, <1>4, <1>6, <1>7, <1>8, <2>2 DEF Sound, Refers, Active
  <2>3. QED
    BY <2>1, <2>2
<1>11. QED
  BY <1>9, <1>10 DEF Sound, Refers, t

-----------------------------------------------------------------------------
(* The invariant.                                                          *)
EnginesInv == Sound(World)

LEMMA EnginesInit == Init => EnginesInv
<1> SUFFICES ASSUME Init
             PROVE  Sound(World)
  BY DEF EnginesInv
<1>1. /\ DOMAIN World = {"outputs", "out", "video", "shows", "shown"}
      /\ World.outputs = outputs /\ World.out = out /\ World.video = video /\ World.shows = shows
  BY DEF World
<1>2. outputs \in Seq(Outputs)
  BY OutputEnginesAssumption DEF Init
<1>3. IsNode(NoEngines) /\ NoEngines.video = None /\ NoEngines.slides = None /\ IsShow(IdleShow)
  BY DEF IsNode, NoEngines, IsShow, IdleShow
<1>4. /\ DOMAIN out = Outputs /\ \A o \in Outputs : out[o] = NoEngines
      /\ DOMAIN video = {Main} /\ DOMAIN shows = {Main} /\ shows[Main] = IdleShow
  BY DEF Init
<1>5. QED
  BY <1>1, <1>2, <1>3, <1>4 DEF Sound, Framed, Refers

(* What a step makes of the world is what the variables then say. *)
LEMMA DoneSound ==
    ASSUME NEW t, Sound(t), Do(t)
    PROVE  EnginesInv'
<1>1. /\ (DOMAIN World)' = {"outputs", "out", "video", "shows", "shown"}
      /\ World'.outputs = t.outputs /\ World'.out = t.out /\ World'.video = t.video
      /\ World'.shows = t.shows
  BY DEF World, Do
<1> DEFINE u == World'
<1>2. DOMAIN u = {"outputs", "out", "video", "shows", "shown"}
  BY <1>1
<1>3. u.outputs = t.outputs /\ u.out = t.out /\ u.video = t.video /\ u.shows = t.shows
  BY <1>1
<1> HIDE DEF u
<1>4. Sound(u)
  BY <1>2, <1>3 DEF Sound, Framed, Refers, Active
<1>5. QED
  BY <1>4 DEF EnginesInv, u

LEMMA EnginesStep == EnginesInv /\ [Next]_vars => EnginesInv'
<1> SUFFICES ASSUME EnginesInv, [Next]_vars
             PROVE  EnginesInv'
  OBVIOUS
<1> DEFINE w == World
<1>1. Sound(w)
  BY DEF EnginesInv
<1>2. w.outputs = outputs /\ w.out = out /\ w.shows = shows
  BY DEF World
<1>3. \A t : Sound(t) /\ Do(t) => EnginesInv'
  BY DoneSound
<1>4. \A t : Goes(t, w, None) /\ Do(t) => EnginesInv'
  BY <1>3 DEF Goes
<1> HIDE DEF w
<1>5. CASE ShowImage
  BY <1>1, <1>3, <1>5, ImageSound DEF ShowImage, w
<1>6. CASE ShowShader
  BY <1>1, <1>4, <1>6, ShaderGoes DEF ShowShader, w
<1>7. CASE ShowWorkshop
  BY <1>1, <1>4, <1>7, WorkshopGoes DEF ShowWorkshop, w
<1>8. CASE PlayVideo
  BY <1>1, <1>4, <1>8, VideoGoes DEF PlayVideo, w
<1>9. CASE Clear
  BY <1>1, <1>3, <1>9, ClearedSound DEF Clear, w
<1>10. CASE StartSlideshow
  <2>1. PICK spec \in ShowSpecs, item \in Items \cup {"none"} : Do(Slideshow(w, spec, item))
    BY <1>10 DEF StartSlideshow, w
  <2>2. item \in Media \cup Files \cup {"none"}
    BY OutputEnginesAssumption
  <2>3. ~Full(w.shows)
    BY <1>2, <1>10 DEF StartSlideshow, Room
  <2>4. Sound(Slideshow(w, spec, item))
    BY <1>1, <2>2, <2>3, SlideshowSound
  <2>5. QED
    BY <1>3, <2>1, <2>4
<1>11. CASE StopSlideshow
  BY <1>1, <1>3, <1>11, StopShowsSound DEF StopSlideshow, w
<1>12. CASE ControlSlideshows
  BY <1>1, <1>3, <1>12, ControlAllSound DEF ControlSlideshows, w
<1>13. ASSUME NEW o \in Members(outputs), ControlSlideshow(o)
       PROVE  EnginesInv'
  BY <1>1, <1>2, <1>3, <1>13, ControlOneSound DEF ControlSlideshow, w
<1>14. ASSUME NEW o \in Members(outputs), Unplug(o)
       PROVE  EnginesInv'
  BY <1>1, <1>2, <1>3, <1>14, RemovedSound DEF Unplug, w
<1>15. ASSUME NEW o \in Outputs, Plug(o)
       PROVE  EnginesInv'
  <2> DEFINE more == <<o>> \o outputs
             v == [w EXCEPT !.outputs = more]
  <2>1. PICK what \in Restored : Do(Restore(v, o, what))
    <3>1. v = [World EXCEPT !.outputs = <<o>> \o @]
      BY <1>2 DEF w
    <3> HIDE DEF v
    <3>2. QED
      BY <1>15, <3>1 DEF Plug
  <2>2. outputs \in Seq(Outputs)
    BY <1>1, <1>2 DEF Sound, Framed
  <2>3. more \in Seq(Outputs)
    BY <2>2
  <2>4. Members(outputs) \subseteq Members(more)
    <3> SUFFICES ASSUME NEW i \in DOMAIN outputs
                 PROVE  outputs[i] \in Members(more)
      BY DEF Members
    <3>1. i + 1 \in DOMAIN more /\ more[i + 1] = outputs[i]
      BY <2>2
    <3>2. QED
      BY <3>1 DEF Members
  <2> HIDE DEF more
  <2>5. /\ DOMAIN v = {"outputs", "out", "video", "shows", "shown"} /\ v.outputs = more
        /\ v.out = w.out /\ v.video = w.video /\ v.shows = w.shows
    BY <1>1 DEF Sound, Framed
  <2> HIDE DEF v
  <2>6. Framed(v)
    BY <1>1, <2>3, <2>5 DEF Sound, Framed
  <2>7. Refers(v)
    BY <1>1, <1>2, <2>4, <2>5 DEF Sound, Refers, Active
  <2>8. ~Full(v.shows)
    BY <1>2, <1>15, <2>5 DEF Plug
  <2>9. Sound(Restore(v, o, what))
    BY <2>6, <2>7, <2>8, RestoreSound DEF Sound
  <2>10. QED
    BY <1>3, <2>1, <2>9
<1>16. ASSUME NEW s \in Engines, Tick(s)
       PROVE  EnginesInv'
  <2>1. PICK item \in Items : Do(Display(w, s, item))
    BY <1>16 DEF Tick, w
  <2>2. item \in Media \cup Files
    BY OutputEnginesAssumption
  <2>3. Active(w, s)
    BY <1>2, <1>16 DEF Tick, Active
  <2>4. Sound(Display(w, s, item))
    BY <1>1, <2>2, <2>3, DisplaySound
  <2>5. QED
    BY <1>3, <2>1, <2>4
<1>17. CASE UNCHANGED vars
  BY <1>17 DEF EnginesInv, vars, World, Sound, Framed, Refers, Active
<1>18. QED
  BY <1>5, <1>6, <1>7, <1>8, <1>9, <1>10, <1>11, <1>12, <1>13, <1>14, <1>15, <1>16, <1>17
     DEF Next

(* An output never refers to a video engine or a slideshow that was freed,  *)
(* nor to a slideshow that was stopped (main.c:458, 505), however videos    *)
(* and slideshows are shared, and whatever is requested, plugged in and     *)
(* unplugged.                                                               *)
THEOREM EnginesOutlastTheirOutputs == Spec => []NoFreedEngine
<1>1. EnginesInv => NoFreedEngine
  BY DEF EnginesInv, Sound, Refers, NoFreedEngine, World
<1>2. QED
  BY <1>1, EnginesInit, EnginesStep, PTL DEF Spec
=============================================================================
