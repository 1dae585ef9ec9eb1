------------------------------ MODULE CpuEffects ------------------------------
(***************************************************************************)
(* The effects of the transitions as the processor draws them. For every    *)
(* row the code works out between which columns an effect has its seam,     *)
(* copies what lies outside from the old or the new picture, and computes   *)
(* the seam some columns at a time and the rest one by one. Measures are    *)
(* integers, and a pixel is where it is taken from; how colours are mixed   *)
(* is left out.                                                             *)
(***************************************************************************)
EXTENDS Integers, Sequences, FiniteSets

CONSTANTS
    W,        \* the columns of a row, 0 .. W - 1
    Lanes,    \* how many columns are computed at a time
    Frames    \* the effects that are drawn: records with the effect's geometry

VARIABLE fx
effectVars == <<fx>>

Columns == 0 .. W - 1
\* A picture gives each column a pixel.
Old == [x \in Columns |-> <<"old", x>>]
New == [x \in Columns |-> <<"new", x>>]
Mixed == [x \in Columns |-> <<"mix", x>>]
Blank == [x \in Columns |-> <<"unwritten", x>>]

Lesser(a, b) == IF a < b THEN a ELSE b
Greater(a, b) == IF a > b THEN a ELSE b
Clamped(v, lo, hi) == Lesser(Greater(v, lo), hi)
Floor(n, d) == IF d < 0 THEN (-n) \div (-d) ELSE n \div d

\* Seeded fault: the column after the seam's end is not counted.
SpanCeilShort(v) == Clamped(v, 0, W)

\* Spans: the columns from `SpanFloor' up to before `SpanCeil'.
SpanFloor(v) == Clamped(v, 0, W)
SpanCeil(v) == Clamped(v + 1, 0, W)

\* Writes columns a .. b - 1, the same pixel in the loop of several at a time and in
\* the loop for the rest.
Run(row, a, b, pix) == [x \in Columns |-> IF a <= x /\ x < b THEN pix[x] ELSE row[x]]
InLanes(row, a, b, pix) ==
    LET whole == a + (Greater(b - a, 0) \div Lanes) * Lanes
    IN  Run(Run(row, a, whole, pix), whole, b, pix)

-----------------------------------------------------------------------------
(* Effects with a straight front: wipe, wave and slide. g.base + x * g.d is where a  *)
(* column lies, g.p where the front is, g.margin how far from it the seam may be.    *)

Place(g, x) == g.base + x * g.d + g.sway[x]

Front(g, x, old, new) ==
    IF Place(g, x) >= g.p + g.edge THEN old[x]
    ELSE IF Place(g, x) <= g.p - g.edge THEN new[x]
    ELSE Mixed[x]

Band(g, old, new) ==
    LET last == g.base + W * g.d
        near == g.p - g.margin
        far == g.p + g.margin
        x1 == Floor(near - g.base, g.d)
        x2 == Floor(far - g.base, g.d)
        left == IF g.d = 0 THEN 0 ELSE Lesser(SpanFloor(Lesser(x1, x2)), SpanCeil(Greater(x1, x2)))
        right == IF g.d = 0 THEN W ELSE SpanCeil(Greater(x1, x2))
        before == IF g.d >= 0 THEN new ELSE old
        after == IF g.d >= 0 THEN old ELSE new
        seam == [x \in Columns |-> Front(g, x, old, new)]
    IN  IF Lesser(g.base, last) >= far THEN Run(Blank, 0, W, old)
        ELSE IF Greater(g.base, last) <= near THEN Run(Blank, 0, W, new)
        ELSE Run(InLanes(Run(Blank, 0, left, before), left, right, seam), right, W, after)

Wipe(g) == Band(g, Old, New)
Wave(g) == Band(g, Old, New)

\* copy_shifted_span: the first pixel, the row's own, the last pixel, each as far as
\* it goes.
Shifted(shift, picture) ==
    [x \in Columns |->
        IF x < -shift THEN picture[0]
        ELSE IF x < W - shift THEN picture[x + shift] ELSE picture[W - 1]]

Slide(g) == Band(g, Shifted(g.shiftOld, Old), Shifted(g.shiftNew, New))

(* Effects with a round front: grow, outer and ripple. g.cx is the centre's column,  *)
(* g.dy2 the square of the row's distance from it.                                   *)

Root(n) == CHOOSE r \in 0 .. n : r * r <= n /\ (r + 1) * (r + 1) > n
RootUp(n) == IF Root(n) * Root(n) = n THEN Root(n) ELSE Root(n) + 1
Squared(r) == IF r > 0 THEN r * r ELSE 0
Away2(g, x) == (x - g.cx) * (x - g.cx) + g.dy2

Round(g, inside, outside) ==
    LET out2 == Squared(g.r + g.edge)
        in2 == Squared(g.r - g.edge)
        outLeft == Lesser(SpanFloor(g.cx - RootUp(out2 - g.dy2)), SpanCeil(g.cx + Root(out2 - g.dy2)))
        outRight == SpanCeil(g.cx + Root(out2 - g.dy2))
        hole == g.r > g.edge /\ g.dy2 < in2
        right == Lesser(SpanFloor(g.cx + Root(in2 - g.dy2)), outRight)
        left == Lesser(Greater(SpanCeil(g.cx - RootUp(in2 - g.dy2)), outLeft), right)
        inLeft == IF hole THEN left ELSE outLeft
        inRight == IF hole THEN right ELSE outLeft
        seam == [x \in Columns |->
                    IF Away2(g, x) >= out2 THEN outside[x]
                    ELSE IF Away2(g, x) <= in2 /\ g.r > g.edge THEN inside[x] ELSE Mixed[x]]
        ring == InLanes(Run(Blank, 0, outLeft, outside), outLeft, inLeft, seam)
    IN  IF g.r + g.edge <= 0 \/ g.dy2 >= out2 THEN Run(Blank, 0, W, outside)
        ELSE Run(InLanes(Run(ring, inLeft, inRight, inside), inRight, outRight, seam),
                 outRight, W, outside)

Grow(g) == Round(g, New, Old)
Outer(g) == Round(g, Old, New)
Ripple(g) == Round(g, New, Old)

(* Effects of blocks and columns. *)

\* Every column of the block is like the pixel in its middle.
Pixelate(g) ==
    [x \in Columns |-> LET first == (x \div g.size) * g.size
                           wide == Lesser(g.size, W - first)
                       IN  Mixed[Lesser(first + wide \div 2, W - 1)]]

\* Below what has come down a column shows the old picture, moved.
Doom(g) == [x \in Columns |-> IF g.y < g.fall[x \div g.size] THEN <<"new", g.y>>
                              ELSE <<"old", g.y - g.fall[x \div g.size]>>]

\* Blocks whose colours are taken from beside.
GlitchBlock(g, row, first, end) ==
    IF g.jitter = 0 THEN Run(row, first, end, Mixed)
    ELSE InLanes(row, first, end, [x \in Columns |-> Mixed[Clamped(x + g.jitter, 0, W - 1)]])

Glitch(g) ==
    LET blocks == (W + g.size - 1) \div g.size
        upTo[b \in 0 .. blocks] ==
            IF b = 0 THEN Blank
            ELSE GlitchBlock(g, upTo[b - 1], (b - 1) * g.size, Lesser(b * g.size, W))
    IN  upTo[blocks]

(* Effects of a whole row, by a grain g.grain[x] of each column. *)

Threshold(g, x) ==
    IF g.grain[x] >= g.p + g.edge THEN Old[x] ELSE IF g.grain[x] <= g.p - g.edge THEN New[x] ELSE Mixed[x]

\* Columns computed together are copied together where they can be.
Together(g, x) ==
    LET group == {(x \div Lanes) * Lanes + i : i \in 0 .. Lanes - 1}
    IN  IF \A y \in group : g.grain[y] >= g.p + g.edge THEN Old[x]
        ELSE IF \A y \in group : g.grain[y] <= g.p - g.edge THEN New[x]
        ELSE Threshold(g, x)

Grained(g) ==
    LET whole == (W \div Lanes) * Lanes
        together == [x \in Columns |-> IF x < whole THEN Together(g, x) ELSE Blank[x]]
        alone == [x \in Columns |-> Threshold(g, x)]
    IN  Run(Run(Blank, 0, whole, together), whole, W, alone)

Noise(g) == Grained(g)
Burn(g) == Grained(g)
Luma(g) == Grained(g)

\* The pictures move apart around a centre.
CrossZoom(g) == [x \in Columns |-> Mixed[Clamped(g.cx + (x - g.cx) * g.zoom, 0, W - 1)]]

\* What is before the fold, on the fold, in its shadow, and behind it.
PageCurl(g) ==
    [x \in Columns |->
        IF x < g.p THEN Old[x]
        ELSE IF x < g.p + g.edge THEN Mixed[Clamped(x - g.curl, 0, W - 1)]
        ELSE IF x < g.p + 2 * g.edge THEN <<"shadow", x>> ELSE New[x]]

\* Turned or lit in the span about a centre, and mixed as they are elsewhere.
Spanned(g, inside) ==
    LET right == SpanCeil(g.cx + g.reach)
        left == Lesser(SpanFloor(g.cx - g.reach), right)
        near == [x \in Columns |->
                    IF (x - g.cx) * (x - g.cx) < g.reach * g.reach THEN inside[x] ELSE Mixed[x]]
    IN  Run(InLanes(Run(Blank, 0, left, Mixed), left, right, near), right, W, Mixed)

Swirl(g) == Spanned(g, [x \in Columns |-> Mixed[Clamped(2 * g.cx - x, 0, W - 1)]])
LightLeak(g) == Spanned(g, [x \in Columns |-> <<"lit", x>>])

\* Two faces of a cube; how far up and down a face reaches falls off from the edge
\* they share, and where it ends is searched for by halves.
Halve(lo, hi, above) ==
    LET go[l \in 0 .. W, h \in 0 .. W] ==
            LET mid == (l + h) \div 2
            IN  IF l >= h THEN l ELSE IF above[mid] THEN go[mid + 1, h] ELSE go[l, mid]
    IN  go[lo, hi]

Cube(g) ==
    LET fits == [x \in Columns |-> g.depth[x] <= g.height]
        frontFrom ==
            IF g.front[1] >= g.front[2] \/ ~fits[g.front[2] - 1] THEN g.front[2]
            ELSE IF fits[g.front[1]] THEN g.front[1]
            ELSE Halve(g.front[1], g.front[2] - 1, [x \in Columns |-> ~fits[x]])
        rightTo ==
            IF g.right[1] >= g.right[2] \/ ~fits[g.right[1]] THEN g.right[1]
            ELSE IF fits[g.right[2] - 1] THEN g.right[2]
            ELSE Halve(g.right[1], g.right[2], fits)
        back == [x \in Columns |-> <<"back", x>>]
        cursor == IF frontFrom < g.front[2] THEN g.front[2] ELSE 0
        withFront == IF frontFrom < g.front[2]
                     THEN InLanes(Run(Blank, 0, frontFrom, back), frontFrom, g.front[2], Old)
                     ELSE Blank
        withRight == IF g.right[1] < rightTo
                     THEN InLanes(Run(withFront, cursor, g.right[1], back), g.right[1], rightTo, New)
                     ELSE withFront
    IN  Run(withRight, IF g.right[1] < rightTo THEN rightTo ELSE cursor, W, back)

-----------------------------------------------------------------------------
Effect(g) ==
    CASE g.type = "fade" -> Run(Blank, 0, W, Mixed)
      [] g.type = "wipe" -> Wipe(g) [] g.type = "wave" -> Wave(g) [] g.type = "slide" -> Slide(g)
      [] g.type = "grow" -> Grow(g) [] g.type = "outer" -> Outer(g) [] g.type = "ripple" -> Ripple(g)
      [] g.type = "pixelate" -> Pixelate(g) [] g.type = "doom" -> Doom(g)
      [] g.type = "glitch" -> Glitch(g) [] g.type = "crosszoom" -> CrossZoom(g)
      [] g.type = "noise" -> Noise(g) [] g.type = "burn" -> Burn(g) [] g.type = "luma" -> Luma(g)
      [] g.type = "curl" -> PageCurl(g) [] g.type = "swirl" -> Swirl(g)
      [] g.type = "leak" -> LightLeak(g) [] g.type = "cube" -> Cube(g)

\* A row over a transition: the old picture before it has got anywhere, then what
\* the effect makes of both, the new picture in the end; nothing is drawn if there is
\* no memory for the effect's tables.
Rest == [g |-> [type |-> "fade"], at |-> "rest", row |-> Run(Blank, 0, W, Old)]

EffectInit == fx = Rest

Begin == fx.at = "rest" /\ \E g \in Frames : fx' = [Rest EXCEPT !.g = g, !.at = "begun"]

DrawRow == fx.at = "begun" /\ fx' = [fx EXCEPT !.at = "drawn", !.row = Effect(fx.g)]

NoMemory ==
    /\ fx.at = "begun" /\ fx.g.type \in {"noise", "burn", "luma", "crosszoom", "glitch", "doom", "cube"}
    /\ fx' = [fx EXCEPT !.at = "failed", !.row = Blank]

Finish == fx.at \in {"drawn", "failed"} /\ fx' = Rest

EffectNext == Begin \/ DrawRow \/ NoMemory \/ Finish

EffectSpec == EffectInit /\ [][EffectNext]_effectVars

-----------------------------------------------------------------------------
\* What each effect shows in a column, whatever its neighbours show.
Meant(g, x) ==
    CASE g.type \in {"wipe", "wave"} -> Front(g, x, Old, New)
      [] g.type = "slide" -> Front(g, x, [y \in Columns |-> Old[Clamped(y + g.shiftOld, 0, W - 1)]],
                                         [y \in Columns |-> New[Clamped(y + g.shiftNew, 0, W - 1)]])
      [] g.type \in {"grow", "outer", "ripple"} ->
            LET inside == IF g.type = "outer" THEN Old[x] ELSE New[x]
                outside == IF g.type = "outer" THEN New[x] ELSE Old[x]
            IN  IF g.r <= -g.edge \/ Away2(g, x) >= (g.r + g.edge) * (g.r + g.edge) THEN outside
                ELSE IF g.r > g.edge /\ Away2(g, x) <= (g.r - g.edge) * (g.r - g.edge) THEN inside
                ELSE Mixed[x]
      [] g.type \in {"noise", "burn", "luma"} -> Threshold(g, x)
      [] g.type = "glitch" -> Mixed[Clamped(x + g.jitter, 0, W - 1)]
      [] g.type = "swirl" ->
            IF (x - g.cx) * (x - g.cx) < g.reach * g.reach THEN Mixed[Clamped(2 * g.cx - x, 0, W - 1)]
            ELSE Mixed[x]
      [] g.type = "leak" ->
            IF (x - g.cx) * (x - g.cx) < g.reach * g.reach THEN <<"lit", x>> ELSE Mixed[x]
      [] g.type = "cube" ->
            IF x >= g.front[1] /\ x < g.front[2] /\ g.depth[x] <= g.height THEN Old[x]
            ELSE IF x >= g.right[1] /\ x < g.right[2] /\ g.depth[x] <= g.height THEN New[x]
            ELSE <<"back", x>>
      [] OTHER -> fx.row[x]

\* A row drawn in spans, lanes and blocks is the row the effect means: what is copied
\* without being computed is what would have been computed, wherever the front
\* crosses the row or misses it and whichever way it runs, and no column is left out.
RowsAsMeant ==
    fx.at = "drawn" =>
       \A x \in Columns : fx.row[x] = Meant(fx.g, x) /\ fx.row[x][1] # "unwritten"
=============================================================================
