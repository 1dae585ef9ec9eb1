--------------------------- MODULE WallpapersProofs ---------------------------
(***************************************************************************)
(* Proofs about what the outputs show: that a transition always ends in    *)
(* the wallpaper asked for last (Transitions), and that the sun keeps its  *)
(* hours and paints over nothing that was chosen (WallpaperOwner).  Each   *)
(* specification is proved on its own, for any number of outputs, requests *)
(* and rules.                                                              *)
(***************************************************************************)
EXTENDS MCWallpapers, Compaction

(***************************************************************************)
(* Transitions.                                                            *)
(*                                                                         *)
(* While a transition is on, its output is there, it leads to what was     *)
(* asked for last, it has frames left, and the timer runs: so whatever     *)
(* ends it other than a change of size leaves that wallpaper behind.       *)
(***************************************************************************)
Moves == [on : BOOLEAN, delay : 0..MaxDelay, left : 0..Frames, to : 0..MaxWanted]

(* Every transition of t is of an output in `there' and leads where `to' says. *)
Underway(t, there, to) ==
    \A o \in Panels : t[o].on => o \in there /\ t[o].left >= 1 /\ t[o].to = to[o]

(* The outputs that are there and at rest show what `to' says. *)
AtRest(t, there, to, on) == \A o \in there : ~t[o].on => on[o] = to[o]

(* A moving output has the timer. *)
Timed == \A o \in Panels : trans[o].on => timer # "off" /\ going

TransInv ==
    /\ TransTypeOK /\ Timed
    /\ Underway(trans, ready, asked)
    /\ AtRest(trans, ready \ (stale \cup wiped), asked, screen)

(* The outputs of a request can take turns. *)
LEMMA Turns ==
    ASSUME NEW S, IsFiniteSet(S)
    PROVE  \E f \in [S -> 0..Cardinality(S) - 1] : \A x, y \in S : x # y => f[x] # f[y]
<1>1. PICK n \in Nat : ExistsBijection(1..n, S)
  BY FS_NatBijection
<1>2. n = Cardinality(S)
  BY <1>1, FS_CountingElements
<1>3. PICK g \in [1..n -> S] : \A x \in S : \E i \in 1..n : g[i] = x
  BY <1>1 DEF ExistsBijection, Bijection, Surjection
<1>. DEFINE at(x) == CHOOSE i \in 1..n : g[i] = x
            f == [x \in S |-> at(x) - 1]
<1>4. \A x \in S : at(x) \in 1..n /\ g[at(x)] = x
  BY <1>3
<1>. HIDE DEF at
<1>5. f \in [S -> 0..n - 1]
  BY <1>4
<1>6. \A x, y \in S : x # y => f[x] # f[y]
  BY <1>4
<1>. QED BY <1>2, <1>5, <1>6

LEMMA TypedOff == Off \in Moves /\ ~Off.on
  BY TransitionsAssumption DEF Off, Moves

(* One output's step: a transition that ends shows where it led, unless the *)
(* size has changed.                                                       *)
LEMMA FrameFacts ==
    ASSUME NEW x \in Moves, x.on => x.left >= 1, NEW o, NEW wrong, NEW drawn, NEW late
    PROVE  LET y == NextFrame(x, o, wrong, drawn, late)
           IN /\ y \in Moves
              /\ y.on => x.on /\ y.left >= 1 /\ y.to = x.to
              /\ \A before : /\ Shown(x, y, o, wrong, drawn, before) \in {before, Between, x.to}
                             /\ ~x.on => Shown(x, y, o, wrong, drawn, before) = before
                             /\ x.on /\ ~y.on /\ o \notin wrong
                                => Shown(x, y, o, wrong, drawn, before) = x.to
<1>. DEFINE left == IF o \in late /\ x.left > 1 THEN x.left - 2 ELSE x.left - 1
            y == NextFrame(x, o, wrong, drawn, late)
<1>1. CASE ~x.on
  BY <1>1 DEF NextFrame, Shown
<1>2. CASE x.on /\ x.delay > 0
  <2>1. y = [x EXCEPT !.delay = @ - 1] /\ x.delay - 1 \in 0..MaxDelay
    BY <1>2, TransitionsAssumption DEF NextFrame, Moves
  <2>2. y \in Moves /\ y.on /\ y.left = x.left /\ y.to = x.to
    BY <1>2, <2>1 DEF Moves
  <2>. HIDE DEF y
  <2>. QED BY <1>2, <2>2 DEF Shown, y
<1>3. CASE x.on /\ ~x.delay > 0 /\ o \in wrong
  BY <1>3, TypedOff DEF NextFrame, Shown
<1>4. CASE x.on /\ ~x.delay > 0 /\ o \notin wrong /\ o \notin drawn
  BY <1>4 DEF NextFrame, Shown
<1>5. CASE x.on /\ ~x.delay > 0 /\ o \notin wrong /\ o \in drawn
  <2>1. left \in 0..Frames
    BY <1>5, TransitionsAssumption DEF Moves
  <2>2. y = IF left = 0 THEN Off ELSE [x EXCEPT !.left = left]
    BY <1>5 DEF NextFrame
  <2>. HIDE DEF left
  <2>3. CASE left = 0
    <3>1. y = Off
      BY <2>2, <2>3
    <3>. HIDE DEF y
    <3>. QED BY <1>5, <3>1, TypedOff DEF Shown, y
  <2>4. CASE left # 0
    <3>1. y \in Moves /\ y.on /\ y.left >= 1 /\ y.to = x.to
      BY <1>5, <2>1, <2>2, <2>4 DEF Moves
    <3>. HIDE DEF y
    <3>. QED BY <1>5, <3>1 DEF Shown, y
  <2>. QED BY <2>3, <2>4
<1>. QED BY <1>1, <1>2, <1>3, <1>4, <1>5

(* The step of all outputs, from whatever a request has made of them. *)
LEMMA StepKeeps ==
    ASSUME TransTypeOK, NEW t \in [Panels -> Moves], NEW before \in [Panels -> 0..Between],
           NEW works, NEW late, Step(t, before, stale', works, late),
           ready' \subseteq Panels, stale' \subseteq Panels, live' \subseteq Panels,
           wiped' \subseteq Panels, asked' \in [Panels -> 0..MaxWanted],
           latest' \in 0..MaxWanted, wanted' \in 0..MaxWanted,
           Underway(t, ready', asked'),
           AtRest(t, ready' \ (stale' \cup wiped'), asked', before)
    PROVE  TransInv'
<1>. DEFINE drawn == works \cap free
            next == [o \in Panels |-> NextFrame(t[o], o, stale', drawn, late)]
            busy == \E o \in Panels : next[o].on
            on == [o \in Panels |-> Shown(t[o], next[o], o, stale', drawn, before[o])]
<1>1. /\ trans' = next /\ screen' = on /\ free' \subseteq free
      /\ going' = busy /\ timer' = IF busy THEN "armed" ELSE "off"
  BY DEF Step
<1>2. ASSUME NEW o \in Panels
      PROVE  /\ next[o] \in Moves
             /\ next[o].on => t[o].on /\ next[o].left >= 1 /\ next[o].to = t[o].to
             /\ on[o] \in {before[o], Between, t[o].to}
             /\ ~t[o].on => on[o] = before[o]
             /\ t[o].on /\ ~next[o].on /\ o \notin stale' => on[o] = t[o].to
  <2>1. t[o] \in Moves /\ (t[o].on => t[o].left >= 1)
    BY DEF Underway
  <2>. QED BY <2>1, FrameFacts
<1>3. \A o \in Panels : before[o] \in 0..Between /\ t[o].to \in 0..Between /\ Between \in 0..Between
  BY TransitionsAssumption DEF Moves, Between
<1>4. next \in [Panels -> Moves] /\ on \in [Panels -> 0..Between]
  <2>1. \A o \in Panels : next[o] \in Moves /\ on[o] \in 0..Between
    BY <1>2, <1>3
  <2>. QED BY <2>1
<1>5. busy \in BOOLEAN
  OBVIOUS
<1>. HIDE DEF next, on
<1>6. Underway(next, ready', asked')
  BY <1>2 DEF Underway
<1>7. AtRest(next, ready' \ (stale' \cup wiped'), asked', on)
  BY <1>2 DEF AtRest, Underway
<1>8. Timed'
  BY <1>1 DEF Timed
<1>9. TransTypeOK'
  BY <1>1, <1>4, <1>5 DEF TransTypeOK, Moves
<1>. QED BY <1>1, <1>6, <1>7, <1>8, <1>9 DEF TransInv

(* What any request does to who was asked for what. *)
LEMMA AskFacts ==
    ASSUME TransInv, NEW targets \in SUBSET Panels, Ask(targets)
    PROVE  /\ wanted' = wanted + 1 /\ wanted + 1 \in 0..MaxWanted /\ wanted + 1 \in 0..Between
           /\ ready' = ready /\ wiped' = wiped \ (targets \cap ready)
           /\ asked' \in [Panels -> 0..MaxWanted]
           /\ \A o \in Panels : asked'[o] = IF o \in targets \cap ready THEN wanted + 1 ELSE asked[o]
<1>1. wanted + 1 \in 0..MaxWanted
  BY TransitionsAssumption DEF Ask, TransInv, TransTypeOK
<1>2. wanted + 1 \in 0..Between
  BY <1>1, TransitionsAssumption DEF Between
<1>3. asked' = [o \in Panels |-> IF o \in targets \cap ready THEN wanted + 1 ELSE asked[o]]
  BY DEF Ask
<1>. QED BY <1>1, <1>2, <1>3 DEF Ask, TransInv, TransTypeOK

(* A request takes every target's transition, and gives it another or none; *)
(* a target without one shows the wallpaper already.                       *)
LEMMA Redirected ==
    ASSUME TransInv, NEW targets \in SUBSET Panels, Ask(targets),
           stale' = stale \ (targets \cap ready),
           NEW t, NEW before,
           \A o \in Panels \ targets : t[o] = trans[o] /\ before[o] = screen[o],
           \A o \in targets : t[o].on => o \in ready /\ t[o].left >= 1 /\ t[o].to = wanted + 1,
           \A o \in targets \cap ready : ~t[o].on => before[o] = wanted + 1
    PROVE  /\ Underway(t, ready', asked')
           /\ AtRest(t, ready' \ (stale' \cup wiped'), asked', before)
<1>1. /\ ready' = ready /\ wiped' = wiped \ (targets \cap ready)
      /\ \A o \in Panels : asked'[o] = IF o \in targets \cap ready THEN wanted + 1 ELSE asked[o]
  BY AskFacts
<1>2. ready \subseteq Panels
  BY DEF TransInv, TransTypeOK
<1>3. Underway(t, ready, asked')
  BY <1>1 DEF TransInv, Underway
<1>4. AtRest(t, ready \ (stale' \cup wiped'), asked', before)
  <2>. SUFFICES ASSUME NEW o \in ready \ (stale' \cup wiped'), ~t[o].on
                PROVE  before[o] = asked'[o]
    BY DEF AtRest
  <2>1. CASE o \in targets
    BY <1>1, <1>2, <2>1
  <2>2. CASE o \notin targets
    BY <1>1, <1>2, <2>2 DEF TransInv, AtRest
  <2>. QED BY <2>1, <2>2
<1>. QED BY <1>1, <1>3, <1>4

LEMMA ShowNowKeeps == ASSUME TransInv, NEW targets \in SUBSET Panels, ShowNow(targets) PROVE TransInv'
<1>. DEFINE t == [o \in Panels |-> IF o \in targets THEN Off ELSE trans[o]]
            on == [o \in Panels |-> IF o \in targets \cap ready THEN wanted + 1 ELSE screen[o]]
<1>1. /\ Ask(targets) /\ latest' = wanted + 1 /\ live' = live \ targets
      /\ trans' = t /\ screen' = on /\ stale' = stale \ (targets \cap ready) /\ free' = free
      /\ going' = (going /\ \E o \in Panels : t[o].on)
      /\ timer' = IF timer = "due" /\ ~\E o \in Panels : t[o].on THEN "armed" ELSE timer
  BY DEF ShowNow, AskImage
<1>2. /\ wanted' = wanted + 1 /\ wanted + 1 \in 0..MaxWanted /\ wanted + 1 \in 0..Between
      /\ ready' = ready /\ wiped' = wiped \ (targets \cap ready)
      /\ asked' \in [Panels -> 0..MaxWanted]
  BY <1>1, AskFacts
<1>3. trans \in [Panels -> Moves] /\ screen \in [Panels -> 0..Between]
  BY DEF TransInv, TransTypeOK, Moves
<1>4. t \in [Panels -> Moves] /\ on \in [Panels -> 0..Between]
  BY <1>2, <1>3, TypedOff
<1>5. \A o \in Panels : t[o].on => trans[o].on
  BY TypedOff
<1>6. /\ Underway(t, ready', asked')
      /\ AtRest(t, ready' \ (stale' \cup wiped'), asked', on)
  <2>1. \A o \in Panels \ targets : t[o] = trans[o] /\ on[o] = screen[o]
    OBVIOUS
  <2>2. \A o \in targets : ~t[o].on
    BY TypedOff
  <2>3. \A o \in targets \cap ready : on[o] = wanted + 1
    OBVIOUS
  <2>. HIDE DEF t, on
  <2>. QED BY <1>1, <2>1, <2>2, <2>3, Redirected
<1>. HIDE DEF t, on
<1>7. Timed'
  BY <1>1, <1>5 DEF TransInv, Timed
<1>8. TransTypeOK'
  BY <1>1, <1>2, <1>4 DEF TransInv, TransTypeOK, Moves
<1>. QED BY <1>1, <1>6, <1>7, <1>8 DEF TransInv

LEMMA StartKeeps ==
    ASSUME TransInv, NEW targets \in SUBSET Panels, NEW broken \in SUBSET Panels, NEW gap \in 0..1,
           NEW works, NEW late, Start(targets, broken, gap, works, late)
    PROVE  TransInv'
<1>. DEFINE started == (targets \cap ready) \ broken
            Turn == CHOOSE f \in [started -> 0..Cardinality(started) - 1] :
                       \A x, y \in started : x # y => f[x] # f[y]
            Delay(o) == IF Turn[o] * gap > MaxDelay THEN MaxDelay ELSE Turn[o] * gap
            Set(o) == [on |-> TRUE, delay |-> Delay(o), left |-> Frames, to |-> wanted + 1]
            t == [o \in Panels |-> IF o \in started THEN Set(o)
                                   ELSE IF o \in targets THEN Off ELSE trans[o]]
            before == [o \in Panels |-> IF o \in targets \cap ready \cap broken THEN wanted + 1
                                        ELSE screen[o]]
<1>1. /\ Ask(targets) /\ latest' = wanted + 1 /\ live' = live \ targets
      /\ stale' = stale \ (targets \cap ready)
      /\ IF started = {}
         THEN /\ trans' = t /\ screen' = before
              /\ going' = (going /\ \E o \in Panels : t[o].on)
              /\ timer' = IF timer = "due" /\ ~going' THEN "armed" ELSE timer
              /\ UNCHANGED free
         ELSE Step(t, before, stale', works, late)
  BY DEF Start, AskImage
<1>2. /\ wanted' = wanted + 1 /\ wanted + 1 \in 0..MaxWanted /\ wanted + 1 \in 0..Between
      /\ ready' = ready /\ wiped' = wiped \ (targets \cap ready)
      /\ asked' \in [Panels -> 0..MaxWanted]
  BY <1>1, AskFacts
<1>3. trans \in [Panels -> Moves] /\ screen \in [Panels -> 0..Between] /\ ready \subseteq Panels
  BY DEF TransInv, TransTypeOK, Moves
<1>4. \A o \in started : Delay(o) \in 0..MaxDelay
  <2>1. IsFiniteSet(started) /\ started \subseteq Panels
    BY <1>3, TransitionsAssumption, FS_Subset
  <2>. HIDE DEF started
  <2>2. Turn \in [started -> 0..Cardinality(started) - 1]
    BY <2>1, Turns
  <2>. HIDE DEF Turn
  <2>3. Cardinality(started) \in Nat
    BY <2>1, FS_CardinalityType
  <2>4. ASSUME NEW o \in started PROVE Turn[o] * gap \in Nat
    <3>1. Turn[o] \in Nat
      BY <2>2, <2>3
    <3>2. CASE gap = 0
      BY <3>1, <3>2
    <3>3. CASE gap = 1
      BY <3>1, <3>3
    <3>. QED BY <3>2, <3>3
  <2>. QED BY <2>4, TransitionsAssumption
<1>. HIDE DEF Turn, Delay
<1>5. \A o \in started : Set(o) \in Moves /\ Set(o).on /\ Set(o).left >= 1 /\ Set(o).to = wanted + 1
  BY <1>2, <1>4, TransitionsAssumption DEF Moves
<1>. HIDE DEF Set
<1>6. t \in [Panels -> Moves] /\ before \in [Panels -> 0..Between]
  <2>1. \A o \in Panels : t[o] \in Moves
    BY <1>3, <1>5, TypedOff
  <2>. QED BY <1>2, <1>3, <2>1
<1>7. /\ Underway(t, ready', asked')
      /\ AtRest(t, ready' \ (stale' \cup wiped'), asked', before)
  <2>1. \A o \in Panels \ targets : t[o] = trans[o] /\ before[o] = screen[o]
    OBVIOUS
  <2>2. \A o \in targets : t[o].on => o \in ready /\ t[o].left >= 1 /\ t[o].to = wanted + 1
    BY <1>5, TypedOff
  <2>3. \A o \in targets \cap ready : ~t[o].on => before[o] = wanted + 1
    BY <1>5
  <2>. HIDE DEF t, before, started
  <2>. QED BY <1>1, <2>1, <2>2, <2>3, Redirected
<1>8. started = {} => \A o \in Panels : t[o].on => trans[o].on
  BY TypedOff
<1>. HIDE DEF t, before, started
<1>9. CASE started = {}
  <2>1. /\ trans' = t /\ screen' = before /\ free' = free
        /\ going' = (going /\ \E o \in Panels : t[o].on)
        /\ timer' = IF timer = "due" /\ ~going' THEN "armed" ELSE timer
    BY <1>1, <1>9
  <2>2. Timed'
    BY <1>8, <1>9, <2>1 DEF TransInv, Timed
  <2>3. TransTypeOK'
    BY <1>1, <1>2, <1>6, <2>1 DEF TransInv, TransTypeOK, Moves
  <2>. QED BY <1>7, <2>1, <2>2, <2>3 DEF TransInv
<1>10. CASE started # {}
  <2>1. Step(t, before, stale', works, late)
    BY <1>1, <1>10
  <2>2. /\ stale' \subseteq Panels /\ live' \subseteq Panels /\ wiped' \subseteq Panels
        /\ ready' \subseteq Panels /\ latest' \in 0..MaxWanted /\ wanted' \in 0..MaxWanted
        /\ TransTypeOK
    BY <1>1, <1>2 DEF TransInv, TransTypeOK
  <2>. QED BY <1>2, <1>6, <1>7, <2>1, <2>2, StepKeeps
<1>. QED BY <1>9, <1>10

LEMMA AnimateKeeps ==
    ASSUME TransInv, NEW targets \in SUBSET Panels, NEW plain \in SUBSET Panels,
           Animate(targets, plain)
    PROVE  TransInv'
<1>. DEFINE started == (targets \cap ready) \ plain
            set == [on |-> TRUE, delay |-> 0, left |-> Frames, to |-> wanted + 1]
            t == [o \in Panels |-> IF o \in started THEN set
                                   ELSE IF o \in targets THEN Off ELSE trans[o]]
            on == [o \in Panels |-> IF o \in targets \cap ready \cap plain THEN wanted + 1
                                    ELSE screen[o]]
<1>1. /\ Ask(targets) /\ latest' = latest /\ live' = live \cup (targets \cap ready)
      /\ trans' = t /\ screen' = on /\ stale' = stale \ (targets \cap ready) /\ free' = free
      /\ going' = (going \/ started # {})
      /\ timer' = IF started # {} THEN "armed" ELSE timer
  BY DEF Animate
<1>2. /\ wanted' = wanted + 1 /\ wanted + 1 \in 0..MaxWanted /\ wanted + 1 \in 0..Between
      /\ ready' = ready /\ wiped' = wiped \ (targets \cap ready)
      /\ asked' \in [Panels -> 0..MaxWanted]
  BY <1>1, AskFacts
<1>3. trans \in [Panels -> Moves] /\ screen \in [Panels -> 0..Between] /\ ready \subseteq Panels
  BY DEF TransInv, TransTypeOK, Moves
<1>4. set \in Moves /\ set.on /\ set.left >= 1 /\ set.to = wanted + 1
  BY <1>2, TransitionsAssumption DEF Moves
<1>. HIDE DEF set
<1>5. t \in [Panels -> Moves] /\ on \in [Panels -> 0..Between]
  BY <1>2, <1>3, <1>4, TypedOff
<1>6. /\ Underway(t, ready', asked')
      /\ AtRest(t, ready' \ (stale' \cup wiped'), asked', on)
  <2>1. \A o \in Panels \ targets : t[o] = trans[o] /\ on[o] = screen[o]
    OBVIOUS
  <2>2. \A o \in targets : t[o].on => o \in ready /\ t[o].left >= 1 /\ t[o].to = wanted + 1
    BY <1>4, TypedOff
  <2>3. \A o \in targets \cap ready : ~t[o].on => on[o] = wanted + 1
    BY <1>4
  <2>. HIDE DEF t, on, started
  <2>. QED BY <1>1, <2>1, <2>2, <2>3, Redirected
<1>7. \A o \in Panels : t[o].on => trans[o].on \/ started # {}
  BY TypedOff
<1>. HIDE DEF t, on, started
<1>8. Timed'
  BY <1>1, <1>7 DEF TransInv, Timed
<1>9. TransTypeOK'
  BY <1>1, <1>2, <1>5 DEF TransInv, TransTypeOK, Moves
<1>. QED BY <1>1, <1>6, <1>8, <1>9 DEF TransInv

LEMMA TickKeeps == ASSUME TransInv, NEW works, NEW late, Tick(works, late) PROVE TransInv'
<1>1. Step(trans, screen, stale, works, late)
      /\ UNCHANGED <<ready, stale, asked, live, latest, wiped, wanted>>
  BY DEF Tick
<1>2. /\ TransTypeOK /\ trans \in [Panels -> Moves] /\ screen \in [Panels -> 0..Between]
  BY DEF TransInv, TransTypeOK, Moves
<1>3. /\ stale' \subseteq Panels /\ live' \subseteq Panels /\ wiped' \subseteq Panels
      /\ ready' \subseteq Panels /\ latest' \in 0..MaxWanted /\ wanted' \in 0..MaxWanted
      /\ asked' \in [Panels -> 0..MaxWanted]
  BY <1>1 DEF TransInv, TransTypeOK
<1>4. Underway(trans, ready', asked')
      /\ AtRest(trans, ready' \ (stale' \cup wiped'), asked', screen)
  BY <1>1 DEF TransInv
<1>5. Step(trans, screen, stale', works, late)
  BY <1>1
<1>. QED BY <1>2, <1>3, <1>4, <1>5, StepKeeps

(* What the compositor does to one output. *)
LEMMA OutputKeeps ==
    ASSUME TransInv, NEW o \in Panels, GiveBack(o) \/ Appear(o) \/ Resize(o) \/ Close(o)
    PROVE  TransInv'
<1>1. /\ trans \in [Panels -> Moves] /\ screen \in [Panels -> 0..Between]
      /\ asked \in [Panels -> 0..MaxWanted] /\ latest \in 0..MaxWanted
  BY DEF TransInv, TransTypeOK, Moves
<1>2. asked[o] \in 0..Between /\ latest \in 0..Between
  BY <1>1, TransitionsAssumption DEF Between
<1>3. CASE GiveBack(o)
  BY <1>3 DEF GiveBack, TransInv, TransTypeOK, Timed, Underway, AtRest
<1>4. CASE Appear(o)
  <2>1. screen' \in [Panels -> 0..Between] /\ screen' = [screen EXCEPT ![o] = asked[o]]
    BY <1>1, <1>2, <1>4 DEF Appear
  <2>2. /\ ready' = ready \cup {o}
        /\ UNCHANGED <<trans, free, stale, asked, live, latest, wiped, timer, going, wanted>>
    BY <1>4 DEF Appear
  <2>3. TransTypeOK' /\ Timed'
    BY <2>1, <2>2 DEF TransInv, TransTypeOK, Timed
  <2>4. Underway(trans', ready', asked')
    BY <2>2 DEF TransInv, Underway
  <2>5. AtRest(trans', ready' \ (stale' \cup wiped'), asked', screen')
    BY <1>1, <2>1, <2>2 DEF TransInv, TransTypeOK, AtRest
  <2>. QED BY <2>3, <2>4, <2>5 DEF TransInv
<1>5. CASE Resize(o)
  <2>1. UNCHANGED <<trans, ready, free, asked, live, latest, timer, going, wanted>> /\ o \in ready
    BY <1>5 DEF Resize
  <2>2. \/ stale' = stale \cup {o} /\ screen' = screen /\ wiped' = wiped
        \/ stale' = stale /\ screen' = screen /\ wiped' = wiped
        \/ /\ screen' = [screen EXCEPT ![o] = latest] /\ stale' = stale \ {o}
           /\ wiped' = IF latest # asked[o] THEN wiped \cup {o} ELSE wiped
    BY <1>5 DEF Resize
  <2>3. TransTypeOK' /\ Timed'
    BY <1>1, <1>2, <2>1, <2>2 DEF TransInv, TransTypeOK, Timed
  <2>4. Underway(trans', ready', asked')
    BY <2>1 DEF TransInv, Underway
  <2>5. AtRest(trans', ready' \ (stale' \cup wiped'), asked', screen')
    BY <1>1, <2>1, <2>2 DEF TransInv, TransTypeOK, AtRest
  <2>. QED BY <2>3, <2>4, <2>5 DEF TransInv
<1>6. CASE Close(o)
  <2>1. /\ ready' = ready \ {o} /\ trans' = [trans EXCEPT ![o] = Off] /\ stale' = stale \ {o}
        /\ free' = free \cup {o} /\ live' = live \ {o} /\ wiped' = wiped \ {o}
        /\ UNCHANGED <<screen, asked, latest, timer, going, wanted>>
    BY <1>6 DEF Close
  <2>2. trans' \in [Panels -> Moves] /\ \A p \in Panels : trans'[p].on => trans[p].on /\ p # o
    BY <1>1, <2>1, TypedOff
  <2>3. \A p \in Panels \ {o} : trans'[p] = trans[p]
    BY <1>1, <2>1
  <2>4. TransTypeOK'
    BY <2>1, <2>2 DEF TransInv, TransTypeOK, Moves
  <2>5. Timed' /\ Underway(trans', ready', asked')
    BY <2>1, <2>2, <2>3 DEF TransInv, Timed, Underway
  <2>6. AtRest(trans', ready' \ (stale' \cup wiped'), asked', screen')
    BY <2>1, <2>3 DEF TransInv, TransTypeOK, AtRest
  <2>. QED BY <2>4, <2>5, <2>6 DEF TransInv
<1>. QED BY <1>3, <1>4, <1>5, <1>6

LEMMA TransSpecInv == TransSpec => []TransInv
<1>1. TransInit => TransInv
  <2>. SUFFICES ASSUME TransInit PROVE TransInv
    OBVIOUS
  <2>1. trans \in [Panels -> Moves] /\ \A o \in Panels : ~trans[o].on
    BY TypedOff DEF TransInit
  <2>2. 0 \in 0..MaxWanted /\ 0 \in 0..Between
    BY TransitionsAssumption DEF Between
  <2>3. TransTypeOK
    BY <2>1, <2>2 DEF TransInit, TransTypeOK, Moves
  <2>. QED BY <2>1, <2>3 DEF TransInit, TransInv, Timed, Underway, AtRest
<1>2. TransInv /\ [TransNext]_transVars => TransInv'
  <2>. SUFFICES ASSUME TransInv, [TransNext]_transVars PROVE TransInv'
    OBVIOUS
  <2>1. CASE Expire
    BY <2>1 DEF Expire, TransInv, TransTypeOK, Timed, Underway, AtRest
  <2>2. CASE \E targets \in SUBSET Panels :
                \/ ShowNow(targets)
                \/ \E plain \in SUBSET Panels : Animate(targets, plain)
                \/ \E broken, works, late \in SUBSET Panels, gap \in 0..1 :
                      Start(targets, broken, gap, works, late)
    BY <2>2, ShowNowKeeps, AnimateKeeps, StartKeeps
  <2>3. CASE \E works, late \in SUBSET Panels : Tick(works, late)
    BY <2>3, TickKeeps
  <2>4. CASE \E o \in Panels : GiveBack(o) \/ Appear(o) \/ Resize(o) \/ Close(o)
    BY <2>4, OutputKeeps
  <2>5. CASE UNCHANGED transVars
    BY <2>5 DEF transVars, TransInv, TransTypeOK, Timed, Underway, AtRest
  <2>. QED BY <2>1, <2>2, <2>3, <2>4, <2>5 DEF TransNext
<1>. QED BY <1>1, <1>2, PTL DEF TransSpec

(* The variables of the transition engine keep their types: the staggered  *)
(* delays stay within their bound, and no frame is counted below zero.     *)
THEOREM TransTypeCorrect == TransSpec => []TransTypeOK
<1>1. TransInv => TransTypeOK
  BY DEF TransInv
<1>. QED BY <1>1, TransSpecInv, PTL

(* However transitions are started, staggered, replaced, delayed, skipped, *)
(* made up for and closed, an output at rest shows what was asked for last.*)
THEOREM LastOneWins == TransSpec => []LastRequestWins
<1>1. TransInv => LastRequestWins
  BY DEF TransInv, AtRest, LastRequestWins
<1>. QED BY <1>1, TransSpecInv, PTL

(* While an output is in a transition the timer is armed or due, and the   *)
(* engine counts itself in progress: no request or loss of an output stops *)
(* the timer under the others.                                             *)
THEOREM TransitionsTimed == TransSpec => []Timed
<1>1. TransInv => Timed
  BY DEF TransInv
<1>. QED BY <1>1, TransSpecInv, PTL

(***************************************************************************)
(* The sun, the schedule and the user.                                     *)
(*                                                                         *)
(* Whoever has something chosen on an output has taken the wallpaper from  *)
(* the sun, and no manifest is for that output: so a tick, which draws     *)
(* only for the sun or on a manifest's outputs, leaves it alone.           *)
(***************************************************************************)
Pictures == {"none", "chosen", "sun", "frame", "rule"} \X Nat

Papers ==
    [lit : SUBSET Skies, plan : Plans, ruled : SUBSET Screens, owns : BOOLEAN,
     manifest : Screens \cup {Everywhere, Nowhere},
     lastFrame : {"none", "sun", "frame"} \X Nat,
     lastRule : Nat, palette : BOOLEAN, alarm : BOOLEAN, asleep : BOOLEAN,
     here : SUBSET Screens, kept : SUBSET Screens, seen : [Screens -> Pictures]]

Sound(s) == s \in Papers /\ s.lastRule <= Len(s.plan)

Chose(s, ch) ==
    /\ ch \subseteq s.here
    /\ \A o \in ch : s.seen[o] = Chosen
    /\ ch # {} => ~s.owns /\ s.manifest \notin ch \cup {Everywhere}

Alarmed(s) ==
    ~s.asleep /\ (s.manifest # Nowhere \/ (s.owns /\ HasPaths(s))) => s.alarm

OwnerInv == sky \in Skies /\ Sound(wp) /\ Chose(wp, chosen) /\ Alarmed(wp)

(* What a rule says. *)
LEMMA RuleAt ==
    ASSUME NEW plan \in Seq(Rules), NEW i \in DOMAIN plan
    PROVE  plan[i].at \in 0..3 /\ plan[i].out \in Screens \cup {Everywhere}
<1>1. plan[i] \in Rules
  OBVIOUS
<1>2. plan[i].at \in Skies /\ plan[i].out \in Screens \cup {Everywhere}
  BY <1>1 DEF Rules
<1>. QED BY <1>2 DEF Skies, Night, Dusk

(* A set of places in a schedule has a last one, *)
LEMMA Greatest ==
    ASSUME NEW n \in Nat, NEW S \in SUBSET (1..n), S # {}
    PROVE  \E i \in S : \A j \in S : j <= i
<1>. DEFINE T == {n - j : j \in S}
<1>1. T \in SUBSET Nat /\ T # {}
  <2>1. \A j \in S : n - j \in Nat
    OBVIOUS
  <2>2. T \subseteq Nat
    BY <2>1
  <2>. QED BY <2>2
<1>2. PICK m \in T : \A k \in T : m <= k
  BY <1>1, LeastNatural
<1>3. PICK i \in S : m = n - i
  OBVIOUS
<1>4. ASSUME NEW j \in S PROVE j <= i
  <2>1. n - j \in T
    OBVIOUS
  <2>2. n - i <= n - j
    BY <1>2, <1>3, <2>1
  <2>. HIDE DEF T
  <2>. QED BY <2>2
<1>. QED BY <1>4

(* and among the rules at those places one that begins latest, the last of *)
(* them in the file.                                                       *)
LEMMA LatestExists ==
    ASSUME NEW plan \in Seq(Rules), NEW S \in SUBSET DOMAIN plan, S # {}
    PROVE  \E i \in S : \A j \in S : \/ plan[j].at < plan[i].at
                                     \/ plan[j].at = plan[i].at /\ j <= i
<1>1. Len(plan) \in Nat /\ DOMAIN plan = 1..Len(plan)
  OBVIOUS
<1>2. \A i \in S : plan[i].at \in 0..3
  BY RuleAt
<1>. DEFINE T == {3 - plan[j].at : j \in S}
<1>3. T \in SUBSET Nat /\ T # {}
  BY <1>2
<1>4. PICK m \in T : \A k \in T : m <= k
  BY <1>3, LeastNatural
<1>5. PICK i \in S : m = 3 - plan[i].at
  OBVIOUS
<1>6. ASSUME NEW j \in S PROVE plan[j].at <= plan[i].at
  <2>1. 3 - plan[j].at \in T
    OBVIOUS
  <2>2. 3 - plan[i].at <= 3 - plan[j].at
    BY <1>4, <1>5, <2>1
  <2>. HIDE DEF T
  <2>. QED BY <1>2, <2>2
<1>. DEFINE U == {j \in S : plan[j].at = plan[i].at}
<1>7. U \in SUBSET (1..Len(plan)) /\ U # {}
  BY <1>1
<1>8. PICK u \in U : \A j \in U : j <= u
  BY <1>1, <1>7, Greatest
<1>. HIDE DEF T
<1>9. ASSUME NEW j \in S
      PROVE  plan[j].at < plan[u].at \/ (plan[j].at = plan[u].at /\ j <= u)
  <2>1. plan[u].at = plan[i].at /\ plan[j].at <= plan[i].at
    BY <1>6
  <2>2. CASE plan[j].at = plan[i].at
    BY <1>8, <2>1, <2>2
  <2>3. CASE plan[j].at # plan[i].at
    BY <1>2, <2>1, <2>3
  <2>. QED BY <2>2, <2>3
<1>. QED BY <1>9

LEMMA LatestFacts ==
    ASSUME NEW s \in Papers, NEW S \in SUBSET DOMAIN s.plan, S # {}
    PROVE  /\ Latest(s, S) \in S
           /\ \A j \in S : s.plan[j].at <= s.plan[Latest(s, S)].at
<1>1. s.plan \in Seq(Rules)
  BY OwnerAssumption DEF Papers
<1>2. \E i \in S : \A j \in S : \/ s.plan[j].at < s.plan[i].at
                                \/ s.plan[j].at = s.plan[i].at /\ j <= i
  BY <1>1, LatestExists
<1>3. Latest(s, S) \in S /\ \A j \in S : \/ s.plan[j].at < s.plan[Latest(s, S)].at
                                        \/ s.plan[j].at = s.plan[Latest(s, S)].at
  BY <1>2 DEF Latest
<1>4. \A j \in S : s.plan[j].at \in 0..3
  BY <1>1, RuleAt
<1>. QED BY <1>3, <1>4

LEMMA LastOfTyped ==
    ASSUME NEW s \in Papers, NEW kind
    PROVE  LastOf(s, kind) \in {0} \cup DOMAIN s.plan
<1>. DEFINE S == {i \in DOMAIN s.plan : s.plan[i].kind = kind /\ s.plan[i].at = sky}
<1>1. s.plan \in Seq(Rules)
  BY OwnerAssumption DEF Papers
<1>2. Len(s.plan) \in Nat /\ S \in SUBSET (1..Len(s.plan)) /\ S \in SUBSET DOMAIN s.plan
  BY <1>1
<1>3. LastOf(s, kind) = IF S = {} THEN 0 ELSE CHOOSE i \in S : \A j \in S : j <= i
  BY DEF LastOf
<1>. HIDE DEF S
<1>4. S # {} => (CHOOSE i \in S : \A j \in S : j <= i) \in S
  <2>1. S # {} => \E i \in S : \A j \in S : j <= i
    BY <1>2, Greatest
  <2>. QED BY <2>1
<1>. QED BY <1>2, <1>3, <1>4

LEMMA RuleTyped ==
    ASSUME NEW s \in Papers
    PROVE  ChosenRule(s) \in {0} \cup DOMAIN s.plan
<1>. DEFINE timed == {i \in DOMAIN s.plan : s.plan[i].kind = "time"}
            passed == {i \in timed : s.plan[i].at <= sky}
            wraps == timed = DOMAIN s.plan \/ sky = Night
<1>1. timed \in SUBSET DOMAIN s.plan /\ passed \in SUBSET DOMAIN s.plan
  OBVIOUS
<1>2. ChosenRule(s) = IF LastOf(s, "part") # 0 THEN LastOf(s, "part")
                      ELSE IF LastOf(s, "phase") # 0 THEN LastOf(s, "phase")
                      ELSE IF passed # {} THEN Latest(s, passed)
                      ELSE IF timed # {} /\ wraps THEN Latest(s, timed)
                      ELSE 0
  BY DEF ChosenRule
<1>. HIDE DEF timed, passed, wraps
<1>3. passed # {} => Latest(s, passed) \in DOMAIN s.plan
  BY <1>1, LatestFacts
<1>4. timed # {} => Latest(s, timed) \in DOMAIN s.plan
  BY <1>1, LatestFacts
<1>. QED BY <1>2, <1>3, <1>4, LastOfTyped

(* Of rules with times only the one that began last is chosen. *)
LEMMA RuleOfTheHour ==
    ASSUME NEW s \in Papers, sky \in Skies, s.plan # << >>,
           \A i \in DOMAIN s.plan : s.plan[i].kind = "time"
    PROVE  /\ ChosenRule(s) \in DOMAIN s.plan
           /\ \A i \in DOMAIN s.plan :
                 (sky + 4 - s.plan[ChosenRule(s)].at) % 4 <= (sky + 4 - s.plan[i].at) % 4
<1>. DEFINE passed == {i \in DOMAIN s.plan : s.plan[i].at <= sky}
            r == ChosenRule(s)
<1>1. s.plan \in Seq(Rules)
  BY OwnerAssumption DEF Papers
<1>2. \A i \in DOMAIN s.plan : s.plan[i].at \in 0..3
  BY <1>1, RuleAt
<1>3. DOMAIN s.plan # {}
  BY <1>1
<1>4. LastOf(s, "part") = 0 /\ LastOf(s, "phase") = 0
  BY DEF LastOf
<1>5. {i \in DOMAIN s.plan : s.plan[i].kind = "time"} = DOMAIN s.plan
  OBVIOUS
<1>6. r = IF passed # {} THEN Latest(s, passed) ELSE Latest(s, DOMAIN s.plan)
  BY <1>3, <1>4, <1>5 DEF ChosenRule
<1>. HIDE DEF r
<1>7. \A a \in 0..3 : (sky + 4 - a) % 4 = IF a <= sky THEN sky - a ELSE sky + 4 - a
  <2>1. sky \in 0..3
    BY DEF Skies, Night, Dusk
  <2>. QED BY <2>1
<1>8. CASE passed # {}
  <2>1. passed \in SUBSET DOMAIN s.plan
    OBVIOUS
  <2>2. r \in passed /\ \A j \in passed : s.plan[j].at <= s.plan[r].at
    BY <1>6, <1>8, <2>1, LatestFacts
  <2>3. r \in DOMAIN s.plan /\ s.plan[r].at <= sky
    BY <2>2
  <2>4. ASSUME NEW i \in DOMAIN s.plan
        PROVE  (sky + 4 - s.plan[r].at) % 4 <= (sky + 4 - s.plan[i].at) % 4
    <3>1. s.plan[i].at <= sky => s.plan[i].at <= s.plan[r].at
      BY <2>2
    <3>2. sky \in 0..3 /\ s.plan[i].at \in 0..3 /\ s.plan[r].at \in 0..3
      BY <1>2, <2>3 DEF Skies, Night, Dusk
    <3>3. /\ (sky + 4 - s.plan[r].at) % 4 = sky - s.plan[r].at
          /\ (sky + 4 - s.plan[i].at) % 4 = IF s.plan[i].at <= sky THEN sky - s.plan[i].at
                                            ELSE sky + 4 - s.plan[i].at
      BY <1>7, <2>3, <3>2
    <3>. HIDE DEF passed
    <3>. QED BY <3>1, <3>2, <3>3
  <2>. QED BY <2>3, <2>4 DEF r
<1>9. CASE passed = {}
  <2>1. r \in DOMAIN s.plan /\ \A j \in DOMAIN s.plan : s.plan[j].at <= s.plan[r].at
    BY <1>3, <1>6, <1>9, LatestFacts
  <2>2. ASSUME NEW i \in DOMAIN s.plan
        PROVE  (sky + 4 - s.plan[r].at) % 4 <= (sky + 4 - s.plan[i].at) % 4
    <3>1. ~(s.plan[i].at <= sky) /\ ~(s.plan[r].at <= sky) /\ s.plan[i].at <= s.plan[r].at
      BY <1>9, <2>1
    <3>2. sky \in 0..3 /\ s.plan[i].at \in 0..3 /\ s.plan[r].at \in 0..3
      BY <1>2, <2>1 DEF Skies, Night, Dusk
    <3>3. /\ (sky + 4 - s.plan[r].at) % 4 = sky + 4 - s.plan[r].at
          /\ (sky + 4 - s.plan[i].at) % 4 = sky + 4 - s.plan[i].at
      BY <1>7, <3>1, <3>2
    <3>. HIDE DEF passed
    <3>. QED BY <3>1, <3>2, <3>3
  <2>. QED BY <2>1, <2>2 DEF r
<1>. QED BY <1>8, <1>9

-----------------------------------------------------------------------------
(* One step of the wallpapers that asks for nothing: who owns what stays.  *)
Same(t, s) ==
    /\ t.lit = s.lit /\ t.plan = s.plan /\ t.here = s.here /\ t.asleep = s.asleep
    /\ t.owns = s.owns /\ t.manifest = s.manifest

(* What the sun does not own and no manifest is for, it leaves alone. *)
LeftAlone(t, s) ==
    \A o \in Screens : ~s.owns /\ s.manifest \notin {o, Everywhere} => t.seen[o] = s.seen[o]

Painted(s, targets, pic) == [o \in Screens |-> IF o \in targets THEN pic ELSE s.seen[o]]

LEMMA PaintedTyped ==
    ASSUME NEW s \in Papers, NEW targets, NEW pic \in Pictures
    PROVE  Painted(s, targets, pic) \in [Screens -> Pictures]
<1>1. s.seen \in [Screens -> Pictures]
  BY DEF Papers
<1>. QED BY <1>1 DEF Painted

(* A frame of the manifest, or the image of the phase, is drawn or not. *)
LEMMA FrameKeeps ==
    ASSUME sky \in Skies, NEW s \in Papers, NEW loads \in BOOLEAN
    PROVE  LET t == FrameTick(s, loads)
           IN  t \in Papers /\ Same(t, s) /\ LeftAlone(t, s) /\ t.lastRule = s.lastRule
<1>. DEFINE frame == IF s.manifest # Nowhere THEN <<"frame", sky>>
                     ELSE IF s.owns THEN PhaseFrame(s) ELSE Nothing
            target == IF s.manifest # Nowhere THEN s.manifest ELSE Everywhere
            drawn == {o \in Screens : o \in s.here /\ (target = Everywhere \/ target = o)}
            seen == Painted(s, drawn, frame)
            t == FrameTick(s, loads)
<1>1. sky \in Nat /\ Skies \subseteq Nat
  BY DEF Skies, Night, Dusk
<1>2. PhaseFrame(s) \in {"none", "sun", "frame"} \X Nat
  <2>1. s.lit \subseteq Nat
    BY <1>1 DEF Papers
  <2>. QED BY <2>1 DEF PhaseFrame, Nothing
<1>3. frame \in {"none", "sun", "frame"} \X Nat /\ frame \in Pictures
  BY <1>1, <1>2 DEF Nothing, Pictures
<1>4. ~s.owns /\ s.manifest = Nowhere => frame = Nothing
  OBVIOUS
<1>5. t = s \/ (t = [s EXCEPT !.seen = seen, !.lastFrame = frame, !.palette = TRUE]
                /\ frame # Nothing)
  BY DEF FrameTick, Put, Painted
<1>6. seen \in [Screens -> Pictures]
  BY <1>3, PaintedTyped
<1>7. \A o \in Screens : (o \notin drawn) => seen[o] = s.seen[o]
  BY DEF Painted
<1>8. \A o \in Screens : ~s.owns /\ s.manifest \notin {o, Everywhere} /\ frame # Nothing => o \notin drawn
  BY <1>4
<1>. HIDE DEF frame, seen, drawn, t
<1>9. CASE t = s
  BY <1>9 DEF t, Same, LeftAlone
<1>10. CASE t = [s EXCEPT !.seen = seen, !.lastFrame = frame, !.palette = TRUE] /\ frame # Nothing
  <2>1. t \in Papers
    BY <1>3, <1>6, <1>10 DEF Papers
  <2>2. Same(t, s) /\ t.lastRule = s.lastRule /\ t.seen = seen
    BY <1>10 DEF Papers, Same
  <2>3. LeftAlone(t, s)
    BY <1>7, <1>8, <1>10, <2>2 DEF LeftAlone
  <2>. QED BY <2>1, <2>2, <2>3 DEF t
<1>. QED BY <1>5, <1>9, <1>10

(* A rule of the schedule is drawn over it or not. *)
LEMMA RuleKeeps ==
    ASSUME NEW s \in Papers, Sound(s), NEW loads \in BOOLEAN
    PROVE  LET t == RuleTick(s, loads)
           IN  Sound(t) /\ Same(t, s) /\ LeftAlone(t, s)
<1>. DEFINE i == ChosenRule(s)
            drawn == {o \in Screens : o \in s.here
                                      /\ (s.plan[i].out = Everywhere \/ s.plan[i].out = o)}
            seen == Painted(s, drawn, <<"rule", i>>)
            t == RuleTick(s, loads)
<1>1. s.plan \in Seq(Rules)
  BY OwnerAssumption DEF Papers
<1>2. Len(s.plan) \in Nat /\ DOMAIN s.plan = 1..Len(s.plan)
  BY <1>1
<1>3. i \in {0} \cup DOMAIN s.plan
  BY RuleTyped
<1>4. i \in Nat /\ i <= Len(s.plan)
  <2>. HIDE DEF i
  <2>. QED BY <1>2, <1>3
<1>5. t = s \/ (t = [s EXCEPT !.seen = seen, !.lastRule = i, !.palette = TRUE] /\ s.owns)
  BY DEF RuleTick, Put, Painted
<1>6. seen \in [Screens -> Pictures]
  <2>1. <<"rule", i>> \in Pictures
    BY <1>4 DEF Pictures
  <2>. QED BY <2>1, PaintedTyped
<1>. HIDE DEF i, seen, drawn, t
<1>7. CASE t = s
  BY <1>7 DEF t, Same, LeftAlone
<1>8. CASE t = [s EXCEPT !.seen = seen, !.lastRule = i, !.palette = TRUE] /\ s.owns
  <2>1. t \in Papers
    BY <1>4, <1>6, <1>8 DEF Papers
  <2>2. Same(t, s) /\ t.lastRule = i
    BY <1>8 DEF Papers, Same
  <2>3. Sound(t) /\ LeftAlone(t, s)
    BY <1>4, <1>8, <2>1, <2>2 DEF LeftAlone, Sound, Same
  <2>. QED BY <2>2, <2>3 DEF t
<1>. QED BY <1>5, <1>7, <1>8

(* A tick leaves the timer as it should be, and what was chosen. *)
LEMMA TickKeepsPapers ==
    ASSUME sky \in Skies, NEW s \in Papers, Sound(s),
           NEW frameLoads \in BOOLEAN, NEW ruleLoads \in BOOLEAN
    PROVE  LET t == TickOf(s, frameLoads, ruleLoads)
           IN  /\ Sound(t) /\ Alarmed(t) /\ t.here = s.here
               /\ \A ch : Chose(s, ch) => Chose(t, ch)
<1>. DEFINE f == FrameTick(s, frameLoads)
            r == RuleTick(f, ruleLoads)
            a == ~r.asleep /\ (r.manifest # Nowhere \/ (r.owns /\ HasPaths(r)))
            t == TickOf(s, frameLoads, ruleLoads)
<1>1. f \in Papers /\ Same(f, s) /\ LeftAlone(f, s) /\ f.lastRule = s.lastRule
  BY FrameKeeps
<1>2. Sound(f)
  BY <1>1 DEF Sound, Same
<1>3. Sound(r) /\ Same(r, f) /\ LeftAlone(r, f)
  <2>. HIDE DEF f
  <2>. QED BY <1>1, <1>2, RuleKeeps
<1>4. t = [r EXCEPT !.alarm = a]
  BY DEF TickOf, Alarm
<1>. HIDE DEF f, r, a, t
<1>5. a \in BOOLEAN /\ r \in Papers /\ (a <=> ~r.asleep /\ (r.manifest # Nowhere \/ (r.owns /\ HasPaths(r))))
  BY <1>3 DEF a, HasPaths, Sound, Papers
<1>6. t \in Papers
  BY <1>4, <1>5 DEF Papers
<1>7. Same(t, r) /\ t.lastRule = r.lastRule /\ t.seen = r.seen /\ t.alarm = a
  BY <1>4, <1>5 DEF Papers, Same
<1>8. Sound(t)
  BY <1>3, <1>6, <1>7 DEF Sound, Same
<1>9. Alarmed(t)
  BY <1>5, <1>7 DEF Alarmed, Same, HasPaths
<1>10. t.here = s.here /\ t.owns = s.owns /\ t.manifest = s.manifest
  BY <1>1, <1>3, <1>7 DEF Same
<1>11. ASSUME NEW ch, Chose(s, ch)
       PROVE  Chose(t, ch)
  <2>1. ch \subseteq Screens
    BY <1>11 DEF Chose, Papers
  <2>2. ASSUME NEW o \in ch PROVE t.seen[o] = Chosen
    <3>1. ~s.owns /\ s.manifest \notin {o, Everywhere} /\ s.seen[o] = Chosen /\ o \in Screens
      BY <1>11, <2>1 DEF Chose
    <3>2. f.seen[o] = Chosen
      BY <1>1, <3>1 DEF LeftAlone
    <3>3. r.seen[o] = Chosen
      BY <1>1, <1>3, <3>1, <3>2 DEF LeftAlone, Same
    <3>. QED BY <1>7, <3>3
  <2>. QED BY <1>10, <1>11, <2>2 DEF Chose
<1>. QED BY <1>8, <1>9, <1>10, <1>11 DEF t

(* Whoever takes outputs from the sun has chosen them. *)
Taken(t, s, targets, ch) ==
    /\ t \in Papers /\ Chose(t, ch \cup targets)
    /\ t.lit = s.lit /\ t.plan = s.plan /\ t.here = s.here /\ t.asleep = s.asleep
    /\ t.lastRule = s.lastRule /\ t.alarm = s.alarm
    /\ t.manifest \in {Nowhere, s.manifest}
    /\ t.owns => s.owns /\ targets = {}

LEMMA TakesKeeps ==
    ASSUME NEW s \in Papers, NEW targets \in SUBSET s.here, NEW image \in BOOLEAN,
           NEW ch, Chose(s, ch)
    PROVE  Taken(Takes(s, targets, image), s, targets, ch)
<1>. DEFINE seen == Painted(s, targets, Chosen)
            palette == s.palette \/ image
            u == Stopped(s, targets)
            t == Takes(s, targets, image)
<1>1. u \in Papers
  BY DEF Stopped, Papers, Nothing
<1>2. /\ u.seen = s.seen /\ u.palette = s.palette
      /\ u.lit = s.lit /\ u.plan = s.plan /\ u.here = s.here /\ u.asleep = s.asleep
      /\ u.lastRule = s.lastRule /\ u.alarm = s.alarm /\ u.ruled = s.ruled /\ u.kept = s.kept
  BY DEF Stopped, Papers
<1>3. /\ targets = {} => u.owns = s.owns /\ u.manifest = s.manifest
      /\ targets # {} => ~u.owns /\ u.manifest \notin targets \cup {Everywhere}
      /\ u.owns => s.owns
      /\ u.manifest \in {Nowhere, s.manifest}
  <2>1. targets \subseteq Screens /\ Nowhere \notin Screens \cup {Everywhere}
    BY OwnerAssumption DEF Papers
  <2>. QED BY <2>1 DEF Stopped, Papers
<1>. HIDE DEF u
<1>4. t = [u EXCEPT !.seen = seen, !.palette = palette]
  BY <1>1, <1>2 DEF Takes, Shows, Painted, u, Papers
<1>5. seen \in [Screens -> Pictures] /\ palette \in BOOLEAN
  <2>1. Chosen \in Pictures
    BY DEF Chosen, Pictures
  <2>2. palette \in BOOLEAN
    BY DEF Papers
  <2>. QED BY <2>1, <2>2, PaintedTyped
<1>6. \A o \in Screens : seen[o] = IF o \in targets THEN Chosen ELSE s.seen[o]
  BY DEF Painted
<1>. HIDE DEF seen, palette, t
<1>7. t \in Papers
  BY <1>1, <1>4, <1>5 DEF Papers
<1>8. /\ t.seen = seen /\ t.owns = u.owns /\ t.manifest = u.manifest
      /\ t.lit = u.lit /\ t.plan = u.plan /\ t.here = u.here /\ t.asleep = u.asleep
      /\ t.lastRule = u.lastRule /\ t.alarm = u.alarm /\ t.ruled = u.ruled /\ t.kept = u.kept
  BY <1>1, <1>4 DEF Papers
<1>9. Chose(t, ch \cup targets)
  <2>1. ch \cup targets \subseteq t.here /\ ch \cup targets \subseteq Screens
    BY <1>2, <1>8 DEF Chose, Papers
  <2>2. \A o \in ch \cup targets : t.seen[o] = Chosen
    BY <1>6, <1>8, <2>1 DEF Chose
  <2>3. CASE targets = {}
    BY <1>3, <1>8, <2>1, <2>2, <2>3 DEF Chose
  <2>4. CASE targets # {}
    <3>1. ch \subseteq Screens /\ Nowhere \notin Screens \cup {Everywhere}
      BY <2>1, OwnerAssumption
    <3>2. t.manifest \notin ch
      BY <1>3, <1>8, <3>1 DEF Chose
    <3>3. ~t.owns /\ t.manifest \notin targets \cup {Everywhere}
      BY <1>3, <1>8, <2>4
    <3>. QED BY <2>1, <2>2, <3>2, <3>3 DEF Chose
  <2>. QED BY <2>3, <2>4
<1>. QED BY <1>2, <1>3, <1>7, <1>8, <1>9 DEF t, Taken

(* A timer that is owed to the owner follows from the owner alone. *)
LEMMA ElapseKeeps ==
    ASSUME OwnerInv, Elapse
    PROVE  OwnerInv'
<1>1. sky' \in Skies /\ wp' = wp /\ chosen' = chosen
  BY DEF OwnerInv, Elapse, Skies, Night, Dusk
<1>. QED BY <1>1 DEF OwnerInv, Sound, Chose, Alarmed, HasPaths, Papers, Pictures

LEMMA SunTickKeeps ==
    ASSUME OwnerInv, NEW frameLoads \in BOOLEAN, NEW ruleLoads \in BOOLEAN,
           SunTick(frameLoads, ruleLoads)
    PROVE  OwnerInv'
<1>. DEFINE t == TickOf(wp, frameLoads, ruleLoads)
<1>1. wp' = t /\ sky' = sky /\ chosen' = chosen
  BY DEF SunTick
<1>2. Sound(t) /\ Alarmed(t) /\ Chose(t, chosen)
  BY TickKeepsPapers DEF OwnerInv, Sound
<1>. HIDE DEF t
<1>. QED BY <1>1, <1>2 DEF OwnerInv

(* A client takes outputs, and the wallpaper from the sun and the manifest. *)
LEMMA WallpaperKeeps ==
    ASSUME OwnerInv, NEW targets \in SUBSET Screens, NEW image \in BOOLEAN,
           Wallpaper(targets, image)
    PROVE  OwnerInv'
<1>. DEFINE t == Takes(wp, targets, image)
            kept == t.kept \cup targets
            u == [t EXCEPT !.owns = FALSE, !.manifest = Nowhere, !.lastFrame = Nothing,
                           !.kept = kept]
<1>1. targets \subseteq wp.here /\ wp \in Papers /\ Chose(wp, chosen)
  BY DEF Wallpaper, OwnerInv, Sound
<1>2. Taken(t, wp, targets, chosen)
  BY <1>1, TakesKeeps
<1>3. wp' = u /\ sky' = sky /\ chosen' = chosen \cup targets
  BY DEF Wallpaper
<1>. HIDE DEF t
<1>4. /\ t \in Papers /\ Chose(t, chosen \cup targets)
      /\ t.plan = wp.plan /\ t.lastRule = wp.lastRule
  BY <1>2 DEF Taken
<1>5. kept \in SUBSET Screens
  BY <1>4 DEF Papers
<1>. HIDE DEF kept
<1>6. u \in Papers
  BY <1>5, <1>4 DEF Papers, Nothing
<1>7. /\ ~u.owns /\ u.manifest = Nowhere /\ u.here = t.here /\ u.seen = t.seen
      /\ u.plan = t.plan /\ u.lastRule = t.lastRule
  BY <1>4 DEF Papers
<1>. HIDE DEF u
<1>8. Sound(u) /\ Alarmed(u)
  BY <1>6, <1>7, <1>4 DEF OwnerInv, Sound, Alarmed
<1>9. Chose(u, chosen \cup targets)
  <2>1. Nowhere \notin chosen \cup targets \cup {Everywhere}
    <3>1. chosen \cup targets \subseteq Screens
      BY <1>1 DEF Chose, Papers
    <3>. QED BY <3>1, OwnerAssumption
  <2>. QED BY <1>7, <1>4, <2>1 DEF Chose
<1>. QED BY <1>3, <1>8, <1>9 DEF OwnerInv

(* Nothing has been chosen since the sun was let in. *)
LEMMA ChoseNone ==
    ASSUME NEW s PROVE Chose(s, {})
  BY DEF Chose

LEMMA ManifestKeeps ==
    ASSUME OwnerInv, NEW target \in Screens \cup {Everywhere}, Manifest(target)
    PROVE  OwnerInv'
<1>. DEFINE T == {o \in wp.here : target = Everywhere \/ target = o}
            frame == <<"frame", sky>>
            u == Stopped(wp, T)
            seen == Painted(u, T, frame)
            kept == u.kept \cup T
            s == [u EXCEPT !.seen = seen, !.owns = TRUE, !.manifest = target,
                           !.lastFrame = frame, !.kept = kept, !.palette = TRUE]
            t == TickOf(s, TRUE, TRUE)
<1>1. wp \in Papers /\ sky \in Skies /\ wp.lastRule <= Len(wp.plan)
  BY DEF OwnerInv, Sound
<1>2. u \in Papers /\ u.plan = wp.plan /\ u.lastRule = wp.lastRule
  BY <1>1 DEF Stopped, Papers, Nothing
<1>3. wp' = t /\ sky' = sky /\ chosen' = {}
  BY DEF Manifest, Shows, Painted
<1>4. frame \in Pictures /\ frame \in {"none", "sun", "frame"} \X Nat
  BY <1>1 DEF Pictures, Skies, Night, Dusk
<1>. HIDE DEF u, frame
<1>5. seen \in [Screens -> Pictures] /\ kept \in SUBSET Screens
  <2>1. T \subseteq Screens /\ u.kept \subseteq Screens
    BY <1>1, <1>2 DEF Papers
  <2>. QED BY <1>2, <1>4, <2>1, PaintedTyped
<1>. HIDE DEF seen, kept, T
<1>6. s \in Papers /\ s.plan = u.plan /\ s.lastRule = u.lastRule
  BY <1>2, <1>4, <1>5 DEF Papers
<1>7. Sound(s)
  BY <1>1, <1>2, <1>6 DEF Sound
<1>. HIDE DEF s
<1>8. Sound(t) /\ Alarmed(t)
  BY <1>1, <1>6, <1>7, TickKeepsPapers
<1>. HIDE DEF t
<1>. QED BY <1>1, <1>3, <1>8, ChoseNone DEF OwnerInv

(* A picture of one output's own. *)
LEMMA TakesOne ==
    ASSUME NEW s, Sound(s), Alarmed(s), NEW o \in s.here, NEW image \in BOOLEAN,
           NEW ch, Chose(s, ch)
    PROVE  LET t == Takes(s, {o}, image)
           IN  Sound(t) /\ Alarmed(t) /\ Chose(t, ch \cup {o})
<1>. DEFINE T == {o}
            t == Takes(s, T, image)
<1>1. s \in Papers /\ T \in SUBSET s.here /\ T # {}
  BY DEF Sound
<1>. HIDE DEF T
<1>2. Taken(t, s, T, ch)
  BY <1>1, TakesKeeps
<1>. HIDE DEF t
<1>3. Sound(t) /\ Alarmed(t)
  BY <1>1, <1>2 DEF Sound, Alarmed, Taken
<1>. QED BY <1>2, <1>3 DEF t, T, Taken

LEMMA PresentedKeeps ==
    ASSUME OwnerInv, NEW o \in Screens, NEW image \in BOOLEAN, Presented(o, image)
    PROVE  OwnerInv'
<1>. DEFINE t == Takes(wp, {o}, image)
<1>1. Sound(t) /\ Alarmed(t) /\ Chose(t, chosen \cup {o})
  BY TakesOne DEF Presented, OwnerInv
<1>2. wp' = t /\ sky' = sky /\ chosen' = chosen \cup {o}
  BY DEF Presented
<1>. HIDE DEF t
<1>. QED BY <1>1, <1>2 DEF OwnerInv

LEMMA AttachKeeps ==
    ASSUME OwnerInv, NEW o \in Screens, Attach(o)
    PROVE  OwnerInv'
<1>. DEFINE here == wp.here \cup {o}
            s == [wp EXCEPT !.here = here]
<1>1. wp \in Papers /\ Chose(wp, chosen) /\ sky \in Skies /\ here \in SUBSET Screens
  BY DEF OwnerInv, Sound, Papers
<1>2. wp.here \subseteq here /\ o \in here /\ sky' = sky
  BY DEF Attach
<1>3. \/ wp' = Takes(s, {o}, TRUE) /\ chosen' = chosen \cup {o}
      \/ wp' = TickOf(LetIn(s), TRUE, TRUE) /\ chosen' = {}
      \/ wp' = s /\ chosen' = chosen /\ wp.manifest = Nowhere /\ ~HasPaths(wp)
  BY DEF Attach
<1>. HIDE DEF here
<1>4. s \in Papers /\ s.here = here
  BY <1>1 DEF Papers
<1>5. /\ s.lit = wp.lit /\ s.plan = wp.plan /\ s.asleep = wp.asleep /\ s.seen = wp.seen
      /\ s.lastRule = wp.lastRule /\ s.alarm = wp.alarm
      /\ s.owns = wp.owns /\ s.manifest = wp.manifest
  BY <1>1 DEF Papers
<1>. HIDE DEF s
<1>6. Sound(s) /\ Chose(s, chosen) /\ Alarmed(s)
  BY <1>1, <1>2, <1>4, <1>5 DEF OwnerInv, Sound, Chose, Alarmed, HasPaths
<1>7. CASE wp' = Takes(s, {o}, TRUE) /\ chosen' = chosen \cup {o}
  <2>. DEFINE t == Takes(s, {o}, TRUE)
  <2>1. o \in s.here
    BY <1>2, <1>4
  <2>2. Sound(t) /\ Alarmed(t) /\ Chose(t, chosen \cup {o})
    BY <1>6, <2>1, TakesOne
  <2>3. wp' = t
    BY <1>7
  <2>. HIDE DEF t
  <2>. QED BY <1>1, <1>2, <1>7, <2>2, <2>3 DEF OwnerInv
<1>8. CASE wp' = TickOf(LetIn(s), TRUE, TRUE) /\ chosen' = {}
  <2>. DEFINE l == LetIn(s)
              t == TickOf(l, TRUE, TRUE)
  <2>1. l \in Papers /\ l.lastRule = 0
    BY <1>4 DEF LetIn, Papers, Nothing
  <2>2. Len(l.plan) \in Nat
    <3>1. l.plan \in Seq(Rules)
      BY <2>1, OwnerAssumption DEF Papers
    <3>. QED BY <3>1
  <2>3. Sound(l)
    BY <2>1, <2>2 DEF Sound
  <2>. HIDE DEF l
  <2>4. Sound(t) /\ Alarmed(t)
    BY <1>1, <2>1, <2>3, TickKeepsPapers
  <2>5. wp' = t
    BY <1>8 DEF l
  <2>. HIDE DEF t
  <2>. QED BY <1>1, <1>2, <1>8, <2>4, <2>5, ChoseNone DEF OwnerInv
<1>9. CASE wp' = s /\ chosen' = chosen /\ wp.manifest = Nowhere /\ ~HasPaths(wp)
  BY <1>1, <1>2, <1>6, <1>9 DEF OwnerInv
<1>. QED BY <1>3, <1>7, <1>8, <1>9

LEMMA DetachKeeps ==
    ASSUME OwnerInv, NEW o \in Screens, Detach(o)
    PROVE  OwnerInv'
<1>. DEFINE here == wp.here \ {o}
            seen == [wp.seen EXCEPT ![o] = Nothing]
            s == [wp EXCEPT !.here = here, !.seen = seen]
<1>1. wp \in Papers /\ here \in SUBSET Screens /\ chosen \subseteq Screens
  BY DEF OwnerInv, Sound, Papers, Chose
<1>2. seen \in [Screens -> Pictures]
  BY <1>1 DEF Papers, Nothing, Pictures
<1>3. \A p \in Screens \ {o} : seen[p] = wp.seen[p]
  BY <1>1 DEF Papers
<1>4. wp' = s /\ sky' = sky /\ chosen' = chosen \ {o}
  BY DEF Detach
<1>5. \A p \in wp.here : p # o => p \in here
  OBVIOUS
<1>. HIDE DEF here, seen
<1>6. s \in Papers /\ s.here = here /\ s.seen = seen
  BY <1>1, <1>2 DEF Papers
<1>7. /\ s.lit = wp.lit /\ s.plan = wp.plan /\ s.asleep = wp.asleep
      /\ s.lastRule = wp.lastRule /\ s.alarm = wp.alarm
      /\ s.owns = wp.owns /\ s.manifest = wp.manifest
  BY <1>1 DEF Papers
<1>. HIDE DEF s
<1>8. Sound(s) /\ Alarmed(s)
  BY <1>6, <1>7 DEF OwnerInv, Sound, Alarmed, HasPaths
<1>9. Chose(s, chosen \ {o})
  BY <1>1, <1>3, <1>5, <1>6, <1>7 DEF OwnerInv, Chose
<1>. QED BY <1>4, <1>8, <1>9 DEF OwnerInv

LEMMA ReloadKeeps ==
    ASSUME OwnerInv, NEW lit \in Lits, NEW plan \in Plans, NEW ruled \in RuledSets,
           Reload(lit, plan, ruled)
    PROVE  OwnerInv'
<1>. DEFINE w == [wp EXCEPT !.lit = lit, !.plan = plan, !.ruled = ruled]
            T == ruled \cap wp.here
            s == RulesApplied(w)
            lets == ~wp.palette /\ ruled = {} /\ HasPaths(s)
            n == Renewed(s, lets)
            t == TickOf(n, TRUE, TRUE)
<1>1. wp \in Papers /\ Chose(wp, chosen) /\ sky \in Skies
  BY DEF OwnerInv, Sound
<1>2. wp' = t /\ sky' = sky /\ chosen' = IF lets THEN {} ELSE chosen \cup T
  BY DEF Reload
<1>3. lit \in SUBSET Skies /\ ruled \in SUBSET Screens /\ plan \in Seq(Rules)
  BY OwnerAssumption
<1>4. /\ w \in Papers /\ w.here = wp.here /\ w.seen = wp.seen /\ w.owns = wp.owns
      /\ w.manifest = wp.manifest /\ w.plan = plan /\ w.ruled = ruled
  BY <1>1, <1>3 DEF Papers
<1>. HIDE DEF w
<1>5. Chose(w, chosen)
  BY <1>1, <1>4 DEF Chose
<1>6. s = Takes(w, T, T # {})
  BY <1>4 DEF RulesApplied
<1>7. T \in SUBSET w.here /\ (T # {}) \in BOOLEAN
  BY <1>4
<1>. HIDE DEF T, s
<1>8. s \in Papers /\ Chose(s, chosen \cup T) /\ s.plan = w.plan
  <2>1. Taken(s, w, T, chosen)
    BY <1>4, <1>5, <1>6, <1>7, TakesKeeps
  <2>. QED BY <2>1 DEF Taken
<1>9. lets \in BOOLEAN
  BY <1>1 DEF Papers
<1>. HIDE DEF lets
<1>10. /\ n \in Papers /\ n.lastRule = 0 /\ n.here = s.here /\ n.seen = s.seen
       /\ n.manifest = s.manifest /\ n.plan = s.plan
  BY <1>8, <1>9 DEF Renewed, Papers, Nothing
<1>11. ~lets => n.owns = s.owns
  BY <1>8, <1>9 DEF Renewed, Papers
<1>. HIDE DEF n
<1>12. Sound(n)
  <2>1. Len(plan) \in Nat
    BY <1>3
  <2>. QED BY <1>4, <1>8, <1>10, <2>1 DEF Sound
<1>13. Sound(t) /\ Alarmed(t) /\ \A ch : Chose(n, ch) => Chose(t, ch)
  BY <1>1, <1>10, <1>12, TickKeepsPapers
<1>. HIDE DEF t
<1>14. CASE lets
  <2>1. chosen' = {}
    BY <1>2, <1>14
  <2>. QED BY <1>1, <1>2, <1>13, <2>1, ChoseNone DEF OwnerInv
<1>15. CASE ~lets
  <2>1. chosen' = chosen \cup T
    BY <1>2, <1>15
  <2>2. Chose(n, chosen \cup T)
    BY <1>8, <1>10, <1>11, <1>15 DEF Chose
  <2>3. Chose(t, chosen \cup T)
    BY <1>13, <2>2
  <2>. QED BY <1>1, <1>2, <1>13, <2>1, <2>3 DEF OwnerInv
<1>. QED BY <1>14, <1>15

(* Everything is paused, or something wakes up. *)
LEMMA PauseKeeps ==
    ASSUME OwnerInv, Pause \/ Resume
    PROVE  OwnerInv'
<1>. DEFINE a == wp.manifest # Nowhere \/ HasPaths(wp)
<1>1. wp \in Papers
  BY DEF OwnerInv, Sound
<1>2. a \in BOOLEAN /\ (a <=> wp.manifest # Nowhere \/ HasPaths(wp))
  BY DEF HasPaths
<1>. HIDE DEF a
<1>3. PICK s : /\ wp' = s
               /\ \/ s = [wp EXCEPT !.asleep = TRUE, !.alarm = FALSE]
                  \/ s = [wp EXCEPT !.asleep = FALSE, !.alarm = a]
  BY DEF Pause, Resume, a
<1>4. sky' = sky /\ chosen' = chosen
  BY DEF Pause, Resume
<1>5. /\ s \in Papers /\ s.lit = wp.lit /\ s.plan = wp.plan /\ s.here = wp.here
      /\ s.seen = wp.seen /\ s.lastRule = wp.lastRule
      /\ s.owns = wp.owns /\ s.manifest = wp.manifest
  BY <1>1, <1>2, <1>3 DEF Papers
<1>6. s.asleep \/ s.alarm = a
  BY <1>1, <1>3 DEF Papers
<1>7. Sound(s) /\ Chose(s, chosen)
  BY <1>5 DEF OwnerInv, Sound, Chose
<1>8. Alarmed(s)
  BY <1>2, <1>5, <1>6 DEF Alarmed, HasPaths
<1>. QED BY <1>3, <1>4, <1>7, <1>8 DEF OwnerInv

LEMMA OwnerSpecInv == OwnerSpec => []OwnerInv
<1>1. OwnerInit => OwnerInv
  <2>. SUFFICES ASSUME OwnerInit PROVE OwnerInv
    OBVIOUS
  <2>1. PICK lit \in Lits, plan \in Plans :
          wp = TickOf([lit |-> lit, plan |-> plan, ruled |-> {},
                       owns |-> lit # {} \/ plan # << >>, manifest |-> Nowhere,
                       lastFrame |-> Nothing, lastRule |-> 0, palette |-> FALSE,
                       alarm |-> FALSE, asleep |-> FALSE, here |-> {}, kept |-> {},
                       seen |-> [o \in Screens |-> Nothing]], TRUE, TRUE)
    BY DEF OwnerInit
  <2>. DEFINE owns == lit # {} \/ plan # << >>
              seen == [o \in Screens |-> Nothing]
              s == [lit |-> lit, plan |-> plan, ruled |-> {},
                    owns |-> owns, manifest |-> Nowhere,
                    lastFrame |-> Nothing, lastRule |-> 0, palette |-> FALSE,
                    alarm |-> FALSE, asleep |-> FALSE, here |-> {}, kept |-> {},
                    seen |-> seen]
              t == TickOf(s, TRUE, TRUE)
  <2>2. lit \in SUBSET Skies /\ plan \in Seq(Rules) /\ owns \in BOOLEAN
    BY OwnerAssumption
  <2>3. seen \in [Screens -> Pictures] /\ Nothing \in {"none", "sun", "frame"} \X Nat
    BY DEF Pictures, Nothing
  <2>4. wp = t /\ sky \in Skies /\ chosen = {}
    BY <2>1 DEF OwnerInit
  <2>. HIDE DEF owns, seen
  <2>5. s \in Papers
    BY <2>2, <2>3 DEF Papers
  <2>6. s.lastRule = 0 /\ Len(s.plan) \in Nat
    BY <2>2
  <2>7. Sound(s)
    BY <2>5, <2>6 DEF Sound
  <2>. HIDE DEF s
  <2>8. Sound(t) /\ Alarmed(t)
    BY <2>4, <2>5, <2>7, TickKeepsPapers
  <2>. HIDE DEF t
  <2>. QED BY <2>4, <2>8, ChoseNone DEF OwnerInv
<1>2. OwnerInv /\ [OwnerNext]_ownerVars => OwnerInv'
  <2>. SUFFICES ASSUME OwnerInv, [OwnerNext]_ownerVars PROVE OwnerInv'
    OBVIOUS
  <2>1. CASE Elapse
    BY <2>1, ElapseKeeps
  <2>2. CASE Pause \/ Resume
    BY <2>2, PauseKeeps
  <2>3. CASE \E frameLoads, ruleLoads \in BOOLEAN : SunTick(frameLoads, ruleLoads)
    BY <2>3, SunTickKeeps
  <2>4. CASE \E targets \in SUBSET Screens, image \in BOOLEAN : Wallpaper(targets, image)
    BY <2>4, WallpaperKeeps
  <2>5. CASE \E target \in Screens \cup {Everywhere} : Manifest(target)
    BY <2>5, ManifestKeeps
  <2>6. CASE \E o \in Screens : Attach(o) \/ Detach(o) \/ \E image \in BOOLEAN : Presented(o, image)
    BY <2>6, AttachKeeps, DetachKeeps, PresentedKeeps
  <2>7. CASE \E lit \in Lits, plan \in Plans, ruled \in RuledSets : Reload(lit, plan, ruled)
    BY <2>7, ReloadKeeps
  <2>8. CASE UNCHANGED ownerVars
    BY <2>8 DEF ownerVars, OwnerInv, Sound, Chose, Alarmed, HasPaths, Papers, Pictures
  <2>. QED BY <2>1, <2>2, <2>3, <2>4, <2>5, <2>6, <2>7, <2>8 DEF OwnerNext
<1>. QED BY <1>1, <1>2, PTL DEF OwnerSpec

(* The wallpapers keep their types: the last rule drawn is one of the      *)
(* schedule of now, after every reload, and what was chosen is there.      *)
THEOREM OwnerTypeCorrect == OwnerSpec => []OwnerTypeOK
<1>1. OwnerInv => OwnerTypeOK
  <2>. SUFFICES ASSUME OwnerInv PROVE OwnerTypeOK
    OBVIOUS
  <2>1. wp \in Papers /\ wp.lastRule <= Len(wp.plan) /\ chosen \subseteq wp.here /\ sky \in Skies
    BY DEF OwnerInv, Sound, Chose
  <2>2. wp.lastRule \in 0..Len(wp.plan)
    <3>1. wp.plan \in Seq(Rules) /\ wp.lastRule \in Nat
      BY <2>1, OwnerAssumption DEF Papers
    <3>2. Len(wp.plan) \in Nat
      BY <3>1
    <3>. QED BY <2>1, <3>1, <3>2
  <2>3. wp.lastFrame[1] \in {"none", "sun", "frame"}
    BY <2>1 DEF Papers
  <2>4. \A o \in Screens : wp.seen[o][1] \in {"none", "chosen", "sun", "frame", "rule"}
    BY <2>1 DEF Papers, Pictures
  <2>5. /\ wp.owns \in BOOLEAN /\ wp.palette \in BOOLEAN /\ wp.alarm \in BOOLEAN
        /\ wp.asleep \in BOOLEAN
        /\ wp.manifest \in Screens \cup {Everywhere, Nowhere}
        /\ wp.here \subseteq Screens /\ wp.kept \subseteq Screens /\ wp.ruled \subseteq Screens
        /\ wp.lit \subseteq Skies /\ wp.plan \in Plans
    BY <2>1 DEF Papers
  <2>. QED BY <2>1, <2>2, <2>3, <2>4, <2>5 DEF OwnerTypeOK
<1>. QED BY <1>1, OwnerSpecInv, PTL

(* Whatever pauses, reloads, hotplugs and pictures that fail come between, *)
(* no tick paints over what was chosen, and the timer of the sun is armed  *)
(* as long as it or a manifest owns the wallpaper; of any number of rules  *)
(* with times, in any order, the schedule picks the one that began last.   *)
THEOREM OwnersKeep == OwnerSpec => []OwnersKeepTheirs
<1>1. OwnerInv => OwnersKeepTheirs
  <2>. SUFFICES ASSUME OwnerInv PROVE OwnersKeepTheirs
    OBVIOUS
  <2>1. wp \in Papers /\ sky \in Skies /\ Alarmed(wp) /\ Chose(wp, chosen)
    BY DEF OwnerInv, Sound
  <2>2. ChosenStays
    BY <2>1 DEF ChosenStays, Chose
  <2>3. ASSUME \A i \in DOMAIN wp.plan : wp.plan[i].kind = "time", wp.plan # << >>
        PROVE  \A i \in DOMAIN wp.plan :
                  (sky + 4 - wp.plan[ChosenRule(wp)].at) % 4 <= (sky + 4 - wp.plan[i].at) % 4
    BY <2>1, <2>3, RuleOfTheHour
  <2>4. SunKeepsHours
    BY <2>1, <2>3, Zenon DEF SunKeepsHours, Alarmed
  <2>. QED BY <2>2, <2>4 DEF OwnersKeepTheirs
<1>. QED BY <1>1, OwnerSpecInv, PTL

(* Both together, as they are checked: each part's steps are steps of its  *)
(* own specification or leave it as it is.                                 *)
LEMMA PartsRun == WallpapersSpec => OwnerSpec /\ TransSpec
<1>1. WallpapersInit => OwnerInit /\ TransInit
  BY DEF WallpapersInit
<1>2. [WallpapersNext]_wallpapersVars => [OwnerNext]_ownerVars /\ [TransNext]_transVars
  BY DEF WallpapersNext, wallpapersVars
<1>. QED BY <1>1, <1>2, PTL DEF WallpapersSpec, OwnerSpec, TransSpec

(* So whatever is proved of a part holds in the whole. *)
THEOREM WallpapersKeep ==
    WallpapersSpec => [](OwnerTypeOK /\ OwnersKeepTheirs /\ TransTypeOK /\ LastRequestWins)
BY PartsRun, OwnerTypeCorrect, OwnersKeep, TransTypeCorrect, LastOneWins, PTL
===============================================================================
