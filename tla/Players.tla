------------------------------- MODULE Players -------------------------------
(***************************************************************************)
(* The media players on the session bus as the daemon knows them (mpris.c): *)
(* a table of slots that are found by bus name or by the connection behind  *)
(* it, queries whose answers come later and find their slot by its address, *)
(* and the choice of the player that is shown.                              *)
(*                                                                          *)
(* The bus delivers messages in one order.  A player is a connection with   *)
(* any number of names; it tells of a change with its value or without it.  *)
(***************************************************************************)
EXTENDS Naturals, Sequences, FiniteSets, SequencesExt

CONSTANTS
    Names, Owners,  \* bus names; connections, each lives once
    Started,        \* who has which name when the daemon starts
    Moves,          \* of stopped, paused and playing
    MaxPlayers,     \* MPRIS_MAX_PLAYERS: 16 in the code
    MaxEvents,      \* what the players do, at most
    Bus,            \* the bus itself, the sender of errors
    None

VARIABLE mp
playersVars == <<mp>>

Table == 1..MaxPlayers
Lowest(S) == CHOOSE i \in S : \A j \in S : i <= j

Empty == [on |-> FALSE, name |-> None, owner |-> None, status |-> "stopped",
          just |-> FALSE, track |-> None, pend |-> 0]

On(p) == {i \in Table : p.slot[i].on}
Named(p, n) == {i \in On(p) : n # None /\ p.slot[i].name = n}
Owned(p, o) == {i \in On(p) : o # None /\ p.slot[i].owner = o}

\* clear_player_slot, which withdraws the slot's query.
Clear(p, i) == [p EXCEPT !.slot[i] = Empty, !.live = @ \ {p.slot[i].pend}]

\* merge_duplicate_player_slots: a slot with both names takes over the others
\* of the same player.
Absorb(p, i, j) ==
    LET a == p.slot[i]
        b == p.slot[j]
        takes == a.status = "stopped" /\ b.status # "stopped"
    IN  Clear([p EXCEPT !.slot[i] =
                  [a EXCEPT !.status = IF takes THEN b.status ELSE @,
                            !.just = @ \/ (takes /\ b.just),
                            !.track = IF @ = None THEN b.track ELSE @],
                !.cut = @ \/ b.pend # 0], j)

\* Seeded fault: two slots of one player stay apart.
MergedNever(p, i) == p

Merged(p, i) ==
    LET a == p.slot[i]
        Same(j) == \/ p.slot[j].name = a.name
                   \/ p.slot[j].name = None /\ p.slot[j].owner = a.owner
        others == {j \in On(p) \ {i} : a.name # None /\ a.owner # None /\ Same(j)}
    IN  FoldLeft(LAMBDA q, j : Absorb(q, i, j), p, SetToSortSeq(others, LAMBDA x, y : x < y))

\* ensure_player_slot: by name, by owner, a free one, one that does not play.
SlotFor(p, n, o) ==
    LET quiet == {i \in Table : p.slot[i].status # "playing"}
    IN  CASE Named(p, n) # {} -> Lowest(Named(p, n))
          [] Named(p, n) = {} /\ Owned(p, o) # {} -> Lowest(Owned(p, o))
          [] OTHER -> IF On(p) # Table THEN Lowest(Table \ On(p))
                      ELSE IF quiet # {} THEN Lowest(quiet) ELSE 1

Ensured(p, n, o) ==
    LET i == SlotFor(p, n, o)
        known == i \in Named(p, n) \cup Owned(p, o)
        q == IF known THEN p ELSE [Clear(p, i) EXCEPT !.cut = @ \/ p.slot[i].on]
        a == q.slot[i]
    IN  Merged([q EXCEPT !.slot[i] = [a EXCEPT !.on = TRUE,
                                               !.name = IF n # None THEN n ELSE @,
                                               !.owner = IF o # None THEN o ELSE @]], i)

\* parse_player_properties_dict_into_slot
Read(p, i, m) ==
    LET a == p.slot[i]
        status == IF m.status = None THEN a.status ELSE m.status
        ends == status = "stopped" /\ a.status # "stopped"
    IN  [p EXCEPT !.slot[i] =
            [a EXCEPT !.status = status,
                      !.just = status = "playing" /\ a.status # "playing",
                      !.track = IF m.track # None THEN m.track
                                ELSE IF ends THEN None ELSE @]]

\* reconcile_active_player: a player that has just begun, the one that was
\* shown, any other; rather one that plays than one that pauses.
Winner(p, pref) ==
    LET act == IF Named(p, p.actName) # {} THEN Named(p, p.actName) ELSE Owned(p, p.actOwner)
        cur == IF act = {} THEN 0 ELSE Lowest(act)
        Does(i, s) == i # 0 /\ p.slot[i].on /\ p.slot[i].status = s
        All(s) == {i \in On(p) : p.slot[i].status = s}
    IN  CASE Does(pref, "playing") /\ (p.slot[pref].just \/ ~Does(cur, "playing")) -> pref
          [] Does(cur, "playing") -> cur
          [] All("playing") # {} -> Lowest(All("playing"))
          [] Does(cur, "paused") -> cur
          [] Does(pref, "paused") -> pref
          [] All("paused") # {} -> Lowest(All("paused"))
          [] cur # 0 -> cur
          [] pref # 0 -> pref
          [] OTHER -> IF On(p) = {} THEN 0 ELSE Lowest(On(p))

Reconciled(p, pref) ==
    LET w == Winner(p, pref)
        a == IF w = 0 THEN Empty ELSE p.slot[w]
        q == IF pref = 0 THEN p ELSE [p EXCEPT !.slot[pref].just = FALSE]
    IN  [q EXCEPT !.actName = a.name, !.actOwner = a.owner,
                  !.meta = [who |-> IF a.name # None THEN a.name ELSE a.owner,
                            status |-> a.status,
                            track |-> IF a.status = "stopped" THEN None ELSE a.track]]

\* query_player_properties: the answer will come for the slot, wherever it is.
Query(p, i) ==
    LET a == p.slot[i]
        tok == p.asked + 1
    IN  [p EXCEPT !.asked = tok, !.live = (@ \ {a.pend}) \cup {tok},
                  !.slot[i].pend = tok,
                  !.calls = @ \cup {[tok |-> tok, slot |-> i,
                                     dest |-> IF a.name # None THEN a.name ELSE a.owner]}]

-----------------------------------------------------------------------------
(* The callbacks. *)

OnNames(p, m) ==
    FoldLeft(LAMBDA q, n : LET r == Ensured(q, n, None) IN Query(r, SlotFor(r, n, None)),
             p, SetToSeq(m.names))

OnOwner(p, m) ==
    LET gone == {i \in On(p) : \/ p.slot[i].name = m.name
                               \/ p.slot[i].name = None /\ p.slot[i].owner = m.old}
        cleared == FoldLeft(Clear, p, SetToSeq(gone))
    IN  IF m.new # None
        THEN LET r == Ensured(p, m.name, m.new) IN Query(r, SlotFor(r, m.name, m.new))
        ELSE IF gone = {} THEN p ELSE Reconciled(cleared, 0)

OnChanged(p, m) ==
    LET r == Ensured(p, None, m.from)
        i == SlotFor(r, None, m.from)
        q == Read(r, i, m)
    IN  Reconciled(IF m.inval THEN Query(q, i) ELSE q, i)

\* on_get_all_reply: for the slot as it is now.
OnReply(p, m) ==
    LET i == m.slot
        a == p.slot[i]
        q == [p EXCEPT !.live = @ \ {a.pend}, !.slot[i].pend = 0, !.slot[i].owner = m.from]
        r == IF m.from = Bus THEN q ELSE Read(q, i, m)
    IN  IF ~a.on THEN p ELSE Reconciled(Merged(r, i), i)

Handled(p, m) ==
    CASE m.kind = "names" -> OnNames(p, m)
      [] m.kind = "owner" -> OnOwner(p, m)
      [] m.kind = "changed" -> OnChanged(p, m)
      [] OTHER -> IF m.tok \in p.live THEN OnReply(p, m) ELSE p

-----------------------------------------------------------------------------
(* The bus and the players. *)

Players == {o \in Owners : mp.life[o] = "here"}
NamesOf(o) == {n \in Names : mp.own[n] = o}
Says(p, msgs) == [p EXCEPT !.link = @ \o msgs, !.events = @ + 1]

\* waywal_mpris_create: ListNames is on its way, signals already arrive.
PlayersInit ==
    \E own \in Started, does \in [Owners -> Moves] :
        /\ \A o \in Owners : does[o] # "stopped" => \E n \in Names : own[n] = o
        /\ mp = [slot |-> [i \in Table |-> Empty], live |-> {}, asked |-> 0,
                 calls |-> {[tok |-> 0, slot |-> 0, dest |-> Bus]}, link |-> << >>,
                 actName |-> None, actOwner |-> None, cut |-> FALSE,
                 meta |-> [who |-> None, status |-> "stopped", track |-> None],
                 own |-> own, events |-> 0,
                 life |-> [o \in Owners |->
                     IF \E n \in Names : own[n] = o THEN "here" ELSE "not yet"],
                 does |-> [o \in Owners |->
                     [status |-> does[o], track |-> IF does[o] = "stopped" THEN None ELSE <<o, 1>>]]]

Appear(o, n) ==
    /\ mp.events < MaxEvents /\ mp.life[o] # "gone" /\ mp.own[n] = None
    /\ NamesOf(o) = {}
    /\ mp' = Says([mp EXCEPT !.own[n] = o, !.life[o] = "here"],
                  <<[kind |-> "owner", name |-> n, old |-> None, new |-> o]>>)

\* Its connection closes: the bus announces the loss of its names.
Vanish(o) ==
    /\ o \in Players
    /\ mp' = Says([mp EXCEPT !.own = [n \in Names |-> IF @[n] = o THEN None ELSE @[n]],
                             !.life[o] = "gone"],
                  SetToSeq({[kind |-> "owner", name |-> n, old |-> o, new |-> None] :
                               n \in NamesOf(o)}))

\* The player does something else, and signals it by value: with each start it
\* takes its other track.
Change(o, status) ==
    /\ mp.events < MaxEvents /\ o \in Players
    /\ LET was == mp.does[o]
           other == IF was.track = <<o, 1>> THEN <<o, 2>> ELSE <<o, 1>>
           now == [status |-> status, track |-> IF status = "playing" THEN other ELSE was.track]
       IN  /\ now # was
           /\ mp' = Says([mp EXCEPT !.does[o] = now],
                  <<[kind |-> "changed", from |-> o, inval |-> FALSE,
                     status |-> IF status = was.status THEN None ELSE status,
                     track |-> IF now.track = was.track THEN None ELSE now.track]>>)

\* It signals that its status is no longer what it was.
Invalidate(o, status) ==
    /\ mp.events < MaxEvents /\ o \in Players /\ status # mp.does[o].status
    /\ mp' = Says([mp EXCEPT !.does[o].status = status],
                  <<[kind |-> "changed", from |-> o, inval |-> TRUE,
                     status |-> None, track |-> None]>>)

\* A call is answered, by the bus if its destination has gone.
Answer(c) ==
    /\ c \in mp.calls
    /\ LET o == IF c.dest \in Names THEN mp.own[c.dest] ELSE c.dest
           here == o \in Players
       IN  mp' = [mp EXCEPT !.calls = @ \ {c}, !.link = Append(@,
              IF c.tok = 0 THEN [kind |-> "names", names |-> {n \in Names : mp.own[n] # None}]
              ELSE [kind |-> "reply", tok |-> c.tok, slot |-> c.slot,
                    from |-> IF here THEN o ELSE Bus,
                    status |-> IF here THEN mp.does[o].status ELSE None,
                    track |-> IF here THEN mp.does[o].track ELSE None])]

\* waywal_mpris_dispatch
Hear ==
    /\ mp.link # << >>
    /\ mp' = [Handled(mp, Head(mp.link)) EXCEPT !.link = Tail(@)]

PlayersNext ==
    \/ Hear
    \/ \E c \in mp.calls : Answer(c)
    \/ \E o \in Owners :
          \/ Vanish(o) \/ \E n \in Names : Appear(o, n)
          \/ \E status \in Moves : Invalidate(o, status) \/ Change(o, status)

PlayersSpec == PlayersInit /\ [][PlayersNext]_playersVars

-----------------------------------------------------------------------------
Settled == mp.link = << >> /\ mp.calls = {}

\* Once everything said has been heard: the table knows every player that ever had
\* room, each once, with what it does now, and no other; and the player that
\* is shown is one of them, one that plays if any does.  Whatever crossed on the
\* bus: answers and signals, answers and slots that got a new tenant.
PlayersSettle ==
    Settled =>
        /\ \A i \in On(mp) :
              LET a == mp.slot[i]
              IN  /\ a.owner \in Players /\ Owned(mp, a.owner) = {i}
                  /\ a.track = None \/ a.track[1] = a.owner
                  /\ ~mp.cut => /\ a.status = mp.does[a.owner].status
                                    /\ a.track \in {None, mp.does[a.owner].track}
        /\ ~mp.cut => \A n \in Names : mp.own[n] # None => Named(mp, n) # {}
        /\ LET does == {mp.slot[i].status : i \in On(mp)}
           IN  /\ mp.meta.status = "playing" <=> "playing" \in does
               /\ mp.meta.who # None => \E i \in On(mp) :
                     /\ mp.meta.who \in {mp.slot[i].name, mp.slot[i].owner}
                     /\ mp.meta.status = mp.slot[i].status
==============================================================================
