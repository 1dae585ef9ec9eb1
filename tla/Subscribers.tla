---------------------------- MODULE Subscribers ----------------------------
(***************************************************************************)
(* The table of event subscribers (ipc_server.c): subscribe, broadcast and *)
(* reap compact one array of descriptors in place.  A client reads at its  *)
(* own pace from a socket buffer that holds a few events, and hangs up     *)
(* when it likes; the daemon never waits for it.                            *)
(*                                                                         *)
(* Events are numbered.  A socket holds `Room` whole events and part of    *)
(* one more.  A descriptor is named by its client: the number returns only *)
(* after it was closed, so an open descriptor has one owner.                *)
(***************************************************************************)
EXTENDS Compaction

CONSTANTS
    Clients,    \* connections, each used once
    Seats,      \* the size of subscriber_fds, 16
    Room,       \* whole events that fit in a socket buffer
    MaxEvents   \* bound: events broadcast

ASSUME SubscribersAssumption ==
    /\ Seats \in Nat \ {0}
    /\ Room \in Nat \ {0}
    /\ MaxEvents \in Nat
    /\ IsFiniteSet(Clients)

VARIABLES
    table,    \* subscriber_fds[0 .. num_subscribers - 1]
    conn,     \* per client: "new", "open" or "closed", the daemon's end
    gone,     \* clients that have hung up their end
    buffer,   \* per client, what waits in its socket
    given,    \* per client, the whole events written to it so far (history)
    torn,     \* clients whose last bytes are a part of an event
    clock     \* events broadcast so far

subVars == <<table, conn, gone, buffer, given, torn, clock>>

SubTypeOK ==
    /\ table \in Seq(Clients)
    /\ Len(table) <= Seats
    /\ conn \in [Clients -> {"new", "open", "closed"}]
    /\ gone \subseteq Clients
    /\ buffer \in [Clients -> Seq(0..MaxEvents)]
    /\ given \in [Clients -> Seq(0..MaxEvents)]
    /\ torn \subseteq Clients
    /\ clock \in 0..MaxEvents

SubInit ==
    /\ table = << >>
    /\ conn = [c \in Clients |-> "new"]
    /\ gone = {}
    /\ buffer = [c \in Clients |-> << >>]
    /\ given = [c \in Clients |-> << >>]
    /\ torn = {}
    /\ clock = 0

-----------------------------------------------------------------------------

Seated == {table[i] : i \in DOMAIN table}

\* daemon_reap_dead_subscribers finds by poll and a peek who has hung up, also when
\* events still wait unread.  The loops that close an entry shift the later ones down.
Dead == Seated \cap gone

Living == Compact(table, Dead)

\* WAYWAL_REQ_SUBSCRIBE makes room by closing the oldest of a full table.
MakeRoom(seats) ==
    IF Len(seats) >= Seats THEN SubSeq(seats, 2, Len(seats)) ELSE seats

\* Close the daemon's end of a set of connections.
Closing(set, c) == IF c \in set THEN "closed" ELSE conn[c]

-----------------------------------------------------------------------------

\* A client asks for events.  The reply with the state as it is now is written with
\* the socket still blocking; if that fails the connection is closed and the
\* table is not looked at.
SubscribeFails(c) ==
    /\ conn[c] = "new"
    /\ conn' = [conn EXCEPT ![c] = "closed"]
    /\ UNCHANGED <<table, gone, buffer, given, torn, clock>>

\* Seeded fault: the table is not reaped before the oldest entry is evicted.
SubscribeUnreaped(c) ==
    /\ conn[c] = "new"
    /\ LET seats == MakeRoom(table)
       IN  /\ table' = Append(seats, c)
           /\ conn' = [k \in Clients |->
                 IF k = c THEN "open"
                 ELSE Closing(Seated \ {seats[i] : i \in DOMAIN seats}, k)]
    /\ buffer' = [buffer EXCEPT ![c] = <<clock>>]
    /\ given' = [given EXCEPT ![c] = <<clock>>]
    /\ UNCHANGED <<gone, torn, clock>>

\* The reply went out: reap, make room, take the last seat.
Subscribe(c) ==
    /\ conn[c] = "new"
    /\ LET seats == MakeRoom(Living)
       IN  /\ table' = Append(seats, c)
           /\ conn' = [k \in Clients |->
                 IF k = c THEN "open"
                 ELSE Closing(Seated \ {seats[i] : i \in DOMAIN seats}, k)]
    /\ buffer' = [buffer EXCEPT ![c] = <<clock>>]
    /\ given' = [given EXCEPT ![c] = <<clock>>]
    /\ UNCHANGED <<gone, torn, clock>>

\* daemon_broadcast_event: reap, then one sendmsg each, without waiting; whoever does
\* not take the whole event is closed.
Full(c) == Len(buffer[c]) >= Room

\* Seeded fault: an event that was written in part counts as written.
BroadcastPart(stuck) ==
    /\ clock < MaxEvents
    /\ clock' = clock + 1
    /\ LET seats == Living
           S == {seats[i] : i \in DOMAIN seats}
           failed == {c \in S : Full(c)} \ stuck
           served == S \ (failed \cup stuck)
       IN  /\ table' = Compact(seats, failed)
           /\ conn' = [c \in Clients |-> Closing(Dead \cup failed, c)]
           /\ buffer' = [c \in Clients |->
                 IF c \in served THEN Append(buffer[c], clock + 1) ELSE buffer[c]]
           /\ given' = [c \in Clients |->
                 IF c \in served THEN Append(given[c], clock + 1) ELSE given[c]]
           /\ stuck \subseteq {c \in S : Full(c)}
           /\ torn' = torn \cup stuck
    /\ UNCHANGED gone

\* `stuck` are the full sockets that took a part of the event.
Broadcast(stuck) ==
    /\ clock < MaxEvents
    /\ clock' = clock + 1
    /\ LET seats == Living
           S == {seats[i] : i \in DOMAIN seats}
           failed == {c \in S : Full(c)}
           served == S \ failed
       IN  /\ table' = Compact(seats, failed)
           /\ conn' = [c \in Clients |-> Closing(Dead \cup failed, c)]
           /\ buffer' = [c \in Clients |->
                 IF c \in served THEN Append(buffer[c], clock + 1) ELSE buffer[c]]
           /\ given' = [c \in Clients |->
                 IF c \in served THEN Append(given[c], clock + 1) ELSE given[c]]
           /\ stuck \subseteq failed
           /\ torn' = torn \cup stuck
    /\ UNCHANGED gone

\* The client takes the next whole event.
Take(c) ==
    /\ c \notin gone
    /\ buffer[c] # << >>
    /\ buffer' = [buffer EXCEPT ![c] = Tail(@)]
    /\ UNCHANGED <<table, conn, gone, given, torn, clock>>

\* The client hangs up, whether or not it has read everything.
HangUp(c) ==
    /\ conn[c] # "new"
    /\ c \notin gone
    /\ gone' = gone \cup {c}
    /\ UNCHANGED <<table, conn, buffer, given, torn, clock>>

SubNext ==
    \/ \E stuck \in SUBSET Clients : Broadcast(stuck)
    \/ \E c \in Clients : Subscribe(c) \/ SubscribeFails(c) \/ Take(c) \/ HangUp(c)

SubSpec == SubInit /\ [][SubNext]_subVars

-----------------------------------------------------------------------------

\* A step closes a subscriber only for a reason of its own: it has hung up, its socket
\* is full, or it is the oldest of as many living ones as there are seats.
\* Nobody loses its stream because another client left or stalled.
ClosedForCause ==
    [][\A c \in Clients :
          conn[c] = "open" /\ conn'[c] = "closed" =>
             \/ c \in gone
             \/ Full(c) /\ clock' > clock
             \/ Cardinality(Seated \ gone) = Seats /\ c = Living[1]]_subVars

\* The abstract feed: what is promised to the clients (see EventFeed).
Feed == INSTANCE EventFeed WITH
            stream <- given,
            open <- {c \in Clients : conn[c] = "open"}

\* Every client sees the state when it joined and every later event, whole and in order,
\* until its stream ends; a torn event is the last thing it gets.
RefinesFeed == Feed!FeedSpec
=============================================================================
