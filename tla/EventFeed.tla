----------------------------- MODULE EventFeed -----------------------------
(***************************************************************************)
(* What a client of `wwal subscribe` is promised: the state of the daemon  *)
(* when it joins, then every event that follows, each whole and in order,  *)
(* up to the end of its stream.  The stream may be ended at any event, and  *)
(* what is written of that event does not count; nothing follows an end.   *)
(***************************************************************************)
EXTENDS Naturals, Sequences

CONSTANT Clients

VARIABLES
    clock,    \* the number of events broadcast so far
    stream,   \* per client, what it has been given: numbers of events
    open      \* the clients whose stream goes on

feed == <<clock, stream, open>>

FeedInit ==
    /\ clock = 0
    /\ stream = [c \in Clients |-> << >>]
    /\ open = {}

\* A client joins and is given the state as of now; streams may end.
Join(c) ==
    /\ stream[c] = << >>
    /\ stream' = [stream EXCEPT ![c] = <<clock>>]
    /\ \E ended \in SUBSET open : open' = (open \ ended) \cup {c}
    /\ UNCHANGED clock

\* An event reaches everybody whose stream goes on after it.
Publish ==
    /\ clock' = clock + 1
    /\ \E still \in SUBSET open :
          /\ open' = still
          /\ stream' = [c \in Clients |->
                IF c \in still THEN Append(stream[c], clock + 1) ELSE stream[c]]

\* Streams end.
End ==
    /\ \E ended \in SUBSET open : open' = open \ ended
    /\ UNCHANGED <<clock, stream>>

FeedNext == Publish \/ End \/ \E c \in Clients : Join(c)

FeedSpec == FeedInit /\ [][FeedNext]_feed
=============================================================================
