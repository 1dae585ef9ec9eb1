---------------------------- MODULE ServerSocket ----------------------------
(***************************************************************************)
(* How a daemon gets and leaves the socket of its namespace (main.c,       *)
(* ipc_proto.c): is somebody answering, is the file stale, unlink, bind,   *)
(* listen, serve, unlink, close.  Daemons crash anywhere and leave their   *)
(* socket file behind.  A daemon started by systemd gets a socket that is   *)
(* there already and stays.                                                *)
(*                                                                         *)
(* A restart is another member of Daemons.  Starts do not overlap here,    *)
(* stops overlap with everything: two starters that test the same stale    *)
(* file can unlink each other's socket, which nothing in the code prevents *)
(* (with Overlap = TRUE the property below fails).                          *)
(***************************************************************************)
EXTENDS Naturals, FiniteSets

CONSTANTS
    Daemons,      \* processes, each of which starts at most once
    Activated,    \* those that systemd starts when its socket unit is on
    Systemd,      \* the owner of that socket
    NoFile,       \* no file at the path
    Overlap       \* may a daemon start while another one is starting

ASSUME ServerSocketAssumption ==
    /\ Activated \subseteq Daemons
    /\ Systemd \notin Daemons
    /\ NoFile \notin Daemons \cup {Systemd}
    /\ Overlap \in BOOLEAN

VARIABLES
    stage,       \* per daemon, where in main it is
    file,        \* whose socket the path names
    listening,   \* daemons whose bound socket accepts connections
    asked        \* per daemon, who was asked whether it is alive

sockVars == <<stage, file, listening, asked>>

Starting == {"check", "asking", "create", "stale", "bind", "listen"}

SockTypeOK ==
    /\ stage \in [Daemons -> Starting \cup {"new", "serving", "leaving", "closing", "gone"}]
    /\ file \in Daemons \cup {Systemd, NoFile}
    /\ listening \subseteq Daemons
    /\ asked \in [Daemons -> Daemons \cup {Systemd, NoFile}]

SockInit ==
    /\ stage = [d \in Daemons |-> "new"]
    /\ file \in {NoFile} \cup (IF Activated = {} THEN {} ELSE {Systemd})
    /\ listening = {}
    /\ asked = [d \in Daemons |-> NoFile]

Go(d, s) == stage' = [stage EXCEPT ![d] = s]

\* systemd listens on the path and hands its socket to the daemon it starts.
Handed(d) == d \in Activated /\ file = Systemd

\* connect(2) on the path meets a socket that accepts.
Accepting == file = Systemd \/ file \in listening

-----------------------------------------------------------------------------

Start(d) ==
    /\ stage[d] = "new"
    /\ Overlap \/ \A e \in Daemons : stage[e] \notin Starting
    /\ Go(d, "check")
    /\ UNCHANGED <<file, listening, asked>>

\* waywal_ipc_namespace_is_alive: systemd's child does not ask; nobody there to ask;
\* or connect and send a PING.
Ask(d) ==
    /\ stage[d] = "check"
    /\ IF ~Handed(d) /\ Accepting
       THEN /\ Go(d, "asking")
            /\ asked' = [asked EXCEPT ![d] = file]
       ELSE Go(d, "create") /\ UNCHANGED asked
    /\ UNCHANGED <<file, listening>>

\* An answer, or none within a second, both mean that a daemon is there.
ToldAlive(d) ==
    /\ stage[d] = "asking"
    /\ asked[d] = Systemd \/ asked[d] \in listening
    /\ Go(d, "gone")
    /\ UNCHANGED <<file, listening, asked>>

\* The socket asked was closed: the connection ends without an answer.
ToldDead(d) ==
    /\ stage[d] = "asking"
    /\ asked[d] # Systemd /\ asked[d] \notin listening
    /\ Go(d, "create")
    /\ UNCHANGED <<file, listening, asked>>

\* waywal_ipc_server_create: take systemd's socket; or look at the path; a socket that
\* accepts belongs to another daemon.
Create(d) ==
    /\ stage[d] = "create"
    /\ Go(d, IF Handed(d) THEN "serving"
             ELSE IF file = NoFile THEN "bind"
             ELSE IF Accepting THEN "gone"
             ELSE "stale")
    /\ UNCHANGED <<file, listening, asked>>

\* The connection was refused: the file is left over.
UnlinkStale(d) ==
    /\ stage[d] = "stale"
    /\ file' = NoFile
    /\ Go(d, "bind")
    /\ UNCHANGED <<listening, asked>>

\* bind fails when there is a file again.
Bind(d) ==
    /\ stage[d] = "bind"
    /\ IF file = NoFile
       THEN file' = d /\ Go(d, "listen")
       ELSE UNCHANGED file /\ Go(d, "gone")
    /\ UNCHANGED <<listening, asked>>

Listen(d) ==
    /\ stage[d] = "listen"
    /\ listening' = listening \cup {d}
    /\ Go(d, "serving")
    /\ UNCHANGED <<file, asked>>

\* Seeded fault: the socket is closed when the loop ends, its file goes later.
LeaveClosing(d) ==
    /\ stage[d] = "serving"
    /\ Go(d, "leaving")
    /\ listening' = listening \ {d}
    /\ UNCHANGED <<file, asked>>

\* The main loop ends; engines and outputs are torn down with the socket still open.
Leave(d) ==
    /\ stage[d] = "serving"
    /\ Go(d, "leaving")
    /\ UNCHANGED <<file, listening, asked>>

\* Whatever the path names now is unlinked; systemd's socket stays.
Unlink(d) ==
    /\ stage[d] = "leaving"
    /\ file' = IF Handed(d) THEN file ELSE NoFile
    /\ Go(d, "closing")
    /\ UNCHANGED <<listening, asked>>

Close(d) ==
    /\ stage[d] = "closing"
    /\ listening' = listening \ {d}
    /\ Go(d, "gone")
    /\ UNCHANGED <<file, asked>>

\* A crash or SIGKILL anywhere: the kernel closes the socket, the file stays.
Crash(d) ==
    /\ stage[d] \notin {"new", "gone"}
    /\ listening' = listening \ {d}
    /\ Go(d, "gone")
    /\ UNCHANGED <<file, asked>>

SockNext ==
    \E d \in Daemons :
        \/ Start(d) \/ Ask(d) \/ ToldAlive(d) \/ ToldDead(d)
        \/ Create(d) \/ UnlinkStale(d) \/ Bind(d) \/ Listen(d)
        \/ Leave(d) \/ Unlink(d) \/ Close(d) \/ Crash(d)

SockSpec == SockInit /\ [][SockNext]_sockVars

-----------------------------------------------------------------------------

\* A daemon that serves is the one clients reach, whatever crashed before it and whoever
\* is still shutting down next to it: neither the test for a stale file nor the
\* unlink at the end of another daemon takes its file away, and there are never two.
ServingIsReachable ==
    \A d \in Daemons :
        stage[d] = "serving" => file = d \/ Handed(d)
=============================================================================
