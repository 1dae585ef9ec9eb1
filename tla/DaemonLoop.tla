------------------------------ MODULE DaemonLoop ------------------------------
(***************************************************************************)
(* The main loop of wwald (src/daemon/main.c, main and                     *)
(* daemon_uring_event_callback) with the four kinds of descriptor it       *)
(* waits on: the Wayland socket, the IPC server socket, a timer and the    *)
(* signalfd.  One thread takes a batch of events, handles them, looks at   *)
(* the Wayland connection and at `running', and waits again.               *)
(*                                                                         *)
(* The two backends differ in what an event means.  epoll_wait reports     *)
(* every descriptor that has something to read.  A multishot io_uring poll *)
(* completes once per wake-up, and wake-ups that come before the kernel    *)
(* has posted the completion are one completion: a handler that leaves     *)
(* something unread is not called again for it.  How completions find      *)
(* their handler is the subject of UringLoop.                              *)
(*                                                                         *)
(* Bound: MaxEnv caps the signals, clients, expirations and messages.      *)
(***************************************************************************)
EXTENDS Naturals, Sequences, FiniteSets, TLAPS

CONSTANTS Backends,      \* subset of {"epoll", "multishot"}
          Signals,       \* the blocked signals that may arrive
          Clients,       \* what a client may ask: "request", "kill"
          MaxAcceptErrors, \* failures of accept4 other than EAGAIN and EINTR
          MaxEnv

ASSUME DaemonLoopAssumption ==
    /\ Backends \subseteq {"epoll", "multishot"}
    /\ Signals \subseteq {"HUP", "INT", "TERM"}
    /\ Clients \subseteq {"request", "kill"}
    /\ MaxAcceptErrors \in Nat /\ MaxEnv \in Nat

Sources == {"wayland", "accept", "timer", "signal"}

VARIABLES
    backend,   \* how the daemon waits for events, settled at its start
    pc,        \* "wait", "batch", "accept" (inside its loop), "check", "stopped"
    batch,     \* the events of this iteration not yet handled
    woken,     \* completions the kernel has posted or is about to post
    running,   \* state.running
    wlOk,      \* g_daemon_wl_ok
    wl,        \* the Wayland socket: "quiet", "data" or "lost"
    backlog,   \* connections waiting in the server socket
    expired,   \* has the timer expired since it was last read?
    sigs,      \* pending signals; a signal that is pending does not queue
    late,      \* clients answered after running became false
    errors,    \* accept4 failures so far
    env        \* steps of the outside world so far

vars  == <<backend, pc, batch, woken, running, wlOk, wl, backlog, expired, sigs, late,
           errors, env>>
world == <<wl, backlog, expired, sigs, env>>

Init ==
    /\ backend \in Backends
    /\ pc = "wait" /\ batch = {} /\ woken = {}
    /\ running = TRUE /\ wlOk = TRUE
    /\ wl = "quiet" /\ backlog = <<>> /\ expired = FALSE /\ sigs = {}
    /\ late = 0 /\ errors = 0 /\ env = 0

Readable ==
    {s \in Sources : \/ s = "wayland" /\ wl # "quiet"
                     \/ s = "accept"  /\ backlog # <<>>
                     \/ s = "timer"   /\ expired
                     \/ s = "signal"  /\ sigs # {}}

(* What one wait returns.  Any handler but the signal and accept ones may   *)
(* have read the Wayland socket already, so an event may be out of date.   *)
EventsEdge == woken                                        \* seeded fault
Events == IF backend = "epoll" THEN Readable ELSE woken

-----------------------------------------------------------------------------
(* The outside world.                                                      *)

Arrive(source) ==
    /\ pc # "stopped"
    /\ env < MaxEnv /\ env' = env + 1
    /\ woken' = woken \cup {source}
    /\ UNCHANGED <<pc, batch, running, wlOk, late, errors>>

Message ==
    /\ Arrive("wayland") /\ wl = "quiet" /\ wl' = "data"
    /\ UNCHANGED <<backlog, expired, sigs>>

LoseDisplay ==
    /\ Arrive("wayland") /\ wl # "lost" /\ wl' = "lost"
    /\ UNCHANGED <<backlog, expired, sigs>>

Connect(client) ==
    /\ Arrive("accept") /\ backlog' = Append(backlog, client)
    /\ UNCHANGED <<wl, expired, sigs>>

Expire ==
    /\ Arrive("timer") /\ ~expired /\ expired' = TRUE
    /\ UNCHANGED <<wl, backlog, sigs>>

Raise(sig) ==
    /\ Arrive("signal") /\ sig \notin sigs /\ sigs' = sigs \cup {sig}
    /\ UNCHANGED <<wl, backlog, expired>>

-----------------------------------------------------------------------------
(* The loop.                                                               *)

(* daemon_pump_wayland_events: read what is there; a failed read or a      *)
(* display error clears g_daemon_wl_ok.                                    *)
PumpForgetful ==                                           \* seeded fault
    /\ wl' = IF wl = "data" THEN "quiet" ELSE wl
    /\ wlOk' = wlOk
Pump ==
    /\ wl' = IF wl = "data" THEN "quiet" ELSE wl
    /\ wlOk' = (wlOk /\ wl # "lost")

(* A new iteration: wlOk is set again and the thread blocks for events. *)
Wait ==
    /\ pc = "wait" /\ Events # {}
    /\ batch' = Events /\ woken' = woken \ Events
    /\ wlOk' = TRUE /\ pc' = "batch"
    /\ UNCHANGED <<running, wl, backlog, expired, sigs, late, errors, env>>

(* Wayland events go before all others, the others come in any order. *)
Handling(source) ==
    /\ pc = "batch" /\ source \in batch
    /\ source # "wayland" => "wayland" \notin batch
    /\ batch' = batch \ {source}

HandleWayland ==
    /\ Handling("wayland") /\ Pump
    /\ UNCHANGED <<pc, woken, running, backlog, expired, sigs, late, errors, env>>

(* A timer handler pumps Wayland and reads the timer before anything else. *)
TimerRead == FALSE

HandleTimer ==
    /\ Handling("timer") /\ Pump
    /\ expired' = TimerRead
    /\ UNCHANGED <<pc, woken, running, backlog, sigs, late, errors, env>>

(* One read of the signalfd yields one signal, the lowest number first.    *)
NextSignal ==
    IF "HUP" \in sigs THEN "HUP" ELSE IF "INT" \in sigs THEN "INT" ELSE "TERM"

(* SIGHUP reloads the configuration, the others stop the loop. *)
SignalStops(sig) == sig # "HUP"

HandleSignal ==
    /\ Handling("signal")
    /\ IF sigs = {}
       THEN UNCHANGED <<sigs, running>>
       ELSE /\ sigs' = sigs \ {NextSignal}
            /\ running' = (running /\ ~SignalStops(NextSignal))
    /\ UNCHANGED <<pc, woken, wlOk, wl, backlog, expired, late, errors, env>>

(* daemon_handle_ipc_connection: accept until EAGAIN.  Each client is      *)
(* answered (or given up after its ten seconds) before the next one, and   *)
(* the loop ends early once the daemon is to stop.                         *)
BeginAccept ==
    /\ Handling("accept") /\ pc' = "accept"
    /\ UNCHANGED <<woken, running, wlOk, wl, backlog, expired, sigs, late,
                   errors, env>>

AcceptGoesOnAlways == TRUE                                 \* seeded fault
AcceptGoesOn == running'

Answer ==
    /\ pc = "accept" /\ backlog # <<>>
    /\ backlog' = Tail(backlog)
    /\ running' = (running /\ Head(backlog) # "kill")
    /\ late' = IF running THEN late ELSE late + 1
    /\ pc' = IF AcceptGoesOn THEN "accept" ELSE "batch"
    /\ UNCHANGED <<batch, woken, wlOk, wl, expired, sigs, errors, env>>

AcceptDone ==
    /\ pc = "accept" /\ backlog = <<>> /\ pc' = "batch"
    /\ UNCHANGED <<batch, woken, running, wlOk, world, late, errors>>

(* accept4 fails (out of descriptors): the connection stays in the queue. *)
AcceptError ==
    /\ pc = "accept" /\ backlog # <<>>
    /\ errors < MaxAcceptErrors /\ errors' = errors + 1
    /\ pc' = "batch"
    /\ UNCHANGED <<batch, woken, running, wlOk, world, late>>

(* The end of an iteration. *)
Continue == running /\ wlOk

EndBatch ==
    /\ pc = "batch" /\ batch = {}
    /\ pc' = IF Continue THEN "wait" ELSE "stopped"
    /\ UNCHANGED <<batch, woken, running, wlOk, world, late, errors>>

World ==
    \/ Message \/ LoseDisplay \/ Expire
    \/ \E client \in Clients : Connect(client)
    \/ \E sig \in Signals : Raise(sig)

Daemon ==
    \/ Wait \/ HandleWayland \/ HandleTimer \/ HandleSignal
    \/ BeginAccept \/ Answer \/ AcceptDone \/ AcceptError \/ EndBatch

Next == (World \/ Daemon) /\ UNCHANGED backend
Spec == Init /\ [][Next]_vars

(* The one thread of the daemon runs whenever it is not blocked; nothing is *)
(* assumed of the outside world.                                           *)
FairSpec == Spec /\ WF_vars(Daemon /\ UNCHANGED backend)

-----------------------------------------------------------------------------
(* Shutting down, the daemon answers at most one more client: the rest of  *)
(* the batch is still handled after a signal or a KILL, and the accept     *)
(* loop in it ends after its first client (daemon_handle_ipc_connection).  *)
AtMostOneLateClient == late <= 1

(* A multishot poll does not call again after a failed accept, epoll does. *)
NotCalledAgain == backend = "multishot" /\ errors > 0

(* What arrives is served unless the daemon stops first.                   *)
(* - No connection is left in the queue while the loop sleeps              *)
(*   (daemon_handle_ipc_connection drains it).                             *)
(* - A SIGHUP is read, so the configuration is reloaded.                   *)
(* - An expired timer is read, so that it can expire again.                *)
ClientsAnswered == backlog # <<>> ~> (backlog = <<>> \/ pc = "stopped" \/ NotCalledAgain)
ReloadServed == "HUP" \in sigs ~> ("HUP" \notin sigs \/ pc = "stopped")
TimersServed == expired ~> (~expired \/ pc = "stopped")
EventsServed == ClientsAnswered /\ ReloadServed /\ TimersServed

(* The daemon stops when it is told to.                                    *)
(* - Under epoll a SIGTERM ends it, whatever other signals are pending     *)
(*   with it.  Under io_uring one that is pending behind a SIGHUP stays    *)
(*   unread: one completion, one read of the signalfd (main.c:4752).       *)
(* - A KILL request of a client ends it.                                   *)
(* - A daemon whose compositor is gone exits.                              *)
TermStopsEpoll == backend = "epoll" /\ "TERM" \in sigs ~> pc = "stopped"
KillStops ==
    "kill" \in {backlog[i] : i \in DOMAIN backlog} ~> (pc = "stopped" \/ NotCalledAgain)
LostDisplayStops == wl = "lost" ~> pc = "stopped"
StopsWhenTold == TermStopsEpoll /\ KillStops /\ LostDisplayStops

-----------------------------------------------------------------------------
(* Proofs: the type invariant, and that a daemon told to stop answers at   *)
(* most one more client, for any number of events from outside, any        *)
(* signals and clients, and both backends.                                 *)
(*                                                                         *)
(* That at most one is answered late cannot be seen from `late' alone: it  *)
(* takes that an iteration only begins while the daemon runs, that one     *)
(* batch holds the server socket at most once, and that the accept loop    *)
(* is left for good with the first answer given after `running' is false.  *)

(* Every variable has its type. *)
LoopTypeOK ==
    /\ backend \in Backends
    /\ pc \in {"wait", "batch", "accept", "stopped"}
    /\ batch \subseteq Sources /\ woken \subseteq Sources
    /\ running \in BOOLEAN /\ wlOk \in BOOLEAN
    /\ wl \in {"quiet", "data", "lost"}
    /\ backlog \in Seq(Clients)
    /\ expired \in BOOLEAN
    /\ sigs \subseteq Signals
    /\ late \in Nat /\ errors \in 0..MaxAcceptErrors /\ env \in 0..MaxEnv

(* How far the daemon has got since it was told to stop. *)
StopsInThisBatch == pc = "wait" => running
NoneLateYet      == running => late = 0
AcceptsOnce      == pc = "accept" => "accept" \notin batch /\ late = 0
LastAnswerGiven  == late # 0 => late = 1 /\ "accept" \notin batch

LateInv ==
    LoopTypeOK /\ StopsInThisBatch /\ NoneLateYet /\ AcceptsOnce /\ LastAnswerGiven

-----------------------------------------------------------------------------

LEMMA InitLate == Init => LateInv
<1> SUFFICES ASSUME Init
             PROVE  LateInv
  OBVIOUS
<1>1. LoopTypeOK
  <2>1. late \in Nat /\ errors \in 0..MaxAcceptErrors /\ env \in 0..MaxEnv
    BY DaemonLoopAssumption DEF Init
  <2>2. running \in BOOLEAN /\ wlOk \in BOOLEAN /\ expired \in BOOLEAN
    BY DEF Init
  <2>3. backlog \in Seq(Clients)
    BY DEF Init
  <2>4. QED
    BY <2>1, <2>2, <2>3, Zenon DEF Init, LoopTypeOK
<1>2. StopsInThisBatch /\ NoneLateYet /\ AcceptsOnce /\ LastAnswerGiven
  BY DEF Init, StopsInThisBatch, NoneLateYet, AcceptsOnce, LastAnswerGiven
<1>3. QED
  BY <1>1, <1>2 DEF LateInv

(* The outside world changes neither the program counter nor the batch. *)
LEMMA WorldKeepsLate ==
    ASSUME LateInv, World, UNCHANGED backend
    PROVE  LateInv'
<1> USE DaemonLoopAssumption
    DEF LateInv, LoopTypeOK, StopsInThisBatch, NoneLateYet, AcceptsOnce,
        LastAnswerGiven, Sources, Arrive
<1>1. CASE Message
  BY <1>1 DEF Message
<1>2. CASE LoseDisplay
  BY <1>2 DEF LoseDisplay
<1>3. CASE Expire
  BY <1>3 DEF Expire
<1>4. ASSUME NEW client \in Clients, Connect(client)
      PROVE  LateInv'
  BY <1>4 DEF Connect
<1>5. ASSUME NEW sig \in Signals, Raise(sig)
      PROVE  LateInv'
  BY <1>5 DEF Raise
<1>6. QED
  BY <1>1, <1>2, <1>3, <1>4, <1>5 DEF World

(* What a wait returns are sources. *)
LEMMA EventsAreSources ==
    ASSUME LoopTypeOK PROVE Events \subseteq Sources
  BY DEF LoopTypeOK, Events, Readable

LEMMA DaemonKeepsLate ==
    ASSUME LateInv, Daemon, UNCHANGED backend
    PROVE  LateInv'
<1> USE DaemonLoopAssumption
    DEF LateInv, LoopTypeOK, StopsInThisBatch, NoneLateYet, AcceptsOnce,
        LastAnswerGiven, Sources, Handling, Pump, world
<1>1. CASE Wait
  BY <1>1, EventsAreSources DEF Wait
<1>2. CASE HandleWayland
  BY <1>2 DEF HandleWayland
<1>3. CASE HandleTimer
  BY <1>3 DEF HandleTimer, TimerRead
<1>4. CASE HandleSignal
  BY <1>4 DEF HandleSignal, SignalStops
<1>5. CASE BeginAccept
  BY <1>5 DEF BeginAccept
<1>6. CASE Answer
  <2>1. Tail(backlog) \in Seq(Clients)
    BY <1>6 DEF Answer
  <2>2. running' = (running /\ Head(backlog) # "kill") /\ running' \in BOOLEAN
    BY <1>6 DEF Answer
  <2>3. CASE running
    BY <1>6, <2>1, <2>2, <2>3 DEF Answer, AcceptGoesOn
  <2>4. CASE ~running
    BY <1>6, <2>1, <2>2, <2>4 DEF Answer, AcceptGoesOn
  <2>5. QED
    BY <2>3, <2>4
<1>7. CASE AcceptDone
  BY <1>7 DEF AcceptDone
<1>8. CASE AcceptError
  BY <1>8 DEF AcceptError
<1>9. CASE EndBatch
  BY <1>9 DEF EndBatch, Continue
<1>10. QED
  BY <1>1, <1>2, <1>3, <1>4, <1>5, <1>6, <1>7, <1>8, <1>9 DEF Daemon

LEMMA LateInductive == LateInv /\ [Next]_vars => LateInv'
<1> SUFFICES ASSUME LateInv, [Next]_vars
             PROVE  LateInv'
  OBVIOUS
<1>1. CASE Next
  BY <1>1, WorldKeepsLate, DaemonKeepsLate DEF Next
<1>2. CASE UNCHANGED vars
  BY <1>2 DEF vars, LateInv, LoopTypeOK, StopsInThisBatch, NoneLateYet, AcceptsOnce,
              LastAnswerGiven
<1>3. QED
  BY <1>1, <1>2

LEMMA SpecLate == Spec => []LateInv
  BY InitLate, LateInductive, PTL DEF Spec

(* Every variable of the main loop keeps its type. *)
THEOREM LoopTypeCorrect == Spec => []LoopTypeOK
<1>1. LateInv => LoopTypeOK
  BY DEF LateInv
<1>2. QED
  BY SpecLate, <1>1, PTL

(* A daemon that is to stop (SIGTERM, SIGINT or a KILL, in any order with   *)
(* the other events of its batch) answers at most one more client.         *)
THEOREM OneLateClient == Spec => []AtMostOneLateClient
<1>1. LateInv => AtMostOneLateClient
  BY DEF LateInv, LoopTypeOK, LastAnswerGiven, AtMostOneLateClient
<1>2. QED
  BY SpecLate, <1>1, PTL
===============================================================================
