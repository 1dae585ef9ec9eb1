---------------------------- MODULE ServicesProofs ----------------------------
(***************************************************************************)
(* Proofs about what the daemon is to others, one component after the      *)
(* other: the socket it serves (ServerSocket), those who listen to its     *)
(* events (Subscribers), the table that survives it (StateStore), the      *)
(* palettes it exports (Palettes) and the samples it plays and hears       *)
(* (AudioRings).  Each specification is proved on its own, for any number  *)
(* of daemons, clients, monitors, wallpapers and streams.                  *)
(***************************************************************************)
EXTENDS MCServices, SequenceTheorems, TLAPS

(***************************************************************************)
(* The socket.                                                             *)
(*                                                                         *)
(* A daemon's file is safe from a starter because the starter found it     *)
(* refusing connections, and from the unlink of a daemon that leaves       *)
(* because nobody binds before that unlink: the path is either systemd's   *)
(* or belongs to the one daemon that serves or leaves.                     *)
(***************************************************************************)
Holding == {"serving", "leaving"}

(* Only one daemon is between its first check and its listen. *)
OneStarter ==
    \A d, e \in Daemons : stage[d] \in Starting /\ stage[e] \in Starting => d = e

(* Until it unlinks, a daemon holds the path, unless systemd does for it. *)
HoldersOwnThePath ==
    \A d \in Daemons :
        stage[d] \in Holding => (file = d /\ d \in listening) \/ Handed(d)

(* While systemd has the path, nobody is about to take it, and only the daemons it  *)
(* activates get as far as closing.                                        *)
SystemdKeepsThePath ==
    file = Systemd =>
        \A d \in Daemons :
            /\ stage[d] \notin {"stale", "bind", "listen"}
            /\ stage[d] = "closing" => d \in Activated

(* What a starter found stale is stale until it has unlinked it, and the name it  *)
(* bound is its own until it listens.                                      *)
StarterIsRight ==
    \A d \in Daemons :
        /\ stage[d] = "stale" => ~Accepting
        /\ stage[d] = "listen" => file = d

SockInv ==
    SockTypeOK /\ OneStarter /\ HoldersOwnThePath /\ SystemdKeepsThePath /\ StarterIsRight

(* Two daemons serve at once only if systemd handed its socket to both. *)
NeverTwo ==
    \A d, e \in Daemons :
        stage[d] = "serving" /\ stage[e] = "serving" => d = e \/ file = Systemd

-----------------------------------------------------------------------------

LEMMA InitSock == SockInit => SockInv
  BY ServerSocketAssumption
     DEF SockInit, SockInv, SockTypeOK, OneStarter, HoldersOwnThePath,
         SystemdKeepsThePath, StarterIsRight, Starting, Holding

(* Getting to the socket: one starter at a time, so what it found holds until *)
(* it acts on it.                                                          *)
LEMMA ComingKeepsSock ==
    ASSUME SockInv, ~Overlap, NEW d \in Daemons,
           \/ Start(d) \/ Ask(d) \/ ToldAlive(d) \/ ToldDead(d)
           \/ Create(d) \/ UnlinkStale(d) \/ Bind(d) \/ Listen(d)
    PROVE  SockInv'
<1> USE ServerSocketAssumption
    DEF SockInv, SockTypeOK, OneStarter, HoldersOwnThePath, SystemdKeepsThePath,
        StarterIsRight, Starting, Holding, Go, Handed, Accepting
<1>1. CASE Start(d)
  BY <1>1 DEF Start
<1>2. CASE Ask(d)
  BY <1>2 DEF Ask
<1>3. CASE ToldAlive(d)
  BY <1>3 DEF ToldAlive
<1>4. CASE ToldDead(d)
  BY <1>4 DEF ToldDead
<1>5. CASE Create(d)
  BY <1>5 DEF Create
<1>6. CASE UnlinkStale(d)
  BY <1>6 DEF UnlinkStale
<1>7. CASE Bind(d)
  BY <1>7 DEF Bind
<1>8. CASE Listen(d)
  BY <1>8 DEF Listen
<1>9. QED
  BY <1>1, <1>2, <1>3, <1>4, <1>5, <1>6, <1>7, <1>8

(* Leaving it: what a daemon unlinks is its own name. *)
LEMMA GoingKeepsSock ==
    ASSUME SockInv, NEW d \in Daemons,
           Leave(d) \/ Unlink(d) \/ Close(d) \/ Crash(d)
    PROVE  SockInv'
<1> USE ServerSocketAssumption
    DEF SockInv, SockTypeOK, OneStarter, HoldersOwnThePath, SystemdKeepsThePath,
        StarterIsRight, Starting, Holding, Go, Handed, Accepting
<1>1. CASE Leave(d)
  BY <1>1 DEF Leave
<1>2. CASE Unlink(d)
  BY <1>2 DEF Unlink
<1>3. CASE Close(d)
  BY <1>3 DEF Close
<1>4. CASE Crash(d)
  BY <1>4 DEF Crash
<1>5. QED
  BY <1>1, <1>2, <1>3, <1>4

LEMMA SockInductive ==
    ASSUME ~Overlap
    PROVE  SockInv /\ [SockNext]_sockVars => SockInv'
<1> SUFFICES ASSUME SockInv, [SockNext]_sockVars
             PROVE  SockInv'
  OBVIOUS
<1>1. CASE SockNext
  BY <1>1, ComingKeepsSock, GoingKeepsSock DEF SockNext
<1>2. CASE UNCHANGED sockVars
  BY <1>2 DEF sockVars, SockInv, SockTypeOK, OneStarter, HoldersOwnThePath,
              SystemdKeepsThePath, StarterIsRight, Handed, Accepting
<1>3. QED
  BY <1>1, <1>2

LEMMA SpecSock ==
    ASSUME ~Overlap
    PROVE  SockSpec => []SockInv
  BY InitSock, SockInductive, PTL DEF SockSpec

(* The variables of the socket protocol keep their types, starts that overlap *)
(* included.                                                               *)
THEOREM SockTypeCorrect == SockSpec => []SockTypeOK
<1>1. SockInit => SockTypeOK
  BY DEF SockInit, SockTypeOK, Starting
<1>2. SockTypeOK /\ [SockNext]_sockVars => SockTypeOK'
  <2> SUFFICES ASSUME SockTypeOK, [SockNext]_sockVars
               PROVE  SockTypeOK'
    OBVIOUS
  <2> USE DEF SockTypeOK, Starting, Go
  <2>1. ASSUME NEW d \in Daemons,
               \/ Start(d) \/ Ask(d) \/ ToldAlive(d) \/ ToldDead(d)
               \/ Create(d) \/ UnlinkStale(d)
        PROVE  SockTypeOK'
    BY <2>1 DEF Start, Ask, ToldAlive, ToldDead, Create, UnlinkStale
  <2>2. ASSUME NEW d \in Daemons,
               \/ Bind(d) \/ Listen(d)
               \/ Leave(d) \/ Unlink(d) \/ Close(d) \/ Crash(d)
        PROVE  SockTypeOK'
    BY <2>2 DEF Bind, Listen, Leave, Unlink, Close, Crash
  <2>3. CASE UNCHANGED sockVars
    BY <2>3 DEF sockVars
  <2>4. QED
    BY <2>1, <2>2, <2>3 DEF SockNext
<1>3. QED
  BY <1>1, <1>2, PTL DEF SockSpec

(* When starts do not overlap, a daemon that serves is the one the path    *)
(* leads to: no test for a stale file, no unlink of a daemon that leaves   *)
(* and no crash takes its name away (waywal_ipc_server_create, main's end). *)
THEOREM ServesWhoIsReached ==
    ASSUME ~Overlap
    PROVE  SockSpec => []ServingIsReachable
<1>1. SockInv => ServingIsReachable
  BY DEF SockInv, HoldersOwnThePath, Holding, ServingIsReachable
<1>2. QED
  BY SpecSock, <1>1, PTL

(* When starts do not overlap, a namespace has one daemon, unless systemd   *)
(* hands the same socket to several.                                       *)
THEOREM NamespaceHasOneDaemon ==
    ASSUME ~Overlap
    PROVE  SockSpec => []NeverTwo
<1>1. SockInv => NeverTwo
  BY DEF SockInv, HoldersOwnThePath, Holding, Handed, NeverTwo
<1>2. QED
  BY SpecSock, <1>1, PTL

-----------------------------------------------------------------------------
(***************************************************************************)
(* The subscribers.                                                        *)
(*                                                                         *)
(* A connection is open exactly while the table holds it, and the table    *)
(* holds nobody twice: so who is missing from a compacted table is who was *)
(* dead, and the table is full when its seats are.                         *)
(***************************************************************************)
SubInv ==
    /\ SubTypeOK
    /\ OnceEach(table)
    /\ \A c \in Clients : conn[c] = "open" <=> c \in Seated
    /\ \A c \in Clients : conn[c] = "new" => given[c] = << >>

(* A table without repetitions has as many members as places. *)
LEMMA OnceCounted ==
    ASSUME NEW S, NEW q \in Seq(S), OnceEach(q)
    PROVE  Cardinality(Members(q)) = Len(q)
<1>1. Len(q) \in Nat /\ DOMAIN q = 1..Len(q)
  OBVIOUS
<1>2. q \in [1..Len(q) -> Members(q)] /\ \A x \in Members(q) : \E i \in 1..Len(q) : q[i] = x
  <2>1. q = [i \in 1..Len(q) |-> q[i]]
    OBVIOUS
  <2>2. QED
    BY <1>1, <2>1 DEF Members
<1>3. q \in Injection(1..Len(q), Members(q))
  BY <1>1, <1>2 DEF OnceEach, Injection, IsInjective
<1>4. q \in Surjection(1..Len(q), Members(q))
  BY <1>2 DEF Surjection
<1>5. ExistsBijection(1..Len(q), Members(q))
  BY <1>3, <1>4 DEF ExistsBijection, Bijection
<1>6. QED
  BY <1>1, <1>5, FS_CountingElements

LEMMA AppendedOnce ==
    ASSUME NEW S, NEW q \in Seq(S), OnceEach(q), NEW c \in S, c \notin Members(q)
    PROVE  /\ Append(q, c) \in Seq(S) /\ Len(Append(q, c)) = Len(q) + 1
           /\ OnceEach(Append(q, c)) /\ Members(Append(q, c)) = Members(q) \cup {c}
<1> DEFINE r == Append(q, c)
<1>1. /\ Len(q) \in Nat /\ DOMAIN q = 1..Len(q) /\ r \in Seq(S) /\ Len(r) = Len(q) + 1
      /\ DOMAIN r = 1..Len(q) + 1 /\ r[Len(q) + 1] = c
      /\ \A i \in DOMAIN q : r[i] = q[i]
  OBVIOUS
<1> HIDE DEF r
<1>2. Members(r) = Members(q) \cup {c}
  BY <1>1 DEF Members
<1>3. \A i \in DOMAIN q : r[i] # c
  BY <1>1 DEF Members
<1>4. OnceEach(r)
  <2> SUFFICES ASSUME NEW i \in DOMAIN r, NEW j \in DOMAIN r, r[i] = r[j]
               PROVE  i = j
    BY DEF OnceEach
  <2>1. CASE i \in DOMAIN q /\ j \in DOMAIN q
    BY <2>1, <1>1 DEF OnceEach
  <2>2. CASE i \notin DOMAIN q \/ j \notin DOMAIN q
    BY <2>2, <1>1, <1>3
  <2>3. QED
    BY <2>1, <2>2
<1>5. QED
  BY <1>1, <1>2, <1>4 DEF r

(* Room is made only when every seat is taken, and then the first one leaves. *)
LEMMA RoomMade ==
    ASSUME NEW q \in Seq(Clients), OnceEach(q), Len(q) <= Seats
    PROVE  /\ MakeRoom(q) \in Seq(Clients) /\ Len(MakeRoom(q)) < Seats
           /\ OnceEach(MakeRoom(q)) /\ Members(MakeRoom(q)) \subseteq Members(q)
           /\ \A c \in Members(q) \ Members(MakeRoom(q)) : Len(q) = Seats /\ c = q[1]
<1> DEFINE r == SubSeq(q, 2, Len(q))
<1>1. Len(q) \in Nat /\ DOMAIN q = 1..Len(q) /\ Seats \in Nat \ {0}
  BY SubscribersAssumption
<1>6. Len(q) \in Nat /\ Seats \in Nat
  BY <1>1
<1>9. MakeRoom(q) = IF Len(q) >= Seats THEN r ELSE q
  BY DEF MakeRoom
<1>5. 2 <= Len(q) + 1 => /\ r \in Seq(Clients) /\ Len(r) = Len(q) - 1
                         /\ \A i \in 1..(Len(q) - 1) : r[i] = q[i + 1]
  <2> SUFFICES ASSUME 2 <= Len(q) + 1
               PROVE  /\ r \in Seq(Clients) /\ Len(r) = Len(q) - 1
                      /\ \A i \in 1..(Len(q) - 1) : r[i] = q[i + 1]
    OBVIOUS
  <2>1. 2 \in Int /\ Len(q) \in Int /\ \A i \in 2..Len(q) : q[i] \in Clients
    BY <1>1
  <2>2. /\ r \in Seq(Clients)
        /\ Len(r) = (IF 2 <= Len(q) THEN Len(q) - 2 + 1 ELSE 0)
        /\ \A i \in 1..(Len(q) - 2 + 1) : r[i] = q[2 + i - 1]
    BY <2>1, SubSeqProperties
  <2> HIDE DEF r
  <2>3. Len(r) = Len(q) - 1
    <3>1. CASE 2 <= Len(q)
      BY <1>6, <2>2, <3>1
    <3>2. CASE ~(2 <= Len(q))
      <4>1. Len(q) = 1
        <5>1. \A n \in Nat : 2 <= n + 1 /\ ~(2 <= n) => n = 1
          OBVIOUS
        <5>2. QED
          BY <1>6, <3>2, <5>1
      <4>2. Len(r) = 0
        BY <2>2, <3>2
      <4>3. QED
        BY <4>1, <4>2
    <3>3. QED
      BY <3>1, <3>2
  <2>4. ASSUME NEW i \in 1..(Len(q) - 1)
        PROVE  r[i] = q[i + 1]
    <3>1. i \in 1..(Len(q) - 2 + 1) /\ 2 + i - 1 = i + 1
      BY <1>1
    <3>2. QED
      BY <2>2, <3>1
  <2>5. QED
    BY <2>2, <2>3, <2>4
<1> HIDE DEF r
<1>2. CASE Len(q) < Seats
  <2>1. MakeRoom(q) = q
    BY <1>9, <1>1, <1>2
  <2>2. QED
    BY <1>2, <2>1
<1>3. CASE ~(Len(q) < Seats)
  <2>1. Len(q) = Seats /\ MakeRoom(q) = r
    <3>1. Len(q) = Seats
      BY <1>6, <1>3
    <3>2. Len(q) >= Seats
      BY <1>6, <1>3
    <3>3. QED
      BY <1>9, <3>1, <3>2
  <2>2. /\ r \in Seq(Clients) /\ Len(r) = Len(q) - 1 /\ DOMAIN r = 1..(Len(q) - 1)
        /\ \A i \in DOMAIN r : r[i] = q[i + 1]
    BY <1>1, <1>5, <2>1
  <2>3. \A i \in DOMAIN r : i + 1 \in DOMAIN q
    BY <1>1, <2>2
  <2>4. OnceEach(r)
    <3> SUFFICES ASSUME NEW i \in DOMAIN r, NEW j \in DOMAIN r, r[i] = r[j]
                 PROVE  i = j
      BY DEF OnceEach
    <3>1. i + 1 = j + 1
      BY <2>2, <2>3 DEF OnceEach
    <3>2. QED
      BY <3>1, <2>2
  <2>5. Members(r) \subseteq Members(q)
    BY <2>2, <2>3 DEF Members
  <2>6. \A i \in DOMAIN q : i = 1 \/ q[i] \in Members(r)
    <3> SUFFICES ASSUME NEW i \in DOMAIN q, i # 1
                 PROVE  q[i] \in Members(r)
      OBVIOUS
    <3>1. i - 1 \in DOMAIN r /\ r[i - 1] = q[i]
      BY <1>1, <2>2
    <3>2. QED
      BY <3>1 DEF Members
  <2>7. \A c \in Members(q) \ Members(r) : c = q[1]
    BY <2>6 DEF Members
  <2>8. QED
    BY <1>1, <2>1, <2>2, <2>4, <2>5, <2>7
<1>4. QED
  BY <1>2, <1>3

(* What is left of the table when some have gone. *)
LEMMA LeftOver ==
    ASSUME NEW q \in Seq(Clients), OnceEach(q), NEW leaving
    PROVE  /\ Compact(q, leaving) \in Seq(Clients) /\ Len(Compact(q, leaving)) <= Len(q)
           /\ OnceEach(Compact(q, leaving))
           /\ Members(Compact(q, leaving)) = Members(q) \ leaving
           /\ Len(Compact(q, leaving)) \in Nat /\ Len(q) \in Nat
<1> DEFINE r == Compact(q, leaving)
<1>1. r \in Seq(Clients) /\ Len(r) <= Len(q)
  BY CompactRange
<1>3. Members(r) = Members(q) \ leaving
  BY CompactMembers
<1>2. OnceEach(r)
  BY CompactOnce DEF OnceEach
<1>4. Len(r) \in Nat /\ Len(q) \in Nat
  <2> HIDE DEF r
  <2>1. QED
    BY <1>1
<1>5. QED
  BY <1>1, <1>2, <1>3, <1>4

LEMMA TableReaped ==
    ASSUME SubInv
    PROVE  /\ Living \in Seq(Clients) /\ Len(Living) <= Seats /\ OnceEach(Living)
           /\ Members(Living) = Seated \ gone /\ Members(Living) = Seated \ Dead
           /\ Seated \subseteq Clients
<1>1. table \in Seq(Clients) /\ OnceEach(table) /\ Len(table) <= Seats /\ Seats \in Nat
  BY SubscribersAssumption DEF SubInv, SubTypeOK
<1>2. Members(table) = Seated
  BY DEF Members, Seated
<1>3. /\ Living \in Seq(Clients) /\ Len(Living) <= Len(table) /\ OnceEach(Living)
      /\ Members(Living) = Seated \ Dead /\ Len(Living) \in Nat /\ Len(table) \in Nat
  BY <1>1, <1>2, LeftOver DEF Living
<1>4. Seated \ Dead = Seated \ gone
  BY DEF Dead
<1>5. Seated \subseteq Clients
  BY <1>1 DEF Seated
<1>6. QED
  BY <1>1, <1>3, <1>4, <1>5

(* What a step does to the table and to those in it.                       *)
SubStepOK ==
    /\ SubInv'
    /\ \A c \in Clients :
          conn[c] = "open" /\ conn'[c] = "closed" =>
             \/ c \in gone
             \/ Full(c) /\ clock' > clock
             \/ Cardinality(Seated \ gone) = Seats /\ c = Living[1]

LEMMA SubscribeOK ==
    ASSUME SubInv, NEW c \in Clients, Subscribe(c)
    PROVE  SubStepOK
<1> DEFINE seats == MakeRoom(Living)
           away == Seated \ Members(seats)
<1>1. /\ Living \in Seq(Clients) /\ Len(Living) <= Seats /\ OnceEach(Living)
      /\ Members(Living) = Seated \ gone /\ Seated \subseteq Clients
  BY TableReaped
<1>2. /\ seats \in Seq(Clients) /\ Len(seats) < Seats /\ OnceEach(seats)
      /\ Members(seats) \subseteq Members(Living)
      /\ \A k \in Members(Living) \ Members(seats) : Len(Living) = Seats /\ k = Living[1]
  BY <1>1, RoomMade
<1>3. /\ conn[c] = "new" /\ table' = Append(seats, c)
      /\ conn' = [k \in Clients |-> IF k = c THEN "open" ELSE Closing(away, k)]
      /\ buffer' = [buffer EXCEPT ![c] = <<clock>>]
      /\ given' = [given EXCEPT ![c] = <<clock>>]
      /\ UNCHANGED <<gone, torn, clock>>
  BY DEF Subscribe, Members
<1> HIDE DEF seats
<1>4. c \notin Members(seats) /\ c \notin Seated
  BY <1>1, <1>2, <1>3 DEF SubInv
<1>5. /\ table' \in Seq(Clients) /\ Len(table') = Len(seats) + 1
      /\ OnceEach(table') /\ Members(table') = Members(seats) \cup {c}
  BY <1>2, <1>3, <1>4, AppendedOnce
<1>6. Seated' = Members(seats) \cup {c}
  BY <1>5 DEF Members, Seated
<1>7. SubTypeOK'
  <2>1. Len(table') <= Seats
    BY <1>2, <1>5, SubscribersAssumption
  <2>2. conn' \in [Clients -> {"new", "open", "closed"}]
    BY <1>3 DEF SubInv, SubTypeOK, Closing
  <2>3. clock \in 0..MaxEvents /\ <<clock>> \in Seq(0..MaxEvents)
    BY DEF SubInv, SubTypeOK
  <2>4. /\ buffer' \in [Clients -> Seq(0..MaxEvents)]
        /\ given' \in [Clients -> Seq(0..MaxEvents)]
    BY <1>3, <2>3 DEF SubInv, SubTypeOK
  <2>5. QED
    BY <1>3, <1>5, <2>1, <2>2, <2>4 DEF SubInv, SubTypeOK
<1>8. \A k \in Clients : conn'[k] = "open" <=> k \in Seated'
  BY <1>1, <1>2, <1>3, <1>6 DEF Closing, SubInv
<1>9. \A k \in Clients : conn'[k] = "new" => given'[k] = << >>
  <2> SUFFICES ASSUME NEW k \in Clients, conn'[k] = "new"
               PROVE  given'[k] = << >>
    OBVIOUS
  <2>1. k # c /\ conn[k] = "new"
    BY <1>3 DEF Closing
  <2>2. given'[k] = given[k]
    BY <1>3, <2>1 DEF SubInv, SubTypeOK
  <2>3. QED
    BY <2>1, <2>2 DEF SubInv
<1>10. ASSUME NEW k \in Clients, conn[k] = "open", conn'[k] = "closed", k \notin gone
       PROVE  Cardinality(Seated \ gone) = Seats /\ k = Living[1]
  <2>1. k \in away /\ k \in Seated
    BY <1>3, <1>10 DEF Closing, SubInv
  <2>2. Len(Living) = Seats /\ k = Living[1]
    BY <1>1, <1>2, <1>10, <2>1
  <2>3. QED
    BY <1>1, <2>2, OnceCounted
<1>11. QED
  BY <1>5, <1>7, <1>8, <1>9, <1>10 DEF SubStepOK, SubInv

LEMMA BroadcastOK ==
    ASSUME SubInv, NEW stuck \in SUBSET Clients, Broadcast(stuck)
    PROVE  SubStepOK
<1> DEFINE S == Members(Living)
           failed == {c \in S : Full(c)}
           served == S \ failed
<1>1. /\ Living \in Seq(Clients) /\ Len(Living) <= Seats /\ OnceEach(Living)
      /\ S = Seated \ gone /\ S = Seated \ Dead /\ Seated \subseteq Clients
  BY TableReaped
<1>2. /\ clock < MaxEvents /\ clock' = clock + 1
      /\ table' = Compact(Living, failed)
      /\ conn' = [c \in Clients |-> Closing(Dead \cup failed, c)]
      /\ buffer' = [c \in Clients |->
            IF c \in served THEN Append(buffer[c], clock + 1) ELSE buffer[c]]
      /\ given' = [c \in Clients |->
            IF c \in served THEN Append(given[c], clock + 1) ELSE given[c]]
      /\ stuck \subseteq failed /\ torn' = torn \cup stuck /\ gone' = gone
  BY DEF Broadcast, Members
<1>3. failed \subseteq S /\ \A c \in failed : Full(c)
  OBVIOUS
<1> HIDE DEF S, failed
<1>4. /\ table' \in Seq(Clients) /\ Len(table') <= Len(Living) /\ OnceEach(table')
      /\ Members(table') = served /\ Len(table') \in Nat /\ Len(Living) \in Nat
  BY <1>1, <1>2, LeftOver DEF S
<1>5. Seated' = served
  BY <1>4 DEF Members, Seated
<1>6. SubTypeOK'
  <2>1. Len(table') <= Seats
    BY <1>1, <1>4, SubscribersAssumption
  <2>2. conn' \in [Clients -> {"new", "open", "closed"}]
    BY <1>2 DEF SubInv, SubTypeOK, Closing
  <2>3. clock' \in 0..MaxEvents
    BY <1>2, SubscribersAssumption DEF SubInv, SubTypeOK
  <2>4. \A c \in Clients : /\ Append(buffer[c], clock + 1) \in Seq(0..MaxEvents)
                           /\ Append(given[c], clock + 1) \in Seq(0..MaxEvents)
    BY <1>2, <2>3 DEF SubInv, SubTypeOK
  <2>5. /\ buffer' \in [Clients -> Seq(0..MaxEvents)]
        /\ given' \in [Clients -> Seq(0..MaxEvents)]
    BY <1>2, <2>4 DEF SubInv, SubTypeOK
  <2>6. gone' \subseteq Clients /\ torn' \subseteq Clients
    BY <1>2 DEF SubInv, SubTypeOK
  <2>7. QED
    BY <1>4, <2>1, <2>2, <2>3, <2>5, <2>6 DEF SubTypeOK
<1>7. \A k \in Clients : conn'[k] = "open" <=> k \in Seated'
  <2>1. \A k \in Clients : conn'[k] = "open" <=> k \notin Dead \cup failed /\ conn[k] = "open"
    BY <1>2 DEF Closing
  <2>2. QED
    BY <1>1, <1>3, <1>5, <2>1 DEF SubInv
<1>8. \A k \in Clients : conn'[k] = "new" => given'[k] = << >>
  <2>1. \A k \in Clients : conn'[k] = "new" => conn[k] = "new"
    BY <1>2 DEF Closing
  <2>2. \A k \in Clients : conn[k] = "new" => k \notin served
    BY <1>1 DEF SubInv
  <2>3. QED
    BY <1>2, <2>1, <2>2 DEF SubInv
<1>9. ASSUME NEW k \in Clients, conn[k] = "open", conn'[k] = "closed", k \notin gone
      PROVE  Full(k) /\ clock' > clock
  <2>1. k \in failed
    BY <1>2, <1>9 DEF Closing, Dead
  <2>2. clock \in Nat
    BY DEF SubInv, SubTypeOK
  <2>3. QED
    BY <1>2, <1>3, <2>1, <2>2
<1>10. QED
  BY <1>4, <1>6, <1>7, <1>8, <1>9 DEF SubStepOK, SubInv

LEMMA OthersOK ==
    ASSUME SubInv, \/ UNCHANGED subVars
                   \/ \E c \in Clients : SubscribeFails(c) \/ Take(c) \/ HangUp(c)
    PROVE  SubStepOK
<1>1. ASSUME NEW c \in Clients, SubscribeFails(c)
      PROVE  SubStepOK
  BY <1>1 DEF SubscribeFails, SubStepOK, SubInv, SubTypeOK, Seated, OnceEach
<1>2. ASSUME NEW c \in Clients, Take(c)
      PROVE  SubStepOK
  <2>1. /\ buffer[c] # << >> /\ buffer' = [buffer EXCEPT ![c] = Tail(@)]
        /\ UNCHANGED <<table, conn, gone, given, torn, clock>>
    BY <1>2 DEF Take
  <2>2. Tail(buffer[c]) \in Seq(0..MaxEvents)
    BY <2>1 DEF SubInv, SubTypeOK
  <2>3. buffer' \in [Clients -> Seq(0..MaxEvents)]
    BY <2>1, <2>2 DEF SubInv, SubTypeOK
  <2>4. QED
    BY <2>1, <2>3 DEF SubStepOK, SubInv, SubTypeOK, Seated, OnceEach
<1>3. ASSUME NEW c \in Clients, HangUp(c)
      PROVE  SubStepOK
  BY <1>3 DEF HangUp, SubStepOK, SubInv, SubTypeOK, Seated, OnceEach
<1>4. CASE UNCHANGED subVars
  BY <1>4 DEF subVars, SubStepOK, SubInv, SubTypeOK, Seated, OnceEach
<1>5. QED
  BY <1>1, <1>2, <1>3, <1>4

LEMMA SubStep == SubInv /\ [SubNext]_subVars => SubStepOK
  BY SubscribeOK, BroadcastOK, OthersOK DEF SubNext

LEMMA SubBegins == SubInit => SubInv
<1> SUFFICES ASSUME SubInit
             PROVE  SubInv
  OBVIOUS
<1>1. << >> \in Seq(Clients) /\ << >> \in Seq(0..MaxEvents) /\ Len(<< >>) = 0
  OBVIOUS
<1>2. 0 \in 0..MaxEvents /\ 0 <= Seats
  BY SubscribersAssumption
<1>3. SubTypeOK
  BY <1>1, <1>2 DEF SubInit, SubTypeOK
<1>4. DOMAIN table = {} /\ Seated = {}
  BY DEF SubInit, Seated
<1>5. QED
  BY <1>3, <1>4 DEF SubInit, SubInv, OnceEach

LEMMA SubSpecInv == SubSpec => []SubInv
<1>1. SubInv /\ [SubNext]_subVars => SubInv'
  BY SubStep DEF SubStepOK
<1>2. QED
  BY <1>1, SubBegins, PTL DEF SubSpec

(* The table never overflows, and every descriptor, event and clock is what it should be. *)
THEOREM SubTypeCorrect == SubSpec => []SubTypeOK
<1>1. SubInv => SubTypeOK
  BY DEF SubInv
<1>2. QED
  BY <1>1, SubSpecInv, PTL

(* A subscriber is closed only for a reason of its own. *)
THEOREM EndedForCause == SubSpec => ClosedForCause
<1> DEFINE Cause == \A c \in Clients :
                       conn[c] = "open" /\ conn'[c] = "closed" =>
                          \/ c \in gone
                          \/ Full(c) /\ clock' > clock
                          \/ Cardinality(Seated \ gone) = Seats /\ c = Living[1]
<1>1. SubInv /\ [SubNext]_subVars => [Cause]_subVars
  BY SubStep DEF SubStepOK
<1>2. SubSpec => [][Cause]_subVars
  BY <1>1, SubSpecInv, PTL DEF SubSpec
<1>3. QED
  BY <1>2 DEF ClosedForCause

-----------------------------------------------------------------------------
(* The table implements the feed. *)

OpenNow == {c \in Clients : conn[c] = "open"}

LEMMA FeedStep == SubInv /\ [SubNext]_subVars => [Feed!FeedNext]_(Feed!feed)
<1> SUFFICES ASSUME SubInv, [SubNext]_subVars
             PROVE  Feed!FeedNext \/ UNCHANGED Feed!feed
  OBVIOUS
<1>1. ASSUME NEW stuck \in SUBSET Clients, Broadcast(stuck)
      PROVE  Feed!Publish
  <2> DEFINE S == Members(Living)
             failed == {c \in S : Full(c)}
             served == S \ failed
  <2>1. S = Seated \ Dead /\ Seated \subseteq Clients
    BY TableReaped
  <2>2. /\ clock' = clock + 1
        /\ conn' = [c \in Clients |-> Closing(Dead \cup failed, c)]
        /\ given' = [c \in Clients |->
              IF c \in served THEN Append(given[c], clock + 1) ELSE given[c]]
    BY <1>1 DEF Broadcast, Members
  <2> HIDE DEF failed, S
  <2>3. \A c \in Clients : conn'[c] = "open" <=> c \in served
    BY <2>1, <2>2 DEF Closing, SubInv
  <2>4. \A c \in served : c \in Clients /\ conn[c] = "open"
    BY <2>1 DEF SubInv
  <2>5. OpenNow' = served /\ served \in SUBSET OpenNow
    BY <2>3, <2>4 DEF OpenNow
  <2>6. QED
    BY <2>2, <2>5 DEF Feed!Publish, OpenNow
<1>2. ASSUME NEW c \in Clients, Subscribe(c)
      PROVE  Feed!Join(c)
  <2> DEFINE away == Seated \ Members(MakeRoom(Living))
             ended == OpenNow \cap away
  <2>1. /\ conn[c] = "new" /\ given' = [given EXCEPT ![c] = <<clock>>] /\ clock' = clock
        /\ conn' = [k \in Clients |-> IF k = c THEN "open" ELSE Closing(away, k)]
    BY <1>2 DEF Subscribe, Members
  <2> HIDE DEF away
  <2>2. OpenNow' = (OpenNow \ ended) \cup {c}
    BY <2>1 DEF OpenNow, Closing
  <2>3. given[c] = << >>
    BY <2>1 DEF SubInv
  <2>4. ended \in SUBSET OpenNow
    OBVIOUS
  <2> HIDE DEF ended
  <2>5. QED
    BY <2>1, <2>2, <2>3, <2>4 DEF Feed!Join, OpenNow
<1>3. ASSUME NEW c \in Clients, SubscribeFails(c) \/ Take(c) \/ HangUp(c)
      PROVE  UNCHANGED Feed!feed
  <2>1. OpenNow' = OpenNow /\ clock' = clock /\ given' = given
    BY <1>3 DEF OpenNow, SubscribeFails, Take, HangUp, SubInv, SubTypeOK
  <2>2. QED
    BY <2>1 DEF Feed!feed, OpenNow
<1>4. CASE UNCHANGED subVars
  BY <1>4 DEF subVars, Feed!feed
<1>5. QED
  BY <1>1, <1>2, <1>3, <1>4 DEF SubNext, Feed!FeedNext

(* What the clients are given is the abstract feed: the state when they join, then every *)
(* event, whole and in order, until their stream ends. *)
THEOREM ClientsSeeTheFeed == SubSpec => RefinesFeed
<1>1. SubInit => Feed!FeedInit
  BY DEF SubInit, Feed!FeedInit
<1>2. QED
  BY <1>1, FeedStep, SubSpecInv, PTL DEF SubSpec, RefinesFeed, Feed!FeedSpec

-----------------------------------------------------------------------------
(***************************************************************************)
(* The state store.                                                        *)
(*                                                                         *)
(* The table in memory is loaded from the file before it is used, so it    *)
(* agrees with the file until an answer to a client says otherwise; an     *)
(* update of every output leaves exactly those entries it refused, and     *)
(* then the table says so.                                                 *)
(***************************************************************************)
Entries == [name : Names, what : 1..MaxRequests]
Targets(names, k) == {names[j] : j \in 1..k}

LEMMA HasNoted ==
    ASSUME NEW t, NEW n
    PROVE  Has(t, n) <=> Noted(t, n) # {}
  BY DEF Has, Noted

LEMMA NotedTyped ==
    ASSUME NEW t, IsTable(t), NEW n
    PROVE  Noted(t, n) \subseteq 1..MaxRequests
<1>1. t \in Seq(Entries)
  BY DEF IsTable, Entries
<1>2. \A i \in DOMAIN t : t[i].what \in 1..MaxRequests
  <2>1. \A i \in DOMAIN t : t[i] \in Entries
    BY <1>1
  <2>2. QED
    BY <2>1 DEF Entries
<1>3. QED
  BY <1>2 DEF Noted

(* Of a table only what is noted under a name matters. *)
LEMMA FoundTyped ==
    ASSUME NEW t, IsTable(t), NEW n
    PROVE  FindOutput(t, n) \in 0..MaxRequests
<1>1. \A k : Noted(t, k) # {} => (CHOOSE w \in Noted(t, k) : TRUE) \in 1..MaxRequests
  BY NotedTyped
<1>2. /\ Has(t, n) <=> Noted(t, n) # {}
      /\ Has(t, AllOutputs) <=> Noted(t, AllOutputs) # {}
  BY HasNoted
<1>3. \A w \in 1..MaxRequests : w \in 0..MaxRequests
  OBVIOUS
<1>4. 0 \in 0..MaxRequests
  BY StateStoreAssumption
<1>5. QED
  BY <1>1, <1>2, <1>3, <1>4 DEF FindOutput, None

LEMMA FoundSame ==
    ASSUME NEW t, NEW u, NEW n, Noted(t, n) = Noted(u, n),
           Noted(t, AllOutputs) = Noted(u, AllOutputs)
    PROVE  FindOutput(t, n) = FindOutput(u, n)
<1>1. /\ Has(t, n) <=> Has(u, n)
      /\ Has(t, AllOutputs) <=> Has(u, AllOutputs)
  BY HasNoted
<1>2. QED
  BY <1>1 DEF FindOutput

LEMMA FoundNew ==
    ASSUME NEW t, NEW n, NEW w, Noted(t, n) = {w}
    PROVE  FindOutput(t, n) = w
<1>1. Has(t, n)
  BY HasNoted
<1>2. QED
  BY <1>1 DEF FindOutput

(* One request for one name: all of that name say the new wallpaper, the others what they did. *)
LEMMA UpdateOutputNotes ==
    ASSUME NEW t, IsTable(t), NEW n \in Names, NEW w \in 1..MaxRequests
    PROVE  LET u == UpdateOutput(t, n, w)
           IN  /\ IsTable(u) /\ u # << >>
               /\ \A m : m # n => Noted(u, m) = Noted(t, m)
               /\ Noted(u, n) \subseteq {w}
<1> DEFINE e == [name |-> n, what |-> w]
           r == [i \in DOMAIN t |-> IF t[i].name = n THEN e ELSE t[i]]
           a == Append(t, e)
<1>1. UpdateOutput(t, n, w) = IF Has(t, n) THEN r ELSE IF Len(t) >= MaxEntries THEN t ELSE a
  BY DEF UpdateOutput
<1>2. t \in Seq(Entries) /\ Len(t) <= MaxEntries /\ Len(t) \in Nat /\ DOMAIN t = 1..Len(t)
  BY DEF IsTable, Entries
<1>3. e \in Entries /\ e.name = n /\ e.what = w
  BY DEF Entries
<1> HIDE DEF e
<1>4. CASE Has(t, n)
  <2>1. r \in Seq(Entries) /\ Len(r) = Len(t) /\ DOMAIN r = DOMAIN t
    BY <1>2, <1>3
  <2>2. \A i \in DOMAIN t : r[i] = IF t[i].name = n THEN e ELSE t[i]
    OBVIOUS
  <2> HIDE DEF r
  <2>3. IsTable(r)
    BY <1>2, <2>1 DEF IsTable, Entries
  <2>4. DOMAIN t # {}
    BY <1>4 DEF Has
  <2>5. r # << >>
    BY <2>1, <2>4
  <2>6. ASSUME NEW m, m # n
        PROVE  Noted(r, m) = Noted(t, m)
    BY <1>3, <2>1, <2>2, <2>6 DEF Noted
  <2>7. Noted(r, n) \subseteq {w}
    BY <1>3, <2>1, <2>2 DEF Noted
  <2>8. QED
    BY <1>1, <1>4, <2>3, <2>5, <2>6, <2>7
<1>5. CASE ~Has(t, n) /\ Len(t) >= MaxEntries
  <2>1. t # << >>
    BY <1>2, <1>5, StateStoreAssumption
  <2>2. Noted(t, n) \subseteq {w}
    BY <1>5, HasNoted
  <2>3. QED
    BY <1>1, <1>5, <2>1, <2>2
<1>6. CASE ~Has(t, n) /\ ~(Len(t) >= MaxEntries)
  <2>1. /\ a \in Seq(Entries) /\ Len(a) = Len(t) + 1 /\ DOMAIN a = 1..Len(t) + 1
        /\ a[Len(t) + 1] = e /\ \A i \in DOMAIN t : a[i] = t[i]
    BY <1>2, <1>3
  <2> HIDE DEF a
  <2>2. IsTable(a) /\ a # << >>
    <3>1. Len(a) <= MaxEntries
      BY <1>2, <1>6, <2>1, StateStoreAssumption
    <3>2. Len(a) # 0
      BY <1>2, <2>1
    <3>3. QED
      BY <2>1, <3>1, <3>2 DEF IsTable, Entries
  <2>3. ASSUME NEW m, m # n
        PROVE  Noted(a, m) = Noted(t, m)
    <3>1. \A i \in DOMAIN a : a[i].name = m => i \in DOMAIN t /\ a[i] = t[i]
      BY <1>2, <1>3, <2>1, <2>3
    <3>2. \A i \in DOMAIN t : i \in DOMAIN a /\ a[i] = t[i]
      BY <1>2, <2>1
    <3>3. QED
      BY <3>1, <3>2 DEF Noted
  <2>4. Noted(a, n) \subseteq {w}
    <3>1. \A i \in DOMAIN a : a[i].name = n => a[i] = e
      BY <1>2, <1>6, <2>1 DEF Has
    <3>2. QED
      BY <1>3, <3>1 DEF Noted
  <2>5. QED
    BY <1>1, <1>6, <2>2, <2>3, <2>4
<1>7. QED
  BY <1>4, <1>5, <1>6

(* The tables on the way through a list of names, up to the n-th. *)
Passing(g, n, t, names, w) ==
    g = [k \in 0..n |-> IF k = 0 THEN t ELSE UpdateOutput(g[k - 1], names[k], w)]

LEMMA SomePassing ==
    ASSUME NEW t, NEW names, NEW w
    PROVE  \A n \in Nat : \E g : Passing(g, n, t, names, w)
<1> DEFINE Refuting == {n \in Nat : ~\E g : Passing(g, n, t, names, w)}
<1> SUFFICES ASSUME Refuting # {}
             PROVE  FALSE
  OBVIOUS
<1>1. PICK n \in Refuting : \A m \in Refuting : n <= m
  BY LeastNatural
<1>2. n \in Nat /\ ~\E g : Passing(g, n, t, names, w)
  OBVIOUS
<1>3. n # 0
  <2> SUFFICES ASSUME n = 0
               PROVE  FALSE
    OBVIOUS
  <2> DEFINE g == [k \in 0..0 |-> t]
  <2>1. \A k \in 0..0 : k = 0
    OBVIOUS
  <2>2. g = [k \in 0..0 |-> IF k = 0 THEN t ELSE UpdateOutput(g[k - 1], names[k], w)]
    BY <2>1
  <2> HIDE DEF g
  <2>3. Passing(g, n, t, names, w)
    BY <2>2 DEF Passing
  <2>4. QED
    BY <1>2, <2>3
<1>4. n - 1 \in Nat /\ n - 1 \notin Refuting
  BY <1>1, <1>2, <1>3
<1>5. PICK g : Passing(g, n - 1, t, names, w)
  BY <1>4
<1> DEFINE h == [k \in 0..n |-> IF k = n THEN UpdateOutput(g[n - 1], names[n], w) ELSE g[k]]
<1>6. g = [k \in 0..(n - 1) |-> IF k = 0 THEN t ELSE UpdateOutput(g[k - 1], names[k], w)]
  BY <1>5 DEF Passing
<1>7. \A k \in 0..n : h[k] = IF k = 0 THEN t ELSE UpdateOutput(h[k - 1], names[k], w)
  <2> SUFFICES ASSUME NEW k \in 0..n
               PROVE  h[k] = IF k = 0 THEN t ELSE UpdateOutput(h[k - 1], names[k], w)
    OBVIOUS
  <2>1. CASE k = n
    <3>1. k - 1 \in 0..n /\ k - 1 # n /\ k # 0
      BY <1>2, <1>3, <2>1
    <3>2. h[k - 1] = g[k - 1] /\ h[k] = UpdateOutput(g[n - 1], names[n], w)
      BY <2>1, <3>1
    <3>3. QED
      BY <2>1, <3>1, <3>2
  <2>2. CASE k = 0
    <3>1. k \in 0..(n - 1) /\ k # n
      BY <1>2, <1>3, <2>2
    <3>2. h[k] = g[k] /\ g[k] = t
      BY <1>6, <2>2, <3>1
    <3>3. QED
      BY <2>2, <3>2
  <2>3. CASE k # n /\ k # 0
    <3>1. k \in 0..(n - 1) /\ k - 1 \in 0..n /\ k - 1 # n
      BY <1>2, <2>3
    <3>2. h[k] = g[k] /\ h[k - 1] = g[k - 1]
      BY <2>3, <3>1
    <3>3. g[k] = UpdateOutput(g[k - 1], names[k], w)
      BY <1>6, <2>3, <3>1
    <3>4. QED
      BY <2>3, <3>2, <3>3
  <2>4. QED
    BY <2>1, <2>2, <2>3
<1>8. h = [k \in 0..n |-> IF k = 0 THEN t ELSE UpdateOutput(h[k - 1], names[k], w)]
  <2>1. h = [k \in 0..n |-> h[k]]
    OBVIOUS
  <2> HIDE DEF h
  <2>2. QED
    BY <1>7, <2>1
<1> HIDE DEF h
<1>9. QED
  BY <1>2, <1>8 DEF Passing

(* What is noted after a request for some names: nothing new of the others. *)
Noting(u, t, over, w) ==
    /\ IsTable(u)
    /\ over # {} => u # << >>
    /\ \A m : m \notin over => Noted(u, m) = Noted(t, m)
    /\ \A m \in over : Noted(u, m) \subseteq {w}

LEMMA UpdateAllNotes ==
    ASSUME NEW t, IsTable(t), NEW names \in Seq(Names), NEW w \in 1..MaxRequests
    PROVE  Noting(UpdateAll(t, names, w), t, {names[j] : j \in DOMAIN names}, w)
<1> DEFINE N == Len(names)
           after == CHOOSE g : Passing(g, N, t, names, w)
           Upto(k) == {names[j] : j \in 1..k}
           Refuting == {k \in Nat : k <= N /\ ~Noting(after[k], t, Upto(k), w)}
<1>1. N \in Nat /\ DOMAIN names = 1..N /\ \A j \in 1..N : names[j] \in Names
  OBVIOUS
<1>2. UpdateAll(t, names, w) = after[N]
  BY DEF UpdateAll, Passing
<1> HIDE DEF N
<1>3. Passing(after, N, t, names, w)
  BY <1>1, SomePassing
<1> HIDE DEF after
<1>4. \A k \in 0..N : after[k] = IF k = 0 THEN t ELSE UpdateOutput(after[k - 1], names[k], w)
  BY <1>3 DEF Passing
<1>5. ASSUME Refuting # {}
      PROVE  FALSE
  <2>1. PICK k \in Refuting : \A m \in Refuting : k <= m
    BY <1>5, LeastNatural
  <2>2. k \in Nat /\ k <= N /\ ~Noting(after[k], t, Upto(k), w)
    OBVIOUS
  <2>3. k # 0
    <3>1. Upto(0) = {}
      OBVIOUS
    <3>2. after[0] = t
      BY <1>1, <1>4
    <3>3. Noting(after[0], t, {}, w)
      BY <3>2 DEF Noting
    <3> HIDE DEF Upto
    <3>4. QED
      BY <2>2, <3>1, <3>3
  <2> DEFINE l == k - 1
  <2>4. l \in Nat /\ l <= N /\ l < k /\ k \in 0..N /\ k \in 1..N
    BY <1>1, <2>2, <2>3
  <2>5. Noting(after[l], t, Upto(l), w)
    <3> HIDE DEF l, Upto
    <3>1. l \notin Refuting
      BY <2>1, <2>2, <2>4
    <3>2. QED
      BY <2>4, <3>1
  <2>6. after[k] = UpdateOutput(after[l], names[k], w)
    BY <1>4, <2>3, <2>4
  <2>7. names[k] \in Names
    BY <1>1, <2>4
  <2>8. Upto(k) = Upto(l) \cup {names[k]}
    <3>1. \A j \in 1..k : j \in 1..l \/ j = k
      BY <2>2
    <3>2. \A j \in 1..l : j \in 1..k
      BY <2>2
    <3>3. QED
      BY <2>4, <3>1, <3>2
  <2> HIDE DEF l, Upto
  <2> DEFINE a == after[l]
             u == UpdateOutput(a, names[k], w)
  <2> HIDE DEF a
  <2>9. /\ IsTable(u) /\ u # << >>
        /\ \A m : m # names[k] => Noted(u, m) = Noted(a, m)
        /\ Noted(u, names[k]) \subseteq {w}
    <3>1. IsTable(a)
      BY <2>5 DEF Noting, a
    <3>2. QED
      BY <2>7, <3>1, UpdateOutputNotes
  <2> HIDE DEF u
  <2>10. Noting(u, t, Upto(k), w)
    BY <2>5, <2>8, <2>9 DEF Noting, a
  <2>11. QED
    BY <2>2, <2>6, <2>10 DEF u, a
<1>6. Noting(after[N], t, Upto(N), w)
  <2> HIDE DEF Upto
  <2>1. N <= N
    BY <1>1
  <2>2. QED
    BY <1>1, <1>5, <2>1
<1>7. QED
  BY <1>1, <1>2, <1>6


(* A list of all of a set. *)
LEMMA ListOf ==
    ASSUME NEW S, NEW M \in SUBSET S, IsFiniteSet(M)
    PROVE  SetToSeq(M) \in Seq(S) /\ {SetToSeq(M)[i] : i \in DOMAIN SetToSeq(M)} = M
<1> DEFINE n == Cardinality(M)
           l == SetToSeq(M)
<1>1. n \in Nat /\ ExistsBijection(1..n, M)
  BY FS_CardinalityType
<1>2. \E f \in [1..n -> M] : IsInjective(f)
  BY <1>1 DEF ExistsBijection, Bijection, Injection
<1>3. l \in [1..n -> M] /\ IsInjective(l)
  BY <1>2 DEF SetToSeq
<1>4. IsFiniteSet(1..n) /\ Cardinality(1..n) = n
  BY <1>1, UptoFinite
<1> HIDE DEF l, n
<1>5. l \in Injection(1..n, M)
  BY <1>3 DEF Injection
<1>6. l \in Surjection(1..n, M)
  <2>1. Cardinality(1..n) = Cardinality(M)
    BY <1>4 DEF n
  <2>2. QED
    BY <1>5, <2>1, FS_Injection
<1>7. \A x \in M : \E i \in 1..n : l[i] = x
  BY <1>6 DEF Surjection
<1>8. DOMAIN l = 1..n
  BY <1>3
<1>9. {l[i] : i \in DOMAIN l} = M
  BY <1>3, <1>7, <1>8
<1>10. l \in Seq(S)
  BY <1>1, <1>3
<1>11. QED
  BY <1>9, <1>10 DEF l

-----------------------------------------------------------------------------

(* While a save is under way the table is not empty; what will be renamed is the table. *)
SaveRight ==
    /\ saver # "idle" => up /\ mem # << >>
    /\ saver = "rename" => tmp = mem

(* No entry is newer than the last request. *)
Dated(t) == \A n \in Names : \A v \in Noted(t, n) : v <= requests

StoreInv ==
    /\ StoreTypeOK /\ SaveRight /\ AckedOnDisk /\ StoreFollowsScreen
    /\ Dated(mem) /\ Dated(acked)

LEMMA DiskTable ==
    ASSUME StoreInv, NEW old, IsTable(old)
    PROVE  IsTable(Loaded(old))
  BY DEF StoreInv, StoreTypeOK, Loaded

LEMMA PluggedMonitors ==
    ASSUME StoreTypeOK
    PROVE  Plugged \subseteq Monitors
  BY DEF StoreTypeOK, Plugged

Named(names) == {names[j] : j \in DOMAIN names}

LEMMA NamesAsked ==
    ASSUME outputs \in Seq(Monitors), NEW targets \in SUBSET Monitors, NEW kind \in Kinds
    PROVE  /\ NamesOf(targets, kind) \in Seq(Names)
           /\ Named(NamesOf(targets, kind)) # {}
           /\ targets = {} /\ kind = "picture" => Plugged \subseteq Named(NamesOf(targets, kind))
           /\ targets = {} /\ kind = "engine" => Named(NamesOf(targets, kind)) = {AllOutputs}
           /\ targets # {} => Named(NamesOf(targets, kind)) = targets
<1> DEFINE names == NamesOf(targets, kind)
           named == {names[j] : j \in DOMAIN names}
<1> USE DEF Named
<1>1. CASE targets = {} /\ kind = "picture"
  <2>1. names = <<AllOutputs>> \o outputs
    BY <1>1 DEF NamesOf
  <2>2. outputs \in Seq(Names) /\ AllOutputs \in Names
    BY DEF Names
  <2>3. /\ names \in Seq(Names) /\ Len(names) = Len(outputs) + 1 /\ Len(outputs) \in Nat
        /\ DOMAIN names = 1..Len(outputs) + 1 /\ DOMAIN outputs = 1..Len(outputs)
    BY <2>1, <2>2
  <2>4. \A i \in DOMAIN outputs : names[i + 1] = outputs[i]
    BY <2>1, <2>2
  <2> HIDE DEF names
  <2>5. 1 \in DOMAIN names /\ \A i \in DOMAIN outputs : i + 1 \in DOMAIN names
    BY <2>3
  <2>6. Plugged \subseteq named
    BY <2>4, <2>5 DEF Plugged
  <2>7. QED
    BY <1>1, <2>3, <2>5, <2>6 DEF names
<1>2. CASE targets # {}
  <2>1. IsFiniteSet(targets) /\ targets \in SUBSET Names
    BY StateStoreAssumption, FS_Subset DEF Names
  <2>2. names = SetToSeq(targets)
    BY <1>2 DEF NamesOf
  <2>3. names \in Seq(Names) /\ named = targets
    BY <2>1, <2>2, ListOf
  <2>4. QED
    BY <1>2, <2>3
<1>3. CASE targets = {} /\ kind = "engine"
  <2>1. names = <<AllOutputs>>
    BY <1>3 DEF NamesOf
  <2>2. AllOutputs \in Names
    BY DEF Names
  <2>3. DOMAIN names = {1} /\ names[1] = AllOutputs /\ names \in Seq(Names)
    BY <2>1, <2>2
  <2>4. named = {AllOutputs}
    BY <2>3
  <2>5. QED
    BY <1>3, <2>3, <2>4
<1>4. QED
  BY <1>1, <1>2, <1>3 DEF Kinds

(* After a request what is noted agrees with the screen, or is older than an engine for all. *)
LEMMA RequestFollowed ==
    ASSUME StoreInv, NEW targets \in SUBSET Monitors, NEW kind \in Kinds,
           Request(targets, kind), ~refused', NEW m \in Plugged
    PROVE  FindOutput(mem', m) \in {None, shown'[m]} \/ Overshadowed(m)'
<1> DEFINE w == requests + 1
           names == NamesOf(targets, kind)
           named == Named(names)
<1>1. /\ up /\ requests < MaxRequests /\ mem' = UpdateAll(mem, names, w)
      /\ refused' = (refused \/ \E i \in DOMAIN names : ~Has(mem', names[i]))
      /\ byEngine' = IF kind = "engine" THEN byEngine \cup {w} ELSE byEngine
      /\ shown' = [o \in Monitors |->
            IF o \in Plugged /\ (targets = {} \/ o \in targets) THEN w ELSE shown[o]]
  BY DEF Request
<1>2. StoreTypeOK /\ StoreFollowsScreen /\ Dated(mem)
  BY DEF StoreInv
<1>3. w \in 1..MaxRequests /\ requests \in Nat /\ requests < w
  BY <1>1, <1>2, StateStoreAssumption DEF StoreTypeOK
<1>4. /\ names \in Seq(Names)
      /\ targets = {} /\ kind = "picture" => Plugged \subseteq named
      /\ targets = {} /\ kind = "engine" => named = {AllOutputs}
      /\ targets # {} => named = targets
  BY <1>2, NamesAsked DEF StoreTypeOK
<1> HIDE DEF names, w
<1>5. Noting(mem', mem, named, w)
  BY <1>1, <1>2, <1>3, <1>4, UpdateAllNotes DEF StoreTypeOK, Named
<1>6. \A n \in named : Noted(mem', n) = {w}
  <2>1. \A n \in named : Has(mem', n) /\ Noted(mem', n) \subseteq {w}
    BY <1>1, <1>5 DEF Noting, Named
  <2>2. QED
    BY <2>1, HasNoted
<1> HIDE DEF named
<1>7. m \in Monitors /\ m # AllOutputs /\ m \in Names
  BY <1>2, PluggedMonitors, StateStoreAssumption DEF Names
<1>8. CASE m \in named /\ (targets = {} \/ m \in targets)
  <2>1. shown'[m] = w
    BY <1>1, <1>7, <1>8
  <2>2. QED
    BY <1>6, <1>8, <2>1, FoundNew
<1>9. CASE targets = {} /\ kind = "engine"
  <2>1. /\ shown'[m] = w /\ w \in byEngine' /\ Noted(mem', AllOutputs) = {w}
        /\ Noted(mem', m) = Noted(mem, m)
    BY <1>1, <1>4, <1>5, <1>6, <1>7, <1>9 DEF Noting
  <2>2. CASE Noted(mem, m) = {}
    <3>1. ~Has(mem', m) /\ Has(mem', AllOutputs)
      BY <2>1, <2>2, HasNoted
    <3>2. FindOutput(mem', m) = w
      BY <2>1, <3>1 DEF FindOutput
    <3>3. QED
      BY <2>1, <3>2
  <2>3. CASE Noted(mem, m) # {}
    <3>1. PICK v \in Noted(mem, m) : TRUE
      BY <2>3
    <3>2. v \in 1..MaxRequests
      BY <1>2, NotedTyped DEF StoreTypeOK
    <3>3. v <= requests
      BY <1>2, <1>7 DEF Dated
    <3>4. v < w
      BY <1>3, <3>2, <3>3
    <3>5. Overshadowed(m)'
      BY <2>1, <3>1, <3>4 DEF Overshadowed
    <3>6. QED
      BY <3>5
  <2>4. QED
    BY <2>2, <2>3
<1>10. CASE targets # {} /\ m \notin targets
  <2>1. m \notin named /\ AllOutputs \notin named /\ shown'[m] = shown[m] /\ ~refused
    BY <1>1, <1>4, <1>7, <1>10, StateStoreAssumption
  <2>2. Noted(mem', m) = Noted(mem, m) /\ Noted(mem', AllOutputs) = Noted(mem, AllOutputs)
    BY <1>5, <2>1 DEF Noting
  <2>3. FindOutput(mem', m) = FindOutput(mem, m)
    BY <2>2, FoundSame
  <2>4. Overshadowed(m) => Overshadowed(m)'
    BY <1>1, <2>1, <2>2 DEF Overshadowed
  <2>5. QED
    BY <1>1, <1>2, <2>1, <2>3, <2>4 DEF StoreFollowsScreen
<1>11. QED
  BY <1>4, <1>8, <1>9, <1>10 DEF Kinds

LEMMA RequestKeeps ==
    ASSUME StoreInv, NEW targets \in SUBSET Monitors, NEW kind \in Kinds,
           Request(targets, kind)
    PROVE  StoreInv'
<1> DEFINE w == requests + 1
           names == NamesOf(targets, kind)
           named == Named(names)
<1>1. /\ up /\ saver = "idle" /\ requests < MaxRequests
      /\ requests' = w /\ mem' = UpdateAll(mem, names, w)
      /\ byEngine' = IF kind = "engine" THEN byEngine \cup {w} ELSE byEngine
      /\ refused' = (refused \/ \E i \in DOMAIN names : ~Has(mem', names[i]))
      /\ shown' = [m \in Monitors |->
            IF m \in Plugged /\ (targets = {} \/ m \in targets) THEN w ELSE shown[m]]
      /\ saver' = "write" /\ tmp' = Torn
      /\ disk' = disk /\ up' = up /\ outputs' = outputs /\ acked' = acked
  BY DEF Request
<1>2. StoreTypeOK /\ AckedOnDisk /\ StoreFollowsScreen /\ Dated(mem) /\ Dated(acked)
  BY DEF StoreInv
<1>3. w \in 1..MaxRequests /\ w \in 0..MaxRequests /\ requests \in Nat /\ requests < w
  BY <1>1, <1>2, StateStoreAssumption DEF StoreTypeOK
<1>4. names \in Seq(Names) /\ named # {}
  BY <1>2, NamesAsked DEF StoreTypeOK
<1> HIDE DEF names, w
<1>5. Noting(mem', mem, named, w)
  BY <1>1, <1>2, <1>3, <1>4, UpdateAllNotes DEF StoreTypeOK, Named
<1> HIDE DEF named
<1>6. IsTable(mem') /\ mem' # << >>
  BY <1>4, <1>5 DEF Noting
<1>7. StoreTypeOK'
  <2>1. refused' \in BOOLEAN /\ shown' \in [Monitors -> 0..MaxRequests]
    BY <1>1, <1>2, <1>3 DEF StoreTypeOK
  <2>2. byEngine' \subseteq 1..MaxRequests
    BY <1>1, <1>2, <1>3 DEF StoreTypeOK
  <2>3. QED
    BY <1>1, <1>2, <1>3, <1>6, <2>1, <2>2 DEF StoreTypeOK, IsTable
<1>8. SaveRight' /\ AckedOnDisk'
  BY <1>1, <1>2, <1>6 DEF SaveRight, AckedOnDisk
<1>9. Dated(mem)' /\ Dated(acked)'
  <2>1. ASSUME NEW t, IsTable(t), Dated(t), NEW n \in Names, NEW v \in Noted(t, n)
        PROVE  v <= w
    <3>1. v \in 1..MaxRequests /\ v <= requests
      BY <2>1, NotedTyped DEF Dated
    <3>2. QED
      BY <1>3, <3>1
  <2>2. \A n \in Names : \A v \in Noted(mem, n) : v <= w
    BY <1>2, <2>1 DEF StoreTypeOK
  <2>3. \A n \in Names : \A v \in Noted(acked, n) : v <= w
    BY <1>2, <2>1 DEF StoreTypeOK
  <2>4. \A n \in Names : Noted(mem', n) = Noted(mem, n) \/ Noted(mem', n) \subseteq {w}
    BY <1>5 DEF Noting
  <2>5. w <= w
    BY <1>3
  <2>6. Dated(mem)'
    BY <1>1, <2>2, <2>4, <2>5 DEF Dated
  <2>7. Dated(acked)'
    BY <1>1, <2>3 DEF Dated
  <2>8. QED
    BY <2>6, <2>7
<1>10. Plugged' = Plugged
  BY <1>1 DEF Plugged
<1>11. StoreFollowsScreen'
  BY <1>10, RequestFollowed DEF StoreFollowsScreen
<1>12. QED
  BY <1>7, <1>8, <1>9, <1>11 DEF StoreInv

LEMMA SavingKeeps ==
    ASSUME StoreInv, Write \/ Rename \/ Die
    PROVE  StoreInv'
<1>1. CASE Write
  BY <1>1 DEF Write, StoreInv, StoreTypeOK, SaveRight, AckedOnDisk, StoreFollowsScreen,
              IsTable, Plugged, Overshadowed, Dated
<1>2. CASE Rename
  BY <1>2 DEF Rename, StoreInv, StoreTypeOK, SaveRight, AckedOnDisk, StoreFollowsScreen,
              IsTable, Plugged, Overshadowed, Dated
<1>3. CASE Die
  <2>1. /\ up' = FALSE /\ mem' = << >> /\ saver' = "idle" /\ outputs' = << >>
        /\ shown' = [m \in Monitors |-> None]
        /\ UNCHANGED <<disk, tmp, requests, byEngine, refused, acked>>
    BY <1>3 DEF Die
  <2>2. IsTable(<< >>) /\ << >> \in Seq(Monitors) /\ 0 \in 0..MaxRequests
    <3>1. 0 <= MaxEntries /\ 0 \in 0..MaxRequests
      BY StateStoreAssumption
    <3>2. Len(<< >>) = 0 /\ << >> \in Seq([name : Names, what : 1..MaxRequests])
      OBVIOUS
    <3>3. << >> \in Seq(Monitors)
      OBVIOUS
    <3>4. QED
      BY <3>1, <3>2, <3>3 DEF IsTable
  <2>3. StoreTypeOK'
    BY <2>1, <2>2 DEF StoreInv, StoreTypeOK, IsTable, None
  <2>4. Dated(mem)' /\ Dated(acked)'
    <3>1. \A n : Noted(<< >>, n) = {}
      BY DEF Noted
    <3>2. QED
      BY <2>1, <3>1 DEF StoreInv, Dated
  <2>5. QED
    BY <2>1, <2>3, <2>4 DEF StoreInv, SaveRight, AckedOnDisk, StoreFollowsScreen
<1>4. QED
  BY <1>1, <1>2, <1>3

LEMMA BootKeeps ==
    ASSUME StoreInv, NEW M \in SUBSET Monitors, Boot(SetToSeq(M))
    PROVE  StoreInv'
<1> DEFINE list == SetToSeq(M)
<1>1. /\ ~up /\ up' = TRUE /\ mem' = Loaded(<< >>) /\ outputs' = list
      /\ shown' = [m \in Monitors |->
            IF \E i \in DOMAIN list : list[i] = m THEN FindOutput(mem', m) ELSE None]
      /\ tmp' = Absent /\ refused' = FALSE
      /\ UNCHANGED <<disk, saver, requests, byEngine, acked>>
  BY DEF Boot
<1>2. list \in Seq(Monitors)
  BY StateStoreAssumption, FS_Subset, ListOf
<1> HIDE DEF list
<1>3. StoreTypeOK /\ AckedOnDisk /\ saver = "idle" /\ Dated(acked)
  BY <1>1 DEF StoreInv, SaveRight
<1>4. IsTable(<< >>) /\ 0 \in 0..MaxRequests
  <2>1. 0 <= MaxEntries /\ 0 \in 0..MaxRequests
    BY StateStoreAssumption
  <2>2. Len(<< >>) = 0 /\ << >> \in Seq([name : Names, what : 1..MaxRequests])
    OBVIOUS
  <2>3. QED
    BY <2>1, <2>2 DEF IsTable
<1>5. IsTable(mem')
  BY <1>1, <1>4, DiskTable
<1>6. \A m : FindOutput(mem', m) \in 0..MaxRequests
  BY <1>5, FoundTyped
<1>7. StoreTypeOK'
  <2>1. shown' \in [Monitors -> 0..MaxRequests]
    BY <1>1, <1>4, <1>6 DEF None
  <2>2. QED
    BY <1>1, <1>2, <1>3, <1>5, <2>1 DEF StoreTypeOK, IsTable
<1>8. SaveRight' /\ AckedOnDisk'
  BY <1>1, <1>3 DEF SaveRight, AckedOnDisk
<1>9. ASSUME NEW m \in Plugged'
      PROVE  FindOutput(mem', m) = shown'[m]
  <2>1. PICK i \in DOMAIN list : m = list[i]
    BY <1>1 DEF Plugged
  <2>2. m \in Monitors
    BY <1>2, <2>1
  <2>3. QED
    BY <1>1, <2>1, <2>2
<1>10. StoreFollowsScreen'
  BY <1>9 DEF StoreFollowsScreen
<1>11. Dated(mem)' /\ Dated(acked)'
  <2>1. \A n : Noted(<< >>, n) = {}
    BY DEF Noted
  <2>2. mem' \in {<< >>, acked}
    BY <1>1, <1>3 DEF AckedOnDisk, Loaded
  <2>3. QED
    BY <1>1, <1>3, <2>1, <2>2 DEF Dated
<1>12. QED
  BY <1>7, <1>8, <1>10, <1>11 DEF StoreInv

LEMMA PlugKeeps ==
    ASSUME StoreInv, NEW m \in Monitors, Plug(m) \/ Unplug(m)
    PROVE  StoreInv'
<1>1. StoreTypeOK /\ AckedOnDisk /\ SaveRight /\ StoreFollowsScreen /\ outputs \in Seq(Monitors)
      /\ Dated(mem) /\ Dated(acked)
  BY DEF StoreInv, StoreTypeOK
<1>2. Plugged \subseteq Monitors
  BY <1>1, PluggedMonitors
<1>3. CASE Plug(m)
  <2>1. /\ outputs' = Append(outputs, m)
        /\ shown' = [shown EXCEPT ![m] = FindOutput(mem, m)]
        /\ UNCHANGED <<mem, disk, tmp, saver, up, requests, byEngine, refused, acked>>
    BY <1>3 DEF Plug
  <2>2. /\ Append(outputs, m) \in Seq(Monitors)
        /\ DOMAIN Append(outputs, m) = DOMAIN outputs \cup {Len(outputs) + 1}
        /\ Append(outputs, m)[Len(outputs) + 1] = m
        /\ \A i \in DOMAIN outputs : Append(outputs, m)[i] = outputs[i]
    BY <1>1
  <2>3. Plugged' = Plugged \cup {m}
    BY <2>1, <2>2 DEF Plugged
  <2>4. FindOutput(mem, m) \in 0..MaxRequests
    BY <1>1, FoundTyped DEF StoreTypeOK
  <2>5. shown' \in [Monitors -> 0..MaxRequests]
    BY <1>1, <2>1, <2>4 DEF StoreTypeOK
  <2>6. StoreTypeOK'
    BY <1>1, <2>1, <2>2, <2>5 DEF StoreTypeOK, IsTable
  <2>7. \A k \in Monitors : shown'[k] = IF k = m THEN FindOutput(mem, m) ELSE shown[k]
    BY <1>1, <2>1 DEF StoreTypeOK
  <2>8. StoreFollowsScreen'
    <3> SUFFICES ASSUME up', ~refused', NEW k \in Plugged'
                 PROVE  FindOutput(mem, k) \in {None, shown'[k]} \/ Overshadowed(k)'
      BY <2>1 DEF StoreFollowsScreen
    <3>1. CASE k = m
      BY <2>7, <3>1
    <3>2. CASE k # m
      <4>1. k \in Plugged /\ k \in Monitors /\ up /\ ~refused
        BY <1>2, <2>1, <2>3, <3>2
      <4>2. FindOutput(mem, k) \in {None, shown[k]} \/ Overshadowed(k)
        BY <1>1, <4>1 DEF StoreFollowsScreen
      <4>3. shown'[k] = shown[k]
        BY <2>7, <3>2, <4>1
      <4>4. Overshadowed(k) => Overshadowed(k)'
        BY <2>1, <4>3 DEF Overshadowed
      <4>5. QED
        BY <4>2, <4>3, <4>4
    <3>3. QED
      BY <3>1, <3>2
  <2>9. QED
    BY <1>1, <2>1, <2>6, <2>8 DEF StoreInv, SaveRight, AckedOnDisk, Dated
<1>4. CASE Unplug(m)
  <2>1. /\ outputs' = Compact(outputs, {m})
        /\ shown' = [shown EXCEPT ![m] = None]
        /\ UNCHANGED <<mem, disk, tmp, saver, up, requests, byEngine, refused, acked>>
    BY <1>4 DEF Unplug
  <2>2. outputs' \in Seq(Monitors)
    BY <1>1, <2>1, CompactRange
  <2> DEFINE rest == Compact(outputs, {m})
  <2>10. Members(rest) = Members(outputs) \ {m}
    <3>1. outputs \in Seq(Monitors)
      BY <1>1 DEF StoreTypeOK
    <3>2. QED
      BY <3>1, CompactMembers
  <2>3. Plugged' = Plugged \ {m}
    <3>1. Plugged = Members(outputs)
      BY DEF Plugged, Members
    <3>2. Plugged' = Members(outputs')
      BY DEF Plugged, Members
    <3>3. QED
      BY <2>1, <2>10, <3>1, <3>2
  <2>4. 0 \in 0..MaxRequests
    BY StateStoreAssumption
  <2>5. shown' \in [Monitors -> 0..MaxRequests]
    BY <1>1, <2>1, <2>4 DEF StoreTypeOK, None
  <2>6. StoreTypeOK'
    BY <1>1, <2>1, <2>2, <2>5 DEF StoreTypeOK, IsTable
  <2>7. \A k \in Monitors : k # m => shown'[k] = shown[k]
    BY <1>1, <2>1 DEF StoreTypeOK
  <2>8. StoreFollowsScreen'
    <3> SUFFICES ASSUME up', ~refused', NEW k \in Plugged'
                 PROVE  FindOutput(mem, k) \in {None, shown'[k]} \/ Overshadowed(k)'
      BY <2>1 DEF StoreFollowsScreen
    <3>1. k \in Plugged /\ k # m /\ k \in Monitors /\ up /\ ~refused
      BY <1>2, <2>1, <2>3
    <3>2. FindOutput(mem, k) \in {None, shown[k]} \/ Overshadowed(k)
      BY <1>1, <3>1 DEF StoreFollowsScreen
    <3>3. shown'[k] = shown[k]
      BY <2>7, <3>1
    <3>4. Overshadowed(k) => Overshadowed(k)'
      BY <2>1, <3>3 DEF Overshadowed
    <3>5. QED
      BY <3>2, <3>3, <3>4
  <2>9. QED
    BY <1>1, <2>1, <2>6, <2>8 DEF StoreInv, SaveRight, AckedOnDisk, Dated
<1>5. QED
  BY <1>3, <1>4

LEMMA RestoreKeeps ==
    ASSUME StoreInv, Restore
    PROVE  StoreInv'
<1> DEFINE loaded == Loaded(mem)
           nothing == \A m \in Plugged : FindOutput(loaded, m) = None
           first == IF nothing /\ loaded # << >> THEN loaded[1].what ELSE None
           Put(m) == IF FindOutput(loaded, m) # None THEN FindOutput(loaded, m)
                     ELSE IF first # None THEN first ELSE shown[m]
<1>1. /\ saver = "idle" /\ mem' = loaded
      /\ shown' = [m \in Monitors |-> IF m \in Plugged THEN Put(m) ELSE shown[m]]
      /\ refused' = (refused /\ loaded = mem)
      /\ UNCHANGED <<disk, tmp, saver, up, outputs, requests, byEngine, acked>>
  BY DEF Restore
<1>2. StoreTypeOK /\ AckedOnDisk /\ SaveRight /\ StoreFollowsScreen /\ IsTable(mem)
      /\ Dated(mem) /\ Dated(acked)
  BY DEF StoreInv, StoreTypeOK
<1>3. Plugged \subseteq Monitors /\ Plugged' = Plugged
  BY <1>1, <1>2, PluggedMonitors DEF Plugged
<1>4. IsTable(loaded)
  BY <1>2, DiskTable
<1>12. loaded \in {mem, acked}
  BY <1>2 DEF AckedOnDisk, Loaded
<1> HIDE DEF loaded
<1>5. first \in 0..MaxRequests
  <2>1. loaded \in Seq([name : Names, what : 1..MaxRequests])
    BY <1>4 DEF IsTable
  <2>2. loaded # << >> => loaded[1] \in [name : Names, what : 1..MaxRequests]
    <3> DEFINE E == [name : Names, what : 1..MaxRequests]
    <3> HIDE DEF E
    <3>1. \A q \in Seq(E) : q # << >> => q[1] \in E
      OBVIOUS
    <3>2. loaded \in Seq(E)
      BY <2>1 DEF E
    <3>3. loaded # << >> => loaded[1] \in E
      BY <3>1, <3>2
    <3>4. QED
      BY <3>3 DEF E
  <2>3. loaded # << >> => loaded[1].what \in 1..MaxRequests
    BY <2>2
  <2>4. \A v \in 1..MaxRequests : v \in 0..MaxRequests
    OBVIOUS
  <2>5. 0 \in 0..MaxRequests
    BY StateStoreAssumption
  <2> HIDE DEF nothing
  <2>6. QED
    BY <2>3, <2>4, <2>5 DEF None
<1> HIDE DEF nothing, first
<1>6. \A m \in Monitors : FindOutput(loaded, m) \in 0..MaxRequests
  BY <1>4, FoundTyped
<1>7. shown' \in [Monitors -> 0..MaxRequests]
  BY <1>1, <1>2, <1>5, <1>6 DEF StoreTypeOK
<1>8. StoreTypeOK'
  BY <1>1, <1>2, <1>4, <1>7 DEF StoreTypeOK, IsTable
<1>9. \A m \in Plugged : FindOutput(loaded, m) \in {None, shown'[m]}
  BY <1>1, <1>3
<1>10. StoreFollowsScreen'
  BY <1>1, <1>3, <1>9 DEF StoreFollowsScreen
<1>11. Dated(mem)' /\ Dated(acked)'
  BY <1>1, <1>2, <1>12 DEF Dated
<1>13. QED
  BY <1>1, <1>2, <1>8, <1>10, <1>11 DEF StoreInv, SaveRight, AckedOnDisk

LEMMA StoreBegins == StoreInit => StoreInv
<1> SUFFICES ASSUME StoreInit
             PROVE  StoreInv
  OBVIOUS
<1>1. /\ 0 <= MaxEntries /\ 0 \in 0..MaxRequests
      /\ Len(<< >>) = 0 /\ << >> \in Seq([name : Names, what : 1..MaxRequests])
      /\ << >> \in Seq(Monitors)
  BY StateStoreAssumption
<1>2. IsTable(<< >>)
  BY <1>1 DEF IsTable
<1>3. StoreTypeOK
  BY <1>1, <1>2 DEF StoreInit, StoreTypeOK, None
<1>4. \A n : Noted(<< >>, n) = {}
  BY DEF Noted
<1>5. Dated(mem) /\ Dated(acked)
  BY <1>4 DEF StoreInit, Dated
<1>6. QED
  BY <1>3, <1>5 DEF StoreInit, StoreInv, SaveRight, AckedOnDisk, StoreFollowsScreen

LEMMA StoreSpecInv == StoreSpec => []StoreInv
<1>1. StoreInv /\ [StoreNext]_storeVars => StoreInv'
  <2> SUFFICES ASSUME StoreInv, [StoreNext]_storeVars
               PROVE  StoreInv'
    OBVIOUS
  <2>1. CASE StoreNext
    BY <2>1, RequestKeeps, SavingKeeps, RestoreKeeps, BootKeeps, PlugKeeps DEF StoreNext
  <2>2. CASE UNCHANGED storeVars
    BY <2>2 DEF storeVars, StoreInv, StoreTypeOK, SaveRight, AckedOnDisk,
                StoreFollowsScreen, Plugged, Overshadowed, Dated
  <2>3. QED
    BY <2>1, <2>2
<1>2. QED
  BY <1>1, StoreBegins, PTL DEF StoreSpec

(* The variables of the store keep their types, across crashes: the table never has more *)
(* entries than the daemon keeps (state_store.c). *)
THEOREM StoreTypeCorrect == StoreSpec => []StoreTypeOK
<1>1. StoreInv => StoreTypeOK
  BY DEF StoreInv
<1>2. QED
  BY <1>1, StoreSpecInv, PTL

(* A crash at any point leaves the table of the last save that succeeded; and as long as *)
(* the table had room, what a monitor shows is what would be restored to it. *)
THEOREM RestoredAsShown == StoreSpec => []StoredAsShown
<1>1. StoreInv => StoredAsShown
  BY DEF StoreInv, StoredAsShown
<1>2. QED
  BY <1>1, StoreSpecInv, PTL

-----------------------------------------------------------------------------
(***************************************************************************)
(* The palettes.                                                           *)
(*                                                                         *)
(* Nothing but the way a palette came to be says whose it is: the proof    *)
(* follows every hand it passes through, from extraction to the export.    *)
(***************************************************************************)
Settings ==
    [wall : Wallpapers \cup {Unset},
     active : SomePalettes \cup {Unset}, saved : SomePalettes \cup {Unset},
     exported : SomePalettes \cup {Unset}, media : BOOLEAN, lastDay : {Unset} \cup BOOLEAN,
     enabled : BOOLEAN, fromMedia : BOOLEAN, light : BOOLEAN, auto : BOOLEAN]

(* A palette of a private or of a themeless wallpaper may be active and may be saved, so *)
(* what is exported is right only because of where it comes from: a saved palette is that of *)
(* the wallpaper unless the wallpaper is private, and an active one that of a cover while *)
(* there is no wallpaper or while a cover's is active. *)
ActiveRight(s) ==
    ~s.media /\ s.wall # Unset /\ ~Themeless(s) => s.active # Unset /\ s.active.of = s.wall
ExportRight(s) ==
    s.exported # Unset => s.exported.of \notin NoCache \cup NoTheme
SavedRight(s) ==
    s.saved # Unset /\ ~Private(s) => s.saved.of = s.wall
CoverActive(s) ==
    s.media \/ s.wall = Unset =>
        \/ s.active # Unset /\ s.active.of \in Covers
        \/ ~s.media /\ s.active = Unset

Coloured(s) ==
    s \in Settings /\ ActiveRight(s) /\ ExportRight(s) /\ SavedRight(s) /\ CoverActive(s)

(* A cover's palette is active only while covers are asked for. *)
PalInv ==
    /\ daylight \in BOOLEAN
    /\ player \in [cover : Covers \cup {Unset}, stopped : BOOLEAN]
    /\ Coloured(pal)
    /\ pal.media => pal.fromMedia

LEMMA OfPalette ==
    ASSUME NEW image \in Wallpapers \cup Covers, NEW light \in BOOLEAN
    PROVE  /\ Of(image, light) \in SomePalettes /\ Of(image, light).of = image
           /\ Of(image, light) # Unset
<1>1. Of(image, light) \in SomePalettes /\ Of(image, light).of = image
  BY DEF Of, SomePalettes
<1>2. QED
  BY <1>1, PaletteAssumption DEF SomePalettes

LEMMA ModeTyped ==
    ASSUME daylight \in BOOLEAN, NEW s \in Settings
    PROVE  Mode(s) \in BOOLEAN
<1>1. s.light \in BOOLEAN /\ s.auto \in BOOLEAN
  BY DEF Settings
<1>2. QED
  BY <1>1, Zenon DEF Mode

(* What only says which palettes are wanted changes nothing. *)
LEMMA SameColours ==
    ASSUME NEW s, Coloured(s), NEW t \in Settings,
           t.wall = s.wall, t.active = s.active, t.saved = s.saved,
           t.exported = s.exported, t.media = s.media
    PROVE  Coloured(t)
  BY DEF Coloured, ActiveRight, ExportRight, SavedRight, CoverActive, Themeless, Private

(* What is exported is a cover's palette, or that of a wallpaper that may be. *)
LEMMA ExportColoured ==
    ASSUME NEW s, Coloured(s),
           s.active # Unset => s.active.of \in Covers \/ (s.active.of = s.wall /\ ~Private(s) /\ ~Themeless(s))
    PROVE  Coloured(Export(s))
<1> DEFINE e == s.active
           t == [s EXCEPT !.exported = e]
<1>1. s \in Settings /\ e \in SomePalettes \cup {Unset}
  BY DEF Coloured, Settings
<1>2. e # Unset => e.of \notin NoCache \cup NoTheme
  BY PaletteAssumption DEF Private, Themeless
<1>3. Export(s) = t
  BY DEF Export
<1> HIDE DEF e
<1>4. t \in Settings
  BY <1>1 DEF Settings
<1>5. /\ t.wall = s.wall /\ t.active = s.active /\ t.saved = s.saved /\ t.media = s.media
      /\ t.exported = e
  BY <1>1 DEF Settings
<1> HIDE DEF t
<1>6. ExportRight(t)
  BY <1>2, <1>5 DEF ExportRight
<1>7. ActiveRight(t) /\ SavedRight(t) /\ CoverActive(t)
  BY <1>5 DEF Coloured, ActiveRight, SavedRight, CoverActive, Themeless, Private
<1>8. QED
  BY <1>3, <1>4, <1>6, <1>7 DEF Coloured

(* Whatever is active, if the palette is then taken from the wallpaper or saved. *)
Nearly(s) == s \in Settings /\ ExportRight(s) /\ SavedRight(s)

LEMMA RetakenColoured ==
    ASSUME NEW s, Nearly(s), s.wall # Unset, ~s.media, NEW light \in BOOLEAN
    PROVE  LET t == Retaken(s, light)
           IN  /\ Coloured(t) /\ t.active # Unset /\ t.active.of = s.wall
               /\ t.wall = s.wall /\ t.media = s.media /\ t.fromMedia = s.fromMedia
               /\ t.enabled = s.enabled
<1> DEFINE p == Of(s.wall, light)
           v == IF Private(s) THEN s.saved ELSE p
           t == [s EXCEPT !.active = p, !.saved = v]
<1>1. s \in Settings /\ s.wall \in Wallpapers /\ s.saved \in SomePalettes \cup {Unset}
  BY DEF Nearly, Settings
<1>2. p \in SomePalettes /\ p.of = s.wall /\ p # Unset
  BY <1>1, OfPalette
<1>3. Retaken(s, light) = t
  BY <1>1 DEF Retaken, Settings
<1> HIDE DEF p
<1>4. v \in SomePalettes \cup {Unset} /\ (~Private(s) => v = p)
  BY <1>1, <1>2
<1>5. Private(s) => v = s.saved
  OBVIOUS
<1> HIDE DEF v
<1>6. t \in Settings
  BY <1>1, <1>2, <1>4 DEF Settings
<1>7. /\ t.wall = s.wall /\ t.active = p /\ t.saved = v /\ t.media = s.media
      /\ t.exported = s.exported /\ t.fromMedia = s.fromMedia /\ t.enabled = s.enabled
  BY <1>1 DEF Settings
<1> HIDE DEF t
<1>8. Coloured(t)
  BY <1>2, <1>4, <1>6, <1>7
     DEF Nearly, Coloured, ActiveRight, ExportRight, SavedRight, CoverActive, Themeless,
         Private
<1>9. QED
  BY <1>2, <1>3, <1>4, <1>5, <1>7, <1>8

LEMMA ThemedColoured ==
    ASSUME NEW s, Coloured(s), s.active # Unset,
           s.media => s.active.of \in Covers, ~s.media => s.active.of = s.wall
    PROVE  /\ Coloured(Themed(s)) /\ Themed(s).media = s.media
           /\ Themed(s).fromMedia = s.fromMedia /\ Themed(s).wall = s.wall
<1>1. s \in Settings
  BY DEF Coloured
<1>2. /\ Export(s).media = s.media /\ Export(s).fromMedia = s.fromMedia
      /\ Export(s).wall = s.wall
  BY <1>1 DEF Export, Settings
<1>3. CASE ~s.enabled \/ (~s.media /\ (Themeless(s) \/ Private(s)))
  <2>1. Themed(s) = s
    BY <1>3 DEF Themed
  <2>2. QED
    BY <2>1
<1>4. CASE ~(~s.enabled \/ (~s.media /\ (Themeless(s) \/ Private(s))))
  <2>1. Themed(s) = Export(s)
    BY <1>4 DEF Themed
  <2>2. Coloured(Export(s))
    BY <1>4, ExportColoured
  <2>3. QED
    BY <1>2, <2>1, <2>2
<1>5. QED
  BY <1>3, <1>4

(* A player is heard of: its cover's palette, the saved one, or the wallpaper's again. *)
LEMMA HeardColoured ==
    ASSUME NEW s, Coloured(s), daylight \in BOOLEAN, NEW changed \in BOOLEAN,
           player' \in [cover : Covers \cup {Unset}, stopped : BOOLEAN]
    PROVE  LET h == Heard(s, changed)
           IN  Coloured(h) /\ (h.media => h.fromMedia)
<1> DEFINE c == player'.cover
           on == s.fromMedia /\ c # Unset /\ ~player'.stopped
           p == Of(c, Mode(s))
           quiet == [s EXCEPT !.media = FALSE]
           playing == [s EXCEPT !.active = p, !.media = TRUE]
           back == [quiet EXCEPT !.active = s.saved]
           again == Retaken(quiet, Mode(s))
<1>1. s \in Settings /\ Mode(s) \in BOOLEAN /\ c \in Covers \cup {Unset}
  BY ModeTyped DEF Coloured
<1>2. Heard(s, changed) =
        IF on THEN IF changed \/ ~s.media THEN Themed(playing) ELSE s
        ELSE IF ~s.media THEN s
        ELSE IF s.saved # Unset /\ ~Private(s) THEN Themed(back)
        ELSE IF s.wall # Unset THEN Themed(again)
        ELSE quiet
  BY DEF Heard
<1> HIDE DEF c
<1>3. ASSUME on
      PROVE  Coloured(Themed(playing)) /\ Themed(playing).fromMedia
  <2>1. p \in SomePalettes /\ p.of \in Covers /\ p # Unset
    BY <1>1, <1>3, OfPalette
  <2> HIDE DEF p
  <2>2. playing \in Settings
    BY <1>1, <2>1 DEF Settings
  <2>3. /\ playing.wall = s.wall /\ playing.active = p /\ playing.saved = s.saved
        /\ playing.exported = s.exported /\ playing.media = TRUE
        /\ playing.fromMedia = s.fromMedia
    BY <1>1 DEF Settings
  <2> HIDE DEF playing
  <2>4. Coloured(playing)
    BY <2>1, <2>2, <2>3
       DEF Coloured, ActiveRight, ExportRight, SavedRight, CoverActive, Themeless, Private
  <2>5. QED
    BY <1>3, <2>1, <2>3, <2>4, ThemedColoured
<1>4. quiet \in Settings
  BY <1>1 DEF Settings
<1>5. /\ quiet.wall = s.wall /\ quiet.active = s.active /\ quiet.saved = s.saved
      /\ quiet.exported = s.exported /\ quiet.media = FALSE
  BY <1>1 DEF Settings
<1>6. ASSUME s.saved # Unset, ~Private(s)
      PROVE  Coloured(Themed(back)) /\ ~Themed(back).media
  <2>1. back \in Settings
    BY <1>1 DEF Settings
  <2>2. /\ back.wall = s.wall /\ back.active = s.saved /\ back.saved = s.saved
        /\ back.exported = s.exported /\ back.media = FALSE
    BY <1>1 DEF Settings
  <2> HIDE DEF back
  <2>3. s.saved.of = s.wall /\ s.wall # Unset
    <3>1. s.saved \in SomePalettes
      BY <1>1, <1>6 DEF Settings
    <3>2. s.saved.of \in Wallpapers \cup Covers
      BY <3>1 DEF SomePalettes
    <3>3. s.saved.of = s.wall
      BY <1>6 DEF Coloured, SavedRight
    <3>4. QED
      BY <3>2, <3>3, PaletteAssumption
  <2>4. Coloured(back)
    BY <1>6, <2>1, <2>2, <2>3
       DEF Coloured, ActiveRight, ExportRight, SavedRight, CoverActive, Themeless, Private
  <2>5. QED
    BY <1>6, <2>2, <2>3, <2>4, ThemedColoured
<1> HIDE DEF quiet, back
<1>7. Nearly(quiet)
  BY <1>4, <1>5 DEF Nearly, Coloured, ExportRight, SavedRight, Private
<1>8. ASSUME s.wall # Unset
      PROVE  Coloured(Themed(again)) /\ ~Themed(again).media
  <2>1. /\ Coloured(again) /\ again.active # Unset /\ again.active.of = quiet.wall
        /\ again.wall = quiet.wall /\ again.media = quiet.media
    BY <1>1, <1>5, <1>7, <1>8, RetakenColoured
  <2> HIDE DEF again
  <2>2. QED
    BY <1>5, <2>1, ThemedColoured
<1>9. ASSUME s.media, s.wall = Unset
      PROVE  Coloured(quiet)
  <2>1. s.active # Unset /\ s.active.of \in Covers
    BY <1>9 DEF Coloured, CoverActive
  <2>2. QED
    BY <1>4, <1>5, <1>7, <1>9, <2>1 DEF Nearly, Coloured, ActiveRight, CoverActive
<1> HIDE DEF playing, again
<1>10. CASE on
  <2>1. Heard(s, changed) = IF changed \/ ~s.media THEN Themed(playing) ELSE s
    BY <1>2, <1>10
  <2>2. QED
    BY <1>3, <1>10, <2>1
<1>11. CASE ~on
  <2>1. Heard(s, changed) =
          IF ~s.media THEN s
          ELSE IF s.saved # Unset /\ ~Private(s) THEN Themed(back)
          ELSE IF s.wall # Unset THEN Themed(again)
          ELSE quiet
    BY <1>2, <1>11
  <2> HIDE DEF on
  <2>2. QED
    BY <1>5, <1>6, <1>8, <1>9, <2>1
<1>12. QED
  BY <1>10, <1>11

(* A wallpaper is shown. *)
LEMMA ImageColoured ==
    ASSUME NEW s, Coloured(s), s.media => s.fromMedia, daylight \in BOOLEAN,
           NEW w \in Wallpapers, NEW exports \in BOOLEAN
    PROVE  LET l == ImageLoaded(s, w, exports)
           IN  /\ Coloured(l) /\ (l.media => l.fromMedia)
<1> DEFINE p == Of(w, Mode(s))
           v == IF w \in NoTheme THEN Unset ELSE IF w \in NoCache THEN s.saved ELSE p
           t == [s EXCEPT !.wall = w, !.saved = v]
           u == [t EXCEPT !.active = p]
<1>1. s \in Settings /\ Mode(s) \in BOOLEAN /\ w # Unset
      /\ s.saved \in SomePalettes \cup {Unset}
  BY ModeTyped, PaletteAssumption DEF Coloured, Settings
<1>2. p \in SomePalettes /\ p.of = w /\ p # Unset
  BY <1>1, OfPalette
<1>3. ImageLoaded(s, w, exports) =
        IF w \in NoTheme \/ (s.fromMedia /\ s.media) THEN t
        ELSE IF exports /\ s.enabled /\ w \notin NoCache THEN Export(u) ELSE u
  BY <1>1 DEF ImageLoaded, Settings
<1> HIDE DEF p
<1>4. /\ v \in SomePalettes \cup {Unset}
      /\ w \notin NoCache /\ v # Unset => v.of = w
  BY <1>1, <1>2
<1> HIDE DEF v
<1>5. t \in Settings /\ u \in Settings
  BY <1>1, <1>2, <1>4 DEF Settings
<1>6. /\ t.wall = w /\ t.active = s.active /\ t.saved = v /\ t.exported = s.exported
      /\ t.media = s.media /\ t.fromMedia = s.fromMedia
  BY <1>1 DEF Settings
<1>7. /\ u.wall = w /\ u.active = p /\ u.saved = v /\ u.exported = s.exported
      /\ u.media = s.media /\ u.fromMedia = s.fromMedia
  BY <1>1 DEF Settings
<1> HIDE DEF t, u
<1>8. ExportRight(t) /\ ExportRight(u) /\ SavedRight(t) /\ SavedRight(u)
  BY <1>4, <1>6, <1>7 DEF Coloured, ExportRight, SavedRight, Private
<1>9. CASE w \in NoTheme \/ (s.fromMedia /\ s.media)
  <2>1. ActiveRight(t)
    BY <1>6, <1>9 DEF ActiveRight, Themeless
  <2>2. CoverActive(t)
    BY <1>1, <1>6 DEF Coloured, CoverActive
  <2>3. QED
    BY <1>3, <1>5, <1>6, <1>8, <1>9, <2>1, <2>2 DEF Coloured
<1>10. CASE ~(w \in NoTheme \/ (s.fromMedia /\ s.media))
  <2>1. ~s.media
    BY <1>10
  <2>2. ActiveRight(u) /\ CoverActive(u)
    BY <1>1, <1>2, <1>7, <2>1 DEF ActiveRight, CoverActive
  <2>3. Coloured(u)
    BY <1>5, <1>8, <2>2 DEF Coloured
  <2>4. w \notin NoCache => Coloured(Export(u))
    BY <1>2, <1>7, <1>10, <2>3, ExportColoured DEF Private, Themeless
  <2>5. Export(u).media = u.media
    BY <1>5 DEF Export, Settings
  <2>6. ImageLoaded(s, w, exports) =
          IF exports /\ s.enabled /\ w \notin NoCache THEN Export(u) ELSE u
    BY <1>3, <1>10
  <2>7. QED
    BY <1>7, <2>1, <2>3, <2>4, <2>5, <2>6
<1>11. QED
  BY <1>9, <1>10

(* A tick in which the sun has turned, or finds a palette of the wrong kind. *)
LEMMA SunColoured ==
    ASSUME NEW s, Coloured(s), daylight \in BOOLEAN
    PROVE  Coloured(SunThemed(s)) /\ SunThemed(s).media = s.media
           /\ SunThemed(s).fromMedia = s.fromMedia
<1> DEFINE t == [s EXCEPT !.lastDay = daylight]
           r == Retaken(t, daylight)
           p == Of(s.wall, daylight)
           m == [t EXCEPT !.saved = p]
<1>1. s \in Settings
  BY DEF Coloured
<1>2. t \in Settings
  BY <1>1 DEF Settings
<1>3. /\ t.wall = s.wall /\ t.active = s.active /\ t.saved = s.saved
      /\ t.exported = s.exported /\ t.media = s.media /\ t.fromMedia = s.fromMedia
  BY <1>1 DEF Settings
<1>4. \/ SunThemed(s) = s \/ SunThemed(s) = t
      \/ /\ s.wall # Unset /\ ~Themeless(s)
         /\ \/ ~s.media /\ Private(s) /\ SunThemed(s) = r
            \/ ~s.media /\ ~Private(s) /\ SunThemed(s) = Export(r)
            \/ s.media /\ SunThemed(s) = m
  <2> DEFINE turned == s.lastDay # Unset /\ s.lastDay # daylight
             wrong == s.active # Unset /\ s.active.light # daylight
             applies == /\ turned \/ wrong
                        /\ s.enabled /\ s.active # Unset /\ s.wall # Unset /\ ~Themeless(s)
  <2>1. SunThemed(s) =
          IF ~s.auto THEN s
          ELSE IF ~applies THEN t
          ELSE IF ~s.media THEN IF Private(s) THEN r ELSE Export(r)
          ELSE IF s.saved # Unset THEN m
          ELSE t
    BY DEF SunThemed
  <2>2. applies => s.wall # Unset /\ ~Themeless(s)
    OBVIOUS
  <2> HIDE DEF applies, t, r, m
  <2>3. QED
    BY <2>1, <2>2
<1> HIDE DEF t
<1>5. Coloured(t) /\ Nearly(t)
  <2>1. Coloured(t)
    BY <1>2, <1>3, SameColours
  <2>2. QED
    BY <2>1 DEF Coloured, Nearly
<1>6. ASSUME s.wall # Unset, ~Themeless(s), ~s.media
      PROVE  /\ Coloured(r) /\ r.media = s.media /\ r.fromMedia = s.fromMedia
             /\ ~Private(s) => Coloured(Export(r))
             /\ Export(r).media = s.media /\ Export(r).fromMedia = s.fromMedia
  <2>1. /\ Coloured(r) /\ r.active # Unset /\ r.active.of = s.wall /\ r.wall = s.wall
        /\ r.media = s.media /\ r.fromMedia = s.fromMedia
    BY <1>3, <1>5, <1>6, RetakenColoured
  <2> HIDE DEF r
  <2>2. ~Private(s) => Coloured(Export(r))
    BY <1>6, <2>1, ExportColoured DEF Private, Themeless
  <2>3. r \in Settings
    BY <2>1 DEF Coloured
  <2>4. Export(r).media = s.media /\ Export(r).fromMedia = s.fromMedia
    BY <2>1, <2>3 DEF Export, Settings
  <2>5. QED
    BY <2>1, <2>2, <2>4
<1>7. ASSUME s.wall # Unset, s.media
      PROVE  Coloured(m) /\ m.media = s.media /\ m.fromMedia = s.fromMedia
  <2>1. p \in SomePalettes /\ p.of = s.wall /\ p # Unset
    <3>1. s.wall \in Wallpapers
      BY <1>1, <1>7 DEF Settings
    <3>2. QED
      BY <3>1, OfPalette
  <2> HIDE DEF p
  <2>2. m \in Settings
    BY <1>2, <2>1 DEF Settings
  <2>3. /\ m.wall = s.wall /\ m.active = s.active /\ m.saved = p
        /\ m.exported = s.exported /\ m.media = s.media /\ m.fromMedia = s.fromMedia
    BY <1>2, <1>3 DEF Settings
  <2> HIDE DEF m
  <2>4. Coloured(m)
    BY <1>7, <2>1, <2>2, <2>3
       DEF Coloured, ActiveRight, ExportRight, SavedRight, CoverActive, Themeless, Private
  <2>5. QED
    BY <2>3, <2>4
<1> HIDE DEF r, m
<1>8. QED
  BY <1>3, <1>4, <1>5, <1>6, <1>7

(* The configuration is read again. *)
LEMMA RethemedColoured ==
    ASSUME NEW s, Coloured(s), daylight \in BOOLEAN
    PROVE  Coloured(Rethemed(s)) /\ Rethemed(s).media = s.media
           /\ Rethemed(s).fromMedia = s.fromMedia
<1> DEFINE r == Retaken(s, Mode(s))
           v == IF s.saved = Unset THEN Unset ELSE r.saved
           n == [r EXCEPT !.saved = v]
           t == IF s.media \/ s.wall = Unset THEN s ELSE n
<1>1. s \in Settings /\ Mode(s) \in BOOLEAN
  BY ModeTyped DEF Coloured
<1>2. ASSUME ~s.media, s.wall # Unset
      PROVE  /\ Coloured(n) /\ n.active # Unset /\ n.active.of = s.wall /\ n.wall = s.wall
             /\ n.media = s.media /\ n.fromMedia = s.fromMedia
             /\ n = [Retaken(s, Mode(s)) EXCEPT !.saved = IF s.saved = Unset THEN Unset ELSE @]
  <2>1. /\ Coloured(r) /\ r.active # Unset /\ r.active.of = s.wall /\ r.wall = s.wall
        /\ r.media = s.media /\ r.fromMedia = s.fromMedia
    BY <1>1, <1>2, RetakenColoured DEF Coloured, Nearly
  <2>2. r \in Settings /\ r.saved \in SomePalettes \cup {Unset}
    BY <2>1 DEF Coloured, Settings
  <2>3. n = [Retaken(s, Mode(s)) EXCEPT !.saved = IF s.saved = Unset THEN Unset ELSE @]
    BY <2>2 DEF Settings
  <2> HIDE DEF r
  <2>4. v \in SomePalettes \cup {Unset} /\ (v = Unset \/ v = r.saved)
    BY <2>2
  <2> HIDE DEF v
  <2>5. n \in Settings
    BY <2>2, <2>4 DEF Settings
  <2>6. /\ n.wall = r.wall /\ n.active = r.active /\ n.saved = v
        /\ n.exported = r.exported /\ n.media = r.media /\ n.fromMedia = r.fromMedia
    BY <2>2 DEF Settings
  <2>7. Coloured(n)
    BY <2>1, <2>4, <2>5, <2>6
       DEF Coloured, ActiveRight, ExportRight, SavedRight, CoverActive, Themeless, Private
  <2>8. QED
    BY <2>1, <2>3, <2>6, <2>7 DEF r
<1> HIDE DEF n
<1>3. /\ Coloured(t) /\ t.wall = s.wall /\ t.media = s.media /\ t.fromMedia = s.fromMedia
      /\ ~s.media /\ s.wall # Unset => t.active # Unset /\ t.active.of = s.wall
      /\ s.media \/ s.wall = Unset => t = s
  BY <1>2
<1>4. Rethemed(s) =
        IF ~s.enabled \/ s.active = Unset \/ (Themeless(s) /\ ~s.media) THEN s
        ELSE IF Private(s) /\ ~s.media THEN t
        ELSE Export(t)
  <2>1. t = IF s.media \/ s.wall = Unset THEN s
            ELSE [Retaken(s, Mode(s)) EXCEPT !.saved = IF s.saved = Unset THEN Unset ELSE @]
    BY <1>2
  <2> HIDE DEF t
  <2>2. QED
    BY <2>1 DEF Rethemed
<1> HIDE DEF t
<1>5. t \in Settings /\ Export(t).media = t.media /\ Export(t).fromMedia = t.fromMedia
  <2>1. t \in Settings
    BY <1>3 DEF Coloured
  <2>2. QED
    BY <2>1 DEF Export, Settings
<1>6. CASE ~s.enabled \/ s.active = Unset \/ (Themeless(s) /\ ~s.media)
  BY <1>4, <1>6
<1>7. CASE ~(~s.enabled \/ s.active = Unset \/ (Themeless(s) /\ ~s.media))
  <2>1. s.media \/ s.wall = Unset => s.active.of \in Covers
    BY <1>7 DEF Coloured, CoverActive
  <2>2. ~(Private(s) /\ ~s.media) => Coloured(Export(t))
    <3> SUFFICES ASSUME ~(Private(s) /\ ~s.media)
                 PROVE  Coloured(Export(t))
      OBVIOUS
    <3>1. CASE s.media \/ s.wall = Unset
      BY <1>3, <2>1, <3>1, ExportColoured
    <3>2. CASE ~(s.media \/ s.wall = Unset)
      <4>1. ~Private(t) /\ ~Themeless(t) /\ t.active.of = t.wall
        BY <1>3, <1>7, <3>2 DEF Private, Themeless
      <4>2. QED
        BY <1>3, <4>1, ExportColoured
    <3>3. QED
      BY <3>1, <3>2
  <2>3. Rethemed(s) = IF Private(s) /\ ~s.media THEN t ELSE Export(t)
    BY <1>4, <1>7
  <2>4. QED
    BY <1>3, <1>5, <2>2, <2>3
<1>8. QED
  BY <1>6, <1>7

LEMMA PaletteStep == PalInv /\ [PaletteNext]_palVars => PalInv'
<1> SUFFICES ASSUME PalInv, [PaletteNext]_palVars
             PROVE  PalInv'
  OBVIOUS
<1>1. /\ daylight \in BOOLEAN /\ Coloured(pal) /\ (pal.media => pal.fromMedia)
      /\ player \in [cover : Covers \cup {Unset}, stopped : BOOLEAN] /\ pal \in Settings
  BY DEF PalInv, Coloured
<1> USE PaletteAssumption
<1>2. CASE Turn
  BY <1>1, <1>2 DEF Turn, PalInv, Coloured, ActiveRight, ExportRight, SavedRight,
                    CoverActive, Themeless, Private
<1>3. CASE ThemeTick
  <2>1. pal' = SunThemed(pal) /\ UNCHANGED <<daylight, player>>
    BY <1>3 DEF ThemeTick
  <2>2. QED
    BY <1>1, <2>1, SunColoured DEF PalInv
<1>4. ASSUME NEW w \in Wallpapers, NEW exports \in BOOLEAN, Load(w, exports)
      PROVE  PalInv'
  <2>1. pal' = ImageLoaded(pal, w, exports) /\ UNCHANGED <<daylight, player>>
    BY <1>4 DEF Load
  <2>2. QED
    BY <1>1, <2>1, ImageColoured DEF PalInv
<1>5. ASSUME NEW art \in Covers \cup {Unset}, NEW stopped \in BOOLEAN, Play(art, stopped)
      PROVE  PalInv'
  <2> DEFINE changed == art # player.cover
  <2>1. /\ player' = [cover |-> art, stopped |-> stopped] /\ daylight' = daylight
        /\ pal' = Heard(pal, changed)
    BY <1>5 DEF Play
  <2>2. player' \in [cover : Covers \cup {Unset}, stopped : BOOLEAN]
    BY <2>1
  <2>3. changed \in BOOLEAN
    OBVIOUS
  <2> HIDE DEF changed
  <2>4. Coloured(pal') /\ (pal'.media => pal'.fromMedia)
    BY <1>1, <2>1, <2>2, <2>3, HeardColoured
  <2>5. QED
    BY <1>1, <2>1, <2>2, <2>4 DEF PalInv
<1>6. ASSUME NEW enabled \in BOOLEAN, NEW fromMedia \in BOOLEAN, NEW light \in BOOLEAN,
             NEW rule \in Wallpapers \cup {Unset},
             ReloadTheme(enabled, fromMedia, light, rule)
      PROVE  PalInv'
  <2> DEFINE s == [pal EXCEPT !.enabled = enabled, !.fromMedia = fromMedia, !.light = light]
             t == IF fromMedia # pal.fromMedia THEN Heard(s, TRUE) ELSE s
             u == IF rule = Unset THEN Rethemed(t) ELSE ImageLoaded(t, rule, TRUE)
  <2>1. UNCHANGED <<daylight, player>> /\ pal' = SunThemed(u)
    BY <1>6 DEF ReloadTheme
  <2>2. s \in Settings
    BY <1>1 DEF Settings
  <2>3. /\ s.wall = pal.wall /\ s.active = pal.active /\ s.saved = pal.saved
        /\ s.exported = pal.exported /\ s.media = pal.media /\ s.fromMedia = fromMedia
    BY <1>1 DEF Settings
  <2> HIDE DEF s
  <2>4. Coloured(s)
    BY <1>1, <2>2, <2>3, SameColours
  <2>5. Coloured(t) /\ (t.media => t.fromMedia)
    <3>1. player' \in [cover : Covers \cup {Unset}, stopped : BOOLEAN] /\ TRUE \in BOOLEAN
      BY <1>1, <2>1
    <3>2. Coloured(Heard(s, TRUE)) /\ (Heard(s, TRUE).media => Heard(s, TRUE).fromMedia)
      BY <1>1, <2>4, <3>1, HeardColoured
    <3>3. fromMedia = pal.fromMedia => (s.media => s.fromMedia)
      BY <1>1, <2>3
    <3>4. QED
      BY <2>4, <3>2, <3>3
  <2> HIDE DEF t
  <2>6. Coloured(u) /\ (u.media => u.fromMedia)
    BY <1>1, <2>5, RethemedColoured, ImageColoured
  <2> HIDE DEF u
  <2>7. Coloured(pal') /\ (pal'.media => pal'.fromMedia)
    BY <1>1, <2>1, <2>6, SunColoured
  <2>8. QED
    BY <1>1, <2>1, <2>7 DEF PalInv
<1>7. CASE UNCHANGED palVars
  BY <1>1, <1>7 DEF palVars, PalInv
<1>8. QED
  BY <1>2, <1>3, <1>4, <1>5, <1>6, <1>7 DEF PaletteNext

LEMMA PaletteBegins == PaletteInit => PalInv
<1> SUFFICES ASSUME PaletteInit
             PROVE  PalInv
  OBVIOUS
<1>1. pal \in Settings
  BY DEF PaletteInit, Settings
<1>2. /\ pal.wall = Unset /\ pal.active = Unset /\ pal.saved = Unset /\ pal.exported = Unset
      /\ pal.media = FALSE
  BY DEF PaletteInit
<1>3. Coloured(pal)
  BY <1>1, <1>2 DEF Coloured, ActiveRight, ExportRight, SavedRight, CoverActive
<1>4. daylight \in BOOLEAN /\ player \in [cover : Covers \cup {Unset}, stopped : BOOLEAN]
  BY DEF PaletteInit
<1>5. QED
  BY <1>2, <1>3, <1>4 DEF PalInv

(* Whatever is played, stopped, loaded and reloaded: while no cover's palette is active the *)
(* palette is that of the wallpaper, and a wallpaper shown with no_cache or no_theme is never *)
(* exported. *)
THEOREM ColoursOfWallpaper == PaletteSpec => []PaletteOfWallpaper
<1>1. PalInv => PaletteOfWallpaper
  BY DEF PalInv, Coloured, ActiveRight, ExportRight, PaletteOfWallpaper
<1>2. QED
  BY <1>1, PaletteStep, PaletteBegins, PTL DEF PaletteSpec

(***************************************************************************)
(* The samples.                                                            *)
(*                                                                         *)
(* Indices come round, samples are counted for ever: the invariant says    *)
(* for each index which count it stands for.  The reader's index stands    *)
(* for a number R of frames played or given up, whatever is in the ring    *)
(* after it is frame k + 1 at the place of k, and what is being copied     *)
(* starts at R.  What was analysed last stands at U samples in the same    *)
(* way.  Only a reader's index moved under a copy loses R, which is when   *)
(* nothing is promised.                                                    *)
(***************************************************************************)
LEMMA AudioNumbers ==
    /\ PlayRing \in Nat \ {0} /\ Period \in Nat \ {0} /\ CapRing \in Nat \ {0} /\ Window \in Nat \ {0}
    /\ Wrap \in Nat \ {0} /\ PlayRing < Wrap /\ Window <= CapRing
    /\ Wrap % PlayRing = 0 /\ Wrap % CapRing = 0
BY AudioAssumption

-----------------------------------------------------------------------------
(* Indices that come round. *)

LEMMA Remainder ==
    ASSUME NEW a \in Int, NEW n \in Nat \ {0}
    PROVE  a % n \in 0..n-1 /\ a \div n \in Int /\ a = n * (a \div n) + (a % n)
OBVIOUS

LEMMA RemainderIs ==
    ASSUME NEW a \in Int, NEW n \in Nat \ {0}, NEW q \in Int, NEW r \in 0..n-1, a = n * q + r
    PROVE  a % n = r
OBVIOUS

LEMMA Apart ==
    ASSUME NEW n \in Nat \ {0}, NEW q \in Int
    PROVE  q > 0 => n * q >= n
OBVIOUS

(* Adding rounds changes nothing. *)
LEMMA SameRemainder ==
    ASSUME NEW a \in Int, NEW n \in Nat \ {0}, NEW q \in Int
    PROVE  (a + n * q) % n = a % n
<1> DEFINE r == a % n
           p == a \div n
<1>1. r \in 0..n-1 /\ p \in Int /\ a = n * p + r
  BY Remainder
<1> HIDE DEF r, p
<1>2. a + n * q = n * (p + q) + r /\ p + q \in Int /\ a + n * q \in Int
  BY <1>1
<1>3. (a + n * q) % n = r
  BY <1>1, <1>2, RemainderIs
<1> QED BY <1>3 DEF r

(* What is counted modulo a multiple of the size of a ring is at the same place of it. *)
LEMMA InnerRemainder ==
    ASSUME NEW a \in Int, NEW j \in Int, NEW n \in Nat \ {0}, NEW m \in Nat \ {0}, n % m = 0
    PROVE  ((a % n) + j) % m = (a + j) % m
<1>1. a % n \in Int /\ a \div n \in Int /\ a = n * (a \div n) + (a % n)
  BY Remainder
<1>2. n \div m \in Int /\ n = m * (n \div m)
  BY Remainder
<1> DEFINE r == a % n
           p == a \div n
           k == n \div m
<1> HIDE DEF r, p, k
<1>3. r \in Int /\ p \in Int /\ k \in Int /\ a = n * p + r /\ n = m * k
  BY <1>1, <1>2 DEF r, p, k
<1>4. PICK x \in Int, y \in Int : x = r + j /\ y = k * p
  BY <1>3
<1>5. a + j = x + m * y
  BY <1>3, <1>4
<1>6. (x + m * y) % m = x % m
  BY SameRemainder
<1>7. (a + j) % m = (r + j) % m
  BY <1>4, <1>5, <1>6
<1> QED BY <1>7 DEF r

LEMMA SelfRemainder ==
    ASSUME NEW n \in Nat \ {0}
    PROVE  n % n = 0
OBVIOUS

LEMMA OuterRemainder ==
    ASSUME NEW a \in Int, NEW j \in Int, NEW n \in Nat \ {0}
    PROVE  ((a % n) + j) % n = (a + j) % n
BY InnerRemainder, SelfRemainder

(* Two places less than a round apart are different. *)
LEMMA DifferentPlaces ==
    ASSUME NEW a \in Int, NEW b \in Int, NEW n \in Nat \ {0}, a < b, b - a < n
    PROVE  a % n # b % n
<1> SUFFICES ASSUME a % n = b % n PROVE FALSE
  OBVIOUS
<1> DEFINE r == a % n
           p == a \div n
           q == b \div n
<1>1. r \in Int /\ p \in Int /\ q \in Int /\ a = n * p + r /\ b = n * q + r
  BY Remainder
<1> HIDE DEF r, p, q
<1>2. b - a = n * (q - p) /\ q - p \in Int
  BY <1>1
<1>3. CASE q - p > 0
  BY <1>2, <1>3, Apart
<1>4. CASE q - p <= 0
  <2>1. n * (p - q) >= 0
    <3>1. p - q \in Int /\ (p - q > 0 => n * (p - q) >= n)
      BY <1>1, <1>2, Apart
    <3> QED BY <1>1, <1>4, <3>1
  <2> QED BY <1>1, <1>2, <2>1
<1> QED BY <1>2, <1>3, <1>4

(* The difference of two indices, the second less than a round behind. *)
LEMMA MinusIs ==
    ASSUME NEW a \in Int, NEW b \in Int, b <= a, a - b < Wrap
    PROVE  Minus(a % Wrap, b % Wrap) = a - b
<1>1. Wrap \in Nat \ {0}
  BY AudioNumbers
<1> DEFINE r == b % Wrap
           p == b \div Wrap
<1>2. r \in Int /\ p \in Int /\ b = Wrap * p + r
  BY <1>1, Remainder
<1>3. PICK j \in Int, d \in Int : j = 0 - r /\ d = a - b
  BY <1>2
<1>4. (a % Wrap) \in Int /\ Minus(a % Wrap, r) = ((a % Wrap) + j) % Wrap
  <2>1. (a % Wrap) \in Int
    BY <1>1, Remainder
  <2>2. (a % Wrap) - r = (a % Wrap) + j
    BY <1>2, <1>3, <2>1
  <2> QED BY <2>1, <2>2 DEF Minus
<1>5. Minus(a % Wrap, r) = (a + j) % Wrap
  BY <1>1, <1>4, OuterRemainder
<1> HIDE DEF r, p
<1>6. a + j = d + Wrap * p
  BY <1>1, <1>2, <1>3
<1>7. (d + Wrap * p) % Wrap = d % Wrap
  BY <1>1, <1>2, SameRemainder
<1>8. d % Wrap = d
  BY <1>1, <1>3, RemainderIs
<1> QED BY <1>3, <1>5, <1>6, <1>7, <1>8 DEF r

LEMMA SmallOnes == \A a, n \in Nat : a < n => a % n = a
OBVIOUS

LEMMA HalfOf == \A n \in Nat : n \div 2 \in Nat /\ n \div 2 <= n
OBVIOUS

LEMMA MinusInRange == \A a, b \in Int : Minus(a, b) \in Nat /\ Minus(a, b) < Wrap
BY AudioNumbers DEF Minus

-----------------------------------------------------------------------------
(* What is played. *)

Frames == [0..PlayRing - 1 -> Nat]
CapRings == [0..CapRing - 1 -> Nat]
Histories == [1..Window -> Nat]
AudioStates ==
    [ring : Frames, w : Nat, r : Nat, sent : Nat,
     rt : {"idle", "looking", "copying"}, at : Nat, left : Nat, got : Seq(Nat),
     main : {"idle", "writing"}, from : Nat, todo : Nat, last : Nat, raced : BOOLEAN,
     skipped : BOOLEAN, silenced : Nat,
     cap : CapRings, pos : Nat, used : Nat, heard : Nat, hist : Histories,
     tracked : Seq(Programs), runs : SUBSET Programs, here : SUBSET Programs,
     missed : BOOLEAN, external : BOOLEAN]

(* How many frames were submitted, those being written left out. *)
Published(s) == s.sent - s.from

PlayShape(s) ==
    /\ s.from <= s.todo /\ s.from <= s.sent /\ s.w = Published(s) % Wrap
    /\ s.main = "idle" => s.todo = 0
    /\ s.r < Wrap
    /\ \A k \in Nat : k < s.sent /\ s.sent <= k + PlayRing => s.ring[k % PlayRing] = k + 1
    /\ s.rt # "copying" => s.got = << >>
    /\ Len(s.got) <= s.left

(* The reader's index stands for the number of frames played or given up; the writer's that *)
(* a period begins with may be an older one. *)
PlayedTo(s, R) ==
    /\ s.r = R % Wrap /\ R <= Published(s) /\ Published(s) + s.todo <= R + PlayRing
    /\ s.last <= R /\ s.silenced <= R /\ (~s.skipped => s.last = R)
    /\ s.rt = "looking" =>
          \E V \in Nat : R <= V /\ V <= Published(s) /\ s.at = V % Wrap
    /\ s.rt = "copying" =>
          /\ s.at = s.r /\ R + s.left <= Published(s)
          /\ \A i \in 1..Len(s.got) : s.got[i] = R + i

PlayInv(s) == PlayShape(s) /\ (~s.raced => \E R \in Nat : PlayedTo(s, R))

SamePlay(t, s) ==
    /\ t.ring = s.ring /\ t.w = s.w /\ t.r = s.r /\ t.sent = s.sent /\ t.rt = s.rt /\ t.at = s.at
    /\ t.left = s.left /\ t.got = s.got /\ t.main = s.main /\ t.from = s.from /\ t.todo = s.todo
    /\ t.last = s.last /\ t.raced = s.raced /\ t.skipped = s.skipped /\ t.silenced = s.silenced
SameCapture(t, s) ==
    t.cap = s.cap /\ t.pos = s.pos /\ t.used = s.used /\ t.heard = s.heard /\ t.hist = s.hist
SameStreams(t, s) ==
    /\ t.tracked = s.tracked /\ t.runs = s.runs /\ t.here = s.here
    /\ t.missed = s.missed /\ t.external = s.external

LEMMA PlayFields ==
    ASSUME NEW s \in AudioStates
    PROVE  /\ s.ring \in Frames /\ s.w \in Nat /\ s.r \in Nat /\ s.sent \in Nat
           /\ s.at \in Nat /\ s.left \in Nat /\ s.got \in Seq(Nat) /\ Len(s.got) \in Nat
           /\ s.from \in Nat /\ s.todo \in Nat /\ s.last \in Nat /\ s.silenced \in Nat
           /\ s.main \in {"idle", "writing"} /\ s.rt \in {"idle", "looking", "copying"}
           /\ s.raced \in BOOLEAN /\ s.skipped \in BOOLEAN
           /\ PlayRing \in Nat \ {0} /\ Wrap \in Nat \ {0} /\ PlayRing < Wrap
<1>1. /\ s.ring \in Frames /\ s.w \in Nat /\ s.r \in Nat /\ s.sent \in Nat
      /\ s.at \in Nat /\ s.left \in Nat /\ s.got \in Seq(Nat)
      /\ s.from \in Nat /\ s.todo \in Nat /\ s.last \in Nat /\ s.silenced \in Nat
      /\ s.main \in {"idle", "writing"} /\ s.rt \in {"idle", "looking", "copying"}
      /\ s.raced \in BOOLEAN /\ s.skipped \in BOOLEAN
  BY DEF AudioStates
<1>2. Len(s.got) \in Nat
  BY <1>1
<1> QED BY <1>1, <1>2, AudioNumbers

LEMMA ShapeFields ==
    ASSUME NEW s \in AudioStates, PlayInv(s)
    PROVE  /\ s.from <= s.todo /\ s.from <= s.sent /\ s.w = Published(s) % Wrap
           /\ s.w < Wrap /\ s.r < Wrap
           /\ Published(s) \in Nat /\ Published(s) + s.from = s.sent
<1>1. /\ s.from <= s.todo /\ s.from <= s.sent /\ s.w = Published(s) % Wrap /\ s.r < Wrap
  BY DEF PlayInv, PlayShape
<1>2. s.from \in Nat /\ s.sent \in Nat /\ Wrap \in Nat \ {0}
  BY PlayFields
<1>3. Published(s) \in Nat /\ Published(s) + s.from = s.sent
  BY <1>1, <1>2 DEF Published
<1>4. s.w < Wrap
  BY <1>1, <1>2, <1>3, Remainder
<1> QED BY <1>1, <1>3, <1>4

LEMMA StillPlays ==
    ASSUME NEW s, NEW t, SamePlay(t, s), PlayInv(s)
    PROVE  PlayInv(t)
BY DEF SamePlay, PlayInv, PlayShape, PlayedTo, Published

LEMMA SubmitPlays ==
    ASSUME aud \in AudioStates, PlayInv(aud), NEW n \in Nat, Submit(n)
    PROVE  /\ aud' \in AudioStates /\ PlayInv(aud')
           /\ SameCapture(aud', aud) /\ SameStreams(aud', aud)
<1> DEFINE s == aud
           t == aud'
           half == PlayRing \div 2
           full == Minus(s.w, s.r) >= PlayRing
           r == IF full THEN Minus(s.w, half) ELSE s.r
           f == Minus(s.w, r)
           free == PlayRing - f
           todo == IF n < free THEN n ELSE free
           skipped == s.skipped \/ full
           raced == s.raced \/ (full /\ s.rt # "idle")
           W == Published(s)
<1>1. /\ s.main = "idle" /\ s \in AudioStates
      /\ t = [s EXCEPT !.r = r, !.skipped = skipped, !.raced = raced, !.main = "writing", !.from = 0,
                       !.todo = todo]
  BY DEF Submit, RoomFor, AudioStates
<1>2. /\ s.w \in Nat /\ s.r \in Nat /\ s.sent \in Nat /\ s.from = 0 /\ s.todo = 0 /\ W = s.sent
      /\ s.w = W % Wrap /\ s.w < Wrap /\ half \in Nat /\ half <= PlayRing
      /\ PlayRing \in Nat \ {0} /\ Wrap \in Nat \ {0} /\ PlayRing < Wrap
  <2>1. s.from = 0 /\ s.todo = 0 /\ s.w = W % Wrap
    BY <1>1, PlayFields DEF PlayInv, PlayShape
  <2>2. W = s.sent /\ s.w < Wrap
    BY <1>1, <2>1, PlayFields, Remainder DEF Published
  <2> QED BY <1>1, <2>1, <2>2, PlayFields, HalfOf
<1>3. r \in Nat /\ f \in Nat /\ f <= PlayRing /\ (full => f = half)
  <2>1. CASE full
    <3>1. r = (s.w - half) % Wrap /\ s.w - half \in Int /\ s.w = s.w % Wrap
      BY <1>2, <2>1, SmallOnes DEF Minus
    <3> HIDE DEF half, r
    <3>2. PICK b \in Int : b = s.w - half
      BY <3>1
    <3>3. Minus(s.w % Wrap, b % Wrap) = s.w - b
      BY <1>2, <3>2, MinusIs
    <3>4. b % Wrap \in Nat
      BY <1>2, Remainder
    <3>5. r = b % Wrap /\ f = Minus(s.w, r)
      BY <3>1, <3>2
    <3>6. f = half
      BY <1>2, <3>1, <3>2, <3>3, <3>5
    <3> HIDE DEF f
    <3> QED BY <1>2, <3>4, <3>5, <3>6
  <2>2. CASE ~full
    <3>1. r = s.r /\ f = Minus(s.w, s.r)
      BY <2>2
    <3>2. Minus(s.w, s.r) \in Nat
      <4> HIDE DEF half, r, f, full, W
      <4>1. s.w \in Int /\ s.r \in Int
        BY <1>2
      <4> HIDE DEF s
      <4> QED BY <4>1, MinusInRange
    <3>3. Minus(s.w, s.r) < PlayRing
      BY <1>2, <2>2, <3>2
    <3> HIDE DEF half, r, f, full
    <3> QED BY <1>2, <2>2, <3>1, <3>2, <3>3
  <2> QED BY <2>1, <2>2
<1> HIDE DEF r, f, half
<1>4. todo \in Nat /\ todo <= free
  BY <1>2, <1>3
<1>5. skipped \in BOOLEAN /\ raced \in BOOLEAN
  OBVIOUS
<1> HIDE DEF full, todo, free, t, s, skipped, raced
<1>6. t \in AudioStates
  BY <1>1, <1>3, <1>4, <1>5 DEF AudioStates
<1>7. /\ t.r = r /\ t.skipped = skipped /\ t.raced = raced /\ t.main = "writing" /\ t.from = 0
      /\ t.todo = todo /\ t.ring = s.ring /\ t.w = s.w /\ t.sent = s.sent /\ t.rt = s.rt
      /\ t.at = s.at /\ t.left = s.left /\ t.got = s.got /\ t.last = s.last
      /\ t.silenced = s.silenced /\ SameCapture(t, s) /\ SameStreams(t, s)
  BY <1>1 DEF AudioStates, SameCapture, SameStreams
<1>8. Published(t) = W
  BY <1>2, <1>7 DEF Published
<1>11. r < Wrap
  <2>1. s.w \in Int /\ half \in Int /\ s.r < Wrap
    BY <1>2 DEF PlayInv, PlayShape, s
  <2>2. r = Minus(s.w, half) \/ r = s.r
    BY DEF r
  <2>3. Minus(s.w, half) < Wrap
    BY <2>1, MinusInRange
  <2> QED BY <2>1, <2>2, <2>3
<1>9. PlayShape(t)
  BY <1>2, <1>4, <1>7, <1>8, <1>11 DEF PlayInv, PlayShape, s
<1>10. ASSUME ~t.raced PROVE \E R \in Nat : PlayedTo(t, R)
  <2>1. PICK Q \in Nat : PlayedTo(s, Q)
    BY <1>7, <1>10 DEF PlayInv, raced, s
  <2>2. Q <= W /\ W - Q <= PlayRing /\ W \in Nat
    BY <1>2, <2>1 DEF PlayedTo
  <2>3. Minus(s.w, s.r) = W - Q
    <3>1. Minus(W % Wrap, Q % Wrap) = W - Q
      <4>1. W \in Int /\ Q \in Int /\ Q <= W /\ W - Q < Wrap
        BY <1>2, <2>2
      <4> HIDE DEF W
      <4> QED BY <4>1, MinusIs
    <3> QED BY <1>2, <2>1, <3>1 DEF PlayedTo
  <2>4. CASE ~full
    <3>1. r = s.r /\ f = W - Q
      BY <2>3, <2>4 DEF r, f
    <3>2. W + todo <= Q + PlayRing
      BY <1>2, <1>4, <2>2, <3>1 DEF free
    <3>3. PlayedTo(t, Q)
      BY <1>7, <1>8, <2>1, <2>4, <3>1, <3>2 DEF PlayedTo, skipped
    <3> QED BY <3>3
  <2>5. CASE full
    <3> DEFINE R == W - half
    <3>1. W - Q = PlayRing
      BY <1>2, <2>2, <2>3, <2>5 DEF full
    <3>2. R \in Nat /\ Q <= R /\ R <= W
      BY <1>2, <2>2, <3>1
    <3>3. r = R % Wrap
      <4>1. r = ((W % Wrap) - half) % Wrap
        BY <1>2, <2>5 DEF r, Minus
      <4>2. PICK j \in Int : j = 0 - half
        BY <1>2
      <4>0. W % Wrap \in Int
        BY <1>2, <2>2, Remainder
      <4>3. (W % Wrap) - half = (W % Wrap) + j /\ W - half = W + j
        BY <1>2, <2>2, <4>0, <4>2
      <4>4. ((W % Wrap) + j) % Wrap = (W + j) % Wrap
        BY <1>2, <2>2, OuterRemainder
      <4> QED BY <4>1, <4>3, <4>4
    <3>4. W + todo <= R + PlayRing
      BY <1>2, <1>3, <1>4, <2>2, <2>5 DEF free
    <3>5. t.rt = "idle" /\ t.skipped
      BY <1>7, <1>10, <2>5 DEF raced, skipped
    <3>6. t.last \in Nat /\ t.silenced \in Nat /\ t.last <= Q /\ t.silenced <= Q
      BY <1>6, <1>7, <2>1, PlayFields DEF PlayedTo
    <3> HIDE DEF R
    <3>7. t.last <= R /\ t.silenced <= R
      BY <3>2, <3>6
    <3>8. PlayedTo(t, R)
      BY <1>7, <1>8, <3>2, <3>3, <3>4, <3>5, <3>7 DEF PlayedTo
    <3> QED BY <3>2, <3>8
  <2> QED BY <2>4, <2>5
<1> QED BY <1>6, <1>7, <1>9, <1>10 DEF PlayInv, s, t

(* A place in the ring, from the index or from the count of frames. *)
LEMMA RingPlace ==
    ASSUME NEW a \in Int, NEW j \in Int
    PROVE  ((a % Wrap) + j) % PlayRing = (a + j) % PlayRing /\ (a + j) % PlayRing \in 0..PlayRing - 1
<1>1. Wrap \in Nat \ {0} /\ PlayRing \in Nat \ {0} /\ Wrap % PlayRing = 0
  BY AudioNumbers
<1>4. ((a % Wrap) + j) % PlayRing = (a + j) % PlayRing
  BY <1>1, InnerRemainder
<1>2. PICK x \in Int : x = a + j
  OBVIOUS
<1>3. x % PlayRing \in 0..PlayRing - 1
  BY <1>1, Remainder
<1>5. (a + j) % PlayRing \in 0..PlayRing - 1
  <2> HIDE <1>4
  <2> QED BY <1>2, <1>3
<1> HIDE <1>1, <1>3
<1> QED BY ONLY <1>4, <1>5

LEMMA WriteFramePlays ==
    ASSUME aud \in AudioStates, PlayInv(aud), WriteFrame
    PROVE  /\ aud' \in AudioStates /\ PlayInv(aud')
           /\ SameCapture(aud', aud) /\ SameStreams(aud', aud)
<1> DEFINE s == aud
           t == aud'
           W == Published(s)
           at == (s.w + s.from) % PlayRing
           ring == [s.ring EXCEPT ![at] = s.sent + 1]
<1>1. /\ s.main = "writing" /\ s.from < s.todo /\ s \in AudioStates
      /\ t = [s EXCEPT !.ring = ring, !.sent = @ + 1, !.from = @ + 1]
  BY DEF WriteFrame
<1>2. /\ s.sent \in Nat /\ s.from \in Nat /\ s.todo \in Nat /\ s.from <= s.sent /\ W \in Int
      /\ W + s.from = s.sent /\ s.w = W % Wrap /\ s.ring \in Frames /\ PlayRing \in Nat \ {0}
  BY <1>1, PlayFields, ShapeFields
<1>3. at = s.sent % PlayRing /\ at \in 0..PlayRing - 1
  <2>1. W \in Int /\ s.from \in Int
    BY <1>2
  <2>2. at = ((W % Wrap) + s.from) % PlayRing
    BY <1>2
  <2> HIDE DEF W, s, at
  <2>3. at = (W + s.from) % PlayRing /\ (W + s.from) % PlayRing \in 0..PlayRing - 1
    BY <2>1, <2>2, RingPlace
  <2> QED BY <1>2, <2>3
<1> HIDE DEF at, W, s, t
<1>4. ring \in Frames /\ ring[at] = s.sent + 1 /\ (\A i \in 0..PlayRing - 1 : i # at => ring[i] = s.ring[i])
  <2>1. s.sent + 1 \in Nat /\ s.ring \in [0..PlayRing - 1 -> Nat] /\ at \in 0..PlayRing - 1
    BY <1>2, <1>3 DEF Frames
  <2> QED BY <2>1 DEF Frames
<1> HIDE DEF ring
<1>5. t \in AudioStates
  <2>1. s.sent + 1 \in Nat /\ s.from + 1 \in Nat
    BY <1>2
  <2> QED BY <1>1, <1>4, <2>1 DEF AudioStates
<1>6. /\ t.ring = ring /\ t.sent = s.sent + 1 /\ t.from = s.from + 1 /\ t.w = s.w /\ t.r = s.r
      /\ t.rt = s.rt /\ t.at = s.at /\ t.left = s.left /\ t.got = s.got /\ t.main = s.main
      /\ t.todo = s.todo /\ t.last = s.last /\ t.raced = s.raced /\ t.skipped = s.skipped
      /\ t.silenced = s.silenced /\ SameCapture(t, s) /\ SameStreams(t, s)
  BY <1>1 DEF AudioStates, SameCapture, SameStreams
<1>7. Published(t) = Published(s) /\ Published(s) = W
  BY <1>2, <1>6 DEF Published, W
<1>8. ASSUME NEW k \in Nat, k < t.sent, t.sent <= k + PlayRing
      PROVE  t.ring[k % PlayRing] = k + 1
  <2>1. k % PlayRing \in 0..PlayRing - 1
    BY <1>2, Remainder
  <2>2. CASE k = s.sent
    BY <1>3, <1>4, <1>6, <2>2
  <2>3. CASE k # s.sent
    <3>1. k < s.sent /\ s.sent <= k + PlayRing /\ s.sent - k < PlayRing
      BY <1>2, <1>6, <1>8, <2>3
    <3>2. k % PlayRing # s.sent % PlayRing
      <4>1. k \in Int /\ s.sent \in Int /\ PlayRing \in Nat \ {0}
        BY <1>2
      <4> QED BY <3>1, <4>1, DifferentPlaces
    <3>3. s.ring[k % PlayRing] = k + 1
      BY <3>1 DEF PlayInv, PlayShape, s
    <3> QED BY <1>3, <1>4, <1>6, <2>1, <3>2, <3>3
  <2> QED BY <2>2, <2>3
<1>9. PlayShape(t)
  <2>1. PlayShape(s)
    BY DEF PlayInv, s
  <2>2. t.from <= t.todo /\ t.from <= t.sent /\ t.w = Published(t) % Wrap
    BY <1>1, <1>2, <1>6, <1>7
  <2>3. t.main # "idle"
    BY <1>1, <1>6
  <2>4. (t.rt # "copying" => t.got = << >>) /\ Len(t.got) <= t.left
        /\ t.r < Wrap
    BY <1>6, <2>1 DEF PlayShape
  <2> QED BY <1>8, <2>2, <2>3, <2>4 DEF PlayShape
<1>10. ASSUME ~t.raced PROVE \E R \in Nat : PlayedTo(t, R)
  <2>1. PICK R \in Nat : PlayedTo(s, R)
    BY <1>6, <1>10 DEF PlayInv, s
  <2>2. PlayedTo(t, R)
    BY <1>6, <1>7, <2>1 DEF PlayedTo
  <2> QED BY <2>2
<1> QED BY <1>5, <1>6, <1>9, <1>10 DEF PlayInv, s, t

LEMMA PublishPlays ==
    ASSUME aud \in AudioStates, PlayInv(aud), Publish
    PROVE  /\ aud' \in AudioStates /\ PlayInv(aud')
           /\ SameCapture(aud', aud) /\ SameStreams(aud', aud)
<1> DEFINE s == aud
           t == aud'
           W == Published(s)
           w == (s.w + s.todo) % Wrap
<1>1. /\ s.main = "writing" /\ s.from = s.todo /\ s \in AudioStates
      /\ t = [s EXCEPT !.w = w, !.main = "idle", !.from = 0, !.todo = 0]
  BY DEF Publish
<1>2. /\ s.sent \in Nat /\ s.from \in Nat /\ s.todo \in Nat /\ s.from <= s.sent /\ W \in Int
      /\ W + s.todo = s.sent /\ s.w = W % Wrap /\ Wrap \in Nat \ {0} /\ PlayRing \in Nat
  BY <1>1, PlayFields, ShapeFields
<1>3. w = s.sent % Wrap /\ w \in Nat
  <2>1. s.sent % Wrap \in Nat
    <3>1. s.sent \in Int /\ Wrap \in Nat \ {0}
      BY <1>2
    <3> HIDE DEF s
    <3> QED BY <3>1, Remainder
  <2>2. W \in Int /\ s.todo \in Int /\ Wrap \in Nat \ {0} /\ w = ((W % Wrap) + s.todo) % Wrap
    BY <1>2
  <2> HIDE DEF W, s, w
  <2>3. w = (W + s.todo) % Wrap
    BY <2>2, OuterRemainder
  <2> QED BY <1>2, <2>1, <2>3
<1> HIDE DEF w, s, t, W
<1>4. t \in AudioStates
  BY <1>1, <1>3 DEF AudioStates
<1>5. /\ t.w = w /\ t.main = "idle" /\ t.from = 0 /\ t.todo = 0 /\ t.ring = s.ring /\ t.sent = s.sent
      /\ t.r = s.r /\ t.rt = s.rt /\ t.at = s.at /\ t.left = s.left /\ t.got = s.got
      /\ t.last = s.last /\ t.raced = s.raced /\ t.skipped = s.skipped
      /\ t.silenced = s.silenced /\ SameCapture(t, s) /\ SameStreams(t, s)
  BY <1>1 DEF AudioStates, SameCapture, SameStreams
<1>6. Published(t) = s.sent
  BY <1>2, <1>5 DEF Published
<1>7. PlayShape(t)
  BY <1>2, <1>3, <1>5, <1>6 DEF PlayInv, PlayShape, s
<1>8. ASSUME ~t.raced PROVE \E R \in Nat : PlayedTo(t, R)
  <2>1. PICK R \in Nat : PlayedTo(s, R)
    BY <1>5, <1>8 DEF PlayInv, s
  <2>2. Published(s) + s.todo = s.sent /\ Published(s) <= s.sent
    BY <1>2 DEF W
  <2>3. R <= Published(t) /\ Published(t) + t.todo <= R + PlayRing
    BY <1>2, <1>5, <1>6, <2>1, <2>2 DEF PlayedTo, W
  <2>4. t.rt = "copying" => R + t.left <= Published(t)
    <3>1. s.left \in Nat
      BY <1>1, PlayFields
    <3> QED BY <1>2, <1>5, <1>6, <2>1, <2>2, <3>1 DEF PlayedTo, W
  <2>5. ASSUME t.rt = "looking"
        PROVE  \E V \in Nat : R <= V /\ V <= Published(t) /\ t.at = V % Wrap
    <3>1. PICK V \in Nat : R <= V /\ V <= Published(s) /\ s.at = V % Wrap
      BY <1>5, <2>1, <2>5 DEF PlayedTo
    <3>2. V <= Published(t)
      BY <1>2, <1>6, <2>2, <3>1 DEF W
    <3> QED BY <1>5, <3>1, <3>2
  <2>6. PlayedTo(t, R)
    BY <1>5, <2>1, <2>3, <2>4, <2>5 DEF PlayedTo
  <2> QED BY <2>6
<1> QED BY <1>4, <1>5, <1>7, <1>8 DEF PlayInv, s, t

LEMMA ClearPlays ==
    ASSUME aud \in AudioStates, PlayInv(aud), ClearPlayback
    PROVE  /\ aud' \in AudioStates /\ PlayInv(aud')
           /\ SameCapture(aud', aud) /\ SameStreams(aud', aud)
<1> DEFINE s == aud
           t == aud'
           raced == s.raced \/ s.rt # "idle"
<1>1. /\ s.main = "idle" /\ s \in AudioStates
      /\ t = [s EXCEPT !.r = s.w, !.silenced = s.sent, !.skipped = TRUE, !.raced = raced]
  BY DEF ClearPlayback
<1>2. /\ s.sent \in Nat /\ s.from = 0 /\ s.todo = 0 /\ Published(s) = s.sent
      /\ s.w = s.sent % Wrap /\ s.w \in Nat /\ s.w < Wrap /\ PlayRing \in Nat
  <2>1. s.from = 0 /\ s.todo = 0 /\ s.sent \in Nat
    BY <1>1, PlayFields DEF PlayInv, PlayShape
  <2>2. Published(s) = s.sent
    BY <2>1 DEF Published
  <2> QED BY <1>1, <2>1, <2>2, PlayFields, ShapeFields
<1>3. raced \in BOOLEAN
  OBVIOUS
<1> HIDE DEF s, t, raced
<1>4. t \in AudioStates
  BY <1>1, <1>2, <1>3 DEF AudioStates
<1>5. /\ t.r = s.w /\ t.silenced = s.sent /\ t.skipped /\ t.raced = raced /\ t.w = s.w
      /\ t.main = "idle" /\ t.from = s.from /\ t.todo = s.todo /\ t.ring = s.ring
      /\ t.sent = s.sent /\ t.rt = s.rt /\ t.at = s.at /\ t.left = s.left /\ t.got = s.got
      /\ t.last = s.last /\ SameCapture(t, s) /\ SameStreams(t, s)
  BY <1>1 DEF AudioStates, SameCapture, SameStreams
<1>6. Published(t) = s.sent
  BY <1>2, <1>5 DEF Published
<1>7. PlayShape(t)
  BY <1>2, <1>5, <1>6 DEF PlayInv, PlayShape, s
<1>8. ASSUME ~t.raced PROVE \E R \in Nat : PlayedTo(t, R)
  <2>1. PICK R \in Nat : PlayedTo(s, R)
    BY <1>5, <1>8 DEF PlayInv, s, raced
  <2>2. s.last \in Nat /\ s.last <= s.sent
    BY <1>1, <1>2, <2>1, PlayFields DEF PlayedTo
  <2>3. t.rt = "idle"
    BY <1>5, <1>8 DEF raced
  <2>4. PlayedTo(t, s.sent)
    BY <1>2, <1>5, <1>6, <2>2, <2>3 DEF PlayedTo
  <2> QED BY <1>2, <2>4
<1> QED BY <1>4, <1>5, <1>7, <1>8 DEF PlayInv, s, t

LEMMA LookPlays ==
    ASSUME aud \in AudioStates, PlayInv(aud), LookAtWriter
    PROVE  /\ aud' \in AudioStates /\ PlayInv(aud')
           /\ SameCapture(aud', aud) /\ SameStreams(aud', aud)
<1> DEFINE s == aud
           t == aud'
<1>1. s.rt = "idle" /\ s \in AudioStates /\ t = [s EXCEPT !.rt = "looking", !.at = s.w]
  BY DEF LookAtWriter
<1>2. s.w \in Nat /\ Published(s) \in Nat /\ s.w = Published(s) % Wrap
  BY <1>1, PlayFields, ShapeFields
<1> HIDE DEF s, t
<1>3. t \in AudioStates
  BY <1>1, <1>2 DEF AudioStates
<1>4. /\ t.rt = "looking" /\ t.at = s.w /\ t.got = s.got /\ t.left = s.left /\ t.r = s.r
      /\ t.silenced = s.silenced /\ t.skipped = s.skipped /\ t.raced = s.raced /\ t.w = s.w
      /\ t.main = s.main /\ t.from = s.from /\ t.todo = s.todo /\ t.ring = s.ring
      /\ t.sent = s.sent /\ t.last = s.last /\ SameCapture(t, s) /\ SameStreams(t, s)
  BY <1>1 DEF AudioStates, SameCapture, SameStreams
<1>5. Published(t) = Published(s)
  BY <1>4 DEF Published
<1>6. PlayShape(t)
  BY <1>1, <1>4, <1>5 DEF PlayInv, PlayShape, s
<1>7. ASSUME ~t.raced PROVE \E R \in Nat : PlayedTo(t, R)
  <2>1. PICK R \in Nat : PlayedTo(s, R)
    BY <1>4, <1>7 DEF PlayInv, s
  <2>2. R <= Published(s) /\ Published(s) <= Published(s)
    BY <1>2, <2>1 DEF PlayedTo
  <2>3. PlayedTo(t, R)
    BY <1>2, <1>4, <1>5, <2>1, <2>2 DEF PlayedTo
  <2> QED BY <2>3
<1> QED BY <1>3, <1>4, <1>6, <1>7 DEF PlayInv, s, t

LEMMA BeginPlays ==
    ASSUME aud \in AudioStates, PlayInv(aud), BeginPeriod
    PROVE  /\ aud' \in AudioStates /\ PlayInv(aud')
           /\ SameCapture(aud', aud) /\ SameStreams(aud', aud)
<1> DEFINE s == aud
           t == aud'
           there == Minus(s.at, s.r)
           left == IF there < Period THEN there ELSE Period
           W == Published(s)
<1>1. /\ s.rt = "looking" /\ s \in AudioStates
      /\ t = [s EXCEPT !.rt = "copying", !.at = s.r, !.got = << >>, !.left = left]
  BY DEF BeginPeriod
<1>2. /\ s.at \in Nat /\ s.r \in Nat /\ W \in Nat /\ s.todo \in Nat
      /\ PlayRing \in Nat /\ Wrap \in Nat \ {0} /\ PlayRing < Wrap /\ Period \in Nat \ {0}
  BY <1>1, PlayFields, ShapeFields, AudioNumbers
<1>3. there \in Nat
  <2>1. s.at \in Int /\ s.r \in Int
    BY <1>2
  <2> HIDE DEF s
  <2> QED BY <2>1, MinusInRange
<1>4. left \in Nat /\ left <= there
  BY <1>2, <1>3
<1> HIDE DEF there, left, s, t
<1>5. t \in AudioStates
  <2>1. << >> \in Seq(Nat)
    OBVIOUS
  <2> QED BY <1>1, <1>2, <1>4, <2>1 DEF AudioStates
<1>6. /\ t.rt = "copying" /\ t.at = s.r /\ t.got = << >> /\ t.left = left /\ t.r = s.r
      /\ t.silenced = s.silenced /\ t.skipped = s.skipped /\ t.raced = s.raced /\ t.w = s.w
      /\ t.main = s.main /\ t.from = s.from /\ t.todo = s.todo /\ t.ring = s.ring
      /\ t.sent = s.sent /\ t.last = s.last /\ SameCapture(t, s) /\ SameStreams(t, s)
  BY <1>1 DEF AudioStates, SameCapture, SameStreams
<1>7. Published(t) = W
  BY <1>6 DEF Published
<1>8. PlayShape(t)
  <2>1. Len(t.got) <= t.left
    BY <1>4, <1>6
  <2> QED BY <1>2, <1>6, <1>7, <2>1 DEF PlayInv, PlayShape, s, W
<1>9. ASSUME ~t.raced PROVE \E R \in Nat : PlayedTo(t, R)
  <2>1. PICK R \in Nat : PlayedTo(s, R)
    BY <1>6, <1>9 DEF PlayInv, s
  <2>2. PICK V \in Nat : R <= V /\ V <= W /\ s.at = V % Wrap
    BY <1>1, <2>1 DEF PlayedTo, W
  <2>3. W <= R + PlayRing /\ s.r = R % Wrap
    BY <1>2, <2>1 DEF PlayedTo, W
  <2>4. there = V - R
    <3>1. V \in Int /\ R \in Int /\ R <= V /\ V - R < Wrap
      BY <1>2, <2>2, <2>3
    <3>2. Minus(V % Wrap, R % Wrap) = V - R
      BY <3>1, MinusIs
    <3> QED BY <2>2, <2>3, <3>2 DEF there
  <2>5. R + left <= W
    BY <1>2, <1>3, <1>4, <2>2, <2>4
  <2>6. PlayedTo(t, R)
    BY <1>6, <1>7, <2>1, <2>5 DEF PlayedTo, W
  <2> QED BY <2>6
<1> QED BY <1>5, <1>6, <1>8, <1>9 DEF PlayInv, s, t

LEMMA CopyPlays ==
    ASSUME aud \in AudioStates, PlayInv(aud), CopyFrame
    PROVE  /\ aud' \in AudioStates /\ PlayInv(aud')
           /\ SameCapture(aud', aud) /\ SameStreams(aud', aud)
<1> DEFINE s == aud
           t == aud'
           n == Len(s.got)
           x == s.ring[(s.at + n) % PlayRing]
           got == Append(s.got, x)
<1>1. s.rt = "copying" /\ n < s.left /\ s \in AudioStates /\ t = [s EXCEPT !.got = got]
  BY DEF CopyFrame
<1>2. /\ s.at \in Nat /\ n \in Nat /\ s.left \in Nat /\ s.got \in Seq(Nat) /\ s.ring \in Frames
      /\ s.sent \in Nat /\ s.from \in Nat /\ s.todo \in Nat /\ PlayRing \in Nat \ {0}
      /\ Published(s) \in Nat /\ Published(s) + s.from = s.sent /\ s.from <= s.todo
  BY <1>1, PlayFields, ShapeFields
<1> HIDE DEF s, t, n
<1>3. x \in Nat
  <2>1. (s.at + n) % PlayRing \in 0..PlayRing - 1
    <3>1. PICK y \in Int : y = s.at + n
      BY <1>2
    <3>2. y % PlayRing \in 0..PlayRing - 1
      BY <1>2, Remainder
    <3> QED BY <3>1, <3>2
  <2> QED BY <1>2, <2>1 DEF Frames
<1> HIDE DEF x
<1>4. /\ got \in Seq(Nat) /\ Len(got) = n + 1 /\ got[n + 1] = x
      /\ \A i \in 1..n : got[i] = s.got[i]
  BY <1>2, <1>3 DEF n
<1> HIDE DEF got
<1>5. t \in AudioStates
  BY <1>1, <1>4 DEF AudioStates
<1>6. /\ t.got = got /\ t.rt = s.rt /\ t.at = s.at /\ t.left = s.left /\ t.r = s.r
      /\ t.silenced = s.silenced /\ t.skipped = s.skipped /\ t.raced = s.raced /\ t.w = s.w
      /\ t.main = s.main /\ t.from = s.from /\ t.todo = s.todo /\ t.ring = s.ring
      /\ t.sent = s.sent /\ t.last = s.last /\ SameCapture(t, s) /\ SameStreams(t, s)
  BY <1>1 DEF AudioStates, SameCapture, SameStreams
<1>7. Published(t) = Published(s)
  BY <1>6 DEF Published
<1>8. PlayShape(t)
  <2>1. Len(t.got) <= t.left /\ t.rt = "copying"
    BY <1>1, <1>2, <1>4, <1>6
  <2>2. PlayShape(s)
    BY DEF PlayInv, s
  <2> QED BY <1>6, <1>7, <2>1, <2>2 DEF PlayShape
<1>9. ASSUME ~t.raced PROVE \E R \in Nat : PlayedTo(t, R)
  <2>1. PICK R \in Nat : PlayedTo(s, R)
    BY <1>6, <1>9 DEF PlayInv, s
  <2>2. /\ s.at = R % Wrap /\ R + s.left <= Published(s)
        /\ Published(s) + s.todo <= R + PlayRing
        /\ \A i \in 1..n : s.got[i] = R + i
    BY <1>1, <2>1 DEF PlayedTo, n
  <2>3. x = R + n + 1
    <3>1. PICK k \in Nat : k = R + n
      BY <1>2
    <3>2. k < s.sent /\ s.sent <= k + PlayRing
      <4>1. R + s.left <= Published(s) /\ Published(s) + s.todo <= R + PlayRing
        BY <2>2
      <4>2. PICK P \in Nat : P = Published(s)
        BY <1>2
      <4>3. /\ s.sent = P + s.from /\ s.from <= s.todo /\ n < s.left
            /\ s.from \in Nat /\ s.todo \in Nat /\ n \in Nat /\ s.left \in Nat /\ PlayRing \in Nat
        BY <1>1, <1>2, <4>2
      <4>4. R + s.left <= P /\ P + s.todo <= R + PlayRing
        BY <4>1, <4>2
      <4>5. k < P /\ P <= s.sent
        BY <3>1, <4>3, <4>4
      <4>6. s.sent <= P + s.todo
        BY <4>3
      <4>7. P + s.todo <= k + PlayRing
        BY <3>1, <4>3, <4>4
      <4>8. s.sent \in Nat
        BY <1>2
      <4> QED BY <3>1, <4>3, <4>5, <4>6, <4>7, <4>8
    <3>3. ((R % Wrap) + n) % PlayRing = (R + n) % PlayRing
      <4>1. R \in Int /\ n \in Int
        BY <1>2
      <4> QED BY <4>1, RingPlace
    <3>4. x = s.ring[k % PlayRing]
      BY <2>2, <3>1, <3>3 DEF x
    <3>5. s.ring[k % PlayRing] = k + 1
      BY <3>2 DEF PlayInv, PlayShape, s
    <3> QED BY <3>1, <3>4, <3>5
  <2>4. ASSUME NEW i \in 1..Len(t.got) PROVE t.got[i] = R + i
    <3>1. CASE i = n + 1
      BY <1>2, <1>4, <1>6, <2>3, <3>1
    <3>2. CASE i # n + 1
      <4>1. i \in 1..n
        BY <1>2, <1>4, <1>6, <2>4, <3>2
      <4> QED BY <1>4, <1>6, <2>2, <4>1
    <3> QED BY <3>1, <3>2
  <2>5. PlayedTo(t, R)
    BY <1>6, <1>7, <2>1, <2>4 DEF PlayedTo
  <2> QED BY <2>5
<1> QED BY <1>5, <1>6, <1>8, <1>9 DEF PlayInv, s, t

LEMMA EndPlays ==
    ASSUME aud \in AudioStates, PlayInv(aud), EndPeriod
    PROVE  /\ aud' \in AudioStates /\ PlayInv(aud')
           /\ SameCapture(aud', aud) /\ SameStreams(aud', aud)
<1> DEFINE s == aud
           t == aud'
           n == s.left
           r == (s.at + n) % Wrap
           x == Final(s)
<1>1. /\ s.rt = "copying" /\ Len(s.got) = n /\ s \in AudioStates
      /\ t = [s EXCEPT !.rt = "idle", !.r = r, !.last = x, !.got = << >>, !.left = 0, !.at = 0]
  BY DEF EndPeriod
<1>2. /\ s.at \in Nat /\ n \in Nat /\ s.last \in Nat /\ s.got \in Seq(Nat)
      /\ s.todo \in Nat /\ s.silenced \in Nat /\ PlayRing \in Nat \ {0} /\ Wrap \in Nat \ {0}
      /\ Published(s) \in Nat
  BY <1>1, PlayFields, ShapeFields
<1> HIDE DEF s, t, n
<1>3. x \in Nat
  BY <1>1, <1>2 DEF Final, n
<1>4. r \in Nat /\ r < Wrap
  <2>1. PICK y \in Int : y = s.at + n
    BY <1>2
  <2>2. y % Wrap \in 0..Wrap - 1
    BY <1>2, Remainder
  <2> QED BY <1>2, <2>1, <2>2
<1> HIDE DEF x, r
<1>5. t \in AudioStates
  <2>1. << >> \in Seq(Nat)
    OBVIOUS
  <2> QED BY <1>1, <1>3, <1>4, <2>1 DEF AudioStates
<1>6. /\ t.got = << >> /\ t.rt = "idle" /\ t.left = 0 /\ t.r = r /\ t.last = x
      /\ t.silenced = s.silenced /\ t.skipped = s.skipped /\ t.raced = s.raced /\ t.w = s.w
      /\ t.main = s.main /\ t.from = s.from /\ t.todo = s.todo /\ t.ring = s.ring
      /\ t.sent = s.sent /\ SameCapture(t, s) /\ SameStreams(t, s)
  BY <1>1 DEF AudioStates, SameCapture, SameStreams
<1>7. Published(t) = Published(s)
  BY <1>6 DEF Published
<1>8. PlayShape(t)
  <2>1. Len(t.got) <= t.left /\ t.rt # "copying" /\ t.got = << >>
    BY <1>6
  <2>2. PlayShape(s)
    BY DEF PlayInv, s
  <2> QED BY <1>4, <1>6, <1>7, <2>1, <2>2 DEF PlayShape
<1>9. ASSUME ~t.raced PROVE \E R \in Nat : PlayedTo(t, R)
  <2>1. PICK R \in Nat : PlayedTo(s, R)
    BY <1>6, <1>9 DEF PlayInv, s
  <2>2. /\ s.at = R % Wrap /\ R + n <= Published(s)
        /\ Published(s) + s.todo <= R + PlayRing /\ s.silenced <= R
        /\ s.last <= R /\ (~s.skipped => s.last = R)
        /\ \A i \in 1..n : s.got[i] = R + i
    BY <1>1, <2>1 DEF PlayedTo, n
  <2>3. PICK Q \in Nat : Q = R + n
    BY <1>2
  <2>4. x <= Q /\ (~s.skipped => x = Q)
    <3>1. CASE n = 0
      BY <1>2, <2>2, <2>3, <3>1 DEF x, Final, n
    <3>2. CASE n # 0
      <4>1. x = s.got[n]
        BY <3>2 DEF x, Final, n
      <4>2. n \in 1..n
        BY <1>2, <3>2
      <4>3. s.got[n] = R + n
        BY <2>2, <4>2
      <4> QED BY <2>3, <4>1, <4>3
    <3> QED BY <3>1, <3>2
  <2>5. r = Q % Wrap
    <3>1. R \in Int /\ n \in Int /\ Wrap \in Nat \ {0}
      BY <1>2
    <3>2. ((R % Wrap) + n) % Wrap = (R + n) % Wrap
      BY <3>1, OuterRemainder
    <3> QED BY <2>2, <2>3, <3>2 DEF r
  <2>6. Q <= Published(s) /\ Published(s) + s.todo <= Q + PlayRing /\ s.silenced <= Q
    <3>1. R + n <= Published(s) /\ Published(s) + s.todo <= R + PlayRing /\ s.silenced <= R
      BY <2>2
    <3> QED BY <1>2, <2>3, <3>1
  <2>7. t.last <= Q /\ (~t.skipped => t.last = Q)
    BY <1>6, <2>4
  <2>8. PlayedTo(t, Q)
    BY <1>6, <1>7, <2>5, <2>6, <2>7 DEF PlayedTo
  <2> QED BY <2>8
<1> QED BY <1>5, <1>6, <1>8, <1>9 DEF PlayInv, s, t

-----------------------------------------------------------------------------
(* What is captured and analysed. *)

NumberAt(a, i) == IF a + i < Window + 1 THEN 0 ELSE a - Window + i

(* What was analysed last stands at U samples. *)
AnalysedTo(s, U) ==
    /\ U <= s.heard /\ s.heard - U < Wrap /\ s.used = U % Wrap
    /\ \A i \in 1..Window : s.hist[i] = NumberAt(U, i)

RingHolds(s) ==
    \A k \in Nat : k < s.heard /\ s.heard <= k + CapRing => s.cap[k % CapRing] = k + 1

CaptureInv(s) ==
    /\ s.pos = s.heard % Wrap
    /\ RingHolds(s)
    /\ \E U \in Nat : AnalysedTo(s, U)

LEMMA StillCaptures ==
    ASSUME NEW s, NEW t, SameCapture(t, s), CaptureInv(s)
    PROVE  CaptureInv(t)
BY DEF SameCapture, CaptureInv, RingHolds, AnalysedTo

LEMMA CaptureFields ==
    ASSUME NEW s \in AudioStates
    PROVE  /\ s.cap \in CapRings /\ s.pos \in Nat /\ s.used \in Nat /\ s.heard \in Nat
           /\ s.hist \in Histories
           /\ CapRing \in Nat \ {0} /\ Wrap \in Nat \ {0} /\ Window \in Nat \ {0} /\ Window <= CapRing
<1>1. s.cap \in CapRings /\ s.pos \in Nat /\ s.used \in Nat /\ s.heard \in Nat /\ s.hist \in Histories
  BY DEF AudioStates
<1> QED BY <1>1, AudioNumbers

LEMMA CapPlace ==
    ASSUME NEW a \in Int, NEW j \in Int
    PROVE  ((a % Wrap) + j) % CapRing = (a + j) % CapRing
<1>1. Wrap \in Nat \ {0} /\ CapRing \in Nat \ {0} /\ Wrap % CapRing = 0
  BY AudioNumbers
<1> QED BY <1>1, InnerRemainder

LEMMA CapRange ==
    ASSUME NEW a \in Int
    PROVE  a % CapRing \in 0..CapRing - 1
BY AudioNumbers, Remainder

(* A whole round of the index is whole rounds of the ring. *)
LEMMA CapRound ==
    ASSUME NEW a \in Int
    PROVE  (a + Wrap) % CapRing = a % CapRing
<1>1. Wrap \in Nat \ {0} /\ CapRing \in Nat \ {0} /\ Wrap % CapRing = 0
  BY AudioNumbers
<1> DEFINE q == Wrap \div CapRing
<1>2. q \in Int /\ Wrap = CapRing * q
  BY <1>1, Remainder
<1> HIDE DEF q
<1>3. (a + CapRing * q) % CapRing = a % CapRing
  BY <1>1, <1>2, SameRemainder
<1> QED BY <1>2, <1>3

(* Places of the ring less than a round apart are the same only for the same number. *)
LEMMA CapSame ==
    ASSUME NEW a \in Int, NEW b \in Int, a % CapRing = b % CapRing, a - b < CapRing, b - a < CapRing
    PROVE  a = b
<1>1. CapRing \in Nat \ {0}
  BY AudioNumbers
<1>2. ~(a < b)
  <2> SUFFICES ASSUME a < b PROVE FALSE
    OBVIOUS
  <2> QED BY <1>1, DifferentPlaces
<1>3. ~(b < a)
  <2> SUFFICES ASSUME b < a PROVE FALSE
    OBVIOUS
  <2> QED BY <1>1, DifferentPlaces
<1> HIDE <1>1
<1> QED BY <1>2, <1>3

(* The ring after n more samples. *)
LEMMA CapturedHolds ==
    ASSUME NEW s \in AudioStates, CaptureInv(s), NEW n \in Nat
    PROVE  /\ Captured(s, n) \in CapRings
           /\ \A k \in Nat : k < s.heard + n /\ s.heard + n <= k + CapRing
                  => Captured(s, n)[k % CapRing] = k + 1
<1> DEFINE kept == IF n > CapRing THEN CapRing ELSE n
           off == n - kept
           Ending(i) == {k \in 0..kept - 1 : (s.pos + n - kept + k) % CapRing = i}
           H == s.heard
           c == Captured(s, n)
<1>1. /\ H \in Nat /\ CapRing \in Nat \ {0} /\ s.cap \in CapRings /\ s.pos = H % Wrap /\ s.pos \in Nat
  BY CaptureFields DEF CaptureInv
<1>2. kept \in Nat /\ off \in Nat /\ kept <= CapRing /\ off + kept = n /\ (kept < CapRing => off = 0)
  BY <1>1
<1>3. c = [i \in 0..CapRing - 1 |-> IF Ending(i) = {} THEN s.cap[i]
                                     ELSE H + n - kept + (CHOOSE k \in Ending(i) : TRUE) + 1]
  BY DEF Captured
<1> HIDE DEF kept, off, H, c
<1>4. ASSUME NEW i \in 0..CapRing - 1, NEW k \in Ending(i)
      PROVE  k \in Nat /\ k < kept /\ (H + off + k) % CapRing = i
  <2>1. k \in Nat /\ k < kept /\ (s.pos + n - kept + k) % CapRing = i
    BY <1>2, <1>4
  <2>2. PICK j \in Int : j = off + k
    BY <1>2, <2>1
  <2>3. s.pos + n - kept + k = (H % Wrap) + j /\ H + off + k = H + j
    <3>1. s.pos + n - kept + k = s.pos + j
      BY <1>1, <1>2, <2>1, <2>2
    <3>2. H + off + k = H + j
      BY <1>1, <1>2, <2>1, <2>2
    <3> QED BY <1>1, <3>1, <3>2
  <2>4. ((H % Wrap) + j) % CapRing = (H + j) % CapRing
    <3>1. H \in Int
      BY <1>1
    <3> QED BY <2>2, <3>1, CapPlace
  <2> QED BY <2>1, <2>3, <2>4
<1>5. ASSUME NEW k \in Nat, k < kept
      PROVE  k \in Ending((H + off + k) % CapRing) /\ (H + off + k) % CapRing \in 0..CapRing - 1
  <2>1. PICK j \in Int : j = off + k
    BY <1>2
  <2>2. s.pos + n - kept + k = (H % Wrap) + j /\ H + off + k = H + j /\ H + j \in Int
    <3>1. s.pos + n - kept + k = s.pos + j
      BY <1>1, <1>2, <2>1
    <3>2. H + off + k = H + j /\ H + j \in Int
      BY <1>1, <1>2, <2>1
    <3> QED BY <1>1, <3>1, <3>2
  <2>3. ((H % Wrap) + j) % CapRing = (H + j) % CapRing
    <3>1. H \in Int
      BY <1>1
    <3> QED BY <2>1, <3>1, CapPlace
  <2>4. (H + j) % CapRing \in 0..CapRing - 1
    BY <2>2, CapRange
  <2>5. k \in 0..kept - 1
    BY <1>2, <1>5
  <2> QED BY <2>2, <2>3, <2>4, <2>5
<1>6. ASSUME NEW i \in 0..CapRing - 1, Ending(i) # {}
      PROVE  \E k \in Ending(i) : c[i] = H + off + k + 1
  <2>1. PICK k : k = CHOOSE x \in Ending(i) : TRUE
    OBVIOUS
  <2>2. k \in Ending(i)
    BY <1>6, <2>1
  <2>3. c[i] = H + n - kept + k + 1
    BY <1>3, <1>6, <2>1
  <2>4. k \in Nat
    BY <1>4, <2>2
  <2>5. H + n - kept + k + 1 = H + off + k + 1
    BY <1>1, <1>2, <2>4
  <2> QED BY <2>2, <2>3, <2>5
<1>7. ASSUME NEW i \in 0..CapRing - 1, Ending(i) = {}
      PROVE  c[i] = s.cap[i]
  BY <1>3, <1>7
<1>8. c \in CapRings
  <2>1. ASSUME NEW i \in 0..CapRing - 1 PROVE c[i] \in Nat
    <3>1. CASE Ending(i) = {}
      BY <1>1, <1>7, <3>1 DEF CapRings
    <3>2. CASE Ending(i) # {}
      <4>1. PICK k \in Ending(i) : c[i] = H + off + k + 1
        BY <1>6, <3>2
      <4>2. k \in Nat
        BY <1>4, <4>1
      <4> QED BY <1>1, <1>2, <4>1, <4>2
    <3> QED BY <3>1, <3>2
  <2> QED BY <1>3, <2>1 DEF CapRings
<1> HIDE DEF Ending
<1>9. ASSUME NEW k \in Nat, k < H + n, H + n <= k + CapRing
      PROVE  c[k % CapRing] = k + 1
  <2> DEFINE i == k % CapRing
  <2>1. i \in 0..CapRing - 1 /\ k \in Int
    BY CapRange
  <2> HIDE DEF i
  <2>2. CASE H + off <= k
    <3>1. PICK m \in Nat : m < kept /\ k = H + off + m
      <4>1. k - (H + off) \in Nat /\ k - (H + off) < kept /\ k = H + off + (k - (H + off))
        BY <1>1, <1>2, <1>9, <2>2
      <4> QED BY <4>1
    <3>2. m \in Ending(i)
      BY <1>5, <3>1 DEF i
    <3>3. PICK x \in Ending(i) : c[i] = H + off + x + 1
      BY <1>6, <2>1, <3>2
    <3>4. x \in Nat /\ x < kept /\ (H + off + x) % CapRing = i
      BY <1>4, <2>1, <3>3
    <3>5. PICK y \in Int : y = H + off + x
      BY <1>1, <1>2, <3>4
    <3>6. y % CapRing = k % CapRing
      BY <3>4, <3>5 DEF i
    <3>7. y - k < CapRing /\ k - y < CapRing
      BY <1>1, <1>2, <3>1, <3>4, <3>5
    <3>8. y = k
      BY <2>1, <3>5, <3>6, <3>7, CapSame
    <3>9. c[i] = y + 1
      BY <3>3, <3>5
    <3> QED BY <3>8, <3>9 DEF i
  <2>3. CASE k < H + off
    <3>1. off = 0 /\ kept = n /\ k < H /\ H <= k + CapRing
      BY <1>1, <1>2, <1>9, <2>3
    <3>2. Ending(i) = {}
      <4> SUFFICES ASSUME Ending(i) # {} PROVE FALSE
        OBVIOUS
      <4>1. PICK x \in Ending(i) : TRUE
        OBVIOUS
      <4>2. x \in Nat /\ x < kept /\ (H + off + x) % CapRing = i
        BY <1>4, <2>1, <4>1
      <4>3. PICK y \in Int : y = H + off + x
        BY <1>1, <1>2, <4>2
      <4>4. y % CapRing = k % CapRing
        BY <4>2, <4>3 DEF i
      <4>5. y - k < CapRing /\ k - y < CapRing /\ y # k
        BY <1>1, <1>2, <1>9, <3>1, <4>2, <4>3
      <4> QED BY <2>1, <4>3, <4>4, <4>5, CapSame
    <3>3. s.cap[i] = k + 1
      BY <3>1 DEF CaptureInv, RingHolds, i, H
    <3> QED BY <1>7, <2>1, <3>2, <3>3 DEF i
  <2>4. H + off \in Int
    BY <1>1, <1>2
  <2> QED BY <2>1, <2>2, <2>3, <2>4
<1> QED BY <1>8, <1>9 DEF H, c

LEMMA PushCaptures ==
    ASSUME aud \in AudioStates, CaptureInv(aud), NEW n \in Nat, Push(n)
    PROVE  /\ aud' \in AudioStates /\ CaptureInv(aud')
           /\ SamePlay(aud', aud) /\ SameStreams(aud', aud)
<1> DEFINE s == aud
           t == aud'
           c == Captured(s, n)
           pos == (s.pos + n) % Wrap
           heard == s.heard + n
<1>1. /\ s \in AudioStates /\ Minus(s.pos, s.used) + n < Wrap
      /\ t = [s EXCEPT !.cap = c, !.pos = pos, !.heard = heard]
  BY DEF Push
<1>2. c \in CapRings /\ \A k \in Nat : k < heard /\ heard <= k + CapRing => c[k % CapRing] = k + 1
  BY <1>1, CapturedHolds
<1>3. s.heard \in Nat /\ heard \in Nat /\ s.pos = s.heard % Wrap /\ s.pos \in Nat /\ Wrap \in Nat \ {0}
  BY <1>1, CaptureFields DEF CaptureInv
<1>4. pos = heard % Wrap /\ pos \in Nat
  <2>1. s.heard \in Int /\ n \in Int /\ heard \in Int
    BY <1>3
  <2> HIDE DEF s
  <2>2. ((s.heard % Wrap) + n) % Wrap = (s.heard + n) % Wrap
    BY <1>3, <2>1, OuterRemainder
  <2>3. heard % Wrap \in Nat
    <3> HIDE DEF heard
    <3> QED BY <1>3, <2>1, Remainder
  <2> QED BY <1>3, <2>2, <2>3
<1> HIDE DEF c, pos, heard, s, t
<1>5. t \in AudioStates
  BY <1>1, <1>2, <1>3, <1>4 DEF AudioStates
<1>6. /\ t.cap = c /\ t.pos = pos /\ t.heard = heard /\ t.used = s.used /\ t.hist = s.hist
      /\ SamePlay(t, s) /\ SameStreams(t, s)
  BY <1>1 DEF AudioStates, SamePlay, SameStreams
<1>7. RingHolds(t)
  BY <1>2, <1>6 DEF RingHolds
<1>8. \E U \in Nat : AnalysedTo(t, U)
  <2>1. PICK U \in Nat : AnalysedTo(s, U)
    BY DEF CaptureInv, s
  <2>2. U <= s.heard /\ s.heard - U < Wrap /\ s.used = U % Wrap
    BY <2>1 DEF AnalysedTo
  <2>3. Minus(s.pos, s.used) = s.heard - U
    <3>1. s.heard \in Int /\ U \in Int
      BY <1>3
    <3> QED BY <1>3, <2>2, <3>1, MinusIs
  <2>4. U <= heard /\ heard - U < Wrap
    BY <1>1, <1>3, <2>2, <2>3 DEF heard
  <2>5. AnalysedTo(t, U)
    BY <1>6, <2>1, <2>4 DEF AnalysedTo
  <2> QED BY <2>5
<1>9. CaptureInv(t)
  BY <1>4, <1>6, <1>7, <1>8 DEF CaptureInv
<1> QED BY <1>5, <1>6, <1>9 DEF s, t

(* The history that has moved on ends with the newest sample. *)
LEMMA MovedOnIs ==
    ASSUME NEW s \in AudioStates, CaptureInv(s), NEW i \in 1..Window
    PROVE  MovedOn(s)[i] = NumberAt(s.heard, i)
<1> DEFINE fresh == Minus(s.pos, s.used)
           n == IF fresh < Window THEN fresh ELSE Window
           H == s.heard
           d == Window - i + 1
<1>1. /\ H \in Nat /\ s.pos = H % Wrap /\ s.pos \in Nat /\ Wrap \in Nat \ {0}
      /\ CapRing \in Nat \ {0} /\ Window \in Nat \ {0} /\ Window <= CapRing
      /\ i \in Nat /\ 1 <= i /\ i <= Window /\ d \in Nat /\ 1 <= d /\ d <= Window
  BY CaptureFields DEF CaptureInv
<1>2. PICK U \in Nat : AnalysedTo(s, U)
  BY DEF CaptureInv
<1>3. fresh = H - U /\ U <= H
  <2>1. H \in Int /\ U \in Int /\ U <= H /\ H - U < Wrap /\ s.used = U % Wrap
    BY <1>1, <1>2 DEF AnalysedTo
  <2>2. Minus(H % Wrap, U % Wrap) = H - U
    <3> HIDE DEF H
    <3> QED BY <2>1, MinusIs
  <2> QED BY <1>1, <2>1, <2>2
<1>4. MovedOn(s)[i] = IF i <= Window - n THEN s.hist[i + n] ELSE s.cap[(s.pos + Wrap - d) % CapRing]
  BY DEF MovedOn
<1> HIDE DEF fresh
<1>5. n \in Nat /\ n <= Window /\ n <= H - U /\ (n < Window => n = H - U)
  BY <1>1, <1>3
<1> HIDE DEF n, H, d
<1>6. CASE i <= Window - n
  <2>1. i + n \in 1..Window /\ U + (i + n) = H + i
    BY <1>1, <1>5, <1>6
  <2>2. s.hist[i + n] = NumberAt(U, i + n)
    BY <1>2, <2>1 DEF AnalysedTo
  <2>3. NumberAt(U, i + n) = NumberAt(H, i)
    BY <1>1, <1>5, <2>1 DEF NumberAt
  <2> QED BY <1>4, <1>6, <2>2, <2>3 DEF H
<1>7. CASE ~(i <= Window - n)
  <2>1. PICK k \in Nat : k = H - d
    BY <1>1, <1>3, <1>5, <1>7 DEF d
  <2>2. k < H /\ H <= k + CapRing
    BY <1>1, <2>1
  <2>3. (s.pos + Wrap - d) % CapRing = k % CapRing
    <3>1. PICK j \in Int : j = Wrap - d
      BY <1>1
    <3>2. s.pos + Wrap - d = (H % Wrap) + j /\ H + j = k + Wrap
      <4>1. s.pos + Wrap - d = s.pos + j /\ H + j = k + Wrap
        BY <1>1, <2>1, <3>1
      <4> QED BY <1>1, <4>1
    <3>3. ((H % Wrap) + j) % CapRing = (H + j) % CapRing
      <4>1. H \in Int
        BY <1>1
      <4> QED BY <3>1, <4>1, CapPlace
    <3>4. (k + Wrap) % CapRing = k % CapRing
      <4>1. k \in Int
        OBVIOUS
      <4> QED BY <4>1, CapRound
    <3> QED BY <3>2, <3>3, <3>4
  <2>4. s.cap[k % CapRing] = k + 1
    BY <2>2 DEF CaptureInv, RingHolds, H
  <2>5. k + 1 = NumberAt(H, i)
    BY <1>1, <2>1 DEF NumberAt, d
  <2> QED BY <1>4, <1>7, <2>3, <2>4, <2>5 DEF H
<1> QED BY <1>6, <1>7

LEMMA NumberIsNat == \A a \in Nat, i \in 1..Window : NumberAt(a, i) \in Nat
BY AudioNumbers DEF NumberAt

LEMMA AnalyseCaptures ==
    ASSUME aud \in AudioStates, CaptureInv(aud), Analyse
    PROVE  /\ aud' \in AudioStates /\ CaptureInv(aud')
           /\ SamePlay(aud', aud) /\ SameStreams(aud', aud)
<1> DEFINE s == aud
           t == aud'
           h == MovedOn(s)
<1>1. s \in AudioStates /\ t = [s EXCEPT !.used = s.pos, !.hist = h]
  BY DEF Analyse
<1>2. s.heard \in Nat /\ s.pos \in Nat /\ s.pos = s.heard % Wrap /\ Wrap \in Nat \ {0}
  BY <1>1, CaptureFields DEF CaptureInv
<1>3. \A i \in 1..Window : h[i] = NumberAt(s.heard, i)
  BY <1>1, MovedOnIs
<1>4. h \in Histories
  <2>1. \A i \in 1..Window : h[i] \in Nat
    BY <1>2, <1>3, NumberIsNat
  <2> QED BY <2>1 DEF Histories, MovedOn
<1> HIDE DEF h, s, t
<1>5. t \in AudioStates
  BY <1>1, <1>2, <1>4 DEF AudioStates
<1>6. /\ t.used = s.pos /\ t.hist = h /\ t.cap = s.cap /\ t.pos = s.pos /\ t.heard = s.heard
      /\ SamePlay(t, s) /\ SameStreams(t, s)
  BY <1>1 DEF AudioStates, SamePlay, SameStreams
<1>7. AnalysedTo(t, t.heard)
  <2>1. t.heard <= t.heard /\ t.heard - t.heard < Wrap
    BY <1>2, <1>6
  <2> QED BY <1>2, <1>3, <1>6, <2>1 DEF AnalysedTo
<1>8. CaptureInv(t)
  BY <1>2, <1>6, <1>7 DEF CaptureInv, RingHolds, s
<1> QED BY <1>5, <1>6, <1>8 DEF s, t

LEMMA CaptureShows ==
    ASSUME aud \in AudioStates, CaptureInv(aud)
    PROVE  NewestWindow
<1> SUFFICES ASSUME aud.used = aud.pos, NEW i \in 1..Window
             PROVE  aud.hist[i] = NumberAt(aud.heard, i)
  BY DEF NewestWindow, NumberAt
<1>1. PICK U \in Nat : AnalysedTo(aud, U)
  BY DEF CaptureInv
<1>2. /\ aud.heard \in Nat /\ Wrap \in Nat \ {0} /\ U <= aud.heard /\ aud.heard - U < Wrap
      /\ aud.heard % Wrap = U % Wrap
  BY <1>1, CaptureFields DEF CaptureInv, AnalysedTo
<1>3. ~(U < aud.heard)
  <2>1. aud.heard \in Int /\ U \in Int
    BY <1>2
  <2> SUFFICES ASSUME U < aud.heard PROVE FALSE
    OBVIOUS
  <2> QED BY <1>2, <2>1, DifferentPlaces
<1>4. U = aud.heard
  <2>1. aud.heard \in Nat /\ U <= aud.heard
    BY <1>2
  <2> QED BY <1>3, <2>1
<1> QED BY <1>1, <1>4 DEF AnalysedTo

-----------------------------------------------------------------------------
(* Who else is heard. *)

StreamInv(s) ==
    /\ Members(s.tracked) \subseteq s.here /\ s.runs \subseteq s.here
    /\ ~s.missed => s.here \subseteq Members(s.tracked)
    /\ s.external <=> Members(s.tracked) \cap s.runs # {}

LEMMA StillHeard ==
    ASSUME NEW s, NEW t, SameStreams(t, s), StreamInv(s)
    PROVE  StreamInv(t)
BY DEF SameStreams, StreamInv

LEMMA StreamFields ==
    ASSUME NEW s \in AudioStates
    PROVE  /\ s.tracked \in Seq(Programs) /\ s.runs \in SUBSET Programs /\ s.here \in SUBSET Programs
           /\ s.missed \in BOOLEAN /\ s.external \in BOOLEAN
BY DEF AudioStates

LEMMA AppendedMembers ==
    ASSUME NEW q \in Seq(Programs), NEW p \in Programs
    PROVE  Append(q, p) \in Seq(Programs) /\ Members(Append(q, p)) = Members(q) \cup {p}
<1> DEFINE c == Append(q, p)
<1>1. /\ c \in Seq(Programs) /\ Len(q) \in Nat /\ DOMAIN q = 1..Len(q) /\ DOMAIN c = 1..(Len(q) + 1)
      /\ c[Len(q) + 1] = p /\ \A i \in 1..Len(q) : c[i] = q[i]
  OBVIOUS
<1> HIDE DEF c
<1>2. ASSUME NEW i \in DOMAIN c PROVE c[i] \in Members(q) \cup {p}
  <2>1. CASE i \in 1..Len(q)
    BY <1>1, <2>1 DEF Members
  <2>2. CASE i = Len(q) + 1
    BY <1>1, <2>2
  <2> QED BY <1>1, <2>1, <2>2
<1>3. ASSUME NEW i \in DOMAIN q PROVE i \in DOMAIN c /\ c[i] = q[i]
  BY <1>1
<1>4. Len(q) + 1 \in DOMAIN c
  BY <1>1
<1>5. Members(c) \subseteq Members(q) \cup {p}
  BY <1>2 DEF Members
<1>6. Members(q) \cup {p} \subseteq Members(c)
  BY <1>1, <1>3, <1>4 DEF Members
<1> QED BY <1>1, <1>5, <1>6 DEF c

LEMMA ComesStream ==
    ASSUME aud \in AudioStates, StreamInv(aud), NEW p \in Programs, StreamComes(p)
    PROVE  /\ aud' \in AudioStates /\ StreamInv(aud')
           /\ SamePlay(aud', aud) /\ SameCapture(aud', aud)
<1> DEFINE s == aud
           t == aud'
           room == Len(s.tracked) < Nodes
           here == s.here \cup {p}
           tracked == IF room THEN Append(s.tracked, p) ELSE s.tracked
           missed == s.missed \/ Len(s.tracked) >= Nodes
<1>1. s \in AudioStates /\ p \notin s.here
      /\ t = [s EXCEPT !.here = here, !.tracked = tracked, !.missed = missed]
  BY DEF StreamComes
<1>2. /\ s.tracked \in Seq(Programs) /\ s.runs \in SUBSET Programs /\ s.here \in SUBSET Programs
      /\ Nodes \in Nat /\ Len(s.tracked) \in Nat
  <2>1. s.tracked \in Seq(Programs) /\ s.runs \in SUBSET Programs /\ s.here \in SUBSET Programs
    BY <1>1, StreamFields
  <2>2. Len(s.tracked) \in Nat
    BY <2>1
  <2> QED BY <2>1, <2>2, AudioAssumption
<1>3. /\ tracked \in Seq(Programs) /\ Members(tracked) \subseteq Members(s.tracked) \cup {p}
      /\ Members(s.tracked) \subseteq Members(tracked) /\ (~missed => p \in Members(tracked))
      /\ missed \in BOOLEAN /\ (~missed => ~s.missed) /\ here \in SUBSET Programs
  <2>1. Append(s.tracked, p) \in Seq(Programs) /\ Members(Append(s.tracked, p)) = Members(s.tracked) \cup {p}
    BY <1>2, AppendedMembers
  <2>2. ~missed => room
    BY <1>2
  <2> HIDE DEF room
  <2>3. (room => tracked = Append(s.tracked, p)) /\ (~room => tracked = s.tracked)
    OBVIOUS
  <2> HIDE DEF tracked, s
  <2> QED BY <1>2, <2>1, <2>2, <2>3
<1> HIDE DEF s, t, here, tracked, missed
<1>4. t \in AudioStates
  BY <1>1, <1>3 DEF AudioStates
<1>5. /\ t.here = here /\ t.tracked = tracked /\ t.missed = missed /\ t.runs = s.runs
      /\ t.external = s.external /\ SamePlay(t, s) /\ SameCapture(t, s)
  BY <1>1 DEF AudioStates, SamePlay, SameCapture
<1>6. StreamInv(s)
  BY DEF s
<1>7. StreamInv(t)
  BY <1>1, <1>3, <1>5, <1>6 DEF StreamInv, here
<1> QED BY <1>4, <1>5, <1>7 DEF s, t

LEMMA ExternalFields ==
    ASSUME NEW a \in AudioStates
    PROVE  /\ External(a) \in AudioStates
           /\ External(a).external <=> Members(a.tracked) \cap a.runs # {}
           /\ External(a).tracked = a.tracked /\ External(a).runs = a.runs
           /\ External(a).here = a.here /\ External(a).missed = a.missed
           /\ SamePlay(External(a), a) /\ SameCapture(External(a), a)
<1> DEFINE x == Members(a.tracked) \cap a.runs # {}
<1>1. External(a) = [a EXCEPT !.external = x] /\ x \in BOOLEAN
  BY DEF External
<1> HIDE DEF x
<1>2. External(a) \in AudioStates
  BY <1>1 DEF AudioStates
<1>3. /\ External(a).external = x
      /\ External(a).tracked = a.tracked /\ External(a).runs = a.runs
      /\ External(a).here = a.here /\ External(a).missed = a.missed
      /\ SamePlay(External(a), a) /\ SameCapture(External(a), a)
  BY <1>1 DEF AudioStates, SamePlay, SameCapture
<1> QED BY <1>2, <1>3 DEF x

LEMMA SameTwice ==
    ASSUME NEW a, NEW b, NEW c
    PROVE  /\ SamePlay(c, b) /\ SamePlay(b, a) => SamePlay(c, a)
           /\ SameCapture(c, b) /\ SameCapture(b, a) => SameCapture(c, a)
BY DEF SamePlay, SameCapture

LEMMA RunsStream ==
    ASSUME aud \in AudioStates, StreamInv(aud), NEW p \in Programs, StreamRuns(p)
    PROVE  /\ aud' \in AudioStates /\ StreamInv(aud')
           /\ SamePlay(aud', aud) /\ SameCapture(aud', aud)
<1> DEFINE s == aud
           t == aud'
           runs == IF p \in s.runs THEN s.runs \ {p} ELSE s.runs \cup {p}
           a == [s EXCEPT !.runs = runs]
<1>1. s \in AudioStates /\ p \in s.here /\ t = (IF Tracks(a, p) THEN External(a) ELSE a)
  BY DEF StreamRuns
<1>2. s.tracked \in Seq(Programs) /\ s.runs \in SUBSET Programs /\ s.here \in SUBSET Programs
  BY <1>1, StreamFields
<1>3. runs \in SUBSET Programs /\ runs \subseteq s.runs \cup {p} /\ s.runs \subseteq runs \cup {p}
  BY <1>2
<1> HIDE DEF s, t, runs
<1>4. a \in AudioStates
  BY <1>1, <1>3 DEF AudioStates
<1>5. /\ a.runs = runs /\ a.tracked = s.tracked /\ a.here = s.here /\ a.missed = s.missed
      /\ a.external = s.external /\ SamePlay(a, s) /\ SameCapture(a, s)
  BY <1>1 DEF AudioStates, SamePlay, SameCapture
<1>6. StreamInv(s)
  BY DEF s
<1> HIDE DEF a
<1>7. CASE Tracks(a, p)
  <2>1. t = External(a)
    BY <1>1, <1>7
  <2>2. t \in AudioStates /\ SamePlay(t, s) /\ SameCapture(t, s)
    BY <1>4, <1>5, <2>1, ExternalFields, SameTwice
  <2>3. /\ t.external <=> Members(s.tracked) \cap runs # {}
        /\ t.tracked = s.tracked /\ t.runs = runs /\ t.here = s.here /\ t.missed = s.missed
    BY <1>4, <1>5, <2>1, ExternalFields
  <2>4. StreamInv(t)
    BY <1>1, <1>3, <1>6, <2>3 DEF StreamInv
  <2> QED BY <2>2, <2>4 DEF s, t
<1>8. CASE ~Tracks(a, p)
  <2>1. t = a /\ p \notin Members(s.tracked)
    BY <1>1, <1>5, <1>8 DEF Tracks
  <2>2. StreamInv(t)
    BY <1>1, <1>3, <1>5, <1>6, <2>1 DEF StreamInv
  <2> QED BY <1>4, <1>5, <2>1, <2>2 DEF s, t
<1> QED BY <1>7, <1>8

LEMMA GoesStream ==
    ASSUME aud \in AudioStates, StreamInv(aud), NEW p \in Programs, StreamGoes(p)
    PROVE  /\ aud' \in AudioStates /\ StreamInv(aud')
           /\ SamePlay(aud', aud) /\ SameCapture(aud', aud)
<1> DEFINE s == aud
           t == aud'
           here == s.here \ {p}
           runs == s.runs \ {p}
           tracked == Compact(s.tracked, {p})
           a == [s EXCEPT !.here = here, !.runs = runs, !.tracked = tracked]
<1>1. s \in AudioStates /\ p \in s.here /\ t = (IF Tracks(s, p) THEN External(a) ELSE a)
  BY DEF StreamGoes
<1>2. s.tracked \in Seq(Programs) /\ s.runs \in SUBSET Programs /\ s.here \in SUBSET Programs
  BY <1>1, StreamFields
<1>3. /\ tracked \in Seq(Programs) /\ Members(tracked) = Members(s.tracked) \ {p}
      /\ here \in SUBSET Programs /\ runs \in SUBSET Programs
  BY <1>2, CompactRange, CompactMembers
<1> HIDE DEF s, t, runs, here, tracked
<1>4. a \in AudioStates
  BY <1>1, <1>3 DEF AudioStates
<1>5. /\ a.runs = runs /\ a.tracked = tracked /\ a.here = here /\ a.missed = s.missed
      /\ a.external = s.external /\ SamePlay(a, s) /\ SameCapture(a, s)
  BY <1>1 DEF AudioStates, SamePlay, SameCapture
<1>6. StreamInv(s)
  BY DEF s
<1> HIDE DEF a
<1>7. CASE Tracks(s, p)
  <2>1. t = External(a)
    BY <1>1, <1>7
  <2>2. t \in AudioStates /\ SamePlay(t, s) /\ SameCapture(t, s)
    BY <1>4, <1>5, <2>1, ExternalFields, SameTwice
  <2>3. /\ t.external <=> Members(tracked) \cap runs # {}
        /\ t.tracked = tracked /\ t.runs = runs /\ t.here = here /\ t.missed = s.missed
    BY <1>4, <1>5, <2>1, ExternalFields
  <2>4. StreamInv(t)
    BY <1>3, <1>6, <2>3 DEF StreamInv, runs, here
  <2> QED BY <2>2, <2>4 DEF s, t
<1>8. CASE ~Tracks(s, p)
  <2>1. t = a /\ p \notin Members(s.tracked)
    BY <1>1, <1>8 DEF Tracks
  <2>2. StreamInv(t)
    BY <1>3, <1>5, <1>6, <2>1 DEF StreamInv, runs, here
  <2> QED BY <1>4, <1>5, <2>1, <2>2 DEF s, t
<1> QED BY <1>7, <1>8

-----------------------------------------------------------------------------
(* The three together. *)

AudioInv == aud \in AudioStates /\ PlayInv(aud) /\ CaptureInv(aud) /\ StreamInv(aud)

LEMMA AudioStarts == AudioInit => AudioInv
<1> SUFFICES ASSUME AudioInit PROVE AudioInv
  OBVIOUS
<1> DEFINE ring == [i \in 0..PlayRing - 1 |-> 0]
           cap == [i \in 0..CapRing - 1 |-> 0]
           hist == [i \in 1..Window |-> 0]
<1>1. ring \in Frames /\ cap \in CapRings /\ hist \in Histories /\ << >> \in Seq(Nat) /\ << >> \in Seq(Programs)
  BY DEF Frames, CapRings, Histories
<1>2. \A i \in 1..Window : hist[i] = 0
  OBVIOUS
<1>3. /\ 0 % Wrap = 0 /\ PlayRing \in Nat \ {0} /\ CapRing \in Nat \ {0}
      /\ Wrap \in Nat \ {0} /\ Window \in Nat \ {0}
  <2>1. Wrap \in Nat \ {0} /\ 0 \in Nat /\ 0 < Wrap
    BY AudioNumbers
  <2> QED BY <2>1, SmallOnes, AudioNumbers
<1> HIDE DEF ring, cap, hist
<1>4. aud = [ring |-> ring, w |-> 0, r |-> 0, sent |-> 0,
           rt |-> "idle", at |-> 0, left |-> 0, got |-> << >>,
           main |-> "idle", from |-> 0, todo |-> 0,
           last |-> 0, raced |-> FALSE, skipped |-> FALSE, silenced |-> 0,
           cap |-> cap, pos |-> 0, used |-> 0, heard |-> 0,
           hist |-> hist,
           tracked |-> << >>, runs |-> {}, here |-> {}, missed |-> FALSE, external |-> FALSE]
  BY DEF AudioInit, ring, cap, hist
<1>5. aud \in AudioStates
  BY <1>1, <1>4 DEF AudioStates
<1>6. PlayInv(aud)
  <2>1. Published(aud) = 0
    BY <1>4 DEF Published
  <2>2. PlayShape(aud)
    <3>1. aud.from <= aud.todo /\ aud.from <= aud.sent /\ aud.w = Published(aud) % Wrap
          /\ aud.r < Wrap /\ aud.todo = 0 /\ aud.rt = "idle" /\ aud.got = << >> /\ aud.left = 0
      BY <1>3, <1>4, <2>1
    <3>2. \A k \in Nat : ~(k < aud.sent)
      BY <1>4
    <3>3. Len(aud.got) <= aud.left
      BY <3>1
    <3> QED BY <3>1, <3>2, <3>3 DEF PlayShape
  <2>3. PlayedTo(aud, 0)
    BY <1>3, <1>4, <2>1 DEF PlayedTo
  <2> QED BY <2>2, <2>3 DEF PlayInv
<1>7. CaptureInv(aud)
  <2>1. aud.pos = aud.heard % Wrap /\ aud.heard = 0 /\ aud.used = 0 % Wrap /\ aud.hist = hist
    BY <1>3, <1>4
  <2>2. RingHolds(aud)
    BY <2>1 DEF RingHolds
  <2>3. \A i \in 1..Window : NumberAt(0, i) = 0
    BY <1>3 DEF NumberAt
  <2>4. AnalysedTo(aud, 0)
    BY <1>2, <1>3, <2>1, <2>3 DEF AnalysedTo
  <2> QED BY <2>1, <2>2, <2>4 DEF CaptureInv
<1>8. StreamInv(aud)
  <2>1. Members(<< >>) = {}
    BY DEF Members
  <2>2. aud.tracked = << >> /\ aud.runs = {} /\ aud.here = {} /\ ~aud.external
    BY <1>4
  <2> QED BY <2>1, <2>2 DEF StreamInv
<1> QED BY <1>5, <1>6, <1>7, <1>8 DEF AudioInv

LEMMA AudioKeeps ==
    ASSUME AudioInv, AudioNext
    PROVE  AudioInv'
<1> USE DEF AudioInv
<1>0. \A n \in Chunks : n \in Nat
  BY AudioAssumption
<1>1. ASSUME NEW n \in Chunks, Submit(n) PROVE AudioInv'
  BY <1>0, <1>1, SubmitPlays, StillCaptures, StillHeard
<1>2. ASSUME WriteFrame PROVE AudioInv'
  BY <1>2, WriteFramePlays, StillCaptures, StillHeard
<1>3. ASSUME Publish PROVE AudioInv'
  BY <1>3, PublishPlays, StillCaptures, StillHeard
<1>4. ASSUME ClearPlayback PROVE AudioInv'
  BY <1>4, ClearPlays, StillCaptures, StillHeard
<1>13. ASSUME LookAtWriter PROVE AudioInv'
  BY <1>13, LookPlays, StillCaptures, StillHeard
<1>5. ASSUME BeginPeriod PROVE AudioInv'
  BY <1>5, BeginPlays, StillCaptures, StillHeard
<1>6. ASSUME CopyFrame PROVE AudioInv'
  BY <1>6, CopyPlays, StillCaptures, StillHeard
<1>7. ASSUME EndPeriod PROVE AudioInv'
  BY <1>7, EndPlays, StillCaptures, StillHeard
<1>8. ASSUME Analyse PROVE AudioInv'
  BY <1>8, AnalyseCaptures, StillPlays, StillHeard
<1>9. ASSUME NEW n \in Chunks, Push(n) PROVE AudioInv'
  BY <1>0, <1>9, PushCaptures, StillPlays, StillHeard
<1>10. ASSUME NEW p \in Programs, StreamComes(p) PROVE AudioInv'
  BY <1>10, ComesStream, StillPlays, StillCaptures
<1>11. ASSUME NEW p \in Programs, StreamRuns(p) PROVE AudioInv'
  BY <1>11, RunsStream, StillPlays, StillCaptures
<1>12. ASSUME NEW p \in Programs, StreamGoes(p) PROVE AudioInv'
  BY <1>12, GoesStream, StillPlays, StillCaptures
<1> QED
  BY <1>1, <1>2, <1>3, <1>4, <1>5, <1>6, <1>7, <1>8, <1>9, <1>10, <1>11, <1>12,
     <1>13 DEF AudioNext

LEMMA PlayShows ==
    ASSUME aud \in AudioStates, PlayInv(aud)
    PROVE  PlayedInOrder
<1> DEFINE all == <<aud.last>> \o aud.got
<1> SUFFICES ASSUME ~aud.raced, NEW i \in DOMAIN aud.got
             PROVE  /\ all[i + 1] > all[i] /\ all[i + 1] > aud.silenced
                    /\ ~aud.skipped => all[i + 1] = all[i] + 1
  BY DEF PlayedInOrder
<1>1. aud.got \in Seq(Nat) /\ aud.last \in Nat /\ aud.silenced \in Nat /\ i \in 1..Len(aud.got) /\ i \in Nat
      /\ Len(aud.got) \in Nat
  <2>1. aud.got \in Seq(Nat) /\ aud.last \in Nat /\ aud.silenced \in Nat /\ Len(aud.got) \in Nat
    BY PlayFields
  <2> QED BY <2>1
<1>2. PICK R \in Nat : PlayedTo(aud, R)
  BY DEF PlayInv
<1>3. aud.rt = "copying"
  <2>1. aud.got # << >> /\ aud.rt \in {"idle", "looking", "copying"}
    BY <1>1, PlayFields
  <2> QED BY <2>1 DEF PlayInv, PlayShape
<1>4. aud.last <= R /\ aud.silenced <= R /\ (~aud.skipped => aud.last = R)
      /\ \A j \in 1..Len(aud.got) : aud.got[j] = R + j
  BY <1>2, <1>3 DEF PlayedTo
<1>5. all[1] = aud.last /\ \A j \in 1..Len(aud.got) : all[j + 1] = aud.got[j]
  BY <1>1
<1> HIDE DEF all
<1>6. all[i + 1] = R + i
  BY <1>1, <1>4, <1>5
<1>7. CASE i = 1
  BY <1>1, <1>4, <1>5, <1>6, <1>7
<1>8. CASE i # 1
  <2>1. PICK j \in 1..Len(aud.got) : i = j + 1
    <3>1. i - 1 \in 1..Len(aud.got) /\ i = (i - 1) + 1
      BY <1>1, <1>8
    <3> QED BY <3>1
  <2>2. all[i] = R + j
    BY <1>4, <1>5, <2>1
  <2> QED BY <1>1, <1>4, <1>6, <2>1, <2>2
<1> QED BY <1>7, <1>8

LEMMA StreamsShow ==
    ASSUME StreamInv(aud)
    PROVE  DucksForOthers
<1>1. CASE aud.missed
  BY <1>1 DEF DucksForOthers
<1>2. CASE ~aud.missed
  <2>1. aud.runs \subseteq Members(aud.tracked)
    BY <1>2 DEF StreamInv
  <2> QED BY <2>1 DEF DucksForOthers, StreamInv
<1> QED BY <1>1, <1>2

(* Frames are played in the order they were submitted, the newest window is analysed, and *)
(* the daemon is silent exactly while another program plays (audio_fft.c:573, 780, 1550).  *)
THEOREM SamplesKeepOrder == AudioSpec => []SamplesInOrder
<1>1. AudioInit => AudioInv
  BY AudioStarts
<1>2. AudioInv /\ [AudioNext]_audioVars => AudioInv'
  <2> SUFFICES ASSUME AudioInv, [AudioNext]_audioVars PROVE AudioInv'
    OBVIOUS
  <2>1. CASE AudioNext
    BY <2>1, AudioKeeps
  <2>2. CASE UNCHANGED audioVars
    BY <2>2 DEF audioVars, AudioInv
  <2> QED BY <2>1, <2>2
<1>3. AudioInv => SamplesInOrder
  BY PlayShows, CaptureShows, StreamsShow DEF AudioInv, SamplesInOrder
<1> QED BY <1>1, <1>2, <1>3, PTL DEF AudioSpec

===============================================================================
