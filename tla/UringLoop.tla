------------------------------ MODULE UringLoop ------------------------------
(***************************************************************************)
(* The io_uring event loop of wwald (src/daemon/uring_loop.c): a table of  *)
(* slots, one per registered descriptor, each backed by one poll request   *)
(* in the kernel.  A completion names its slot by a tag made of the slot   *)
(* and of a generation that changes at every arm, so a completion left     *)
(* over from an earlier registration can be told from a current one.       *)
(*                                                                         *)
(* One thread runs everything.  It is either outside of                    *)
(* uring_loop_dispatch ("client"), blocked in io_uring_wait_cqe ("wait"),  *)
(* walking the completions ("scan"), or inside a callback ("handler"),     *)
(* which may add and remove polls and replace descriptors.  The kernel     *)
(* runs at any moment between those steps.                                 *)
(*                                                                         *)
(* A definition marked "seeded fault" is a plausible slip in the line of   *)
(* code the next definition models; put in its place it breaks the         *)
(* property PROJECT.json names, which shows that the property can fail.    *)
(*                                                                         *)
(* Bounds: MaxEnv caps what the outside world does (client calls,          *)
(* arrivals, injected faults).  Generations are 32 bits wide in the code;  *)
(* a wrap needs 2^32 arms of one slot while one of its completions is      *)
(* still unread, so they are natural numbers here.                         *)
(***************************************************************************)
EXTENDS Naturals, Sequences, FiniteSets

CONSTANTS Fds,             \* descriptor numbers
          Types, Wayland,  \* uring_event_type_t, and URING_EV_WAYLAND_READ
          Masks,           \* poll masks
          Interest,        \* the <<fd, type>> pairs clients register
          NumSlots,        \* WAYWAL_URING_MAX_HANDLERS
          SqDepth,         \* entries of the submission ring
          Kernels,         \* does the kernel know IORING_POLL_ADD_MULTI? (a set of answers)
          Faults,          \* subset of {"error", "again", "ends", "submit"}
          MaxEnv,          \* bound on the steps of the outside world
          None

ASSUME UringAssumption ==
    /\ Interest \subseteq Fds \X Types
    /\ Wayland \in Types
    /\ NumSlots \in Nat \ {0}
    /\ SqDepth \in Nat \ {0}
    /\ MaxEnv \in Nat
    /\ Kernels \subseteq BOOLEAN /\ Kernels # {}
    /\ Faults \subseteq {"error", "again", "ends", "submit"}
    /\ None \notin Fds /\ None \notin Types /\ None \notin Masks /\ None \notin Interest

SlotIds == 1..NumSlots

(* (uint64_t)gen << 32 | (idx + 1), and the zero tag of a request whose     *)
(* completion nobody wants.                                                *)
TagNextSlot(s, g) == [slot |-> s + 1, gen |-> g]          \* seeded fault
Tag(s, g) == [slot |-> s, gen |-> g]
NoTag     == [slot |-> 0, gen |-> 0]
Tags      == [slot : 0..NumSlots, gen : Nat]

VARIABLES
    slots,      \* loop->slots
    running,    \* loop->running
    multishot,  \* loop->multishot_supported
    sq,         \* submission entries prepared but not submitted
    kq,         \* entries submitted and not yet taken by the kernel
    kpolls,     \* poll requests armed in the kernel
    cq,         \* completions not yet consumed by io_uring_cq_advance
    disp,       \* where the thread is, and the locals of uring_loop_dispatch
    ready,      \* descriptors with something to read
    inc,        \* how often each descriptor number has been closed and reopened
    stale,      \* registered numbers whose file was replaced in this callback
    env         \* steps of the outside world so far

vars == <<slots, running, multishot, sq, kq, kpolls, cq, disp, ready, inc,
          stale, env>>
ringVars  == <<sq, kq>>
worldVars == <<ready, inc, stale, env>>

-----------------------------------------------------------------------------
(* Data.                                                                   *)

Vacant(g) == [active |-> FALSE, fd |-> None, type |-> None, mask |-> None,
              gen |-> g, tag |-> NoTag, multi |-> FALSE, inFlight |-> FALSE]

Slot == [active : BOOLEAN, fd : Fds \cup {None}, type : Types \cup {None},
         mask : Masks \cup {None}, gen : Nat, tag : Tags, multi : BOOLEAN,
         inFlight : BOOLEAN]

Sqe == [op : {"poll", "remove"}, fd : Fds, multi : BOOLEAN, tag : Tags]

(* fd and file of a completion are history: which descriptor, and which    *)
(* file behind it, the poll that produced it was armed on.                 *)
Cqe == [tag : Tags, fd : Fds, file : Nat, more : BOOLEAN,
        res : {"ready", "canceled", "again", "einval", "error"}]

KPoll == [tag : Tags, fd : Fds, file : Nat, multi : BOOLEAN, woken : BOOLEAN]

PollSqe(fd, multi, tag) ==
    [op |-> "poll", fd |-> fd, multi |-> multi, tag |-> tag]
RemoveSqe(fd, tag) ==
    [op |-> "remove", fd |-> fd, multi |-> FALSE, tag |-> tag]

-----------------------------------------------------------------------------
(* The submission side of liburing as the loop uses it.  q is a pair       *)
(* [sq, kq]; ok says whether io_uring_submit succeeds within this call.    *)

Queues == [sq |-> sq, kq |-> kq]
SetQueues(q) == sq' = q.sq /\ kq' = q.kq
SubmitOutcomes == IF "submit" \in Faults THEN BOOLEAN ELSE {TRUE}

Room(q)      == Len(q.sq) < SqDepth
Submit(q, ok) == IF ok THEN [sq |-> <<>>, kq |-> q.kq \o q.sq] ELSE q
Push(q, e)    == [sq |-> Append(q.sq, e), kq |-> q.kq]

(* io_uring_get_sqe; on a full ring submit once and ask again. *)
GetSqe(q, ok) == IF Room(q) THEN q ELSE Submit(q, ok)

(* Withdraw the poll with this tag: the request is given up if no entry    *)
(* can be had.                                                             *)
PollRemove(q, fd, tag, ok) ==
    LET g == GetSqe(q, ok)
    IN  IF Room(g) THEN Submit(Push(g, RemoveSqe(fd, tag)), ok) ELSE g

(* What uring_loop_add_poll and uring_loop_remove_poll do to the poll of a  *)
(* slot they take over.                                                    *)
WithdrawNothing(slot, ok) == Queues                        \* seeded fault
Withdraw(slot, ok) ==
    IF slot.inFlight THEN PollRemove(Queues, slot.fd, slot.tag, ok) ELSE Queues

(* The slot with a new generation, polling again. *)
ArmedSameGen(slot, s, fd, type, mask, multi) ==            \* seeded fault
    [active |-> TRUE, fd |-> fd, type |-> type, mask |-> mask, gen |-> slot.gen,
     tag |-> Tag(s, slot.gen), multi |-> multi, inFlight |-> TRUE]
Armed(slot, s, fd, type, mask, multi) ==
    [active |-> TRUE, fd |-> fd, type |-> type, mask |-> mask,
     gen |-> slot.gen + 1, tag |-> Tag(s, slot.gen + 1), multi |-> multi,
     inFlight |-> TRUE]

-----------------------------------------------------------------------------
Init ==
    /\ slots = [s \in SlotIds |-> Vacant(0)]
    /\ running = TRUE
    /\ multishot = TRUE
    /\ sq = <<>> /\ kq = <<>> /\ kpolls = {} /\ cq = <<>>
    /\ disp = [pc |-> "client", pass |-> 0, pos |-> 1, count |-> 0,
               snap |-> 0, done |-> FALSE, tag |-> NoTag, who |-> None]
    /\ ready = {}
    /\ inc = [fd \in Fds |-> 0]
    /\ stale = {}
    /\ env = 0

Spend == env < MaxEnv /\ env' = env + 1

(* Clients call the loop before dispatching and from callbacks. *)
ClientRuns == disp.pc \in {"client", "handler"}

Registered(fd) == \E s \in SlotIds : slots[s].active /\ slots[s].fd = fd

-----------------------------------------------------------------------------
(* uring_loop_add_poll.  A second registration with the same mask while    *)
(* the poll is in flight returns at once and is not a step.  The daemon    *)
(* never registers one descriptor under two event kinds.                   *)

Matching(fd, type) ==
    {s \in SlotIds : slots[s].active /\ slots[s].fd = fd /\ slots[s].type = type}
FreeSlots == {s \in SlotIds : ~slots[s].active}

AddTarget(fd, type) ==
    IF Matching(fd, type) # {} THEN Matching(fd, type) ELSE FreeSlots

AddPoll(fd, type, mask) ==
    /\ ClientRuns
    /\ <<fd, type>> \in Interest
    /\ Matching(fd, type) = {} => ~Registered(fd)
    /\ Spend
    /\ \E s \in AddTarget(fd, type), ok \in SubmitOutcomes :
        LET slot  == slots[s]
            again == slot.active /\ slot.inFlight
            q2    == GetSqe(Withdraw(slot, ok), ok)
            new   == Armed(slot, s, fd, type, mask, multishot)
            sent  == Push(q2, PollSqe(fd, multishot, new.tag))
        IN  /\ \A t \in AddTarget(fd, type) : s <= t
            /\ again => slot.mask # mask
            /\ \/ /\ ~Room(q2)      \* "submission queue full"
                  /\ slots' = [slots EXCEPT ![s] =
                        IF again THEN [slot EXCEPT !.inFlight = FALSE, !.tag = NoTag]
                        ELSE slot]
                  /\ SetQueues(q2)
               \/ /\ Room(q2) /\ ok
                  /\ slots' = [slots EXCEPT ![s] = new]
                  /\ SetQueues(Submit(sent, TRUE))
               \/ /\ Room(q2) /\ ~ok \* io_uring_submit failed: only gen survives
                  /\ slots' = [slots EXCEPT ![s] = Vacant(new.gen)]
                  /\ SetQueues(sent)
    /\ UNCHANGED <<running, multishot, kpolls, cq, disp, ready, inc, stale>>

(* uring_loop_remove_poll: the slot is freed first, then the kernel's poll *)
(* is withdrawn.                                                           *)
RemovePoll(fd) ==
    /\ ClientRuns
    /\ IF fd \in stale THEN UNCHANGED env ELSE Spend
    /\ \E s \in SlotIds, ok \in SubmitOutcomes :
        /\ slots[s].active /\ slots[s].fd = fd
        /\ slots' = [slots EXCEPT ![s] = Vacant(slots[s].gen)]
        /\ SetQueues(Withdraw(slots[s], ok))
    /\ stale' = stale \ {fd}
    /\ UNCHANGED <<running, multishot, kpolls, cq, disp, ready, inc>>

(* A client closes a descriptor and the same number comes back for another *)
(* file.  The number may still be registered: the power governor           *)
(* reconnects before the daemon, which sees ipc_reconnected, removes and   *)
(* re-adds the poll later in the same callback.                            *)
Reopen(fd) ==
    /\ ClientRuns
    /\ Spend
    /\ Registered(fd) => disp.pc = "handler"
    /\ inc' = [inc EXCEPT ![fd] = @ + 1]
    /\ stale' = IF Registered(fd) THEN stale \cup {fd} ELSE stale
    /\ ready' = ready \ {fd}
    /\ kpolls' = {[p EXCEPT !.woken = p.woken \/ p.fd = fd] : p \in kpolls}
    /\ UNCHANGED <<slots, running, multishot, sq, kq, cq, disp>>

(* uring_loop_stop, called from the signal and KILL handlers. *)
Stop ==
    /\ disp.pc = "handler"
    /\ running
    /\ running' = FALSE
    /\ UNCHANGED <<slots, multishot, sq, kq, kpolls, cq, disp, worldVars>>

-----------------------------------------------------------------------------
(* uring_loop_dispatch.                                                    *)

Enter ==
    /\ disp.pc = "client"
    /\ running
    /\ disp' = [disp EXCEPT !.pc = "wait", !.done = FALSE]
    /\ UNCHANGED <<slots, running, multishot, sq, kq, kpolls, cq, worldVars>>

WaitCqe ==
    /\ disp.pc = "wait"
    /\ cq # <<>>
    /\ disp' = [disp EXCEPT !.pc = "scan", !.pass = 0, !.pos = 1,
                            !.snap = Len(cq), !.count = 0]
    /\ UNCHANGED <<slots, running, multishot, sq, kq, kpolls, cq, worldVars>>

(* io_uring_wait_cqe came back with -EINTR. *)
Interrupted ==
    /\ disp.pc = "wait"
    /\ cq = <<>>
    /\ disp' = [disp EXCEPT !.pc = "client"]
    /\ UNCHANGED <<slots, running, multishot, sq, kq, kpolls, cq, worldVars>>

(* The tag names an active slot and is that slot's current one. *)
LiveSlot(c) == c.tag # NoTag /\ slots[c.tag.slot].active  \* seeded fault
LiveAny(c)  == c.tag # NoTag                              \* seeded fault
Live(c) == /\ c.tag # NoTag
           /\ slots[c.tag.slot].active
           /\ slots[c.tag.slot].tag = c.tag

(* Wayland completions in the first pass, all others in the second. *)
Mine(c) == Live(c) /\ (slots[c.tag.slot].type = Wayland <=> disp.pass = 0)

InScan == /\ disp.pc = "scan"
          /\ disp.pos <= (IF disp.pass = 0 THEN Len(cq) ELSE disp.count)
Cur    == cq[disp.pos]
Onward == disp' = [disp EXCEPT !.pc = "scan", !.pos = @ + 1]

(* A completion without IORING_CQE_F_MORE ends the request. *)
CompletedNever(slot, more) == slot                        \* seeded fault
Completed(slot, more) == [slot EXCEPT !.inFlight = slot.inFlight /\ more]

Skip ==
    /\ InScan
    /\ ~Mine(Cur)
    /\ Onward
    /\ UNCHANGED <<slots, running, multishot, sq, kq, kpolls, cq, worldVars>>

(* The tail of the loop body: re-arm if the slot is still the one the      *)
(* completion named and nothing is in flight for it.  The entry is         *)
(* submitted with whatever is submitted next.                              *)
MayRearmOneshot(slot, tag) ==                              \* seeded fault
    slot.active /\ slot.tag = tag /\ running /\ ~slot.inFlight /\ ~slot.multi
MayRearmMulti(slot, tag) ==                                \* seeded fault
    slot.active /\ slot.tag = tag /\ running /\ ~slot.inFlight /\ slot.multi
MayRearm(slot, tag) ==
    slot.active /\ slot.tag = tag /\ running /\ ~slot.inFlight

Rearm(tab, tag) ==
    LET s    == tag.slot
        slot == tab[s]
    IN  IF MayRearm(slot, tag)
        THEN \E ok \in SubmitOutcomes :
                LET q   == GetSqe(Queues, ok)
                    new == Armed(slot, s, slot.fd, slot.type, slot.mask, slot.multi)
                IN  IF Room(q)
                    THEN /\ slots' = [tab EXCEPT ![s] = new]
                         /\ SetQueues(Push(q, PollSqe(slot.fd, slot.multi, new.tag)))
                    ELSE slots' = tab /\ SetQueues(q)
        ELSE slots' = tab /\ UNCHANGED ringVars

(* A completion with -ECANCELED answers a withdrawal of this loop, and the  *)
(* slot has dropped the tag by then (CanceledIsStale), so the branch that   *)
(* handles it on a live slot is never entered and Skip passes over it.      *)

(* -EINTR and -EAGAIN. *)
Again ==
    /\ InScan /\ Mine(Cur) /\ Cur.res = "again"
    /\ Rearm([slots EXCEPT ![Cur.tag.slot] = Completed(@, Cur.more)], Cur.tag)
    /\ Onward
    /\ UNCHANGED <<running, multishot, kpolls, cq, worldVars>>

(* -EINVAL of a multishot poll: the kernel does not know it. *)
FallBack ==
    /\ InScan /\ Mine(Cur) /\ Cur.res = "einval" /\ slots[Cur.tag.slot].multi
    /\ multishot' = FALSE
    /\ Rearm([slots EXCEPT ![Cur.tag.slot].multi = FALSE,
                           ![Cur.tag.slot].inFlight = FALSE], Cur.tag)
    /\ Onward
    /\ UNCHANGED <<running, kpolls, cq, worldVars>>

(* Any other error: without IORING_CQE_F_MORE the registration is dropped. *)
Drop ==
    /\ InScan /\ Mine(Cur)
    /\ Cur.res = "error" \/ (Cur.res = "einval" /\ ~slots[Cur.tag.slot].multi)
    /\ slots' = IF Cur.more THEN slots
                ELSE [slots EXCEPT ![Cur.tag.slot] = Vacant(@.gen)]
    /\ Onward
    /\ UNCHANGED <<running, multishot, sq, kq, kpolls, cq, worldVars>>

(* The callback starts; it reads everything there is to read. *)
Deliver ==
    /\ InScan /\ Mine(Cur) /\ Cur.res = "ready"
    /\ slots' = [slots EXCEPT ![Cur.tag.slot] = Completed(@, Cur.more)]
    /\ disp' = [disp EXCEPT !.pc = "handler", !.done = TRUE, !.tag = Cur.tag,
                   !.who = <<slots[Cur.tag.slot].fd, slots[Cur.tag.slot].type>>]
    /\ ready' = ready \ {slots[Cur.tag.slot].fd}
    /\ UNCHANGED <<running, multishot, sq, kq, kpolls, cq, inc, stale, env>>

HandlerReturns ==
    /\ disp.pc = "handler"
    /\ stale = {}
    /\ Rearm(slots, disp.tag)
    /\ disp' = [disp EXCEPT !.pc = "scan", !.pos = @ + 1,
                            !.tag = NoTag, !.who = None]
    /\ UNCHANGED <<running, multishot, kpolls, cq, worldVars>>

(* The first pass ends at the tail read when it began, or at a later one,  *)
(* as the installed liburing re-reads it or not.                           *)
EndFirstPass ==
    /\ disp.pc = "scan" /\ disp.pass = 0 /\ disp.pos > disp.snap
    /\ disp' = [disp EXCEPT !.pass = 1, !.pos = 1, !.count = disp.pos - 1]
    /\ UNCHANGED <<slots, running, multishot, sq, kq, kpolls, cq, worldVars>>

EndBatch ==
    /\ disp.pc = "scan" /\ disp.pass = 1 /\ disp.pos > disp.count
    /\ cq' = SubSeq(cq, disp.count + 1, Len(cq))
    /\ \E ok \in SubmitOutcomes : SetQueues(Submit(Queues, ok))
    /\ disp' = [disp EXCEPT !.pc = IF disp.done \/ ~running THEN "client" ELSE "wait",
                            !.pass = 0, !.pos = 1, !.count = 0, !.snap = 0]
    /\ UNCHANGED <<slots, running, multishot, kpolls, worldVars>>

-----------------------------------------------------------------------------
(* The kernel, and the world behind the descriptors.                       *)

Complete(tag, fd, file, res, more) ==
    [tag |-> tag, fd |-> fd, file |-> file, res |-> res, more |-> more]

(* Take a submitted poll: refuse it, complete it at once, or arm it. *)
KernelPoll ==
    /\ kq # <<>> /\ Head(kq).op = "poll"
    /\ kq' = Tail(kq)
    /\ LET e == Head(kq)
           poll == [tag |-> e.tag, fd |-> e.fd, file |-> inc[e.fd],
                    multi |-> e.multi, woken |-> FALSE]
           Post(res, more) ==
               cq' = Append(cq, Complete(e.tag, e.fd, inc[e.fd], res, more))
       IN \/ /\ e.multi /\ FALSE \in Kernels
             /\ Post("einval", FALSE)
             /\ UNCHANGED <<kpolls, env>>
          \/ /\ e.multi => TRUE \in Kernels
             /\ IF e.fd \in ready THEN Post("ready", e.multi) ELSE UNCHANGED cq
             /\ kpolls' = IF e.fd \in ready /\ ~e.multi THEN kpolls
                          ELSE kpolls \cup {poll}
             /\ UNCHANGED env
          \/ /\ e.multi => TRUE \in Kernels
             /\ Spend
             /\ \E res \in Faults \cap {"error", "again"} : Post(res, FALSE)
             /\ UNCHANGED kpolls
    /\ UNCHANGED <<slots, running, multishot, sq, disp, ready, inc, stale>>

(* Take a withdrawal: the poll it names, if still armed, ends with         *)
(* -ECANCELED; the request itself completes with tag 0.                    *)
KernelRemove ==
    /\ kq # <<>> /\ Head(kq).op = "remove"
    /\ kq' = Tail(kq)
    /\ LET e     == Head(kq)
           found == {p \in kpolls : p.tag = e.tag}
           done  == Complete(NoTag, e.fd, inc[e.fd], "ready", FALSE)
       IN /\ kpolls' = kpolls \ found
          /\ cq' = IF found = {} THEN Append(cq, done)
                   ELSE Append(Append(cq, Complete(e.tag, e.fd, inc[e.fd],
                                                   "canceled", FALSE)), done)
    /\ UNCHANGED <<slots, running, multishot, sq, disp, worldVars>>

(* Wake-ups that came together become one completion, and only if the file *)
(* still polls ready (a closed file polls as hung up).  The kernel may end *)
(* a multishot poll with it when the completion ring is full.              *)
KernelWake ==
    /\ \E p \in kpolls :
        /\ p.woken
        /\ IF p.fd \in ready \/ p.file # inc[p.fd]
           THEN \E more \in IF ~p.multi THEN {FALSE}
                            ELSE IF "ends" \in Faults THEN BOOLEAN ELSE {TRUE} :
                  /\ cq' = Append(cq, Complete(p.tag, p.fd, p.file, "ready", more))
                  /\ kpolls' = (kpolls \ {p}) \cup
                               {[q EXCEPT !.woken = FALSE] : q \in {r \in {p} : more}}
                  /\ IF p.multi /\ ~more THEN Spend ELSE UNCHANGED env
           ELSE /\ kpolls' = (kpolls \ {p}) \cup {[p EXCEPT !.woken = FALSE]}
                /\ UNCHANGED <<cq, env>>
    /\ UNCHANGED <<slots, running, multishot, sq, kq, disp, ready, inc, stale>>

(* Something to read arrives on a descriptor. *)
Arrive(fd) ==
    /\ Spend
    /\ ready' = ready \cup {fd}
    /\ kpolls' = {[p EXCEPT !.woken = p.woken \/ (p.fd = fd /\ p.file = inc[fd])] :
                    p \in kpolls}
    /\ UNCHANGED <<slots, running, multishot, sq, kq, cq, disp, inc, stale>>

-----------------------------------------------------------------------------
ClientStep == \/ \E fd \in Fds, type \in Types, mask \in Masks : AddPoll(fd, type, mask)
              \/ \E fd \in Fds : RemovePoll(fd) \/ Reopen(fd)
              \/ Stop
Dispatch   == \/ WaitCqe \/ Skip \/ Again \/ FallBack \/ Drop
              \/ Deliver \/ HandlerReturns \/ EndFirstPass \/ EndBatch
Kernel     == KernelPoll \/ KernelRemove \/ KernelWake

Next == ClientStep \/ Enter \/ Interrupted \/ Dispatch \/ Kernel \/ \E fd \in Fds : Arrive(fd)

(* The thread keeps running: the daemon's main loop calls dispatch again   *)
(* as soon as it returns, callbacks return, and a callback that replaced a *)
(* descriptor re-registers it.  The kernel works off what was submitted.   *)
Fairness == /\ WF_vars(Enter)
            /\ WF_vars(Dispatch)
            /\ WF_vars(disp.pc = "handler" /\ \E fd \in stale : RemovePoll(fd))
            /\ WF_vars(Kernel)

Spec     == Init /\ [][Next]_vars
FairSpec == Spec /\ Fairness

-----------------------------------------------------------------------------
(* Properties.                                                             *)

Range(q) == {q[i] : i \in DOMAIN q}

DispState == [pc : {"client", "wait", "scan", "handler"}, pass : 0..1,
              pos : Nat \ {0}, count : Nat, snap : Nat, done : BOOLEAN,
              tag : Tags, who : Interest \cup {None}]

TypeOK ==
    /\ slots \in [SlotIds -> Slot]
    /\ running \in BOOLEAN /\ multishot \in BOOLEAN
    /\ sq \in Seq(Sqe) /\ kq \in Seq(Sqe) /\ cq \in Seq(Cqe)
    /\ kpolls \in SUBSET KPoll
    /\ disp \in DispState
    /\ ready \in SUBSET Fds /\ stale \in SUBSET Fds
    /\ inc \in [Fds -> Nat] /\ env \in Nat

(* What stands behind a tag: a poll on its way to the kernel or armed in    *)
(* it, or a completion that ends it and is still in the ring.              *)
Backed(t) ==
    \/ \E e \in Range(sq) \cup Range(kq) : e.op = "poll" /\ e.tag = t
    \/ \E p \in kpolls : p.tag = t
    \/ \E c \in Range(cq) : c.tag = t /\ ~c.more

(* A slot that says its poll is in flight is backed by one: in_flight is   *)
(* what stops uring_loop_add_poll and the re-arm from polling again, so a  *)
(* flag that lies silences the descriptor for good.                        *)
InFlightBacked ==
    \A s \in SlotIds : slots[s].inFlight => Backed(slots[s].tag)

(* Between batches every registered descriptor has its poll in flight: no  *)
(* registration goes deaf while the loop sleeps.                           *)
NoDeafSlot ==
    disp.pc \in {"client", "wait"} /\ running =>
        \A s \in SlotIds : slots[s].active => slots[s].inFlight

(* A poll in the kernel belongs to the current registration of its slot,   *)
(* or its withdrawal is queued: a forgotten multishot poll would hold the  *)
(* closed file open and wake the daemon for nobody.                        *)
NoOrphanPoll ==
    \A p \in kpolls :
        \/ slots[p.tag.slot].active /\ slots[p.tag.slot].tag = p.tag
        \/ \E e \in Range(sq) \cup Range(kq) : e.op = "remove" /\ e.tag = p.tag

(* A withdrawn poll never ends a live one: by the time -ECANCELED is posted *)
(* no slot holds the tag, so no registration loses its poll to the removal *)
(* of an earlier one.                                                      *)
CanceledIsStale ==
    \A c \in Range(cq) : c.res = "canceled" => ~Live(c)

(* The callback of a descriptor runs only on a completion of the file that *)
(* is behind that descriptor now, never on one left over from a file that  *)
(* had the same number or from another owner of the slot.                  *)
DeliveryStep ==
    disp.pc = "scan" /\ disp'.pc = "handler" =>
        disp'.who[1] = Cur.fd /\ Cur.file = inc[Cur.fd]

DeliveryIsCurrent == [][DeliveryStep]_vars

(* A registered descriptor with something to read is eventually read or    *)
(* unregistered, unless the loop stops.                                    *)
ReadyServed ==
    \A fd \in Fds : (fd \in ready /\ Registered(fd) /\ running) ~>
                        (fd \notin ready \/ ~Registered(fd) \/ ~running)

(* The inductive invariant behind CanceledIsStale, DeliveryIsCurrent and    *)
(* the refinement.  A slot's tag, when it has one, carries the slot's own  *)
(* current generation; whatever is on its way with a slot's tag is of that *)
(* generation or older, and if it carries the current tag it is a poll on  *)
(* the slot's descriptor.                                                  *)
SlotInv ==
    \A s \in SlotIds :
        /\ slots[s].active => <<slots[s].fd, slots[s].type>> \in Interest
        /\ slots[s].inFlight => slots[s].tag # NoTag
        /\ slots[s].tag # NoTag => slots[s].active /\ slots[s].tag = Tag(s, slots[s].gen)

(* No descriptor has two registrations. *)
OneSlotPerFd ==
    \A s, t \in SlotIds :
        slots[s].active /\ slots[t].active /\ slots[s].fd = slots[t].fd => s = t

Pending(q) == Range(q.sq) \cup Range(q.kq)

NotAhead(t)      == t.slot \in SlotIds /\ t.gen <= slots[t.slot].gen
Current(t)       == slots[t.slot].tag = t
OnFile(fd, file) == file = inc[fd] \/ fd \in stale

EntryInv ==
    \A e \in Pending(Queues) :
        /\ NotAhead(e.tag)
        /\ Current(e.tag) => e.op = "poll" /\ slots[e.tag.slot].fd = e.fd

PollInv ==
    \A p \in kpolls :
        /\ NotAhead(p.tag)
        /\ Current(p.tag) => slots[p.tag.slot].fd = p.fd /\ OnFile(p.fd, p.file)

CompletionInv ==
    \A c \in Range(cq) : c.tag # NoTag =>
        /\ NotAhead(c.tag)
        /\ Current(c.tag) => /\ c.res # "canceled"
                             /\ slots[c.tag.slot].fd = c.fd
                             /\ OnFile(c.fd, c.file)

CallbackInv ==
    /\ disp.pc = "handler" <=> disp.who # None
    /\ disp.pc = "handler" => NotAhead(disp.tag)
    /\ disp.pc # "handler" => stale = {}

ScanInv ==
    /\ disp.pc \in {"scan", "handler"} /\ disp.pass = 0 => disp.pos <= Len(cq) + 1
    /\ disp.pc = "handler" /\ disp.pass = 0 => disp.pos <= Len(cq)
    /\ disp.pass = 1 => disp.count <= Len(cq)

TagInv == /\ TypeOK /\ SlotInv /\ OneSlotPerFd /\ EntryInv
          /\ PollInv /\ CompletionInv /\ CallbackInv /\ ScanInv

(* The loop implements the contract of EventLoop. *)
Regs == {<<slots[s].fd, slots[s].type>> : s \in {t \in SlotIds : slots[t].active}}

Loop == INSTANCE EventLoop WITH regs <- Regs, calling <- disp.who

RefinesEventLoop == Loop!Spec
=============================================================================
