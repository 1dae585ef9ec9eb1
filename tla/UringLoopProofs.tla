--------------------------- MODULE UringLoopProofs ---------------------------
(***************************************************************************)
(* Theorems about UringLoop, for every table size, ring size, descriptor   *)
(* set and fault set: the tag invariant, that a withdrawn poll never ends  *)
(* a live one, that a callback only runs for the file its poll was armed   *)
(* on, and that the loop implements EventLoop.                             *)
(***************************************************************************)
EXTENDS UringLoop, TLAPS

(* Sequences as the queues of the loop use them. *)

LEMMA RangeEmpty == Range(<<>>) = {}
BY DEF Range

LEMMA RangeAppend ==
    ASSUME NEW S, NEW q \in Seq(S), NEW e \in S
    PROVE  Append(q, e) \in Seq(S) /\ Range(Append(q, e)) = Range(q) \cup {e}
<1>1. Append(q, e) \in Seq(S) /\ DOMAIN Append(q, e) = 1..(Len(q) + 1)
  OBVIOUS
<1>2. \A i \in DOMAIN q : Append(q, e)[i] = q[i] /\ i \in DOMAIN Append(q, e)
  OBVIOUS
<1>3. Append(q, e)[Len(q) + 1] = e /\ Len(q) + 1 \in DOMAIN Append(q, e)
  OBVIOUS
<1>4. \A i \in DOMAIN Append(q, e) : i \in DOMAIN q \/ i = Len(q) + 1
  BY <1>1
<1> QED BY <1>1, <1>2, <1>3, <1>4 DEF Range

LEMMA RangeConcat ==
    ASSUME NEW S, NEW q \in Seq(S), NEW r \in Seq(S)
    PROVE  q \o r \in Seq(S) /\ Range(q \o r) = Range(q) \cup Range(r)
<1>1. q \o r \in Seq(S) /\ Len(q \o r) = Len(q) + Len(r)
  OBVIOUS
<1>2. \A i \in DOMAIN q : (q \o r)[i] = q[i] /\ i \in DOMAIN (q \o r)
  BY <1>1
<1>3. \A i \in DOMAIN r : (q \o r)[Len(q) + i] = r[i] /\ Len(q) + i \in DOMAIN (q \o r)
  BY <1>1
<1>4. \A i \in DOMAIN (q \o r) :
        (q \o r)[i] \in Range(q) \/ (q \o r)[i] \in Range(r)
  <2> TAKE i \in DOMAIN (q \o r)
  <2>1. CASE i <= Len(q)
    BY <2>1, <1>1, <1>2 DEF Range
  <2>2. CASE i > Len(q)
    <3>1. i - Len(q) \in DOMAIN r
      BY <2>2, <1>1
    <3> QED BY <3>1, <1>3, <1>1 DEF Range
  <2> QED BY <2>1, <2>2, <1>1
<1>5. Range(q) \subseteq Range(q \o r)
  BY <1>2 DEF Range
<1>6. Range(r) \subseteq Range(q \o r)
  BY <1>3 DEF Range
<1>7. Range(q \o r) \subseteq Range(q) \cup Range(r)
  BY <1>4 DEF Range
<1> QED BY <1>1, <1>5, <1>6, <1>7

LEMMA RangeTail ==
    ASSUME NEW S, NEW q \in Seq(S), q # <<>>
    PROVE  /\ Tail(q) \in Seq(S) /\ Range(Tail(q)) \subseteq Range(q)
           /\ Head(q) \in Range(q) /\ Head(q) \in S
<1>1. Len(q) > 0 /\ Tail(q) \in Seq(S) /\ Len(Tail(q)) = Len(q) - 1
  OBVIOUS
<1>2. \A i \in DOMAIN Tail(q) : Tail(q)[i] = q[i + 1] /\ i + 1 \in DOMAIN q
  BY <1>1
<1>3. Head(q) = q[1] /\ 1 \in DOMAIN q
  BY <1>1
<1> QED BY <1>1, <1>2, <1>3 DEF Range

LEMMA RangeSubSeq ==
    ASSUME NEW S, NEW q \in Seq(S), NEW n \in Nat
    PROVE  /\ SubSeq(q, n + 1, Len(q)) \in Seq(S)
           /\ Range(SubSeq(q, n + 1, Len(q))) \subseteq Range(q)
<1> DEFINE r == SubSeq(q, n + 1, Len(q))
<1>1. r \in Seq(S) /\ Len(r) = IF n + 1 <= Len(q) THEN Len(q) - n ELSE 0
  OBVIOUS
<1>2. \A i \in 1..Len(r) : r[i] = q[n + i] /\ n + i \in DOMAIN q
  BY <1>1
<1> HIDE DEF r
<1>3. r \in Seq(S) /\ Range(r) \subseteq Range(q)
  BY <1>1, <1>2 DEF Range
<1> QED BY <1>3 DEF r

LEMMA RangeIn == ASSUME NEW S, NEW q \in Seq(S) PROVE Range(q) \subseteq S
BY DEF Range

-----------------------------------------------------------------------------
(* The submission side: nothing that is pending is lost or invented.       *)

QueuePair == [sq : Seq(Sqe), kq : Seq(Sqe)]

LEMMA SubmitPending ==
    ASSUME NEW q \in QueuePair, NEW ok \in BOOLEAN
    PROVE  Submit(q, ok) \in QueuePair /\ Pending(Submit(q, ok)) = Pending(q)
<1>1. CASE ok
  <2>1. q.sq \in Seq(Sqe) /\ q.kq \in Seq(Sqe)
    BY DEF QueuePair
  <2>2. q.kq \o q.sq \in Seq(Sqe) /\ Range(q.kq \o q.sq) = Range(q.kq) \cup Range(q.sq)
    BY <2>1, RangeConcat
  <2>3. Submit(q, ok) = [sq |-> <<>>, kq |-> q.kq \o q.sq]
    BY <1>1 DEF Submit
  <2> QED BY <2>2, <2>3, RangeEmpty DEF QueuePair, Pending
<1>2. CASE ~ok
  BY <1>2 DEF Submit
<1> QED BY <1>1, <1>2

LEMMA PushPending ==
    ASSUME NEW q \in QueuePair, NEW e \in Sqe
    PROVE  Push(q, e) \in QueuePair /\ Pending(Push(q, e)) = Pending(q) \cup {e}
<1>1. q.sq \in Seq(Sqe) /\ q.kq \in Seq(Sqe)
  BY DEF QueuePair
<1>2. Append(q.sq, e) \in Seq(Sqe) /\ Range(Append(q.sq, e)) = Range(q.sq) \cup {e}
  BY <1>1, RangeAppend
<1>3. Push(q, e) = [sq |-> Append(q.sq, e), kq |-> q.kq]
  BY DEF Push
<1> QED BY <1>1, <1>2, <1>3 DEF QueuePair, Pending

LEMMA GetSqePending ==
    ASSUME NEW q \in QueuePair, NEW ok \in BOOLEAN
    PROVE  GetSqe(q, ok) \in QueuePair /\ Pending(GetSqe(q, ok)) = Pending(q)
BY SubmitPending DEF GetSqe

LEMMA PollRemovePending ==
    ASSUME NEW q \in QueuePair, NEW ok \in BOOLEAN, NEW fd \in Fds, NEW t \in Tags
    PROVE  /\ PollRemove(q, fd, t, ok) \in QueuePair
           /\ Pending(PollRemove(q, fd, t, ok)) \subseteq Pending(q) \cup {RemoveSqe(fd, t)}
<1> DEFINE g == GetSqe(q, ok)
<1>1. g \in QueuePair /\ Pending(g) = Pending(q)
  BY GetSqePending
<1>2. RemoveSqe(fd, t) \in Sqe
  BY DEF RemoveSqe, Sqe
<1>3. /\ Push(g, RemoveSqe(fd, t)) \in QueuePair
      /\ Pending(Push(g, RemoveSqe(fd, t))) = Pending(q) \cup {RemoveSqe(fd, t)}
  BY <1>1, <1>2, PushPending
<1>4. /\ Submit(Push(g, RemoveSqe(fd, t)), ok) \in QueuePair
      /\ Pending(Submit(Push(g, RemoveSqe(fd, t)), ok)) = Pending(q) \cup {RemoveSqe(fd, t)}
  BY <1>3, SubmitPending
<1> QED BY <1>1, <1>4 DEF PollRemove

LEMMA WithdrawPending ==
    ASSUME TypeOK, SlotInv, NEW s \in SlotIds, slots[s].active, NEW ok \in BOOLEAN
    PROVE  /\ Withdraw(slots[s], ok) \in QueuePair
           /\ Pending(Withdraw(slots[s], ok)) \subseteq
                Pending(Queues) \cup {RemoveSqe(slots[s].fd, slots[s].tag)}
<1>1. Queues \in QueuePair
  BY DEF TypeOK, Queues, QueuePair
<1>2. slots[s].fd \in Fds /\ slots[s].tag \in Tags
  BY UringAssumption DEF TypeOK, SlotInv, Slot
<1> QED BY <1>1, <1>2, PollRemovePending DEF Withdraw

LEMMA WithdrawIdle ==
    ASSUME NEW slot, ~slot.inFlight, NEW ok
    PROVE  Withdraw(slot, ok) = Queues
BY DEF Withdraw

(* None is no interest. *)
LEMMA NoneFresh == \A i \in Interest : i # None
BY UringAssumption

LEMMA OutcomeBoolean == SubmitOutcomes \subseteq BOOLEAN
BY DEF SubmitOutcomes

-----------------------------------------------------------------------------
(* How the slot table moves in one step, and why whatever is on its way    *)
(* with an old tag keeps its meaning.                                      *)

SlotsAdvance ==
    \A s \in SlotIds :
        /\ slots'[s].gen >= slots[s].gen
        /\ \/ slots'[s].tag = slots[s].tag /\ slots'[s].fd = slots[s].fd
           \/ slots'[s].tag = NoTag
           \/ slots'[s].tag = Tag(s, slots[s].gen + 1)

(* The file behind a slot that keeps its tag stays the one it was. *)
KeepsFiles ==
    \A s \in SlotIds, fd \in Fds, file \in Nat :
        /\ slots[s].tag # NoTag /\ slots'[s].tag = slots[s].tag
        /\ slots[s].fd = fd /\ OnFile(fd, file)
        => OnFile(fd, file)'

LEMMA AdvanceTag ==
    ASSUME TypeOK, TypeOK', SlotsAdvance, NEW t \in Tags, NotAhead(t)
    PROVE  /\ NotAhead(t)'
           /\ Current(t)' => /\ Current(t) /\ slots[t.slot].tag # NoTag
                             /\ slots'[t.slot].tag = slots[t.slot].tag
                             /\ slots'[t.slot].fd = slots[t.slot].fd
<1> DEFINE s == t.slot
<1>1. s \in SlotIds /\ s # 0 /\ t.gen \in Nat
  BY DEF NotAhead, SlotIds, Tags
<1>2. slots[s].gen \in Nat /\ slots'[s].gen \in Nat
  BY <1>1 DEF TypeOK, Slot
<1>3. slots'[s].gen >= slots[s].gen /\ t.gen <= slots[s].gen
  BY <1>1 DEF SlotsAdvance, NotAhead
<1>4. NotAhead(t)'
  BY <1>1, <1>2, <1>3 DEF NotAhead
<1>5. t # NoTag
  BY <1>1 DEF NoTag
<1>6. t # Tag(s, slots[s].gen + 1)
  BY <1>1, <1>2, <1>3 DEF Tag
<1>7. \/ slots'[s].tag = slots[s].tag /\ slots'[s].fd = slots[s].fd
      \/ slots'[s].tag = NoTag
      \/ slots'[s].tag = Tag(s, slots[s].gen + 1)
  BY <1>1 DEF SlotsAdvance
<1> QED BY <1>4, <1>5, <1>6, <1>7 DEF Current

LEMMA CarryEntries ==
    ASSUME TagInv, TypeOK', SlotsAdvance, NEW e \in Pending(Queues)
    PROVE  /\ NotAhead(e.tag)'
           /\ Current(e.tag)' => e.op = "poll" /\ slots'[e.tag.slot].fd = e.fd
<1>1. e \in Sqe
  BY RangeIn DEF Pending, Queues, TagInv, TypeOK
<1>2. e.tag \in Tags /\ NotAhead(e.tag)
  BY <1>1 DEF Sqe, TagInv, EntryInv
<1>3. Current(e.tag) => e.op = "poll" /\ slots[e.tag.slot].fd = e.fd
  BY DEF TagInv, EntryInv
<1> QED BY <1>2, <1>3, AdvanceTag DEF TagInv

LEMMA CarryPolls ==
    ASSUME TagInv, TypeOK', SlotsAdvance, KeepsFiles, NEW p \in kpolls
    PROVE  /\ NotAhead(p.tag)'
           /\ Current(p.tag)' => slots'[p.tag.slot].fd = p.fd /\ OnFile(p.fd, p.file)'
<1>1. p \in KPoll
  BY DEF TagInv, TypeOK
<1>2. p.tag \in Tags /\ p.file \in Nat /\ p.fd \in Fds /\ NotAhead(p.tag)
  BY <1>1 DEF KPoll, TagInv, PollInv
<1>3. Current(p.tag) => slots[p.tag.slot].fd = p.fd /\ OnFile(p.fd, p.file)
  BY DEF TagInv, PollInv
<1>4. p.tag.slot \in SlotIds
  BY <1>2 DEF NotAhead
<1> QED BY <1>2, <1>3, <1>4, AdvanceTag DEF TagInv, KeepsFiles

LEMMA CarryCompletions ==
    ASSUME TagInv, TypeOK', SlotsAdvance, KeepsFiles, NEW c \in Range(cq), c.tag # NoTag
    PROVE  /\ NotAhead(c.tag)'
           /\ Current(c.tag)' => /\ c.res # "canceled"
                                 /\ slots'[c.tag.slot].fd = c.fd
                                 /\ OnFile(c.fd, c.file)'
<1>1. c \in Cqe
  BY RangeIn DEF TagInv, TypeOK
<1>2. c.tag \in Tags /\ c.file \in Nat /\ c.fd \in Fds /\ NotAhead(c.tag)
  BY <1>1 DEF Cqe, TagInv, CompletionInv
<1>3. Current(c.tag) => /\ c.res # "canceled" /\ slots[c.tag.slot].fd = c.fd
                        /\ OnFile(c.fd, c.file)
  BY DEF TagInv, CompletionInv
<1>4. c.tag.slot \in SlotIds
  BY <1>2 DEF NotAhead
<1> QED BY <1>2, <1>3, <1>4, AdvanceTag DEF TagInv, KeepsFiles

-----------------------------------------------------------------------------
(* Steps that change one slot.                                             *)

(* x may take the place of slot s. *)
Fits(s, x) ==
    /\ x \in Slot
    /\ x.active => <<x.fd, x.type>> \in Interest
    /\ x.inFlight => x.tag # NoTag
    /\ x.tag # NoTag => x.active /\ x.tag = Tag(s, x.gen)
    /\ x.active => (slots[s].active /\ x.fd = slots[s].fd) \/ ~Registered(x.fd)
    /\ \/ x.gen = slots[s].gen + 1
       \/ x.gen = slots[s].gen /\ x.tag = slots[s].tag /\ x.fd = slots[s].fd
       \/ x.gen = slots[s].gen /\ x.tag = NoTag

LEMMA OneSlot ==
    ASSUME TypeOK, SlotInv, OneSlotPerFd, NEW s \in SlotIds, NEW x, Fits(s, x),
           slots' = [slots EXCEPT ![s] = x]
    PROVE  slots' \in [SlotIds -> Slot] /\ SlotsAdvance /\ SlotInv' /\ OneSlotPerFd'
<1>1. slots \in [SlotIds -> Slot] /\ x \in Slot
  BY DEF TypeOK, Fits
<1>2. slots'[s] = x /\ \A t \in SlotIds \ {s} : slots'[t] = slots[t]
  BY <1>1
<1>3. slots' \in [SlotIds -> Slot]
  BY <1>1
<1>4. \A t \in SlotIds : slots[t].gen \in Nat
  BY <1>1 DEF Slot
<1>5. SlotsAdvance
  BY <1>1, <1>2, <1>4 DEF SlotsAdvance, Fits
<1>6. SlotInv'
  BY <1>2 DEF SlotInv, Fits
<1>7. OneSlotPerFd'
  <2> SUFFICES ASSUME NEW t \in SlotIds, NEW u \in SlotIds, t # u,
                      slots'[t].active, slots'[u].active, slots'[t].fd = slots'[u].fd
               PROVE  FALSE
    BY DEF OneSlotPerFd
  <2>1. CASE t # s /\ u # s
    BY <2>1, <1>2 DEF OneSlotPerFd
  <2>2. CASE t = s
    BY <2>2, <1>2 DEF OneSlotPerFd, Fits, Registered
  <2>3. CASE u = s
    BY <2>3, <1>2 DEF OneSlotPerFd, Fits, Registered
  <2> QED BY <2>1, <2>2, <2>3
<1> QED BY <1>3, <1>5, <1>6, <1>7

LEMMA VacantFits ==
    ASSUME TypeOK, NEW s \in SlotIds,
           NEW g \in {slots[s].gen, slots[s].gen + 1}
    PROVE  Fits(s, Vacant(g))
<1>1. slots[s].gen \in Nat
  BY DEF TypeOK, Slot
<1>2. Vacant(g) \in Slot
  BY <1>1, UringAssumption DEF Vacant, Slot, Tags, NoTag
<1> QED BY <1>1, <1>2 DEF Fits, Vacant

LEMMA ArmedFits ==
    ASSUME TypeOK, NEW s \in SlotIds, NEW fd, NEW type, NEW mask \in Masks \cup {None},
           NEW multi \in BOOLEAN, <<fd, type>> \in Interest,
           (slots[s].active /\ fd = slots[s].fd) \/ ~Registered(fd)
    PROVE  /\ Fits(s, Armed(slots[s], s, fd, type, mask, multi))
           /\ PollSqe(fd, multi, Tag(s, slots[s].gen + 1)) \in Sqe
<1> DEFINE x == Armed(slots[s], s, fd, type, mask, multi)
<1>1. slots[s].gen \in Nat /\ slots[s].gen + 1 \in Nat
  BY DEF TypeOK, Slot
<1>2. fd \in Fds /\ type \in Types
  BY UringAssumption
<1>3. Tag(s, slots[s].gen + 1) \in Tags
  BY <1>1, UringAssumption DEF Tag, Tags, SlotIds
<1>4. x = [active |-> TRUE, fd |-> fd, type |-> type, mask |-> mask,
           gen |-> slots[s].gen + 1, tag |-> Tag(s, slots[s].gen + 1),
           multi |-> multi, inFlight |-> TRUE]
  BY DEF Armed
<1>5. x \in Slot
  BY <1>1, <1>2, <1>3, <1>4 DEF Slot
<1>6. Tag(s, slots[s].gen + 1) # NoTag
  BY <1>1 DEF Tag, NoTag
<1>7. Fits(s, x)
  BY <1>4, <1>5, <1>6, <1>1 DEF Fits
<1>8. PollSqe(fd, multi, Tag(s, slots[s].gen + 1)) \in Sqe
  BY <1>2, <1>3 DEF PollSqe, Sqe
<1> QED BY <1>7, <1>8

(* The entry of a poll just armed satisfies EntryInv. *)
LEMMA ArmedEntry ==
    ASSUME TypeOK, TypeOK', NEW s \in SlotIds, NEW fd, NEW type, NEW mask, NEW multi,
           slots'[s] = Armed(slots[s], s, fd, type, mask, multi),
           NEW e, e = PollSqe(fd, multi, Tag(s, slots[s].gen + 1))
    PROVE  /\ NotAhead(e.tag)'
           /\ Current(e.tag)' => e.op = "poll" /\ slots'[e.tag.slot].fd = e.fd
<1>1. slots'[s].gen \in Nat
  BY DEF TypeOK, Slot
<1>2. e.tag.slot = s /\ e.tag.gen = slots[s].gen + 1 /\ e.op = "poll" /\ e.fd = fd
  BY DEF PollSqe, Tag
<1>3. slots'[s].gen = slots[s].gen + 1 /\ slots'[s].fd = fd
  BY DEF Armed
<1> QED BY <1>1, <1>2, <1>3 DEF NotAhead, Current

(* The entry of a withdrawal satisfies EntryInv once the slot has dropped  *)
(* or replaced the tag.                                                    *)
LEMMA RemovedEntry ==
    ASSUME TypeOK, TypeOK', SlotInv, SlotInv', SlotsAdvance, NEW s \in SlotIds,
           slots[s].inFlight, slots'[s].tag # slots[s].tag, NEW fd,
           NEW e, e = RemoveSqe(fd, slots[s].tag)
    PROVE  NotAhead(e.tag)' /\ ~Current(e.tag)'
<1>1. e.tag = slots[s].tag /\ slots[s].tag = Tag(s, slots[s].gen)
  BY DEF SlotInv, RemoveSqe
<1>2. e.tag.slot = s /\ e.tag.gen = slots[s].gen
  BY <1>1 DEF Tag
<1>3. slots[s].gen \in Nat /\ slots'[s].gen \in Nat
  BY DEF TypeOK, Slot
<1> QED BY <1>1, <1>2, <1>3 DEF NotAhead, Current, SlotsAdvance

-----------------------------------------------------------------------------
(* uring_loop_add_poll and uring_loop_remove_poll.                         *)

LEMMA QueuesType == ASSUME TypeOK PROVE Queues \in QueuePair
BY DEF TypeOK, Queues, QueuePair

LEMMA SetQueuesType ==
    ASSUME NEW q \in QueuePair, SetQueues(q)
    PROVE  sq' \in Seq(Sqe) /\ kq' \in Seq(Sqe) /\ Pending(Queues)' = Pending(q)
BY DEF SetQueues, Queues, QueuePair, Pending

LEMMA AddPollStep ==
    ASSUME TagInv, NEW fd \in Fds, NEW type \in Types, NEW mask \in Masks,
           AddPoll(fd, type, mask)
    PROVE  TagInv'
<1> USE DEF TagInv
<1>1. PICK s \in AddTarget(fd, type), ok \in SubmitOutcomes :
        LET slot  == slots[s]
            again == slot.active /\ slot.inFlight
            q2    == GetSqe(Withdraw(slot, ok), ok)
            new   == Armed(slot, s, fd, type, mask, multishot)
            sent  == Push(q2, PollSqe(fd, multishot, new.tag))
        IN  \/ /\ slots' = [slots EXCEPT ![s] =
                     IF again THEN [slot EXCEPT !.inFlight = FALSE, !.tag = NoTag]
                     ELSE slot]
               /\ SetQueues(q2)
            \/ ok /\ slots' = [slots EXCEPT ![s] = new] /\ SetQueues(Submit(sent, TRUE))
            \/ ~ok /\ slots' = [slots EXCEPT ![s] = Vacant(new.gen)] /\ SetQueues(sent)
  BY DEF AddPoll
<1> DEFINE slot  == slots[s]
           again == slot.active /\ slot.inFlight
           w     == Withdraw(slot, ok)
           q2    == GetSqe(w, ok)
           new   == Armed(slot, s, fd, type, mask, multishot)
           poll  == PollSqe(fd, multishot, Tag(s, slot.gen + 1))
           gone  == RemoveSqe(slot.fd, slot.tag)
           sent  == Push(q2, poll)
           reset == IF again THEN [slot EXCEPT !.inFlight = FALSE, !.tag = NoTag]
                    ELSE slot
<1>2. /\ s \in SlotIds /\ ok \in BOOLEAN /\ <<fd, type>> \in Interest
      /\ (slot.active /\ fd = slot.fd) \/ ~Registered(fd)
      /\ slot \in Slot /\ slot.gen \in Nat
  BY OutcomeBoolean DEF AddPoll, AddTarget, Matching, FreeSlots, TypeOK, Slot
<1>3. UNCHANGED <<running, multishot, kpolls, cq, disp, ready, inc, stale>> /\ env' \in Nat
  BY DEF AddPoll, Spend, TypeOK
<1>4. new.tag = Tag(s, slot.gen + 1) /\ new.gen = slot.gen + 1
  BY DEF Armed
<1>5. /\ w \in QueuePair
      /\ \A e \in Pending(w) : e \in Pending(Queues) \/ (slot.inFlight /\ e = gone)
  <2>1. CASE slot.inFlight
    <3>1. slot.active
      BY <2>1, <1>2 DEF SlotInv
    <3> QED BY <3>1, <2>1, <1>2, WithdrawPending
  <2>2. CASE ~slot.inFlight
    BY <2>2, WithdrawIdle, QueuesType
  <2> QED BY <2>1, <2>2
<1>6. q2 \in QueuePair /\ Pending(q2) = Pending(w)
  BY <1>2, <1>5, GetSqePending
<1>7. Fits(s, new) /\ poll \in Sqe
  BY <1>2, ArmedFits DEF TypeOK
<1>8. sent \in QueuePair /\ Pending(sent) = Pending(w) \cup {poll}
  BY <1>6, <1>7, PushPending
<1>9. Submit(sent, TRUE) \in QueuePair /\ Pending(Submit(sent, TRUE)) = Pending(w) \cup {poll}
  BY <1>8, SubmitPending
<1>10. /\ \E x : Fits(s, x) /\ slots' = [slots EXCEPT ![s] = x]
       /\ sq' \in Seq(Sqe) /\ kq' \in Seq(Sqe)
       /\ slot.inFlight => slots'[s].tag # slot.tag
       /\ \A e \in Pending(Queues)' :
             e \in Pending(w) \/ (e = poll /\ slots'[s] \in {new, Vacant(new.gen)})
  <2>0. slots \in [SlotIds -> Slot]
    BY DEF TypeOK
  <2>1. CASE slots' = [slots EXCEPT ![s] = reset] /\ SetQueues(q2)
    <3>1. Fits(s, reset)
      <4>1. CASE again
        <5>1. reset = [slot EXCEPT !.inFlight = FALSE, !.tag = NoTag]
          BY <4>1
        <5>2. NoTag \in Tags
          BY UringAssumption DEF NoTag, Tags
        <5>3. /\ reset \in Slot /\ reset.active = slot.active /\ reset.fd = slot.fd
              /\ reset.type = slot.type /\ ~reset.inFlight /\ reset.tag = NoTag
              /\ reset.gen = slot.gen
          BY <5>1, <5>2, <1>2 DEF Slot
        <5> QED BY <5>3, <1>2, <4>1 DEF Fits, SlotInv
      <4>2. CASE ~again
        <5>1. reset = slot
          BY <4>2
        <5> QED BY <5>1, <1>2 DEF Fits, SlotInv, Registered
      <4> QED BY <4>1, <4>2
    <3>2. slots'[s] = reset
      BY <2>0, <2>1, <1>2
    <3>3. slot.inFlight => reset.tag = NoTag /\ slot.tag # NoTag
      BY <1>2 DEF SlotInv, Slot
    <3> QED BY <2>1, <3>1, <3>2, <3>3, <1>6, SetQueuesType
  <2>2. CASE slots' = [slots EXCEPT ![s] = new] /\ SetQueues(Submit(sent, TRUE))
    <3>1. slots'[s] = new
      BY <2>0, <2>2, <1>2
    <3>2. slot.inFlight => new.tag # slot.tag
      <4>1. slot.inFlight => slot.tag.gen = slot.gen
        <5>1. slot.inFlight => slot.tag = Tag(s, slot.gen)
          BY <1>2 DEF SlotInv
        <5>2. Tag(s, slot.gen).gen = slot.gen
          BY DEF Tag
        <5> QED BY <5>1, <5>2
      <4>2. new.tag.gen = slot.gen + 1
        BY <1>4 DEF Tag
      <4> QED BY <4>1, <4>2, <1>2
    <3> QED BY <2>2, <3>1, <3>2, <1>7, <1>9, SetQueuesType
  <2>3. CASE slots' = [slots EXCEPT ![s] = Vacant(new.gen)] /\ SetQueues(sent)
    <3>1. slots'[s] = Vacant(new.gen)
      BY <2>0, <2>3, <1>2
    <3>2. slot.inFlight => Vacant(new.gen).tag # slot.tag
      BY <1>2 DEF SlotInv, Vacant
    <3>3. Fits(s, Vacant(new.gen))
      BY <1>2, <1>4, VacantFits
    <3> QED BY <2>3, <3>1, <3>2, <3>3, <1>8, SetQueuesType
  <2> QED BY <1>1, <1>4, <2>1, <2>2, <2>3
<1>11. slots' \in [SlotIds -> Slot] /\ SlotsAdvance /\ SlotInv' /\ OneSlotPerFd'
  BY <1>10, <1>2, OneSlot
<1>12. TypeOK'
  BY <1>3, <1>10, <1>11 DEF TypeOK
<1>13. EntryInv'
  <2> SUFFICES ASSUME NEW e \in Pending(Queues)'
               PROVE  /\ NotAhead(e.tag)'
                      /\ Current(e.tag)' => e.op = "poll" /\ slots'[e.tag.slot].fd = e.fd
    BY DEF EntryInv
  <2>1. CASE e \in Pending(Queues)
    BY <2>1, <1>11, <1>12, CarryEntries
  <2>2. CASE slot.inFlight /\ e = gone
    BY <2>2, <1>2, <1>10, <1>11, <1>12, RemovedEntry
  <2>3. CASE e = poll /\ slots'[s] = new
    BY <2>3, <1>2, <1>12, ArmedEntry
  <2>4. CASE e = poll /\ slots'[s] = Vacant(new.gen)
    <3>1. slots'[s].tag = NoTag /\ slots'[s].gen = slot.gen + 1
      BY <2>4, <1>4 DEF Vacant
    <3>2. e.tag.slot = s /\ e.tag.gen = slot.gen + 1
      BY <2>4 DEF PollSqe, Tag
    <3>3. e.tag # NoTag
      BY <3>2, <1>2 DEF NoTag
    <3> QED BY <3>1, <3>2, <3>3, <1>2 DEF NotAhead, Current
  <2> QED BY <1>5, <1>10, <2>1, <2>2, <2>3, <2>4
<1>14. KeepsFiles
  BY <1>3 DEF KeepsFiles, OnFile
<1>15. PollInv'
  BY <1>3, <1>11, <1>12, <1>14, CarryPolls DEF PollInv
<1>16. CompletionInv'
  BY <1>3, <1>11, <1>12, <1>14, CarryCompletions DEF CompletionInv
<1>17. CallbackInv'
  <2>1. disp.tag \in Tags
    BY DEF TypeOK, DispState
  <2> QED BY <1>3, <1>11, <1>12, <2>1, AdvanceTag DEF CallbackInv
<1>18. ScanInv'
  BY <1>3 DEF ScanInv
<1> QED BY <1>11, <1>12, <1>13, <1>15, <1>16, <1>17, <1>18

LEMMA RemovePollStep ==
    ASSUME TagInv, NEW fd \in Fds, RemovePoll(fd)
    PROVE  TagInv'
<1> USE DEF TagInv
<1>1. PICK s \in SlotIds, ok \in SubmitOutcomes :
        /\ slots[s].active /\ slots[s].fd = fd
        /\ slots' = [slots EXCEPT ![s] = Vacant(slots[s].gen)]
        /\ SetQueues(Withdraw(slots[s], ok))
  BY DEF RemovePoll
<1> DEFINE gone == RemoveSqe(slots[s].fd, slots[s].tag)
<1>2. ok \in BOOLEAN
  BY OutcomeBoolean
<1>3. UNCHANGED <<running, multishot, kpolls, cq, disp, ready, inc>> /\ env' \in Nat
      /\ stale' = stale \ {fd}
  BY DEF RemovePoll, Spend, TypeOK
<1>4. /\ Withdraw(slots[s], ok) \in QueuePair
      /\ \A e \in Pending(Withdraw(slots[s], ok)) :
            e \in Pending(Queues) \/ (slots[s].inFlight /\ e = gone)
  BY <1>1, <1>2, WithdrawPending, WithdrawIdle, QueuesType
<1>5. /\ sq' \in Seq(Sqe) /\ kq' \in Seq(Sqe)
      /\ Pending(Queues)' = Pending(Withdraw(slots[s], ok))
  BY <1>1, <1>4, SetQueuesType
<1>6. Fits(s, Vacant(slots[s].gen))
  BY <1>1, VacantFits
<1>7. slots' \in [SlotIds -> Slot] /\ SlotsAdvance /\ SlotInv' /\ OneSlotPerFd'
  BY <1>1, <1>6, OneSlot
<1>8. slots'[s].tag = NoTag /\ \A t \in SlotIds \ {s} : slots'[t] = slots[t]
  BY <1>1 DEF TypeOK, Vacant
<1>9. TypeOK'
  BY <1>3, <1>5, <1>7 DEF TypeOK
<1>10. EntryInv'
  <2> SUFFICES ASSUME NEW e \in Pending(Queues)'
               PROVE  /\ NotAhead(e.tag)'
                      /\ Current(e.tag)' => e.op = "poll" /\ slots'[e.tag.slot].fd = e.fd
    BY DEF EntryInv
  <2>1. CASE e \in Pending(Queues)
    BY <2>1, <1>7, <1>9, CarryEntries
  <2>2. CASE slots[s].inFlight /\ e = gone
    <3>1. slots'[s].tag # slots[s].tag
      BY <2>2, <1>8 DEF SlotInv
    <3> QED BY <2>2, <3>1, <1>7, <1>9, RemovedEntry
  <2> QED BY <1>4, <1>5, <2>1, <2>2
<1>11. KeepsFiles
  <2> SUFFICES ASSUME NEW t \in SlotIds, NEW f \in Fds, NEW file \in Nat,
                      slots[t].tag # NoTag, slots'[t].tag = slots[t].tag,
                      slots[t].fd = f, OnFile(f, file)
               PROVE  OnFile(f, file)'
    BY DEF KeepsFiles
  <2>1. t # s /\ slots[t].active
    BY <1>8 DEF SlotInv
  <2>2. f # fd
    BY <2>1, <1>1 DEF OneSlotPerFd
  <2> QED BY <2>2, <1>3 DEF OnFile
<1>12. PollInv'
  BY <1>3, <1>7, <1>9, <1>11, CarryPolls DEF PollInv
<1>13. CompletionInv'
  BY <1>3, <1>7, <1>9, <1>11, CarryCompletions DEF CompletionInv
<1>14. CallbackInv'
  <2>1. disp.tag \in Tags
    BY DEF TypeOK, DispState
  <2> QED BY <1>3, <1>7, <1>9, <2>1, AdvanceTag DEF CallbackInv
<1>15. ScanInv'
  BY <1>3 DEF ScanInv
<1> QED BY <1>7, <1>9, <1>10, <1>12, <1>13, <1>14, <1>15

-----------------------------------------------------------------------------
(* Steps that leave the slot table and the submission side alone.          *)

LEMMA ReopenStep ==
    ASSUME TagInv, NEW fd \in Fds, Reopen(fd)
    PROVE  TagInv'
<1> USE DEF TagInv
<1>1. /\ UNCHANGED <<slots, running, multishot, sq, kq, cq, disp>>
      /\ stale' = (IF Registered(fd) THEN stale \cup {fd} ELSE stale)
      /\ inc' = [inc EXCEPT ![fd] = @ + 1] /\ env' \in Nat /\ ready' = ready \ {fd}
      /\ kpolls' = {[p EXCEPT !.woken = p.woken \/ p.fd = fd] : p \in kpolls}
      /\ Registered(fd) => disp.pc = "handler"
  BY DEF Reopen, Spend, TypeOK
<1>2. \A p \in kpolls' : \E q \in kpolls :
        /\ p \in KPoll /\ p.tag = q.tag /\ p.fd = q.fd /\ p.file = q.file
  <2> TAKE p \in kpolls'
  <2>1. PICK q \in kpolls : p = [q EXCEPT !.woken = q.woken \/ q.fd = fd]
    BY <1>1
  <2>2. q \in KPoll
    BY DEF TypeOK
  <2>3. p \in KPoll /\ p.tag = q.tag /\ p.fd = q.fd /\ p.file = q.file
    BY <2>1, <2>2 DEF KPoll
  <2> QED BY <2>3
<1>3. inc' \in [Fds -> Nat]
  BY <1>1 DEF TypeOK
<1>4. TypeOK'
  BY <1>1, <1>2, <1>3 DEF TypeOK
<1>5. SlotsAdvance
  BY <1>1 DEF SlotsAdvance, TypeOK, Slot
<1>6. KeepsFiles
  <2> SUFFICES ASSUME NEW t \in SlotIds, NEW f \in Fds, NEW file \in Nat,
                      slots[t].tag # NoTag, slots[t].fd = f, OnFile(f, file)
               PROVE  OnFile(f, file)'
    BY DEF KeepsFiles
  <2>1. Registered(f)
    BY DEF SlotInv, Registered
  <2>2. CASE f = fd
    BY <2>1, <2>2, <1>1 DEF OnFile
  <2>3. CASE f # fd
    <3>1. inc'[f] = inc[f]
      BY <2>3, <1>1 DEF TypeOK
    <3> QED BY <3>1, <1>1 DEF OnFile
  <2> QED BY <2>2, <2>3
<1>7. SlotInv' /\ OneSlotPerFd'
  BY <1>1 DEF SlotInv, OneSlotPerFd
<1>8. EntryInv'
  BY <1>1 DEF EntryInv, Pending, Queues, NotAhead, Current
<1>9. PollInv'
  BY <1>2, <1>4, <1>5, <1>6, CarryPolls DEF PollInv
<1>10. CompletionInv'
  BY <1>1, <1>4, <1>5, <1>6, CarryCompletions DEF CompletionInv
<1>11. CallbackInv'
  BY <1>1 DEF CallbackInv, NotAhead
<1>12. ScanInv'
  BY <1>1 DEF ScanInv
<1> QED BY <1>4, <1>7, <1>8, <1>9, <1>10, <1>11, <1>12

LEMMA SameSlots ==
    ASSUME TagInv, UNCHANGED slots
    PROVE  SlotsAdvance /\ SlotInv' /\ OneSlotPerFd'
BY DEF TagInv, SlotsAdvance, SlotInv, OneSlotPerFd, TypeOK, Slot

(* Steps that move the thread only. *)
LEMMA ThreadStep ==
    ASSUME TagInv, Stop \/ Enter \/ Interrupted \/ WaitCqe \/ Skip \/ EndFirstPass
    PROVE  TagInv'
<1> USE DEF TagInv
<1>1. UNCHANGED <<slots, multishot, sq, kq, kpolls, cq, ready, inc, stale, env>>
  BY DEF Stop, Enter, Interrupted, WaitCqe, Skip, EndFirstPass, worldVars
<1>2. Len(cq) \in Nat /\ disp.pos \in Nat \ {0} /\ disp \in DispState
  BY DEF TypeOK, DispState
<1>a. /\ disp.pos + 1 \in Nat \ {0} /\ disp.pos - 1 \in Nat /\ 1 \in Nat \ {0}
      /\ 0 \in Nat /\ 0 \in 0..1 /\ 1 \in 0..1
  BY <1>2
<1>3. /\ running' \in BOOLEAN /\ disp' \in DispState
      /\ disp'.tag = disp.tag /\ disp'.who = disp.who
      /\ disp'.pc = "handler" <=> disp.pc = "handler"
  <2>1. CASE Stop
    BY <2>1, <1>2 DEF Stop
  <2>2. CASE Enter
    BY <2>2, <1>2 DEF Enter, DispState, TypeOK
  <2>6. CASE Interrupted
    BY <2>6, <1>2 DEF Interrupted, DispState, TypeOK
  <2>3. CASE WaitCqe
    <3>1. disp' = [disp EXCEPT !.pc = "scan", !.pass = 0, !.pos = 1, !.snap = Len(cq), !.count = 0] /\ disp.pc # "handler"
      BY <2>3 DEF WaitCqe, InScan, Onward
    <3>2. disp' \in DispState
      BY <3>1, <1>2, <1>a DEF DispState
    <3>3. running' = running
      BY <2>3 DEF WaitCqe
    <3> QED BY <3>1, <3>2, <3>3, <1>2 DEF TypeOK, DispState
  <2>4. CASE Skip
    <3>1. disp' = [disp EXCEPT !.pc = "scan", !.pos = disp.pos + 1] /\ disp.pc # "handler"
      BY <2>4 DEF Skip, InScan, Onward
    <3>2. disp' \in DispState
      BY <3>1, <1>2, <1>a DEF DispState
    <3>3. running' = running
      BY <2>4 DEF Skip
    <3> QED BY <3>1, <3>2, <3>3, <1>2 DEF TypeOK, DispState
  <2>5. CASE EndFirstPass
    <3>1. disp' = [disp EXCEPT !.pass = 1, !.pos = 1, !.count = disp.pos - 1] /\ disp.pc # "handler"
      BY <2>5 DEF EndFirstPass, InScan, Onward
    <3>2. disp' \in DispState
      BY <3>1, <1>2, <1>a DEF DispState
    <3>3. running' = running
      BY <2>5 DEF EndFirstPass
    <3> QED BY <3>1, <3>2, <3>3, <1>2 DEF TypeOK, DispState
  <2> QED BY <2>1, <2>2, <2>3, <2>4, <2>5, <2>6
<1>4. ScanInv'
  <2>1. CASE Stop
    BY <2>1, <1>1 DEF Stop, ScanInv
  <2>2. CASE Enter
    BY <2>2, <1>1, <1>2 DEF Enter, ScanInv, DispState
  <2>6. CASE Interrupted
    BY <2>6, <1>1, <1>2 DEF Interrupted, ScanInv, DispState
  <2>3. CASE WaitCqe
    BY <2>3, <1>1, <1>2 DEF WaitCqe, ScanInv, DispState
  <2>4. CASE Skip
    BY <2>4, <1>1, <1>2 DEF Skip, InScan, Onward, ScanInv, DispState
  <2>5. CASE EndFirstPass
    BY <2>5, <1>1, <1>2 DEF EndFirstPass, ScanInv, DispState
  <2> QED BY <2>1, <2>2, <2>3, <2>4, <2>5, <2>6
<1>5. TypeOK'
  BY <1>1, <1>3 DEF TypeOK
<1>6. SlotInv' /\ OneSlotPerFd'
  BY <1>1, SameSlots
<1>7. EntryInv' /\ PollInv' /\ CompletionInv'
  BY <1>1 DEF EntryInv, PollInv, CompletionInv, Pending, Queues, NotAhead, Current, OnFile
<1>8. CallbackInv'
  BY <1>1, <1>3 DEF CallbackInv, NotAhead
<1> QED BY <1>4, <1>5, <1>6, <1>7, <1>8

-----------------------------------------------------------------------------
(* The walk over the completions.                                          *)

(* The completion under the cursor is one of the ring, and if the pass     *)
(* handles it, it names the current registration of its slot.              *)
LEMMA CursorFacts ==
    ASSUME TagInv, InScan
    PROVE  /\ Cur \in Range(cq) /\ Cur \in Cqe /\ disp.pc = "scan"
           /\ Mine(Cur) => /\ Cur.tag.slot \in SlotIds
                           /\ slots[Cur.tag.slot].active
                           /\ slots[Cur.tag.slot].tag = Cur.tag
                           /\ NotAhead(Cur.tag)
                           /\ Cur.tag # NoTag
<1> USE DEF TagInv
<1>1. disp.pos \in Nat \ {0} /\ Len(cq) \in Nat /\ disp.pass \in {0, 1}
      /\ disp.count \in Nat /\ DOMAIN cq = 1..Len(cq)
  BY DEF TypeOK, DispState
<1>2. disp.pos \in DOMAIN cq
  BY <1>1 DEF InScan, ScanInv
<1>3. Cur \in Range(cq)
  BY <1>2 DEF Cur, Range
<1>4. Cur \in Cqe
  BY <1>3, RangeIn DEF TypeOK
<1>5. Cur.tag # NoTag => NotAhead(Cur.tag)
  BY <1>3 DEF CompletionInv
<1> QED BY <1>3, <1>4, <1>5 DEF InScan, Mine, Live, NotAhead

(* The tail of the loop body, from a table that differs from the current   *)
(* one in the flags of the slot the completion named.                      *)
LEMMA RearmStep ==
    ASSUME TagInv, NEW t \in Tags, NotAhead(t), NEW y \in Slot,
           y.active = slots[t.slot].active, y.fd = slots[t.slot].fd,
           y.type = slots[t.slot].type, y.gen = slots[t.slot].gen,
           y.tag = slots[t.slot].tag, y.inFlight => slots[t.slot].inFlight,
           Rearm([slots EXCEPT ![t.slot] = y], t)
    PROVE  /\ slots' \in [SlotIds -> Slot] /\ SlotsAdvance /\ SlotInv' /\ OneSlotPerFd'
           /\ sq' \in Seq(Sqe) /\ kq' \in Seq(Sqe)
           /\ TypeOK' => EntryInv'
<1> USE DEF TagInv
<1> DEFINE s    == t.slot
           tab  == [slots EXCEPT ![s] = y]
           new  == Armed(slots[s], s, y.fd, y.type, y.mask, y.multi)
           poll == PollSqe(y.fd, y.multi, Tag(s, slots[s].gen + 1))
<1>1. s \in SlotIds /\ slots \in [SlotIds -> Slot] /\ tab[s] = y
  BY DEF NotAhead, TypeOK
<1>2. Fits(s, y)
  BY <1>1 DEF Fits, SlotInv, Registered
<1>3. y.mask \in Masks \cup {None} /\ y.multi \in BOOLEAN
  BY DEF Slot
<1>4. CASE slots' = tab /\ sq' \in Seq(Sqe) /\ kq' \in Seq(Sqe)
           /\ Pending(Queues)' = Pending(Queues)
  <2>1. slots' \in [SlotIds -> Slot] /\ SlotsAdvance /\ SlotInv' /\ OneSlotPerFd'
    BY <1>1, <1>2, <1>4, OneSlot
  <2>2. ASSUME TypeOK' PROVE EntryInv'
    BY <1>4, <2>1, <2>2, CarryEntries DEF EntryInv
  <2> QED BY <1>4, <2>1, <2>2
<1>5. CASE /\ y.active
           /\ slots' = [slots EXCEPT ![s] = new]
           /\ sq' \in Seq(Sqe) /\ kq' \in Seq(Sqe)
           /\ Pending(Queues)' = Pending(Queues) \cup {poll}
  <2>1. <<y.fd, y.type>> \in Interest
    BY <1>5, <1>2 DEF Fits
  <2>2. Fits(s, new)
    BY <1>1, <1>3, <1>5, <2>1, ArmedFits
  <2>3. slots' \in [SlotIds -> Slot] /\ SlotsAdvance /\ SlotInv' /\ OneSlotPerFd'
    BY <1>1, <1>5, <2>2, OneSlot
  <2>4. slots'[s] = new
    BY <1>1, <1>5
  <2>5. ASSUME TypeOK' PROVE EntryInv'
    <3> SUFFICES ASSUME NEW e \in Pending(Queues)'
                 PROVE  /\ NotAhead(e.tag)'
                        /\ Current(e.tag)' => e.op = "poll" /\ slots'[e.tag.slot].fd = e.fd
      BY DEF EntryInv
    <3>1. CASE e \in Pending(Queues)
      BY <3>1, <2>3, <2>5, CarryEntries
    <3>2. CASE e = poll
      BY <3>2, <1>1, <2>4, <2>5, ArmedEntry
    <3> QED BY <1>5, <3>1, <3>2
  <2> QED BY <1>5, <2>3, <2>5
<1>6. CASE MayRearm(y, t)
  <2>1. PICK ok \in SubmitOutcomes :
          LET q == GetSqe(Queues, ok)
          IN  IF Room(q)
              THEN /\ slots' = [tab EXCEPT ![s] = Armed(y, s, y.fd, y.type, y.mask, y.multi)]
                   /\ SetQueues(Push(q, PollSqe(y.fd, y.multi,
                                 Armed(y, s, y.fd, y.type, y.mask, y.multi).tag)))
              ELSE slots' = tab /\ SetQueues(q)
    BY <1>1, <1>6 DEF Rearm
  <2> DEFINE q == GetSqe(Queues, ok)
  <2>2. q \in QueuePair /\ Pending(q) = Pending(Queues)
    BY GetSqePending, QueuesType, OutcomeBoolean
  <2>3. Armed(y, s, y.fd, y.type, y.mask, y.multi) = new /\ new.tag = Tag(s, slots[s].gen + 1)
    BY DEF Armed
  <2>4. CASE Room(q)
    <3>1. y.active /\ <<y.fd, y.type>> \in Interest
      BY <1>2, <1>6 DEF MayRearm, Fits
    <3>2. poll \in Sqe
      BY <1>1, <1>3, <3>1, ArmedFits
    <3>3. SetQueues(Push(q, poll)) /\ slots' = [slots EXCEPT ![s] = new]
      BY <1>1, <2>1, <2>3, <2>4
    <3>4. Push(q, poll) \in QueuePair /\ Pending(Push(q, poll)) = Pending(Queues) \cup {poll}
      BY <2>2, <3>2, PushPending
    <3> QED BY <1>5, <3>1, <3>3, <3>4, SetQueuesType
  <2>5. CASE ~Room(q)
    BY <1>4, <2>1, <2>2, <2>5, SetQueuesType
  <2> QED BY <2>4, <2>5
<1>7. CASE ~MayRearm(y, t)
  <2>1. slots' = tab /\ UNCHANGED <<sq, kq>>
    BY <1>1, <1>7 DEF Rearm, ringVars
  <2> QED BY <1>4, <2>1 DEF TypeOK, Pending, Queues
<1> QED BY <1>6, <1>7

(* What the steps of the walk have in common once the table and the        *)
(* submission side are settled.                                            *)
LEMMA WalkStep ==
    ASSUME TagInv, TypeOK', SlotsAdvance, SlotInv', OneSlotPerFd', EntryInv',
           UNCHANGED <<kpolls, cq, inc, stale>>,
           disp'.pc = "handler" <=> disp'.who # None,
           disp'.pc = "handler" => disp'.tag \in Tags /\ NotAhead(disp'.tag),
           disp'.pc # "handler" => stale = {},
           ScanInv'
    PROVE  TagInv'
<1>1. KeepsFiles
  BY DEF KeepsFiles, OnFile
<1>2. PollInv'
  BY <1>1, CarryPolls DEF PollInv
<1>3. CompletionInv'
  BY <1>1, CarryCompletions DEF CompletionInv
<1>4. CallbackInv'
  <2>1. ASSUME disp'.pc = "handler" PROVE NotAhead(disp.tag)'
    <3> DEFINE t == disp'.tag
    <3>1. t.slot \in SlotIds /\ t.gen <= slots[t.slot].gen /\ t.gen \in Nat
      BY <2>1 DEF NotAhead, Tags
    <3>2. slots'[t.slot].gen >= slots[t.slot].gen
      BY <3>1 DEF SlotsAdvance
    <3>3. slots'[t.slot].gen \in Nat /\ slots[t.slot].gen \in Nat
      BY <3>1 DEF TagInv, TypeOK, Slot
    <3> QED BY <3>1, <3>2, <3>3 DEF NotAhead
  <2> QED BY <2>1 DEF CallbackInv
<1> QED BY <1>2, <1>3, <1>4 DEF TagInv

LEMMA OnwardFacts ==
    ASSUME TagInv, InScan, Onward
    PROVE  /\ disp' \in DispState /\ disp'.pc = "scan" /\ disp'.who = None
           /\ stale = {}
           /\ cq' = cq => ScanInv'
<1> USE DEF TagInv
<1>1. disp.pos \in Nat \ {0} /\ Len(cq) \in Nat /\ disp \in DispState
  BY DEF TypeOK, DispState
<1>2. disp' = [disp EXCEPT !.pc = "scan", !.pos = disp.pos + 1] /\ disp.pc = "scan"
  BY DEF Onward, InScan
<1>3. disp' \in DispState /\ disp'.pc = "scan" /\ disp'.who = disp.who
  <2>1. disp.pos + 1 \in Nat \ {0}
    BY <1>1
  <2>2. disp' \in DispState
    BY <1>1, <1>2, <2>1 DEF DispState
  <2> QED BY <1>1, <1>2, <2>2 DEF DispState
<1>4. disp.who = None /\ stale = {}
  BY <1>2 DEF CallbackInv
<1>5. cq' = cq => ScanInv'
  BY <1>1, <1>2 DEF InScan, ScanInv, DispState
<1> QED BY <1>3, <1>4, <1>5

LEMMA CompletedSlot ==
    ASSUME NEW slot \in Slot, NEW more \in BOOLEAN
    PROVE  /\ Completed(slot, more) \in Slot
           /\ Completed(slot, more).active = slot.active
           /\ Completed(slot, more).fd = slot.fd
           /\ Completed(slot, more).type = slot.type
           /\ Completed(slot, more).gen = slot.gen
           /\ Completed(slot, more).tag = slot.tag
           /\ Completed(slot, more).inFlight => slot.inFlight
<1>1. Completed(slot, more) = [slot EXCEPT !.inFlight = slot.inFlight /\ more]
  BY DEF Completed
<1>2. (slot.inFlight /\ more) \in BOOLEAN /\ (slot.inFlight /\ more => slot.inFlight)
  OBVIOUS
<1> QED BY <1>1, <1>2 DEF Slot

LEMMA AgainStep == ASSUME TagInv, Again PROVE TagInv'
<1> USE DEF TagInv
<1> DEFINE t == Cur.tag
           y == Completed(slots[t.slot], Cur.more)
<1>1. InScan /\ Mine(Cur) /\ Onward /\ UNCHANGED <<running, multishot, kpolls, cq, worldVars>>
      /\ Rearm([slots EXCEPT ![t.slot] = y], t)
  BY DEF Again
<1>2. t \in Tags /\ NotAhead(t) /\ t.slot \in SlotIds /\ Cur.more \in BOOLEAN
      /\ slots[t.slot] \in Slot
  BY <1>1, CursorFacts DEF Cqe, TypeOK
<1>3. /\ y \in Slot /\ y.active = slots[t.slot].active /\ y.fd = slots[t.slot].fd
      /\ y.type = slots[t.slot].type /\ y.gen = slots[t.slot].gen
      /\ y.tag = slots[t.slot].tag /\ (y.inFlight => slots[t.slot].inFlight)
  BY <1>2, CompletedSlot
<1> HIDE DEF y
<1>4. /\ slots' \in [SlotIds -> Slot] /\ SlotsAdvance /\ SlotInv' /\ OneSlotPerFd'
      /\ sq' \in Seq(Sqe) /\ kq' \in Seq(Sqe) /\ (TypeOK' => EntryInv')
  BY <1>1, <1>2, <1>3, RearmStep
<1>5. disp' \in DispState /\ disp'.pc = "scan" /\ disp'.who = None /\ stale = {} /\ ScanInv'
  BY <1>1, OnwardFacts
<1>6. TypeOK'
  BY <1>1, <1>4, <1>5 DEF TypeOK, worldVars
<1> QED BY <1>1, <1>4, <1>5, <1>6, WalkStep DEF worldVars

LEMMA FallBackStep == ASSUME TagInv, FallBack PROVE TagInv'
<1> USE DEF TagInv
<1> DEFINE t == Cur.tag
           y == [slots[t.slot] EXCEPT !.multi = FALSE, !.inFlight = FALSE]
<1>1. InScan /\ Mine(Cur) /\ Onward /\ UNCHANGED <<running, kpolls, cq, worldVars>>
      /\ multishot' = FALSE
  BY DEF FallBack
<1>2. t \in Tags /\ NotAhead(t) /\ t.slot \in SlotIds /\ slots[t.slot] \in Slot
      /\ slots \in [SlotIds -> Slot]
  BY <1>1, CursorFacts DEF Cqe, TypeOK
<1>3. /\ y \in Slot /\ y.active = slots[t.slot].active /\ y.fd = slots[t.slot].fd
      /\ y.type = slots[t.slot].type /\ y.gen = slots[t.slot].gen
      /\ y.tag = slots[t.slot].tag /\ ~y.inFlight
  BY <1>2 DEF Slot
<1>4. [slots EXCEPT ![t.slot].multi = FALSE, ![t.slot].inFlight = FALSE]
        = [slots EXCEPT ![t.slot] = y]
  BY <1>2 DEF Slot
<1>5. Rearm([slots EXCEPT ![t.slot] = y], t)
  BY <1>4 DEF FallBack
<1> HIDE DEF y
<1>6. /\ slots' \in [SlotIds -> Slot] /\ SlotsAdvance /\ SlotInv' /\ OneSlotPerFd'
      /\ sq' \in Seq(Sqe) /\ kq' \in Seq(Sqe) /\ (TypeOK' => EntryInv')
  BY <1>2, <1>3, <1>5, RearmStep
<1>7. disp' \in DispState /\ disp'.pc = "scan" /\ disp'.who = None /\ stale = {} /\ ScanInv'
  BY <1>1, OnwardFacts
<1>8. TypeOK'
  BY <1>1, <1>6, <1>7 DEF TypeOK, worldVars
<1> QED BY <1>1, <1>6, <1>7, <1>8, WalkStep DEF worldVars

LEMMA DropStep == ASSUME TagInv, Drop PROVE TagInv'
<1> USE DEF TagInv
<1> DEFINE t == Cur.tag
<1>1. InScan /\ Mine(Cur) /\ Onward
      /\ UNCHANGED <<running, multishot, sq, kq, kpolls, cq, worldVars>>
      /\ slots' = IF Cur.more THEN slots
                  ELSE [slots EXCEPT ![t.slot] = Vacant(slots[t.slot].gen)]
  BY DEF Drop
<1>2. t.slot \in SlotIds
  BY <1>1, CursorFacts
<1>3. slots' \in [SlotIds -> Slot] /\ SlotsAdvance /\ SlotInv' /\ OneSlotPerFd'
  <2>1. CASE Cur.more
    BY <1>1, <2>1, SameSlots DEF TypeOK
  <2>2. CASE ~Cur.more
    BY <1>1, <1>2, <2>2, VacantFits, OneSlot
  <2> QED BY <2>1, <2>2
<1>4. disp' \in DispState /\ disp'.pc = "scan" /\ disp'.who = None /\ stale = {} /\ ScanInv'
  BY <1>1, OnwardFacts
<1>5. TypeOK'
  BY <1>1, <1>3, <1>4 DEF TypeOK, worldVars
<1>6. EntryInv'
  <2>1. Pending(Queues)' = Pending(Queues)
    BY <1>1 DEF Pending, Queues
  <2> QED BY <1>3, <1>5, <2>1, CarryEntries DEF EntryInv
<1> QED BY <1>1, <1>3, <1>4, <1>5, <1>6, WalkStep DEF worldVars

LEMMA DeliverStep == ASSUME TagInv, Deliver PROVE TagInv'
<1> USE DEF TagInv
<1> DEFINE t == Cur.tag
           y == Completed(slots[t.slot], Cur.more)
<1>1. InScan /\ Mine(Cur)
      /\ UNCHANGED <<running, multishot, sq, kq, kpolls, cq, inc, stale, env>>
      /\ slots' = [slots EXCEPT ![t.slot] = y]
      /\ ready' = ready \ {slots[t.slot].fd}
      /\ disp' = [disp EXCEPT !.pc = "handler", !.done = TRUE, !.tag = t,
                   !.who = <<slots[t.slot].fd, slots[t.slot].type>>]
  BY DEF Deliver
<1>2. /\ t \in Tags /\ NotAhead(t) /\ t.slot \in SlotIds /\ Cur.more \in BOOLEAN
      /\ slots[t.slot] \in Slot /\ slots[t.slot].active /\ disp.pc = "scan"
  BY <1>1, CursorFacts DEF Cqe, TypeOK
<1>3. /\ y \in Slot /\ y.active = slots[t.slot].active /\ y.fd = slots[t.slot].fd
      /\ y.type = slots[t.slot].type /\ y.gen = slots[t.slot].gen
      /\ y.tag = slots[t.slot].tag /\ (y.inFlight => slots[t.slot].inFlight)
  BY <1>2, CompletedSlot
<1> HIDE DEF y
<1>4. Fits(t.slot, y)
  BY <1>2, <1>3 DEF Fits, SlotInv
<1>5. slots' \in [SlotIds -> Slot] /\ SlotsAdvance /\ SlotInv' /\ OneSlotPerFd'
  BY <1>1, <1>2, <1>4, OneSlot
<1>6. <<slots[t.slot].fd, slots[t.slot].type>> \in Interest
  BY <1>2 DEF SlotInv
<1>7. /\ disp' \in DispState /\ disp'.pc = "handler" /\ disp'.tag = t
      /\ disp'.who = <<slots[t.slot].fd, slots[t.slot].type>>
      /\ disp'.pass = disp.pass /\ disp'.pos = disp.pos /\ disp'.count = disp.count
  BY <1>1, <1>2, <1>6 DEF TypeOK, DispState
<1>8. TypeOK'
  BY <1>1, <1>5, <1>7 DEF TypeOK
<1>9. EntryInv'
  <2>1. Pending(Queues)' = Pending(Queues)
    BY <1>1 DEF Pending, Queues
  <2> QED BY <1>5, <1>8, <2>1, CarryEntries DEF EntryInv
<1>10. ScanInv'
  BY <1>1, <1>2, <1>7 DEF InScan, ScanInv
<1>11. disp'.who # None
  BY <1>6, <1>7, NoneFresh
<1>12. stale = {}
  BY <1>2 DEF CallbackInv
<1> QED BY <1>1, <1>2, <1>5, <1>7, <1>8, <1>9, <1>10, <1>11, <1>12, WalkStep

LEMMA HandlerReturnsStep == ASSUME TagInv, HandlerReturns PROVE TagInv'
<1> USE DEF TagInv
<1> DEFINE t == disp.tag
           y == slots[t.slot]
<1>1. /\ disp.pc = "handler" /\ stale = {}
      /\ UNCHANGED <<running, multishot, kpolls, cq, worldVars>>
      /\ Rearm(slots, t)
      /\ disp' = [disp EXCEPT !.pc = "scan", !.pos = disp.pos + 1,
                              !.tag = NoTag, !.who = None]
  BY DEF HandlerReturns
<1>2. t \in Tags /\ NotAhead(t) /\ t.slot \in SlotIds /\ y \in Slot
  BY <1>1 DEF CallbackInv, TypeOK, DispState, NotAhead
<1>3. [slots EXCEPT ![t.slot] = y] = slots
  BY DEF TypeOK
<1>4. /\ slots' \in [SlotIds -> Slot] /\ SlotsAdvance /\ SlotInv' /\ OneSlotPerFd'
      /\ sq' \in Seq(Sqe) /\ kq' \in Seq(Sqe) /\ (TypeOK' => EntryInv')
  BY <1>1, <1>2, <1>3, RearmStep
<1>5. disp.pos + 1 \in Nat \ {0} /\ NoTag \in Tags /\ disp \in DispState /\ Len(cq) \in Nat
  BY UringAssumption DEF TypeOK, DispState, NoTag, Tags
<1>6. /\ disp' \in DispState /\ disp'.pc = "scan" /\ disp'.who = None
      /\ disp'.pass = disp.pass /\ disp'.pos = disp.pos + 1 /\ disp'.count = disp.count
  BY <1>1, <1>5 DEF DispState
<1>7. TypeOK'
  BY <1>1, <1>4, <1>6 DEF TypeOK, worldVars
<1>8. ScanInv'
  BY <1>1, <1>5, <1>6 DEF ScanInv, DispState
<1> QED BY <1>1, <1>4, <1>6, <1>7, <1>8, WalkStep DEF worldVars

LEMMA EndBatchStep == ASSUME TagInv, EndBatch PROVE TagInv'
<1> USE DEF TagInv
<1>1. /\ disp.pc = "scan" /\ UNCHANGED <<slots, running, multishot, kpolls, worldVars>>
      /\ cq' = SubSeq(cq, disp.count + 1, Len(cq))
      /\ disp' = [disp EXCEPT !.pc = IF disp.done \/ ~running THEN "client" ELSE "wait",
                              !.pass = 0, !.pos = 1, !.count = 0, !.snap = 0]
  BY DEF EndBatch
<1>2. PICK ok \in SubmitOutcomes : SetQueues(Submit(Queues, ok))
  BY DEF EndBatch
<1>3. /\ sq' \in Seq(Sqe) /\ kq' \in Seq(Sqe) /\ Pending(Queues)' = Pending(Queues)
  BY <1>2, SubmitPending, QueuesType, SetQueuesType, OutcomeBoolean
<1>4. cq' \in Seq(Cqe) /\ Range(cq') \subseteq Range(cq)
  BY <1>1, RangeSubSeq DEF TypeOK, DispState
<1>5. /\ disp' \in DispState /\ disp'.pc # "handler" /\ disp'.who = disp.who
      /\ disp'.pass = 0 /\ disp'.pos = 1 /\ disp'.pc # "scan"
  <2>1. disp \in DispState /\ 1 \in Nat \ {0} /\ 0 \in Nat /\ 0 \in 0..1
    BY DEF TypeOK
  <2> QED BY <1>1, <2>1 DEF DispState
<1>6. TypeOK'
  BY <1>1, <1>3, <1>4, <1>5 DEF TypeOK, worldVars
<1>7. SlotsAdvance /\ SlotInv' /\ OneSlotPerFd'
  BY <1>1, SameSlots
<1>8. EntryInv'
  BY <1>3, <1>6, <1>7, CarryEntries DEF EntryInv
<1>9. KeepsFiles
  BY <1>1 DEF KeepsFiles, OnFile, worldVars
<1>10. PollInv'
  BY <1>1, <1>6, <1>7, <1>9, CarryPolls DEF PollInv
<1>11. CompletionInv'
  BY <1>4, <1>6, <1>7, <1>9, CarryCompletions DEF CompletionInv
<1>12. CallbackInv'
  BY <1>1, <1>5 DEF CallbackInv, worldVars
<1>13. ScanInv'
  BY <1>5 DEF ScanInv
<1> QED BY <1>6, <1>7, <1>8, <1>10, <1>11, <1>12, <1>13

-----------------------------------------------------------------------------
(* The kernel and the world.                                               *)

(* Steps that leave the slots, the thread and the files alone: they keep   *)
(* the invariant if what they post or arm satisfies its share of it.       *)
LEMMA OutsideStep ==
    ASSUME TagInv, UNCHANGED <<slots, running, multishot, sq, disp, inc, stale>>,
           kq' \in Seq(Sqe), Range(kq') \subseteq Range(kq),
           cq' \in Seq(Cqe), Len(cq') >= Len(cq), kpolls' \in SUBSET KPoll,
           ready' \in SUBSET Fds, env' \in Nat,
           \A p \in kpolls' :
               \/ \E q \in kpolls : p.tag = q.tag /\ p.fd = q.fd /\ p.file = q.file
               \/ /\ NotAhead(p.tag)
                  /\ Current(p.tag) => slots[p.tag.slot].fd = p.fd /\ OnFile(p.fd, p.file),
           \A c \in Range(cq') : c \in Range(cq) \/ c.tag = NoTag \/
               /\ NotAhead(c.tag)
               /\ Current(c.tag) => /\ c.res # "canceled" /\ slots[c.tag.slot].fd = c.fd
                                    /\ OnFile(c.fd, c.file)
    PROVE  TagInv'
<1> USE DEF TagInv
<1>1. TypeOK'
  BY DEF TypeOK
<1>2. SlotInv' /\ OneSlotPerFd'
  BY SameSlots
<1>3. EntryInv'
  BY DEF EntryInv, Pending, Queues, NotAhead, Current
<1>4. PollInv'
  BY DEF PollInv, NotAhead, Current, OnFile
<1>5. CompletionInv'
  BY DEF CompletionInv, NotAhead, Current, OnFile
<1>6. CallbackInv'
  BY DEF CallbackInv, NotAhead
<1>7. ScanInv'
  <2>1. Len(cq) \in Nat /\ Len(cq') \in Nat /\ disp.pos \in Nat /\ disp.count \in Nat
    BY <1>1 DEF TypeOK, DispState
  <2> QED BY <2>1 DEF ScanInv
<1> QED BY <1>1, <1>2, <1>3, <1>4, <1>5, <1>6, <1>7

LEMMA AppendCq ==
    ASSUME TypeOK, NEW c \in Cqe
    PROVE  /\ Append(cq, c) \in Seq(Cqe) /\ Range(Append(cq, c)) = Range(cq) \cup {c}
           /\ Len(Append(cq, c)) >= Len(cq) /\ Len(Append(cq, c)) \in Nat
BY RangeAppend DEF TypeOK

LEMMA HeadFacts ==
    ASSUME TagInv, kq # <<>>
    PROVE  /\ Head(kq) \in Sqe /\ Head(kq) \in Pending(Queues)
           /\ Tail(kq) \in Seq(Sqe) /\ Range(Tail(kq)) \subseteq Range(kq)
BY RangeTail DEF TagInv, TypeOK, Pending, Queues

LEMMA KernelPollStep == ASSUME TagInv, KernelPoll PROVE TagInv'
<1> USE DEF TagInv
<1> DEFINE e == Head(kq)
           poll == [tag |-> e.tag, fd |-> e.fd, file |-> inc[e.fd],
                    multi |-> e.multi, woken |-> FALSE]
           c(res, more) == Complete(e.tag, e.fd, inc[e.fd], res, more)
<1>1. /\ UNCHANGED <<slots, running, multishot, sq, disp, ready, inc, stale>>
      /\ kq' = Tail(kq) /\ kq # <<>> /\ env' \in Nat
      /\ kpolls' \in {kpolls, kpolls \cup {poll}}
      /\ \/ cq' = cq
         \/ \E res \in {"ready", "einval", "error", "again"}, more \in BOOLEAN :
               cq' = Append(cq, c(res, more))
  <2>1. e.multi \in BOOLEAN
    BY HeadFacts DEF KernelPoll, Sqe
  <2>2. /\ UNCHANGED <<slots, running, multishot, sq, disp, ready, inc, stale>>
        /\ kq' = Tail(kq) /\ kq # <<>>
    BY DEF KernelPoll
  <2>3. \/ cq' = Append(cq, c("einval", FALSE)) /\ UNCHANGED <<kpolls, env>>
        \/ /\ cq' = Append(cq, c("ready", e.multi)) \/ cq' = cq
           /\ kpolls' \in {kpolls, kpolls \cup {poll}} /\ UNCHANGED env
        \/ /\ Spend /\ UNCHANGED kpolls
           /\ \E res \in Faults \cap {"error", "again"} : cq' = Append(cq, c(res, FALSE))
    BY DEF KernelPoll
  <2>4. env' \in Nat
    <3>1. Spend \/ UNCHANGED env
      BY <2>3
    <3> QED BY <3>1 DEF Spend, TypeOK
  <2>5. CASE cq' = Append(cq, c("einval", FALSE)) /\ UNCHANGED <<kpolls, env>>
    BY <2>2, <2>4, <2>5
  <2>6. CASE /\ cq' = Append(cq, c("ready", e.multi)) \/ cq' = cq
             /\ kpolls' \in {kpolls, kpolls \cup {poll}} /\ UNCHANGED env
    BY <2>1, <2>2, <2>4, <2>6
  <2>7. CASE /\ Spend /\ UNCHANGED kpolls
             /\ \E res \in Faults \cap {"error", "again"} : cq' = Append(cq, c(res, FALSE))
    <3>1. PICK res \in {"error", "again"} : cq' = Append(cq, c(res, FALSE))
      BY <2>7
    <3>2. \E r \in {"ready", "einval", "error", "again"}, more \in BOOLEAN :
            cq' = Append(cq, c(r, more))
      <4> HIDE DEF c
      <4> QED BY <3>1
    <3> QED BY <2>2, <2>4, <2>7, <3>2
  <2> QED BY <2>3, <2>5, <2>6, <2>7
<1>2. /\ e \in Sqe /\ e \in Pending(Queues) /\ kq' \in Seq(Sqe)
      /\ Range(kq') \subseteq Range(kq)
  BY <1>1, HeadFacts
<1>3. /\ NotAhead(e.tag)
      /\ Current(e.tag) => slots[e.tag.slot].fd = e.fd /\ OnFile(e.fd, inc[e.fd])
  BY <1>2 DEF EntryInv, OnFile
<1>4. inc[e.fd] \in Nat /\ poll \in KPoll
  BY <1>2 DEF TypeOK, Sqe, KPoll
<1>5. \A res \in {"ready", "einval", "error", "again"}, more \in BOOLEAN : c(res, more) \in Cqe
  BY <1>2, <1>4 DEF Complete, Cqe, Sqe
<1>6. /\ cq' \in Seq(Cqe) /\ Len(cq') >= Len(cq)
      /\ \A d \in Range(cq') : d \in Range(cq) \/
            (d.tag = e.tag /\ d.fd = e.fd /\ d.file = inc[e.fd] /\ d.res # "canceled")
  <2>1. CASE cq' = cq
    BY <2>1 DEF TypeOK
  <2>2. ASSUME NEW res \in {"ready", "einval", "error", "again"}, NEW more \in BOOLEAN,
               cq' = Append(cq, c(res, more))
        PROVE  <1>6!:
    BY <1>5, <2>2, AppendCq DEF Complete
  <2> QED BY <1>1, <2>1, <2>2
<1>7. \A p \in kpolls' : p \in kpolls \/ p = poll
  BY <1>1
<1>8. kpolls' \in SUBSET KPoll /\ ready' \in SUBSET Fds
  BY <1>1, <1>4 DEF TypeOK
<1> QED BY <1>1, <1>2, <1>3, <1>6, <1>7, <1>8, OutsideStep

LEMMA KernelRemoveStep == ASSUME TagInv, KernelRemove PROVE TagInv'
<1> USE DEF TagInv
<1> DEFINE e    == Head(kq)
           done == Complete(NoTag, e.fd, inc[e.fd], "ready", FALSE)
           ends == Complete(e.tag, e.fd, inc[e.fd], "canceled", FALSE)
<1>1. /\ UNCHANGED <<slots, running, multishot, sq, disp, worldVars>>
      /\ kq' = Tail(kq) /\ kq # <<>> /\ e.op = "remove"
      /\ kpolls' \in SUBSET kpolls
      /\ cq' = Append(cq, done) \/ cq' = Append(Append(cq, ends), done)
  BY DEF KernelRemove
<1>2. /\ e \in Sqe /\ e \in Pending(Queues) /\ kq' \in Seq(Sqe)
      /\ Range(kq') \subseteq Range(kq)
  BY <1>1, HeadFacts
<1>3. NotAhead(e.tag) /\ ~Current(e.tag)
  BY <1>1, <1>2 DEF EntryInv
<1>4. done \in Cqe /\ ends \in Cqe
  BY <1>2, UringAssumption DEF Complete, Cqe, Sqe, TypeOK, NoTag, Tags
<1>5. done.tag = NoTag /\ ends.tag = e.tag
  BY DEF Complete
<1>6. /\ cq' \in Seq(Cqe) /\ Len(cq') >= Len(cq)
      /\ \A c \in Range(cq') : c \in Range(cq) \/ c = done \/ c = ends
  <2> HIDE DEF done, ends
  <2>1. CASE cq' = Append(cq, done)
    BY <1>4, <2>1, AppendCq
  <2>2. CASE cq' = Append(Append(cq, ends), done)
    <3>1. Append(cq, ends) \in Seq(Cqe) /\ Range(Append(cq, ends)) = Range(cq) \cup {ends}
      BY <1>4, AppendCq
    <3> DEFINE a == Append(cq, ends)
    <3>2. a \in Seq(Cqe) /\ Len(a) = Len(cq) + 1 /\ Len(cq) \in Nat
      BY <3>1 DEF TypeOK
    <3> HIDE DEF a
    <3>3. Append(a, done) \in Seq(Cqe) /\ Range(Append(a, done)) = Range(a) \cup {done}
      BY <1>4, <3>2, RangeAppend
    <3>4. Len(Append(a, done)) = Len(a) + 1
      BY <1>4, <3>2
    <3>5. cq' = Append(a, done) /\ Range(a) = Range(cq) \cup {ends}
      BY <2>2, <3>1 DEF a
    <3> QED BY <3>2, <3>3, <3>4, <3>5
  <2> QED BY <1>1, <2>1, <2>2
<1> HIDE DEF done, ends
<1>7. kpolls' \in SUBSET KPoll /\ ready' \in SUBSET Fds /\ env' \in Nat
      /\ UNCHANGED <<inc, stale>>
  BY <1>1 DEF TypeOK, worldVars
<1>8. \A p \in kpolls' : p \in kpolls
  BY <1>1
<1> QED BY <1>1, <1>2, <1>3, <1>5, <1>6, <1>7, <1>8, OutsideStep

LEMMA KernelWakeStep == ASSUME TagInv, KernelWake PROVE TagInv'
<1> USE DEF TagInv
<1>1. PICK p \in kpolls :
        /\ kpolls' \in SUBSET (kpolls \cup {[p EXCEPT !.woken = FALSE]})
        /\ cq' = cq \/ \E more \in BOOLEAN :
                        cq' = Append(cq, Complete(p.tag, p.fd, p.file, "ready", more))
        /\ env' \in Nat
  <2>1. PICK p \in kpolls :
          IF p.fd \in ready \/ p.file # inc[p.fd]
          THEN \E more \in BOOLEAN :
                 /\ cq' = Append(cq, Complete(p.tag, p.fd, p.file, "ready", more))
                 /\ kpolls' = (kpolls \ {p}) \cup
                              {[q EXCEPT !.woken = FALSE] : q \in {r \in {p} : more}}
                 /\ IF p.multi /\ ~more THEN Spend ELSE UNCHANGED env
          ELSE /\ kpolls' = (kpolls \ {p}) \cup {[p EXCEPT !.woken = FALSE]}
               /\ UNCHANGED <<cq, env>>
    BY DEF KernelWake
  <2>2. env' \in Nat
    BY <2>1 DEF Spend, TypeOK
  <2>3. kpolls' \in SUBSET (kpolls \cup {[p EXCEPT !.woken = FALSE]})
    BY <2>1
  <2> QED BY <2>1, <2>2, <2>3
<1>2. UNCHANGED <<slots, running, multishot, sq, kq, disp, ready, inc, stale>>
  BY DEF KernelWake
<1>3. p \in KPoll
  BY DEF TypeOK
<1> DEFINE q == [p EXCEPT !.woken = FALSE]
<1>4. q \in KPoll /\ q.tag = p.tag /\ q.fd = p.fd /\ q.file = p.file
  BY <1>3 DEF KPoll
<1>5. /\ NotAhead(p.tag)
      /\ Current(p.tag) => slots[p.tag.slot].fd = p.fd /\ OnFile(p.fd, p.file)
  BY DEF PollInv
<1>6. /\ cq' \in Seq(Cqe) /\ Len(cq') >= Len(cq)
      /\ \A d \in Range(cq') : d \in Range(cq) \/
            (d.tag = p.tag /\ d.fd = p.fd /\ d.file = p.file /\ d.res # "canceled")
  <2>1. CASE cq' = cq
    BY <2>1 DEF TypeOK
  <2>2. ASSUME NEW more \in BOOLEAN,
               cq' = Append(cq, Complete(p.tag, p.fd, p.file, "ready", more))
        PROVE  <1>6!:
    <3>1. Complete(p.tag, p.fd, p.file, "ready", more) \in Cqe
      BY <1>3 DEF Complete, Cqe, KPoll
    <3> QED BY <2>2, <3>1, AppendCq DEF Complete
  <2> QED BY <1>1, <2>1, <2>2
<1> HIDE DEF q
<1>7. kpolls' \in SUBSET KPoll /\ kq' \in Seq(Sqe) /\ ready' \in SUBSET Fds
  BY <1>1, <1>2, <1>4 DEF TypeOK, q
<1>8. \A r \in kpolls' : r \in kpolls \/ r = q
  BY <1>1 DEF q
<1> QED BY <1>1, <1>2, <1>4, <1>5, <1>6, <1>7, <1>8, OutsideStep

LEMMA ArriveStep == ASSUME TagInv, NEW fd \in Fds, Arrive(fd) PROVE TagInv'
<1> USE DEF TagInv
<1>1. /\ UNCHANGED <<slots, running, multishot, sq, kq, cq, disp, inc, stale>>
      /\ ready' = ready \cup {fd} /\ env' \in Nat
      /\ kpolls' = {[p EXCEPT !.woken = p.woken \/ (p.fd = fd /\ p.file = inc[fd])] :
                     p \in kpolls}
  BY DEF Arrive, Spend, TypeOK
<1>2. \A p \in kpolls' : \E q \in kpolls :
        /\ p \in KPoll /\ p.tag = q.tag /\ p.fd = q.fd /\ p.file = q.file
  <2> TAKE p \in kpolls'
  <2>1. PICK q \in kpolls :
          p = [q EXCEPT !.woken = q.woken \/ (q.fd = fd /\ q.file = inc[fd])]
    BY <1>1
  <2>2. q \in KPoll /\ (q.woken \/ (q.fd = fd /\ q.file = inc[fd])) \in BOOLEAN
    BY DEF TypeOK, KPoll
  <2>3. p \in KPoll /\ p.tag = q.tag /\ p.fd = q.fd /\ p.file = q.file
    BY <2>1, <2>2 DEF KPoll
  <2> QED BY <2>3
<1>3. /\ kpolls' \in SUBSET KPoll /\ kq' \in Seq(Sqe) /\ cq' \in Seq(Cqe)
      /\ ready' \in SUBSET Fds /\ Len(cq') >= Len(cq)
  BY <1>1, <1>2 DEF TypeOK
<1> QED BY <1>1, <1>2, <1>3, OutsideStep

-----------------------------------------------------------------------------
(* The theorems.                                                           *)

LEMMA TagInvInit == Init => TagInv
<1> SUFFICES ASSUME Init PROVE TagInv
  OBVIOUS
<1> USE DEF Init
<1>1. NoTag \in Tags /\ Vacant(0) \in Slot
  BY UringAssumption DEF NoTag, Tags, Vacant, Slot
<1>2. \A s \in SlotIds : slots[s] = Vacant(0)
  OBVIOUS
<1>3. TypeOK
  BY <1>1 DEF TypeOK, DispState
<1>4. SlotInv /\ OneSlotPerFd
  BY <1>2 DEF SlotInv, OneSlotPerFd, Vacant
<1>5. EntryInv /\ PollInv /\ CompletionInv
  BY RangeEmpty DEF EntryInv, PollInv, CompletionInv, Pending, Queues
<1>6. CallbackInv /\ ScanInv
  BY DEF CallbackInv, ScanInv
<1> QED BY <1>3, <1>4, <1>5, <1>6 DEF TagInv

LEMMA TagInvStep == TagInv /\ [Next]_vars => TagInv'
<1> SUFFICES ASSUME TagInv, [Next]_vars PROVE TagInv'
  OBVIOUS
<1>1. ASSUME NEW fd \in Fds, NEW type \in Types, NEW mask \in Masks, AddPoll(fd, type, mask)
      PROVE  TagInv'
  BY <1>1, AddPollStep
<1>2. ASSUME NEW fd \in Fds, RemovePoll(fd) PROVE TagInv'
  BY <1>2, RemovePollStep
<1>3. ASSUME NEW fd \in Fds, Reopen(fd) PROVE TagInv'
  BY <1>3, ReopenStep
<1>4. CASE Stop \/ Enter \/ Interrupted \/ WaitCqe \/ Skip \/ EndFirstPass
  BY <1>4, ThreadStep
<1>5. CASE Again
  BY <1>5, AgainStep
<1>6. CASE FallBack
  BY <1>6, FallBackStep
<1>7. CASE Drop
  BY <1>7, DropStep
<1>8. CASE Deliver
  BY <1>8, DeliverStep
<1>9. CASE HandlerReturns
  BY <1>9, HandlerReturnsStep
<1>10. CASE EndBatch
  BY <1>10, EndBatchStep
<1>11. CASE KernelPoll
  BY <1>11, KernelPollStep
<1>12. CASE KernelRemove
  BY <1>12, KernelRemoveStep
<1>13. CASE KernelWake
  BY <1>13, KernelWakeStep
<1>14. ASSUME NEW fd \in Fds, Arrive(fd) PROVE TagInv'
  BY <1>14, ArriveStep
<1>15. CASE UNCHANGED vars
  BY <1>15 DEF vars, TagInv, TypeOK, SlotInv, OneSlotPerFd, EntryInv, PollInv, CompletionInv,
     CallbackInv, ScanInv, Pending, Queues, NotAhead, Current, OnFile
<1> QED BY <1>1, <1>2, <1>3, <1>4, <1>5, <1>6, <1>7, <1>8, <1>9, <1>10, <1>11, <1>12,
           <1>13, <1>14, <1>15 DEF Next, ClientStep, Dispatch, Kernel

(* The tag invariant holds for every slot table, ring depth and fault set. *)
THEOREM TagInvariant == Spec => []TagInv
BY TagInvInit, TagInvStep, PTL DEF Spec

(* Type correctness of the event loop's state. *)
THEOREM TypeCorrect == Spec => []TypeOK
<1>1. TagInv => TypeOK
  BY DEF TagInv
<1> QED BY <1>1, TagInvariant, PTL

(* The cancellation of a withdrawn poll never reaches a registered slot.   *)
THEOREM CanceledStale == Spec => []CanceledIsStale
<1>1. TagInv => CanceledIsStale
  BY DEF TagInv, CompletionInv, CanceledIsStale, Live, Current
<1> QED BY <1>1, TagInvariant, PTL

(* A callback runs only for the file its completion's poll was armed on.   *)
THEOREM DeliveryCurrent == Spec => DeliveryIsCurrent
<1>1. TagInv /\ [Next]_vars => [DeliveryStep]_vars
  <2> SUFFICES ASSUME TagInv, Next, disp.pc = "scan", disp'.pc = "handler"
               PROVE  disp'.who[1] = Cur.fd /\ Cur.file = inc[Cur.fd]
    BY DEF DeliveryStep
  <2>0. disp \in DispState
    BY DEF TagInv, TypeOK
  <2>1. Deliver
    <3>1. disp' # disp
      OBVIOUS
    <3>2. ~(Skip \/ Again \/ FallBack \/ Drop)
      BY <2>0 DEF Skip, Again, FallBack, Drop, Onward, DispState
    <3>3. ~(EndFirstPass \/ EndBatch)
      BY <2>0 DEF EndFirstPass, EndBatch, DispState
    <3>4. ~(HandlerReturns \/ WaitCqe \/ Enter \/ Interrupted \/ Stop)
      BY DEF HandlerReturns, WaitCqe, Enter, Interrupted, Stop
    <3>5. ~Kernel
      BY <3>1 DEF Kernel, KernelPoll, KernelRemove, KernelWake
    <3>6. \A fd \in Fds : ~(RemovePoll(fd) \/ Reopen(fd) \/ Arrive(fd))
      BY <3>1 DEF RemovePoll, Reopen, Arrive
    <3>7. \A fd \in Fds, type \in Types, mask \in Masks : ~AddPoll(fd, type, mask)
      BY <3>1 DEF AddPoll
    <3> QED BY <3>2, <3>3, <3>4, <3>5, <3>6, <3>7 DEF Next, ClientStep, Dispatch
  <2> DEFINE s == Cur.tag.slot
  <2>2. InScan /\ Mine(Cur) /\ disp'.who = <<slots[s].fd, slots[s].type>>
    BY <2>0, <2>1 DEF Deliver, DispState
  <2>3. Cur \in Range(cq) /\ slots[s].tag = Cur.tag /\ Cur.tag # NoTag
    BY <2>2, CursorFacts
  <2>4. slots[s].fd = Cur.fd /\ OnFile(Cur.fd, Cur.file)
    BY <2>3 DEF TagInv, CompletionInv, Current
  <2>5. stale = {}
    BY DEF TagInv, CallbackInv
  <2> QED BY <2>2, <2>4, <2>5 DEF OnFile
<1> QED BY <1>1, TagInvariant, PTL DEF Spec, DeliveryIsCurrent

-----------------------------------------------------------------------------
(* The refinement of EventLoop.                                            *)

LEMMA RegsSame ==
    ASSUME \A s \in SlotIds : /\ slots'[s].active <=> slots[s].active
                              /\ slots[s].active => /\ slots'[s].fd = slots[s].fd
                                                    /\ slots'[s].type = slots[s].type
    PROVE  Regs' = Regs
BY DEF Regs

(* A slot that is given up takes its interest with it. *)
LEMMA RegsGone ==
    ASSUME TagInv, NEW s \in SlotIds, slots[s].active, NEW g,
           slots' = [slots EXCEPT ![s] = Vacant(g)]
    PROVE  \E i \in Interest : i \in Regs /\ Regs' = Regs \ {i}
<1> DEFINE i == <<slots[s].fd, slots[s].type>>
<1>1. i \in Interest /\ i \in Regs
  BY DEF TagInv, SlotInv, Regs
<1>2. ~slots'[s].active /\ \A t \in SlotIds \ {s} : slots'[t] = slots[t]
  BY DEF TagInv, TypeOK, Vacant
<1>3. \A t \in SlotIds \ {s} : slots[t].active => <<slots[t].fd, slots[t].type>> # i
  BY DEF TagInv, OneSlotPerFd
<1>4. Regs' = Regs \ {i}
  BY <1>2, <1>3 DEF Regs
<1> QED BY <1>1, <1>4

LEMMA RegsNew ==
    ASSUME TypeOK, NEW s \in SlotIds, ~slots[s].active, NEW x, x.active,
           <<x.fd, x.type>> \in Interest, ~Registered(x.fd),
           slots' = [slots EXCEPT ![s] = x]
    PROVE  \E i \in Interest : i \notin Regs /\ Regs' = Regs \cup {i}
<1> DEFINE i == <<x.fd, x.type>>
<1>1. slots'[s] = x /\ \A t \in SlotIds \ {s} : slots'[t] = slots[t]
  BY DEF TypeOK
<1>2. i \notin Regs
  BY DEF Regs, Registered
<1>3. Regs' = Regs \cup {i}
  BY <1>1 DEF Regs
<1> QED BY <1>2, <1>3

(* The tail of the loop body changes no registration. *)
LEMMA RearmRegs ==
    ASSUME TypeOK, NEW t, t.slot \in SlotIds, NEW tab \in [SlotIds -> Slot],
           \A s \in SlotIds : /\ tab[s].active <=> slots[s].active
                              /\ tab[s].fd = slots[s].fd /\ tab[s].type = slots[s].type,
           Rearm(tab, t)
    PROVE  Regs' = Regs
<1> DEFINE y == tab[t.slot]
<1>1. CASE slots' = tab
  BY <1>1, RegsSame
<1>2. CASE y.active /\ slots' = [tab EXCEPT ![t.slot] =
                                    Armed(y, t.slot, y.fd, y.type, y.mask, y.multi)]
  <2>1. /\ slots'[t.slot].active /\ slots'[t.slot].fd = y.fd /\ slots'[t.slot].type = y.type
        /\ \A s \in SlotIds \ {t.slot} : slots'[s] = tab[s]
    BY <1>2 DEF Armed
  <2> QED BY <1>2, <2>1, RegsSame
<1> QED BY <1>1, <1>2 DEF Rearm, MayRearm

LEMMA RefinementInit == Init => Loop!Init
BY DEF Init, Loop!Init, Regs, Vacant

LEMMA RefinementStep == TagInv /\ [Next]_vars => [Loop!Next]_(Loop!vars)
<1> SUFFICES ASSUME TagInv, [Next]_vars PROVE [Loop!Next]_(Loop!vars)
  OBVIOUS
<1> USE DEF Loop!vars
<1>0. disp \in DispState /\ slots \in [SlotIds -> Slot] /\ TypeOK
  BY DEF TagInv, TypeOK
<1>1. ASSUME NEW i \in Interest, i \in Regs, Regs' = Regs \ {i}, disp'.who = disp.who
      PROVE  Loop!Next
  BY <1>1 DEF Loop!Next, Loop!Unregister
<1>2. ASSUME NEW i \in Interest, i \notin Regs, Regs' = Regs \cup {i}, disp'.who = disp.who
      PROVE  Loop!Next
  BY <1>2 DEF Loop!Next, Loop!Register
<1>3. ASSUME NEW fd \in Fds, NEW type \in Types, NEW mask \in Masks, AddPoll(fd, type, mask)
      PROVE  [Loop!Next]_(Loop!vars)
  <2>0. PICK s \in AddTarget(fd, type) : \E x :
          /\ slots' = [slots EXCEPT ![s] = x]
          /\ \/ x.active = slots[s].active /\ x.fd = slots[s].fd /\ x.type = slots[s].type
             \/ x.active /\ x.fd = fd /\ x.type = type
             \/ \E g : x = Vacant(g)
    <3>1. PICK s \in AddTarget(fd, type), ok \in SubmitOutcomes :
            LET slot  == slots[s]
                new   == Armed(slot, s, fd, type, mask, multishot)
            IN  \/ slots' = [slots EXCEPT ![s] = slot]
                \/ slots' = [slots EXCEPT ![s] = [slot EXCEPT !.inFlight = FALSE, !.tag = NoTag]]
                \/ slots' = [slots EXCEPT ![s] = new]
                \/ slots' = [slots EXCEPT ![s] = Vacant(new.gen)]
      BY <1>3 DEF AddPoll
    <3>2. s \in SlotIds /\ slots[s] \in Slot
      BY <1>0 DEF AddTarget, Matching, FreeSlots
    <3> DEFINE r == [slots[s] EXCEPT !.inFlight = FALSE, !.tag = NoTag]
               n == Armed(slots[s], s, fd, type, mask, multishot)
    <3>3. r.active = slots[s].active /\ r.fd = slots[s].fd /\ r.type = slots[s].type
      BY <3>2 DEF Slot
    <3>4. n.active /\ n.fd = fd /\ n.type = type
      BY DEF Armed
    <3> HIDE DEF r, n
    <3> QED BY <3>1, <3>3, <3>4 DEF r, n
  <2>1. PICK x :
          /\ slots' = [slots EXCEPT ![s] = x]
          /\ \/ x.active = slots[s].active /\ x.fd = slots[s].fd /\ x.type = slots[s].type
             \/ x.active /\ x.fd = fd /\ x.type = type
             \/ \E g : x = Vacant(g)
    BY <2>0
  <2>2. /\ s \in SlotIds /\ <<fd, type>> \in Interest /\ disp' = disp
        /\ slots[s].active => slots[s].fd = fd /\ slots[s].type = type
        /\ ~slots[s].active => ~Registered(fd)
    BY <1>3 DEF AddPoll, AddTarget, Matching, FreeSlots
  <2>3. slots'[s] = x /\ \A t \in SlotIds \ {s} : slots'[t] = slots[t]
    BY <1>0, <2>1, <2>2
  <2>4. CASE x.active = slots[s].active /\ x.fd = slots[s].fd /\ x.type = slots[s].type
    BY <2>2, <2>3, <2>4, RegsSame
  <2>5. CASE x.active /\ x.fd = fd /\ x.type = type
    <3>1. CASE slots[s].active
      <4>1. Regs' = Regs
        BY <2>2, <2>3, <2>5, <3>1, RegsSame
      <4> QED BY <4>1, <2>2
    <3>2. CASE ~slots[s].active
      <4>1. \E i \in Interest : i \notin Regs /\ Regs' = Regs \cup {i}
        BY <1>0, <2>1, <2>2, <2>5, <3>2, RegsNew
      <4> QED BY <4>1, <2>2, <1>2
    <3> QED BY <3>1, <3>2
  <2>6. CASE \E g : x = Vacant(g)
    <3>1. CASE slots[s].active
      <4>1. \E i \in Interest : i \in Regs /\ Regs' = Regs \ {i}
        BY <2>1, <2>2, <2>6, <3>1, RegsGone
      <4> QED BY <4>1, <2>2, <1>1
    <3>2. CASE ~slots[s].active
      <4>1. ~slots'[s].active
        BY <2>3, <2>6 DEF Vacant
      <4>2. Regs' = Regs
        BY <2>3, <3>2, <4>1, RegsSame
      <4> QED BY <4>2, <2>2
    <3> QED BY <3>1, <3>2
  <2> QED BY <2>1, <2>4, <2>5, <2>6
<1>4. ASSUME NEW fd \in Fds, RemovePoll(fd) PROVE [Loop!Next]_(Loop!vars)
  <2>1. \E i \in Interest : i \in Regs /\ Regs' = Regs \ {i}
    BY <1>4, RegsGone DEF RemovePoll
  <2>2. disp' = disp
    BY <1>4 DEF RemovePoll
  <2> QED BY <2>1, <2>2, <1>1
<1>5. ASSUME slots' = slots, disp'.who = disp.who PROVE [Loop!Next]_(Loop!vars)
  BY <1>5, RegsSame
<1>6. CASE Stop \/ Enter \/ Interrupted \/ WaitCqe \/ Skip \/ EndFirstPass \/ EndBatch
  <2>1. slots' = slots
    BY <1>6 DEF Stop, Enter, Interrupted, WaitCqe, Skip, EndFirstPass, EndBatch
  <2>2. disp'.who = disp.who
    BY <1>6, <1>0 DEF Stop, Enter, Interrupted, WaitCqe, Skip, EndFirstPass, EndBatch, Onward, DispState
  <2> QED BY <1>5, <2>1, <2>2
<1>7. CASE Kernel
  BY <1>7, <1>5 DEF Kernel, KernelPoll, KernelRemove, KernelWake
<1>8. ASSUME NEW fd \in Fds, Reopen(fd) \/ Arrive(fd) PROVE [Loop!Next]_(Loop!vars)
  BY <1>8, <1>5 DEF Reopen, Arrive
<1>9. CASE Again \/ FallBack
  <2> DEFINE t == Cur.tag
             y == Completed(slots[t.slot], Cur.more)
             z == [slots[t.slot] EXCEPT !.multi = FALSE, !.inFlight = FALSE]
  <2>1. InScan /\ Mine(Cur) /\ Onward
    BY <1>9 DEF Again, FallBack
  <2>2. t.slot \in SlotIds /\ Cur.more \in BOOLEAN /\ slots[t.slot] \in Slot
    BY <2>1, <1>0, CursorFacts DEF Cqe
  <2>3. /\ y \in Slot /\ y.active = slots[t.slot].active /\ y.fd = slots[t.slot].fd
        /\ y.type = slots[t.slot].type
    BY <2>2, CompletedSlot
  <2>4. /\ z \in Slot /\ z.active = slots[t.slot].active /\ z.fd = slots[t.slot].fd
        /\ z.type = slots[t.slot].type
    BY <2>2 DEF Slot
  <2>5. [slots EXCEPT ![t.slot].multi = FALSE, ![t.slot].inFlight = FALSE]
          = [slots EXCEPT ![t.slot] = z]
    BY <1>0, <2>2 DEF Slot
  <2>6. Rearm([slots EXCEPT ![t.slot] = y], t) \/ Rearm([slots EXCEPT ![t.slot] = z], t)
    BY <1>9, <2>5 DEF Again, FallBack
  <2> HIDE DEF y, z
  <2>7. ASSUME NEW v \in {y, z}, Rearm([slots EXCEPT ![t.slot] = v], t) PROVE Regs' = Regs
    <3> DEFINE tab == [slots EXCEPT ![t.slot] = v]
    <3>1. /\ tab \in [SlotIds -> Slot]
          /\ \A s \in SlotIds : /\ tab[s].active <=> slots[s].active
                                /\ tab[s].fd = slots[s].fd /\ tab[s].type = slots[s].type
      BY <1>0, <2>2, <2>3, <2>4
    <3> HIDE DEF tab
    <3>2. Rearm(tab, t)
      BY <2>7 DEF tab
    <3> QED BY <1>0, <2>2, <3>1, <3>2, RearmRegs
  <2>8. Regs' = Regs
    BY <2>6, <2>7
  <2>9. disp'.who = disp.who
    BY <2>1, <1>0 DEF Onward, DispState
  <2> QED BY <2>8, <2>9
<1>10. CASE Drop
  <2> DEFINE t == Cur.tag
  <2>1. t.slot \in SlotIds /\ slots[t.slot].active /\ InScan /\ Onward
    BY <1>10, CursorFacts DEF Drop
  <2>2. disp'.who = disp.who
    BY <2>1, <1>0 DEF Onward, DispState
  <2>3. CASE Cur.more
    BY <1>5, <1>10, <2>2, <2>3 DEF Drop
  <2>4. CASE ~Cur.more
    <3>1. slots' = [slots EXCEPT ![t.slot] = Vacant(slots[t.slot].gen)]
      BY <1>10, <2>4 DEF Drop
    <3>2. \E i \in Interest : i \in Regs /\ Regs' = Regs \ {i}
      BY <2>1, <3>1, RegsGone
    <3> QED BY <1>1, <2>2, <3>2
  <2> QED BY <2>3, <2>4
<1>11. CASE Deliver
  <2> DEFINE t == Cur.tag
             y == Completed(slots[t.slot], Cur.more)
             i == <<slots[t.slot].fd, slots[t.slot].type>>
  <2>1. /\ t.slot \in SlotIds /\ slots[t.slot].active /\ disp.pc = "scan"
        /\ Cur.more \in BOOLEAN /\ slots[t.slot] \in Slot
    BY <1>0, <1>11, CursorFacts DEF Deliver, Cqe
  <2>2. slots' = [slots EXCEPT ![t.slot] = y] /\ disp'.who = i
    BY <1>0, <1>11 DEF Deliver, DispState
  <2>3. y.active = slots[t.slot].active /\ y.fd = slots[t.slot].fd /\ y.type = slots[t.slot].type
    BY <2>1, CompletedSlot
  <2> HIDE DEF y
  <2>4. Regs' = Regs
    BY <1>0, <2>1, <2>2, <2>3, RegsSame
  <2>5. i \in Interest /\ i \in Regs
    BY <2>1 DEF TagInv, SlotInv, Regs
  <2>6. disp.who = None
    BY <2>1 DEF TagInv, CallbackInv
  <2> QED BY <2>2, <2>4, <2>5, <2>6 DEF Loop!Next, Loop!Call
<1>12. CASE HandlerReturns
  <2>1. disp.who # None /\ disp'.who = None
    BY <1>0, <1>12 DEF HandlerReturns, TagInv, CallbackInv, DispState
  <2>2. disp.tag.slot \in SlotIds /\ Rearm(slots, disp.tag)
    BY <1>12 DEF HandlerReturns, TagInv, CallbackInv, NotAhead
  <2>3. Regs' = Regs
    BY <1>0, <2>2, RearmRegs
  <2> QED BY <2>1, <2>3 DEF Loop!Next, Loop!Return
<1>13. CASE UNCHANGED vars
  BY <1>5, <1>13 DEF vars
<1> QED BY <1>3, <1>4, <1>6, <1>7, <1>8, <1>9, <1>10, <1>11, <1>12, <1>13
        DEF Next, ClientStep, Dispatch

(* The io_uring loop implements the contract its clients rely on.          *)
THEOREM Refinement == Spec => RefinesEventLoop
<1>1. Spec => Loop!Spec
  BY RefinementInit, RefinementStep, TagInvariant, PTL DEF Spec, Loop!Spec
<1> QED BY <1>1 DEF RefinesEventLoop

-----------------------------------------------------------------------------
(***************************************************************************)
(* The polls of the event loop: nothing is armed in the kernel that no     *)
(* slot owns, no slot claims a poll that is not there, and no registration *)
(* is left without one.                                                    *)
(*                                                                         *)
(* Three inductive invariants, each on top of TagInv.  KeptInv follows a   *)
(* poll along the line to the kernel: it is the poll of a slot in flight   *)
(* or its withdrawal is behind it in the line, there is one poll to a tag, *)
(* and a completion that ends a request leaves no poll of its tag.         *)
(* HeardInv says which slots may be without a poll while the thread is     *)
(* inside of dispatch, AwaitedInv what a slot in flight waits for and that *)
(* the walk has yet to come to it.                                         *)
(*                                                                         *)
(* NoPollOrphaned and NobodyGoesDeaf are about loops whose submissions     *)
(* succeed (Submits).  When io_uring_submit fails uring_loop_add_poll      *)
(* clears the slot and leaves its entry in the ring, and                   *)
(* uring_loop_remove_poll gives a withdrawal up if the full ring cannot be *)
(* flushed: neither holds then.  FlagTellsTruth always does.               *)
(***************************************************************************)
(* Sequences, and the line: the entries on their way, oldest first.        *)

LineOf(q) == q.kq \o q.sq
Line == LineOf(Queues)

LEMMA SameSeq ==
    ASSUME NEW S, NEW q \in Seq(S), NEW r \in Seq(S), Len(q) = Len(r),
           \A i \in 1..Len(q) : q[i] = r[i]
    PROVE  q = r
<1>1. DOMAIN q = 1..Len(q) /\ DOMAIN r = 1..Len(q)
  OBVIOUS
<1>2. q = [i \in 1..Len(q) |-> q[i]] /\ r = [i \in 1..Len(q) |-> r[i]]
  BY <1>1
<1> QED BY <1>2

LEMMA ConcatAppend ==
    ASSUME NEW S, NEW q \in Seq(S), NEW r \in Seq(S), NEW e \in S
    PROVE  q \o Append(r, e) = Append(q \o r, e)
<1> DEFINE a == q \o Append(r, e)
           b == Append(q \o r, e)
<1>1. /\ Append(r, e) \in Seq(S) /\ Len(Append(r, e)) = Len(r) + 1
      /\ q \o r \in Seq(S) /\ Len(q \o r) = Len(q) + Len(r)
      /\ Len(q) \in Nat /\ Len(r) \in Nat
  OBVIOUS
<1>2. a \in Seq(S) /\ b \in Seq(S) /\ Len(a) = Len(q) + Len(r) + 1 /\ Len(b) = Len(a)
  BY <1>1
<1>3. ASSUME NEW i \in 1..Len(a) PROVE a[i] = b[i]
  BY <1>1
<1> HIDE DEF a, b
<1>4. a = b
  BY <1>2, <1>3, SameSeq
<1> QED BY <1>4 DEF a, b

LEMMA ConcatEmpty == ASSUME NEW S, NEW q \in Seq(S) PROVE q \o << >> = q
<1>1. q \o << >> \in Seq(S) /\ Len(q \o << >>) = Len(q)
  OBVIOUS
<1>2. \A i \in 1..Len(q) : (q \o << >>)[i] = q[i]
  OBVIOUS
<1> QED BY <1>1, <1>2, SameSeq

LEMMA ConcatTail ==
    ASSUME NEW S, NEW q \in Seq(S), NEW r \in Seq(S), q # << >>
    PROVE  /\ Tail(q) \o r \in Seq(S) /\ Len(Tail(q) \o r) = Len(q \o r) - 1
           /\ Len(q \o r) \in Nat \ {0}
           /\ (q \o r)[1] = Head(q)
           /\ \A i \in 1..Len(Tail(q) \o r) : (Tail(q) \o r)[i] = (q \o r)[i + 1]
<1>1. Len(q) \in Nat \ {0} /\ Len(r) \in Nat /\ Tail(q) \in Seq(S) /\ Len(Tail(q)) = Len(q) - 1
      /\ q \o r \in Seq(S) /\ Len(q \o r) = Len(q) + Len(r)
  OBVIOUS
<1>2. Tail(q) \o r \in Seq(S) /\ Len(Tail(q) \o r) = Len(q) - 1 + Len(r)
  BY <1>1
<1>3. (q \o r)[1] = Head(q)
  BY <1>1
<1>4. \A i \in 1..(Len(q) - 1) : Tail(q)[i] = q[i + 1]
  BY <1>1
<1>5. ASSUME NEW i \in 1..(Len(q) - 1 + Len(r))
      PROVE  (Tail(q) \o r)[i] = (q \o r)[i + 1]
  <2>1. CASE i <= Len(q) - 1
    <3>1. i \in 1..(Len(q) - 1) /\ i + 1 \in 1..Len(q) /\ i + 1 <= Len(q)
      BY <1>1, <2>1
    <3>2. (Tail(q) \o r)[i] = Tail(q)[i]
      BY <1>1, <3>1
    <3>3. (q \o r)[i + 1] = q[i + 1]
      BY <1>1, <3>1
    <3> QED BY <1>4, <3>1, <3>2, <3>3
  <2>2. CASE i > Len(q) - 1
    <3>1. (Tail(q) \o r)[i] = r[i - (Len(q) - 1)]
      BY <1>1, <2>2
    <3>2. (q \o r)[i + 1] = r[i + 1 - Len(q)]
      BY <1>1, <2>2
    <3>3. i + 1 - Len(q) = i - (Len(q) - 1)
      BY <1>1
    <3> QED BY <3>1, <3>2, <3>3
  <2> QED BY <1>1, <2>1, <2>2
<1> QED BY <1>1, <1>2, <1>3, <1>5

LEMMA QueueLine ==
    ASSUME NEW q \in QueuePair
    PROVE  /\ LineOf(q) \in Seq(Sqe) /\ Range(LineOf(q)) = Pending(q)
           /\ \A e \in Pending(q) : \E i \in DOMAIN LineOf(q) : LineOf(q)[i] = e
           /\ \A i \in DOMAIN LineOf(q) : LineOf(q)[i] \in Pending(q)
<1>1. q.sq \in Seq(Sqe) /\ q.kq \in Seq(Sqe)
  BY DEF QueuePair
<1>2. LineOf(q) \in Seq(Sqe) /\ Range(LineOf(q)) = Pending(q)
  BY <1>1, RangeConcat DEF LineOf, Pending
<1> QED BY <1>2 DEF Range

LEMMA LineRecord == ASSUME NEW k, NEW r PROVE LineOf([sq |-> r, kq |-> k]) = k \o r
BY DEF LineOf

(* Submitting moves entries on and changes nothing about their order. *)
LEMMA SubmitLine ==
    ASSUME NEW q \in QueuePair
    PROVE  LineOf(Submit(q, TRUE)) = LineOf(q)
<1> DEFINE k == q.kq
           r == q.sq
           l == k \o r
<1>1. r \in Seq(Sqe) /\ k \in Seq(Sqe)
  BY DEF QueuePair
<1>2. Submit(q, TRUE) = [sq |-> << >>, kq |-> l] /\ LineOf(q) = l
  BY DEF Submit, LineOf
<1> HIDE DEF k, r
<1>3. l \in Seq(Sqe)
  BY <1>1
<1> HIDE DEF l
<1>4. LineOf([sq |-> << >>, kq |-> l]) = l \o << >>
  BY LineRecord
<1>5. l \o << >> = l
  BY <1>3, ConcatEmpty
<1> QED BY <1>2, <1>4, <1>5

LEMMA PushLine ==
    ASSUME NEW q \in QueuePair, NEW e \in Sqe
    PROVE  LineOf(Push(q, e)) = Append(LineOf(q), e)
<1> DEFINE k == q.kq
           r == q.sq
           a == Append(r, e)
<1>1. r \in Seq(Sqe) /\ k \in Seq(Sqe)
  BY DEF QueuePair
<1>2. Push(q, e) = [sq |-> a, kq |-> k] /\ LineOf(q) = k \o r
  BY DEF Push, LineOf
<1> HIDE DEF k, r
<1>3. k \o a = Append(k \o r, e)
  BY <1>1, ConcatAppend
<1> HIDE DEF a
<1>4. LineOf([sq |-> a, kq |-> k]) = k \o a
  BY LineRecord
<1> QED BY <1>2, <1>3, <1>4

(* While submissions succeed there is always an entry to be had. *)
LEMMA GetSqeLine ==
    ASSUME NEW q \in QueuePair
    PROVE  LineOf(GetSqe(q, TRUE)) = LineOf(q) /\ Room(GetSqe(q, TRUE))
<1>1. CASE Room(q)
  BY <1>1 DEF GetSqe
<1>2. CASE ~Room(q)
  <2>1. GetSqe(q, TRUE) = Submit(q, TRUE)
    BY <1>2 DEF GetSqe
  <2>2. Submit(q, TRUE).sq = << >>
    BY DEF Submit
  <2>3. Len(<< >>) < SqDepth
    BY UringAssumption
  <2> QED BY <2>1, <2>2, <2>3, SubmitLine DEF Room
<1> QED BY <1>1, <1>2

LEMMA PollRemoveLine ==
    ASSUME NEW q \in QueuePair, NEW fd \in Fds, NEW t \in Tags
    PROVE  LineOf(PollRemove(q, fd, t, TRUE)) = Append(LineOf(q), RemoveSqe(fd, t))
<1> DEFINE g == GetSqe(q, TRUE)
<1>1. g \in QueuePair /\ LineOf(g) = LineOf(q) /\ Room(g)
  BY GetSqePending, GetSqeLine
<1>2. RemoveSqe(fd, t) \in Sqe
  BY DEF RemoveSqe, Sqe
<1>3. Push(g, RemoveSqe(fd, t)) \in QueuePair
  BY <1>1, <1>2, PushPending
<1>4. LineOf(Submit(Push(g, RemoveSqe(fd, t)), TRUE)) = Append(LineOf(q), RemoveSqe(fd, t))
  BY <1>1, <1>2, <1>3, SubmitLine, PushLine
<1> QED BY <1>1, <1>4 DEF PollRemove

-----------------------------------------------------------------------------
(* Whose poll it is. *)

Held == {slots[s].tag : s \in {x \in SlotIds : slots[x].inFlight}}

Given(line, t) ==
    \E j \in DOMAIN line : line[j].op = "remove" /\ line[j].tag = t

NoPoll(line, K, t) ==
    /\ \A i \in DOMAIN line : line[i].op = "poll" => line[i].tag # t
    /\ \A p \in K : p.tag # t

LineKept(line, H) ==
    \A i \in DOMAIN line : line[i].op = "poll" =>
        \/ line[i].tag \in H
        \/ \E j \in DOMAIN line : j > i /\ line[j].op = "remove" /\ line[j].tag = line[i].tag

ArmedKept(line, K, H) == \A p \in K : p.tag \in H \/ Given(line, p.tag)

OnePollPerTag(line, K) ==
    /\ \A i, j \in DOMAIN line :
          line[i].op = "poll" /\ line[j].op = "poll" /\ line[i].tag = line[j].tag => i = j
    /\ \A p, q \in K : p.tag = q.tag => p = q
    /\ \A i \in DOMAIN line, p \in K : line[i].op = "poll" => line[i].tag # p.tag

EndsKept(line, K, C) ==
    \A c \in C : /\ c.tag # NoTag /\ ~c.more => NoPoll(line, K, c.tag)
                 /\ c.res = "einval" => ~c.more

Kept(line, K, C, H) ==
    LineKept(line, H) /\ ArmedKept(line, K, H) /\ OnePollPerTag(line, K) /\ EndsKept(line, K, C)

LEMMA AppendPlaces ==
    ASSUME NEW S, NEW line \in Seq(S), NEW e \in S
    PROVE  /\ Append(line, e) \in Seq(S) /\ Len(line) \in Nat
           /\ DOMAIN line = 1..Len(line) /\ DOMAIN Append(line, e) = 1..(Len(line) + 1)
           /\ \A i \in DOMAIN line : Append(line, e)[i] = line[i] /\ i \in DOMAIN Append(line, e)
                                      /\ i # Len(line) + 1 /\ Len(line) + 1 > i
           /\ \A i \in DOMAIN Append(line, e) : i \in DOMAIN line \/ i = Len(line) + 1
           /\ Append(line, e)[Len(line) + 1] = e /\ Len(line) + 1 \in DOMAIN Append(line, e)
  OBVIOUS

LEMMA ArmKeeps ==
    ASSUME NEW line \in Seq(Sqe), NEW K, NEW C, NEW H, Kept(line, K, C, H),
           NEW e \in Sqe, e.op = "poll", NEW H2, H \subseteq H2, e.tag \in H2,
           NoPoll(line, K, e.tag), \A c \in C : c.tag # e.tag
    PROVE  Kept(Append(line, e), K, C, H2)
<1> DEFINE new == Append(line, e)
           n == Len(line) + 1
<1>1. /\ DOMAIN line = 1..Len(line) /\ DOMAIN new = 1..n
      /\ \A i \in DOMAIN line : new[i] = line[i] /\ i \in DOMAIN new /\ i # n
      /\ \A i \in DOMAIN new : i \in DOMAIN line \/ i = n
      /\ new[n] = e /\ n \in DOMAIN new
  BY AppendPlaces
<1> HIDE DEF new, n
<1>2. LineKept(new, H2)
  <2> SUFFICES ASSUME NEW i \in DOMAIN new, new[i].op = "poll", new[i].tag \notin H2
               PROVE  \E j \in DOMAIN new : j > i /\ new[j].op = "remove" /\ new[j].tag = new[i].tag
    BY DEF LineKept
  <2>1. i \in DOMAIN line /\ new[i] = line[i] /\ line[i].tag \notin H
    BY <1>1
  <2>2. PICK j \in DOMAIN line : j > i /\ line[j].op = "remove" /\ line[j].tag = line[i].tag
    BY <2>1 DEF Kept, LineKept
  <2> QED BY <1>1, <2>1, <2>2
<1>3. ArmedKept(new, K, H2)
  BY <1>1 DEF Kept, ArmedKept, Given
<1>4. OnePollPerTag(new, K)
  BY <1>1 DEF Kept, OnePollPerTag, NoPoll
<1>5. EndsKept(new, K, C)
  BY <1>1 DEF Kept, EndsKept, NoPoll
<1> QED BY <1>2, <1>3, <1>4, <1>5 DEF Kept, new

LEMMA WithdrawKeeps ==
    ASSUME NEW line \in Seq(Sqe), NEW K, NEW C, NEW H, Kept(line, K, C, H),
           NEW e \in Sqe, e.op = "remove", NEW H2, H \ {e.tag} \subseteq H2
    PROVE  Kept(Append(line, e), K, C, H2)
<1> DEFINE new == Append(line, e)
           n == Len(line) + 1
<1>1. /\ DOMAIN line = 1..Len(line) /\ DOMAIN new = 1..n
      /\ \A i \in DOMAIN line : new[i] = line[i] /\ i \in DOMAIN new /\ n > i
      /\ \A i \in DOMAIN new : i \in DOMAIN line \/ i = n
      /\ new[n] = e /\ n \in DOMAIN new
  BY AppendPlaces
<1> HIDE DEF new, n
<1>2. LineKept(new, H2)
  <2> SUFFICES ASSUME NEW i \in DOMAIN new, new[i].op = "poll", new[i].tag \notin H2
               PROVE  \E j \in DOMAIN new : j > i /\ new[j].op = "remove" /\ new[j].tag = new[i].tag
    BY DEF LineKept
  <2>1. i \in DOMAIN line /\ new[i] = line[i]
    BY <1>1
  <2>2. CASE line[i].tag = e.tag
    BY <1>1, <2>1, <2>2
  <2>3. CASE line[i].tag # e.tag
    <3>1. line[i].tag \notin H
      BY <2>1, <2>3
    <3>2. PICK j \in DOMAIN line : j > i /\ line[j].op = "remove" /\ line[j].tag = line[i].tag
      BY <2>1, <3>1 DEF Kept, LineKept
    <3> QED BY <1>1, <2>1, <3>2
  <2> QED BY <2>2, <2>3
<1>3. ArmedKept(new, K, H2)
  <2> SUFFICES ASSUME NEW p \in K, p.tag \notin H2 PROVE Given(new, p.tag)
    BY DEF ArmedKept
  <2>1. CASE p.tag = e.tag
    BY <1>1, <2>1 DEF Given
  <2>2. CASE p.tag # e.tag
    <3>1. Given(line, p.tag)
      BY <2>2 DEF Kept, ArmedKept
    <3> QED BY <1>1, <3>1 DEF Given
  <2> QED BY <2>1, <2>2
<1>4. OnePollPerTag(new, K)
  BY <1>1 DEF Kept, OnePollPerTag
<1>5. EndsKept(new, K, C)
  BY <1>1 DEF Kept, EndsKept, NoPoll
<1> QED BY <1>2, <1>3, <1>4, <1>5 DEF Kept, new

LEMMA EndedKeeps ==
    ASSUME NEW line, NEW K, NEW C, NEW H, Kept(line, K, C, H),
           NEW t, NoPoll(line, K, t), NEW H2, H \ {t} \subseteq H2
    PROVE  Kept(line, K, C, H2)
<1>1. LineKept(line, H2)
  BY DEF Kept, LineKept, NoPoll
<1>2. ArmedKept(line, K, H2)
  BY DEF Kept, ArmedKept, NoPoll
<1> QED BY <1>1, <1>2 DEF Kept

LEMMA MoreHeldKeeps ==
    ASSUME NEW line, NEW K, NEW C, NEW H, Kept(line, K, C, H), NEW H2, H \subseteq H2,
           NEW C2, C2 \subseteq C
    PROVE  Kept(line, K, C2, H2)
<1>1. LineKept(line, H2) /\ ArmedKept(line, K, H2)
  BY DEF Kept, LineKept, ArmedKept
<1> QED BY <1>1 DEF Kept, EndsKept

-----------------------------------------------------------------------------
(* What the steps that change the table do to the line. *)

Submits == "submit" \notin Faults

KeptInv == Kept(Line, kpolls, Range(cq), Held)

LEMMA AlwaysSubmits == ASSUME Submits PROVE \A ok \in SubmitOutcomes : ok = TRUE
BY DEF Submits, SubmitOutcomes

LEMMA LineType ==
    ASSUME TagInv
    PROVE  /\ Line \in Seq(Sqe) /\ kpolls \in SUBSET KPoll /\ cq \in Seq(Cqe)
           /\ \A i \in DOMAIN Line : Line[i] \in Pending(Queues) /\ Line[i] \in Sqe
           /\ \A c \in Range(cq) : c \in Cqe
<1>1. Queues \in QueuePair /\ kpolls \in SUBSET KPoll /\ cq \in Seq(Cqe)
  BY QueuesType DEF TagInv, TypeOK
<1>2. Line \in Seq(Sqe) /\ \A i \in DOMAIN Line : Line[i] \in Pending(Queues)
  BY <1>1, QueueLine DEF Line
<1>3. \A i \in DOMAIN Line : Line[i] \in Sqe
  BY <1>2
<1>4. \A c \in Range(cq) : c \in Cqe
  BY <1>1, RangeIn
<1> QED BY <1>1, <1>2, <1>3, <1>4

LEMMA HeldSlot ==
    ASSUME TagInv, NEW s \in SlotIds, slots[s].inFlight
    PROVE  /\ slots[s].tag \in Held /\ slots[s].tag = Tag(s, slots[s].gen)
           /\ slots[s].active /\ slots[s].tag.slot = s /\ slots[s].tag # NoTag
           /\ Current(slots[s].tag)
<1>1. slots[s].tag # NoTag /\ slots[s].active /\ slots[s].tag = Tag(s, slots[s].gen)
  BY DEF TagInv, SlotInv
<1>2. Tag(s, slots[s].gen).slot = s
  BY DEF Tag
<1> QED BY <1>1, <1>2 DEF Held, Current

LEMMA FreshTag ==
    ASSUME TagInv, NEW s \in SlotIds, NEW t, t = Tag(s, slots[s].gen + 1)
    PROVE  NoPoll(Line, kpolls, t) /\ \A c \in Range(cq) : c.tag # t
<1>1. slots[s].gen \in Nat
  BY DEF TagInv, TypeOK, Slot
<1>2. \A u : NotAhead(u) => u # t
  BY <1>1 DEF NotAhead, Tag
<1>3. \A e \in Pending(Queues) : NotAhead(e.tag)
  BY DEF TagInv, EntryInv
<1>4. \A p \in kpolls : NotAhead(p.tag)
  BY DEF TagInv, PollInv
<1>5. \A c \in Range(cq) : c.tag # NoTag => NotAhead(c.tag)
  BY DEF TagInv, CompletionInv
<1>6. t # NoTag
  BY <1>1 DEF Tag, NoTag, SlotIds
<1>7. NoPoll(Line, kpolls, t)
  BY <1>2, <1>3, <1>4, LineType DEF NoPoll
<1> QED BY <1>2, <1>5, <1>6, <1>7

LEMMA OneSlotHeld ==
    ASSUME TagInv, NEW s \in SlotIds, NEW x, slots' = [slots EXCEPT ![s] = x]
    PROVE  /\ slots'[s] = x /\ \A u \in SlotIds \ {s} : slots'[u] = slots[u]
           /\ Held \ {slots[s].tag} \subseteq Held'
           /\ x.inFlight => x.tag \in Held'
           /\ ~slots[s].inFlight => Held \subseteq Held'
           /\ x.inFlight /\ x.tag = slots[s].tag => Held \subseteq Held'
<1>1. slots'[s] = x /\ \A u \in SlotIds \ {s} : slots'[u] = slots[u]
  BY DEF TagInv, TypeOK
<1>2. x.inFlight => x.tag \in Held'
  BY <1>1 DEF Held
<1>3. ASSUME NEW u \in SlotIds, u # s, slots[u].inFlight PROVE slots[u].tag \in Held'
  BY <1>1, <1>3 DEF Held
<1>4. Held \ {slots[s].tag} \subseteq Held'
  BY <1>3 DEF Held
<1>5. ~slots[s].inFlight => Held \subseteq Held'
  BY <1>3 DEF Held
<1> QED BY <1>1, <1>2, <1>4, <1>5

LEMMA SetLine ==
    ASSUME NEW q, SetQueues(q)
    PROVE  Line' = LineOf(q)
BY DEF SetQueues, Line, LineOf, Queues

LEMMA WithdrawLine ==
    ASSUME TagInv, NEW s \in SlotIds
    PROVE  /\ Withdraw(slots[s], TRUE) \in QueuePair
           /\ LineOf(Withdraw(slots[s], TRUE)) =
                 IF slots[s].inFlight THEN Append(Line, RemoveSqe(slots[s].fd, slots[s].tag))
                 ELSE Line
           /\ slots[s].inFlight => RemoveSqe(slots[s].fd, slots[s].tag) \in Sqe
<1>1. Queues \in QueuePair
  BY QueuesType DEF TagInv
<1>2. CASE slots[s].inFlight
  <2>1. slots[s].fd \in Fds /\ slots[s].tag \in Tags
    BY <1>2, UringAssumption DEF TagInv, TypeOK, SlotInv, Slot
  <2>2. RemoveSqe(slots[s].fd, slots[s].tag) \in Sqe
    BY <2>1 DEF RemoveSqe, Sqe
  <2> QED BY <1>1, <1>2, <2>1, <2>2, PollRemoveLine, PollRemovePending DEF Withdraw, Line
<1>3. CASE ~slots[s].inFlight
  BY <1>1, <1>3 DEF Withdraw, Line
<1> QED BY <1>2, <1>3

LEMMA GetSqeKeeps ==
    ASSUME NEW q \in QueuePair, NEW ok \in BOOLEAN, NEW fd \in Fds, NEW t \in Tags
    PROVE  Pending(q) \subseteq Pending(PollRemove(q, fd, t, ok))
<1> DEFINE g == GetSqe(q, ok)
           r == RemoveSqe(fd, t)
<1>1. g \in QueuePair /\ Pending(g) = Pending(q)
  BY GetSqePending
<1>2. r \in Sqe
  BY DEF RemoveSqe, Sqe
<1>3. Push(g, r) \in QueuePair /\ Pending(Push(g, r)) = Pending(q) \cup {r}
  BY <1>1, <1>2, PushPending
<1>4. Pending(Submit(Push(g, r), ok)) = Pending(q) \cup {r}
  BY <1>3, SubmitPending
<1> QED BY <1>1, <1>4 DEF PollRemove

LEMMA AddPollFacts ==
    ASSUME TagInv, NEW fd \in Fds, NEW type \in Types, NEW mask \in Masks,
           AddPoll(fd, type, mask)
    PROVE  /\ UNCHANGED <<running, kpolls, cq, disp>>
           /\ Pending(Queues) \subseteq Pending(Queues)'
           /\ \E s \in SlotIds :
                LET poll == PollSqe(fd, multishot, Tag(s, slots[s].gen + 1))
                    gone == RemoveSqe(slots[s].fd, slots[s].tag)
                IN  \/ /\ ~Submits
                       /\ \E x : ~x.inFlight /\ slots' = [slots EXCEPT ![s] = x]
                    \/ /\ slots' = [slots EXCEPT
                            ![s] = Armed(slots[s], s, fd, type, mask, multishot)]
                       /\ poll \in Pending(Queues)' /\ poll \in Sqe
                       /\ slots[s].inFlight => gone \in Sqe
                       /\ Submits => Line' = Append(IF slots[s].inFlight THEN Append(Line, gone)
                                                    ELSE Line, poll)
<1> USE DEF TagInv
<1>1. PICK s \in AddTarget(fd, type), ok \in SubmitOutcomes :
        LET slot  == slots[s]
            again == slot.active /\ slot.inFlight
            q2    == GetSqe(Withdraw(slot, ok), ok)
            new   == Armed(slot, s, fd, type, mask, multishot)
            sent  == Push(q2, PollSqe(fd, multishot, new.tag))
        IN  \/ /\ ~Room(q2)
               /\ slots' = [slots EXCEPT ![s] =
                     IF again THEN [slot EXCEPT !.inFlight = FALSE, !.tag = NoTag]
                     ELSE slot]
               /\ SetQueues(q2)
            \/ ok /\ slots' = [slots EXCEPT ![s] = new] /\ SetQueues(Submit(sent, TRUE))
            \/ ~ok /\ slots' = [slots EXCEPT ![s] = Vacant(new.gen)] /\ SetQueues(sent)
  BY DEF AddPoll
<1> DEFINE slot  == slots[s]
           again == slot.active /\ slot.inFlight
           w     == Withdraw(slot, ok)
           q2    == GetSqe(w, ok)
           new   == Armed(slot, s, fd, type, mask, multishot)
           poll  == PollSqe(fd, multishot, Tag(s, slot.gen + 1))
           gone  == RemoveSqe(slot.fd, slot.tag)
           sent  == Push(q2, poll)
           reset == IF again THEN [slot EXCEPT !.inFlight = FALSE, !.tag = NoTag]
                    ELSE slot
<1>2. /\ s \in SlotIds /\ ok \in BOOLEAN /\ <<fd, type>> \in Interest
      /\ (slot.active /\ fd = slot.fd) \/ ~Registered(fd)
      /\ slot \in Slot
  BY OutcomeBoolean DEF AddPoll, AddTarget, Matching, FreeSlots, TypeOK, Slot
<1>3. UNCHANGED <<running, multishot, kpolls, cq, disp>>
  BY DEF AddPoll
<1>4. new.tag = Tag(s, slot.gen + 1)
  BY DEF Armed
<1>5. w \in QueuePair /\ Pending(Queues) \subseteq Pending(w)
  <2>1. CASE slot.inFlight
    <3>1. slot.active /\ slot.fd \in Fds /\ slot.tag \in Tags
      BY <2>1, <1>2, UringAssumption DEF SlotInv, Slot
    <3>2. w = PollRemove(Queues, slot.fd, slot.tag, ok)
      BY <2>1 DEF Withdraw
    <3> QED BY <3>1, <3>2, <1>2, QueuesType, PollRemovePending, GetSqeKeeps
  <2>2. CASE ~slot.inFlight
    BY <2>2, WithdrawIdle, QueuesType
  <2> QED BY <2>1, <2>2
<1>6. q2 \in QueuePair /\ Pending(q2) = Pending(w)
  BY <1>2, <1>5, GetSqePending
<1>7. poll \in Sqe
  BY <1>2, ArmedFits DEF TypeOK
<1>8. sent \in QueuePair /\ Pending(sent) = Pending(w) \cup {poll}
  BY <1>6, <1>7, PushPending
<1>9. Submit(sent, TRUE) \in QueuePair /\ Pending(Submit(sent, TRUE)) = Pending(w) \cup {poll}
  BY <1>8, SubmitPending
<1>10. Pending(Queues) \subseteq Pending(Queues)'
  BY <1>1, <1>4, <1>5, <1>6, <1>8, <1>9, SetQueuesType
<1>11. ASSUME Submits
       PROVE  /\ ok = TRUE /\ Room(q2)
              /\ LineOf(Submit(sent, TRUE)) = Append(IF slot.inFlight THEN Append(Line, gone)
                                                     ELSE Line, poll)
  <2>1. ok = TRUE
    BY <1>11, AlwaysSubmits
  <2>2. /\ LineOf(w) = IF slot.inFlight THEN Append(Line, gone) ELSE Line
    BY <2>1, <1>2, WithdrawLine
  <2>3. LineOf(q2) = LineOf(w) /\ Room(q2)
    BY <2>1, <1>5, GetSqeLine
  <2>4. LineOf(sent) = Append(LineOf(q2), poll)
    BY <1>6, <1>7, PushLine
  <2>5. LineOf(Submit(sent, TRUE)) = LineOf(sent)
    BY <1>8, SubmitLine
  <2> QED BY <2>1, <2>2, <2>3, <2>4, <2>5
<1>12. ~reset.inFlight /\ ~Vacant(new.gen).inFlight
  <2>1. ~Vacant(new.gen).inFlight
    BY DEF Vacant
  <2>2. CASE again
    <3>1. reset = [slot EXCEPT !.inFlight = FALSE, !.tag = NoTag]
      BY <2>2
    <3> QED BY <2>1, <3>1, <1>2 DEF Slot
  <2>3. CASE ~again
    <3>1. reset = slot
      BY <2>3
    <3>2. slot.inFlight => slot.active
      BY <1>2 DEF SlotInv
    <3> QED BY <2>1, <2>3, <3>1, <3>2
  <2> QED BY <2>2, <2>3
<1>13. slot.inFlight => gone \in Sqe
  BY <1>2, WithdrawLine
<1> HIDE DEF w, q2, new, sent, reset
<1>14. CASE ~Room(q2) /\ slots' = [slots EXCEPT ![s] = reset]
  BY <1>2, <1>3, <1>10, <1>11, <1>12, <1>14
<1>15. CASE ~ok /\ slots' = [slots EXCEPT ![s] = Vacant(new.gen)]
  BY <1>2, <1>3, <1>10, <1>11, <1>12, <1>15
<1>16. CASE ok /\ slots' = [slots EXCEPT ![s] = new] /\ SetQueues(Submit(sent, TRUE))
  <2>1. poll \in Pending(Queues)'
    BY <1>9, <1>16, SetQueuesType
  <2>2. Submits => Line' = Append(IF slot.inFlight THEN Append(Line, gone) ELSE Line, poll)
    BY <1>11, <1>16, SetLine
  <2> QED BY <1>2, <1>3, <1>7, <1>10, <1>13, <1>16, <2>1, <2>2 DEF new
<1> QED BY <1>1, <1>4, <1>14, <1>15, <1>16 DEF w, q2, new, sent, reset

LEMMA RemovePollFacts ==
    ASSUME TagInv, NEW fd \in Fds, RemovePoll(fd)
    PROVE  /\ UNCHANGED <<running, kpolls, cq, disp>>
           /\ Pending(Queues) \subseteq Pending(Queues)'
           /\ \E s \in SlotIds :
                LET gone == RemoveSqe(slots[s].fd, slots[s].tag)
                IN  /\ slots[s].active
                    /\ slots' = [slots EXCEPT ![s] = Vacant(slots[s].gen)]
                    /\ slots[s].inFlight => gone \in Sqe
                    /\ Submits => Line' = IF slots[s].inFlight THEN Append(Line, gone) ELSE Line
<1> USE DEF TagInv
<1>1. PICK s \in SlotIds, ok \in SubmitOutcomes :
        /\ slots[s].active /\ slots[s].fd = fd
        /\ slots' = [slots EXCEPT ![s] = Vacant(slots[s].gen)]
        /\ SetQueues(Withdraw(slots[s], ok))
  BY DEF RemovePoll
<1> DEFINE slot == slots[s]
           w == Withdraw(slot, ok)
<1>2. ok \in BOOLEAN /\ slot \in Slot
  BY OutcomeBoolean DEF TypeOK
<1>3. w \in QueuePair /\ Pending(Queues) \subseteq Pending(w)
  <2>1. CASE slot.inFlight
    <3>1. slot.active /\ slot.fd \in Fds /\ slot.tag \in Tags
      BY <2>1, <1>1, <1>2, UringAssumption DEF SlotInv, Slot
    <3>2. w = PollRemove(Queues, slot.fd, slot.tag, ok)
      BY <2>1 DEF Withdraw
    <3> QED BY <3>1, <3>2, <1>2, QueuesType, PollRemovePending, GetSqeKeeps
  <2>2. CASE ~slot.inFlight
    BY <2>2, WithdrawIdle, QueuesType
  <2> QED BY <2>1, <2>2
<1>4. Pending(Queues) \subseteq Pending(Queues)'
  BY <1>1, <1>3, SetQueuesType
<1>5. Submits => ok = TRUE
  BY AlwaysSubmits
<1>6. Line' = LineOf(w)
  BY <1>1, SetLine
<1>7. /\ slot.inFlight => RemoveSqe(slot.fd, slot.tag) \in Sqe
      /\ Submits => Line' = IF slot.inFlight THEN Append(Line, RemoveSqe(slot.fd, slot.tag))
                            ELSE Line
  BY <1>5, <1>6, WithdrawLine
<1>8. UNCHANGED <<running, kpolls, cq, disp>>
  BY DEF RemovePoll
<1> QED BY <1>1, <1>4, <1>7, <1>8

LEMMA RearmFacts ==
    ASSUME TagInv, NEW t \in Tags, NotAhead(t), NEW y \in Slot,
           y.active = slots[t.slot].active, y.fd = slots[t.slot].fd,
           y.type = slots[t.slot].type, y.gen = slots[t.slot].gen,
           y.tag = slots[t.slot].tag, y.inFlight => slots[t.slot].inFlight,
           Rearm([slots EXCEPT ![t.slot] = y], t)
    PROVE  \/ /\ slots' = [slots EXCEPT ![t.slot] = y] /\ Pending(Queues)' = Pending(Queues)
              /\ Submits => Line' = Line /\ ~MayRearm(y, t)
           \/ LET new  == Armed(slots[t.slot], t.slot, y.fd, y.type, y.mask, y.multi)
                  poll == PollSqe(y.fd, y.multi, Tag(t.slot, slots[t.slot].gen + 1))
              IN  /\ MayRearm(y, t)
                  /\ slots' = [slots EXCEPT ![t.slot] = new]
                  /\ poll \in Sqe /\ Pending(Queues)' = Pending(Queues) \cup {poll}
                  /\ Submits => Line' = Append(Line, poll)
<1> USE DEF TagInv
<1> DEFINE s    == t.slot
           tab  == [slots EXCEPT ![s] = y]
           new  == Armed(slots[s], s, y.fd, y.type, y.mask, y.multi)
           poll == PollSqe(y.fd, y.multi, Tag(s, slots[s].gen + 1))
<1>1. s \in SlotIds /\ slots \in [SlotIds -> Slot] /\ tab[s] = y
  BY DEF NotAhead, TypeOK
<1>2. y.active => <<y.fd, y.type>> \in Interest
  BY <1>1 DEF SlotInv
<1>3. y.mask \in Masks \cup {None} /\ y.multi \in BOOLEAN
  BY DEF Slot
<1>4. CASE MayRearm(y, t)
  <2>1. PICK ok \in SubmitOutcomes :
          LET q == GetSqe(Queues, ok)
          IN  IF Room(q)
              THEN /\ slots' = [tab EXCEPT ![s] = Armed(y, s, y.fd, y.type, y.mask, y.multi)]
                   /\ SetQueues(Push(q, PollSqe(y.fd, y.multi,
                                 Armed(y, s, y.fd, y.type, y.mask, y.multi).tag)))
              ELSE slots' = tab /\ SetQueues(q)
    BY <1>1, <1>4 DEF Rearm
  <2> DEFINE q == GetSqe(Queues, ok)
  <2>2. q \in QueuePair /\ Pending(q) = Pending(Queues)
    BY GetSqePending, QueuesType, OutcomeBoolean
  <2>3. Armed(y, s, y.fd, y.type, y.mask, y.multi) = new /\ new.tag = Tag(s, slots[s].gen + 1)
    BY DEF Armed
  <2>4. Submits => LineOf(q) = Line /\ Room(q)
    BY AlwaysSubmits, GetSqeLine, QueuesType DEF Line
  <2>5. CASE Room(q)
    <3>1. y.active /\ <<y.fd, y.type>> \in Interest
      BY <1>2, <1>4 DEF MayRearm
    <3>2. poll \in Sqe
      BY <1>1, <1>3, <3>1, ArmedFits
    <3>3. SetQueues(Push(q, poll)) /\ slots' = [slots EXCEPT ![s] = new]
      BY <1>1, <2>1, <2>3, <2>5
    <3>4. Push(q, poll) \in QueuePair /\ Pending(Push(q, poll)) = Pending(Queues) \cup {poll}
      BY <2>2, <3>2, PushPending
    <3>5. Pending(Queues)' = Pending(Queues) \cup {poll}
      BY <3>3, <3>4, SetQueuesType
    <3>6. Line' = Append(LineOf(q), poll)
      BY <2>2, <3>2, <3>3, SetLine, PushLine
    <3> QED BY <1>4, <2>4, <3>2, <3>3, <3>5, <3>6
  <2>6. CASE ~Room(q)
    <3>1. SetQueues(q) /\ slots' = tab /\ ~Submits
      BY <2>1, <2>4, <2>6
    <3>2. Pending(Queues)' = Pending(Queues)
      BY <2>2, <3>1, SetQueuesType
    <3> QED BY <3>1, <3>2
  <2> QED BY <2>5, <2>6
<1>5. CASE ~MayRearm(y, t)
  <2>1. slots' = tab /\ UNCHANGED <<sq, kq>>
    BY <1>1, <1>5 DEF Rearm, ringVars
  <2>2. Pending(Queues)' = Pending(Queues) /\ Line' = Line
    BY <2>1 DEF Pending, Queues, Line, LineOf
  <2> QED BY <1>5, <2>1, <2>2
<1> QED BY <1>4, <1>5

-----------------------------------------------------------------------------
(* No poll is orphaned. *)

LEMMA AddPollKept ==
    ASSUME TagInv, KeptInv, Submits, NEW fd \in Fds, NEW type \in Types, NEW mask \in Masks,
           AddPoll(fd, type, mask)
    PROVE  KeptInv'
<1>1. PICK s \in SlotIds :
        LET poll == PollSqe(fd, multishot, Tag(s, slots[s].gen + 1))
            gone == RemoveSqe(slots[s].fd, slots[s].tag)
        IN  /\ slots' = [slots EXCEPT ![s] = Armed(slots[s], s, fd, type, mask, multishot)]
            /\ poll \in Sqe
            /\ slots[s].inFlight => gone \in Sqe
            /\ Line' = Append(IF slots[s].inFlight THEN Append(Line, gone) ELSE Line, poll)
  BY AddPollFacts
<1> DEFINE poll == PollSqe(fd, multishot, Tag(s, slots[s].gen + 1))
           gone == RemoveSqe(slots[s].fd, slots[s].tag)
           new  == Armed(slots[s], s, fd, type, mask, multishot)
           C    == Range(cq)
           line == IF slots[s].inFlight THEN Append(Line, gone) ELSE Line
           H    == IF slots[s].inFlight THEN Held \ {slots[s].tag} ELSE Held
<1>2. UNCHANGED <<kpolls, cq>>
  BY AddPollFacts
<1>3. gone.op = "remove" /\ gone.tag = slots[s].tag /\ poll.op = "poll"
      /\ poll.tag = Tag(s, slots[s].gen + 1) /\ new.tag = poll.tag /\ new.inFlight
  BY DEF RemoveSqe, PollSqe, Armed
<1>4. H \subseteq Held' /\ poll.tag \in Held'
  BY <1>1, <1>3, OneSlotHeld
<1>5. NoPoll(Line, kpolls, poll.tag) /\ \A c \in C : c.tag # poll.tag
  BY <1>3, FreshTag
<1> HIDE DEF poll, gone, new
<1>6. line \in Seq(Sqe) /\ Kept(line, kpolls, C, H) /\ NoPoll(line, kpolls, poll.tag)
  <2>1. CASE slots[s].inFlight
    <3>1. gone \in Sqe
      BY <1>1, <2>1 DEF gone
    <3>2. Kept(Append(Line, gone), kpolls, C, H)
      BY <1>3, <2>1, <3>1, LineType, WithdrawKeeps DEF KeptInv
    <3>3. NoPoll(Append(Line, gone), kpolls, poll.tag) /\ Append(Line, gone) \in Seq(Sqe)
      BY <1>3, <1>5, <3>1, LineType, AppendPlaces DEF NoPoll
    <3> QED BY <2>1, <3>2, <3>3
  <2>2. CASE ~slots[s].inFlight
    BY <1>5, <2>2, LineType DEF KeptInv
  <2> QED BY <2>1, <2>2
<1>7. poll \in Sqe /\ Line' = Append(line, poll)
  BY <1>1 DEF poll, gone
<1> HIDE DEF line, H, C
<1>8. Kept(Append(line, poll), kpolls, C, Held')
  BY <1>3, <1>4, <1>5, <1>6, <1>7, ArmKeeps
<1> QED BY <1>2, <1>7, <1>8 DEF KeptInv, C

LEMMA RemovePollKept ==
    ASSUME TagInv, KeptInv, Submits, NEW fd \in Fds, RemovePoll(fd)
    PROVE  KeptInv'
<1>1. PICK s \in SlotIds :
        LET gone == RemoveSqe(slots[s].fd, slots[s].tag)
        IN  /\ slots' = [slots EXCEPT ![s] = Vacant(slots[s].gen)]
            /\ slots[s].inFlight => gone \in Sqe
            /\ Line' = IF slots[s].inFlight THEN Append(Line, gone) ELSE Line
  BY RemovePollFacts
<1> DEFINE gone == RemoveSqe(slots[s].fd, slots[s].tag)
           C    == Range(cq)
<1>2. UNCHANGED <<kpolls, cq>>
  BY RemovePollFacts
<1>3. gone.op = "remove" /\ gone.tag = slots[s].tag
  BY DEF RemoveSqe
<1>4. Held \ {slots[s].tag} \subseteq Held' /\ (~slots[s].inFlight => Held \subseteq Held')
  BY <1>1, OneSlotHeld
<1>5. CASE slots[s].inFlight
  <2>1. gone \in Sqe /\ Line' = Append(Line, gone)
    BY <1>1, <1>5
  <2> HIDE DEF gone
  <2>2. Kept(Append(Line, gone), kpolls, C, Held')
    BY <1>3, <1>4, <2>1, LineType, WithdrawKeeps DEF KeptInv
  <2> QED BY <1>2, <2>1, <2>2 DEF KeptInv
<1>6. CASE ~slots[s].inFlight
  <2>1. Kept(Line, kpolls, C, Held')
    BY <1>4, <1>6, MoreHeldKeeps DEF KeptInv
  <2> QED BY <1>1, <1>2, <1>6, <2>1 DEF KeptInv
<1> QED BY <1>5, <1>6

(* The walk: a slot stops being in flight only on a completion that ends its poll. *)
LEMMA RearmKept ==
    ASSUME TagInv, KeptInv, Submits, NEW t \in Tags, NotAhead(t), NEW y \in Slot,
           y.active = slots[t.slot].active, y.fd = slots[t.slot].fd,
           y.type = slots[t.slot].type, y.gen = slots[t.slot].gen,
           y.tag = slots[t.slot].tag, y.inFlight => slots[t.slot].inFlight,
           Rearm([slots EXCEPT ![t.slot] = y], t),
           slots[t.slot].inFlight /\ ~y.inFlight => NoPoll(Line, kpolls, slots[t.slot].tag),
           UNCHANGED <<kpolls, cq>>
    PROVE  KeptInv'
<1> DEFINE s    == t.slot
           new  == Armed(slots[s], s, y.fd, y.type, y.mask, y.multi)
           poll == PollSqe(y.fd, y.multi, Tag(s, slots[s].gen + 1))
           C    == Range(cq)
           H    == IF slots[s].inFlight /\ ~y.inFlight THEN Held \ {slots[s].tag} ELSE Held
<1>1. s \in SlotIds
  BY DEF NotAhead
<1>2. Kept(Line, kpolls, C, H)
  BY EndedKeeps DEF KeptInv
<1>3. CASE slots' = [slots EXCEPT ![s] = y] /\ Line' = Line
  <2>1. H \subseteq Held'
    BY <1>1, <1>3, OneSlotHeld
  <2>2. Kept(Line, kpolls, C, Held')
    BY <1>2, <2>1, MoreHeldKeeps
  <2> QED BY <1>3, <2>2 DEF KeptInv
<1>4. CASE /\ MayRearm(y, t) /\ slots' = [slots EXCEPT ![s] = new] /\ poll \in Sqe
           /\ Line' = Append(Line, poll)
  <2>1. poll.op = "poll" /\ poll.tag = Tag(s, slots[s].gen + 1) /\ new.tag = poll.tag
        /\ new.inFlight /\ ~y.inFlight
    BY <1>4 DEF PollSqe, Armed, MayRearm
  <2> HIDE DEF new, poll
  <2>2. H \subseteq Held' /\ poll.tag \in Held'
    <3>1. /\ Held \ {slots[s].tag} \subseteq Held' /\ new.tag \in Held'
          /\ ~slots[s].inFlight => Held \subseteq Held'
      BY <1>1, <1>4, <2>1, OneSlotHeld
    <3> QED BY <2>1, <3>1
  <2>3. NoPoll(Line, kpolls, poll.tag) /\ \A c \in C : c.tag # poll.tag
    BY <1>1, <2>1, FreshTag
  <2> HIDE DEF poll, H, C
  <2>4. Kept(Append(Line, poll), kpolls, C, Held')
    BY <1>2, <1>4, <2>1, <2>2, <2>3, LineType, ArmKeeps
  <2> QED BY <1>4, <2>4 DEF KeptInv, C
<1>5. \/ slots' = [slots EXCEPT ![s] = y] /\ Line' = Line
      \/ /\ MayRearm(y, t) /\ slots' = [slots EXCEPT ![s] = new] /\ poll \in Sqe
         /\ Line' = Append(Line, poll)
  BY RearmFacts
<1> QED BY <1>3, <1>4, <1>5

(* A completion under the cursor that ends its poll: nothing is left of it. *)
LEMMA EndedPoll ==
    ASSUME TagInv, KeptInv, InScan, Mine(Cur), ~Cur.more
    PROVE  NoPoll(Line, kpolls, slots[Cur.tag.slot].tag)
<1>1. Cur \in Range(cq) /\ Cur.tag # NoTag /\ slots[Cur.tag.slot].tag = Cur.tag
  BY CursorFacts
<1> QED BY <1>1 DEF KeptInv, Kept, EndsKept

LEMMA WalkKept ==
    ASSUME TagInv, KeptInv, Submits, Again \/ FallBack \/ HandlerReturns
    PROVE  KeptInv'
<1> USE DEF TagInv
<1>1. CASE Again
  <2> DEFINE t == Cur.tag
             y == Completed(slots[t.slot], Cur.more)
  <2>1. InScan /\ Mine(Cur) /\ UNCHANGED <<kpolls, cq>>
        /\ Rearm([slots EXCEPT ![t.slot] = y], t)
    BY <1>1 DEF Again
  <2>2. t \in Tags /\ NotAhead(t) /\ t.slot \in SlotIds /\ Cur.more \in BOOLEAN
        /\ slots[t.slot] \in Slot
    BY <2>1, CursorFacts DEF Cqe, TypeOK
  <2>3. /\ y \in Slot /\ y.active = slots[t.slot].active /\ y.fd = slots[t.slot].fd
        /\ y.type = slots[t.slot].type /\ y.gen = slots[t.slot].gen
        /\ y.tag = slots[t.slot].tag /\ (y.inFlight => slots[t.slot].inFlight)
    BY <2>2, CompletedSlot
  <2>4. slots[t.slot].inFlight /\ ~y.inFlight => ~Cur.more
    BY <2>2 DEF Completed, Slot
  <2>5. ~Cur.more => NoPoll(Line, kpolls, slots[t.slot].tag)
    BY <2>1, EndedPoll
  <2> HIDE DEF y
  <2> QED BY <2>1, <2>2, <2>3, <2>4, <2>5, RearmKept
<1>2. CASE FallBack
  <2> DEFINE t == Cur.tag
             y == [slots[t.slot] EXCEPT !.multi = FALSE, !.inFlight = FALSE]
  <2>1. InScan /\ Mine(Cur) /\ UNCHANGED <<kpolls, cq>> /\ Cur.res = "einval"
    BY <1>2 DEF FallBack
  <2>2. t \in Tags /\ NotAhead(t) /\ t.slot \in SlotIds /\ slots[t.slot] \in Slot
        /\ slots \in [SlotIds -> Slot] /\ Cur \in Range(cq)
    BY <2>1, CursorFacts DEF Cqe, TypeOK
  <2>3. /\ y \in Slot /\ y.active = slots[t.slot].active /\ y.fd = slots[t.slot].fd
        /\ y.type = slots[t.slot].type /\ y.gen = slots[t.slot].gen
        /\ y.tag = slots[t.slot].tag /\ ~y.inFlight
    BY <2>2 DEF Slot
  <2>4. [slots EXCEPT ![t.slot].multi = FALSE, ![t.slot].inFlight = FALSE]
          = [slots EXCEPT ![t.slot] = y]
    BY <2>2 DEF Slot
  <2>5. Rearm([slots EXCEPT ![t.slot] = y], t)
    BY <1>2, <2>4 DEF FallBack
  <2>6. ~Cur.more
    BY <2>1, <2>2 DEF KeptInv, Kept, EndsKept
  <2>7. NoPoll(Line, kpolls, slots[t.slot].tag)
    BY <2>1, <2>6, EndedPoll
  <2> HIDE DEF y
  <2> QED BY <2>1, <2>2, <2>3, <2>5, <2>7, RearmKept
<1>3. CASE HandlerReturns
  <2> DEFINE t == disp.tag
             y == slots[t.slot]
  <2>1. disp.pc = "handler" /\ UNCHANGED <<kpolls, cq>> /\ Rearm(slots, t)
    BY <1>3 DEF HandlerReturns
  <2>2. t \in Tags /\ NotAhead(t) /\ t.slot \in SlotIds /\ y \in Slot
    BY <2>1 DEF CallbackInv, TypeOK, DispState, NotAhead
  <2>3. [slots EXCEPT ![t.slot] = y] = slots
    BY DEF TypeOK
  <2> QED BY <2>1, <2>2, <2>3, RearmKept
<1> QED BY <1>1, <1>2, <1>3

LEMMA DropDeliverKept ==
    ASSUME TagInv, KeptInv, Drop \/ Deliver
    PROVE  KeptInv'
<1> USE DEF TagInv
<1> DEFINE t == Cur.tag
<1>1. InScan /\ Mine(Cur) /\ UNCHANGED <<sq, kq, kpolls, cq>>
  BY DEF Drop, Deliver
<1>2. t.slot \in SlotIds /\ slots[t.slot] \in Slot /\ Cur.more \in BOOLEAN
  BY <1>1, CursorFacts DEF TypeOK, Cqe
<1>3. Line' = Line
  BY <1>1 DEF Line, LineOf, Queues
<1>4. ASSUME Held \subseteq Held' PROVE KeptInv'
  BY <1>1, <1>3, <1>4, MoreHeldKeeps DEF KeptInv
<1>5. ASSUME ~Cur.more, Held \ {slots[t.slot].tag} \subseteq Held' PROVE KeptInv'
  <2>1. NoPoll(Line, kpolls, slots[t.slot].tag)
    BY <1>1, <1>5, EndedPoll
  <2>2. Kept(Line, kpolls, Range(cq), Held')
    BY <1>5, <2>1, EndedKeeps DEF KeptInv
  <2> QED BY <1>1, <1>3, <2>2 DEF KeptInv
<1>6. CASE Drop
  <2>1. CASE Cur.more
    BY <1>4, <1>6, <2>1 DEF Drop, Held
  <2>2. CASE ~Cur.more
    <3>1. slots' = [slots EXCEPT ![t.slot] = Vacant(slots[t.slot].gen)]
      BY <1>6, <2>2 DEF Drop
    <3>2. Held \ {slots[t.slot].tag} \subseteq Held'
      BY <1>2, <3>1, OneSlotHeld
    <3> QED BY <1>5, <2>2, <3>2
  <2> QED BY <2>1, <2>2
<1>7. CASE Deliver
  <2> DEFINE y == Completed(slots[t.slot], Cur.more)
  <2>1. slots' = [slots EXCEPT ![t.slot] = y]
    BY <1>7 DEF Deliver
  <2>2. y.tag = slots[t.slot].tag /\ y.inFlight = (slots[t.slot].inFlight /\ Cur.more)
    BY <1>2 DEF Completed, Slot
  <2> HIDE DEF y
  <2>3. CASE slots[t.slot].inFlight /\ Cur.more
    BY <1>2, <1>4, <2>1, <2>2, <2>3, OneSlotHeld
  <2>4. CASE ~slots[t.slot].inFlight
    BY <1>2, <1>4, <2>1, <2>4, OneSlotHeld
  <2>5. CASE ~Cur.more
    BY <1>2, <1>5, <2>1, <2>5, OneSlotHeld
  <2> QED BY <1>2, <2>3, <2>4, <2>5
<1> QED BY <1>6, <1>7

LEMMA StillKept ==
    ASSUME TagInv, KeptInv, UNCHANGED <<slots, kpolls>>, Line' = Line,
           Range(cq') \subseteq Range(cq)
    PROVE  KeptInv'
<1>1. Held' = Held
  BY DEF Held
<1> QED BY <1>1, MoreHeldKeeps DEF KeptInv

LEMMA EndBatchKept ==
    ASSUME TagInv, KeptInv, Submits, EndBatch
    PROVE  KeptInv'
<1>1. PICK ok \in SubmitOutcomes : SetQueues(Submit(Queues, ok))
  BY DEF EndBatch
<1>2. Line' = Line
  BY <1>1, AlwaysSubmits, SetLine, SubmitLine, QueuesType DEF TagInv, Line
<1>3. Range(cq') \subseteq Range(cq)
  BY RangeSubSeq DEF EndBatch, TagInv, TypeOK, DispState
<1>4. UNCHANGED <<slots, kpolls>>
  BY DEF EndBatch
<1> QED BY <1>2, <1>3, <1>4, StillKept

(* The kernel takes the entry at the head of the line. *)
LEMMA TakeHead ==
    ASSUME TagInv, kq # << >>, kq' = Tail(kq), sq' = sq
    PROVE  /\ Line' \in Seq(Sqe) /\ Len(Line) \in Nat \ {0}
           /\ DOMAIN Line' = 1..(Len(Line) - 1) /\ DOMAIN Line = 1..Len(Line)
           /\ Line[1] = Head(kq)
           /\ \A i \in DOMAIN Line' : /\ Line'[i] = Line[i + 1] /\ i + 1 \in DOMAIN Line
                                      /\ i + 1 # 1
           /\ \A i \in DOMAIN Line : i > 1 => i - 1 \in DOMAIN Line' /\ Line'[i - 1] = Line[i]
<1>1. sq \in Seq(Sqe) /\ kq \in Seq(Sqe)
  BY DEF TagInv, TypeOK
<1>2. Line = kq \o sq /\ Line' = Tail(kq) \o sq
  BY DEF Line, LineOf, Queues
<1>3. /\ Line' \in Seq(Sqe) /\ Len(Line') = Len(Line) - 1 /\ Len(Line) \in Nat \ {0}
      /\ Line[1] = Head(kq)
      /\ \A i \in 1..Len(Line') : Line'[i] = Line[i + 1]
  BY <1>1, <1>2, ConcatTail
<1>4. Line \in Seq(Sqe)
  BY LineType
<1>5. DOMAIN Line' = 1..(Len(Line) - 1) /\ DOMAIN Line = 1..Len(Line)
  BY <1>3, <1>4
<1>6. \A i \in DOMAIN Line' : Line'[i] = Line[i + 1] /\ i + 1 \in DOMAIN Line /\ i + 1 # 1
  BY <1>3, <1>5
<1>7. \A i \in DOMAIN Line : i > 1 => i - 1 \in DOMAIN Line' /\ i - 1 + 1 = i
  BY <1>3, <1>5
<1> QED BY <1>3, <1>5, <1>6, <1>7

(* What is behind the head keeps its order; the withdrawal of a poll is behind it. *)
LEMMA TailKept ==
    ASSUME TagInv, KeptInv, kq # << >>, kq' = Tail(kq), sq' = sq, slots' = slots
    PROVE  /\ LineKept(Line', Held')
           /\ \A i, j \in DOMAIN Line' :
            Line'[i].op = "poll" /\ Line'[j].op = "poll" /\ Line'[i].tag = Line'[j].tag => i = j
           /\ \A t : Given(Line, t) /\ (Line[1].op = "poll" \/ Line[1].tag # t) => Given(Line', t)
           /\ \A t : (\A i \in DOMAIN Line : Line[i].op = "poll" => Line[i].tag # t)
                      => (\A i \in DOMAIN Line' : Line'[i].op = "poll" => Line'[i].tag # t)
           /\ Line[1].op = "poll" =>
                 /\ \A i \in DOMAIN Line' : Line'[i].op = "poll" => Line'[i].tag # Line[1].tag
                 /\ Line[1].tag \in Held' \/ Given(Line', Line[1].tag)
<1>1. /\ 1 \in DOMAIN Line
      /\ \A i \in DOMAIN Line' : /\ Line'[i] = Line[i + 1] /\ i + 1 \in DOMAIN Line
                                 /\ i + 1 # 1
      /\ \A i \in DOMAIN Line : i > 1 => i - 1 \in DOMAIN Line' /\ Line'[i - 1] = Line[i]
      /\ \A i \in DOMAIN Line : i \in Nat \ {0}
      /\ \A i \in DOMAIN Line' : i \in Nat \ {0}
  BY TakeHead
<1>2. Held' = Held
  BY DEF Held
<1>3. ASSUME NEW i \in DOMAIN Line, Line[i].op = "poll", Line[i].tag \notin Held
      PROVE  \E j \in DOMAIN Line' : /\ j + 1 > i /\ Line'[j].op = "remove"
                                     /\ Line'[j].tag = Line[i].tag
  <2>1. PICK j \in DOMAIN Line : j > i /\ Line[j].op = "remove" /\ Line[j].tag = Line[i].tag
    BY <1>3 DEF KeptInv, Kept, LineKept
  <2>2. j > 1 /\ j - 1 + 1 = j
    BY <1>1, <2>1
  <2> QED BY <1>1, <2>1, <2>2
<1>4. LineKept(Line', Held')
  <2> SUFFICES ASSUME NEW i \in DOMAIN Line', Line'[i].op = "poll", Line'[i].tag \notin Held
               PROVE  \E j \in DOMAIN Line' : /\ j > i /\ Line'[j].op = "remove"
                                              /\ Line'[j].tag = Line'[i].tag
    BY <1>2 DEF LineKept
  <2>1. i + 1 \in DOMAIN Line /\ Line[i + 1] = Line'[i]
    BY <1>1
  <2>2. PICK j \in DOMAIN Line' : /\ j + 1 > i + 1 /\ Line'[j].op = "remove"
                                 /\ Line'[j].tag = Line[i + 1].tag
    BY <1>3, <2>1
  <2>3. j > i
    BY <1>1, <2>2
  <2> QED BY <2>1, <2>2, <2>3
<1>5. ASSUME NEW i \in DOMAIN Line', NEW j \in DOMAIN Line', Line'[i].op = "poll",
             Line'[j].op = "poll", Line'[i].tag = Line'[j].tag
      PROVE  i = j
  <2>1. i + 1 = j + 1
    BY <1>1, <1>5 DEF KeptInv, Kept, OnePollPerTag
  <2> QED BY <1>1, <2>1
<1>6. ASSUME NEW t, Given(Line, t), Line[1].op = "poll" \/ Line[1].tag # t
      PROVE  Given(Line', t)
  <2>1. PICK j \in DOMAIN Line : Line[j].op = "remove" /\ Line[j].tag = t
    BY <1>6 DEF Given
  <2>2. j # 1
    BY <1>6, <2>1
  <2>3. j > 1
    BY <1>1, <2>2
  <2> QED BY <1>1, <2>1, <2>3 DEF Given
<1>7. ASSUME NEW t, \A i \in DOMAIN Line : Line[i].op = "poll" => Line[i].tag # t
      PROVE  \A i \in DOMAIN Line' : Line'[i].op = "poll" => Line'[i].tag # t
  BY <1>1, <1>7
<1>8. ASSUME Line[1].op = "poll", NEW i \in DOMAIN Line', Line'[i].op = "poll"
      PROVE  Line'[i].tag # Line[1].tag
  BY <1>1, <1>8 DEF KeptInv, Kept, OnePollPerTag
<1>9. ASSUME Line[1].op = "poll", Line[1].tag \notin Held PROVE Given(Line', Line[1].tag)
  BY <1>1, <1>3, <1>9 DEF Given
<1>10. \A i, j \in DOMAIN Line' :
            Line'[i].op = "poll" /\ Line'[j].op = "poll" /\ Line'[i].tag = Line'[j].tag => i = j
  BY <1>5
<1>11. \A t : Given(Line, t) /\ (Line[1].op = "poll" \/ Line[1].tag # t) => Given(Line', t)
  BY <1>6
<1>12. \A t : (\A i \in DOMAIN Line : Line[i].op = "poll" => Line[i].tag # t)
              => (\A i \in DOMAIN Line' : Line'[i].op = "poll" => Line'[i].tag # t)
  BY <1>7
<1>13. Line[1].op = "poll" =>
          /\ \A i \in DOMAIN Line' : Line'[i].op = "poll" => Line'[i].tag # Line[1].tag
          /\ Line[1].tag \in Held' \/ Given(Line', Line[1].tag)
  BY <1>2, <1>8, <1>9
<1> QED BY <1>4, <1>10, <1>11, <1>12, <1>13

(* The kernel arms a poll, and may post a first completion for it that does not end it, or  *)
(* posts one that ends it. *)
LEMMA KernelPollFacts ==
    ASSUME TagInv, KernelPoll
    PROVE  /\ UNCHANGED <<slots, running, sq, disp>> /\ kq' = Tail(kq) /\ kq # << >>
           /\ Head(kq).op = "poll"
           /\ \E d \in Cqe, p \in KPoll :
                /\ d.tag = Head(kq).tag /\ p.tag = Head(kq).tag
                /\ \/ /\ kpolls' = kpolls \cup {p} /\ (cq' = cq \/ cq' = Append(cq, d))
                      /\ d.more /\ d.res = "ready"
                   \/ kpolls' = kpolls /\ cq' = Append(cq, d) /\ ~d.more
<1> USE DEF TagInv
<1> DEFINE e == Head(kq)
           poll == [tag |-> e.tag, fd |-> e.fd, file |-> inc[e.fd],
                    multi |-> e.multi, woken |-> FALSE]
           c(res, more) == Complete(e.tag, e.fd, inc[e.fd], res, more)
<1>1. /\ UNCHANGED <<slots, running, sq, disp>> /\ kq' = Tail(kq) /\ kq # << >> /\ e.op = "poll"
  BY DEF KernelPoll
<1>2. e \in Sqe /\ e.multi \in BOOLEAN /\ e.tag \in Tags /\ e.fd \in Fds
  BY <1>1, HeadFacts DEF Sqe
<1>3. inc[e.fd] \in Nat
  BY <1>2 DEF TypeOK
<1>4. poll \in KPoll /\ poll.tag = e.tag
  BY <1>2, <1>3 DEF KPoll
<1>5. \A res \in {"ready", "einval", "error", "again"}, more \in BOOLEAN :
         c(res, more) \in Cqe /\ c(res, more).tag = e.tag /\ c(res, more).more = more
         /\ c(res, more).res = res
  BY <1>2, <1>3 DEF Complete, Cqe
<1>6. \/ cq' = Append(cq, c("einval", FALSE)) /\ kpolls' = kpolls
      \/ /\ IF e.fd \in ready THEN cq' = Append(cq, c("ready", e.multi)) ELSE UNCHANGED cq
         /\ kpolls' = IF e.fd \in ready /\ ~e.multi THEN kpolls ELSE kpolls \cup {poll}
      \/ \E res \in Faults \cap {"error", "again"} :
            cq' = Append(cq, c(res, FALSE)) /\ kpolls' = kpolls
  BY DEF KernelPoll
<1> HIDE DEF c, poll
<1>7. \/ \E res \in {"ready", "einval", "error", "again"} :
            cq' = Append(cq, c(res, FALSE)) /\ kpolls' = kpolls
      \/ /\ cq' = cq \/ cq' = Append(cq, c("ready", TRUE))
         /\ kpolls' = kpolls \cup {poll}
  <2>1. CASE e.multi = TRUE
    BY <1>6, <2>1
  <2>2. CASE e.multi = FALSE
    BY <1>6, <2>2
  <2> QED BY <1>2, <2>1, <2>2
<1> QED BY <1>1, <1>4, <1>5, <1>7

LEMMA KernelPollKept == ASSUME TagInv, KeptInv, KernelPoll PROVE KeptInv'
<1> DEFINE e == Head(kq)
<1>1. /\ UNCHANGED <<slots, sq>> /\ kq' = Tail(kq) /\ kq # << >> /\ e.op = "poll"
      /\ e = Line[1] /\ 1 \in DOMAIN Line
  BY KernelPollFacts, TakeHead
<1>2. PICK d \in Cqe, p \in KPoll :
        /\ d.tag = e.tag /\ p.tag = e.tag
        /\ \/ /\ kpolls' = kpolls \cup {p} /\ (cq' = cq \/ cq' = Append(cq, d))
              /\ d.more /\ d.res = "ready"
           \/ kpolls' = kpolls /\ cq' = Append(cq, d) /\ ~d.more
  BY KernelPollFacts
<1> HIDE DEF e
<1>3. /\ LineKept(Line', Held')
      /\ \A i, j \in DOMAIN Line' :
            Line'[i].op = "poll" /\ Line'[j].op = "poll" /\ Line'[i].tag = Line'[j].tag => i = j
      /\ \A t : Given(Line, t) => Given(Line', t)
      /\ \A t : (\A i \in DOMAIN Line : Line[i].op = "poll" => Line[i].tag # t)
               => (\A i \in DOMAIN Line' : Line'[i].op = "poll" => Line'[i].tag # t)
      /\ \A i \in DOMAIN Line' : Line'[i].op = "poll" => Line'[i].tag # e.tag
      /\ e.tag \in Held' \/ Given(Line', e.tag)
  BY <1>1, TailKept
<1>4. /\ ArmedKept(Line, kpolls, Held) /\ OnePollPerTag(Line, kpolls)
      /\ EndsKept(Line, kpolls, Range(cq)) /\ Held' = Held
  BY <1>1 DEF KeptInv, Kept, Held
<1>5. \A q \in kpolls : q.tag # e.tag
  BY <1>1, <1>4 DEF OnePollPerTag
<1>6. \A q \in kpolls' : q \in kpolls \/ (q = p /\ kpolls' = kpolls \cup {p})
  BY <1>2
<1>7. ArmedKept(Line', kpolls', Held')
  BY <1>2, <1>3, <1>4, <1>6 DEF ArmedKept
<1>8. OnePollPerTag(Line', kpolls')
  <2>1. \A q, r \in kpolls' : q.tag = r.tag => q = r
    BY <1>2, <1>4, <1>5, <1>6 DEF OnePollPerTag
  <2>2. \A q \in kpolls, i \in DOMAIN Line' : Line'[i].op = "poll" => Line'[i].tag # q.tag
    BY <1>3, <1>4 DEF OnePollPerTag
  <2>3. \A i \in DOMAIN Line', q \in kpolls' : Line'[i].op = "poll" => Line'[i].tag # q.tag
    BY <1>2, <1>3, <1>6, <2>2
  <2> QED BY <1>3, <2>1, <2>3 DEF OnePollPerTag
<1>9. \A b \in Range(cq') : b \in Range(cq) \/ (b = d /\ cq' = Append(cq, d))
  <2>1. CASE cq' = cq
    BY <2>1
  <2>2. CASE cq' = Append(cq, d)
    BY <2>2, AppendCq DEF TagInv
  <2> QED BY <1>2, <2>1, <2>2
<1>10. ASSUME NEW b \in Range(cq)
       PROVE  /\ b.tag # NoTag /\ ~b.more => NoPoll(Line', kpolls', b.tag)
              /\ b.res = "einval" => ~b.more
  <2>1. b.tag # NoTag /\ ~b.more => NoPoll(Line, kpolls, b.tag)
    BY <1>4 DEF EndsKept
  <2>2. b.tag # NoTag /\ ~b.more => b.tag # e.tag
    BY <1>1, <2>1 DEF NoPoll
  <2> QED BY <1>2, <1>3, <1>4, <1>6, <2>1, <2>2 DEF NoPoll, EndsKept
<1>11. cq' = Append(cq, d) =>
         /\ ~d.more => NoPoll(Line', kpolls', d.tag)
         /\ d.res = "einval" => ~d.more
  BY <1>2, <1>3, <1>5 DEF NoPoll
<1>12. EndsKept(Line', kpolls', Range(cq'))
  <2> SUFFICES ASSUME NEW b \in Range(cq')
               PROVE  /\ b.tag # NoTag /\ ~b.more => NoPoll(Line', kpolls', b.tag)
                      /\ b.res = "einval" => ~b.more
    BY DEF EndsKept
  <2>1. CASE b \in Range(cq)
    BY <1>10, <2>1
  <2>2. CASE b = d /\ cq' = Append(cq, d)
    <3>1. (~d.more => NoPoll(Line', kpolls', d.tag)) /\ (d.res = "einval" => ~d.more)
      BY <1>11, <2>2
    <3> QED BY <2>2, <3>1
  <2> QED BY <1>9, <2>1, <2>2
<1>13. KeptInv' = Kept(Line', kpolls', Range(cq'), Held')
  BY DEF KeptInv, Kept, LineKept, ArmedKept, OnePollPerTag, EndsKept, Given, NoPoll, Range
<1> QED BY <1>3, <1>7, <1>8, <1>12, <1>13 DEF Kept

LEMMA KernelRemoveFacts ==
    ASSUME TagInv, KernelRemove
    PROVE  /\ UNCHANGED <<slots, running, sq, disp>> /\ kq' = Tail(kq) /\ kq # << >>
           /\ Head(kq).op = "remove" /\ Head(kq) \in Pending(Queues)
           /\ kpolls' = {p \in kpolls : p.tag # Head(kq).tag}
           /\ \E d \in Cqe, z \in Cqe :
                /\ z.tag = NoTag /\ z.res = "ready"
                /\ d.tag = Head(kq).tag /\ ~d.more /\ d.res = "canceled"
                /\ \/ kpolls' = kpolls /\ cq' = Append(cq, z)
                   \/ /\ \E p \in kpolls : p.tag = Head(kq).tag
                      /\ cq' = Append(Append(cq, d), z)
<1> USE DEF TagInv
<1> DEFINE e    == Head(kq)
           done == Complete(NoTag, e.fd, inc[e.fd], "ready", FALSE)
           ends == Complete(e.tag, e.fd, inc[e.fd], "canceled", FALSE)
           found == {p \in kpolls : p.tag = e.tag}
<1>1. /\ UNCHANGED <<slots, running, sq, disp>> /\ kq' = Tail(kq) /\ kq # << >>
      /\ e.op = "remove" /\ kpolls' = kpolls \ found
      /\ cq' = IF found = {} THEN Append(cq, done) ELSE Append(Append(cq, ends), done)
  BY DEF KernelRemove
<1>2. e \in Sqe /\ e \in Pending(Queues)
  BY <1>1, HeadFacts
<1>3. done \in Cqe /\ ends \in Cqe
  BY <1>2, UringAssumption DEF Complete, Cqe, Sqe, TypeOK, NoTag, Tags
<1>4. /\ done.tag = NoTag /\ done.res = "ready" /\ ends.tag = e.tag
      /\ ~ends.more /\ ends.res = "canceled"
  BY DEF Complete
<1> HIDE DEF done, ends
<1>5. \/ kpolls' = kpolls /\ cq' = Append(cq, done)
      \/ (\E p \in kpolls : p.tag = e.tag) /\ cq' = Append(Append(cq, ends), done)
  BY <1>1
<1>6. kpolls' = {p \in kpolls : p.tag # e.tag}
  BY <1>1
<1> QED BY <1>1, <1>2, <1>3, <1>4, <1>5, <1>6

LEMMA AppendTwo ==
    ASSUME NEW S, NEW q \in Seq(S), NEW d \in S, NEW z \in S
    PROVE  Range(Append(Append(q, d), z)) = Range(q) \cup {d, z}
<1>1. Append(q, d) \in Seq(S) /\ Range(Append(q, d)) = Range(q) \cup {d}
  BY RangeAppend
<1> DEFINE a == Append(q, d)
<1>2. a \in Seq(S) /\ Range(a) = Range(q) \cup {d}
  BY <1>1
<1> HIDE DEF a
<1>3. Range(Append(a, z)) = Range(a) \cup {z}
  BY <1>2, RangeAppend
<1>4. Range(Append(a, z)) = Range(q) \cup {d, z}
  BY <1>2, <1>3
<1> QED BY <1>4 DEF a

LEMMA KernelRemoveKept == ASSUME TagInv, KeptInv, KernelRemove PROVE KeptInv'
<1> DEFINE e == Head(kq)
<1>1. /\ UNCHANGED <<slots, sq>> /\ kq' = Tail(kq) /\ kq # << >> /\ e.op = "remove"
      /\ e = Line[1] /\ 1 \in DOMAIN Line /\ kpolls' = {p \in kpolls : p.tag # e.tag}
  BY KernelRemoveFacts, TakeHead
<1>2. PICK d \in Cqe, z \in Cqe :
        /\ z.tag = NoTag /\ z.res = "ready" /\ d.tag = e.tag /\ ~d.more /\ d.res = "canceled"
        /\ \/ kpolls' = kpolls /\ cq' = Append(cq, z)
           \/ (\E p \in kpolls : p.tag = e.tag) /\ cq' = Append(Append(cq, d), z)
  BY KernelRemoveFacts
<1> HIDE DEF e
<1>3. /\ LineKept(Line', Held')
      /\ \A i, j \in DOMAIN Line' :
            Line'[i].op = "poll" /\ Line'[j].op = "poll" /\ Line'[i].tag = Line'[j].tag => i = j
      /\ \A t : Given(Line, t) /\ e.tag # t => Given(Line', t)
      /\ \A t : (\A i \in DOMAIN Line : Line[i].op = "poll" => Line[i].tag # t)
               => (\A i \in DOMAIN Line' : Line'[i].op = "poll" => Line'[i].tag # t)
  BY <1>1, TailKept
<1>4. /\ ArmedKept(Line, kpolls, Held) /\ OnePollPerTag(Line, kpolls)
      /\ EndsKept(Line, kpolls, Range(cq)) /\ Held' = Held
  BY <1>1 DEF KeptInv, Kept, Held
<1>5. ArmedKept(Line', kpolls', Held')
  BY <1>1, <1>3, <1>4 DEF ArmedKept
<1>6. OnePollPerTag(Line', kpolls')
  <2>1. \A q, r \in kpolls' : q.tag = r.tag => q = r
    BY <1>1, <1>4 DEF OnePollPerTag
  <2>2. \A q \in kpolls, i \in DOMAIN Line' : Line'[i].op = "poll" => Line'[i].tag # q.tag
    BY <1>3, <1>4 DEF OnePollPerTag
  <2> QED BY <1>1, <1>3, <2>1, <2>2 DEF OnePollPerTag
<1>7. \A t : NoPoll(Line, kpolls, t) => NoPoll(Line', kpolls', t)
  BY <1>1, <1>3 DEF NoPoll
<1>8. \A b \in Range(cq') :
        \/ b \in Range(cq) \/ b = z
        \/ b = d /\ \E p \in kpolls : p.tag = e.tag
  <2>1. CASE cq' = Append(cq, z)
    <3>1. cq \in Seq(Cqe)
      BY LineType
    <3>2. Range(Append(cq, z)) = Range(cq) \cup {z}
      BY <3>1, RangeAppend
    <3> QED BY <2>1, <3>2
  <2>2. CASE (\E p \in kpolls : p.tag = e.tag) /\ cq' = Append(Append(cq, d), z)
    BY <2>2, AppendTwo, LineType
  <2> QED BY <1>2, <2>1, <2>2
<1>9. ASSUME NEW p \in kpolls, p.tag = e.tag PROVE NoPoll(Line', kpolls', e.tag)
  <2>1. \A i \in DOMAIN Line : Line[i].op = "poll" => Line[i].tag # e.tag
    BY <1>4, <1>9 DEF OnePollPerTag
  <2> QED BY <1>1, <1>3, <2>1 DEF NoPoll
<1>10. EndsKept(Line', kpolls', Range(cq'))
  BY <1>2, <1>4, <1>7, <1>8, <1>9 DEF EndsKept
<1>11. KeptInv' = Kept(Line', kpolls', Range(cq'), Held')
  BY DEF KeptInv, Kept, LineKept, ArmedKept, OnePollPerTag, EndsKept, Given, NoPoll, Range
<1> QED BY <1>3, <1>5, <1>6, <1>10, <1>11 DEF Kept

(* A poll that wakes is no longer woken; if it posts a completion that ends it, it is gone. *)
LEMMA KernelWakeFacts ==
    ASSUME TagInv, KernelWake
    PROVE  /\ UNCHANGED <<slots, running, sq, kq, disp>>
           /\ \E p \in kpolls, q \in KPoll, d \in Cqe :
                /\ q.tag = p.tag /\ d.tag = p.tag /\ d.res = "ready"
                /\ \/ /\ kpolls' = (kpolls \ {p}) \cup {q}
                      /\ cq' = cq \/ (cq' = Append(cq, d) /\ d.more)
                   \/ kpolls' = kpolls \ {p} /\ cq' = Append(cq, d) /\ ~d.more
<1>1. PICK p \in kpolls :
        IF p.fd \in ready \/ p.file # inc[p.fd]
        THEN \E more \in BOOLEAN :
               /\ cq' = Append(cq, Complete(p.tag, p.fd, p.file, "ready", more))
               /\ kpolls' = (kpolls \ {p}) \cup
                            {[q EXCEPT !.woken = FALSE] : q \in {r \in {p} : more}}
        ELSE /\ kpolls' = (kpolls \ {p}) \cup {[p EXCEPT !.woken = FALSE]}
             /\ UNCHANGED cq
  BY DEF KernelWake
<1> DEFINE q == [p EXCEPT !.woken = FALSE]
           d(more) == Complete(p.tag, p.fd, p.file, "ready", more)
<1>2. p \in KPoll
  BY DEF TagInv, TypeOK
<1>3. q \in KPoll /\ q.tag = p.tag
  BY <1>2 DEF KPoll
<1>4. \A more \in BOOLEAN : /\ d(more) \in Cqe /\ d(more).tag = p.tag /\ d(more).res = "ready"
                            /\ d(more).more = more
  BY <1>2 DEF Complete, Cqe, KPoll
<1>5. \/ /\ kpolls' = (kpolls \ {p}) \cup {q}
         /\ cq' = cq \/ cq' = Append(cq, d(TRUE))
      \/ kpolls' = kpolls \ {p} /\ cq' = Append(cq, d(FALSE))
  <2> HIDE DEF d
  <2>1. CASE ~(p.fd \in ready \/ p.file # inc[p.fd])
    BY <1>1, <2>1
  <2>2. CASE p.fd \in ready \/ p.file # inc[p.fd]
    <3>1. PICK more \in BOOLEAN :
            /\ cq' = Append(cq, d(more))
            /\ kpolls' = (kpolls \ {p}) \cup
                         {[r EXCEPT !.woken = FALSE] : r \in {r \in {p} : more}}
      BY <1>1, <2>2 DEF d
    <3>2. CASE more = TRUE
      BY <3>1, <3>2
    <3>3. CASE more = FALSE
      BY <3>1, <3>3
    <3> QED BY <3>2, <3>3
  <2> QED BY <2>1, <2>2
<1>6. UNCHANGED <<slots, running, sq, kq, disp>>
  BY DEF KernelWake
<1> HIDE DEF q, d
<1>7. CASE /\ kpolls' = (kpolls \ {p}) \cup {q}
           /\ cq' = cq \/ cq' = Append(cq, d(TRUE))
  BY <1>3, <1>4, <1>6, <1>7
<1>8. CASE kpolls' = kpolls \ {p} /\ cq' = Append(cq, d(FALSE))
  BY <1>3, <1>4, <1>6, <1>8
<1> QED BY <1>5, <1>7, <1>8

LEMMA KernelWakeKept == ASSUME TagInv, KeptInv, KernelWake PROVE KeptInv'
<1>1. PICK p \in kpolls, q \in KPoll, d \in Cqe :
        /\ q.tag = p.tag /\ d.tag = p.tag /\ d.res = "ready"
        /\ \/ /\ kpolls' = (kpolls \ {p}) \cup {q}
              /\ cq' = cq \/ (cq' = Append(cq, d) /\ d.more)
           \/ kpolls' = kpolls \ {p} /\ cq' = Append(cq, d) /\ ~d.more
  BY KernelWakeFacts
<1>2. UNCHANGED <<slots, sq, kq>>
  BY KernelWakeFacts
<1>3. Line' = Line /\ Held' = Held
  BY <1>2 DEF Line, LineOf, Queues, Held
<1>4. /\ LineKept(Line, Held) /\ ArmedKept(Line, kpolls, Held) /\ OnePollPerTag(Line, kpolls)
      /\ EndsKept(Line, kpolls, Range(cq))
  BY DEF KeptInv, Kept
<1>5. \A r \in kpolls' : (r \in kpolls /\ r # p) \/ (r = q /\ q.tag = p.tag)
  BY <1>1
<1>6. \A r \in kpolls : r.tag = p.tag => r = p
  BY <1>4 DEF OnePollPerTag
<1>7. ArmedKept(Line, kpolls', Held)
  BY <1>4, <1>5 DEF ArmedKept
<1>8. OnePollPerTag(Line, kpolls')
  BY <1>4, <1>5, <1>6 DEF OnePollPerTag
<1>9. \A t : NoPoll(Line, kpolls, t) => NoPoll(Line, kpolls', t)
  BY <1>5 DEF NoPoll
<1>10. \A b \in Range(cq') : b \in Range(cq) \/ (b = d /\ cq' = Append(cq, d))
  <2>1. CASE cq' = cq
    BY <2>1
  <2>2. CASE cq' = Append(cq, d)
    <3>1. cq \in Seq(Cqe)
      BY LineType
    <3>2. Range(Append(cq, d)) = Range(cq) \cup {d}
      BY <3>1, RangeAppend
    <3> QED BY <2>2, <3>2
  <2> QED BY <1>1, <2>1, <2>2
<1>11. ASSUME ~d.more, cq' = Append(cq, d) PROVE NoPoll(Line, kpolls', d.tag)
  <2>1. kpolls' = kpolls \ {p} \/ cq' = cq
    BY <1>1, <1>11
  <2>2. CASE kpolls' = kpolls \ {p}
    BY <1>1, <1>4, <1>6, <2>2 DEF NoPoll, OnePollPerTag
  <2>3. cq' # cq
    <3>1. cq \in Seq(Cqe)
      BY LineType
    <3>2. Len(Append(cq, d)) = Len(cq) + 1 /\ Len(cq) \in Nat
      BY <3>1
    <3>3. Len(cq') # Len(cq)
      BY <1>11, <3>2
    <3> QED BY <3>3
  <2> QED BY <2>1, <2>2, <2>3
<1>12. EndsKept(Line, kpolls', Range(cq'))
  <2> SUFFICES ASSUME NEW b \in Range(cq')
               PROVE  /\ b.tag # NoTag /\ ~b.more => NoPoll(Line, kpolls', b.tag)
                      /\ b.res = "einval" => ~b.more
    BY DEF EndsKept
  <2>1. CASE b \in Range(cq)
    BY <1>4, <1>9, <2>1 DEF EndsKept
  <2>2. CASE b = d /\ cq' = Append(cq, d)
    <3>1. ~d.more => NoPoll(Line, kpolls', d.tag)
      BY <1>11, <2>2
    <3> QED BY <1>1, <2>2, <3>1
  <2> QED BY <1>10, <2>1, <2>2
<1>13. KeptInv' = Kept(Line', kpolls', Range(cq'), Held')
  BY DEF KeptInv, Kept, LineKept, ArmedKept, OnePollPerTag, EndsKept, Given, NoPoll, Range
<1>14. Kept(Line, kpolls', Range(cq'), Held)
  BY <1>4, <1>7, <1>8, <1>12 DEF Kept
<1> QED BY <1>3, <1>13, <1>14

(* Wake-ups leave a poll the poll it is. *)
LEMMA WokenKept ==
    ASSUME TagInv, KeptInv, UNCHANGED <<slots, sq, kq, cq>>, NEW w,
           kpolls' = {[p EXCEPT !.woken = w[p]] : p \in kpolls}
    PROVE  KeptInv'
<1>1. \A q \in kpolls' : \E p \in kpolls : q = [p EXCEPT !.woken = w[p]] /\ q.tag = p.tag
  <2> TAKE q \in kpolls'
  <2>1. PICK p \in kpolls : q = [p EXCEPT !.woken = w[p]]
    OBVIOUS
  <2>2. p \in KPoll
    BY DEF TagInv, TypeOK
  <2>3. q.tag = p.tag
    BY <2>1, <2>2 DEF KPoll
  <2> QED BY <2>1, <2>3
<1>2. Line' = Line /\ Held' = Held
  BY DEF Line, LineOf, Queues, Held
<1>3. /\ LineKept(Line, Held) /\ ArmedKept(Line, kpolls, Held) /\ OnePollPerTag(Line, kpolls)
      /\ EndsKept(Line, kpolls, Range(cq))
  BY DEF KeptInv, Kept
<1>4. ArmedKept(Line, kpolls', Held)
  BY <1>1, <1>3 DEF ArmedKept
<1>5. OnePollPerTag(Line, kpolls')
  BY <1>1, <1>3 DEF OnePollPerTag
<1>6. \A t : NoPoll(Line, kpolls, t) => NoPoll(Line, kpolls', t)
  BY <1>1 DEF NoPoll
<1>7. EndsKept(Line, kpolls', Range(cq))
  BY <1>3, <1>6 DEF EndsKept
<1>8. KeptInv' = Kept(Line', kpolls', Range(cq'), Held')
  BY DEF KeptInv, Kept, LineKept, ArmedKept, OnePollPerTag, EndsKept, Given, NoPoll, Range
<1>9. Kept(Line, kpolls', Range(cq), Held)
  BY <1>3, <1>4, <1>5, <1>7 DEF Kept
<1>10. Range(cq') = Range(cq)
  OBVIOUS
<1> QED BY <1>2, <1>8, <1>9, <1>10

LEMMA KeptInit == Init => KeptInv
<1> SUFFICES ASSUME Init PROVE KeptInv
  OBVIOUS
<1>1. Line = << >>
  BY DEF Init, Line, LineOf, Queues
<1>2. kpolls = {} /\ Range(cq) = {}
  BY RangeEmpty DEF Init
<1> QED BY <1>1, <1>2 DEF KeptInv, Kept, LineKept, ArmedKept, OnePollPerTag, EndsKept

LEMMA KeptStep == TagInv /\ KeptInv /\ Submits /\ [Next]_vars => KeptInv'
<1> SUFFICES ASSUME TagInv, KeptInv, Submits, [Next]_vars PROVE KeptInv'
  OBVIOUS
<1>1. ASSUME NEW fd \in Fds, NEW type \in Types, NEW mask \in Masks, AddPoll(fd, type, mask)
      PROVE  KeptInv'
  BY <1>1, AddPollKept
<1>2. ASSUME NEW fd \in Fds, RemovePoll(fd) PROVE KeptInv'
  BY <1>2, RemovePollKept
<1>3. ASSUME NEW fd \in Fds, Reopen(fd) PROVE KeptInv'
  <2> DEFINE w == [p \in kpolls |-> p.woken \/ p.fd = fd]
  <2>1. UNCHANGED <<slots, sq, kq, cq>> /\ kpolls' = {[p EXCEPT !.woken = w[p]] : p \in kpolls}
    BY <1>3 DEF Reopen
  <2> HIDE DEF w
  <2> QED BY <2>1, WokenKept
<1>4. CASE Stop \/ Enter \/ Interrupted \/ WaitCqe \/ Skip \/ EndFirstPass \/ UNCHANGED vars
  <2>1. UNCHANGED <<slots, kpolls, sq, kq, cq>>
    BY <1>4 DEF Stop, Enter, Interrupted, WaitCqe, Skip, EndFirstPass, vars
  <2>2. Line' = Line /\ Range(cq') \subseteq Range(cq)
    BY <2>1 DEF Line, LineOf, Queues
  <2> QED BY <2>1, <2>2, StillKept
<1>5. CASE Again \/ FallBack \/ HandlerReturns
  BY <1>5, WalkKept
<1>6. CASE Drop \/ Deliver
  BY <1>6, DropDeliverKept
<1>7. CASE EndBatch
  BY <1>7, EndBatchKept
<1>8. CASE KernelPoll
  BY <1>8, KernelPollKept
<1>9. CASE KernelRemove
  BY <1>9, KernelRemoveKept
<1>10. CASE KernelWake
  BY <1>10, KernelWakeKept
<1>11. ASSUME NEW fd \in Fds, Arrive(fd) PROVE KeptInv'
  <2> DEFINE w == [p \in kpolls |-> p.woken \/ (p.fd = fd /\ p.file = inc[fd])]
  <2>1. UNCHANGED <<slots, sq, kq, cq>> /\ kpolls' = {[p EXCEPT !.woken = w[p]] : p \in kpolls}
    BY <1>11 DEF Arrive
  <2> HIDE DEF w
  <2> QED BY <2>1, WokenKept
<1> QED BY <1>1, <1>2, <1>3, <1>4, <1>5, <1>6, <1>7, <1>8, <1>9, <1>10, <1>11
        DEF Next, ClientStep, Dispatch, Kernel

(* While every submission succeeds, a poll in the kernel is that of a slot in flight, or its *)
(* withdrawal is on its way: nothing the loop does forgets a poll it has armed. *)
THEOREM NoPollOrphaned ==
    ASSUME Submits
    PROVE  Spec => []NoOrphanPoll
<1>1. TagInv /\ KeptInv => NoOrphanPoll
  <2> SUFFICES ASSUME TagInv, KeptInv, NEW p \in kpolls
               PROVE  \/ slots[p.tag.slot].active /\ slots[p.tag.slot].tag = p.tag
                      \/ \E e \in Pending(Queues) : e.op = "remove" /\ e.tag = p.tag
    BY DEF NoOrphanPoll, Pending, Queues
  <2>1. CASE p.tag \in Held
    <3>1. PICK s \in SlotIds : slots[s].inFlight /\ slots[s].tag = p.tag
      BY <2>1 DEF Held
    <3> QED BY <3>1, HeldSlot
  <2>2. CASE Given(Line, p.tag)
    BY <2>2, LineType DEF Given
  <2> QED BY <2>1, <2>2 DEF KeptInv, Kept, ArmedKept
<1>2. Init => KeptInv
  BY KeptInit
<1>3. TagInv /\ KeptInv /\ [Next]_vars => KeptInv'
  BY KeptStep
<1> QED BY <1>1, <1>2, <1>3, TagInvariant, PTL DEF Spec

-----------------------------------------------------------------------------
(* No registration goes deaf. *)

HeardInv ==
    running => \A s \in SlotIds : slots[s].active /\ ~slots[s].inFlight =>
                                      disp.pc = "handler" /\ slots[s].tag = disp.tag

(* A step that changes one slot, outside of a callback or for its slot. *)
LEMMA OneSlotHeard ==
    ASSUME TagInv, HeardInv, NEW s \in SlotIds, NEW x, slots' = [slots EXCEPT ![s] = x],
           x.active /\ running => x.inFlight, running' = running, UNCHANGED disp
    PROVE  HeardInv'
<1>1. slots'[s] = x /\ \A u \in SlotIds \ {s} : slots'[u] = slots[u]
  BY OneSlotHeld
<1> QED BY <1>1 DEF HeardInv

LEMMA WalkHeard ==
    ASSUME TagInv, HeardInv, Submits, NEW t \in Tags, NotAhead(t), NEW y \in Slot,
           y.active = slots[t.slot].active, y.fd = slots[t.slot].fd,
           y.type = slots[t.slot].type, y.gen = slots[t.slot].gen,
           y.tag = slots[t.slot].tag, y.inFlight => slots[t.slot].inFlight,
           Rearm([slots EXCEPT ![t.slot] = y], t), running' = running,
           disp.pc # "handler" => slots[t.slot].tag = t,
           disp.pc = "handler" => disp.tag = t /\ y = slots[t.slot]
    PROVE  HeardInv'
<1> DEFINE s    == t.slot
           new  == Armed(slots[s], s, y.fd, y.type, y.mask, y.multi)
<1>1. s \in SlotIds /\ t # NoTag
  BY DEF NotAhead, NoTag, SlotIds
<1>2. \/ slots' = [slots EXCEPT ![s] = y] /\ ~MayRearm(y, t)
      \/ slots' = [slots EXCEPT ![s] = new] /\ new.inFlight
  BY RearmFacts DEF Armed
<1> HIDE DEF new
<1>3. /\ \A u \in SlotIds \ {s} : slots'[u] = slots[u]
      /\ (slots'[s] = y /\ ~MayRearm(y, t)) \/ slots'[s].inFlight
  <2>1. CASE slots' = [slots EXCEPT ![s] = y] /\ ~MayRearm(y, t)
    BY <1>1, <2>1, OneSlotHeld
  <2>2. CASE slots' = [slots EXCEPT ![s] = new] /\ new.inFlight
    BY <1>1, <2>2, OneSlotHeld
  <2> QED BY <1>2, <2>1, <2>2
<1>4. ASSUME NEW u \in SlotIds \ {s}, slots[u].active, running PROVE slots[u].inFlight
  <2> SUFFICES ASSUME ~slots[u].inFlight PROVE FALSE
    OBVIOUS
  <2>1. disp.pc = "handler" /\ slots[u].tag = t
    BY <1>4 DEF HeardInv
  <2>2. slots[u].tag = Tag(u, slots[u].gen)
    BY <1>1, <2>1 DEF TagInv, SlotInv
  <2>3. Tag(u, slots[u].gen).slot = u
    BY DEF Tag
  <2> QED BY <2>1, <2>2, <2>3
<1>5. ASSUME running, slots'[s].active, slots'[s] = y, ~MayRearm(y, t) PROVE slots'[s].inFlight
  <2> SUFFICES ASSUME ~y.inFlight PROVE FALSE
    BY <1>5
  <2>1. y.tag # t
    BY <1>5 DEF MayRearm
  <2>2. disp.pc = "handler" /\ slots[s].active
    BY <1>5, <2>1
  <2>3. slots[s].inFlight
    BY <1>1, <1>5, <2>1, <2>2 DEF HeardInv
  <2> QED BY <2>2, <2>3
<1> QED BY <1>1, <1>3, <1>4, <1>5 DEF HeardInv

LEMMA HeardStep == TagInv /\ HeardInv /\ Submits /\ [Next]_vars => HeardInv'
<1> SUFFICES ASSUME TagInv, HeardInv, Submits, [Next]_vars PROVE HeardInv'
  OBVIOUS
<1> USE DEF TagInv
<1>1. ASSUME NEW fd \in Fds, NEW type \in Types, NEW mask \in Masks, AddPoll(fd, type, mask)
      PROVE  HeardInv'
  <2>1. PICK s \in SlotIds :
          slots' = [slots EXCEPT ![s] = Armed(slots[s], s, fd, type, mask, multishot)]
    BY <1>1, AddPollFacts
  <2>2. UNCHANGED <<running, disp>>
    BY <1>1, AddPollFacts
  <2> DEFINE x == Armed(slots[s], s, fd, type, mask, multishot)
  <2>3. x.inFlight
    BY DEF Armed
  <2> HIDE DEF x
  <2>4. slots' = [slots EXCEPT ![s] = x]
    BY <2>1 DEF x
  <2> QED BY <2>2, <2>3, <2>4, OneSlotHeard
<1>2. ASSUME NEW fd \in Fds, RemovePoll(fd) PROVE HeardInv'
  <2>1. PICK s \in SlotIds : slots' = [slots EXCEPT ![s] = Vacant(slots[s].gen)]
    BY <1>2, RemovePollFacts
  <2>2. UNCHANGED <<running, disp>>
    BY <1>2, RemovePollFacts
  <2>3. ~Vacant(slots[s].gen).active
    BY DEF Vacant
  <2> QED BY <2>1, <2>2, <2>3, OneSlotHeard
<1>3. ASSUME UNCHANGED slots, running' => running,
             UNCHANGED disp \/ (disp.pc # "handler" /\ disp'.pc # "handler")
      PROVE  HeardInv'
  BY <1>3 DEF HeardInv
<1>4. disp \in DispState
  BY DEF TypeOK
<1>5. CASE Stop
  BY <1>5 DEF Stop, HeardInv
<1>6. CASE Enter \/ Interrupted \/ WaitCqe \/ Skip \/ EndFirstPass \/ EndBatch
  <2>1. UNCHANGED <<slots, running>> /\ disp.pc # "handler"
    BY <1>6 DEF Enter, Interrupted, WaitCqe, Skip, EndFirstPass, EndBatch, InScan
  <2>2. disp'.pc # "handler"
    <3>1. CASE Enter
      BY <1>4, <3>1 DEF Enter, DispState
    <3>2. CASE Interrupted
      BY <1>4, <3>2 DEF Interrupted, DispState
    <3>3. CASE WaitCqe
      BY <1>4, <3>3 DEF WaitCqe, DispState
    <3>4. CASE Skip
      BY <1>4, <3>4 DEF Skip, Onward, DispState
    <3>5. CASE EndFirstPass
      BY <1>4, <2>1, <3>5 DEF EndFirstPass, DispState
    <3>6. CASE EndBatch
      BY <1>4, <3>6 DEF EndBatch, DispState
    <3> QED BY <1>6, <3>1, <3>2, <3>3, <3>4, <3>5, <3>6
  <2> QED BY <1>3, <2>1, <2>2
<1>7. CASE Kernel \/ UNCHANGED vars \/ \E fd \in Fds : Reopen(fd) \/ Arrive(fd)
  <2>1. UNCHANGED <<slots, running, disp>>
    BY <1>7 DEF Kernel, KernelPoll, KernelRemove, KernelWake, vars, Reopen, Arrive
  <2> QED BY <1>3, <2>1
<1>8. CASE Again
  <2> DEFINE t == Cur.tag
             y == Completed(slots[t.slot], Cur.more)
  <2>1. InScan /\ Mine(Cur) /\ running' = running /\ Rearm([slots EXCEPT ![t.slot] = y], t) /\ Onward
    BY <1>8 DEF Again
  <2>2. /\ t \in Tags /\ NotAhead(t) /\ t.slot \in SlotIds /\ Cur.more \in BOOLEAN
        /\ slots[t.slot] \in Slot /\ slots[t.slot].tag = t /\ disp.pc = "scan"
    BY <2>1, CursorFacts DEF Cqe, TypeOK
  <2>3. /\ y \in Slot /\ y.active = slots[t.slot].active /\ y.fd = slots[t.slot].fd
        /\ y.type = slots[t.slot].type /\ y.gen = slots[t.slot].gen
        /\ y.tag = slots[t.slot].tag /\ (y.inFlight => slots[t.slot].inFlight)
    BY <2>2, CompletedSlot
  <2> HIDE DEF y
  <2> QED BY <2>1, <2>2, <2>3, WalkHeard
<1>9. CASE FallBack
  <2> DEFINE t == Cur.tag
             y == [slots[t.slot] EXCEPT !.multi = FALSE, !.inFlight = FALSE]
  <2>1. InScan /\ Mine(Cur) /\ running' = running
    BY <1>9 DEF FallBack
  <2>2. /\ t \in Tags /\ NotAhead(t) /\ t.slot \in SlotIds /\ slots[t.slot] \in Slot
        /\ slots \in [SlotIds -> Slot] /\ slots[t.slot].tag = t /\ disp.pc = "scan"
    BY <2>1, CursorFacts DEF Cqe, TypeOK
  <2>3. /\ y \in Slot /\ y.active = slots[t.slot].active /\ y.fd = slots[t.slot].fd
        /\ y.type = slots[t.slot].type /\ y.gen = slots[t.slot].gen
        /\ y.tag = slots[t.slot].tag /\ ~y.inFlight
    BY <2>2 DEF Slot
  <2>4. [slots EXCEPT ![t.slot].multi = FALSE, ![t.slot].inFlight = FALSE]
          = [slots EXCEPT ![t.slot] = y]
    BY <2>2 DEF Slot
  <2>5. Rearm([slots EXCEPT ![t.slot] = y], t)
    BY <1>9, <2>4 DEF FallBack
  <2> HIDE DEF y
  <2> QED BY <2>1, <2>2, <2>3, <2>5, WalkHeard
<1>10. CASE HandlerReturns
  <2> DEFINE t == disp.tag
             y == slots[t.slot]
  <2>1. disp.pc = "handler" /\ running' = running /\ Rearm(slots, t)
    BY <1>10 DEF HandlerReturns
  <2>2. t \in Tags /\ NotAhead(t) /\ t.slot \in SlotIds /\ y \in Slot
    BY <2>1 DEF CallbackInv, TypeOK, DispState, NotAhead
  <2>3. [slots EXCEPT ![t.slot] = y] = slots
    BY DEF TypeOK
  <2> QED BY <2>1, <2>2, <2>3, WalkHeard
<1>11. CASE Drop
  <2>1. InScan /\ Mine(Cur) /\ running' = running /\ Onward
        /\ slots' = IF Cur.more THEN slots
                    ELSE [slots EXCEPT ![Cur.tag.slot] = Vacant(slots[Cur.tag.slot].gen)]
    BY <1>11 DEF Drop
  <2>2. Cur.tag.slot \in SlotIds /\ disp.pc = "scan" /\ slots \in [SlotIds -> Slot]
    BY <2>1, CursorFacts DEF TypeOK
  <2>3. \A s \in SlotIds : slots'[s] = slots[s] \/ ~slots'[s].active
    BY <2>1, <2>2 DEF Vacant
  <2> QED BY <2>1, <2>2, <2>3 DEF HeardInv
<1>12. CASE Deliver
  <2> DEFINE t == Cur.tag
             y == Completed(slots[t.slot], Cur.more)
  <2>1. InScan /\ Mine(Cur) /\ running' = running /\ slots' = [slots EXCEPT ![t.slot] = y]
    BY <1>12 DEF Deliver
  <2>2. /\ t \in Tags /\ t.slot \in SlotIds /\ Cur.more \in BOOLEAN
        /\ slots[t.slot] \in Slot /\ slots[t.slot].tag = t /\ disp.pc = "scan"
    BY <2>1, CursorFacts DEF Cqe, TypeOK
  <2>3. y.tag = t
    BY <2>2, CompletedSlot
  <2>4. disp'.pc = "handler" /\ disp'.tag = t
    BY <1>4, <1>12 DEF Deliver, DispState
  <2> HIDE DEF y
  <2>5. slots'[t.slot] = y /\ \A u \in SlotIds \ {t.slot} : slots'[u] = slots[u]
    BY <2>1, <2>2, OneSlotHeld
  <2> QED BY <2>1, <2>2, <2>3, <2>4, <2>5 DEF HeardInv
<1> QED BY <1>1, <1>2, <1>5, <1>6, <1>7, <1>8, <1>9, <1>10, <1>11, <1>12
        DEF Next, ClientStep, Dispatch, Kernel

(* While every submission succeeds, no registered descriptor is without a poll when the loop  *)
(* goes to sleep: whoever registers with it is heard. *)
THEOREM NobodyGoesDeaf ==
    ASSUME Submits
    PROVE  Spec => []NoDeafSlot
<1>1. HeardInv => NoDeafSlot
  BY DEF HeardInv, NoDeafSlot
<1>2. Init => HeardInv
  <2> SUFFICES ASSUME Init PROVE HeardInv
    OBVIOUS
  <2>1. \A s \in SlotIds : ~slots[s].active
    BY DEF Init, Vacant
  <2> QED BY <2>1 DEF HeardInv
<1>3. TagInv /\ HeardInv /\ [Next]_vars => HeardInv'
  BY HeardStep
<1> QED BY <1>1, <1>2, <1>3, TagInvariant, PTL DEF Spec

-----------------------------------------------------------------------------
(* What a slot in flight waits for. *)

(* The walk has yet to come to the i-th completion of the ring, for a slot of this type. *)
Unread(d, i, type) ==
    d.pc \in {"scan", "handler"} =>
        LET ahead == i > d.pos \/ (i = d.pos /\ d.pc = "scan")
        IN  IF d.pass = 0 THEN type = Wayland => ahead
            ELSE i > d.count \/ (type # Wayland /\ ahead)

Awaited(E, K, C, d, t, type) ==
    \/ \E e \in E : e.op = "poll" /\ e.tag = t
    \/ \E p \in K : p.tag = t
    \/ \E i \in DOMAIN C : C[i].tag = t /\ ~C[i].more /\ Unread(d, i, type)

AwaitedInv ==
    \A s \in SlotIds : slots[s].inFlight =>
        Awaited(Pending(Queues), kpolls, cq, disp, slots[s].tag, slots[s].type)

LEMMA AwaitedAfter ==
    ASSUME AwaitedInv, Pending(Queues) \subseteq Pending(Queues)',
           \A p \in kpolls : \E q \in kpolls' : q.tag = p.tag,
           \A s \in SlotIds : slots'[s].inFlight =>
               \/ \E e \in Pending(Queues)' : e.op = "poll" /\ e.tag = slots'[s].tag
               \/ /\ slots[s].inFlight /\ slots'[s].tag = slots[s].tag
                  /\ slots'[s].type = slots[s].type
                  /\ \A i \in DOMAIN cq :
                        cq[i].tag = slots[s].tag /\ ~cq[i].more /\ Unread(disp, i, slots[s].type)
                        => \E j \in DOMAIN cq' : /\ cq'[j].tag = slots[s].tag /\ ~cq'[j].more
                                                 /\ Unread(disp', j, slots[s].type)
    PROVE  AwaitedInv'
<1> SUFFICES ASSUME NEW s \in SlotIds, slots'[s].inFlight
             PROVE  Awaited(Pending(Queues)', kpolls', cq', disp', slots'[s].tag, slots'[s].type)
  BY DEF AwaitedInv, Awaited, Unread
<1>1. CASE \E e \in Pending(Queues)' : e.op = "poll" /\ e.tag = slots'[s].tag
  BY <1>1 DEF Awaited
<1>2. CASE /\ slots[s].inFlight /\ slots'[s].tag = slots[s].tag
           /\ slots'[s].type = slots[s].type
           /\ \A i \in DOMAIN cq :
                 cq[i].tag = slots[s].tag /\ ~cq[i].more /\ Unread(disp, i, slots[s].type)
                 => \E j \in DOMAIN cq' : /\ cq'[j].tag = slots[s].tag /\ ~cq'[j].more
                                          /\ Unread(disp', j, slots[s].type)
  <2>1. Awaited(Pending(Queues), kpolls, cq, disp, slots[s].tag, slots[s].type)
    BY <1>2 DEF AwaitedInv
  <2>2. CASE \E e \in Pending(Queues) : e.op = "poll" /\ e.tag = slots[s].tag
    BY <1>2, <2>2 DEF Awaited
  <2>3. CASE \E p \in kpolls : p.tag = slots[s].tag
    BY <1>2, <2>3 DEF Awaited
  <2>4. CASE \E i \in DOMAIN cq :
                cq[i].tag = slots[s].tag /\ ~cq[i].more /\ Unread(disp, i, slots[s].type)
    BY <1>2, <2>4 DEF Awaited
  <2> QED BY <2>1, <2>2, <2>3, <2>4 DEF Awaited
<1> QED BY <1>1, <1>2

LEMMA AddPollAwaited ==
    ASSUME TagInv, AwaitedInv, NEW fd \in Fds, NEW type \in Types, NEW mask \in Masks,
           AddPoll(fd, type, mask)
    PROVE  AwaitedInv'
<1>1. PICK s \in SlotIds :
        \/ \E x : ~x.inFlight /\ slots' = [slots EXCEPT ![s] = x]
        \/ /\ slots' = [slots EXCEPT ![s] = Armed(slots[s], s, fd, type, mask, multishot)]
           /\ PollSqe(fd, multishot, Tag(s, slots[s].gen + 1)) \in Pending(Queues)'
  BY AddPollFacts
<1>2. UNCHANGED <<kpolls, cq, disp>> /\ Pending(Queues) \subseteq Pending(Queues)'
  BY AddPollFacts
<1>3. /\ \A u \in SlotIds \ {s} : slots'[u] = slots[u]
      /\ slots'[s].inFlight =>
            \E e \in Pending(Queues)' : e.op = "poll" /\ e.tag = slots'[s].tag
  <2>1. CASE \E x : ~x.inFlight /\ slots' = [slots EXCEPT ![s] = x]
    BY <2>1, OneSlotHeld
  <2>2. CASE /\ slots' = [slots EXCEPT ![s] = Armed(slots[s], s, fd, type, mask, multishot)]
             /\ PollSqe(fd, multishot, Tag(s, slots[s].gen + 1)) \in Pending(Queues)'
    <3> DEFINE new  == Armed(slots[s], s, fd, type, mask, multishot)
               poll == PollSqe(fd, multishot, Tag(s, slots[s].gen + 1))
    <3>1. poll.op = "poll" /\ poll.tag = new.tag
      BY DEF PollSqe, Armed
    <3> HIDE DEF new, poll
    <3>2. slots' = [slots EXCEPT ![s] = new] /\ poll \in Pending(Queues)'
      BY <2>2 DEF new, poll
    <3>3. slots'[s] = new /\ \A u \in SlotIds \ {s} : slots'[u] = slots[u]
      BY <3>2, OneSlotHeld
    <3> QED BY <3>1, <3>2, <3>3
  <2> QED BY <1>1, <2>1, <2>2
<1> QED BY <1>2, <1>3, AwaitedAfter

LEMMA RemovePollAwaited ==
    ASSUME TagInv, AwaitedInv, NEW fd \in Fds, RemovePoll(fd)
    PROVE  AwaitedInv'
<1>1. PICK s \in SlotIds : slots' = [slots EXCEPT ![s] = Vacant(slots[s].gen)]
  BY RemovePollFacts
<1>2. UNCHANGED <<kpolls, cq, disp>> /\ Pending(Queues) \subseteq Pending(Queues)'
  BY RemovePollFacts
<1>3. ~Vacant(slots[s].gen).inFlight
  BY DEF Vacant
<1>4. ~slots'[s].inFlight /\ \A u \in SlotIds \ {s} : slots'[u] = slots[u]
  BY <1>1, <1>3, OneSlotHeld
<1> QED BY <1>2, <1>4, AwaitedAfter

(* The thread moves on without looking at a completion that a slot waits for. *)
LEMMA ThreadAwaited ==
    ASSUME TagInv, AwaitedInv, Stop \/ Enter \/ Interrupted \/ WaitCqe \/ Skip \/ EndFirstPass
    PROVE  AwaitedInv'
<1> USE DEF TagInv
<1>1. UNCHANGED <<slots, sq, kq, kpolls, cq>>
  BY DEF Stop, Enter, Interrupted, WaitCqe, Skip, EndFirstPass
<1>2. /\ disp \in DispState /\ disp.pos \in Nat \ {0} /\ disp.count \in Nat
      /\ disp.pass \in {0, 1} /\ Len(cq) \in Nat /\ DOMAIN cq = 1..Len(cq)
  BY DEF TypeOK, DispState
<1>3. Pending(Queues)' = Pending(Queues)
  BY <1>1 DEF Pending, Queues
<1>4. ASSUME NEW s \in SlotIds, slots[s].inFlight, NEW i \in DOMAIN cq,
             cq[i].tag = slots[s].tag, Unread(disp, i, slots[s].type)
      PROVE  Unread(disp', i, slots[s].type)
  <2>1. i \in Nat \ {0} /\ i <= Len(cq)
    BY <1>2
  <2>2. CASE Stop
    BY <1>4, <2>2 DEF Stop
  <2>3. CASE Enter \/ Interrupted
    <3>1. disp'.pc \in {"client", "wait"}
      BY <1>2, <2>3 DEF Enter, Interrupted, DispState
    <3> QED BY <3>1 DEF Unread
  <2>4. CASE WaitCqe
    <3>1. disp'.pc = "scan" /\ disp'.pass = 0 /\ disp'.pos = 1
      BY <1>2, <2>4 DEF WaitCqe, DispState
    <3> QED BY <2>1, <3>1 DEF Unread
  <2>5. CASE Skip
    <3>1. InScan /\ Onward /\ ~Mine(Cur) /\ disp.pc = "scan"
      BY <2>5 DEF Skip, InScan
    <3>2. disp'.pc = "scan" /\ disp'.pos = disp.pos + 1 /\ disp'.pass = disp.pass
          /\ disp'.count = disp.count
      BY <1>2, <3>1 DEF Onward, DispState
    <3>3. CASE i = disp.pos
      <4>1. Live(Cur) /\ Cur.tag.slot = s
        BY <1>4, <3>3, HeldSlot DEF Live, Cur
      <4>2. ~(slots[s].type = Wayland <=> disp.pass = 0)
        BY <3>1, <4>1 DEF Mine
      <4>3. CASE disp.pass = 0
        BY <3>2, <4>2, <4>3 DEF Unread
      <4>4. CASE disp.pass = 1
        <5>1. slots[s].type = Wayland /\ i <= disp.count
          BY <3>1, <3>3, <4>2, <4>4 DEF InScan
        <5>2. i > disp.count
          BY <1>4, <3>1, <4>4, <5>1 DEF Unread
        <5> QED BY <1>2, <2>1, <5>1, <5>2
      <4> QED BY <1>2, <4>3, <4>4
    <3>4. CASE i # disp.pos
      <4>1. i > disp.pos => i > disp.pos + 1 \/ i = disp.pos + 1
        BY <1>2, <2>1
      <4> QED BY <1>4, <3>1, <3>2, <3>4, <4>1 DEF Unread
    <3> QED BY <3>3, <3>4
  <2>6. CASE EndFirstPass
    <3>1. disp.pc = "scan" /\ disp.pass = 0 /\ disp'.pc = "scan" /\ disp'.pass = 1
          /\ disp'.pos = 1 /\ disp'.count = disp.pos - 1
      BY <1>2, <2>6 DEF EndFirstPass, DispState
    <3>2. CASE slots[s].type = Wayland
      <4>1. i > disp.pos \/ i = disp.pos
        BY <1>4, <3>1, <3>2 DEF Unread
      <4>2. i > disp.pos - 1
        BY <1>2, <2>1, <4>1
      <4> QED BY <3>1, <4>2 DEF Unread
    <3>3. CASE slots[s].type # Wayland
      BY <2>1, <3>1, <3>3 DEF Unread
    <3> QED BY <3>2, <3>3
  <2> QED BY <2>2, <2>3, <2>4, <2>5, <2>6
<1> QED BY <1>1, <1>3, <1>4, AwaitedAfter

(* The walk: the slot the completion names, and the others, whose tags differ. *)
LEMMA OthersAwait ==
    ASSUME TagInv, NEW s \in SlotIds, slots[s].inFlight, NEW i \in DOMAIN cq,
           cq[i].tag = slots[s].tag, ~cq[i].more, Unread(disp, i, slots[s].type),
           \/ InScan /\ Mine(Cur) /\ (Cur.tag.slot = s => Cur.more)
           \/ disp.pc = "handler",
           Onward \/ (disp'.pos = disp.pos /\ disp'.pass = disp.pass /\ disp'.count = disp.count)
    PROVE  Unread(disp', i, slots[s].type)
<1>1. /\ disp \in DispState /\ disp.pos \in Nat \ {0} /\ disp.count \in Nat
      /\ disp.pass \in {0, 1} /\ Len(cq) \in Nat /\ i \in 1..Len(cq)
  BY DEF TagInv, TypeOK, DispState
<1>2. /\ disp'.pass = disp.pass /\ disp'.count = disp.count
      /\ disp'.pos = disp.pos \/ (disp'.pos = disp.pos + 1 /\ disp'.pc = "scan")
  BY <1>1 DEF Onward, DispState
<1>3. disp.pc \in {"scan", "handler"}
  BY DEF InScan
<1>4. ~(i = disp.pos /\ disp.pc = "scan")
  <2> SUFFICES ASSUME i = disp.pos, disp.pc = "scan" PROVE FALSE
    OBVIOUS
  <2>1. Cur.tag.slot = s /\ ~Cur.more
    BY HeldSlot DEF Cur
  <2> QED BY <2>1
<1>5. i > disp.pos => i > disp.pos + 1 \/ i = disp.pos + 1
  BY <1>1
<1> DEFINE ahead  == i > disp.pos \/ (i = disp.pos /\ disp.pc = "scan")
           ahead2 == i > disp'.pos \/ (i = disp'.pos /\ disp'.pc = "scan")
<1>6. ahead => ahead2
  BY <1>2, <1>4, <1>5
<1> QED BY <1>2, <1>3, <1>6 DEF Unread

LEMMA RearmAwaited ==
    ASSUME TagInv, AwaitedInv, NEW t \in Tags, NotAhead(t), NEW y \in Slot,
           y.active = slots[t.slot].active, y.fd = slots[t.slot].fd,
           y.type = slots[t.slot].type, y.gen = slots[t.slot].gen,
           y.tag = slots[t.slot].tag, y.inFlight => slots[t.slot].inFlight,
           Rearm([slots EXCEPT ![t.slot] = y], t), Onward, UNCHANGED <<kpolls, cq>>,
           \/ InScan /\ Mine(Cur) /\ t = Cur.tag /\ (y.inFlight => Cur.more)
           \/ disp.pc = "handler"
    PROVE  AwaitedInv'
<1> DEFINE s    == t.slot
           new  == Armed(slots[s], s, y.fd, y.type, y.mask, y.multi)
           poll == PollSqe(y.fd, y.multi, Tag(s, slots[s].gen + 1))
<1>1. s \in SlotIds
  BY DEF NotAhead
<1>2. \/ slots' = [slots EXCEPT ![s] = y] /\ Pending(Queues)' = Pending(Queues)
      \/ /\ slots' = [slots EXCEPT ![s] = new]
         /\ Pending(Queues)' = Pending(Queues) \cup {poll}
  BY RearmFacts
<1>3. poll.op = "poll" /\ poll.tag = new.tag
  BY DEF PollSqe, Armed
<1> HIDE DEF new, poll
<1>4. /\ \A u \in SlotIds \ {s} : slots'[u] = slots[u]
      /\ \/ slots'[s] = y
         \/ \E e \in Pending(Queues)' : e.op = "poll" /\ e.tag = slots'[s].tag
      /\ Pending(Queues) \subseteq Pending(Queues)'
  <2>1. CASE slots' = [slots EXCEPT ![s] = y] /\ Pending(Queues)' = Pending(Queues)
    BY <1>1, <2>1, OneSlotHeld
  <2>2. CASE /\ slots' = [slots EXCEPT ![s] = new]
             /\ Pending(Queues)' = Pending(Queues) \cup {poll}
    <3>1. slots'[s] = new /\ \A u \in SlotIds \ {s} : slots'[u] = slots[u]
      BY <1>1, <2>2, OneSlotHeld
    <3> QED BY <1>3, <2>2, <3>1
  <2> QED BY <1>2, <2>1, <2>2
<1>5. ASSUME NEW u \in SlotIds, slots'[u].inFlight,
             ~\E e \in Pending(Queues)' : e.op = "poll" /\ e.tag = slots'[u].tag
      PROVE  /\ slots[u].inFlight /\ slots'[u].tag = slots[u].tag
             /\ slots'[u].type = slots[u].type
             /\ \A i \in DOMAIN cq :
                   cq[i].tag = slots[u].tag /\ ~cq[i].more /\ Unread(disp, i, slots[u].type)
                   => Unread(disp', i, slots[u].type)
  <2>1. u = s => slots'[s] = y
    BY <1>4, <1>5
  <2>2. /\ slots[u].inFlight /\ slots'[u].tag = slots[u].tag
        /\ slots'[u].type = slots[u].type /\ (u = s => y.inFlight)
    <3>1. CASE u = s
      BY <1>5, <2>1, <3>1
    <3>2. CASE u # s
      BY <1>4, <1>5, <3>2
    <3> QED BY <3>1, <3>2
  <2>3. \/ InScan /\ Mine(Cur) /\ (Cur.tag.slot = u => Cur.more)
        \/ disp.pc = "handler"
    BY <2>2
  <2> QED BY <2>2, <2>3, OthersAwait
<1> QED BY <1>4, <1>5, AwaitedAfter

LEMMA WalkAwaited ==
    ASSUME TagInv, AwaitedInv, Again \/ FallBack \/ HandlerReturns
    PROVE  AwaitedInv'
<1> USE DEF TagInv
<1>1. CASE Again
  <2> DEFINE t == Cur.tag
             y == Completed(slots[t.slot], Cur.more)
  <2>1. InScan /\ Mine(Cur) /\ UNCHANGED <<kpolls, cq>> /\ Onward
        /\ Rearm([slots EXCEPT ![t.slot] = y], t)
    BY <1>1 DEF Again
  <2>2. t \in Tags /\ NotAhead(t) /\ t.slot \in SlotIds /\ Cur.more \in BOOLEAN
        /\ slots[t.slot] \in Slot
    BY <2>1, CursorFacts DEF Cqe, TypeOK
  <2>3. /\ y \in Slot /\ y.active = slots[t.slot].active /\ y.fd = slots[t.slot].fd
        /\ y.type = slots[t.slot].type /\ y.gen = slots[t.slot].gen
        /\ y.tag = slots[t.slot].tag /\ (y.inFlight => slots[t.slot].inFlight)
    BY <2>2, CompletedSlot
  <2>4. y.inFlight => Cur.more
    BY <2>2 DEF Completed, Slot
  <2> HIDE DEF y
  <2> QED BY <2>1, <2>2, <2>3, <2>4, RearmAwaited
<1>2. CASE FallBack
  <2> DEFINE t == Cur.tag
             y == [slots[t.slot] EXCEPT !.multi = FALSE, !.inFlight = FALSE]
  <2>1. InScan /\ Mine(Cur) /\ UNCHANGED <<kpolls, cq>> /\ Onward
    BY <1>2 DEF FallBack
  <2>2. t \in Tags /\ NotAhead(t) /\ t.slot \in SlotIds /\ slots[t.slot] \in Slot
        /\ slots \in [SlotIds -> Slot]
    BY <2>1, CursorFacts DEF Cqe, TypeOK
  <2>3. /\ y \in Slot /\ y.active = slots[t.slot].active /\ y.fd = slots[t.slot].fd
        /\ y.type = slots[t.slot].type /\ y.gen = slots[t.slot].gen
        /\ y.tag = slots[t.slot].tag /\ ~y.inFlight
    BY <2>2 DEF Slot
  <2>4. [slots EXCEPT ![t.slot].multi = FALSE, ![t.slot].inFlight = FALSE]
          = [slots EXCEPT ![t.slot] = y]
    BY <2>2 DEF Slot
  <2>5. Rearm([slots EXCEPT ![t.slot] = y], t)
    BY <1>2, <2>4 DEF FallBack
  <2> HIDE DEF y
  <2> QED BY <2>1, <2>2, <2>3, <2>5, RearmAwaited
<1>3. CASE HandlerReturns
  <2> DEFINE t == disp.tag
             y == slots[t.slot]
  <2>1. disp.pc = "handler" /\ UNCHANGED <<kpolls, cq>> /\ Rearm(slots, t)
    BY <1>3 DEF HandlerReturns
  <2>2. t \in Tags /\ NotAhead(t) /\ t.slot \in SlotIds /\ y \in Slot /\ disp \in DispState
    BY <2>1 DEF CallbackInv, TypeOK, DispState, NotAhead
  <2>3. [slots EXCEPT ![t.slot] = y] = slots
    BY DEF TypeOK
  <2>4. /\ disp'.pc = "scan" /\ disp'.pos = disp.pos + 1 /\ disp'.pass = disp.pass
        /\ disp'.count = disp.count
    BY <1>3, <2>2 DEF HandlerReturns, DispState
  <2>5. ASSUME NEW u \in SlotIds, NEW i \in DOMAIN cq, Unread(disp, i, slots[u].type)
        PROVE  Unread(disp', i, slots[u].type)
    <3>1. i \in Nat /\ disp.pos \in Nat
      BY <2>2 DEF TypeOK, DispState
    <3>2. i > disp.pos => i > disp.pos + 1 \/ i = disp.pos + 1
      BY <3>1
    <3> QED BY <2>1, <2>4, <2>5, <3>2 DEF Unread
  <2>6. \/ slots' = slots /\ Pending(Queues)' = Pending(Queues)
        \/ \E e \in Pending(Queues)' :
              /\ e.op = "poll" /\ e.tag = slots'[t.slot].tag
              /\ Pending(Queues) \subseteq Pending(Queues)'
              /\ \A u \in SlotIds \ {t.slot} : slots'[u] = slots[u]
    <3> DEFINE new  == Armed(slots[t.slot], t.slot, y.fd, y.type, y.mask, y.multi)
               poll == PollSqe(y.fd, y.multi, Tag(t.slot, slots[t.slot].gen + 1))
    <3>1. \/ slots' = slots /\ Pending(Queues)' = Pending(Queues)
          \/ /\ slots' = [slots EXCEPT ![t.slot] = new]
             /\ Pending(Queues)' = Pending(Queues) \cup {poll}
      BY <2>1, <2>2, <2>3, RearmFacts
    <3>2. poll.op = "poll" /\ poll.tag = new.tag
      BY DEF PollSqe, Armed
    <3> HIDE DEF new, poll
    <3>3. CASE /\ slots' = [slots EXCEPT ![t.slot] = new]
               /\ Pending(Queues)' = Pending(Queues) \cup {poll}
      <4>1. slots'[t.slot] = new /\ \A u \in SlotIds \ {t.slot} : slots'[u] = slots[u]
        BY <2>2, <3>3, OneSlotHeld
      <4> QED BY <3>2, <3>3, <4>1
    <3> QED BY <3>1, <3>3
  <2> QED BY <2>1, <2>5, <2>6, AwaitedAfter
<1> QED BY <1>1, <1>2, <1>3

LEMMA DropDeliverAwaited ==
    ASSUME TagInv, AwaitedInv, Drop \/ Deliver
    PROVE  AwaitedInv'
<1> USE DEF TagInv
<1> DEFINE t == Cur.tag
<1>1. InScan /\ Mine(Cur) /\ UNCHANGED <<sq, kq, kpolls, cq>>
  BY DEF Drop, Deliver
<1>2. t.slot \in SlotIds /\ slots[t.slot] \in Slot /\ Cur.more \in BOOLEAN /\ disp \in DispState
  BY <1>1, CursorFacts DEF TypeOK, Cqe
<1>3. Pending(Queues)' = Pending(Queues)
  BY <1>1 DEF Pending, Queues
<1>4. Onward \/ (disp'.pos = disp.pos /\ disp'.pass = disp.pass /\ disp'.count = disp.count)
  BY <1>2 DEF Drop, Deliver, DispState
<1>5. /\ \A u \in SlotIds \ {t.slot} : slots'[u] = slots[u]
      /\ slots'[t.slot].inFlight =>
            /\ slots[t.slot].inFlight /\ Cur.more /\ slots'[t.slot].tag = slots[t.slot].tag
            /\ slots'[t.slot].type = slots[t.slot].type
  <2>1. CASE Drop
    <3>1. CASE Cur.more
      BY <2>1, <3>1 DEF Drop
    <3>2. CASE ~Cur.more
      <4>1. slots' = [slots EXCEPT ![t.slot] = Vacant(slots[t.slot].gen)]
        BY <2>1, <3>2 DEF Drop
      <4>2. ~Vacant(slots[t.slot].gen).inFlight
        BY DEF Vacant
      <4> QED BY <1>2, <4>1, <4>2, OneSlotHeld
    <3> QED BY <3>1, <3>2
  <2>2. CASE Deliver
    <3> DEFINE y == Completed(slots[t.slot], Cur.more)
    <3>1. slots' = [slots EXCEPT ![t.slot] = y]
      BY <2>2 DEF Deliver
    <3>2. y.tag = slots[t.slot].tag /\ y.inFlight = (slots[t.slot].inFlight /\ Cur.more)
          /\ y.type = slots[t.slot].type
      BY <1>2 DEF Completed, Slot
    <3> HIDE DEF y
    <3> QED BY <1>2, <3>1, <3>2, OneSlotHeld
  <2> QED BY <2>1, <2>2
<1>6. ASSUME NEW u \in SlotIds, slots'[u].inFlight
      PROVE  /\ slots[u].inFlight /\ slots'[u].tag = slots[u].tag
             /\ slots'[u].type = slots[u].type
             /\ \A i \in DOMAIN cq :
                   cq[i].tag = slots[u].tag /\ ~cq[i].more /\ Unread(disp, i, slots[u].type)
                   => Unread(disp', i, slots[u].type)
  <2>1. /\ slots[u].inFlight /\ slots'[u].tag = slots[u].tag
        /\ slots'[u].type = slots[u].type /\ (u = t.slot => Cur.more)
    <3>1. CASE u = t.slot
      BY <1>5, <1>6, <3>1
    <3>2. CASE u # t.slot
      BY <1>5, <1>6, <3>2
    <3> QED BY <3>1, <3>2
  <2> QED BY <1>1, <1>4, <2>1, OthersAwait
<1> QED BY <1>1, <1>3, <1>6, AwaitedAfter

LEMMA EndBatchAwaited == ASSUME TagInv, AwaitedInv, EndBatch PROVE AwaitedInv'
<1> USE DEF TagInv
<1> DEFINE n == disp.count
<1>1. /\ UNCHANGED <<slots, kpolls>> /\ disp.pc = "scan" /\ disp.pass = 1 /\ disp.pos > n
      /\ cq' = SubSeq(cq, n + 1, Len(cq))
  BY DEF EndBatch
<1>2. disp \in DispState /\ disp.pos \in Nat /\ n \in Nat /\ cq \in Seq(Cqe) /\ Len(cq) \in Nat
      /\ n <= Len(cq) /\ DOMAIN cq = 1..Len(cq)
  BY <1>1 DEF TypeOK, DispState, ScanInv
<1>3. disp'.pc \in {"client", "wait"}
  BY <1>2 DEF EndBatch, DispState
<1>4. Pending(Queues)' = Pending(Queues)
  <2>1. PICK ok \in SubmitOutcomes : SetQueues(Submit(Queues, ok))
    BY DEF EndBatch
  <2> QED BY <2>1, SubmitPending, QueuesType, SetQueuesType, OutcomeBoolean
<1> HIDE DEF n
<1>5. ASSUME NEW i \in DOMAIN cq, i > n PROVE i - n \in DOMAIN cq' /\ cq'[i - n] = cq[i]
  <2>1. i - n \in 1..(Len(cq) - n) /\ n + 1 <= Len(cq) /\ n + 1 + (i - n) - 1 = i
    BY <1>2, <1>5
  <2>2. Len(cq') = Len(cq) - n /\ cq'[i - n] = cq[n + 1 + (i - n) - 1] /\ DOMAIN cq' = 1..Len(cq')
    BY <1>1, <1>2, <2>1
  <2> QED BY <2>1, <2>2
<1>6. ASSUME NEW s \in SlotIds, NEW i \in DOMAIN cq, Unread(disp, i, slots[s].type)
      PROVE  i > n
  <2>1. i \in Nat
    BY <1>2
  <2>2. i > n \/ i > disp.pos \/ i = disp.pos
    BY <1>1, <1>6 DEF Unread, n
  <2> QED BY <1>1, <1>2, <2>1, <2>2
<1>7. \A j, type : Unread(disp', j, type)
  BY <1>3 DEF Unread
<1> QED BY <1>1, <1>4, <1>5, <1>6, <1>7, AwaitedAfter

-----------------------------------------------------------------------------
(* The kernel posts behind everything the walk has read. *)
LEMMA PostedUnread ==
    ASSUME TagInv, NEW d \in Cqe, cq' = Append(cq, d) \/ \E z : cq' = Append(Append(cq, d), z),
           UNCHANGED disp
    PROVE  /\ \A i \in DOMAIN cq : i \in DOMAIN cq' /\ cq'[i] = cq[i]
           /\ \E j \in DOMAIN cq' : cq'[j] = d /\ \A type : Unread(disp', j, type)
<1> USE DEF TagInv
<1> DEFINE j == Len(cq) + 1
<1>1. /\ disp \in DispState /\ disp.pos \in Nat /\ disp.count \in Nat /\ disp.pass \in {0, 1}
      /\ cq \in Seq(Cqe) /\ Len(cq) \in Nat /\ DOMAIN cq = 1..Len(cq)
  BY DEF TypeOK, DispState
<1>2. \A type : Unread(disp', j, type)
  <2> TAKE type
  <2>1. CASE disp.pass = 0
    <3>1. disp.pc = "scan" => j > disp.pos \/ j = disp.pos
      BY <1>1, <2>1 DEF ScanInv
    <3>2. disp.pc = "handler" => j > disp.pos
      BY <1>1, <2>1 DEF ScanInv
    <3> HIDE DEF j
    <3> QED BY <2>1, <3>1, <3>2 DEF Unread
  <2>2. CASE disp.pass = 1
    <3>1. j > disp.count
      BY <1>1, <2>2 DEF ScanInv
    <3> HIDE DEF j
    <3> QED BY <2>2, <3>1 DEF Unread
  <2> QED BY <1>1, <2>1, <2>2
<1>3. /\ \A i \in DOMAIN cq : i \in DOMAIN cq' /\ cq'[i] = cq[i]
      /\ j \in DOMAIN cq' /\ cq'[j] = d
  <2>1. CASE cq' = Append(cq, d)
    BY <1>1, <2>1, AppendPlaces
  <2>2. CASE \E z : cq' = Append(Append(cq, d), z)
    <3>1. PICK z : cq' = Append(Append(cq, d), z)
      BY <2>2
    <3> DEFINE a == Append(cq, d)
    <3>2. /\ Len(a) = j /\ DOMAIN a = 1..j /\ \A i \in DOMAIN cq : a[i] = cq[i]
          /\ a[j] = d
      BY <1>1
    <3> DEFINE S == Cqe \cup {z}
    <3>3. a \in Seq(S) /\ z \in S
      <4>1. a \in Seq(Cqe)
        BY <1>1
      <4> HIDE DEF a
      <4> QED BY <4>1
    <3> HIDE DEF a, S
    <3>4. \A i \in 1..j : i \in DOMAIN Append(a, z) /\ Append(a, z)[i] = a[i]
      BY <3>2, <3>3, AppendPlaces
    <3>5. \A i \in DOMAIN cq : i \in 1..j
      BY <1>1
    <3>6. j \in 1..j
      BY <1>1
    <3>7. cq' = Append(a, z)
      BY <3>1 DEF a
    <3> QED BY <3>2, <3>4, <3>5, <3>6, <3>7
  <2> QED BY <2>1, <2>2
<1> QED BY <1>2, <1>3

(* A poll leaves the kernel or the line only against a completion that ends it. *)
LEMMA KernelAwaited ==
    ASSUME TagInv, AwaitedInv, UNCHANGED <<slots, disp>>,
           \A i \in DOMAIN cq : i \in DOMAIN cq' /\ cq'[i] = cq[i],
           \A e \in Pending(Queues) : e.op = "poll" =>
               \/ e \in Pending(Queues)' \/ \E q \in kpolls' : q.tag = e.tag
               \/ \E j \in DOMAIN cq' : /\ cq'[j].tag = e.tag /\ ~cq'[j].more
                                        /\ \A type : Unread(disp', j, type),
           \A p \in kpolls :
               \/ \E q \in kpolls' : q.tag = p.tag
               \/ \E j \in DOMAIN cq' : /\ cq'[j].tag = p.tag /\ ~cq'[j].more
                                        /\ \A type : Unread(disp', j, type)
    PROVE  AwaitedInv'
<1> SUFFICES ASSUME NEW s \in SlotIds, slots[s].inFlight
             PROVE  Awaited(Pending(Queues)', kpolls', cq', disp', slots[s].tag, slots[s].type)
  BY DEF AwaitedInv, Awaited, Unread
<1>1. Awaited(Pending(Queues), kpolls, cq, disp, slots[s].tag, slots[s].type)
  BY DEF AwaitedInv
<1>2. CASE \E e \in Pending(Queues) : e.op = "poll" /\ e.tag = slots[s].tag
  BY <1>2 DEF Awaited
<1>3. CASE \E p \in kpolls : p.tag = slots[s].tag
  BY <1>3 DEF Awaited
<1>4. CASE \E i \in DOMAIN cq :
              cq[i].tag = slots[s].tag /\ ~cq[i].more /\ Unread(disp, i, slots[s].type)
  BY <1>4 DEF Awaited
<1> QED BY <1>1, <1>2, <1>3, <1>4 DEF Awaited

LEMMA HeadTaken ==
    ASSUME TagInv, kq # << >>, kq' = Tail(kq), sq' = sq
    PROVE  \A e \in Pending(Queues) : e = Head(kq) \/ e \in Pending(Queues)'
<1>1. kq \in Seq(Sqe) /\ Tail(kq) \in Seq(Sqe) /\ Len(kq) \in Nat \ {0}
  BY DEF TagInv, TypeOK
<1>2. ASSUME NEW i \in DOMAIN kq PROVE kq[i] = Head(kq) \/ kq[i] \in Range(Tail(kq))
  <2>1. CASE i = 1
    BY <1>1, <2>1
  <2>2. CASE i # 1
    <3>1. i - 1 \in DOMAIN Tail(kq) /\ Tail(kq)[i - 1] = kq[i]
      BY <1>1, <2>2
    <3> QED BY <3>1 DEF Range
  <2> QED BY <2>1, <2>2
<1>3. \A e \in Range(kq) : e = Head(kq) \/ e \in Range(Tail(kq))
  BY <1>2 DEF Range
<1>4. Pending(Queues) = Range(sq) \cup Range(kq)
      /\ Pending(Queues)' = Range(sq) \cup Range(Tail(kq))
  BY DEF Pending, Queues, Range
<1> QED BY <1>3, <1>4

LEMMA KernelPollAwaited == ASSUME TagInv, AwaitedInv, KernelPoll PROVE AwaitedInv'
<1>1. /\ UNCHANGED <<slots, sq, disp>> /\ kq' = Tail(kq) /\ kq # << >>
  BY KernelPollFacts
<1>2. PICK d \in Cqe, p \in KPoll :
        /\ d.tag = Head(kq).tag /\ p.tag = Head(kq).tag
        /\ \/ /\ kpolls' = kpolls \cup {p} /\ (cq' = cq \/ cq' = Append(cq, d))
           \/ kpolls' = kpolls /\ cq' = Append(cq, d) /\ ~d.more
  BY KernelPollFacts
<1>3. \A e \in Pending(Queues) : e = Head(kq) \/ e \in Pending(Queues)'
  BY <1>1, HeadTaken
<1>4. CASE kpolls' = kpolls \cup {p} /\ cq' = cq
  BY <1>1, <1>2, <1>3, <1>4, KernelAwaited
<1>5. CASE kpolls' = kpolls \cup {p} /\ cq' = Append(cq, d)
  <2>1. \A i \in DOMAIN cq : i \in DOMAIN cq' /\ cq'[i] = cq[i]
    BY <1>1, <1>5, PostedUnread
  <2> QED BY <1>1, <1>2, <1>3, <1>5, <2>1, KernelAwaited
<1>6. CASE kpolls' = kpolls /\ cq' = Append(cq, d) /\ ~d.more
  <2>1. /\ \A i \in DOMAIN cq : i \in DOMAIN cq' /\ cq'[i] = cq[i]
        /\ \E j \in DOMAIN cq' : cq'[j] = d /\ \A type : Unread(disp', j, type)
    BY <1>1, <1>6, PostedUnread
  <2> QED BY <1>1, <1>2, <1>3, <1>6, <2>1, KernelAwaited
<1> QED BY <1>2, <1>4, <1>5, <1>6

LEMMA KernelRemoveAwaited == ASSUME TagInv, AwaitedInv, KernelRemove PROVE AwaitedInv'
<1> DEFINE h == Head(kq)
<1>1. /\ UNCHANGED <<slots, sq, disp>> /\ kq' = Tail(kq) /\ kq # << >> /\ h.op = "remove"
      /\ kpolls' = {p \in kpolls : p.tag # h.tag}
  BY KernelRemoveFacts
<1>2. PICK d \in Cqe, z \in Cqe :
        /\ d.tag = h.tag /\ ~d.more
        /\ \/ kpolls' = kpolls /\ cq' = Append(cq, z)
           \/ cq' = Append(Append(cq, d), z)
  BY KernelRemoveFacts
<1>3. \A e \in Pending(Queues) : e.op = "poll" => e \in Pending(Queues)'
  BY <1>1, HeadTaken
<1>4. CASE kpolls' = kpolls /\ cq' = Append(cq, z)
  <2>1. \A i \in DOMAIN cq : i \in DOMAIN cq' /\ cq'[i] = cq[i]
    BY <1>1, <1>4, PostedUnread
  <2> QED BY <1>1, <1>3, <1>4, <2>1, KernelAwaited
<1>5. CASE cq' = Append(Append(cq, d), z)
  <2>1. /\ \A i \in DOMAIN cq : i \in DOMAIN cq' /\ cq'[i] = cq[i]
        /\ \E j \in DOMAIN cq' : cq'[j] = d /\ \A type : Unread(disp', j, type)
    BY <1>1, <1>5, PostedUnread
  <2> QED BY <1>1, <1>2, <1>3, <2>1, KernelAwaited
<1> QED BY <1>2, <1>4, <1>5

LEMMA KernelWakeAwaited == ASSUME TagInv, AwaitedInv, KernelWake PROVE AwaitedInv'
<1>1. UNCHANGED <<slots, sq, kq, disp>>
  BY KernelWakeFacts
<1>2. PICK p \in kpolls, q \in KPoll, d \in Cqe :
        /\ q.tag = p.tag /\ d.tag = p.tag
        /\ \/ /\ kpolls' = (kpolls \ {p}) \cup {q}
              /\ cq' = cq \/ cq' = Append(cq, d)
           \/ kpolls' = kpolls \ {p} /\ cq' = Append(cq, d) /\ ~d.more
  BY KernelWakeFacts
<1>3. Pending(Queues)' = Pending(Queues)
  BY <1>1 DEF Pending, Queues
<1>4. CASE kpolls' = (kpolls \ {p}) \cup {q} /\ cq' = cq
  BY <1>1, <1>2, <1>3, <1>4, KernelAwaited
<1>5. CASE kpolls' = (kpolls \ {p}) \cup {q} /\ cq' = Append(cq, d)
  <2>1. \A i \in DOMAIN cq : i \in DOMAIN cq' /\ cq'[i] = cq[i]
    BY <1>1, <1>5, PostedUnread
  <2> QED BY <1>1, <1>2, <1>3, <1>5, <2>1, KernelAwaited
<1>6. CASE kpolls' = kpolls \ {p} /\ cq' = Append(cq, d) /\ ~d.more
  <2>1. /\ \A i \in DOMAIN cq : i \in DOMAIN cq' /\ cq'[i] = cq[i]
        /\ \E j \in DOMAIN cq' : cq'[j] = d /\ \A type : Unread(disp', j, type)
    BY <1>1, <1>6, PostedUnread
  <2> QED BY <1>1, <1>2, <1>3, <1>6, <2>1, KernelAwaited
<1> QED BY <1>2, <1>4, <1>5, <1>6

LEMMA WokenAwaited ==
    ASSUME TagInv, AwaitedInv, UNCHANGED <<slots, sq, kq, cq, disp>>, NEW w,
           kpolls' = {[p EXCEPT !.woken = w[p]] : p \in kpolls}
    PROVE  AwaitedInv'
<1>1. \A p \in kpolls : \E q \in kpolls' : q.tag = p.tag
  <2> TAKE p \in kpolls
  <2>1. p \in KPoll
    BY DEF TagInv, TypeOK
  <2>2. [p EXCEPT !.woken = w[p]] \in kpolls' /\ [p EXCEPT !.woken = w[p]].tag = p.tag
    BY <2>1 DEF KPoll
  <2> QED BY <2>2
<1>2. Pending(Queues)' = Pending(Queues)
  BY DEF Pending, Queues
<1> QED BY <1>1, <1>2, KernelAwaited

LEMMA AwaitedStep == TagInv /\ AwaitedInv /\ [Next]_vars => AwaitedInv'
<1> SUFFICES ASSUME TagInv, AwaitedInv, [Next]_vars PROVE AwaitedInv'
  OBVIOUS
<1>1. ASSUME NEW fd \in Fds, NEW type \in Types, NEW mask \in Masks, AddPoll(fd, type, mask)
      PROVE  AwaitedInv'
  BY <1>1, AddPollAwaited
<1>2. ASSUME NEW fd \in Fds, RemovePoll(fd) PROVE AwaitedInv'
  BY <1>2, RemovePollAwaited
<1>3. ASSUME NEW fd \in Fds, Reopen(fd) PROVE AwaitedInv'
  <2> DEFINE w == [p \in kpolls |-> p.woken \/ p.fd = fd]
  <2>1. /\ UNCHANGED <<slots, sq, kq, cq, disp>>
        /\ kpolls' = {[p EXCEPT !.woken = w[p]] : p \in kpolls}
    BY <1>3 DEF Reopen
  <2> HIDE DEF w
  <2> QED BY <2>1, WokenAwaited
<1>4. CASE Stop \/ Enter \/ Interrupted \/ WaitCqe \/ Skip \/ EndFirstPass
  BY <1>4, ThreadAwaited
<1>5. CASE UNCHANGED vars
  BY <1>5 DEF vars, AwaitedInv, Awaited, Unread, Pending, Queues, Range
<1>6. CASE Again \/ FallBack \/ HandlerReturns
  BY <1>6, WalkAwaited
<1>7. CASE Drop \/ Deliver
  BY <1>7, DropDeliverAwaited
<1>8. CASE EndBatch
  BY <1>8, EndBatchAwaited
<1>9. CASE Kernel
  BY <1>9, KernelPollAwaited, KernelRemoveAwaited, KernelWakeAwaited DEF Kernel
<1>10. ASSUME NEW fd \in Fds, Arrive(fd) PROVE AwaitedInv'
  <2> DEFINE w == [p \in kpolls |-> p.woken \/ (p.fd = fd /\ p.file = inc[fd])]
  <2>1. /\ UNCHANGED <<slots, sq, kq, cq, disp>>
        /\ kpolls' = {[p EXCEPT !.woken = w[p]] : p \in kpolls}
    BY <1>10 DEF Arrive
  <2> HIDE DEF w
  <2> QED BY <2>1, WokenAwaited
<1> QED BY <1>1, <1>2, <1>3, <1>4, <1>5, <1>6, <1>7, <1>8, <1>9, <1>10
        DEF Next, ClientStep, Dispatch

(* in_flight never lies: behind a slot that says so there is a poll on its way to the kernel  *)
(* or in it, or a completion that ends it and that the walk will still come to.  This holds   *)
(* whatever the kernel and the submissions do. *)
THEOREM FlagTellsTruth == Spec => []InFlightBacked
<1>1. AwaitedInv => InFlightBacked
  <2> SUFFICES ASSUME AwaitedInv, NEW s \in SlotIds, slots[s].inFlight
               PROVE  Backed(slots[s].tag)
    BY DEF InFlightBacked
  <2>1. Awaited(Pending(Queues), kpolls, cq, disp, slots[s].tag, slots[s].type)
    BY DEF AwaitedInv
  <2> QED BY <2>1 DEF Awaited, Backed, Pending, Queues, Range
<1>2. Init => AwaitedInv
  <2> SUFFICES ASSUME Init PROVE AwaitedInv
    OBVIOUS
  <2>1. \A s \in SlotIds : ~slots[s].inFlight
    BY DEF Init, Vacant
  <2> QED BY <2>1 DEF AwaitedInv
<1>3. TagInv /\ AwaitedInv /\ [Next]_vars => AwaitedInv'
  BY AwaitedStep
<1> QED BY <1>1, <1>2, <1>3, TagInvariant, PTL DEF Spec
=============================================================================
