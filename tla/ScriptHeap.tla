----------------------------- MODULE ScriptHeap -----------------------------
(***************************************************************************)
(* The memory of a SceneScript: an arena that only grows while a callback   *)
(* runs and is cut back to a mark after it. What the script's variables     *)
(* still refer to above the mark is first copied out to a scratch space and *)
(* then back in. Addresses are places in the arena, and behind it in the    *)
(* scratch space; every allocation takes one. Beside the memory the state   *)
(* has what the script means: values that live as long as they are needed.  *)
(***************************************************************************)
EXTENDS Naturals, Sequences, FiniteSets, SequencesExt

CONSTANT Limits   \* a set of [arena, scratch, forwards, depth, items, makes, statements]; makes is
                  \* what a statement may put where, statements bounds a behaviour

VARIABLE vm
heapVars == <<vm>>

Undef == [type |-> "undef", at |-> 0]
Value(type, at) == [type |-> type, at |-> at]
Containers == {"arr", "obj"}

Blank == [kind |-> "blank"]
Str(text) == [kind |-> "str", text |-> text]
Vec(n) == [kind |-> "vec", n |-> n]
Header(kind) == [kind |-> kind, block |-> 0, cap |-> 0]
Block(entries) == [kind |-> "block", entries |-> entries]

EntriesAt(s, o) == IF s.mem[o].block = 0 THEN << >> ELSE s.mem[s.mem[o].block].entries

-----------------------------------------------------------------------------
(* Allocation. The result is s.got, 0 if there is no room. *)

\* script_arena_alloc
Allocated(s, cell) ==
    IF s.used = s.lim.arena THEN [s EXCEPT !.aborted = TRUE, !.lost = TRUE, !.got = 0]
    ELSE [s EXCEPT !.used = @ + 1, !.mem[s.used + 1] = cell, !.got = s.used + 1]

\* scratch_alloc_copy
CopiedOut(s, cell) ==
    IF s.scratch = s.lim.scratch THEN [s EXCEPT !.lost = TRUE, !.got = 0]
    ELSE [s EXCEPT !.scratch = @ + 1, !.mem[s.lim.arena + s.scratch + 1] = cell,
                   !.got = s.lim.arena + s.scratch + 1]

-----------------------------------------------------------------------------
(* Moving what the variables refer to, out of the arena or back into it *)

\* ptr_above_watermark, ptr_in_scratch
ToMove(s, a) ==
    IF s.way = "out" THEN s.mark < a /\ a <= s.lim.arena
    ELSE s.lim.arena < a /\ a <= s.lim.arena + s.scratch

Taken(s, cell) == IF s.way = "out" THEN CopiedOut(s, cell) ELSE Allocated(s, cell)

\* fwd_record
Recorded(s, from, to) ==
    IF Cardinality(DOMAIN s.fwd) = s.lim.forwards THEN [s EXCEPT !.lost = TRUE]
    ELSE [s EXCEPT !.fwd = [a \in DOMAIN @ \cup {from} |-> IF a = from THEN to ELSE s.fwd[a]]]

StringMoved(s, a) == IF ToMove(s, a) THEN Taken(s, s.mem[a]) ELSE [s EXCEPT !.got = a]

VecMoved(s, v) ==
    LET t == Taken(s, s.mem[v.at])
    IN  CASE v.at \in DOMAIN s.fwd -> [s EXCEPT !.val = Value("vec", s.fwd[v.at])]
          [] v.at \notin DOMAIN s.fwd /\ ~ToMove(s, v.at) -> [s EXCEPT !.val = v]
          [] OTHER -> IF t.got = 0 THEN [t EXCEPT !.val = Undef]
                      ELSE [Recorded(t, v.at, t.got) EXCEPT !.val = Value("vec", t.got)]

BlockMoved(s, o) ==
    LET block == s.mem[o].block
        t == Taken(s, s.mem[block])
    IN  IF block = 0 \/ ~ToMove(s, block) THEN s
        ELSE [t EXCEPT !.mem[o].block = t.got, !.mem[o].cap = IF t.got = 0 THEN 0 ELSE @]

RECURSIVE Moved(_, _, _)

EntriesMoved(s, o, depth) ==
    LET block == s.mem[o].block
        One(t, i) == LET entry == t.mem[block].entries[i]
                         k == StringMoved(t, entry.key)
                         m == Moved(k, entry.val, depth + 1)
                     IN  [m EXCEPT !.mem[block].entries[i] = [key |-> k.got, val |-> m.val]]
    IN  FoldLeft(One, s, [i \in DOMAIN EntriesAt(s, o) |-> i])

\* Seeded fault: containers below the mark are not looked into.
ContainerLeft(s, v, depth) ==
    LET t == Taken(s, s.mem[v.at])
    IN  IF v.at \in DOMAIN s.fwd THEN [s EXCEPT !.val = Value(v.type, s.fwd[v.at])]
        ELSE IF ~ToMove(s, v.at) THEN [s EXCEPT !.val = v]
        ELSE IF t.got = 0 THEN [t EXCEPT !.val = Undef]
        ELSE [EntriesMoved(BlockMoved(Recorded(t, v.at, t.got), t.got), t.got, depth) EXCEPT !.val = Value(v.type, t.got)]

\* Containers below the mark stay where they are, but what they hold is moved.
ContainerMoved(s, v, depth) ==
    LET t == IF ToMove(s, v.at) THEN Taken(s, s.mem[v.at]) ELSE [s EXCEPT !.got = v.at]
        o == t.got
    IN  IF v.at \in DOMAIN s.fwd THEN [s EXCEPT !.val = Value(v.type, s.fwd[v.at])]
        ELSE IF o = 0 THEN [t EXCEPT !.val = Undef]
        ELSE [EntriesMoved(BlockMoved(Recorded(t, v.at, o), o), o, depth) EXCEPT !.val = Value(v.type, o)]

\* evacuate_val_to_scratch, promote_val_from_scratch. Beyond a depth values are left as
\* they are: s.wild says that something was.
Moved(s, v, depth) ==
    CASE depth > s.lim.depth ->
             [s EXCEPT !.val = v, !.wild = @ \/ ToMove(s, v.at) \/ v.type \in Containers]
      [] depth <= s.lim.depth /\ v.type = "str" ->
             LET t == StringMoved(s, v.at) IN [t EXCEPT !.val = Value("str", t.got)]
      [] depth <= s.lim.depth /\ v.type = "vec" -> VecMoved(s, v)
      [] depth <= s.lim.depth /\ v.type \in Containers -> ContainerMoved(s, v, depth)
      [] OTHER -> [s EXCEPT !.val = v]

RootsMoved(s, way) ==
    LET One(t, r) == LET n == StringMoved(t, t.roots[r].name)
                         m == Moved(n, t.roots[r].val, 0)
                     IN  [m EXCEPT !.roots[r] = [name |-> n.got, val |-> m.val]]
    IN  FoldLeft(One, [s EXCEPT !.way = way, !.fwd = << >>], [r \in DOMAIN s.roots |-> r])

\* promote_global_values
Promoted(s) ==
    LET out == [RootsMoved(s, "out") EXCEPT !.used = s.mark]
    IN  IF s.used <= s.mark THEN s
        ELSE IF out.scratch = 0 THEN out ELSE RootsMoved(out, "back")

\* Between steps nothing above what is used matters.
Tidy(s) ==
    [s EXCEPT !.scratch = 0, !.fwd = << >>, !.way = "out", !.got = 0, !.val = Undef,
              !.mem = [a \in DOMAIN s.mem |-> IF a <= s.used THEN s.mem[a] ELSE Blank]]

-----------------------------------------------------------------------------
(* What scripts do. Root 1 is a global variable (scriptProperties), root 2 a property *)
(* of `this', whose name is copied. *)

This == 2

\* set_layer_member names a property when it is new.
Stored(s, r, v) ==
    LET t == IF r = This /\ s.roots[r].name = 0 THEN Allocated(s, Str("name")) ELSE s
    IN  [t EXCEPT !.roots[r] = [name |-> IF r = This /\ @.name = 0 THEN t.got ELSE @.name, val |-> v]]

Made(s, r, kind) ==
    LET t == Allocated(s, CASE kind = "str" -> Str("text") [] kind = "vec" -> Vec(0)
                            [] kind \in Containers -> Header(kind))
    IN  IF t.got = 0 THEN t ELSE Stored(t, r, Value(kind, t.got))

\* arr_push_item, obj_set_prop: a block of twice the size if there is no room.
Grown(s, o) ==
    LET cap == IF s.mem[o].cap = 0 THEN 1 ELSE 2 * s.mem[o].cap
        t == Allocated(s, Block(EntriesAt(s, o)))
    IN  IF t.got = 0 THEN t ELSE [t EXCEPT !.mem[o].block = t.got, !.mem[o].cap = cap]

Pushed(s, o, v) ==
    LET full == Len(EntriesAt(s, o)) = s.mem[o].cap
        t == IF full /\ s.mem[o].cap < s.lim.items THEN Grown(s, o) ELSE s
    IN  IF Len(EntriesAt(t, o)) = t.mem[o].cap THEN [t EXCEPT !.lost = TRUE]
        ELSE [t EXCEPT !.mem[t.mem[o].block].entries = Append(@, [key |-> 0, val |-> v])]

KeyAt(s, o) ==
    SelectInSeq(EntriesAt(s, o), LAMBDA e : e.key # 0 /\ s.mem[e.key] = Str("key"))

Set(s, o, v) ==
    LET i == KeyAt(s, o)
        t == IF Len(EntriesAt(s, o)) = s.mem[o].cap THEN Grown(s, o) ELSE [s EXCEPT !.got = o]
        k == Allocated(t, Str("key"))
    IN  CASE i # 0 -> [s EXCEPT !.mem[s.mem[o].block].entries[i].val = v]
          [] i = 0 /\ t.got = 0 -> t
          [] OTHER -> [k EXCEPT !.mem[k.mem[o].block].entries = Append(@, [key |-> k.got, val |-> v])]

Put(s, r, v) ==
    LET root == s.roots[r].val
    IN  IF root.type = "arr" THEN Pushed(s, root.at, v) ELSE Set(s, root.at, v)

Poked(s, r) == [s EXCEPT !.mem[s.roots[r].val.at].n = @ + 1]

First(s, r) == EntriesAt(s, s.roots[r].val.at)[1].val

-----------------------------------------------------------------------------
(* What the same statements mean. Values are by name; strings are their text. *)

MUndef == [type |-> "undef"]
MText(text) == [type |-> "str", text |-> text]
MRef(type, id) == [type |-> type, id |-> id]

MMade(m, r, kind) ==
    LET id == Len(m.heap) + 1
    IN  IF kind = "str" THEN [m EXCEPT !.roots[r] = MText("text")]
        ELSE [heap |-> Append(m.heap, [n |-> 0, entries |-> << >>]),
              roots |-> [m.roots EXCEPT ![r] = MRef(kind, id)]]

MPut(m, r, v) ==
    LET o == m.roots[r]
        i == SelectInSeq(m.heap[o.id].entries, LAMBDA e : e.key)
    IN  IF o.type = "obj" /\ i # 0 THEN [m EXCEPT !.heap[o.id].entries[i].val = v]
        ELSE [m EXCEPT !.heap[o.id].entries = Append(@, [key |-> o.type = "obj", val |-> v])]

-----------------------------------------------------------------------------
(* The values that the variables have in memory, next to those they are meant to have *)

Pairs(s) == {<<s.roots[r].val, s.meant.roots[r]>> : r \in DOMAIN s.roots}

Holds(s, v) == v.type \in Containers /\ v.at \in 1..s.used /\ s.mem[v.at].kind = v.type

\* Pairs that are reached from one through as many entries as there are on both sides.
Below(s, p) ==
    IF ~Holds(s, p[1]) \/ p[2].type # p[1].type THEN {}
    ELSE LET is == EntriesAt(s, p[1].at)
             should == s.meant.heap[p[2].id].entries
         IN  {<<is[i].val, should[i].val>> : i \in DOMAIN is \cap DOMAIN should}

RECURSIVE Reached(_, _, _)
Reached(s, done, todo) ==
    IF todo = {} THEN done
    ELSE LET more == UNION {Below(s, p) : p \in todo}
         IN  Reached(s, done \cup todo, more \ (done \cup todo))

Alive(s, v) ==
    CASE v.type = "undef" -> TRUE
      [] v.type = "str" -> v.at = 0 \/ (v.at \in 1..s.used /\ s.mem[v.at].kind = "str")
      [] OTHER -> /\ v.at \in 1..s.used /\ s.mem[v.at].kind = v.type
                  /\ v.type \in Containers =>
                        /\ s.mem[v.at].block \in 0..s.used
                        /\ s.mem[v.at].block # 0 => s.mem[s.mem[v.at].block].kind = "block"
                        /\ \A e \in Range(EntriesAt(s, v.at)) : e.key \in 0..s.used

RECURSIVE Living(_, _, _)
Living(s, done, todo) ==
    CASE todo = {} -> TRUE
      [] todo # {} /\ \E v \in todo : ~Alive(s, v) -> FALSE
      [] OTHER -> LET more == UNION {{e.val : e \in Range(EntriesAt(s, v.at))} : v \in {w \in todo : w.type \in Containers}}
                  IN  Living(s, done \cup todo, more \ (done \cup todo))

Agree(s, p) ==
    LET is == p[1]  should == p[2]
    IN  /\ is.type = should.type
        /\ is.type = "str" => is.at # 0 /\ s.mem[is.at] = Str(should.text)
        /\ is.type = "vec" => s.mem[is.at].n = s.meant.heap[should.id].n
        /\ is.type \in Containers =>
              LET has == EntriesAt(s, is.at)  wants == s.meant.heap[should.id].entries
              IN  /\ Len(has) = Len(wants)
                  /\ \A i \in DOMAIN has : IF wants[i].key THEN has[i].key # 0 /\ s.mem[has[i].key] = Str("key")
                                           ELSE has[i].key = 0

-----------------------------------------------------------------------------
HeapInit ==
    \E lim \in Limits :
        vm = [lim |-> lim, mem |-> [a \in 1..(lim.arena + lim.scratch) |-> Blank], used |-> 0, mark |-> 0,
              roots |-> <<[name |-> 0, val |-> Undef], [name |-> 0, val |-> Undef]>>,
              call |-> 0, begun |-> FALSE, aborted |-> FALSE, done |-> 0,
              scratch |-> 0, fwd |-> << >>, way |-> "out", got |-> 0, val |-> Undef,
              wild |-> FALSE, lost |-> FALSE,
              meant |-> [roots |-> <<MUndef, MUndef>>, heap |-> << >>]]

\* A statement of the running callback, and what it means.
Statement(s, meant) ==
    /\ ~vm.wild /\ ~vm.aborted /\ vm.done < vm.lim.statements
    /\ vm' = Tidy([s EXCEPT !.done = @ + 1, !.begun = TRUE,
                            !.meant = IF s.aborted THEN @ ELSE meant])

Make(r, kind) == Statement(Made(vm, r, kind), MMade(vm.meant, r, kind))

Assign(r, q) ==
    /\ r # q
    /\ Statement(Stored(vm, r, vm.roots[q].val), [vm.meant EXCEPT !.roots[r] = vm.meant.roots[q]])

PutIn(r, q) ==
    /\ vm.roots[r].val.type \in Containers
    /\ Statement(Put(vm, r, vm.roots[q].val), MPut(vm.meant, r, vm.meant.roots[q]))

Poke(r) ==
    /\ vm.roots[r].val.type = "vec"
    /\ Statement(Poked(vm, r), [vm.meant EXCEPT !.heap[vm.meant.roots[r].id].n = @ + 1])

TakeFirst(r) ==
    /\ vm.roots[r].val.type \in Containers
    /\ EntriesAt(vm, vm.roots[r].val.at) # << >>
    /\ Statement(Stored(vm, r, First(vm, r)),
                 [vm.meant EXCEPT !.roots[r] = vm.meant.heap[@.id].entries[1].val])

\* we_script_set_prop, before a callback: a text among the script's properties.
SetProp ==
    LET t == Allocated(vm, Str("text"))
    IN  /\ ~vm.wild /\ ~vm.begun /\ vm.call > 0 /\ vm.done < vm.lim.statements
        /\ vm.roots[1].val.type = "obj"
        /\ vm' = Tidy([Set(t, t.roots[1].val.at, Value("str", t.got)) EXCEPT
                          !.done = @ + 1, !.meant = MPut(@, 1, MText("text"))])

\* The end of the script's own statements (we_script_create), which may have been
\* stopped; then nothing of what they made is kept.
EndTop(stopped) ==
    /\ ~vm.wild /\ vm.call = 0
    /\ LET aborted == stopped \/ vm.aborted
           used == IF aborted THEN 0 ELSE vm.used
       IN  vm' = [vm EXCEPT !.call = 1, !.begun = FALSE, !.aborted = FALSE, !.used = used, !.mark = used,
                            !.wild = aborted /\ \E root \in Range(vm.roots) : root.name > used \/ root.val.at > used]

\* The end of init (call 1) or of another callback: run_value_callback. After an init
\* that was not stopped, what is there stays.
EndCall(stopped) ==
    /\ ~vm.wild /\ vm.call > 0 /\ vm.call < 3
    /\ LET s == Promoted(vm)
           keep == vm.call = 1 /\ ~stopped /\ ~vm.aborted /\ ~s.aborted /\ s.used < s.lim.arena \div 2
       IN  vm' = Tidy([s EXCEPT !.call = @ + 1, !.begun = FALSE, !.aborted = FALSE,
                                !.mark = IF keep THEN s.used ELSE @])

HeapNext ==
    \/ \E made \in vm.lim.makes : Make(made[1], made[2])
    \/ \E r, q \in {1, This} : Assign(r, q) \/ PutIn(r, q)
    \/ \E r \in {1, This} : Poke(r) \/ TakeFirst(r)
    \/ SetProp
    \/ \E stopped \in BOOLEAN : EndTop(stopped) \/ EndCall(stopped)

HeapSpec == HeapInit /\ [][HeapNext]_heapVars

-----------------------------------------------------------------------------
\* After any callbacks the script's variables have the values its statements gave them,
\* the same things are still the same thing, and nothing refers to memory that has been
\* given back (we_script.c:3543). When a space or the table of forwards is full values may
\* be lost or doubled, but still nothing refers to such memory. Exempt are structures deeper than
\* the limit and scripts whose own statements were stopped.
ScriptsKeepTheirs ==
    ~vm.wild =>
        /\ Living(vm, {}, {vm.roots[r].val : r \in DOMAIN vm.roots})
        /\ \A r \in DOMAIN vm.roots : vm.roots[r].name \in 0..vm.used
        /\ ~vm.lost =>
              LET pairs == Reached(vm, {}, Pairs(vm))
              IN  \A p \in pairs :
                     /\ Agree(vm, p)
                     /\ p[1].type \notin {"undef", "str"} =>
                           \A q \in pairs : (p[1] = q[1]) <=> (p[2] = q[2])
=============================================================================
