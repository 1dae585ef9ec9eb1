------------------------------ MODULE EventLoop ------------------------------
(***************************************************************************)
(* What wwald's components are promised by the event loop they register    *)
(* their descriptors with (include/waywal/uring_loop.h): an interest is a  *)
(* descriptor together with the kind of event it stands for, the callback  *)
(* runs only for an interest that is registered at that moment, and the    *)
(* callback may itself change what is registered before it returns.        *)
(* UringLoop implements this contract on top of an io_uring.               *)
(***************************************************************************)

CONSTANTS Interest,   \* every <<descriptor, event kind>> a client may register
          None        \* "no callback is running"

VARIABLES regs,       \* the registered interests
          calling     \* the interest whose callback is running, or None

vars == <<regs, calling>>

Init == regs = {} /\ calling = None

Register(i) == /\ i \in Interest \ regs
               /\ regs' = regs \cup {i}
               /\ UNCHANGED calling

Unregister(i) == /\ i \in regs
                 /\ regs' = regs \ {i}
                 /\ UNCHANGED calling

(* The callback is only ever entered for a registered interest. *)
Call(i) == /\ calling = None
           /\ i \in regs
           /\ calling' = i
           /\ UNCHANGED regs

Return == /\ calling # None
          /\ calling' = None
          /\ UNCHANGED regs

Next == \/ \E i \in Interest : Register(i) \/ Unregister(i) \/ Call(i)
        \/ Return

Spec == Init /\ [][Next]_vars
=============================================================================
