------------------------------ MODULE LifeSteps ------------------------------
(***************************************************************************)
(* The steps of a set-up, as the code writes them: something is taken, what *)
(* was taken before is released if that fails, and the set-up fails as a    *)
(* whole or goes on without it.                                             *)
(***************************************************************************)
EXTENDS Naturals, Sequences, SequencesExt

Done == 50     \* the part lives with what it has so far
Exits == 98    \* the process ends, and what it holds with it
Fails == 99    \* the set-up as a whole fails

(***************************************************************************)
(* A step takes x, which is made from others; if it fails, `undo' is        *)
(* released and the set-up goes on at one of the steps `next' further on.   *)
(***************************************************************************)
Step(x, from, undo, next) ==
    [x |-> x, from |-> from, undo |-> undo, next |-> next, unless |-> {}]
Need(x, from, undo) == Step(x, from, undo, {Fails})
May(x, from, skip) == Step(x, from, << >>, {skip})
Check(undo, next) == Step("", {}, undo, {next})
Unless(held, step) == [step EXCEPT !.unless = held]
\* What cannot fail, and what cannot but happen.
Always(x, from) == Step(x, from, << >>, {})
Sure(undo, next) == Step("released", {}, undo, {next})
Frees(undo) == Sure(undo, 1)
=============================================================================
