------------------------------ MODULE RefLists ------------------------------
(***************************************************************************)
(* The reference lists of a slice, as vaapi_h264.c and vaapi_hevc.c hand    *)
(* them to the hardware: the initial order of H.264, the modifications a    *)
(* slice header asks for, and the lists of HEVC.  The modifications are     *)
(* made here by an encoder that wants certain pictures first and writes the *)
(* differences of picture numbers, which wrap.  All references are          *)
(* short-term ones: long-term pictures, which a command names by their own  *)
(* number, are left out.                                                    *)
(***************************************************************************)
EXTENDS Integers, Sequences, FiniteSets, SequencesExt, Functions

CONSTANTS
    MaxFrameNum,  \* the modulus of frame numbers
    Entries,      \* how many references there are at most
    Active        \* num_ref_idx_active

VARIABLE ref      \* [dpb, num, poc, mods, list, pred]
refVars == <<ref>>

Numbers == 0..MaxFrameNum - 1

\* The number of a reference as seen from the current picture.
PicNum(e, num) == IF e.num > num THEN e.num - MaxFrameNum ELSE e.num

\* A P-slice: the latest decoded first.
ListP(dpb, num) == SortSeq(dpb, LAMBDA a, b : PicNum(a, num) > PicNum(b, num))

Past(dpb, poc) ==
    SortSeq(SelectSeq(dpb, LAMBDA e : e.poc <= poc), LAMBDA a, b : a.poc > b.poc)
Future(dpb, poc) ==
    SortSeq(SelectSeq(dpb, LAMBDA e : e.poc > poc), LAMBDA a, b : a.poc < b.poc)

\* A B-slice: the nearest before, then the nearest after, and the reverse;
\* two lists that would be the same differ in their first two pictures.
ListB0(dpb, poc) == Past(dpb, poc) \o Future(dpb, poc)
ListB1(dpb, poc) ==
    LET l1 == Future(dpb, poc) \o Past(dpb, poc)
    IN  IF Len(l1) > 1 /\ l1 = ListB0(dpb, poc)
        THEN <<l1[2], l1[1]>> \o SubSeq(l1, 3, Len(l1)) ELSE l1

\* HEVC: the references of the slice (or all, if it names none) in the same
\* order, repeated until the list is full.
Filtered(dpb) ==
    IF \E i \in DOMAIN dpb : dpb[i].used THEN SelectSeq(dpb, LAMBDA e : e.used) ELSE dpb
ListHevc(dpb, poc, l1) ==
    LET refs == Filtered(dpb)
        all == IF l1 THEN Future(refs, poc) \o Past(refs, poc) ELSE ListB0(refs, poc)
        n == IF Active < Len(all) THEN Len(all) ELSE Active
    IN  IF all = << >> THEN << >> ELSE [i \in 1..n |-> all[((i - 1) % Len(all)) + 1]]

-----------------------------------------------------------------------------

Entry(num, poc, used) == [num |-> num, poc |-> poc, used |-> used]

\* VA_INVALID_SURFACE: what the places of a list hold that no reference has.
Invalid == Entry(-1, -1, FALSE)
Padded(list) == list \o [i \in 1..Entries + Active - Len(list) |-> Invalid]

\* A picture moves to the place after the first `at`, the others close up behind it.  This
\* concerns the active places and one more, which ends up free.
Modified(list, at, e) ==
    LET window == SubSeq(list, 1, at) \o <<e>>
                     \o SelectSeq(SubSeq(list, at + 1, Active), LAMBDA x : x # e)
    IN  [i \in DOMAIN list |->
            IF i <= Len(window) THEN window[i] ELSE IF i <= Active + 1 THEN Invalid ELSE list[i]]

\* The picture number a modification names: the difference is added or taken
\* away, once around the modulus.
Named(pred, up, diff) ==
    LET n == IF up THEN pred + diff ELSE pred - diff
    IN  IF n < 0 THEN n + MaxFrameNum ELSE IF n >= MaxFrameNum THEN n - MaxFrameNum ELSE n

\* apply_h264_ref_list_mod_single, for one command of the header.  A number
\* no reference has leaves the list as it is.
Apply(r, up, diff) ==
    LET n == Named(r.pred, up, diff)
        at == SelectInSeq(r.dpb, LAMBDA e : e.num = n)
    IN  IF r.at >= Active THEN r
        ELSE IF at = 0 THEN [r EXCEPT !.pred = n]
        ELSE [r EXCEPT !.pred = n, !.at = @ + 1, !.list = Modified(@, r.at, r.dpb[at])]

-----------------------------------------------------------------------------
\* Some references in the order they were decoded, the latest number first
\* taken by the current picture.
Dpbs(n, num) ==
    {[i \in 1..n |-> Entry((num - n - 1 + i) % MaxFrameNum, pocs[i], used[i])] :
        pocs \in {f \in [1..n -> 0..2 * n] : IsInjective(f)}, used \in [1..n -> BOOLEAN]}

RefInit ==
    \E n \in 1..Entries, num \in Numbers : \E dpb \in Dpbs(n, num), poc \in 0..2 * n :
        /\ \A i \in 1..n : dpb[i].poc # poc
        /\ ref = [dpb |-> dpb, num |-> num, poc |-> poc, wanted |-> << >>,
                  list |-> Padded(ListP(dpb, num)), pred |-> num, at |-> 0]

\* The encoder asks for one more picture, by the shorter way or the longer.
Want ==
    \E i \in DOMAIN ref.dpb, up \in BOOLEAN :
        LET e == ref.dpb[i]
            diff == (IF up THEN e.num - ref.pred ELSE ref.pred - e.num) % MaxFrameNum
        IN  /\ e \notin Range(ref.wanted) /\ Len(ref.wanted) < Active
            /\ ref' = [Apply(ref, up, IF diff = 0 THEN MaxFrameNum ELSE diff)
                         EXCEPT !.wanted = Append(@, e)]

RefSpec == RefInit /\ [][Want]_refVars

-----------------------------------------------------------------------------
(* In the active places the pictures the encoder asked for come first, in   *)
(* that order, and the others follow in the order they had, each once;      *)
(* across the wrap of the frame numbers (apply_h264_ref_list_mod_single,    *)
(* build_h264_ref_lists).                                                   *)
WantedFirst ==
    LET meant == Padded(ref.wanted
                    \o SelectSeq(Reverse(ref.dpb), LAMBDA e : e \notin Range(ref.wanted)))
    IN  \A i \in 1..Active : ref.list[i] = meant[i]

(* The lists of a B-slice and of HEVC hold every reference, start with the  *)
(* nearest picture of their own direction, and the two of H.264 differ      *)
(* unless there is but one picture (build_h264_ref_lists,                   *)
(* build_hevc_ref_lists).                                                   *)
Nearest(list, poc, after) ==
    \A e \in Range(list) :
        (e.poc > poc) = after /\ (list[1].poc > poc) = after
            => (IF after THEN list[1].poc <= e.poc ELSE list[1].poc >= e.poc)
ListsReach ==
    LET dpb == ref.dpb
        h0 == ListHevc(dpb, ref.poc, FALSE)
        h1 == ListHevc(dpb, ref.poc, TRUE)
        b0 == ListB0(dpb, ref.poc)
        b1 == ListB1(dpb, ref.poc)
    IN  /\ Range(b0) = Range(dpb) /\ Range(b1) = Range(dpb)
        /\ Len(dpb) > 1 => b0 # b1
        /\ Range(h0) = Range(Filtered(dpb)) /\ Range(h1) = Range(h0)
        /\ Len(h0) >= Active /\ Len(h1) = Len(h0)
        /\ Nearest(b0, ref.poc, FALSE) /\ Nearest(h0, ref.poc, FALSE)
        /\ Nearest(h1, ref.poc, TRUE)

ListsRight == WantedFirst /\ ListsReach
=============================================================================
