------------------------------ MODULE Textures ------------------------------
(***************************************************************************)
(* Who owns the textures of the daemon's GPU buffers. Every shader engine   *)
(* imports a buffer it draws to or copies from as a texture of its own and  *)
(* keeps it in a table; the compute engine imports the same buffer for the  *)
(* transitions and keeps the texture in the buffer itself, in a field the   *)
(* shader engines fill in too when nobody else has. The shader engines share *)
(* one GL context, the compute engine has another, and a texture of one may *)
(* have the number of a texture of the other.                               *)
(***************************************************************************)
EXTENDS Naturals, Sequences, FiniteSets, FiniteSetsExt, SequencesExt

CONSTANTS
    Shaders,      \* the outputs' shader engines
    Buffers,      \* the buffers of the outputs' rings and of their transitions
    Kept4Fade,    \* those that hold the old picture of a transition
    Home,         \* Home[b]: the shader engine of the buffer's output
    TableSize,    \* how many imported buffers a shader engine remembers (32)
    Alike         \* sets of <<compute texture, shader texture>> that may have one number

VARIABLE tx
textureVars == <<tx>>

NoTexture == << >>
Compute == "compute"
NoEngine == [up |-> FALSE, table |-> << >>, lastBo |-> {}, lastTex |-> NoTexture]

\* A texture is named for who made it and of which buffer: <<maker, buffer>>.
\* live: the textures there are; bo[b]: whether the buffer has memory, the texture in
\* its own field and whether an image of the compute engine is behind that; main: the
\* engine the daemon itself draws with; astray: a texture was deleted that is not there,
\* or in the context of another; miscopied: a copy was taken from another buffer's.
TexInit ==
  \E alike \in Alike :
    tx = [live |-> {}, alike |-> alike, miscopied |-> FALSE,
          bo |-> [b \in Buffers |-> [memory |-> FALSE, tex |-> NoTexture, image |-> FALSE]],
          eng |-> [e \in Shaders |-> NoEngine], main |-> {}, astray |-> FALSE]

-----------------------------------------------------------------------------
Deleted(s, T) == [s EXCEPT !.live = @ \ T, !.astray = @ \/ ~(T \ {NoTexture} \subseteq s.live)]

Entries(s, e, b) == {i \in DOMAIN s.eng[e].table : s.eng[e].table[i].bo = b}

\* waywal_shader_engine_forget_bo
Forget(s, e, b) ==
    LET gone == {s.eng[e].table[i].tex : i \in Entries(s, e, b)}
    IN  [Deleted(s, gone) EXCEPT
           !.eng[e].lastBo = @ \ {b},
           !.eng[e].lastTex = IF b \in s.eng[e].lastBo THEN NoTexture ELSE @,
           !.eng[e].table = SelectSeq(@, LAMBDA x : x.bo # b),
           !.bo[b].tex = IF ~s.bo[b].image /\ @ \in gone THEN NoTexture ELSE @]

\* record_imported_bo, for a buffer the table does not have: the oldest entry makes room.
Recorded(s, e, b, t) ==
    LET table == s.eng[e].table
        full == Len(table) = TableSize
        r == IF full THEN Deleted(s, {table[1].tex}) ELSE s
    IN  [r EXCEPT !.eng[e].table = Append(IF full THEN Tail(@) ELSE @, [bo |-> b, tex |-> t])]

\* ensure_bo_imported
Ensured(s, e, b) ==
    LET t == <<e, b>>
    IN  IF Entries(s, e, b) # {}
        THEN [s EXCEPT !.bo[b].tex = IF @ = NoTexture
                                     THEN s.eng[e].table[Min(Entries(s, e, b))].tex ELSE @]
        ELSE LET r == Recorded([s EXCEPT !.live = @ \cup {t}], e, b, t)
             IN  [r EXCEPT !.bo[b].tex = IF @ = NoTexture THEN t ELSE @]

TexOf(s, e, b) == s.eng[e].table[Min(Entries(s, e, b))].tex

\* gpu_compute_import_bo
Imported(s, b) ==
    LET t == <<Compute, b>>
    IN  IF s.bo[b].image /\ s.bo[b].tex # NoTexture THEN s
        ELSE [s EXCEPT !.live = @ \cup {t}, !.bo[b].tex = t, !.bo[b].image = TRUE]

\* gpu_compute_release_bo
Released(s, b) ==
    LET t == s.bo[b].tex
    IN  [Deleted(s, {t}) EXCEPT !.bo[b].tex = NoTexture, !.bo[b].image = FALSE,
                                !.astray = @ \/ (t # NoTexture /\ t[1] # Compute)]

-----------------------------------------------------------------------------
Up == {e \in Shaders : tx.eng[e].up}
Allocated == {b \in Buffers : tx.bo[b].memory}

\* The engine an output is drawn with: its own, or the daemon's when it has none.
Draws(e, b) == e \in Up /\ b \in Allocated /\ (e = Home[b] \/ (Home[b] \notin Up /\ e \in tx.main))

\* The first engine is the daemon's own.
Create(e) ==
    /\ e \notin Up
    /\ tx' = [tx EXCEPT !.eng[e].up = TRUE, !.main = IF @ = {} THEN {e} ELSE @]

\* waywal_shader_engine_destroy, of an output that goes away; if the daemon drew with
\* it too, it takes another output's.
Destroy(e) ==
    /\ e \in Up
    /\ LET r == FoldSet(LAMBDA b, s : Forget(s, e, b), tx, Buffers)
           rest == Up \ {e}
       IN  tx' = [r EXCEPT !.eng[e] = NoEngine,
                           !.main = IF @ # {e} THEN @ ELSE IF rest = {} THEN {} ELSE {CHOOSE x \in rest : TRUE}]

\* waywal_shader_engine_render_frame
Draw(e, b) ==
    /\ Draws(e, b)
    /\ LET r == Ensured(tx, e, b)
       IN  tx' = [r EXCEPT !.eng[e].lastBo = {b}, !.eng[e].lastTex = TexOf(r, e, b)]

\* Which texture a copy is taken from: what was rendered last if the name is its, or
\* the first imported buffer that has it, under either name.
Source(s, e, name) ==
    LET g == s.eng[e]
        Is(t) == t = name \/ <<t, name>> \in s.alike
        Named == {i \in DOMAIN g.table : Is(g.table[i].tex) \/ Is(s.bo[g.table[i].bo].tex)}
    IN  CASE g.lastBo # {} /\ (name = g.lastTex \/ \E b \in g.lastBo : Is(s.bo[b].tex)) -> g.lastTex
          [] Named # {} -> g.table[Min(Named)].tex
          [] OTHER -> name

\* waywal_shader_engine_blit_bo: a frame of one output's ring is copied to another that
\* shows the same.
Clone(e, b, d) ==
    /\ Draws(e, d) /\ b \in Allocated \ {d} /\ {b, d} \cap Kept4Fade = {}
    /\ LET r == Ensured(tx, e, b)
           from == Source(r, e, TexOf(r, e, b))
           q == Ensured(r, e, d)
       IN  tx' = [q EXCEPT !.miscopied = @ \/ from \notin q.live \/ from[2] # b]

\* gpu_compute_dispatch_transition, gpu_compute_scale_bo: the target, the old and the
\* new picture are imported; when one cannot be, those before it stay.
Blend(imported) ==
    /\ imported \subseteq Allocated /\ Cardinality(imported) <= 3
    /\ tx' = FoldSet(LAMBDA b, s : Imported(s, b), tx, imported)

\* The picture shown is kept for a transition.
KeepPicture(b, d) ==
    /\ {b, d} \subseteq Allocated /\ d \in Kept4Fade /\ b # d
    /\ tx' = Imported(Imported(tx, b), d)

\* release_output_bo_refs: all engines forget the buffer.
ForgottenByAll(s, b) == FoldSet(LAMBDA e, r : Forget(r, e, b), s, Up)

Freed(s, b) == [Released(s, b) EXCEPT !.bo[b].memory = FALSE]

\* The buffer's output is resized or goes away.
Free(b) == b \in Allocated /\ tx' = Freed(ForgottenByAll(tx, b), b)

\* The video engine frees the old picture: it tells the output's engine and the daemon's.
FreeForVideo(b) ==
    /\ b \in Kept4Fade \cap Allocated
    /\ tx' = Freed(FoldSet(LAMBDA e, r : Forget(r, e, b), tx, Up \cap ({Home[b]} \cup tx.main)), b)

Allocate(b) == b \notin Allocated /\ tx' = [tx EXCEPT !.bo[b].memory = TRUE]

TexNext ==
    \/ \E e \in Shaders : Create(e) \/ Destroy(e)
    \/ \E b \in Buffers : Free(b) \/ FreeForVideo(b) \/ Allocate(b)
    \/ \E e \in Shaders, b \in Buffers : Draw(e, b)
    \/ \E e \in Shaders, b, d \in Buffers : Clone(e, b, d)
    \/ \E imported \in SUBSET Buffers : Blend(imported)
    \/ \E b, d \in Buffers : KeepPicture(b, d)

TexSpec == TexInit /\ [][TexNext]_textureVars

-----------------------------------------------------------------------------
\* Every texture an engine, a table or a buffer names is alive and of that buffer, and
\* the buffer still has its memory; every texture that is alive is named by the one
\* who made it and will delete it; none was deleted twice or in the other context, and
\* no copy between outputs was taken from another buffer's texture, unless the numbers
\* of two textures coincide.
TexturesOwned ==
    LET Good(t, b) == t \in tx.live /\ t[2] = b /\ tx.bo[b].memory
        Kept(t) == IF t[1] = Compute THEN tx.bo[t[2]].image /\ tx.bo[t[2]].tex = t
                   ELSE \E i \in DOMAIN tx.eng[t[1]].table : tx.eng[t[1]].table[i].tex = t
    IN  /\ \A e \in Shaders : \A i \in DOMAIN tx.eng[e].table :
              Good(tx.eng[e].table[i].tex, tx.eng[e].table[i].bo)
        /\ \A b \in Buffers : tx.bo[b].tex # NoTexture => Good(tx.bo[b].tex, b)
        /\ \A e \in Shaders : tx.eng[e].lastTex # NoTexture =>
              \E b \in tx.eng[e].lastBo : Good(tx.eng[e].lastTex, b)
        /\ \A t \in tx.live : Kept(t)
        /\ \A b \in Buffers : tx.bo[b].image => tx.bo[b].tex = <<Compute, b>>
        /\ ~tx.astray /\ (tx.miscopied => tx.alike # {})
=============================================================================
