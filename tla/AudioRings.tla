----------------------------- MODULE AudioRings -----------------------------
(***************************************************************************)
(* The two rings of samples between the daemon and PipeWire's real-time     *)
(* thread, and the streams of other programs it hears of (audio_fft.c).     *)
(* Neither ring has a lock.  The playback ring has one index for each side, *)
(* but the daemon's side moves the reader's index too: when the ring is     *)
(* full and when playback is cleared.  The capture ring has only the        *)
(* writer's index; its reader takes the newest window.                      *)
(*                                                                          *)
(* A sample is the number it was submitted or captured with.                *)
(***************************************************************************)
EXTENDS Integers, Compaction

CONSTANTS
    PlayRing,   \* PLAYBACK_RING_FRAMES: 16384
    Period,     \* what PipeWire asks for at most: 1024 frames
    CapRing,    \* WAYWAL_AUDIO_RING_SIZE
    Window,     \* WAYWAL_AUDIO_FFT_SIZE
    Wrap,       \* indices are counted modulo this: 2^32
    Chunks,     \* how many frames come at a time
    MaxSamples, \* submitted, or captured, in all
    Programs,   \* streams of other programs
    Nodes       \* how many of them are tracked: 32

\* The indices come round together with the rings, which hold a window and no more than
\* indices can tell apart.
ASSUME AudioAssumption ==
    /\ {PlayRing, Period, CapRing, Window, Wrap} \subseteq Nat \ {0}
    /\ Wrap % PlayRing = 0 /\ PlayRing < Wrap
    /\ Wrap % CapRing = 0 /\ Window <= CapRing
    /\ Chunks \subseteq Nat /\ MaxSamples \in Nat /\ Nodes \in Nat

VARIABLE aud
audioVars == <<aud>>

Minus(a, b) == (a - b) % Wrap

AudioInit ==
    aud = [ring |-> [i \in 0..PlayRing - 1 |-> 0], w |-> 0, r |-> 0, sent |-> 0,
           rt |-> "idle", at |-> 0, left |-> 0, got |-> << >>,
           main |-> "idle", from |-> 0, todo |-> 0,
           last |-> 0, raced |-> FALSE, skipped |-> FALSE, silenced |-> 0,
           cap |-> [i \in 0..CapRing - 1 |-> 0], pos |-> 0, used |-> 0, heard |-> 0,
           hist |-> [i \in 1..Window |-> 0],
           tracked |-> << >>, runs |-> {}, here |-> {}, missed |-> FALSE, external |-> FALSE]

-----------------------------------------------------------------------------
(* Playback: the daemon's thread submits, in order: what room is there, the *)
(* frames one after the other, the new index.                               *)

\* waywal_audio_submit_pcm_f32: of a full ring the older half is given up.
RoomFor(a) ==
    LET full == Minus(a.w, a.r) >= PlayRing
        r == IF full THEN Minus(a.w, PlayRing \div 2) ELSE a.r
    IN  [a EXCEPT !.r = r, !.from = Minus(a.w, r),
                  !.skipped = @ \/ full, !.raced = @ \/ (full /\ a.rt # "idle")]

Submit(n) ==
    /\ aud.main = "idle" /\ aud.sent + n <= MaxSamples
    /\ LET a == RoomFor(aud)
           free == PlayRing - a.from
       IN  aud' = [a EXCEPT !.main = "writing", !.from = 0,
                            !.todo = IF n < free THEN n ELSE free]

WriteFrame ==
    /\ aud.main = "writing" /\ aud.from < aud.todo
    /\ aud' = [aud EXCEPT !.ring[(aud.w + aud.from) % PlayRing] = aud.sent + 1,
                          !.sent = @ + 1, !.from = @ + 1]

Publish ==
    /\ aud.main = "writing" /\ aud.from = aud.todo
    /\ aud' = [aud EXCEPT !.w = (@ + aud.todo) % Wrap, !.main = "idle", !.from = 0, !.todo = 0]

\* waywal_audio_clear_playback
ClearPlayback ==
    /\ aud.main = "idle" /\ aud.r # aud.w
    /\ aud' = [aud EXCEPT !.r = aud.w, !.silenced = aud.sent, !.skipped = TRUE,
                          !.raced = @ \/ aud.rt # "idle"]

\* on_pw_playback_process: the writer's index, the reader's, the frames between them one
\* after the other (if any), the reader's new index.
LookAtWriter ==
    /\ aud.rt = "idle"
    /\ aud' = [aud EXCEPT !.rt = "looking", !.at = aud.w]

BeginPeriod ==
    /\ aud.rt = "looking"
    /\ LET there == Minus(aud.at, aud.r)
       IN  aud' = [aud EXCEPT !.rt = "copying", !.at = aud.r, !.got = << >>,
                              !.left = IF there < Period THEN there ELSE Period]

CopyFrame ==
    /\ aud.rt = "copying" /\ Len(aud.got) < aud.left
    /\ aud' = [aud EXCEPT !.got = Append(@, aud.ring[(aud.at + Len(aud.got)) % PlayRing])]

\* The frame that was played last.
Final(a) == IF a.left = 0 THEN a.last ELSE a.got[a.left]

\* Seeded fault: the index goes to the end of what was there.
EndPeriodAtWriter ==
    /\ aud.rt = "copying" /\ Len(aud.got) = aud.left
    /\ aud' = [aud EXCEPT !.rt = "idle", !.r = aud.w, !.last = Final(aud),
                          !.got = << >>, !.left = 0, !.at = 0]

EndPeriod ==
    /\ aud.rt = "copying" /\ Len(aud.got) = aud.left
    /\ aud' = [aud EXCEPT !.rt = "idle", !.r = (aud.at + aud.left) % Wrap,
                          !.last = Final(aud), !.got = << >>, !.left = 0, !.at = 0]

-----------------------------------------------------------------------------
(* Capture: PipeWire's thread pushes, the daemon analyses the newest window. *)

\* push_mono_samples_internal: of more than the ring holds, the newest.  (That the
\* index comes round before it is looked at takes a day of sound.)
Captured(a, n) ==
    LET kept == IF n > CapRing THEN CapRing ELSE n
        At(i) == {k \in 0..kept - 1 : (a.pos + n - kept + k) % CapRing = i}
    IN  [i \in 0..CapRing - 1 |->
            IF At(i) = {} THEN a.cap[i] ELSE a.heard + n - kept + (CHOOSE k \in At(i) : TRUE) + 1]

Push(n) ==
    /\ aud.heard + n <= MaxSamples /\ Minus(aud.pos, aud.used) + n < Wrap
    /\ aud' = [aud EXCEPT !.cap = Captured(aud, n), !.pos = (@ + n) % Wrap, !.heard = @ + n]

\* waywal_audio_fft_process: the history moves on by what is new, at most a
\* whole window (copy_from_ring).
MovedOn(a) ==
    LET fresh == Minus(a.pos, a.used)
        n == IF fresh < Window THEN fresh ELSE Window
    IN  [i \in 1..Window |->
            IF i <= Window - n THEN a.hist[i + n]
            ELSE a.cap[(a.pos + Wrap - (Window - i + 1)) % CapRing]]

Analyse ==
    /\ Minus(aud.pos, aud.used) # 0
    /\ aud' = [aud EXCEPT !.used = aud.pos, !.hist = MovedOn(aud)]

-----------------------------------------------------------------------------
(* The registry: streams that come, run, pause and go. *)

Tracks(a, p) == p \in Members(a.tracked)

\* recompute_pw_external_active
External(a) == [a EXCEPT !.external = Members(a.tracked) \cap a.runs # {}]

\* on_registry_global: with the table full, nothing is known of the stream.
StreamComes(p) ==
    /\ p \notin aud.here
    /\ aud' = [aud EXCEPT !.here = @ \cup {p},
                          !.tracked = IF Len(@) < Nodes THEN Append(@, p) ELSE @,
                          !.missed = @ \/ Len(aud.tracked) >= Nodes]

\* on_node_info
StreamRuns(p) ==
    /\ p \in aud.here
    /\ LET runs == IF p \in aud.runs THEN aud.runs \ {p} ELSE aud.runs \cup {p}
           a == [aud EXCEPT !.runs = runs]
       IN  aud' = IF Tracks(a, p) THEN External(a) ELSE a

\* on_registry_global_remove
StreamGoes(p) ==
    /\ p \in aud.here
    /\ LET a == [aud EXCEPT !.here = @ \ {p}, !.runs = @ \ {p},
                            !.tracked = Compact(@, {p})]
       IN  aud' = IF Tracks(aud, p) THEN External(a) ELSE a

\* One of the three at a time, they share nothing.
AudioNext ==
    \/ /\ aud.heard = 0 /\ aud.here = {}
       /\ \/ \E n \in Chunks : Submit(n)
          \/ WriteFrame \/ Publish \/ ClearPlayback
          \/ LookAtWriter \/ BeginPeriod \/ CopyFrame \/ EndPeriod
    \/ /\ aud.sent = 0 /\ aud.main = "idle" /\ aud.rt = "idle" /\ aud.here = {}
       /\ (Analyse \/ \E n \in Chunks : Push(n))
    \/ /\ aud.sent = 0 /\ aud.heard = 0 /\ aud.main = "idle" /\ aud.rt = "idle"
       /\ \E p \in Programs : StreamComes(p) \/ StreamRuns(p) \/ StreamGoes(p)

AudioSpec == AudioInit /\ [][AudioNext]_audioVars

-----------------------------------------------------------------------------
\* Unless the daemon moved the reader's index within a period of PipeWire's thread,
\* frames are played in the order they were submitted, none twice and none from
\* before playback was cleared, across the wrap of the indices and a full ring;
\* and none is left out unless the ring was full or cleared.
PlayedInOrder ==
    LET all == <<aud.last>> \o aud.got
    IN  ~aud.raced => \A i \in DOMAIN aud.got :
            /\ all[i + 1] > all[i] /\ all[i + 1] > aud.silenced
            /\ ~aud.skipped => all[i + 1] = all[i] + 1

\* The window that is analysed is the newest one, whatever came at a time.
NewestWindow ==
    aud.used = aud.pos =>
        \A i \in 1..Window : aud.hist[i] = IF aud.heard + i < Window + 1 THEN 0
                                           ELSE aud.heard - Window + i

\* The daemon is silent exactly while another program plays, through streams that
\* come and go while they run, as long as the table had room for them.
DucksForOthers == ~aud.missed => (aud.external <=> aud.runs # {})

\* All three: what is played, what is analysed, and who else is heard (audio_fft.c:573, 780, 1550).
SamplesInOrder == PlayedInOrder /\ NewestWindow /\ DucksForOthers
==============================================================================
