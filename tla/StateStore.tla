---------------------------- MODULE StateStore ----------------------------
(***************************************************************************)
(* What is kept of the wallpapers across restarts and unplugging           *)
(* (state_store.c and its callers in ipc_server.c and main.c): the table   *)
(* in memory, the file, the temporary file next to it, and what the        *)
(* monitors show.                                                           *)
(*                                                                         *)
(* A wallpaper is the number of the request that asked for it.  Loading    *)
(* media never fails here (OutputEngines models engines that fail), and    *)
(* what asks not to be noted (no_cache) or changes a shown wallpaper's     *)
(* properties only (SET_UNIFORM) is left out.                              *)
(***************************************************************************)
EXTENDS Compaction, SequencesExt

CONSTANTS
    Monitors,     \* names of outputs
    AllOutputs,   \* the name "*"
    Absent,       \* no such file
    Torn,         \* a file that does not hold a whole table
    MaxEntries,   \* WAYWAL_STATE_MAX_OUTPUTS
    MaxRequests   \* bound: wallpapers asked for

ASSUME StateStoreAssumption ==
    /\ AllOutputs \notin Monitors
    /\ MaxEntries \in Nat \ {0}
    /\ MaxRequests \in Nat
    /\ IsFiniteSet(Monitors)

None == 0        \* nothing was ever put there

VARIABLES
    mem,       \* g_saved_state: entries in the order they were added
    disk,      \* what state.bin holds
    tmp,       \* what the temporary file holds
    saver,     \* where waywal_state_store_save_at is: "idle", "write", "rename"
    up,        \* is the daemon running
    outputs,   \* the list of plugged monitors
    shown,     \* what each shows
    requests,  \* wallpapers asked for so far
    byEngine,  \* those of them that are run by an engine (history)
    refused,   \* an entry did not fit into the table (history)
    acked      \* the table as of the last save that succeeded (history)

storeVars == <<mem, disk, tmp, saver, up, outputs, shown, requests, byEngine, refused,
               acked>>

Names == Monitors \cup {AllOutputs}
IsTable(t) == t \in Seq([name : Names, what : 1..MaxRequests]) /\ Len(t) <= MaxEntries

StoreTypeOK ==
    /\ IsTable(mem) /\ IsTable(acked)
    /\ disk = Absent \/ IsTable(disk)
    /\ tmp \in {Absent, Torn} \/ IsTable(tmp)
    /\ saver \in {"idle", "write", "rename"}
    /\ up \in BOOLEAN /\ refused \in BOOLEAN
    /\ outputs \in Seq(Monitors)
    /\ shown \in [Monitors -> 0..MaxRequests]
    /\ requests \in 0..MaxRequests /\ byEngine \subseteq 1..MaxRequests

StoreInit ==
    /\ mem = << >> /\ acked = << >>
    /\ disk = Absent
    /\ tmp = Absent
    /\ saver = "idle"
    /\ up = FALSE
    /\ outputs = << >>
    /\ shown = [m \in Monitors |-> None]
    /\ requests = 0 /\ byEngine = {}
    /\ refused = FALSE

-----------------------------------------------------------------------------

Has(t, n) == \E i \in DOMAIN t : t[i].name = n

\* waywal_state_store_update_output: replace the entry, or append one, or give up.
UpdateOutput(t, n, w) ==
    IF Has(t, n)
    THEN [i \in DOMAIN t |-> IF t[i].name = n THEN [name |-> n, what |-> w] ELSE t[i]]
    ELSE IF Len(t) >= MaxEntries THEN t
    ELSE Append(t, [name |-> n, what |-> w])

\* One name after the other.
UpdateAll(t, names, w) ==
    LET after[k \in 0..Len(names)] ==
            IF k = 0 THEN t ELSE UpdateOutput(after[k - 1], names[k], w)
    IN  after[Len(names)]

\* waywal_state_store_find_output: the entry of that name, else the one for all.
Noted(t, n) == {t[i].what : i \in {j \in DOMAIN t : t[j].name = n}}

FindOutput(t, n) ==
    IF Has(t, n) THEN CHOOSE w \in Noted(t, n) : TRUE
    ELSE IF Has(t, AllOutputs) THEN CHOOSE w \in Noted(t, AllOutputs) : TRUE
    ELSE None

\* waywal_state_store_load_at refuses what is not a whole table; the caller's table then
\* stays as it was.
Loaded(old) == IF disk = Absent THEN old ELSE disk

Plugged == {outputs[i] : i \in DOMAIN outputs}

-----------------------------------------------------------------------------

\* Images and colours are "pictures"; videos, shaders, scenes and slideshows are run by
\* "engines".
Kinds == {"picture", "engine"}

\* Seeded fault: a picture for all is noted like an engine for all.
NamesOnce(targets, kind) == IF targets # {} THEN SetToSeq(targets) ELSE <<AllOutputs>>

\* The names under which a request for the named monitors, plugged or not, or for all ({})
\* is noted: a picture for all under "*" and each plugged name, an engine for all
\* under "*" alone.
NamesOf(targets, kind) ==
    IF targets # {} THEN SetToSeq(targets)
    ELSE IF kind = "picture" THEN <<AllOutputs>> \o outputs
    ELSE <<AllOutputs>>

\* A wallpaper is put on those of its targets that are there (an engine with targets of
\* which none is there fails, as long as there are other outputs) and noted; then the
\* table is saved, which starts by creating the temporary file.
Request(targets, kind) ==
    /\ up /\ saver = "idle" /\ requests < MaxRequests
    /\ kind = "engine" /\ targets # {} /\ outputs # << >> => targets \cap Plugged # {}
    /\ requests' = requests + 1
    /\ byEngine' = IF kind = "engine" THEN byEngine \cup {requests + 1} ELSE byEngine
    /\ LET names == NamesOf(targets, kind)
       IN  /\ mem' = UpdateAll(mem, names, requests + 1)
           /\ refused' = (refused \/ \E i \in DOMAIN names : ~Has(mem', names[i]))
    /\ shown' = [m \in Monitors |->
          IF m \in Plugged /\ (targets = {} \/ m \in targets) THEN requests + 1 ELSE shown[m]]
    /\ saver' = "write"
    /\ tmp' = Torn
    /\ UNCHANGED <<disk, up, outputs, acked>>

\* Write all of it; on an error the temporary file is removed and the daemon goes on.
Write ==
    /\ saver = "write"
    /\ \/ tmp' = mem /\ saver' = "rename"
       \/ tmp' = Absent /\ saver' = "idle"
    /\ UNCHANGED <<mem, disk, up, outputs, shown, requests, byEngine, refused, acked>>

\* The rename replaces the file as a whole; then the client is answered.
Rename ==
    /\ saver = "rename"
    /\ disk' = tmp
    /\ acked' = tmp
    /\ tmp' = Absent
    /\ saver' = "idle"
    /\ UNCHANGED <<mem, up, outputs, shown, requests, byEngine, refused>>

\* The process dies between any two system calls.
Die ==
    /\ up
    /\ up' = FALSE
    /\ mem' = << >>
    /\ saver' = "idle"
    /\ outputs' = << >>
    /\ shown' = [m \in Monitors |-> None]
    /\ UNCHANGED <<disk, tmp, requests, byEngine, refused, acked>>

\* The daemon starts with the monitors that are there: load, then restore each.  Its
\* temporary file will have another name.
Boot(list) ==
    /\ ~up
    /\ up' = TRUE
    /\ mem' = Loaded(<< >>)
    /\ outputs' = list
    /\ shown' = [m \in Monitors |->
          IF \E i \in DOMAIN list : list[i] = m THEN FindOutput(mem', m) ELSE None]
    /\ tmp' = Absent
    /\ refused' = FALSE
    /\ UNCHANGED <<disk, saver, requests, byEngine, acked>>

\* daemon_on_output_configured: a monitor that appears is given what was noted for it.
Plug(m) ==
    /\ up /\ saver = "idle" /\ m \notin Plugged
    /\ outputs' = Append(outputs, m)
    /\ shown' = [shown EXCEPT ![m] = FindOutput(mem, m)]
    /\ UNCHANGED <<mem, disk, tmp, saver, up, requests, byEngine, refused, acked>>

Unplug(m) ==
    /\ up /\ saver = "idle" /\ m \in Plugged
    /\ outputs' = Compact(outputs, {m})
    /\ shown' = [shown EXCEPT ![m] = None]
    /\ UNCHANGED <<mem, disk, tmp, saver, up, requests, byEngine, refused, acked>>

\* WAYWAL_REQ_RESTORE: read the file again; give every monitor what is noted for it, and
\* when nothing is noted for any of them, the first entry to all.
Restore ==
    /\ up /\ saver = "idle"
    /\ LET table == Loaded(mem)
           nothing == \A m \in Plugged : FindOutput(table, m) = None
           first == IF nothing /\ table # << >> THEN table[1].what ELSE None
           Put(m) == IF FindOutput(table, m) # None THEN FindOutput(table, m)
                     ELSE IF first # None THEN first ELSE shown[m]
       IN  /\ mem' = table
           /\ shown' = [m \in Monitors |-> IF m \in Plugged THEN Put(m) ELSE shown[m]]
           /\ refused' = (refused /\ table = mem)
    /\ UNCHANGED <<disk, tmp, saver, up, outputs, requests, byEngine, acked>>

StoreNext ==
    \/ \E targets \in SUBSET Monitors, kind \in Kinds : Request(targets, kind)
    \/ Write \/ Rename \/ Die \/ Restore
    \/ \E M \in SUBSET Monitors : Boot(SetToSeq(M))
    \/ \E m \in Monitors : Plug(m) \/ Unplug(m)

StoreSpec == StoreInit /\ [][StoreNext]_storeVars

-----------------------------------------------------------------------------

\* A crash at any point of a save leaves the table of the last save that succeeded on
\* disk, so that what was saved survives.
AckedOnDisk == disk = IF acked = << >> THEN Absent ELSE acked

\* What is noted for a monitor is older than what it shows, an engine that was asked for on
\* all of them since: the name's own entry stays, and is preferred.
Overshadowed(m) ==
    \E own \in Noted(mem, m), all \in Noted(mem, AllOutputs) :
        own < all /\ shown[m] = all /\ all \in byEngine

\* As long as the table had room: what a monitor shows is what would be restored to it,
\* through requests for some or all monitors, plugging, crashes, failed saves and
\* restores.  So replugging a monitor or restarting the daemon changes nothing, unless
\* an engine for all monitors came after a wallpaper for that one, and then it brings
\* that one back.
StoreFollowsScreen ==
    up /\ ~refused =>
        \A m \in Plugged : FindOutput(mem, m) \in {None, shown[m]} \/ Overshadowed(m)

\* Restoring puts back what was there last, as the manual has it (docs/man/wwal.1:174): with
\* the file up to date, it changes nothing that is shown.
RestoresLast ==
    [][Restore /\ ~refused /\ disk = mem =>
          \A m \in Plugged : shown[m] \in {None, shown'[m]}]_storeVars
=============================================================================
