------------------------------- MODULE Viewer -------------------------------
(***************************************************************************)
(* Opening a decrypted file in an external viewer and wiping it afterwards *)
(* (gui/broker.rs open_in_viewer, commands/view.rs execute).               *)
(*                                                                         *)
(* In the shell (mode "memfd") the plaintext is an anonymous memfd handed  *)
(* to a sandboxed child.  In the window (mode "tmpfs") it is a file of the *)
(* staging directory, named after the vault file, that the user's default  *)
(* application opens by path; every open runs on a thread of its own, so   *)
(* two opens of one name share the path and, while it is linked, the       *)
(* inode.  A watcher thread per viewer and the SIGINT handler compete for  *)
(* the wipe through a slot that the winner keeps locked while it wipes.    *)
(*                                                                         *)
(* Contents are abstracted to whose plaintext an inode holds.              *)
(***************************************************************************)
EXTENDS Naturals, FiniteSets

CONSTANTS
    Jobs,           \* opens, in one process
    Name,           \* [Jobs -> the staging path of the file opened]
    Modes,          \* subset of {"memfd", "tmpfs"}
    Spellings,      \* the values of `canonical`
    Swaps,          \* the values of `swap`
    None,
    Empty,          \* an inode without bytes
    Zero            \* an inode full of zeros

VARIABLES
    mode,           \* which of the two programs runs
    canonical,      \* the staging path is spelled as /proc/<pid>/fd spells it
    swap,           \* disk_persistence_possible: a disk-backed swap is active
    proc,           \* "up", "draining" (in the signal handler), "dead" (it exited), "quit"
    st,             \* [Jobs -> where its open has got to]
    wait,           \* [Jobs -> where its watcher thread is]
    inode,          \* [Jobs -> the inode of its write handle, or None]
    pin,            \* [Jobs -> its pages are locked in RAM]
    slot,           \* [Jobs -> "none", "full", "taken"]
    lock,           \* [Jobs -> who holds the slot's mutex]
    viewer,         \* [Jobs -> the viewer's life]
    reads,          \* [Jobs -> the inode its viewer has open, or None]
    link,           \* [staging paths -> inode or None]
    data,           \* [inodes -> Empty, Zero or the job whose plaintext it holds]
    registry,       \* the slots the signal handler would drain
    drained,        \* the slots it took and has not visited
    caught,         \* ghost: what it took
    refused         \* ghost: the opens for which an overwrite or a removal failed

proper == <<mode, canonical, swap>>
files == <<link, data>>
viewers == <<viewer, reads>>
handler == <<registry, drained, caught, refused>>
slots == <<slot, lock>>
vars == <<proper, proc, st, wait, inode, pin, slots, viewers, files, handler>>

Paths == {Name[j] : j \in Jobs}
Alive == proc \in {"up", "draining"}
At(j, here) == Alive /\ st[j] = here
Ended == {"shut", "failed", "spilt"}
HasHandle(j) == st[j] \notin {"idle", "resolving", "staging"} \cup Ended

Goto(j, there) == st' = [st EXCEPT ![j] = there]

\* remove_file: an error is logged at most, and the code goes on.
Remove(j) ==
    \/ link' = [link EXCEPT ![Name[j]] = None] /\ UNCHANGED refused
    \/ refused' = refused \cup {j} /\ UNCHANGED link

-----------------------------------------------------------------------------
(* Staging: open_in_viewer on a thread of the broker, execute in the shell. *)

\* A request reaches the broker, or the shell runs `view`, one at a time.
OpenViewer(j) ==
    /\ proc = "up" /\ st[j] = "idle"
    /\ mode = "memfd" => \A k \in Jobs : st[k] \in {"idle", "open", "wiping", "wiped"} \cup Ended
    /\ Goto(j, IF mode = "tmpfs" THEN "resolving" ELSE "staging")
    /\ UNCHANGED <<proper, proc, wait, inode, pin, slots, viewers, files, handler>>

\* The viewer is chosen before any plaintext is staged.
resolve_viewer_command(j) ==
    /\ At(j, "resolving")
    /\ Goto(j, "staging") \/ Goto(j, "failed")
    /\ UNCHANGED <<proper, proc, wait, inode, pin, slots, viewers, files, handler>>

\* OpenOptions create + truncate: a path that is linked keeps its inode.
StageTmpfs(j) ==
    LET i == IF link[Name[j]] = None THEN j ELSE link[Name[j]] IN
    /\ mode = "tmpfs" /\ At(j, "staging")
    /\ \/ /\ Goto(j, "writing")
          /\ inode' = [inode EXCEPT ![j] = i]
          /\ data' = [data EXCEPT ![i] = Empty]
          /\ link' = [link EXCEPT ![Name[j]] = i]
       \/ Goto(j, "failed") /\ UNCHANGED <<inode, files>>
    /\ UNCHANGED <<proper, proc, wait, pin, slots, viewers, handler>>

\* write_all and sync_all; an error drops the handle and leaves the file.
WriteTmpfs(j) ==
    /\ mode = "tmpfs" /\ At(j, "writing")
    /\ data' = [data EXCEPT ![inode[j]] = j]
    /\ \/ Goto(j, "pinning") /\ UNCHANGED inode
       \/ Goto(j, "spilt") /\ inode' = [inode EXCEPT ![j] = None]
    /\ UNCHANGED <<proper, proc, wait, pin, slots, viewers, link, handler>>

\* A fresh memfd the chunks are decrypted into; a chunk that fails drops it.
prepare_decrypted_memfd(j) ==
    /\ mode = "memfd" /\ At(j, "staging")
    /\ \/ /\ Goto(j, "pinning")
          /\ inode' = [inode EXCEPT ![j] = j]
          /\ data' = [data EXCEPT ![j] = j]
       \/ Goto(j, "failed") /\ UNCHANGED <<inode, data>>
    /\ UNCHANGED <<proper, proc, wait, pin, slots, viewers, link, handler>>

\* MlockedMap::new: a failed mlock is tolerated when nothing can be swapped out.
KeepsFile(j) ==
    \/ Goto(j, "spawning") /\ pin' = [pin EXCEPT ![j] = TRUE] /\ UNCHANGED <<inode, link, refused>>
    \/ Goto(j, "failed") /\ inode' = [inode EXCEPT ![j] = None] /\ UNCHANGED <<pin, link, refused>>
MlockedMap(j) ==
    \/ /\ Goto(j, "spawning")
       /\ pin' \in {[pin EXCEPT ![j] = b] : b \in {TRUE} \cup IF swap THEN {} ELSE {FALSE}}
       /\ UNCHANGED <<inode, link, refused>>
    \/ /\ Goto(j, "failed")
       /\ inode' = [inode EXCEPT ![j] = None]
       /\ IF mode = "tmpfs" THEN Remove(j) ELSE UNCHANGED <<link, refused>>
       /\ UNCHANGED pin

Pin(j) ==
    /\ At(j, "pinning")
    /\ MlockedMap(j)
    /\ UNCHANGED <<proper, proc, wait, slots, viewers, data, registry, drained, caught>>

Launched(j) ==
    /\ Goto(j, "registering")
    /\ viewer' = [viewer EXCEPT ![j] = "running"]
    /\ UNCHANGED <<inode, pin>>

\* viewer_cmd.spawn(): when it fails what was staged is wiped.
SpawnDirect(j) ==
    /\ mode = "tmpfs" /\ At(j, "spawning")
    /\ Launched(j) \/ (Goto(j, "wiping") /\ UNCHANGED <<inode, pin, viewer>>)
    /\ UNCHANGED <<proper, proc, wait, slots, reads, files, handler>>

\* dup, fork and exec of bwrap: when they fail the memfd is dropped.
spawn_in_bwrap_sandbox(j) ==
    /\ mode = "memfd" /\ At(j, "spawning")
    /\ \/ Launched(j)
       \/ /\ Goto(j, "failed")
          /\ inode' = [inode EXCEPT ![j] = None]
          /\ pin' = [pin EXCEPT ![j] = FALSE]
          /\ UNCHANGED viewer
    /\ UNCHANGED <<proper, proc, wait, slots, reads, files, handler>>

\* retain() locks each slot in turn, so it waits for a wipe that is under way.
register_teardown(j) ==
    /\ \A k \in registry : lock[k] = "free"
    /\ slot' = [slot EXCEPT ![j] = "full"]
    /\ registry' = {k \in registry : slot[k] = "full"} \cup {j}

Register(j) ==
    /\ At(j, "registering")
    /\ register_teardown(j)
    /\ Goto(j, "open")
    /\ wait' = [wait EXCEPT ![j] = "child"]
    /\ UNCHANGED <<proper, proc, inode, pin, lock, viewers, files, drained, caught, refused>>

-----------------------------------------------------------------------------
(* The viewer, a process of its own.                                       *)

\* It opens the path it was given, if there is still a file there.
ViewerOpens(j) ==
    /\ Alive /\ mode = "tmpfs" /\ reads[j] = None /\ link[Name[j]] # None
    /\ \/ viewer[j] = "running" /\ UNCHANGED viewer
       \/ viewer[j] = "handed" /\ viewer' = [viewer EXCEPT ![j] = "instance"]
    /\ reads' = [reads EXCEPT ![j] = link[Name[j]]]
    /\ UNCHANGED <<proper, proc, st, wait, inode, pin, slots, files, handler>>

\* The child exits; a single-instance application has handed the path on.
ViewerExits(j) ==
    /\ Alive /\ viewer[j] = "running"
    /\ viewer' \in {[viewer EXCEPT ![j] = v] : v \in {"gone"} \cup IF mode = "tmpfs" THEN {"handed"} ELSE {}}
    /\ reads' = [reads EXCEPT ![j] = None]
    /\ UNCHANGED <<proper, proc, st, wait, inode, pin, slots, files, handler>>

InstanceCloses(j) ==
    /\ Alive /\ viewer[j] = "instance"
    /\ viewer' = [viewer EXCEPT ![j] = "gone"]
    /\ reads' = [reads EXCEPT ![j] = None]
    /\ UNCHANGED <<proper, proc, st, wait, inode, pin, slots, files, handler>>

-----------------------------------------------------------------------------
(* The watcher thread.                                                     *)

\* Any descriptor of any process, this one's write handles included, whose
\* link in /proc reads as the path.
is_file_open(j) ==
    LET i == link[Name[j]] IN
    /\ canonical /\ i # None
    /\ \E k \in Jobs : (HasHandle(k) /\ inode[k] = i) \/ reads[k] = i

Watch(j, here, there) ==
    /\ Alive /\ wait[j] = here
    /\ wait' = [wait EXCEPT ![j] = there]
    /\ UNCHANGED <<proper, proc, st, inode, pin, slots, viewers, files, handler>>

\* child.wait()
ChildWaited(j) == mode = "tmpfs" /\ viewer[j] # "running" /\ Watch(j, "child", "settle")

\* waitpid()
WatcherForgets(j) == mode = "memfd" /\ viewer[j] # "running" /\ Watch(j, "child", "end")
SandboxClosed(j) == mode = "memfd" /\ viewer[j] # "running" /\ Watch(j, "child", "claim")

\* Within HANDOFF_SETTLE the file is seen open, or it is over.
Settle(j) ==
    \/ is_file_open(j) /\ Watch(j, "settle", "held")
    \/ ~is_file_open(j) /\ Watch(j, "settle", "claim")

Released(j) == ~is_file_open(j) /\ Watch(j, "held", "claim")

\* The mutex guard lives to the end of the `if let`, over the whole wipe.
ClaimReleasing(j) ==
    IF slot[j] = "full"
    THEN Goto(j, "wiping") /\ slot' = [slot EXCEPT ![j] = "taken"] /\ UNCHANGED lock
    ELSE UNCHANGED <<st, slots>>
Take(j) ==
    IF slot[j] = "full"
    THEN Goto(j, "wiping") /\ slot' = [slot EXCEPT ![j] = "taken"] /\ lock' = [lock EXCEPT ![j] = "watcher"]
    ELSE UNCHANGED <<st, slots>>

Claim(j) ==
    /\ Alive /\ wait[j] = "claim" /\ lock[j] = "free"
    /\ Take(j)
    /\ wait' = [wait EXCEPT ![j] = "end"]
    /\ UNCHANGED <<proper, proc, inode, pin, viewers, files, handler>>

\* shred_tmpfs_job, complete_shred: zeros over whatever the handle's inode holds,
\* or over a part of it when a write fails, which stops neither of the two ...
zero_fill(j) ==
    \/ /\ data' = IF data[inode[j]] = Empty THEN data ELSE [data EXCEPT ![inode[j]] = Zero]
       /\ UNCHANGED refused
    \/ /\ data[inode[j]] # Empty
       /\ refused' = refused \cup {j}
       /\ UNCHANGED data

Wipe(j) ==
    /\ At(j, "wiping")
    /\ zero_fill(j)
    /\ Goto(j, "wiped")
    /\ UNCHANGED <<proper, proc, wait, inode, pin, slots, viewers, link, registry, drained, caught>>

\* ... then the pin and the handle go ...
Drop(j) ==
    /\ Goto(j, "shut")
    /\ pin' = [pin EXCEPT ![j] = FALSE]
    /\ inode' = [inode EXCEPT ![j] = None]
    /\ lock' = [lock EXCEPT ![j] = "free"]

\* ... and the path, whichever inode it has by now; or the memfd is shrunk, its
\* pages going with its last handle in any case.
shred_tmpfs_job(j) ==
    /\ mode = "tmpfs" /\ At(j, "wiped")
    /\ Drop(j)
    /\ Remove(j)
    /\ UNCHANGED <<proper, proc, wait, slot, viewers, data, registry, drained, caught>>

complete_shred(j) ==
    /\ mode = "memfd" /\ At(j, "wiped")
    /\ Drop(j)
    /\ data' = [data EXCEPT ![inode[j]] = Empty]
    /\ UNCHANGED <<proper, proc, wait, slot, viewers, link, handler>>

-----------------------------------------------------------------------------
(* SIGINT and SIGTERM, once the handler is installed; and a normal exit,    *)
(* which ends every thread where it is.                                     *)

Signal ==
    /\ proc = "up" /\ \E j \in Jobs : st[j] # "idle"
    /\ proc' = "draining"
    /\ drained' = registry /\ caught' = registry /\ registry' = {}
    /\ UNCHANGED <<proper, st, wait, inode, pin, slots, viewers, files, refused>>

Wiping == \E k \in Jobs : lock[k] = "handler"

WaitsForEmptied(j) == IF slot[j] = "full" THEN drained \ {j} ELSE drained
Rest(j) == drained \ {j}

\* slot.lock() waits for a watcher that is wiping; shred_on_signal kills the child.
HandlerVisits(j) ==
    /\ proc = "draining" /\ ~Wiping
    /\ j \in drained /\ lock[j] = "free"
    /\ drained' = Rest(j)
    /\ IF slot[j] = "full"
       THEN /\ slot' = [slot EXCEPT ![j] = "taken"]
            /\ lock' = [lock EXCEPT ![j] = "handler"]
            /\ Goto(j, "wiping")
            /\ IF viewer[j] = "running"
               THEN viewer' = [viewer EXCEPT ![j] = "gone"] /\ reads' = [reads EXCEPT ![j] = None]
               ELSE UNCHANGED viewers
       ELSE UNCHANGED <<slots, st, viewers>>
    /\ UNCHANGED <<proper, proc, wait, inode, pin, files, registry, caught, refused>>

HandlerExits ==
    /\ proc = "draining" /\ drained = {} /\ ~Wiping
    /\ proc' = "dead"
    /\ UNCHANGED <<proper, st, wait, inode, pin, slots, viewers, files, handler>>

Quit ==
    /\ proc = "up"
    /\ proc' = "quit"
    /\ UNCHANGED <<proper, st, wait, inode, pin, slots, viewers, files, handler>>

-----------------------------------------------------------------------------
Init ==
    /\ mode \in Modes /\ canonical \in Spellings /\ swap \in Swaps
    /\ proc = "up"
    /\ st = [j \in Jobs |-> "idle"] /\ wait = [j \in Jobs |-> "none"]
    /\ inode = [j \in Jobs |-> None] /\ pin = [j \in Jobs |-> FALSE]
    /\ slot = [j \in Jobs |-> "none"] /\ lock = [j \in Jobs |-> "free"]
    /\ viewer = [j \in Jobs |-> "none"] /\ reads = [j \in Jobs |-> None]
    /\ link = [p \in Paths |-> None] /\ data = [j \in Jobs |-> Empty]
    /\ registry = {} /\ drained = {} /\ caught = {} /\ refused = {}

\* What the program's own threads do for one open.
Thread(j) ==
    \/ resolve_viewer_command(j) \/ StageTmpfs(j) \/ WriteTmpfs(j) \/ prepare_decrypted_memfd(j)
    \/ Pin(j) \/ SpawnDirect(j) \/ spawn_in_bwrap_sandbox(j) \/ Register(j)
    \/ ChildWaited(j) \/ SandboxClosed(j) \/ Settle(j) \/ Released(j)
    \/ Claim(j) \/ Wipe(j) \/ shred_tmpfs_job(j) \/ complete_shred(j)

Handler == HandlerExits \/ \E j \in Jobs : HandlerVisits(j)

Next ==
    \/ \E j \in Jobs : OpenViewer(j) \/ Thread(j)
    \/ \E j \in Jobs : ViewerOpens(j) \/ ViewerExits(j) \/ InstanceCloses(j)
    \/ Signal \/ Handler \/ Quit

Fairness == (\A j \in Jobs : WF_vars(Thread(j))) /\ WF_vars(Handler)

Spec == Init /\ [][Next]_vars /\ Fairness

-----------------------------------------------------------------------------
(* Properties                                                              *)

Inodes == Jobs \cup {None}

\* The state has the shape the code gives it; a slot is locked only by the
\* thread that took it and only while it wipes.
TypeOK ==
    /\ proc \in {"up", "draining", "dead", "quit"}
    /\ inode \in [Jobs -> Inodes] /\ reads \in [Jobs -> Inodes] /\ link \in [Paths -> Inodes]
    /\ data \in [Jobs -> Jobs \cup {Empty, Zero}]
    /\ registry \subseteq Jobs /\ drained \subseteq caught /\ refused \subseteq Jobs
    /\ \A j \in Jobs : lock[j] # "free" => slot[j] = "taken" /\ st[j] \in {"wiping", "wiped"}
    /\ \A j \in Jobs : HasHandle(j) <=> inode[j] # None

\* While the program runs, plaintext reachable in the staging directory belongs
\* to an open that is still under way: every end of open_in_viewer and of the
\* wipe removes it, however opens of one name interleave, except an end by a
\* failed tmpfs write (broker.rs:311), which leaves what it wrote, and an open
\* whose overwrite or removal the system refused (broker.rs:194-208, 220-227).
NothingLeftBehind ==
    proc = "up" =>
        \A p \in Paths :
            LET j == data[link[p]] IN
            link[p] # None /\ j \in Jobs \ refused => st[j] \notin {"shut", "failed"}

\* A viewer that was registered when the signal came is wiped before the process
\* exits, even if its watcher had claimed the wipe a moment earlier: the handler
\* waits on the slot's lock (view.rs:186-218).  An overwrite that failed is the
\* one exception, and only for its own viewer.
SignalWipesRegistered ==
    proc = "dead" => \A j \in caught \ refused, i \in Jobs : data[i] # j

\* From the launch of the viewer to the wipe the plaintext is locked in RAM,
\* unless nothing could be swapped to a disk; the pin goes after the plaintext
\* (view.rs:60-84, broker.rs:216-219).
NeverSwappable ==
    Alive => \A j \in Jobs :
        /\ st[j] \in {"spawning", "registering", "open", "wiping"} => pin[j] \/ ~swap
        /\ st[j] = "shut" => j \in refused \/ \A i \in Jobs : data[i] # j

\* The handler gets through its slots whatever the watchers hold (view.rs:199-218).
SignalEnds == proc = "draining" ~> proc = "dead"

\* In the shell, the viewer's exit is followed by the wipe (view.rs:411-425).
ShellShreds ==
    \A j \in Jobs : mode = "memfd" /\ wait[j] = "child" /\ viewer[j] = "gone" ~> st[j] = "shut" \/ proc # "up"

\* "spawn the user's default viewer directly as a child process, then waitpid on
\* it and shred the file when it exits" (broker.rs:238).
ShreddedOnExit ==
    \A j \in Jobs : mode = "tmpfs" /\ wait[j] = "child" /\ viewer[j] = "gone" ~> st[j] = "shut" \/ proc # "up"

\* "The SIGINT handler drains this on termination so no decrypted page survives
\* an interrupted session" (view.rs:175), where no overwrite or removal failed.
NoPageSurvives ==
    proc = "dead" => \A p \in Paths : link[p] = None \/ data[link[p]] \notin Jobs \ refused

\* "we never shred while the user is still viewing" (broker.rs:379).
ViewIntact == \A j \in Jobs : reads[j] # None /\ proc = "up" => data[reads[j]] # Zero
=============================================================================
