------------------------------ MODULE Desktop ------------------------------
(***************************************************************************)
(* The graphical application around an open vault (gui/mod.rs, home.rs,    *)
(* login.rs, explorer.rs): screens, file dialogs, and the broker threads   *)
(* that read and write host files outside the Landlock domain              *)
(* (gui/broker.rs).                                                        *)
(*                                                                         *)
(* A dialog runs on a thread of its own and puts the path it got into a    *)
(* cell; every frame takes what the cells and the broker's answers hold.   *)
(* Nothing stops the user from opening a second dialog, leaving the vault  *)
(* or entering another one before the first has answered.  One frame polls *)
(* all cells; polls of different cells are separate actions, since a cell  *)
(* filled just after its poll is seen one frame later.                     *)
(***************************************************************************)
EXTENDS Naturals, FiniteSets

CONSTANTS
    Vaults,         \* paths of vault files
    InData,         \* those in ~/.atom_vault
    InitVaults,     \* those that exist, each with the file "old" in it
    HostFiles,      \* files an import dialog may pick
    BaseName,       \* [HostFiles -> their file names]
    NewNames,       \* names the rename window may be given
    None,
    MaxOpens,       \* files opened in a viewer
    MaxClicks       \* dialogs, viewers and unlocks asked for

VARIABLES
    screen, session, selected,
    domain,         \* the Landlock domain: None, or the vault path it was made for
    exists,         \* vault files on the disk
    listed,         \* vault_registry: ~/.atom_vault/vaults.json
    table,          \* [Vaults -> set of entries of the file table]
    dialogs,        \* open file dialogs
    cellVault, cellImport, cellExport,      \* pending_*_path
    importName, importRead,                 \* pending_import_vfs_name, pending_import_bytes
    exportName, exportWrite,                \* pending_export_vfs_name, pending_export_write_result
    readOut,        \* what the broker answered to importRead
    writes,         \* the broker's writes under way
    renaming,       \* rename_dialog
    viewerSpawn, viewerDone,                \* pending_viewer_spawn, viewer_done
    jobs,           \* [1 .. MaxOpens -> what became of the open]
    clicks

nav == <<screen, session, selected, domain>>
store == <<exists, listed, table>>
import == <<cellImport, importName, importRead, readOut>>
export == <<cellExport, exportName, exportWrite, writes>>
viewing == <<viewerSpawn, viewerDone, jobs>>
vars == <<nav, store, dialogs, cellVault, import, export, renaming, viewing, clicks>>

Entry(n, f) == [name |-> n, bytes |-> f]
Files(v) == {e.name : e \in table[v]}
Exploring == screen = "VaultExplorer"
Click == clicks < MaxClicks /\ clicks' = clicks + 1

-----------------------------------------------------------------------------
(* Home and Login                                                          *)

register_vault(v) == listed' = listed \cup {v}

\* Landlock is applied once; what it allows is the vault it was made for, or the
\* directory of one being created, and all of ~/.atom_vault.
apply_gui_vault_sandbox(v) == domain' = IF domain = None THEN v ELSE domain
Allowed(v, d) == v \in InData \/ v = d

OpenListed(v) ==
    /\ screen = "Home" /\ v \in listed /\ v \in exists
    /\ selected' = v /\ screen' = "Login"
    /\ UNCHANGED <<session, domain, store, dialogs, cellVault, import, export, renaming, viewing, clicks>>

RemoveListed(v) ==
    /\ screen = "Home" /\ v \in listed
    /\ listed' = listed \ {v}
    /\ UNCHANGED <<nav, exists, table, dialogs, cellVault, import, export, renaming, viewing, clicks>>

GoTo(from, to) ==
    /\ screen = from /\ screen' = to
    /\ UNCHANGED <<session, selected, domain, store, dialogs, cellVault, import, export, renaming, viewing, clicks>>

\* "+ Create New" and Cancel; "Back to Home"; the P2P screen and "Back to Vault".
Navigate ==
    \/ GoTo("Home", "CreateVault") \/ GoTo("CreateVault", "Home")
    \/ GoTo("Login", "Home")
    \/ GoTo("VaultExplorer", "P2PDialog") \/ GoTo("P2PDialog", "VaultExplorer")

\* The domain is made for the path that was tried, before the password is known
\* to be right; a path outside it then cannot be opened.
try_unlock ==
    /\ screen = "Login" /\ selected # None
    /\ Click
    /\ register_vault(selected)
    /\ apply_gui_vault_sandbox(selected)
    /\ \/ /\ selected \in exists /\ Allowed(selected, domain')
          /\ session' = selected /\ screen' = "VaultExplorer"
       \/ UNCHANGED <<session, screen>>
    /\ UNCHANGED <<selected, exists, table, dialogs, cellVault, import, export, renaming, viewing>>

\* Registered once the file is there; handle_create refuses a path in use.
do_create_vault_at_path(v) ==
    /\ screen = "CreateVault" /\ v \in InData
    /\ apply_gui_vault_sandbox(v)
    /\ \/ /\ v \notin exists
          /\ exists' = exists \cup {v} /\ table' = [table EXCEPT ![v] = {}]
          /\ listed' = listed \cup {v}
          /\ screen' = "Home"
       \/ UNCHANGED <<exists, table, listed, screen>>
    /\ UNCHANGED <<session, selected, dialogs, cellVault, import, export, renaming, viewing, clicks>>

\* A dialog, and what comes of it, remembers (an observation) the session it was
\* opened in, until that session ends.
Orphaned(req) == IF req = None THEN None ELSE [req EXCEPT !.vault = None]

\* "Lock vault and return to home screen": the pending dialogs are left alone.
Lock ==
    /\ Exploring /\ screen' = "Home"
    /\ session' = None
    /\ dialogs' = {Orphaned(d) : d \in dialogs}
    /\ cellImport' = Orphaned(cellImport) /\ importRead' = Orphaned(importRead)
    /\ cellExport' = Orphaned(cellExport)
    /\ UNCHANGED <<selected, domain, store, cellVault, importName, readOut,
                   exportName, exportWrite, writes, renaming, viewing, clicks>>

-----------------------------------------------------------------------------
(* Dialogs                                                                 *)

Ask(kind, name) ==
    /\ Click
    /\ LET free == (1 .. MaxClicks) \ {d.id : d \in dialogs}
           id == CHOOSE i \in free : \A k \in free : i <= k
       IN  dialogs' = dialogs \cup {[id |-> id, kind |-> kind, name |-> name, vault |-> session]}

BrowseVault ==
    /\ screen \in {"Home", "Login"}
    /\ Ask("vault", None)
    /\ UNCHANGED <<nav, store, cellVault, import, export, renaming, viewing>>

ImportClicked ==
    /\ Exploring
    /\ Ask("import", None)
    /\ UNCHANGED <<nav, store, cellVault, import, export, renaming, viewing>>

do_export_file(n) ==
    /\ Exploring /\ n \in Files(session)
    /\ exportName' = n
    /\ Ask("export", n)
    /\ UNCHANGED <<nav, store, cellVault, import, cellExport, exportWrite, writes, renaming, viewing>>

\* The user picks a path, or cancels; a path not yet polled is overwritten.
Answer(d) ==
    /\ d \in dialogs /\ dialogs' = dialogs \ {d}
    /\ \/ /\ d.kind = "vault"
          /\ \E v \in exists : cellVault' = v
          /\ UNCHANGED <<cellImport, cellExport>>
       \/ /\ d.kind = "import"
          /\ \E f \in HostFiles : cellImport' = [file |-> f, vault |-> d.vault]
          /\ UNCHANGED <<cellVault, cellExport>>
       \/ /\ d.kind = "export"
          /\ cellExport' = [name |-> d.name, vault |-> d.vault]
          /\ UNCHANGED <<cellVault, cellImport>>
       \/ UNCHANGED <<cellVault, cellImport, cellExport>>
    /\ UNCHANGED <<nav, store, importName, importRead, readOut, exportName, exportWrite, writes, renaming, viewing, clicks>>

-----------------------------------------------------------------------------
(* poll_file_dialog_results                                                *)

ScreenAfterPick == IF screen = "Home" THEN "Login" ELSE screen

PollVault ==
    /\ cellVault # None /\ cellVault' = None
    /\ selected' = cellVault
    /\ screen' = ScreenAfterPick
    /\ UNCHANGED <<session, domain, store, dialogs, import, export, renaming, viewing, clicks>>

\* The new read takes the place of one that has not been polled, whose answer
\* nobody will see.
KeepsFirstRead(req) ==
    /\ importName' = BaseName[req.file]
    /\ importRead' = IF importRead = None THEN req ELSE importRead
    /\ readOut' = IF importRead = None THEN None ELSE readOut
BeginRead(req) ==
    /\ importName' = BaseName[req.file]
    /\ importRead' = req
    /\ readOut' = None

PollImport ==
    /\ cellImport # None /\ cellImport' = None
    /\ BeginRead(cellImport)
    /\ UNCHANGED <<nav, store, dialogs, cellVault, export, renaming, viewing, clicks>>

\* do_export_via_broker: the name last clicked, in the vault now open.
PollExport ==
    LET req == [asked |-> cellExport, of |-> exportName, vault |-> session]
        go == exportName # None /\ session # None /\ exportName \in Files(session) IN
    /\ cellExport # None /\ cellExport' = None
    /\ exportName' = None
    /\ exportWrite' = IF go THEN req ELSE exportWrite
    /\ writes' = IF go THEN writes \cup {req} ELSE writes
    /\ UNCHANGED <<nav, store, dialogs, cellVault, import, renaming, viewing, clicks>>

-----------------------------------------------------------------------------
(* The broker's threads, and poll_broker_results                           *)

Answered == readOut' = "ok" \/ readOut' = "error"

read_with_sandbox ==
    /\ importRead # None /\ readOut = None
    /\ Answered
    /\ UNCHANGED <<nav, store, dialogs, cellVault, cellImport, importName, importRead, export, renaming, viewing, clicks>>

\* Done, or failed.
write_with_sandbox(w) ==
    /\ w \in writes /\ writes' = writes \ {w}
    /\ UNCHANGED <<nav, store, dialogs, cellVault, import, cellExport, exportName, exportWrite, renaming, viewing, clicks>>

\* do_import_bytes: into the vault now open, if any; a name in use is refused.
IntoSelected(f) ==
    table' = IF session = None \/ importName \in Files(selected) THEN table
             ELSE [table EXCEPT ![selected] = @ \cup {Entry(importName, f)}]
handle_import_from_bytes(f) ==
    table' = IF session = None \/ importName \in Files(session) THEN table
             ELSE [table EXCEPT ![session] = @ \cup {Entry(importName, f)}]

PollImportRead ==
    /\ importRead # None /\ readOut # None
    /\ importRead' = None /\ readOut' = None
    /\ \/ /\ readOut = "ok" /\ handle_import_from_bytes(importRead.file)
          /\ importName' = None
       \/ readOut = "error" /\ UNCHANGED <<table, importName>>
    /\ UNCHANGED <<nav, exists, listed, dialogs, cellVault, cellImport, export, renaming, viewing, clicks>>

PollExportWrite ==
    /\ exportWrite # None /\ exportWrite \notin writes
    /\ exportWrite' = None
    /\ UNCHANGED <<nav, store, dialogs, cellVault, import, cellExport, exportName, writes, renaming, viewing, clicks>>

-----------------------------------------------------------------------------
(* The explorer's other buttons; what an I/O error leaves is in VaultFile.  *)

do_delete(n) ==
    /\ Exploring /\ n \in Files(session)
    /\ table' = [table EXCEPT ![session] = {e \in @ : e.name # n}]
    /\ UNCHANGED <<nav, exists, listed, dialogs, cellVault, import, export, renaming, viewing, clicks>>

RenameClicked(n) ==
    /\ Exploring /\ n \in Files(session)
    /\ renaming' = n
    /\ UNCHANGED <<nav, store, dialogs, cellVault, import, export, viewing, clicks>>

\* Save: the checks are made against the table as it is now.
Renamed(old, new) ==
    IF new \in Files(session) THEN table
    ELSE [table EXCEPT ![session] = {IF e.name = old THEN [e EXCEPT !.name = new] ELSE e : e \in @}]

show_rename_dialog ==
    /\ Exploring /\ renaming # None
    /\ \/ \E new \in NewNames : table' = Renamed(renaming, new)
       \/ UNCHANGED table
    /\ renaming' = None
    /\ UNCHANGED <<nav, exists, listed, dialogs, cellVault, import, export, viewing, clicks>>

\* An open is a job of the broker's (Viewer); two cells follow the last one.
Follow(j) == viewerSpawn' = j /\ viewerDone' = j

do_open(n) ==
    /\ Exploring /\ n \in Files(session)
    /\ \E j \in 1 .. MaxOpens :
         /\ jobs[j] = "none" /\ \A i \in 1 .. j - 1 : jobs[i] # "none"
         /\ jobs' = [jobs EXCEPT ![j] = "starting"]
         /\ Follow(j)
    /\ Click
    /\ UNCHANGED <<nav, store, dialogs, cellVault, import, export, renaming>>

\* open_in_viewer answers; the done flag is also set when a launch failed and the
\* staged file was wiped.  Nobody looks at the flags of an open no cell follows.
JobStep(j) ==
    /\ j \in {viewerSpawn, viewerDone}
    /\ \/ jobs[j] = "starting" /\ \E s \in {"running", "refused", "undone"} : jobs' = [jobs EXCEPT ![j] = s]
       \/ jobs[j] = "running" /\ jobs' = [jobs EXCEPT ![j] = "closed"]
    /\ UNCHANGED <<nav, store, dialogs, cellVault, import, export, renaming, viewerSpawn, viewerDone, clicks>>

poll_viewer_done ==
    /\ viewerDone # None /\ jobs[viewerDone] \in {"undone", "closed"}
    /\ viewerDone' = None
    /\ UNCHANGED <<nav, store, dialogs, cellVault, import, export, renaming, viewerSpawn, jobs, clicks>>

PollViewerSpawn ==
    /\ viewerSpawn # None /\ jobs[viewerSpawn] # "starting"
    /\ viewerSpawn' = None
    /\ viewerDone' = IF jobs[viewerSpawn] \in {"refused", "undone"} THEN None ELSE viewerDone
    /\ UNCHANGED <<nav, store, dialogs, cellVault, import, export, renaming, jobs, clicks>>

-----------------------------------------------------------------------------
Init ==
    /\ screen = "Home" /\ session = None /\ selected = None /\ domain = None
    /\ exists = InitVaults /\ listed = InitVaults
    /\ table = [v \in Vaults |-> IF v \in InitVaults THEN {Entry("old", "old")} ELSE {}]
    /\ dialogs = {} /\ cellVault = None /\ cellImport = None /\ cellExport = None
    /\ importName = None /\ importRead = None /\ exportName = None /\ exportWrite = None
    /\ readOut = None /\ writes = {} /\ renaming = None
    /\ viewerSpawn = None /\ viewerDone = None /\ jobs = [j \in 1 .. MaxOpens |-> "none"]
    /\ clicks = 0

Polls == \/ PollVault \/ PollImport \/ PollExport \/ PollImportRead \/ PollExportWrite
         \/ poll_viewer_done \/ PollViewerSpawn

Broker == \/ read_with_sandbox
          \/ \E w \in writes : write_with_sandbox(w)
          \/ \E j \in 1 .. MaxOpens : JobStep(j)

Next ==
    \/ \E v \in Vaults : OpenListed(v) \/ RemoveListed(v) \/ do_create_vault_at_path(v)
    \/ Navigate \/ try_unlock \/ Lock \/ BrowseVault \/ ImportClicked
    \/ \E d \in dialogs : Answer(d)
    \/ \E n \in {"old"} \cup NewNames \cup {BaseName[f] : f \in HostFiles} :
          do_export_file(n) \/ do_delete(n) \/ RenameClicked(n) \/ do_open(n)
    \/ show_rename_dialog
    \/ Polls \/ Broker

Spec == Init /\ [][Next]_vars

-----------------------------------------------------------------------------
(* Properties                                                              *)

\* The state has the shape the code gives it.
TypeOK ==
    /\ screen \in {"Home", "Login", "CreateVault", "VaultExplorer", "P2PDialog"}
    /\ {session, selected, domain, cellVault} \subseteq Vaults \cup {None}
    /\ listed \subseteq exists /\ exists \subseteq Vaults
    /\ \A v \in Vaults : \A e \in table[v] : v \in exists /\ e.bytes \in HostFiles \cup {"old"}
    /\ clicks \in 0 .. MaxClicks

\* A vault is unlocked exactly on the screens that show it, whatever dialog or
\* broker answers a frame picks up there (mod.rs:330, explorer.rs:100-108).
UnlockedOnlyInView == session # None <=> screen \in {"VaultExplorer", "P2PDialog"}

Imported == importRead # None /\ importRead' = None

\* However imports overlap, a vault gets under a name only the bytes of the file
\* that was picked under that name: the name and the read it belongs to are
\* replaced together (mod.rs:340-357, explorer.rs:371-389).
BytesUnderTheirName ==
    [][\A v \in Vaults : \A e \in table'[v] \ table[v] : Imported => e.name = BaseName[e.bytes]]_vars

\* No two files of a vault have one name, though an import may arrive while the
\* rename window is open (import.rs:48, explorer.rs:543-550).
NamesUnique ==
    \A v \in Vaults : \A e, f \in table[v] : e.name = f.name => e = f

\* The answer of a launch and the done flag that are polled belong to one open,
\* so a failed launch clears no other viewer's flag (explorer.rs:412-417).
OneViewerFollowed == viewerSpawn # None /\ viewerDone # None => viewerSpawn = viewerDone

\* As long as the vault is not locked in between, an import and an export go to and
\* come from the vault their dialog was opened in, though a vault dialog answered
\* meanwhile moves the selection (mod.rs:328, explorer.rs:371-389, 435-452).
SessionKeepsItsFiles ==
    [][/\ Imported => \A v \in Vaults : \A e \in table'[v] \ table[v] : importRead.vault \in {v, None}
       /\ \A w \in writes' \ writes : w.asked.vault \in {w.vault, None}]_vars

\* do_import_bytes "encrypts and stores the bytes in the vault" the dialog was
\* opened in (explorer.rs:369).
ImportStaysInVault ==
    [][\A v \in Vaults : \A e \in table'[v] \ table[v] :
          Imported => importRead.vault = v]_vars

\* A file saved from the dialog for n is n, of the vault it was shown in
\* (explorer.rs:420-432).
ExportedAsAsked == \A w \in writes : w.asked = [name |-> w.of, vault |-> w.vault]
=============================================================================
