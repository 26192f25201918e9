----------------------------- MODULE VaultFile -----------------------------
(***************************************************************************)
(* The `.aegis` container and the commands that rewrite it in place:       *)
(* create, enter, import, rm, rename, vacuum, exit (storage.rs and         *)
(* commands/{create,enter,import,rm,vacuum,shell}.rs, and the rename       *)
(* dialog of gui/explorer.rs).                                             *)
(*                                                                         *)
(* The file is a header holding the master pointer, followed by cells.     *)
(* Position 1 is byte VAULT_HEADER_SIZE.  Every chunk is padded to the same *)
(* length, so a chunk fills one cell; a metadata block fills MetaCells of   *)
(* them.  One step is one system call, so a crash (power loss) or an I/O   *)
(* error can fall between any two of them.  A file has a page-cache image  *)
(* (`vol`) and an image on the platter (`dur`); only fsync makes them      *)
(* equal, and a crash keeps an arbitrary part of what was not synced.      *)
(***************************************************************************)
EXTENDS Integers, Sequences, FiniteSets, SequencesExt

CONSTANTS
  Names, LongNames,   \* virtual file names; those that lengthen the metadata
  ChunkCounts,        \* how many chunks an imported file may have
  MetaLimit,          \* the 10 MiB load_vault_metadata reads at most, in cells
  VaultUnderStaging,  \* the vault lies in the one directory Landlock opens
  FaultPoints,        \* <<command, step>>: the system calls that may fail
  MaxImports, MaxFaults, MaxCrashes   \* bounds of the exploration

ASSUME VaultAssumption ==
  /\ LongNames \subseteq Names
  /\ ChunkCounts \subseteq Nat
  /\ MetaLimit \in Nat \ {0}
  /\ VaultUnderStaging \in BOOLEAN
  /\ MaxImports \in Nat /\ MaxFaults \in Nat /\ MaxCrashes \in Nat

VARIABLES
  vault,    \* the file at vault_path: its images vol and dur, or NoFile
  tmp,      \* the file at vault_path.tmp: images, NoFile, or Stale
  orphan,   \* page cache of an unlinked vault file the session still holds
  prev,     \* file a crash may bring back: the rename is not yet journalled
  fd,       \* physical_vault: "vault", "orphan", or "none" (no session)
  table,    \* metadata.file_table in RAM
  cur,      \* current_payload_offset in RAM
  pc,       \* next system call of the running command, or "idle"
  op,       \* the running command's locals
  nver,     \* imports started: the newest file version
  staged,   \* versions whose plaintext source still exists
  faults, crashes,
  \* History, read by no step's guard:
  ok,       \* contents a reopened vault may have
  settled,  \* no in-place update has been cut short since the last success
  wiped,    \* versions whose removal has begun
  shredded, \* versions whose removal has succeeded
  last      \* the last finished command and whether it succeeded

disk == <<vault, tmp, orphan, prev>>
ram  == <<fd, table, cur>>
hist == <<ok, settled, wiped, shredded, last>>
vars == <<disk, ram, pc, op, nver, staged, faults, crashes, hist>>

----------------------------------------------------------------------------
(* Files *)

Chunk(v, k) == [kind |-> "chunk", ver |-> v, idx |-> k]
Meta(tbl, i) == [kind |-> "meta", tbl |-> tbl, part |-> i]
Zero == [kind |-> "zero"]
Torn == [kind |-> "torn"]

NoFile == [vol |-> [ptr |-> 0, cells |-> <<>>], dur |-> [ptr |-> 0, cells |-> <<>>], is |-> "none"]
Stale  == [NoFile EXCEPT !.is = "stale"]
IsFile(f) == f.is = "file"

\* A metadata block grows with the table it serialises, and with its names.
MetaCells(tbl) ==
  1 + Len(tbl) + Cardinality({i \in DOMAIN tbl : tbl[i].name \in LongNames})
MetaBlob(tbl) == [i \in 1..MetaCells(tbl) |-> Meta(tbl, i)]

CellAt(cells, i) == IF i \in 1..Len(cells) THEN cells[i] ELSE Zero
Larger(m, n) == IF m > n THEN m ELSE n
Smaller(m, n) == IF m < n THEN m ELSE n

\* seek to position p and write_all a blob: bytes skipped over read as zeros.
WriteAt(cells, p, blob) ==
  [i \in 1..Larger(Len(cells), p + Len(blob) - 1) |->
     IF i \in p..(p + Len(blob) - 1) THEN blob[i - p + 1] ELSE CellAt(cells, i)]

SetLen(cells, n) == [i \in 1..n |-> CellAt(cells, i)]

\* What load_vault_metadata finds: everything from the master pointer to the
\* end of the file (10 MiB at most) must be one metadata block.
Loadable(f) ==
  /\ f.ptr \in 1..Len(f.cells)
  /\ f.cells[f.ptr].kind = "meta"
  /\ SubSeq(f.cells, f.ptr, Smaller(Len(f.cells), f.ptr + MetaLimit - 1))
       = MetaBlob(f.cells[f.ptr].tbl)

LoadedTable(f) == f.cells[f.ptr].tbl

\* The mistake load_vault_metadata's closing comment recalls.
HeaderEnd(f) == 1

\* Where the next chunk or metadata block goes after a load.
LoadedOffset(f) == f.ptr

\* decrypt_chunk succeeds on each chunk only if the blob at its offset is the
\* one written for this file_id.
Readable(e, cells) ==
  \A k \in 1..Len(e.offs) : CellAt(cells, e.offs[k]) = Chunk(e.ver, k)

Contents(tbl, cells) ==
  {<<e.name, e.ver>> : e \in {x \in Range(tbl) : Readable(x, cells)}}

\* Everything a power loss may leave of a file: any mixture of old and new
\* cells, a length between the two, either pointer.
CrashImages(f) ==
  LET old == f.dur.cells
      new == f.vol.cells
      lens == {Len(old), Len(new)}
      dirty == {i \in 1..Larger(Len(old), Len(new)) : CellAt(old, i) # CellAt(new, i)}
  IN {[ptr |-> p,
       cells |-> [i \in 1..n |-> IF i \in s THEN CellAt(new, i) ELSE CellAt(old, i)]] :
        p \in {f.dur.ptr, f.vol.ptr}, n \in lens, s \in SUBSET dirty}

Settle(image) == [vol |-> image, dur |-> image, is |-> "file"]

----------------------------------------------------------------------------
(* The session *)

\* The file behind physical_vault.
FdFile == IF fd = "vault" THEN vault.vol ELSE orphan

SetFd(f) ==
  IF fd = "vault" THEN /\ vault' = [vault EXCEPT !.vol = f]
                       /\ UNCHANGED orphan
                  ELSE /\ orphan' = f
                       /\ UNCHANGED vault

\* The file save_vault_metadata is called on.
Target == IF op.cmd = "vacuum" THEN tmp.vol ELSE FdFile

SetTarget(f) ==
  IF op.cmd = "vacuum" THEN /\ tmp' = [tmp EXCEPT !.vol = f]
                            /\ UNCHANGED <<vault, orphan, prev>>
                       ELSE SetFd(f) /\ UNCHANGED <<tmp, prev>>

\* fsync.  It also commits the filesystem's journal, and with it an earlier
\* rename of the vault into place.
SyncTarget ==
  CASE op.cmd = "vacuum" -> /\ tmp' = [tmp EXCEPT !.dur = tmp.vol]
                            /\ prev' = NoFile
                            /\ UNCHANGED <<vault, orphan>>
    [] op.cmd # "vacuum" /\ fd = "vault" ->
                            /\ vault' = [vault EXCEPT !.dur = vault.vol]
                            /\ prev' = NoFile
                            /\ UNCHANGED <<tmp, orphan>>
    [] OTHER -> UNCHANGED disk

NoOp == [cmd |-> "none", entry |-> [name |-> "", ver |-> 0, offs |-> <<>>],
         n |-> 0, i |-> 0, off |-> 0, goal |-> {}]

Position(tbl, nm) == CHOOSE i \in DOMAIN tbl : tbl[i].name = nm
Listed(tbl) == {e.name : e \in Range(tbl)}

\* The duplicate check of both imports and of the rename dialog.
NameFree(tbl, nm) == nm \notin Listed(tbl)

\* What the session takes the vault to hold; a file whose removal has begun
\* is promised neither way.
Spared(pairs, gone) == {c \in pairs : c[2] \notin gone}
Believed(tbl, gone) == Spared({<<e.name, e.ver>> : e \in Range(tbl)}, gone)

NoResult == [cmd |-> "none", ok |-> TRUE]

\* A command starts: it may leave the vault as it was or reach its goal.
Begin(cmd, first, locals, goal) ==
  /\ pc = "idle"
  /\ pc' = first
  /\ op' = [locals EXCEPT !.cmd = cmd, !.goal = goal]
  /\ ok' = {Spared(c, wiped') : c \in ok} \cup {goal}
  /\ settled' = (settled /\ cmd = "vacuum")
  /\ last' = NoResult

\* A command ends.  After a success only the goal may be found on disk, unless
\* the file before a vacuum was already in doubt and may still come back.
Succeed ==
  /\ pc' = "idle"
  /\ op' = NoOp
  /\ last' = [cmd |-> op.cmd, ok |-> TRUE]
  /\ ok' = IF op.cmd = "vacuum" /\ ~settled THEN ok \cup {op.goal} ELSE {op.goal}
  /\ settled' = (settled \/ (op.cmd # "vacuum"))

Abort ==
  /\ pc' = "idle"
  /\ op' = NoOp
  /\ last' = [cmd |-> op.cmd, ok |-> FALSE]
  /\ UNCHANGED <<ok, settled>>

Step(next) == pc' = next /\ UNCHANGED <<op, hist>>
Counters == <<nver, staged, faults, crashes>>

----------------------------------------------------------------------------
(* create and enter *)

\* handle_create: create_new, then the header with the pointer at the first
\* cell.  None of it is on the platter until the save syncs.
CreateVault ==
  /\ vault.is = "none" /\ fd = "none"
  /\ vault' = [vol |-> [ptr |-> 1, cells |-> <<>>], dur |-> NoFile.dur, is |-> "file"]
  /\ fd' = "vault"
  /\ wiped' = wiped
  /\ Begin("create", "save_write", [NoOp EXCEPT !.off = 1], {})
  /\ UNCHANGED <<tmp, orphan, prev, table, cur, Counters, shredded>>

\* handle_enter / try_unlock: an unreadable metadata block refuses entry.  What
\* a settled file holds now is what it will hold until the next command.
Enter ==
  /\ pc = "idle" /\ fd = "none" /\ IsFile(vault)
  /\ Loadable(vault.vol)
  /\ fd' = "vault"
  /\ table' = LoadedTable(vault.vol)
  /\ cur' = LoadedOffset(vault.vol)
  /\ IF vault.vol = vault.dur /\ prev = NoFile
       THEN /\ settled' = TRUE
            /\ ok' = {Believed(table', wiped)}
       ELSE UNCHANGED <<settled, ok>>
  /\ UNCHANGED <<disk, pc, op, Counters, wiped, shredded, last>>

CloseSession ==
  /\ pc = "idle" /\ fd # "none"
  /\ fd' = "none"
  /\ orphan' = NoFile.vol
  /\ table' = <<>> /\ cur' = 0
  /\ UNCHANGED <<tmp, pc, op, Counters, hist>>

\* `exit`: handle_enter ends with a sync_all.
Exit ==
  /\ CloseSession
  /\ IF fd = "vault" THEN vault' = [vault EXCEPT !.dur = vault.vol] /\ prev' = NoFile
                     ELSE UNCHANGED <<vault, prev>>

\* The explorer's Home button just drops the session.
LeaveExplorer ==
  /\ CloseSession
  /\ UNCHANGED <<vault, prev>>

----------------------------------------------------------------------------
(* save_vault_metadata: write, truncate, sync, pointer, sync *)

SaveWrite ==
  /\ pc = "save_write"
  /\ SetTarget([Target EXCEPT !.cells = WriteAt(@, op.off, MetaBlob(table))])
  /\ Step("save_trunc")
  /\ UNCHANGED <<ram, Counters>>

SaveKeepsTail ==
  /\ pc = "save_trunc"
  /\ Step("save_sync")
  /\ UNCHANGED <<disk, ram, Counters>>

SaveTruncate ==
  /\ pc = "save_trunc"
  /\ SetTarget([Target EXCEPT !.cells = SetLen(@, op.off + MetaCells(table) - 1)])
  /\ Step("save_sync")
  /\ UNCHANGED <<ram, Counters>>

SaveSkipsSync ==
  /\ pc = "save_sync"
  /\ Step("save_ptr")
  /\ UNCHANGED <<disk, ram, Counters>>

SaveSyncData ==
  /\ pc = "save_sync"
  /\ SyncTarget
  /\ Step("save_ptr")
  /\ UNCHANGED <<ram, Counters>>

SavePointer ==
  /\ pc = "save_ptr"
  /\ SetTarget([Target EXCEPT !.ptr = op.off])
  /\ Step("save_done")
  /\ UNCHANGED <<ram, Counters>>

\* The last sync_all of the save and the caller's own one after it, then what
\* the caller does next: vacuum renames, handle_import shreds its source
\* (handle_import_from_bytes does not), create ends without a session.
SaveSyncAll ==
  /\ pc = "save_done"
  /\ SyncTarget
  /\ CASE op.cmd = "vacuum" -> Step("vac_rename") /\ UNCHANGED ram
       [] op.cmd = "create" -> /\ Succeed
                               /\ fd' = "none"
                               /\ UNCHANGED <<table, cur, wiped, shredded>>
       [] op.cmd = "rm" -> /\ Succeed
                           /\ shredded' = shredded \cup {op.entry.ver}
                           /\ UNCHANGED <<ram, wiped>>
       [] op.cmd = "rename" -> Succeed /\ UNCHANGED <<ram, wiped, shredded>>
       [] op.cmd = "import" -> /\ \/ Step("imp_shred")
                                  \/ Succeed /\ UNCHANGED <<wiped, shredded>>
                               /\ UNCHANGED ram
  /\ UNCHANGED Counters

----------------------------------------------------------------------------
(* import, rm, rename *)

\* A duplicate name is refused before anything is written.
ImportBegin(nm, n) ==
  /\ fd # "none" /\ nver < MaxImports
  /\ NameFree(table, nm)
  /\ nver' = nver + 1
  /\ staged' = staged \cup {nver'}
  /\ wiped' = wiped
  /\ LET e == [name |-> nm, ver |-> nver', offs |-> <<>>]
     IN Begin("import", "imp_write", [NoOp EXCEPT !.entry = e, !.n = n],
              Believed(table, wiped) \cup {<<nm, nver'>>})
  /\ UNCHANGED <<disk, ram, faults, crashes, shredded>>

\* One padded, encrypted chunk at the payload offset: the first of them lands
\* on the metadata block the header still points to.
ImportChunk ==
  /\ pc = "imp_write" /\ Len(op.entry.offs) < op.n
  /\ SetFd([FdFile EXCEPT !.cells =
              WriteAt(@, cur, <<Chunk(op.entry.ver, Len(op.entry.offs) + 1)>>)])
  /\ op' = [op EXCEPT !.entry.offs = Append(@, cur)]
  /\ cur' = cur + 1
  /\ UNCHANGED <<tmp, prev, fd, table, pc, Counters, hist>>

ImportPushShredding ==
  /\ pc = "imp_write" /\ Len(op.entry.offs) = op.n
  /\ table' = Append(table, op.entry)
  /\ op' = [op EXCEPT !.off = cur]
  /\ pc' = "save_write"
  /\ staged' = staged \ {op.entry.ver}
  /\ UNCHANGED <<disk, fd, cur, nver, faults, crashes, hist>>

\* All chunks written: push the entry in RAM and save the metadata behind them.
ImportPush ==
  /\ pc = "imp_write" /\ Len(op.entry.offs) = op.n
  /\ table' = Append(table, op.entry)
  /\ op' = [op EXCEPT !.off = cur]
  /\ pc' = "save_write"
  /\ UNCHANGED <<disk, fd, cur, Counters, hist>>

\* handle_import overwrites and unlinks the staged plaintext.
ImportShred ==
  /\ pc = "imp_shred"
  /\ staged' = staged \ {op.entry.ver}
  /\ Succeed
  /\ UNCHANGED <<disk, ram, nver, faults, crashes, wiped, shredded>>

\* handle_rm on a name that is listed.
RmBegin(nm) ==
  /\ fd # "none" /\ nm \in Listed(table)
  /\ LET e == table[Position(table, nm)]
     IN /\ wiped' = wiped \cup {e.ver}
        /\ Begin("rm", "rm_wipe", [NoOp EXCEPT !.entry = e, !.i = 1],
                 Believed(table, wiped'))
  /\ UNCHANGED <<disk, ram, Counters, shredded>>

RmWipeWithoutSeek ==
  /\ pc = "rm_wipe" /\ op.i <= Len(op.entry.offs)
  /\ SetFd([FdFile EXCEPT !.cells = WriteAt(@, op.entry.offs[1], <<Zero>>)])
  /\ op' = [op EXCEPT !.i = @ + 1]
  /\ UNCHANGED <<tmp, prev, ram, pc, Counters, hist>>

\* Overwrite one chunk with zeros, in place.
RmWipe ==
  /\ pc = "rm_wipe" /\ op.i <= Len(op.entry.offs)
  /\ SetFd([FdFile EXCEPT !.cells = WriteAt(@, op.entry.offs[op.i], <<Zero>>)])
  /\ op' = [op EXCEPT !.i = @ + 1]
  /\ UNCHANGED <<tmp, prev, ram, pc, Counters, hist>>

\* Every chunk wiped: drop the entry from RAM, then cut the old metadata off.
RmForget ==
  /\ pc = "rm_wipe" /\ op.i > Len(op.entry.offs)
  /\ table' = RemoveAt(table, Position(table, op.entry.name))
  /\ op' = [op EXCEPT !.off = cur]
  /\ pc' = "rm_trunc"
  /\ UNCHANGED <<disk, fd, cur, Counters, hist>>

RmTruncate ==
  /\ pc = "rm_trunc"
  /\ SetFd([FdFile EXCEPT !.cells = SetLen(@, cur - 1)])
  /\ Step("save_write")
  /\ UNCHANGED <<tmp, prev, ram, Counters>>

\* The rename dialog: the new name must be free; the block is saved in place.
RenameBegin(old, new) ==
  /\ fd # "none" /\ old \in Listed(table) /\ NameFree(table, new)
  /\ table' = [table EXCEPT ![Position(table, old)].name = new]
  /\ wiped' = wiped
  /\ Begin("rename", "save_write", [NoOp EXCEPT !.off = cur], Believed(table', wiped))
  /\ UNCHANGED <<disk, fd, cur, Counters, shredded>>

----------------------------------------------------------------------------
(* vacuum *)

\* Every chunk of every file, in table order: <<index of file, of chunk>>.
ChunkList(tbl) ==
  FlattenSeq([f \in 1..Len(tbl) |-> [c \in 1..Len(tbl[f].offs) |-> <<f, c>>]])

\* create_new on vault_path.tmp: refused by Landlock outside the staging
\* directory, and by a temporary file an earlier vacuum left behind.
VacuumBegin ==
  /\ fd # "none"
  /\ VaultUnderStaging /\ tmp = NoFile
  /\ tmp' = [NoFile EXCEPT !.is = "file"]
  /\ wiped' = wiped
  /\ Begin("vacuum", "vac_copy", [NoOp EXCEPT !.i = 1, !.off = 1], Believed(table, wiped))
  /\ UNCHANGED <<vault, orphan, prev, ram, Counters, shredded>>

VacuumRefused ==
  /\ pc = "idle" /\ fd # "none"
  /\ ~VaultUnderStaging \/ tmp # NoFile
  /\ last' = [cmd |-> "vacuum", ok |-> FALSE]
  /\ UNCHANGED <<disk, ram, pc, op, Counters, ok, settled, wiped, shredded>>

\* Copy one blob to the temporary file and move its entry in RAM at once.
VacuumCopy ==
  /\ pc = "vac_copy" /\ op.i <= Len(ChunkList(table))
  /\ LET f == ChunkList(table)[op.i][1]
         c == ChunkList(table)[op.i][2]
         from == table[f].offs[c]
     IN /\ from <= Len(FdFile.cells)
        /\ tmp' = [tmp EXCEPT !.vol.cells = WriteAt(@, op.off, <<FdFile.cells[from]>>)]
        /\ table' = [table EXCEPT ![f].offs[c] = op.off]
  /\ op' = [op EXCEPT !.i = @ + 1, !.off = @ + 1]
  /\ UNCHANGED <<vault, orphan, prev, fd, cur, pc, Counters, hist>>

\* All blobs copied: save the moved table behind them.
VacuumCopied ==
  /\ pc = "vac_copy" /\ op.i > Len(ChunkList(table))
  /\ Step("save_write")
  /\ UNCHANGED <<disk, ram, Counters>>

\* rename over the vault.  The session's descriptor keeps the unlinked file.
VacuumRename ==
  /\ pc = "vac_rename"
  /\ vault' = tmp
  /\ tmp' = NoFile
  /\ prev' = vault
  /\ IF fd = "vault" THEN fd' = "orphan" /\ orphan' = vault.vol
                     ELSE UNCHANGED <<fd, orphan>>
  /\ Step("vac_reopen")
  /\ UNCHANGED <<table, cur, Counters>>

\* The shell opens the new file and takes over its payload offset.
VacuumReopen ==
  /\ pc = "vac_reopen"
  /\ fd' = "vault"
  /\ orphan' = NoFile.vol
  /\ cur' = op.off
  /\ Succeed
  /\ UNCHANGED <<vault, tmp, prev, table, Counters, wiped, shredded>>

----------------------------------------------------------------------------
(* I/O errors and power loss *)

\* What a write_all that fails half way leaves behind.
ShortWrites(cells, p, blob) ==
  {WriteAt(cells, p, SubSeq(blob, 1, j) \o t) :
     j \in 0..(Len(blob) - 1), t \in {<<>>, <<Torn>>}}

\* The position and the blob of the pending write to the session's file.
PendingWrite ==
  CASE pc = "imp_write" -> <<cur, <<Chunk(op.entry.ver, Len(op.entry.offs) + 1)>>>>
    [] pc = "rm_wipe" /\ op.i <= Len(op.entry.offs) -> <<op.entry.offs[op.i], <<Zero>>>>
    [] pc = "save_write" -> <<op.off, MetaBlob(table)>>
    [] OTHER -> <<1, <<>>>>

\* read_exact past the end of the file fails whatever the disk does.
PastEnd ==
  /\ pc = "vac_copy" /\ op.i <= Len(ChunkList(table))
  /\ LET at == ChunkList(table)[op.i] IN table[at[1]].offs[at[2]] > Len(FdFile.cells)

\* The pending system call fails and `?` ends the command.  Nothing is undone:
\* RAM keeps what was changed, a vacuum leaves its temporary file.
IoError ==
  /\ IF PastEnd THEN TRUE ELSE <<op.cmd, pc>> \in FaultPoints /\ faults < MaxFaults
  /\ faults' = IF PastEnd THEN faults ELSE faults + 1
  /\ IF op.cmd = "vacuum"
       THEN /\ tmp' = IF IsFile(tmp) THEN Stale ELSE tmp
            /\ UNCHANGED <<vault, orphan>>
       ELSE /\ \E c \in {FdFile.cells} \cup
                      ShortWrites(FdFile.cells, PendingWrite[1], PendingWrite[2]) :
                 SetFd([FdFile EXCEPT !.cells = c])
            /\ UNCHANGED tmp
  /\ fd' = IF op.cmd = "create" THEN "none" ELSE fd
  /\ Abort
  /\ UNCHANGED <<prev, table, cur, nver, staged, crashes, wiped, shredded>>

\* The machine stops: RAM is gone, the platter keeps an image of each file.
Crash ==
  /\ crashes < MaxCrashes /\ vault # NoFile
  /\ crashes' = crashes + 1
  /\ \E undone \in {FALSE} \cup {prev # NoFile} :
       LET f == IF undone THEN prev ELSE vault IN
       /\ \E image \in CrashImages(f) :
            vault' \in {Settle(image)} \cup (IF f.dur = NoFile.dur THEN {NoFile} ELSE {})
       /\ tmp' = IF tmp = NoFile /\ ~undone THEN NoFile ELSE Stale
  /\ prev' = NoFile
  /\ orphan' = NoFile.vol
  /\ fd' = "none" /\ table' = <<>> /\ cur' = 0
  /\ pc' = "idle" /\ op' = NoOp
  /\ last' = NoResult
  /\ UNCHANGED <<nver, staged, faults, ok, settled, wiped, shredded>>

----------------------------------------------------------------------------
Init ==
  /\ vault = NoFile /\ tmp = NoFile /\ prev = NoFile /\ orphan = NoFile.vol
  /\ fd = "none" /\ table = <<>> /\ cur = 0
  /\ pc = "idle" /\ op = NoOp
  /\ nver = 0 /\ staged = {} /\ faults = 0 /\ crashes = 0
  /\ ok = {} /\ settled = TRUE /\ wiped = {} /\ shredded = {}
  /\ last = NoResult

Next ==
  \/ CreateVault \/ Enter \/ Exit \/ LeaveExplorer
  \/ SaveWrite \/ SaveTruncate \/ SaveSyncData \/ SavePointer \/ SaveSyncAll
  \/ \E nm \in Names, n \in ChunkCounts : ImportBegin(nm, n)
  \/ ImportChunk \/ ImportPush \/ ImportShred
  \/ \E nm \in Names : RmBegin(nm)
  \/ RmWipe \/ RmForget \/ RmTruncate
  \/ \E old, new \in Names : RenameBegin(old, new)
  \/ VacuumBegin \/ VacuumRefused \/ VacuumCopy \/ VacuumCopied
  \/ VacuumRename \/ VacuumReopen
  \/ IoError \/ Crash

Spec == Init /\ [][Next]_vars

----------------------------------------------------------------------------
(* Properties *)

Cells == [kind : {"chunk"}, ver : Nat, idx : Nat] \cup {Zero, Torn}
IsImage(f) ==
  /\ f.ptr \in Nat
  /\ \A i \in DOMAIN f.cells : f.cells[i].kind = "meta" \/ f.cells[i] \in Cells
IsTable(t) ==
  \A i \in DOMAIN t : t[i].name \in Names /\ t[i].ver \in 1..nver /\ t[i].offs \in Seq(Nat)

\* Every variable keeps its type, and names are unique in the file table: import
\* and rename both look a name up before they use it.
TypeOK ==
  /\ \A f \in {vault, tmp, prev} :
       f.is \in {"none", "stale", "file"} /\ IsImage(f.vol) /\ IsImage(f.dur)
  /\ IsImage(orphan)
  /\ fd \in {"none", "vault", "orphan"} /\ (fd = "vault" => IsFile(vault))
  /\ IsTable(table) /\ Cardinality(Listed(table)) = Len(table)
  /\ cur \in Nat
  /\ staged \subseteq 1..nver /\ wiped \subseteq 1..nver /\ shredded \subseteq wiped

\* No write of any command lands on a chunk of a file that is still listed: each
\* file in the session's table, other than one being removed, decrypts from the
\* session's descriptor.  While vacuum moves entries they name the new file.
LiveChunksIntact ==
  fd # "none" /\ op.cmd # "vacuum" =>
    \A e \in Range(table) : e.ver \notin wiped => Readable(e, FdFile.cells)

\* Whenever the vault opens, after a kill (vol) or a power loss (dur), it holds
\* the files of before or of after the interrupted command, each one readable:
\* save_vault_metadata syncs the block and the chunks before it moves the
\* pointer, and vacuum syncs the new file before it renames it.
OpensToBeforeOrAfter ==
  IsFile(vault) =>
    \A f \in {vault.vol, vault.dur} :
      Loadable(f) =>
        /\ Believed(LoadedTable(f), wiped) \in ok
        /\ \A e \in Range(LoadedTable(f)) : e.ver \notin wiped => Readable(e, f.cells)

\* Once a command has reported success, and all through a vacuum, the vault
\* opens, even if power is lost: only import, rm and rename rewrite metadata in
\* place and have a window in which the pointer names a broken block.
OpensWhenSettled ==
  settled /\ IsFile(vault) =>
    /\ Loadable(vault.vol) /\ Loadable(vault.dur)
    /\ prev # NoFile => Loadable(prev.dur)

\* rm reports success only when no blob of the removed file is left in the vault.
RemovedIsShredded ==
  \A f \in {vault.vol, vault.dur} : \A i \in DOMAIN f.cells :
    f.cells[i].kind = "chunk" => f.cells[i].ver \notin shredded

\* An imported file is always somewhere: its staged plaintext is destroyed only
\* after the vault holds it durably.
SourceOutlivesCommit ==
  settled => \A v \in 1..nver :
    \/ v \in staged \cup wiped
    \/ \E c \in Contents(LoadedTable(vault.dur), vault.dur.cells) : c[2] = v

\* The cells before the metadata are live chunks, each once, and nothing else.
Compact(f) ==
  LET live == UNION {Range(e.offs) : e \in Range(LoadedTable(f))}
  IN live = 1..(f.ptr - 1)

\* A vacuum that succeeds leaves no dead region in the vault.
VacuumReclaims ==
  last = [cmd |-> "vacuum", ok |-> TRUE] /\ pc = "idle" /\ fd = "vault" => Compact(vault.vol)

\* README.md, Scenario 6: after `vacuum`, "Dead storage regions are eliminated".
VacuumEliminatesDeadRegions ==
  last.cmd = "vacuum" /\ pc = "idle" /\ fd = "vault" => Compact(vault.vol)

\* vacuum.rs: the container is "atomically defragmented", so after a vacuum that
\* failed the session still reads every file it lists, as before the command.
VacuumIsAtomic ==
  last = [cmd |-> "vacuum", ok |-> FALSE] /\ pc = "idle" /\ fd # "none" =>
    \A e \in Range(table) : e.ver \notin wiped => Readable(e, FdFile.cells)

\* explorer.rs: metadata is saved "so the rename survives lock/re-open".
RenameSurvivesReopen ==
  last = [cmd |-> "rename", ok |-> TRUE] => Loadable(vault.vol)
=============================================================================
