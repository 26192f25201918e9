# atom-vault: TLA+ verification project

TLA+ models of the stateful parts of atom-vault, TLC instances that check them
and TLAPS proofs of the results that matter most. Paths are relative to `src/`.

## The system

atom-vault keeps files in one encrypted container (`.aegis`) and exchanges
containers between peers, over Tor with a list of friends or over QUIC with a
book of paired people.

| Part | Source | Module |
|---|---|---|
| Vault container: header with a master pointer, chunks, metadata block at the tail; create, enter, import, rm, rename, vacuum, exit | `atom/src/storage.rs`, `atom/src/commands/{create,enter,import,rm,vacuum,shell}.rs`, rename dialog of `atom/src/gui/explorer.rs` | `VaultFile` |
| The window around an open vault: screens, dialogs, broker answers, registry, sandbox | `gui/{mod,home,login,explorer,broker}.rs`, `commands/vault_registry.rs`, `sandbox.rs` | `Desktop` |
| External viewers: staging of plaintext, pinning, wiping, signal handler | `commands/view.rs`, `gui/broker.rs` | `Viewer` |
| Friend book, daemon, copy of a vault to a friend | `commands/{friend,daemon,sync,p2p_utils}.rs`, `gui/p2p.rs`, `p2p-sync/src/handshake.rs` | `FriendSync` |
| Synchronisation of chunks over Yamux streams | `p2p-sync/src/{sync,transport}.rs` | `ChunkSync` |
| Resumable transfer of a container over a live session | `p2p-live/src/transfer.rs` | `Transfer`, `Delivery`, `TransferProofs` |
| Meeting of two paired peers, session, close | `p2p-live/src/{reach,rendezvous,session,pq_auth,pinned,framing}.rs` | `Rendezvous` |
| Published address records | `p2p-live/src/discovery/{mod,record,secret,blind}.rs`, `reach.rs` | `Discovery`, `DiscoveryProofs` |
| Live address book and identity, STUN, `atom live` commands | `commands/live.rs`, `p2p-live/src/stun.rs` | `LiveBook` |
| Pairing by a spoken code | `p2p-live/src/pairing.rs`, `gui/live.rs`, `commands/live.rs` | `Pairing` |
| Tickets, identity bundles, server links: their bytes | `p2p-live/src/{ticket,bundle,tor}.rs`, `p2p-live/src/discovery/link.rs` | `Wire` |
| Pacing plan, cryptography, TLS, chunker, CLI parsing | `pacing.rs`, `crypto/`, `tls.rs`, `chunker.rs`, `cli.rs`, ... | inputs of the modules above, assumed perfect, or out of scope |

How the parts meet: `Pairing` produces the tickets (`Wire`) and secrets that
`LiveBook` stores; `LiveBook` runs transfers over sessions that `Rendezvous`
opens at addresses `Discovery` finds; `Transfer` runs inside such a session. Each
of these modules takes from the next what its own properties show: `Transfer`
takes sessions that are in order until they break, `LiveBook` takes a lookup that
returns superseding records only, `Desktop` takes commands of `VaultFile` as one
step each and the opens of `Viewer` as jobs.

`PROJECT.json` lists every component, the hazards of the code at their lines,
the runs, and for each definition the lines it translates. It lists one run per
module, which checks what is hardest to get right in it, and one violation. The
simpler properties each module states were checked on the same instances (add them
to the configuration to repeat it). The further configurations are in a table below
and are run in the same way (`tlc -config <file> <module>`).

## VaultFile

The file is a pointer and a sequence of cells; position 1 is byte
`VAULT_HEADER_SIZE`. Every chunk is padded to `MAX_CHUNK_SIZE`, so each takes one
cell; a metadata block takes one cell plus one per file, and one more for a long
name, so that blocks grow and shrink. A cell of a block carries the table it
belongs to: the AEAD tag then is "all cells from the pointer to the end of the
file (10 MiB at most) are exactly one block" (`Loadable`), and a chunk decrypts
when the cell at its offset is the one written for it (`Readable`).

One action is one system call, and `pc` names the next one of the running
command, so the environment can strike between any two:

- `Crash`: a power loss. Files have a page-cache image `vol` and a platter image
  `dur`; only `fsync` equates them. What remains is any mixture of the cells, the
  lengths and the pointers of the two (`CrashImages`). A rename not yet
  journalled may be undone (`prev`), which leaves `<vault>.tmp` behind too.
- `IoError`: the pending call fails, a write possibly half way. `?` ends the
  command and nothing is undone: RAM keeps what was changed.

| Code | Actions |
|---|---|
| `handle_create` | `CreateVault`, then the save |
| `handle_enter`, `try_unlock` | `Enter` (guard `Loadable`) |
| `exit` / Home button | `Exit` (with `sync_all`) / `LeaveExplorer` |
| `save_vault_metadata` | `SaveWrite`, `SaveTruncate`, `SaveSyncData`, `SavePointer`, `SaveSyncAll` |
| `handle_import`, `handle_import_from_bytes` | `ImportBegin`, `ImportChunk`*, `ImportPush`, save, `ImportShred` |
| `handle_rm` | `RmBegin`, `RmWipe`*, `RmForget`, `RmTruncate`, save |
| rename dialog | `RenameBegin`, save |
| `handle_vacuum` and the shell's reopen | `VacuumBegin` or `VacuumRefused`, `VacuumCopy`*, `VacuumCopied`, save on the temporary file, `VacuumRename`, `VacuumReopen` |

History variables, read by no guard: `ok` (the contents a reopened vault may
have: those of before and after the running command), `settled` (no in-place
update has been cut short since the last success), `wiped`, `shredded`, `last`.

Run `vault_any` (`VaultAny.cfg`, module `MCVaultFile`; deadlock is not checked,
because a vault that a crash left unopenable is a legitimate end of the system):
2 names, files of 0 or 2 chunks, 2 imports, one I/O error in import, rm or rename
and one power loss. It shows `LiveChunksIntact`, `OpensToBeforeOrAfter`,
`OpensWhenSettled`, `RemovedIsShredded` and `SourceOutlivesCommit`, for a failed
command followed by others as well. `VaultCrash.cfg` has files of 1 chunk too,
without I/O errors, and checks `TypeOK` (with unique names) and `VacuumReclaims` as
well; both also hold on the instance of `vault_any`.

Two imports suffice for every relation between two files (a file before and
after another in the container, a removal that leaves a hole, a vacuum that
moves a chunk); two chunks distinguish the first, which overwrites the old
metadata block, from a later one. One power loss ends a session; another one
starts from a state that is again reachable without the first, as a crash leaves
only a settled image.

What the runs say about the design: the in-place commands (import, rm, rename)
have a window in which the vault does not open at all, and the code relies on
nothing interrupting it. `OpensToBeforeOrAfter` is what still holds then: if the
vault opens, it is whole. `OpensWhenSettled` bounds the window to these
commands.

## Transfer

`send` and `recv` of two peers exchange frames over a stream that is in order
until it breaks; `Connect` starts the next attempt after both ends have given up
the last. A payload is a sequence of units, and a BLAKE3 hash is the sequence
hashed (no collisions). The partial file has the two images of `VaultFile`;
`undo` is what `<dest>` was before a rename whose directory is not yet synced.

| Code | Actions |
|---|---|
| `send` | `SendOffer`, `RecvResume` (with the seam check `ResumeOffset`), `SendData`*, `SendDone`, `SendCover`*, `SendFinish`, `RecvAck` |
| `recv` | `RecvOffer` (`Recoverable`), `RecvStart`, `RecvData`*, `SyncCheckpoint`, `RecvCover`, `RecvDone` |
| `finish_payload` | `RecvDone` (checks and `sync_all`), `Rename`, `SyncParentDir` |
| `?` on either side | `SenderFails`, `ReceiverFails`, `SenderLosesLink`, `ReceiverLosesLink` |
| environment | `LinkBreaks`, `CancelSender`, `CancelReceiver`, `ReceiverIoError`, `ReceiverCrash`, `ChangeSource`; all counted by `MaxFaults` |

Run `transfer_any` (`TransferAny.cfg`, module `MCTransferLoss`, deadlock checked).
Two versions of the source of lengths 5 and 4 agree on their first checkpoint
only, so that a partial of one can be longer than the other, agree with it, or
diverge inside or at the end of a checkpoint; two frames may be in flight in each
direction; chunks of 1, checkpoints of 2, 4 faults. A crash is a power loss or
only a kill: `MCTransferLoss` adds the history variable `lost`, a power loss since
START that changed what a file holds.

- `DestIsOneVersion`, `SeamHolds`: `<dest>` is always one whole version of the
  source, and what is streamed continues exactly what the receiver kept. `TypeOK`
  and `DestVerified` hold on the same instance and are proved below.
- `AckHonest`: the sender reports success only for what is in place, until a power
  loss takes an unsynced rename back.
- `KillCostsOneCheckpoint`: a crash that leaves the partial as it was costs at most
  one checkpoint.
- `AttemptEnds`, `CleanAttemptDelivers`: every attempt ends on both sides, and an
  uninterrupted one delivers, whatever the earlier ones left.
- `DeliversAtomically`: the refinement below.

`TransferKill.cfg` has checkpoints that are no multiple of a chunk;
`TransferUnstable.cfg` rewrites the source during an attempt.

### Delivery: what recv promises

`Delivery` is a register: `value` holds nothing or a whole payload, changes to a
payload that was vouched for in one step (`Deliver`), and may be set back to what
it held before as long as the change has not settled (`Undo`). `Transfer` maps to
it with `value` the file under the destination's name, `vouched` the payloads DONE
frames vouched for, and `before` the file a power loss would put back
(`Register == INSTANCE Delivery WITH ...`). `DeliversAtomically` is the register's
specification: partial files, checkpoints, resumes and broken attempts are
invisible to whoever opens `<dest>`. TLC checks it in `transfer_any`, and
`ReceiverImplementsRegister` proves it for all constants.

Fairness: the specification has weak fairness of each peer's next step. Each runs in a
task of its runtime that is polled while it can make progress, and an end whose
connection is gone gets an error from its next call on the session (QUIC's idle
timeout turns a silent peer into one). Nothing is assumed about when a link
breaks or whether a further attempt is made.

Assumed about the disk: a failed write ends the attempt. `tokio::fs::File` keeps
the error of a write for the next one and `sync_all` does not return it
(`transfer.rs:517`, `614`), so a write of the last DATA frame that fails is taken to
surface before the rename. `ReceiverIoError` has every other failure of a write, and
the proofs below rest on this assumption too.

The payload is protected twice, by the seam check at the resume and by the hash
at the end: a model without either one of them still satisfies `DestVerified`.

## FriendSync

`friends.json` is a function from nicknames to records, or `Corrupt` (it does not
decrypt). Three kinds of code read it, change their copy and write it back, with
no lock between them: `add_friend_core` (in the CLI or the GUI), the daemon's
tasks, and `update_friend_last_seen` after a sync started here. `hold` is the
copy each has; `save_friends` is two steps, because it truncates and then writes
at its own cursor, so two open writers can leave a mixture (`Overwrite`). An
empty file has no magic header, passes `decrypt_config` and reads as no friends.

| Code | Actions |
|---|---|
| `add_friend_core` | `AddFriend`, `AddSaves` |
| accept loop, `execute_handshake` | `Accept`, `Handshake` |
| daemon task | `ReadProposal`, `TakeAnswer`, `TaskSaves`, `Reply`, `CreateDest`, `CopyUnit`* |
| event queue and dialog | `PollDaemonEvents`, `UserAnswers` |
| `sync_core` | `OutStart` (ours), `Propose`, `ReadReply`, `Pump`*, `Close` |
| `start_sync`, `update_friend_last_seen` | `OutEnds`, `OutSaves` |
| start and `onion.txt` | `StartGui`, `Online` |
| environment | `Break`, `RemoteAnswers`, `KillGui`, `KillAdder`; `FatalLoad` is the exit in `load_friends` |

Run `friend_any` (`FriendAny.cfg`, module `MCFriendSync`; the system may stop, so
deadlock is not checked): two friends, of whom one is in the book, propose at
once and are given the same destination or two; one friend is added at the command
line, one sync is started here, and one fault happens. `MaxEvents = 2` bounds the
additions, our own syncs and the faults of one behaviour together, so every pair of them meets the two proposals. It shows
`ConsentFirst`, `SafeWithoutOverlap`, `CleanCopyDelivers` and `ProposalEnds`.
`FriendBook.cfg` (2 additions, one proposal, no common budget) checks `TypeOK` and
`KeyUnderOneNick` too; both also hold on the instance of `friend_any`.

`sync_core` returns three seconds after its last write, and the link goes with it
whether it has drained or not. `Close` is that end: it may cut off whatever has not
been read yet, at no cost in faults, and the history variable `cut` records it. So
`CleanCopyDelivers` says what the code guarantees: an undisturbed copy is the whole
vault, and one whose link was closed on it a proper prefix, while the other friend's
copy goes to another path. Two copies to one path are not claimed: the code has no
lock on a destination.

Two requests suffice for one to replace another in the dialog; old destinations
are longer than the vault, so a missing truncation shows. In `friend_any` the first
friend's destination is fixed (`Picks`; the two paths are interchangeable) and
`onion.txt` is there (`InitOnions`); `FriendBook.cfg` (one path) also
starts without `onion.txt` and without an old destination.

`SafeWithoutOverlap` says under which condition the book is safe: the history variable `overlap`
records that a list was read while another reader still held one. `CleanCopyDelivers`
needs it too: a book that two writers left undecryptable ends the daemon.

Fairness: the GUI polls its queue every frame, tokio runs tasks that can go on,
and the user answers the dialog they see. The last is an assumption about people:
without it a task waits for ever, as the code has no timeout there. Nothing is
assumed about the accept loop, the link or further proposals.

## ChunkSync

`SyncManager` of the two peers: tables are exchanged, each side requests the
chunks it lacks over one stream each, appends them to its vault file under the
write lock and merges them into its table. The dialling and the listening side
contain the same fetch code twice; a fetcher is `<<exchange, side>>`. A chunk is
its nonce and one cell of the file. `SyncManager` is a library type: no command
of the application constructs it yet (`sync_core` copies whole files).

| Code | Actions |
|---|---|
| `synchronize` | `SendTable`, `ReadReply` or `ReplyTimeout`, `Complete` |
| listener tasks | `ListenTable`, `ServeChunk` |
| fetch task | `StartFetch`, `GiveUp` or `TakeLock`, `AppendChunk`, `MergeChunk` |
| `start_multiplexer` | `HasRoom`: a stream that finds the channel full is dropped |

Run `chunk_one` (`ChunkOne.cfg`, module `MCChunkSync`; exchanges end, so deadlock is
not checked): one call, 3 chunks one way and 1 the other, 3 permits over a channel
of 2, 2 faults, fairness. It shows `EntriesAddressTheirChunk`,
`SynchronizeReturns` and `BothCatchUp`; `TypeOK`, `ChunksOnce` and
`CompleteWhenNothingLost` hold on the same instance. In `ChunkTwo.cfg` both sides
call at once.

A write of a chunk may fail in two ways (`AppendChunk`): with an error, which ends
the task, or unseen, since tokio's `File` keeps the error of a write for the next one
and `sync_all` does not return it (`sync.rs:174`, `426`). Then the entry is merged
over a chunk that is short or missing. The history variable `unseen` records the
nonces this happened to; `EntriesAddressTheirChunk` is claimed for all other entries,
those appended after such a write included.

Permits and channel keep the relation of the code (50 requests, 32 slots): more
requests than slots in `ChunkOne.cfg` and `ChunkOverload.cfg`. `ChunksOnce` is claimed
for one exchange only: two at once compare tables before either has merged and do
fetch a chunk twice. A timeout with an answer still possible counts as a fault,
one without does not. Fairness is that of tokio's scheduler, and that a timer
expires.

## Rendezvous

Two peers that have pinned each other's identity meet: the rungs of
`reach::connect` (cached addresses, then a lookup), role election by key order,
the dial and accept loops of `rendezvous_on`, the hello round trip, the
post-quantum proof and the two-way drain of `QuicSession::close`. A connection is
a record with the state of its two ends and a stream of frames in each direction.
Timers have no length: an attempt times out and a budget runs out at any moment
the code could notice, so every race of a timeout with a late packet is there.

| Code | Actions |
|---|---|
| `connect` | `Connect`, `EnterRung`, `Lookup`, `LookupFails`, `RungFails`, `Expire` |
| `dial_loop`, `attempt_connect` | `Attempt`, `Connected`, `AttemptTimesOut`, `DialExpires` |
| `accept_loop`, `punch` | `AcceptIncoming`, `Incoming`, `AcceptExpires`, `Punch` |
| `client_session`, `server_session` | `ClientHello`, `ServerHello`, `SetupLost` |
| `authenticate` | `SendProof`, `ReadProof`, `ProofRefused`, `SetupLost` |
| `QuicSession` | `AppSend`, `AppRecv`, `AppLost`, `Finish`, `Discard`, `Drained`, `HardClose` |
| environment | `Deliver` (a packet passes the NAT), `Crash` |

Run `rendezvous_meet`: 2 connection attempts, 1 message each way, 1 kill, in nine
scenarios of who holds and who has pinned which identity (current, stale so that both
accept or both dial, hybrid or classical, one side running with only the classical
half, a hybrid identity of which only the classical half is pinned). It
shows `MutualPins`, `ProofsConsumed`, `NoFinalMessageLost`, `RendezvousEnds` and
`CloseEnds`; `TypeOK` and `ProvenWhenPinned` (a hybrid pin is never satisfied by the
classical half alone) hold on the same instance. `ProofsConsumed` names the one case
in which a proof does reach the application as a message: the reader's pin is the
classical half of an identity that writes proofs by now (`pq_auth.rs:158`), so it
requires none and reads none. Two attempts are what a retry
needs: one that is abandoned and one that meets what it left. Fairness: each process takes steps it
can take and its clock runs; packets may be lost for ever, the user need not
start, and the application need not close. Deadlock is not checked, since two
peers that have failed are done.

## Discovery

Slots of a rendezvous secret (`epoch_at`, `Direction`, `publish_slots`,
`lookup_slots`), sealed records with a sequence number and an expiry, and
`Discovery::publish` and `resolve` request by request. Every peer has a clock of
its own, off by at most `MaxSkew` and set while the program runs (`Adjust`). A
failed PUT may have been applied. An endpoint in `Replaying` serves anything it
ever received.

Run `discovery_find`: 2 endpoints of which one replays, epochs of 2 ticks, time from
2 to 9 (three epoch boundaries, and longer than the 4 ticks a record lives), skew 1,
two announcements, one lookup, one mishap. A request takes less than a tick
(`REQUEST_TIMEOUT` is 15 seconds, an epoch an hour), so an announcement or lookup sees the clock
move at most once. It shows

- `NothingMissed`: a lookup fails only if no honest endpoint that answered held an
  acknowledged, unexpired record, unless the publisher's clock was set back;
- `NeverOurOwn`, `AdoptsFresh`: also proved, see Proofs.

## LiveBook

`live_peers.json` and `live_identity.key` under the commands of `atom live`, in two
processes with no lock between them. A command is a job whose file accesses and
network steps are actions; a save truncates and then writes (`OpenBook`,
`WriteBook`), and a kill in between leaves `Torn`. A transfer reads the book when
it starts and `remember`s into the book as it is when it ends.

Run `live_book`: 3 commands, 1 kill, 2 pairings, 1 move (of our address or an
announcement of a peer's), two people, one nickname, so that a nickname can be
contested. It shows `PairingsKept`, `FloorMatchesAddress` and `StunOwnAnswer`;
`TypeOK`, `EndpointsBuild`, `SecretFollowsTicket` and `LearnedByTransfer` hold on the
same instance. Three commands are two that overlap and one that sees the result. The instance with two moves
passes too, in four and a half minutes. The processes are symmetric, and no
property is temporal, so the symmetry is sound. The ghost `overlap` says that two
load-to-save windows overlapped; `PairingsKept` and `LearnedByTransfer` are claimed
without that.

## Pairing

A code is read aloud, and two rounds of text go through a chat. A session is one
terminal or window of one person, meant for one other. Every text ever sent can be
pasted anywhere, whole or damaged, any number of times. Round 1 can also fail after
a good paste, as when no address is set for the ticket (`my_ticket`). SPAKE2 gives two sides the
same key exactly when they used one code and each other's messages.

Run `pairing_mixed`: Ann pairs with Bob in one window and with Cat in a terminal
while Bob pairs with Ann in a window (three sessions; Cat only hears a code), 2
codes, 3 starts, 1 mistake. It shows `RightPerson` and `SecretDerivedByBoth`; `TypeOK`
holds on the same instance. Two codes and three starts are the least with which a
text of another conversation and of an earlier attempt of the same one both exist.

## Viewer

The two ways to open a file: in the shell through a memfd handed to a sandboxed
child, in the window through a file of the staging directory, named after the
vault file, that the default application opens. Threads of the opens, the watchers
and the SIGINT handler share the teardown registry; a slot's mutex is held during
the wipe. Contents are abstracted to whose plaintext an inode holds.

| Code | Actions |
|---|---|
| `open_in_viewer` | `OpenViewer`, `resolve_viewer_command`, `StageTmpfs`, `WriteTmpfs`, `Pin`, `SpawnDirect`, `Register` |
| `execute` | `OpenViewer`, `prepare_decrypted_memfd`, `Pin`, `spawn_in_bwrap_sandbox`, `Register`, `SandboxClosed` |
| watcher of the window | `ChildWaited`, `Settle`, `Released` |
| the wipe | `Claim`, `Wipe`, `shred_tmpfs_job`, `complete_shred` |
| the signal handler | `Signal`, `HandlerVisits`, `HandlerExits` |
| environment | `ViewerOpens`, `ViewerExits`, `InstanceCloses`, `Quit` |

Run `viewer_wipe`: two opens of one file name, both modes, both spellings of the
staging path, a disk-backed swap, a failure at every stage. It shows `NothingLeftBehind`,
`SignalWipesRegistered`, and under weak fairness of the threads
and of the handler `SignalEnds` and `ShellShreds`. `TypeOK` and `NeverSwappable` hold on
this instance with `Swaps = {TRUE, FALSE}`: without a swap a failed pin is tolerated,
which only `NeverSwappable` can see. `NothingLeftBehind` exempts an open whose tmpfs
write failed (`broker.rs:311`), which leaves what it wrote. The code goes on when an
overwrite or a removal fails; the history variable `refused` records for which open
that was, and the two safety properties exempt that one only. Two opens of one name share path
and inode, which is the hardest case; opens of different names share nothing but
the registry. Nothing is assumed about the viewer.

## Desktop

Screens, the Landlock domain (made once, for the first vault that is tried), the
registry, up to four dialogs, the pending cells every frame polls, the broker's
answers, the rename window and two cells that follow a viewer. Nothing stops the
user from opening a second dialog, locking the vault or entering another before the
first has answered. An import remembers (an observation) the session it was opened
in until that session ends.

Run `desktop_any`: a vault in `~/.atom_vault` and one elsewhere, two host files, 4
clicks that start a dialog, a viewer or an unlock (other clicks are free). It shows
`BytesUnderTheirName` and `SessionKeepsItsFiles`; `TypeOK`, `UnlockedOnlyInView`,
`NamesUnique` and `OneViewerFollowed` hold on the same instance. Four clicks are a
vault dialog, an unlock and two more.

## Wire

The ticket, the server link, the public bundle in a ticket and the secret bytes of
an identity file: `to_bytes`, and the cursor that takes one field after another
from a buffer it does not trust. The buffer is decided as it is read: the encoding
of a document, or any bytes at all. Bytes are digits of base 4, so that lengths,
counts and tags wrap at 4 as they wrap at 256 in the code; keys and addresses are
1 or 2 digits long.

Run `wire_read`: every buffer of up to 18 (ticket), 14 (link) or 9 (secret) digits
(inside a key, an address or a pin the digits 0 and 1 only: the decoders do not look
at them) and every small document, with up to five hints (four no longer fit the
count), a link-local one among them, three pins and hosts and prefixes with slashes. It shows `ReadBack` (what was written is
read back as it was, or refused; the scope of an IPv6 hint is not written and comes back as 0,
`ticket.rs:360`) and `OneSpelling` (two accepted spellings of one
document differ in the case of a label only); `TypeOK` holds too. A decoder stops,
so deadlock is not checked.

## Proofs

`TransferProofs` proves for payloads, chunk lengths, checkpoints and numbers of
attempts and faults of any size:

- `TypeCorrect`: `Spec => []TypeOK`
- `DestNeverUnverified`: `Spec => []DestVerified`
- `DestNeverMixed`: `Spec => []DestIsOneVersion`
- `ReceiverImplementsRegister`: `Spec => DeliversAtomically`

The only assumption is `TransferAssumption` (the constants' types, positive
lengths), beside what the model takes for granted of the disk (see Transfer). None of the first three is inductive. `ReceiverInv` adds that until the
rename the partial is exactly what has been hashed (so that truncations and
writes stay within the file, which the types need), that what is about to be
renamed was vouched for by a DONE frame and is on the platter, that every DONE
frame in flight carries a hash that was vouched for, and that the file a crash
may put back in `<dest>`'s place is sound as well. `SenderInv` adds that a stable
source is read as a prefix of itself, so a DONE frame vouches for a whole
version. Both were checked by TLC on the instances above before they were proved.
The rest is one case per action; the facts about sequences (a write at the end
appends, adjacent parts concatenate, a synced file survives a power loss
unchanged) are lemmas. The refinement takes these invariants and `PartExists` (from
the moment the partial is created to its rename it is there, so the rename really
delivers it). The initial states map to the register's, `SendDone` to `Vouch`,
`Rename` to `Deliver`, `SyncParentDir` to `Settle`, a crash to `Undo`, `Settle` or a stutter, and everything else to a stutter.

`DiscoveryProofs` proves, for epochs, skews, endpoints and bounds of any size:

- `SlotsMeet`: the slots published at `t` and looked up at `u` share one whenever
  `t - Epoch <= u < t + 2 * Epoch`. It is the arithmetic behind `NothingMissed`.
- `OtherPeerOnly`: `Spec => []NeverOurOwn`
- `OnlyFreshAdopted`: `Spec => AdoptsFresh`

The assumption is `DiscoveryConstants`. `IInv` says that a sealed record lies in a
slot of its maker's direction and that its sequence number is at most `MaxSkew`
ahead of the time it was made, wherever it is (in an endpoint's history, in an
announcement, as the best of a lookup); that a lookup reads only slots of the other
peer's direction, started at most a tick ago, and that its best record had not
expired at its start. Freshness then adds up: the reader's clock was at most
`MaxSkew` behind, the publisher's at most `MaxSkew` ahead.

Only model-checked: the liveness properties; `KillCostsOneCheckpoint`; `SeamHolds`
and `AckHonest`, whose induction runs over the frames in flight; `NothingMissed`,
which needs the order of the records in an endpoint's history; `Wire`, whose
documents are read by recursion over bytes; and everything about the other modules.

## Findings

The one `PROJECT.json` lists:

- `viewer_close`: after the viewer exits, the window's watcher waits until no process
  has the staged file open, its own included, and it holds a write handle until the
  wipe. So the wipe never comes, and a later normal exit leaves the plaintext in the
  staging directory. `broker.rs:238` says it will "shred the file when it exits".
  The counterexample is under the fairness of `viewer_wipe`.

The further configurations. Where one file lists several properties that are
violated, TLC stops at the first; keep the line of the one of interest.

| Configuration | Module | Result |
|---|---|---|
| `VaultCrash.cfg` | `MCVaultFile` | `TypeOK`, `VacuumReclaims` and the properties of `vault_any` hold (files of 1 chunk too, no I/O errors) |
| `VaultVacuumFault.cfg` | `MCVaultFile` | violation of `VacuumIsAtomic`: a vacuum that fails after its first chunk leaves the session with offsets of the new file over the old one; `vacuum.rs:77` calls it atomic |
| `VaultLandlock.cfg` | `MCVaultFile` | violation of `VacuumEliminatesDeadRegions`: `enter` grants the vault file and the staging directory only, so vacuum cannot create `<vault>.tmp` beside a vault kept elsewhere; `README.md:157` promises that dead regions are eliminated |
| `VaultMetaLimit.cfg` | `MCVaultFile` | violation of `RenameSurvivesReopen`: the loader reads 10 MiB of metadata, the saver has no bound |
| `TransferKill.cfg` | `MCTransfer` | `AckMeansDelivered`, `CrashCostsOneCheckpoint`, `AttemptEnds`, `CleanAttemptDelivers` hold when crashes only kill |
| `TransferUnstable.cfg` | `MCTransfer` | `DestVerified` (also proved) and `SeamHolds` hold when the source is rewritten during an attempt |
| `TransferCrashCost.cfg` | `MCTransfer` | violation of `CrashCostsOneCheckpoint`: after a power loss that leaves an unsynced checkpoint zero-filled the whole payload is sent again; `transfer.rs:97` promises one checkpoint |
| `TransferRewind.cfg` | `MCTransfer` | violation of `RewindsToDivergence`: a mismatch restarts at zero, it does not "rewind to wherever the two sides actually diverge" (`transfer.rs:605`) |
| `FriendBook.cfg` | `MCFriendSync` | `TypeOK`, `KeyUnderOneNick`, `SafeWithoutOverlap` hold with two additions and no common budget |
| `FriendClaims.cfg` | `MCFriendSync` | violation of `FriendStaysAdded`: the daemon writes back the list it read before it asked the user (`daemon.rs:280`, `309`); a friend "securely added" meanwhile is gone |
| `FriendClaims.cfg` | `MCFriendSync` | violation of `LastSeenMeansSynced`: `sync_core` returns `Ok` when the friend refuses, and `last_seen`, the time "of the last successful outbound sync" (`p2p_utils.rs:92`), is set |
| `FriendClaims.cfg` | `MCFriendSync` | violation of `OwnIdentityRefused`: `onion.txt` is written encrypted and read as text, so the check at `friend.rs:12` never applies |
| `ChunkTwo.cfg` | `MCChunkSync` | `EntriesAddressTheirChunk` holds |
| `ChunkOverload.cfg` | `MCChunkSync` | violation of `CompleteMeansAllHere`: requests beyond the peer's channel are dropped, and the dialler reports "Synchronization complete!" (`sync.rs:466`) |
| `ChunkLate.cfg` | `MCChunkSync` | violation of `SynchronizedMeansAllHere`: a file takes over the peer's timestamp with its first chunk, so a lost one is not asked for again (`sync.rs:436`, `373`) |
| `ChunkOrder.cfg` | `MCChunkSync` | violation of `CompleteKeepsOrder`: chunks enter a file in the order in which their requests finish |
| `RendezvousEarly.cfg` | `MCRendezvous` | violation of `GivesUpOnlyAtDeadline`: a connection that dies after its handshake ends the rendezvous with budget left (`rendezvous.rs:227`, `278`, against `105`) |
| `LiveBookOverlap.cfg` | `MCLiveBook` | violation of `FloorKept`: a transfer begun before another one was remembered sets the replay floor back (`live.rs:457`, against `113`) |
| `LiveBookOverlap.cfg` | `MCLiveBook` | violation of `FreshTicketTried`: after a re-pairing the old remembered address is tried, not the new ticket's (`live.rs:441`, against `reach.rs:87`) |
| `LiveBookOverlap.cfg` | `MCLiveBook` | violation of `IdentityKept`: two first commands both create an identity (`live.rs:242`, against `239`) |
| `PairingAgain.cfg` | `MCPairing` | violation of `NeverStuck`: a wrong paste in round 1 consumes the SPAKE2 state and the form neither goes on nor starts again (`gui/live.rs:331`, against `204`) |
| `PairingAgain.cfg` | `MCPairing` | violation of `SecretsMatch`: a re-pairing only one side finishes leaves different secrets (`live.rs:404`, against `401`) |
| `ViewerStaging.cfg` | `MCViewer` | violation of `NoPageSurvives`: a signal between staging and registration leaves the file (`broker.rs:309`, against `view.rs:175`) |
| `ViewerStaging.cfg` | `MCViewer` | violation of `ViewIntact`: the wipe of one open zeroes what the other's viewer reads (`broker.rs:286`, against `379`) |
| `DesktopDialogs.cfg` | `MCDesktop` | violation of `ImportStaysInVault`: an import dialog answered after its vault was locked and another unlocked stores into the other |
| `DesktopDialogs.cfg` | `MCDesktop` | violation of `ExportedAsAsked`: two export dialogs share one name slot |
| `WireSpellings.cfg` | `MCWire` | violation of `Canonical`: an onion label in capitals is accepted and written back in lower case (`tor.rs:77`, against `ticket.rs:256`) |
| `WireSpellings.cfg` | `MCWire` | violation of `PermittedAlike`: a pasted link may keep slashes a constructed one loses (`link.rs:139`, against `147`) |

## Not modelled

Cryptography is perfect: a blob decrypts exactly if it is the one written, a
signature or proof verifies exactly if its key made it. Rendering, argument
parsing, Landlock and seccomp rules, certificates, HTTP, Tor's SOCKS dialogue,
Base64 and checksums of text forms are outside. The pacing ladder (`pacing.rs`)
is arithmetic on 64-bit lengths without state; `Transfer` takes the number of
cover frames it asks for as an input.

In `VaultFile` a session that fails to reopen the file after a vacuum
(`shell.rs:220`) is not explored: it ends in the same broken state as
`VaultVacuumFault.cfg`. In `FriendSync` the daemon's terminal prompt, the creation
of the identity key, and the `last_modified` of a known vault (set at
`daemon.rs:288` and never saved) are left out. In `Transfer` an attempt ends with
its writes done or cut short; a write of `tokio::fs::File` still pending in a
blocking thread when its attempt is dropped (`transfer.rs:517`) is not carried
into the next, which needs a new handshake first. In `Rendezvous` the ladder
has its two direct rungs; the third, `tor::dial`, is left out, so `connect` fails
where it would be tried. In `LiveBook` the desktop's transfer card is a process that
issues the same commands.
