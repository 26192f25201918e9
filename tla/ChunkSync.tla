------------------------------ MODULE ChunkSync ------------------------------
(***************************************************************************)
(* The chunk synchronisation of two vaults over one multiplexed connection *)
(* (p2p-sync/src/sync.rs, transport.rs): `synchronize` of the peer that    *)
(* dials, the listener tasks of both, the chunk requests each side then    *)
(* makes to the other, and the appends to the two vault files.  A chunk is *)
(* one cell of a vault file and is named by its nonce.                     *)
(***************************************************************************)
EXTENDS Integers, Sequences, FiniteSets, SequencesExt

CONSTANTS
  Peers,                 \* the two ends
  Exchanges, Dialer,     \* calls of synchronize; [Exchanges -> Peers]
  StartMetas,            \* [Peers -> file tables] they may start from
  Permits,               \* chunk requests under way at once (50)
  InboundCap,            \* inbound streams that wait for the listener (32)
  Torn,                  \* what a failed write leaves in the file
  NoTask,
  MaxFaults              \* timeouts and failed writes

ASSUME ChunkSyncAssumption ==
  /\ Cardinality(Peers) = 2 /\ Dialer \in [Exchanges -> Peers]
  /\ Permits \in Nat \ {0} /\ InboundCap \in Nat \ {0} /\ MaxFaults \in Nat

\* Who fetches: the dialling side of an exchange, and the side that listens.
Fetchers == Exchanges \X {"dial", "listen"}

VARIABLES
  disk,     \* per peer: the cells of the vault file
  meta,     \* per peer: local_metadata.file_table
  lock,     \* per peer: the holder of write_lock
  inq,      \* per peer: streams the multiplexer has handed over
  ex,       \* per exchange: the call of synchronize
  queue,    \* per fetcher: missing chunks that have no task yet
  tasks,    \* per fetcher: the spawned tasks
  lost,     \* history: some chunk or table that was asked for did not arrive
  unseen,   \* history: the chunks a write failed for without the task being told
  faults

vars == <<disk, meta, lock, inq, ex, queue, tasks, lost, unseen, faults>>

Other(p) == CHOOSE q \in Peers : q # p
At(f) == IF f[2] = "dial" THEN Dialer[f[1]] ELSE Other(Dialer[f[1]])

----------------------------------------------------------------------------
(* File tables *)

\* A FileIndex of the table by its name, as a set with at most one member.
Named(table, name) == {table[i] : i \in {j \in DOMAIN table : table[j].name = name}}
Nonces(index) == {index.chunks[i].nonce : i \in DOMAIN index.chunks}

IsNewer(remote, table) == \A f \in Named(table, remote.name) : remote.mod > f.mod

MissingOf(remote, table) ==
  LET wanted == SelectSeq(remote.chunks,
                  LAMBDA c : \A f \in Named(table, remote.name) : c.nonce \notin Nonces(f))
  IN [i \in DOMAIN wanted |->
        [nonce |-> wanted[i].nonce, name |-> remote.name, mod |-> remote.mod]]

\* missing_chunks_info
Missing(remote, table) ==
  FlattenSeq([i \in DOMAIN remote |->
    IF IsNewer(remote[i], table) THEN MissingOf(remote[i], table) ELSE <<>>])

\* The timestamp is taken over with every chunk, the first one included.
Merge(table, t) ==
  LET entry == [nonce |-> t.nonce, at |-> t.off]
  IN IF Named(table, t.name) = {}
     THEN Append(table, [name |-> t.name, mod |-> t.mod, chunks |-> <<entry>>])
     ELSE [i \in DOMAIN table |->
             IF table[i].name # t.name THEN table[i]
             ELSE [table[i] EXCEPT !.mod = t.mod, !.chunks = Append(@, entry)]]

\* Where ChunkRequest finds a nonce: the first entry that has it.
Entries(table) == FlattenSeq([i \in DOMAIN table |-> table[i].chunks])
Located(table, nonce) == SelectSeq(Entries(table), LAMBDA c : c.nonce = nonce)

----------------------------------------------------------------------------
(* The exchange of the tables *)

\* The multiplexer hands a new stream over with try_send: a full channel drops it.
HasRoom(q) == Len(inq[q]) < InboundCap

SendTable(x) ==
  LET q == Other(Dialer[x])
  IN /\ ex[x].pc = "idle"
     /\ ex' = [ex EXCEPT ![x].pc = "sent", ![x].sent = meta[Dialer[x]]]
     /\ IF HasRoom(q)
        THEN inq' = [inq EXCEPT ![q] = Append(@, [kind |-> "table", id |-> x])] /\ UNCHANGED lost
        ELSE lost' = TRUE /\ UNCHANGED inq
     /\ UNCHANGED <<disk, meta, lock, queue, tasks, unseen, faults>>

\* The listening side only answers.
ListenWithoutFetch(q, x) ==
  /\ inq[q] # <<>> /\ Head(inq[q]) = [kind |-> "table", id |-> x]
  /\ inq' = [inq EXCEPT ![q] = Tail(@)]
  /\ ex' = IF ex[x].pc = "sent"
           THEN [ex EXCEPT ![x].pc = "replied", ![x].reply = meta[q]] ELSE ex
  /\ UNCHANGED <<disk, meta, lock, queue, tasks, lost, unseen, faults>>

\* A listener task that got a table: the reply and the comparison under one
\* read guard, then a fetch of its own.
ListenTable(q, x) ==
  /\ inq[q] # <<>> /\ Head(inq[q]) = [kind |-> "table", id |-> x]
  /\ inq' = [inq EXCEPT ![q] = Tail(@)]
  /\ ex' = IF ex[x].pc = "sent"
           THEN [ex EXCEPT ![x].pc = "replied", ![x].reply = meta[q]] ELSE ex
  /\ queue' = [queue EXCEPT ![<<x, "listen">>] = Missing(ex[x].sent, meta[q])]
  /\ UNCHANGED <<disk, meta, lock, tasks, lost, unseen, faults>>

ReadReply(x) ==
  LET todo == Missing(ex[x].reply, meta[Dialer[x]])
  IN /\ ex[x].pc = "replied"
     /\ IF todo = <<>>
        THEN ex' = [ex EXCEPT ![x].pc = "done", ![x].said = "synchronized"] /\ UNCHANGED queue
        ELSE /\ ex' = [ex EXCEPT ![x].pc = "fetching"]
             /\ queue' = [queue EXCEPT ![<<x, "dial">>] = todo]
     /\ UNCHANGED <<disk, meta, lock, inq, tasks, lost, unseen, faults>>

\* 60 seconds without a reply: synchronize returns Ok and says nothing.  The
\* request may still be on its way.
ReplyTimeout(x) ==
  /\ ex[x].pc = "sent"
  /\ ex' = [ex EXCEPT ![x].pc = "done"]
  /\ \/ /\ \A q \in Peers : \A i \in DOMAIN inq[q] : inq[q][i] # [kind |-> "table", id |-> x]
        /\ UNCHANGED faults
     \/ faults < MaxFaults /\ faults' = faults + 1
  /\ lost' = TRUE
  /\ UNCHANGED <<disk, meta, lock, inq, queue, tasks, unseen>>

\* All handles joined.
Complete(x) ==
  /\ ex[x].pc = "fetching" /\ queue[<<x, "dial">>] = <<>> /\ tasks[<<x, "dial">>] = {}
  /\ ex' = [ex EXCEPT ![x].pc = "done", ![x].said = "complete"]
  /\ UNCHANGED <<disk, meta, lock, inq, queue, tasks, lost, unseen, faults>>

----------------------------------------------------------------------------
(* One chunk: request, answer, append, merge *)

Step(f, t, pc) == tasks' = [tasks EXCEPT ![f] = (@ \ {t}) \cup {[t EXCEPT !.pc = pc]}]
End(f, t) == tasks' = [tasks EXCEPT ![f] = @ \ {t}]

\* A permit, a task, a new stream.
StartFetch(f) ==
  LET q == Other(At(f))
      t == Head(queue[f]) @@ [pc |-> IF HasRoom(q) THEN "asked" ELSE "refused",
                              off |-> 0, data |-> Torn]
  IN /\ queue[f] # <<>> /\ Cardinality(tasks[f]) < Permits
     /\ queue' = [queue EXCEPT ![f] = Tail(@)]
     /\ tasks' = [tasks EXCEPT ![f] = @ \cup {t}]
     /\ inq' = IF HasRoom(q)
               THEN [inq EXCEPT ![q] = Append(@, [kind |-> "chunk", id |-> f, nonce |-> t.nonce])]
               ELSE inq
     /\ UNCHANGED <<disk, meta, lock, ex, lost, unseen, faults>>

\* read_exact at an entry's offset fails when the file ends before the chunk does.
Readable(file, at) == at < Len(file) \/ (at = Len(file) /\ file[at] # Torn)

\* A listener task that got a ChunkRequest.  The asking task may be gone by now.
ServeChunk(q, f) ==
  /\ inq[q] # <<>> /\ Head(inq[q]).kind = "chunk" /\ Head(inq[q]).id = f
  /\ inq' = [inq EXCEPT ![q] = Tail(@)]
  /\ LET nonce == Head(inq[q]).nonce
         found == Located(meta[q], nonce)
         asking == {t \in tasks[f] : t.nonce = nonce /\ t.pc = "asked"}
     IN tasks' = [tasks EXCEPT ![f] = (@ \ asking) \cup
          {IF found = <<>> \/ ~Readable(disk[q], Head(found).at) THEN [t EXCEPT !.pc = "refused"]
           ELSE [t EXCEPT !.pc = "got", !.data = disk[q][Head(found).at]] : t \in asking}]
  /\ UNCHANGED <<disk, meta, lock, ex, queue, lost, unseen, faults>>

\* A task waits for its answer without a timeout.
GiveUpOnTimeoutOnly(f, t) ==
  /\ t.pc = "asked" /\ faults < MaxFaults /\ faults' = faults + 1
  /\ End(f, t) /\ lost' = TRUE
  /\ UNCHANGED <<disk, meta, lock, inq, ex, queue, unseen>>

\* No stream, no answer, or none within 60 seconds: the task ends and nobody is told.
GiveUp(f, t) ==
  /\ \/ t.pc = "refused" /\ UNCHANGED faults
     \/ t.pc = "asked" /\ faults < MaxFaults /\ faults' = faults + 1
  /\ End(f, t) /\ lost' = TRUE
  /\ UNCHANGED <<disk, meta, lock, inq, ex, queue, unseen>>

\* The write lock is not taken.
TakeNoLock(f, t) ==
  /\ t.pc = "got"
  /\ tasks' = [tasks EXCEPT ![f] = (@ \ {t}) \cup
       {[t EXCEPT !.pc = "locked", !.off = Len(disk[At(f)]) + 1]}]
  /\ UNCHANGED <<disk, meta, lock, inq, ex, queue, lost, unseen, faults>>

\* The write lock, open and seek to the end.
TakeLock(f, t) ==
  /\ t.pc = "got" /\ lock[At(f)] = NoTask
  /\ lock' = [lock EXCEPT ![At(f)] = <<f, t.nonce>>]
  /\ tasks' = [tasks EXCEPT ![f] = (@ \ {t}) \cup
       {[t EXCEPT !.pc = "locked", !.off = Len(disk[At(f)]) + 1]}]
  /\ UNCHANGED <<disk, meta, inq, ex, queue, lost, unseen, faults>>

\* write_all in append mode and sync_all.  write_all hands the bytes to a thread:
\* a failure that it or sync_all returns ends the task, with nothing, a part or
\* the whole chunk in the file; one of the last write is kept for a next write
\* that never comes, and the task goes on as if the chunk were there.
AppendChunk(f, t) ==
  LET p == At(f)
      Fault == faults < MaxFaults /\ faults' = faults + 1 /\ lost' = TRUE
      Leaves(tails) == \E tail \in tails : disk' = [disk EXCEPT ![p] = @ \o tail]
  IN /\ t.pc = "locked"
     /\ \/ Leaves({<<t.data>>}) /\ Step(f, t, "written") /\ UNCHANGED <<lock, lost, unseen, faults>>
        \/ /\ Fault /\ Leaves({<<>>, <<Torn>>, <<t.data>>})
           /\ lock' = [lock EXCEPT ![p] = NoTask]
           /\ End(f, t) /\ UNCHANGED unseen
        \/ /\ Fault /\ Leaves({<<>>, <<Torn>>})
           /\ Step(f, t, "written") /\ unseen' = unseen \cup {t.nonce}
           /\ UNCHANGED lock
     /\ UNCHANGED <<meta, inq, ex, queue>>

MergeChunk(f, t) ==
  LET p == At(f)
  IN /\ t.pc = "written"
     /\ meta' = [meta EXCEPT ![p] = Merge(@, t)]
     /\ lock' = [lock EXCEPT ![p] = NoTask]
     /\ End(f, t)
     /\ UNCHANGED <<disk, inq, ex, queue, lost, unseen, faults>>

----------------------------------------------------------------------------

\* Each vault file holds the chunks of its table, one after the other.
Init ==
  /\ meta \in StartMetas
  /\ disk = [p \in Peers |-> LET e == Entries(meta[p]) IN [i \in DOMAIN e |-> e[i].nonce]]
  /\ lock = [p \in Peers |-> NoTask] /\ inq = [p \in Peers |-> <<>>]
  /\ ex = [x \in Exchanges |-> [pc |-> "idle", sent |-> <<>>, reply |-> <<>>, said |-> "nothing"]]
  /\ queue = [f \in Fetchers |-> <<>>] /\ tasks = [f \in Fetchers |-> {}]
  /\ lost = FALSE /\ unseen = {} /\ faults = 0

TaskStep(f) ==
  \E t \in tasks[f] : GiveUp(f, t) \/ TakeLock(f, t) \/ AppendChunk(f, t) \/ MergeChunk(f, t)

Listen(q) ==
  \/ \E x \in Exchanges : ListenTable(q, x)
  \/ \E f \in Fetchers : ServeChunk(q, f)

Next ==
  \/ \E x \in Exchanges : SendTable(x) \/ ReadReply(x) \/ ReplyTimeout(x) \/ Complete(x)
  \/ \E q \in Peers : Listen(q)
  \/ \E f \in Fetchers : StartFetch(f) \/ TaskStep(f)

Spec == Init /\ [][Next]_vars

\* tokio runs every task that can go on; a reply that cannot come any more
\* times out.
FairSpec ==
  /\ Spec
  /\ \A x \in Exchanges : WF_vars(ReadReply(x)) /\ WF_vars(ReplyTimeout(x)) /\ WF_vars(Complete(x))
  /\ \A q \in Peers : WF_vars(Listen(q))
  /\ \A f \in Fetchers : WF_vars(StartFetch(f)) /\ WF_vars(TaskStep(f))

----------------------------------------------------------------------------
(* Properties *)

\* Queues stay within their limits and a write lock is held by a task that runs.
TypeOK ==
  /\ \A q \in Peers : Len(inq[q]) <= InboundCap
  /\ \A f \in Fetchers : Cardinality(tasks[f]) <= Permits
  /\ \A p \in Peers : lock[p] # NoTask =>
       \E f \in Fetchers : \E t \in tasks[f] :
         lock[p] = <<f, t.nonce>> /\ At(f) = p /\ t.pc \in {"locked", "written"}

\* Every entry of a file table points at the ciphertext of its own nonce: the
\* write lock "prevents concurrent downloads from corrupting SSD file appends".
\* A write that fails, half way or unseen, costs the chunk it was for and leaves
\* the offsets of all the others right, those appended behind it included.
EntriesAddressTheirChunk ==
  \A p \in Peers : \A i \in DOMAIN Entries(meta[p]) :
    LET e == Entries(meta[p])[i] IN
    e.nonce \notin unseen => e.at \in DOMAIN disk[p] /\ disk[p][e.at] = e.nonce

\* One exchange never puts a chunk twice into the same file.
ChunksOnce ==
  \A p \in Peers : \A i \in DOMAIN meta[p] :
    Cardinality(Nonces(meta[p][i])) = Len(meta[p][i].chunks)

\* Peer p has every chunk of the table's files, but for files it has a newer version of.
Holds(p, table) ==
  \A i \in DOMAIN table :
    \/ \E f \in Named(meta[p], table[i].name) : f.mod > table[i].mod \/ Nonces(table[i]) \subseteq Nonces(f)
    \/ table[i].chunks = <<>>

\* When synchronize reports an end and nothing was lost on the way, the dialling
\* side has all the listener's table told it of.
CompleteWhenNothingLost ==
  \A x \in Exchanges : ex[x].said # "nothing" /\ ~lost => Holds(Dialer[x], ex[x].reply)

\* A call of synchronize always returns, whatever is dropped, refused or late.
SynchronizeReturns == \A x \in Exchanges : ex[x].pc = "sent" ~> ex[x].pc = "done"

\* One call brings both sides up to date, unless something is lost.
BothCatchUp ==
  \A x \in Exchanges : ex[x].pc = "sent" ~>
    lost \/ (Holds(Dialer[x], ex[x].reply) /\ Holds(Other(Dialer[x]), ex[x].sent))

\* What the code says of itself and does not keep.

\* "Synchronization complete!"
CompleteMeansAllHere ==
  \A x \in Exchanges : ex[x].said = "complete" => Holds(Dialer[x], ex[x].reply)

\* "Vaults are fully synchronized.": once every call has returned, the one that
\* said so has all the listener's table told it of.
SynchronizedMeansAllHere ==
  (\A x \in Exchanges : ex[x].pc \in {"idle", "done"}) =>
    \A x \in Exchanges : ex[x].said = "synchronized" => Holds(Dialer[x], ex[x].reply)

\* "Synchronization complete!": the file reads as the peer's does.
NonceSeq(index) == [i \in DOMAIN index.chunks |-> index.chunks[i].nonce]
CompleteKeepsOrder ==
  \A x \in Exchanges : ex[x].said = "complete" =>
    \A i \in DOMAIN ex[x].reply : \A f \in Named(meta[Dialer[x]], ex[x].reply[i].name) :
      Nonces(f) = Nonces(ex[x].reply[i]) => NonceSeq(f) = NonceSeq(ex[x].reply[i])
=============================================================================
