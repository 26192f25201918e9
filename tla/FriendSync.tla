----------------------------- MODULE FriendSync -----------------------------
(***************************************************************************)
(* The friend book and the sync over Tor: the address book friends.json    *)
(* with everything that reads it, holds it and writes it back              *)
(* (friend.rs, p2p_utils.rs, daemon.rs, gui/p2p.rs), the proposals friends *)
(* make to the daemon, the dialog that asks the user, and both ends of the *)
(* copy.  `Inbound` are connections friends open to this machine; `Out` is *)
(* the one the user starts here, towards a daemon that may answer anything.*)
(***************************************************************************)
EXTENDS Integers, Sequences, FiniteSets, TLC

CONSTANTS
  Nicks, Keys, Self,  \* nicknames; identity keys; this machine's own key
  Files, Paths,       \* names of proposed vaults; destinations
  Inbound, PeerKey,   \* connections; [Inbound -> Keys], who opens each
  Picks,              \* [Inbound -> SUBSET Paths], what the user picks from for each
  Out,                \* the sync started here
  Adders,             \* processes that can run "add friend" (CLI, GUI)
  InitBooks,          \* what friends.json may hold at the start,
  InitOnions,         \* what onion.txt,
  InitFiles,          \* and what a destination; NoOne where there is no file
  Corrupt,            \* a friends.json that does not decrypt
  NoOne,
  Size,               \* units in a vault file
  MaxAdds, MaxOut,    \* friends added, syncs started
  MaxFaults,          \* broken links, failed writes, killed processes
  MaxEvents           \* additions, outgoing syncs and faults together

ASSUME FriendSyncAssumption ==
  /\ Self \in Keys /\ Out \notin Inbound
  /\ PeerKey \in [Inbound -> Keys] /\ Picks \in [Inbound -> SUBSET Paths]
  /\ Size \in Nat \ {0} /\ MaxAdds \in Nat /\ MaxOut \in Nat /\ MaxFaults \in Nat /\ MaxEvents \in Nat

Conns == Inbound \cup {Out}
Writers == Conns \cup Adders

VARIABLES
  book,       \* friends.json: nickname -> FriendRecord, or Corrupt
  onion,      \* onion.txt: "absent", "plain" (written by an old version), "encrypted"
  disk,       \* destination files
  gui,        \* the process with the dialog, the sync thread and the daemon: off, up, online
  hold,       \* per writer: the list it read, and how far it is with writing it back
  adder,      \* per adder: the nickname it is adding
  task,       \* per inbound connection: the daemon's task
  send,       \* per connection: sync_core at its other end (for Out: here)
  toDaemon, toSender,     \* the Yamux stream, both directions
  events, dialog, answer, \* INCOMING_EVENTS; incoming_sync; the oneshot channels
  adds, outs, faults,
  added,      \* history: nicknames reported as added
  consents,   \* history: <<nickname, vault, path>> the user accepted
  synced,     \* history: nicknames an outbound sync pushed a vault to
  overlap,    \* history: some list was read while another reader still held one
  cut         \* history: connections sync_core closed before they had drained

files == <<book, onion, disk>>
net   == <<send, toDaemon, toSender>>
ask   == <<events, dialog, answer>>
hist  == <<adds, outs, faults, added, consents, synced, overlap, cut>>
vars  == <<files, gui, hold, adder, task, net, ask, hist>>

Eventful == adds + outs + faults < MaxEvents
MayFail == faults < MaxFaults /\ Eventful

EmptyBook == <<>>
Idle == [pc |-> "none", db |-> EmptyBook]
NoTask == [pc |-> "none", nick |-> NoOne, file |-> NoOne, path |-> NoOne, pos |-> 0]
NoSend == [pc |-> "none", nick |-> NoOne, file |-> NoOne, pos |-> 0]

----------------------------------------------------------------------------
(* friends.json *)

\* load_friends: a truncated file reads as no friends; one that does not
\* decrypt ends the process (FatalLoad).
Load(w) ==
  /\ book # Corrupt
  /\ overlap' = (overlap \/ \E v \in Writers \ {w} : hold[v].pc # "none")

\* How long the serialised list is.
Weight(db) ==
  LET entries == UNION {{<<n, v>> : v \in db[n].vaults} : n \in DOMAIN db}
  IN Cardinality(DOMAIN db) + Cardinality(entries)
       + Cardinality({n \in DOMAIN db : db[n].seen})

\* save_friends opens with truncate(true), or cannot and says nothing...
SaveOpen(w) ==
  /\ hold[w].pc = "saving"
  /\ \/ book' = EmptyBook /\ hold' = [hold EXCEPT ![w].pc = "open"] /\ UNCHANGED faults
     \/ /\ MayFail /\ faults' = faults + 1
        /\ hold' = [hold EXCEPT ![w].pc = "failed"] /\ UNCHANGED book

\* ...and writes at its own cursor: over what another writer put there since,
\* whose tail stays when it is longer.
Overwrite(w) ==
  IF book = EmptyBook \/ (book # Corrupt /\ Weight(book) <= Weight(hold[w].db))
  THEN hold[w].db ELSE Corrupt

\* The result of write_all is ignored.
SaveWrite(w) ==
  /\ hold' = [hold EXCEPT ![w] = Idle]
  /\ \/ hold[w].pc = "open" /\ book' = Overwrite(w) /\ UNCHANGED faults
     \/ hold[w].pc = "open" /\ MayFail /\ faults' = faults + 1 /\ UNCHANGED book
     \/ hold[w].pc = "failed" /\ UNCHANGED <<book, faults>>

----------------------------------------------------------------------------
(* add_friend_core *)

\* read_to_string and parse_atom_uri of onion.txt: the encrypted form is not a link.
OwnKeyRead == IF onion = "plain" THEN Self ELSE NoOne

AddAllowed(db, n, k) ==
  /\ k # OwnKeyRead
  /\ \A m \in DOMAIN db : db[m].key = k => m = n
  /\ n \in DOMAIN db => db[n].key = k

AddFriend(a, n, k) ==
  /\ adder[a] = NoOne /\ adds < MaxAdds /\ Eventful
  /\ Load(a)
  /\ AddAllowed(book, n, k)
  /\ hold' = [hold EXCEPT ![a] = [pc |-> "saving",
       db |-> IF n \in DOMAIN book THEN book
              ELSE (n :> [key |-> k, vaults |-> {}, seen |-> FALSE]) @@ book]]
  /\ adder' = [adder EXCEPT ![a] = n]
  /\ adds' = adds + 1
  /\ UNCHANGED <<files, gui, task, net, ask, outs, faults, added, consents, synced, cut>>

AddSaves(a) ==
  \/ /\ SaveOpen(a)
     /\ UNCHANGED <<onion, disk, gui, adder, task, net, ask, adds, outs, added, consents,
                    synced, overlap, cut>>
  \/ /\ SaveWrite(a)
     /\ adder' = [adder EXCEPT ![a] = NoOne]
     /\ added' = added \cup {adder[a]}
     /\ UNCHANGED <<onion, disk, gui, task, net, ask, adds, outs, consents, synced, overlap, cut>>

----------------------------------------------------------------------------
(* The sending end: sync_core *)

\* connect_to_friend, open_stream, the proposal.
Propose(c) ==
  /\ send[c].pc = "connected"
  /\ send' = [send EXCEPT ![c].pc = "waiting"]
  /\ toDaemon' = [toDaemon EXCEPT ![c] = Append(@, "proposal")]
  /\ UNCHANGED <<files, gui, hold, adder, task, toSender, ask, hist>>

\* The reply line.  Anything but Accept ends sync_core with Ok; the daemon's task
\* is over by then, and does not notice when the link goes.
ReadReply(c) ==
  /\ send[c].pc = "waiting" /\ toSender[c] # <<>>
  /\ send' = [send EXCEPT ![c].pc = IF Head(toSender[c]) = "accept" THEN "pumping" ELSE "ok"]
  /\ toSender' = [toSender EXCEPT ![c] = Tail(@)]
  /\ UNCHANGED <<files, gui, hold, adder, task, toDaemon, ask, hist>>

\* io::copy of the vault into the stream, then shutdown.
Pump(c) ==
  /\ send[c].pc = "pumping"
  /\ IF send[c].pos < Size
     THEN /\ send' = [send EXCEPT ![c].pos = @ + 1]
          /\ toDaemon' = [toDaemon EXCEPT ![c] = Append(@, "data")]
          /\ UNCHANGED synced
     ELSE /\ send' = [send EXCEPT ![c].pc = "ok"]
          /\ toDaemon' = [toDaemon EXCEPT ![c] = Append(@, "eof")]
          /\ synced' = IF c = Out THEN synced \cup {send[c].nick} ELSE synced
  /\ UNCHANGED <<files, gui, hold, adder, task, toSender, ask, adds, outs, faults, added,
                 consents, overlap, cut>>

\* The control is dropped, and three seconds later sync_core returns and the link
\* is gone, whether or not it has drained: what had not arrived by then never does.
Close(c) ==
  /\ send[c].pc = "ok" /\ c \notin cut
  /\ \E k \in 0 .. Len(toDaemon[c]) - 2 :
       toDaemon' = [toDaemon EXCEPT ![c] = Append(SubSeq(@, 1, k), "eof")]
  /\ cut' = cut \cup {c}
  /\ UNCHANGED <<files, gui, hold, adder, task, send, toSender, ask, adds, outs, faults, added,
                 consents, synced, overlap>>

\* The link breaks.  A sender that waits reads an empty line (Ok) or an error;
\* one that pumps gets an error; what was on the way is gone.  A task that copies
\* sees an end of file or an error, which leave the same file behind.
Break(c) ==
  /\ MayFail
  /\ send[c].pc \in {"connected", "waiting", "pumping"}
  /\ \E end \in IF send[c].pc = "waiting" THEN {"ok", "err"} ELSE {"err"} :
       send' = [send EXCEPT ![c].pc = end]
  /\ toDaemon' = [toDaemon EXCEPT ![c] = <<"eof">>]
  /\ toSender' = [toSender EXCEPT ![c] = <<>>]
  /\ faults' = faults + 1
  /\ UNCHANGED <<files, gui, hold, adder, task, ask, adds, outs, added, consents, synced,
                 overlap, cut>>

----------------------------------------------------------------------------
(* A sync started here: start_sync *)

OutStart(n) ==
  /\ gui # "off" /\ send[Out].pc = "none" /\ hold[Out].pc = "none" /\ outs < MaxOut /\ Eventful
  /\ book # Corrupt /\ n \in DOMAIN book
  /\ send' = [send EXCEPT ![Out] = [NoSend EXCEPT !.pc = "connected", !.nick = n]]
  /\ outs' = outs + 1
  /\ UNCHANGED <<files, gui, hold, adder, task, toDaemon, toSender, ask, adds, faults, added,
                 consents, synced, overlap, cut>>

RemoteAnswers ==
  /\ toDaemon[Out] = <<"proposal">>
  /\ \E reply \in {"accept", "reject"} : toSender' = [toSender EXCEPT ![Out] = <<reply>>]
  /\ toDaemon' = [toDaemon EXCEPT ![Out] = <<>>]
  /\ UNCHANGED <<files, gui, hold, adder, task, send, ask, hist>>

\* The record is built anew.
BumpAnew(db, n) == IF n \in DOMAIN db THEN [db EXCEPT ![n].seen = TRUE, ![n].vaults = {}] ELSE db

\* update_friend_last_seen when sync_core returned Ok; nothing when it did not.
Bump(db, n) == IF n \in DOMAIN db THEN [db EXCEPT ![n].seen = TRUE] ELSE db

OutEnds ==
  /\ gui # "off" /\ hold[Out].pc = "none"
  /\ \/ /\ send[Out].pc = "ok" /\ Load(Out)
        /\ hold' = [hold EXCEPT ![Out] =
             IF send[Out].nick \in DOMAIN book
             THEN [pc |-> "saving", db |-> Bump(book, send[Out].nick)] ELSE Idle]
     \/ send[Out].pc = "err" /\ UNCHANGED <<hold, overlap>>
  /\ send' = [send EXCEPT ![Out] = NoSend]
  /\ toDaemon' = [toDaemon EXCEPT ![Out] = <<>>] /\ toSender' = [toSender EXCEPT ![Out] = <<>>]
  /\ UNCHANGED <<files, gui, adder, task, ask, adds, outs, faults, added,
                 consents, synced, cut>>

OutSaves ==
  \/ /\ SaveOpen(Out)
     /\ UNCHANGED <<onion, disk, gui, adder, task, net, ask, adds, outs, added, consents,
                    synced, overlap, cut>>
  \/ /\ SaveWrite(Out)
     /\ UNCHANGED <<onion, disk, gui, adder, task, net, ask, adds, outs, added, consents, synced,
                    overlap, cut>>

----------------------------------------------------------------------------
(* The daemon: handle_daemon *)

\* AtomVaultApp::new reads the list; the daemon thread starts beside it.
StartGui ==
  /\ gui = "off" /\ book # Corrupt
  /\ gui' = "up"
  /\ UNCHANGED <<files, hold, adder, task, net, ask, hist>>

Online ==
  /\ gui = "up"
  /\ gui' = "online" /\ onion' = "encrypted"
  /\ UNCHANGED <<book, disk, hold, adder, task, net, ask, hist>>

\* The accept loop takes one connection at a time and reads the list for it.
Accept(c) ==
  /\ gui = "online" /\ book # Corrupt
  /\ send[c].pc = "none" /\ task[c].pc = "none"
  /\ \A d \in Inbound : task[d].pc # "handshake"
  /\ \E n \in {m \in DOMAIN book : book[m].key = PeerKey[c]} \cup {NoOne} :
       /\ n = NoOne => \A m \in DOMAIN book : book[m].key # PeerKey[c]
       /\ task' = [task EXCEPT ![c] = [NoTask EXCEPT !.pc = "handshake", !.nick = n]]
  /\ \E f \in Files :
       send' = [send EXCEPT ![c] = [NoSend EXCEPT !.pc = "dialling", !.file = f]]
  /\ UNCHANGED <<files, gui, hold, adder, toDaemon, toSender, ask, hist>>

\* execute_handshake.  The daemon refuses a key that is not in the list after
\* the other side has accepted it: that side sees a link that closes.
Handshake(c) ==
  /\ task[c].pc = "handshake"
  /\ IF task[c].nick # NoOne
     THEN /\ task' = [task EXCEPT ![c].pc = "ready"]
          /\ send' = [send EXCEPT ![c].pc = "connected"]
     ELSE /\ task' = [task EXCEPT ![c].pc = "done"]
          /\ \E end \in {"ok", "err"} : send' = [send EXCEPT ![c].pc = end]
  /\ UNCHANGED <<files, gui, hold, adder, toDaemon, toSender, ask, hist>>

\* The vault is looked up under every friend.
KnownVaultsOfAll(db, n, f) == {v \in UNION {db[m].vaults : m \in DOMAIN db} : v.file = f}

KnownVaults(db, n, f) == {v \in IF n \in DOMAIN db THEN db[n].vaults ELSE {} : v.file = f}

\* The first line of the stream.  A vault in the list is accepted unasked and
\* the list is dropped; for a new one it is kept across the question.
ReadProposal(c) ==
  /\ task[c].pc = "ready" /\ toDaemon[c] # <<>>
  /\ toDaemon' = [toDaemon EXCEPT ![c] = Tail(@)]
  /\ LET f == send[c].file
         known == KnownVaults(book, task[c].nick, f)
     IN \/ /\ Head(toDaemon[c]) = "proposal" /\ book # Corrupt
           /\ \E v \in known : task' = [task EXCEPT ![c] =
                [@ EXCEPT !.pc = "accepted", !.file = f, !.path = v.path]]
           /\ UNCHANGED <<hold, events, overlap>>
        \/ /\ Head(toDaemon[c]) = "proposal" /\ Load(c) /\ known = {}
           /\ task' = [task EXCEPT ![c] = [@ EXCEPT !.pc = "asking", !.file = f]]
           /\ hold' = [hold EXCEPT ![c] = [pc |-> "held", db |-> book]]
           /\ events' = Append(events, c)
        \/ /\ Head(toDaemon[c]) = "eof"
           /\ task' = [task EXCEPT ![c].pc = "done"]
           /\ UNCHANGED <<hold, events, overlap>>
  /\ UNCHANGED <<files, gui, adder, send, toSender, dialog, answer, adds, outs, faults, added,
                 consents, synced, cut>>

\* The replaced requests keep waiting for an answer.
PollForgetsReplaced ==
  /\ gui # "off"
  /\ \E k \in 1 .. Len(events) :
       dialog' = events[k] /\ events' = SubSeq(events, k + 1, Len(events))
  /\ UNCHANGED <<files, gui, hold, adder, task, net, answer, hist>>

\* poll_daemon_events, once per frame: each request replaces the one before,
\* whose answer channel is dropped.
PollDaemonEvents ==
  /\ gui # "off"
  /\ \E k \in 1 .. Len(events) :
       LET replaced == {dialog} \cup {events[i] : i \in 1 .. k - 1}
       IN /\ dialog' = events[k]
          /\ answer' = [c \in Inbound |-> IF c \in replaced THEN "dropped" ELSE answer[c]]
          /\ events' = SubSeq(events, k + 1, Len(events))
  /\ UNCHANGED <<files, gui, hold, adder, task, net, hist>>

\* show_incoming_sync_dialog: Accept with a path, or Reject.
UserAnswers ==
  /\ dialog # NoOne
  /\ \/ /\ answer' = [answer EXCEPT ![dialog] = "no"]
        /\ UNCHANGED consents
     \/ \E p \in Picks[dialog] :
          /\ answer' = [answer EXCEPT ![dialog] = p]
          /\ consents' = consents \cup {<<task[dialog].nick, task[dialog].file, p>>}
  /\ dialog' = NoOne
  /\ UNCHANGED <<files, gui, hold, adder, task, net, events, adds, outs, faults, added, synced,
                 overlap, cut>>

Remember(db, n, f, p) ==
  IF n \in DOMAIN db
  THEN [db EXCEPT ![n].vaults = @ \cup {[file |-> f, path |-> p]}] ELSE db

\* The answer, or the loss of its channel, which counts as a refusal.
TakeAnswer(c) ==
  /\ task[c].pc = "asking" /\ answer[c] # NoOne
  /\ IF answer[c] \in Paths
     THEN /\ task' = [task EXCEPT ![c] = [@ EXCEPT !.pc = "saving", !.path = answer[c]]]
          /\ hold' = [hold EXCEPT ![c] = [pc |-> "saving",
               db |-> Remember(hold[c].db, task[c].nick, task[c].file, answer[c])]]
     ELSE /\ task' = [task EXCEPT ![c].pc = "rejecting"]
          /\ hold' = [hold EXCEPT ![c] = Idle]
  /\ UNCHANGED <<files, gui, adder, net, ask, hist>>

TaskSaves(c) ==
  \/ /\ SaveOpen(c)
     /\ UNCHANGED <<onion, disk, gui, adder, task, net, ask, adds, outs, added, consents,
                    synced, overlap, cut>>
  \/ /\ SaveWrite(c)
     /\ task' = [task EXCEPT ![c].pc = "accepted"]
     /\ UNCHANGED <<onion, disk, gui, adder, net, ask, adds, outs, added, consents, synced,
                    overlap, cut>>

\* The reply line.  Sending Accept fails only when the other end is gone.
Reply(c) ==
  /\ \/ /\ task[c].pc = "accepted"
        /\ \/ task' = [task EXCEPT ![c].pc = "create"]
              /\ toSender' = [toSender EXCEPT ![c] = Append(@, "accept")]
           \/ send[c].pc \in {"ok", "err"}
              /\ task' = [task EXCEPT ![c].pc = "done"] /\ UNCHANGED toSender
     \/ /\ task[c].pc = "rejecting"
        /\ task' = [task EXCEPT ![c].pc = "done"]
        /\ toSender' = [toSender EXCEPT ![c] = Append(@, "reject")]
  /\ UNCHANGED <<files, gui, hold, adder, send, toDaemon, ask, hist>>

\* The destination is opened without truncation.
CreateDestKeeping(c) ==
  /\ task[c].pc = "create"
  /\ disk' = [disk EXCEPT ![task[c].path] = IF @ = NoOne THEN <<>> ELSE @]
  /\ task' = [task EXCEPT ![c].pc = "copying"]
  /\ UNCHANGED <<book, onion, gui, hold, adder, net, ask, hist>>

\* File::create empties the destination before anything has arrived.
CreateDest(c) ==
  /\ task[c].pc = "create"
  /\ \/ /\ disk' = [disk EXCEPT ![task[c].path] = <<>>]
        /\ task' = [task EXCEPT ![c].pc = "copying"]
        /\ UNCHANGED faults
     \/ /\ MayFail /\ faults' = faults + 1
        /\ task' = [task EXCEPT ![c].pc = "done"] /\ UNCHANGED disk
  /\ UNCHANGED <<book, onion, gui, hold, adder, net, ask, adds, outs, added, consents, synced,
                 overlap, cut>>

\* A write at this task's cursor; a gap reads as nobody's data.
WriteUnit(s, pos, u) ==
  [i \in 1 .. (IF pos >= Len(s) THEN pos + 1 ELSE Len(s)) |->
     IF i = pos + 1 THEN u ELSE IF i <= Len(s) THEN s[i] ELSE NoOne]

\* io::copy until the stream ends.
CopyUnit(c) ==
  /\ task[c].pc = "copying" /\ toDaemon[c] # <<>>
  /\ toDaemon' = [toDaemon EXCEPT ![c] = Tail(@)]
  /\ IF Head(toDaemon[c]) = "data"
     THEN /\ disk' = [disk EXCEPT ![task[c].path] = WriteUnit(@, task[c].pos, c)]
          /\ task' = [task EXCEPT ![c].pos = @ + 1]
     ELSE /\ task' = [task EXCEPT ![c].pc = "done"] /\ UNCHANGED disk
  /\ UNCHANGED <<book, onion, gui, hold, adder, send, toSender, ask, hist>>

----------------------------------------------------------------------------
(* Processes that end *)

Live == {"dialling", "connected", "waiting", "pumping"}

GuiGone ==
  /\ gui' = "off"
  /\ hold' = [w \in Writers |-> IF w \in Adders THEN hold[w] ELSE Idle]
  /\ task' = [c \in Inbound |-> IF task[c].pc = "none" THEN task[c] ELSE [task[c] EXCEPT !.pc = "done"]]
  /\ send' = [c \in Conns |-> IF c = Out THEN NoSend
                              ELSE IF send[c].pc \in Live THEN [send[c] EXCEPT !.pc = "err"]
                              ELSE send[c]]
  /\ toDaemon' = [c \in Conns |-> <<>>] /\ toSender' = [c \in Conns |-> <<>>]
  /\ events' = <<>> /\ dialog' = NoOne /\ answer' = [c \in Inbound |-> NoOne]

KillGui ==
  /\ gui # "off" /\ MayFail
  /\ GuiGone /\ faults' = faults + 1
  /\ UNCHANGED <<files, adder, adds, outs, added, consents, synced, overlap, cut>>

\* load_friends exits the process when the list does not decrypt.
FatalLoad ==
  /\ gui # "off" /\ book = Corrupt
  /\ GuiGone
  /\ UNCHANGED <<files, adder, hist>>

KillAdder(a) ==
  /\ adder[a] # NoOne /\ MayFail
  /\ hold' = [hold EXCEPT ![a] = Idle] /\ adder' = [adder EXCEPT ![a] = NoOne]
  /\ faults' = faults + 1
  /\ UNCHANGED <<files, gui, task, net, ask, adds, outs, added, consents, synced, overlap, cut>>

----------------------------------------------------------------------------

Init ==
  /\ book \in InitBooks /\ onion \in InitOnions
  /\ disk \in [Paths -> InitFiles]
  /\ gui = "off"
  /\ hold = [w \in Writers |-> Idle] /\ adder = [a \in Adders |-> NoOne]
  /\ task = [c \in Inbound |-> NoTask]
  /\ send = [c \in Conns |-> NoSend]
  /\ toDaemon = [c \in Conns |-> <<>>] /\ toSender = [c \in Conns |-> <<>>]
  /\ events = <<>> /\ dialog = NoOne /\ answer = [c \in Inbound |-> NoOne]
  /\ adds = 0 /\ outs = 0 /\ faults = 0
  /\ added = {} /\ consents = {} /\ synced = {} /\ overlap = FALSE /\ cut = {}

TaskStep(c) ==
  \/ Handshake(c) \/ ReadProposal(c) \/ TakeAnswer(c) \/ TaskSaves(c)
  \/ Reply(c) \/ CreateDest(c) \/ CopyUnit(c)

SendStep(c) == Propose(c) \/ ReadReply(c) \/ Pump(c)

Next ==
  \/ StartGui \/ Online \/ PollDaemonEvents \/ UserAnswers
  \/ \E c \in Inbound : Accept(c) \/ TaskStep(c) \/ Close(c)
  \/ \E c \in Conns : SendStep(c) \/ Break(c)
  \/ \E n \in Nicks : OutStart(n)
  \/ RemoteAnswers \/ OutEnds \/ OutSaves
  \/ \E a \in Adders : AddSaves(a) \/ KillAdder(a) \/ \E n \in Nicks, k \in Keys : AddFriend(a, n, k)
  \/ KillGui \/ FatalLoad

Spec == Init /\ [][Next]_vars

\* The event queue is polled every frame, the user answers the dialog they see,
\* and tokio runs a task that can go on, at both ends.
FairSpec ==
  /\ Spec
  /\ WF_vars(PollDaemonEvents) /\ WF_vars(UserAnswers)
  /\ \A c \in Inbound : WF_vars(TaskStep(c)) /\ WF_vars(SendStep(c))

----------------------------------------------------------------------------
(* Properties *)

Record == [key : Keys, vaults : SUBSET [file : Files, path : Paths], seen : BOOLEAN]
IsBook(b) == DOMAIN b \subseteq Nicks /\ \A n \in DOMAIN b : b[n] \in Record

\* Every list read or written is a list of friend records.
TypeOK ==
  /\ book = Corrupt \/ IsBook(book)
  /\ \A w \in Writers : IsBook(hold[w].db)
  /\ \A w \in Writers : hold[w].pc \in {"none", "held", "saving", "open", "failed"}
  /\ dialog \in Inbound \cup {NoOne} /\ events \in Seq(Inbound)
  /\ gui \in {"off", "up", "online"} /\ onion \in {"absent", "plain", "encrypted"}

\* The list once the save that is under way has finished.
Settling == {w \in Writers : hold[w].pc = "open"}
Settled == IF Settling = {} THEN book ELSE hold[CHOOSE w \in Settling : TRUE].db

\* add_friend_core never lets one identity key stand under two nicknames, however
\* the saves of several processes interleave.
KeyUnderOneNick ==
  \A b \in {hold[w].db : w \in Writers} \cup (IF book = Corrupt THEN {} ELSE {book}) :
    \A m, n \in DOMAIN b : b[m].key = b[n].key => m = n

\* As long as nobody reads friends.json while someone else is still going to write
\* it back, and nothing fails, it stays readable, keeps every friend it was told of,
\* and keeps every vault the user accepted.
SafeWithoutOverlap ==
  ~overlap /\ faults = 0 =>
    /\ book # Corrupt
    /\ added \subseteq DOMAIN Settled
    /\ \A c \in Inbound : task[c].pc \in {"accepted", "create", "copying"} =>
         [file |-> task[c].file, path |-> task[c].path] \in Settled[task[c].nick].vaults

\* The daemon settles on a destination only for a friend, a vault and a path the
\* user has accepted together, whatever requests replaced each other in the dialog.
ConsentFirst ==
  \A c \in Inbound :
    task[c].path # NoOne => <<task[c].nick, task[c].file, task[c].path>> \in consents

\* A copy nothing disturbed (no failure, and no save of the list that another one
\* overlapped) leaves exactly the vault that was sent, also over a longer file that
\* was there before and while another friend's copy goes to another path.  When
\* sync_core closed the link before it had drained, the beginning of that vault is
\* there and nothing of what was there before.
CleanCopyDelivers ==
  \A c \in Inbound :
    /\ task[c].pc = "done" /\ task[c].path # NoOne /\ faults = 0 /\ ~overlap
    /\ \A d \in Inbound \ {c} : task[d].path # task[c].path
    => \E n \in (IF c \in cut THEN 0 .. Size - 1 ELSE {Size}) :
         disk[task[c].path] = [i \in 1 .. n |-> c]

\* A proposal comes to an end: a peer that was put on hold for the user's decision
\* is answered, also when another request replaces its own in the dialog, and the
\* task of an accepted one ends, also when the friend's end of the link disappears
\* before or during the copy.
ProposalEnds == \A c \in Inbound : task[c].pc \in {"asking", "accepted"} ~> task[c].pc = "done"

\* What the code says of itself and does not keep.

\* "Friend '{}' securely added!": a friend that was added stays in the list.
FriendStaysAdded == Settling = {} /\ book # Corrupt => added \subseteq DOMAIN book

\* last_seen is the time "of the last successful outbound sync with this peer".
LastSeenMeansSynced == book # Corrupt => \A n \in DOMAIN book : book[n].seen => n \in synced

\* "You cannot add your own identity as a friend.", once onion.txt holds it.
OwnIdentityRefused ==
  [][\A a \in Adders, n \in Nicks :
       adder[a] = NoOne /\ adder'[a] = n /\ onion # "absent" /\ n \notin DOMAIN book
         => hold'[a].db[n].key # Self]_vars
============================================================================
