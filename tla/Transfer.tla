------------------------------ MODULE Transfer ------------------------------
(***************************************************************************)
(* The resumable transfer of one vault file over a live session            *)
(* (p2p-live/src/transfer.rs): `send` and `recv` of the two peers, frame   *)
(* by frame, over a stream that delivers in order until it breaks, and     *)
(* again over a new session after any failure.  A payload is a sequence of *)
(* units; BLAKE3 is taken to be collision-free, so a hash is the sequence  *)
(* hashed.  The partial file has a page-cache image (`vol`) and an image   *)
(* on the platter (`dur`).                                                 *)
(***************************************************************************)
EXTENDS Integers, Sequences

CONSTANTS
  Payloads,       \* the contents the source file may have
  Unit, Zero,     \* what a payload is made of; what an unsynced unit reads as
  ChunkLen,       \* payload units per DATA frame
  CheckpointLen,  \* units between two fsyncs of the partial
  MaxTotal,       \* max_total_len
  SourceStable,   \* the source changes only between attempts
  PowerLoss,      \* a crash of the receiver loses the page cache too
  MaxInFlight,    \* frames on the way in one direction
  MaxCover,       \* cover frames the pacing plan may add
  MaxFaults       \* cancellations, breaks, crashes, I/O errors, source changes

ASSUME TransferAssumption ==
  /\ Payloads \subseteq Seq(Unit) /\ Payloads # {} /\ Zero \in Unit
  /\ ChunkLen \in Nat \ {0} /\ CheckpointLen \in Nat \ {0} /\ MaxTotal \in Nat
  /\ SourceStable \in BOOLEAN /\ PowerLoss \in BOOLEAN
  /\ MaxInFlight \in Nat \ {0} /\ MaxCover \in Nat /\ MaxFaults \in Nat

VARIABLES
  src,               \* the source file
  part, dest, undo,  \* <dest>.part; <dest>; what <dest> was if a crash can undo the rename
  link, up, down,    \* the session; frames to the receiver; frames to the sender
  sPc, sTotal, sRead, sCover,           \* sender: total, the units hashed
  rPc, rTotal, rHash, rCkpt, rDone,     \* receiver: the units hashed (received
                                        \* counts them), last_checkpoint, hash.is_some()
  faults,
  claims,            \* history: payloads a DONE frame vouched for
  got                \* history: what the receiver had got in the last attempt

files  == <<part, dest, undo>>
net    == <<link, up, down>>
sender == <<sPc, sTotal, sRead, sCover>>
recver == <<rPc, rTotal, rHash, rCkpt, rDone>>
vars   == <<src, files, net, sender, recver, faults, claims, got>>

Prefix(s, n) == SubSeq(s, 1, n)
Least(m, n) == IF m < n THEN m ELSE n

\* write_all at the file's cursor.
Put(s, p, c) == SubSeq(s, 1, p) \o c \o SubSeq(s, p + Len(c) + 1, Len(s))

NoFile == [is |-> FALSE, vol |-> <<>>, dur |-> <<>>]

----------------------------------------------------------------------------
(* Session *)

Ended == {"idle", "ok", "err"}

\* A new session, by a fresh rendezvous, once both ends have given up the old one.
Connect ==
  /\ sPc \in Ended /\ rPc \in Ended
  /\ link' = TRUE /\ up' = <<>> /\ down' = <<>>
  /\ sPc' = "offer" /\ rPc' = "wait"
  /\ sTotal' = 0 /\ sRead' = <<>> /\ sCover' = 0
  /\ rTotal' = 0 /\ rHash' = <<>> /\ rCkpt' = 0 /\ rDone' = FALSE
  /\ UNCHANGED <<src, files, faults, claims, got>>

SendUp(m) == link /\ Len(up) < MaxInFlight /\ up' = Append(up, m)
SendDown(m) == link /\ Len(down) < MaxInFlight /\ down' = Append(down, m)
Arrived(ch, tag) == ch # <<>> /\ Head(ch).tag = tag

\* An error on one end drops its session, which breaks the connection.
SenderFails == sPc' = "err" /\ link' = FALSE
ReceiverFails == rPc' = "err" /\ link' = FALSE

----------------------------------------------------------------------------
(* Sender *)

SendOffer ==
  /\ sPc = "offer"
  /\ sTotal' = Len(src)
  /\ SendUp([tag |-> "OFFER", n |-> Len(src)])
  /\ sPc' = "resume"
  /\ UNCHANGED <<src, files, link, down, sRead, sCover, recver, faults, claims, got>>

ResumeByLength(n, hash) == IF n > 0 /\ n <= sTotal THEN n ELSE 0

\* The seam check: resume only from a prefix of what is about to be sent.
ResumeOffset(n, hash) ==
  IF n > 0 /\ n <= sTotal /\ hash = Prefix(src, n) THEN n ELSE 0

RecvResumeTrusting ==
  /\ sPc = "resume" /\ Arrived(down, "RESUME")
  /\ down' = Tail(down)
  /\ sRead' = Prefix(Head(down).hash, Least(Head(down).n, sTotal))
  /\ SendUp([tag |-> "START", n |-> Len(sRead')])
  /\ sPc' = "stream"
  /\ UNCHANGED <<src, files, link, sTotal, sCover, recver, faults, claims, got>>

\* A source that has shrunk below the announced prefix fails read_exact.
RecvResume ==
  /\ sPc = "resume" /\ Arrived(down, "RESUME")
  /\ down' = Tail(down)
  /\ LET m == Head(down)
         offset == ResumeOffset(m.n, m.hash)
     IN IF m.n > 0 /\ m.n <= sTotal /\ Len(src) < m.n
          THEN SenderFails /\ UNCHANGED <<up, sRead>>
          ELSE /\ SendUp([tag |-> "START", n |-> offset])
               /\ sRead' = Prefix(src, offset)
               /\ sPc' = "stream"
               /\ UNCHANGED link
  /\ UNCHANGED <<src, files, sTotal, sCover, recver, faults, claims, got>>

SendData ==
  /\ sPc = "stream" /\ Len(sRead) < sTotal
  /\ LET want == Least(sTotal - Len(sRead), ChunkLen)
         upto == Len(sRead) + want
         chunk == SubSeq(src, Len(sRead) + 1, upto)
     IN IF Len(src) < upto
          THEN SenderFails /\ UNCHANGED <<up, sRead>>
          ELSE /\ SendUp([tag |-> "DATA", c |-> chunk])
               /\ sRead' = sRead \o chunk
               /\ UNCHANGED <<link, sPc>>
  /\ UNCHANGED <<src, files, down, sTotal, sCover, recver, faults, claims, got>>

SendDone ==
  /\ sPc = "stream" /\ Len(sRead) >= sTotal
  /\ SendUp([tag |-> "DONE", hash |-> sRead])
  /\ claims' = claims \cup {sRead}
  /\ sPc' = "cover"
  /\ UNCHANGED <<src, files, link, down, sTotal, sRead, sCover, recver, faults, got>>

\* The ramp-down: planned_frames is drawn by Pacing::plan.
SendCover ==
  /\ sPc = "cover" /\ sCover < MaxCover
  /\ SendUp([tag |-> "COVER"])
  /\ sCover' = sCover + 1
  /\ UNCHANGED <<src, files, link, down, sPc, sTotal, sRead, recver, faults, claims, got>>

SendFinishUnacked ==
  /\ sPc = "cover"
  /\ SendUp([tag |-> "FINISH"])
  /\ sPc' = "ok"
  /\ UNCHANGED <<src, files, link, down, sTotal, sRead, sCover, recver, faults, claims, got>>

SendFinish ==
  /\ sPc = "cover"
  /\ SendUp([tag |-> "FINISH"])
  /\ sPc' = "ack"
  /\ UNCHANGED <<src, files, link, down, sTotal, sRead, sCover, recver, faults, claims, got>>

RecvAck ==
  /\ sPc = "ack" /\ Arrived(down, "ACK")
  /\ down' = Tail(down)
  /\ sPc' = "ok"
  /\ UNCHANGED <<src, files, link, up, sTotal, sRead, sCover, recver, faults, claims, got>>

----------------------------------------------------------------------------
(* Receiver *)

NothingRecoverable(len, total) == 0

\* Opening the partial: its length rounded down to a checkpoint counts as
\* received, the rest is cut off.
Recoverable(len, total) == Least((len \div CheckpointLen) * CheckpointLen, total)

RecvOffer ==
  /\ rPc = "wait" /\ Arrived(up, "OFFER")
  /\ up' = Tail(up)
  /\ LET total == Head(up).n
         have == Recoverable(Len(part.vol), total)
         kept == Prefix(part.vol, have)
     IN IF total > MaxTotal
          THEN ReceiverFails /\ UNCHANGED <<part, down, rTotal, rHash>>
          ELSE /\ part' = [part EXCEPT !.is = TRUE, !.vol = kept]
               /\ rTotal' = total
               /\ rHash' = kept
               /\ SendDown([tag |-> "RESUME", n |-> have, hash |-> kept])
               /\ rPc' = "start"
               /\ UNCHANGED link
  /\ UNCHANGED <<src, dest, undo, sender, rCkpt, rDone, faults, claims, got>>

RecvStartRemovingDest ==
  /\ rPc = "start" /\ Arrived(up, "START") /\ Head(up).n <= Len(rHash)
  /\ up' = Tail(up)
  /\ dest' = NoFile
  /\ part' = [part EXCEPT !.vol = Prefix(@, Head(up).n)]
  /\ rHash' = Prefix(rHash, Head(up).n)
  /\ rCkpt' = Head(up).n
  /\ got' = rHash'
  /\ rPc' = "loop"
  /\ UNCHANGED <<src, undo, link, down, sender, rTotal, rDone, faults, claims>>

RecvStartNoRewind ==
  /\ rPc = "start" /\ Arrived(up, "START")
  /\ up' = Tail(up)
  /\ IF Head(up).n # Len(rHash)
       THEN ReceiverFails /\ UNCHANGED <<rCkpt, got>>
       ELSE rCkpt' = Len(rHash) /\ got' = rHash /\ rPc' = "loop" /\ UNCHANGED link
  /\ UNCHANGED <<src, files, down, sender, rTotal, rHash, rDone, faults, claims>>

\* The sender may rewind the receiver, never move it forward.
RecvStart ==
  /\ rPc = "start" /\ Arrived(up, "START")
  /\ up' = Tail(up)
  /\ LET offset == Head(up).n
     IN IF offset > Len(rHash)
          THEN ReceiverFails /\ UNCHANGED <<part, rHash, rCkpt, got>>
          ELSE /\ part' = [part EXCEPT !.vol = Prefix(@, offset)]
               /\ rHash' = Prefix(rHash, offset)
               /\ rCkpt' = offset
               /\ got' = rHash'
               /\ rPc' = "loop"
               /\ UNCHANGED link
  /\ UNCHANGED <<src, dest, undo, down, sender, rTotal, rDone, faults, claims>>

\* Write and hash one chunk; a full checkpoint is synced before the next frame.
RecvData ==
  /\ rPc = "loop" /\ Arrived(up, "DATA")
  /\ up' = Tail(up)
  /\ LET chunk == Head(up).c
         received == Len(rHash) + Len(chunk)
     IN IF rDone \/ received > rTotal
          THEN ReceiverFails /\ UNCHANGED <<part, rHash, got>>
          ELSE /\ part' = [part EXCEPT !.vol = Put(@, Len(rHash), chunk)]
               /\ rHash' = rHash \o chunk
               /\ got' = rHash'
               /\ rPc' = IF received - rCkpt >= CheckpointLen THEN "sync" ELSE "loop"
               /\ UNCHANGED link
  /\ UNCHANGED <<src, dest, undo, down, sender, rTotal, rCkpt, rDone, faults, claims>>

SyncCheckpoint ==
  /\ rPc = "sync"
  /\ part' = [part EXCEPT !.dur = part.vol]
  /\ rCkpt' = Len(rHash)
  /\ rPc' = "loop"
  /\ UNCHANGED <<src, dest, undo, net, sender, rTotal, rHash, rDone, faults, claims, got>>

RecvCover ==
  /\ rPc = "loop" /\ Arrived(up, "COVER")
  /\ up' = Tail(up)
  /\ UNCHANGED <<src, files, link, down, sender, recver, faults, claims, got>>

\* finish_payload's checks.
Verified(hash) == Len(rHash) = rTotal /\ rHash = hash

\* finish_payload up to its sync_all; a mismatch leaves the partial in place.
RecvDone ==
  /\ rPc = "loop" /\ Arrived(up, "DONE")
  /\ up' = Tail(up)
  /\ IF ~rDone /\ Verified(Head(up).hash)
       THEN /\ part' = [part EXCEPT !.dur = part.vol]
            /\ rPc' = "rename"
            /\ UNCHANGED link
       ELSE ReceiverFails /\ UNCHANGED part
  /\ UNCHANGED <<src, dest, undo, down, sender, rTotal, rHash, rCkpt, rDone, faults,
                 claims, got>>

Rename ==
  /\ rPc = "rename"
  /\ dest' = part /\ part' = NoFile
  /\ undo' = <<dest>>
  /\ got' = <<>>
  /\ rPc' = "dirsync"
  /\ UNCHANGED <<src, net, sender, rTotal, rHash, rCkpt, rDone, faults, claims>>

\* sync_parent_dir is best effort: its result is ignored.
SyncParentDir ==
  /\ rPc = "dirsync"
  /\ undo' \in {<<>>, undo}
  /\ rDone' = TRUE
  /\ rPc' = "loop"
  /\ UNCHANGED <<src, part, dest, net, sender, rTotal, rHash, rCkpt, faults, claims, got>>

RecvFinish ==
  /\ rPc = "loop" /\ Arrived(up, "FINISH")
  /\ up' = Tail(up)
  /\ IF rDone THEN SendDown([tag |-> "ACK"]) /\ rPc' = "ok" /\ UNCHANGED link
              ELSE ReceiverFails /\ UNCHANGED down
  /\ UNCHANGED <<src, files, sender, rTotal, rHash, rCkpt, rDone, faults, claims, got>>

----------------------------------------------------------------------------
(* Everything that interrupts an attempt *)

SenderRetries == ~link /\ sPc \notin Ended /\ UNCHANGED vars

\* An end whose connection is gone fails at its next call on the session.
SenderLosesLink ==
  /\ ~link /\ sPc \notin Ended
  /\ sPc' = "err"
  /\ UNCHANGED <<src, files, net, sTotal, sRead, sCover, recver, faults, claims, got>>

ReceiverLosesLink ==
  /\ ~link /\ rPc \in {"wait", "start", "loop"}
  /\ rPc' = "err"
  /\ UNCHANGED <<src, files, net, sender, rTotal, rHash, rCkpt, rDone, faults, claims, got>>

Fault == faults < MaxFaults /\ faults' = faults + 1

\* The connection breaks, or its idle timeout ends a stalled one.
LinkBreaks ==
  /\ Fault /\ link
  /\ link' = FALSE
  /\ UNCHANGED <<src, files, up, down, sender, recver, claims, got>>

\* Cancel is looked at before each DATA frame and before each receive.
CancelSender ==
  /\ Fault /\ sPc = "stream" /\ Len(sRead) < sTotal
  /\ SenderFails
  /\ UNCHANGED <<src, files, up, down, sTotal, sRead, sCover, recver, claims, got>>

CancelReceiver ==
  /\ Fault /\ rPc = "loop"
  /\ ReceiverFails
  /\ UNCHANGED <<src, files, up, down, sender, rTotal, rHash, rCkpt, rDone, claims, got>>

\* A write, sync or rename of the receiver fails; a write may fail half way.
\* Assumed: the failure ends the attempt.  tokio::fs::File keeps the error of a
\* write for the next one, and sync_all does not return it, so a failed write of
\* the last DATA frame is taken to surface before the rename.
ReceiverIoError ==
  /\ Fault /\ rPc \in {"loop", "sync", "rename"}
  /\ IF Arrived(up, "DATA") /\ rPc = "loop" /\ ~rDone /\ Len(rHash) + Len(Head(up).c) <= rTotal
       THEN \E n \in 0..Len(Head(up).c) :
              part' = [part EXCEPT !.vol = Put(@, Len(rHash), Prefix(Head(up).c, n))]
       ELSE UNCHANGED part
  /\ ReceiverFails
  /\ UNCHANGED <<src, dest, undo, up, down, sender, rTotal, rHash, rCkpt, rDone, claims, got>>

\* What a power loss may leave of a file: a length between the two images', the
\* unsynced units new, old or zero-filled.
CrashImages(f) ==
  LET most == IF Len(f.vol) > Len(f.dur) THEN Len(f.vol) ELSE Len(f.dur)
      least == Least(Len(f.vol), Len(f.dur))
      New(i) == IF i <= Len(f.vol) THEN f.vol[i] ELSE f.dur[i]
      Was(i) == IF i <= Len(f.dur) THEN f.dur[i] ELSE Zero
  IN {[is |-> f.is, vol |-> img, dur |-> img] :
        img \in {[i \in 1..n |-> IF i \in lost THEN Was(i) ELSE New(i)] :
                   n \in least..most, lost \in SUBSET (1..most)}}

\* The receiving process is killed, or its machine loses power and with it
\* perhaps the rename.
ReceiverCrash ==
  /\ Fault
  /\ IF PowerLoss
       THEN /\ \/ dest' \in CrashImages(dest) /\ part' \in CrashImages(part)
               \/ undo # <<>> /\ dest' = undo[1] /\ part' \in CrashImages(dest)
            /\ undo' = <<>>
       ELSE UNCHANGED files
  /\ ReceiverFails
  /\ UNCHANGED <<src, up, down, sender, rTotal, rHash, rCkpt, rDone, claims, got>>

\* The vault that is being sent is rewritten by its owner.
ChangeSource ==
  /\ Fault /\ (SourceStable => sPc \in Ended)
  /\ src' \in Payloads \ {src}
  /\ UNCHANGED <<files, net, sender, recver, claims, got>>

----------------------------------------------------------------------------
Init ==
  /\ src \in Payloads
  /\ part = NoFile /\ dest = NoFile /\ undo = <<>>
  /\ link = FALSE /\ up = <<>> /\ down = <<>>
  /\ sPc = "idle" /\ sTotal = 0 /\ sRead = <<>> /\ sCover = 0
  /\ rPc = "idle" /\ rTotal = 0 /\ rHash = <<>> /\ rCkpt = 0 /\ rDone = FALSE
  /\ faults = 0 /\ claims = {} /\ got = <<>>

SenderStep ==
  \/ SendOffer \/ RecvResume \/ SendData \/ SendDone \/ SendCover \/ SendFinish
  \/ RecvAck \/ SenderLosesLink

ReceiverStep ==
  \/ RecvOffer \/ RecvStart \/ RecvData \/ SyncCheckpoint \/ RecvCover \/ RecvDone
  \/ Rename \/ SyncParentDir \/ RecvFinish \/ ReceiverLosesLink

Interruption ==
  \/ LinkBreaks \/ CancelSender \/ CancelReceiver \/ ReceiverIoError \/ ReceiverCrash
  \/ ChangeSource

Next == Connect \/ SenderStep \/ ReceiverStep \/ Interruption

Spec == Init /\ [][Next]_vars

\* Each peer's task is scheduled by its runtime as long as it can run.
FairSpec == Spec /\ WF_vars(SenderStep) /\ WF_vars(ReceiverStep)

----------------------------------------------------------------------------
(* Properties *)

Frame ==
  [tag : {"OFFER", "START"}, n : Nat] \cup [tag : {"RESUME"}, n : Nat, hash : Seq(Unit)]
    \cup [tag : {"DATA"}, c : Seq(Unit)] \cup [tag : {"DONE"}, hash : Seq(Unit)]
    \cup [tag : {"COVER", "FINISH", "ACK"}]
FileType == [is : BOOLEAN, vol : Seq(Unit), dur : Seq(Unit)]

\* Every variable keeps its type.
TypeOK ==
  /\ src \in Payloads
  /\ part \in FileType /\ dest \in FileType /\ undo \in Seq(FileType) /\ Len(undo) <= 1
  /\ link \in BOOLEAN /\ up \in Seq(Frame) /\ down \in Seq(Frame)
  /\ sPc \in Ended \cup {"offer", "resume", "stream", "cover", "ack"}
  /\ sTotal \in Nat /\ sRead \in Seq(Unit) /\ sCover \in Nat
  /\ rPc \in Ended \cup {"wait", "start", "loop", "sync", "rename", "dirsync"}
  /\ rTotal \in Nat /\ rHash \in Seq(Unit) /\ rCkpt \in Nat /\ rDone \in BOOLEAN
  /\ faults \in Nat /\ claims \subseteq Seq(Unit) /\ got \in Seq(Unit)

\* recv's promise: <dest> never exists half-written or unverified.  What is there
\* is, to the last unit, a payload the sender vouched for in a DONE frame, and it
\* is on the platter before its name is.
DestVerified == dest.is => dest.vol \in claims /\ dest.dur = dest.vol

\* The receiver implements the abstract register of module Delivery: whatever is
\* written, synced, renamed, lost or undone on the way, the destination goes from
\* nothing or one vouched payload to another in a single step (finish_payload).
Standing(f) == IF f.is THEN <<f.vol>> ELSE <<>>

Register == INSTANCE Delivery WITH
  Payload <- Seq(Unit), value <- Standing(dest), vouched <- claims,
  before <- IF undo = <<>> THEN <<>> ELSE <<Standing(undo[1])>>

DeliversAtomically == Register!Spec

\* With a source that is stable during each attempt, <dest> is one version of the
\* source: no resume joins the prefix of one version to the suffix of another.
DestIsOneVersion == SourceStable /\ dest.is => dest.vol \in Payloads

\* The seam check: the bytes the receiver keeps, across any number of resumes,
\* are a prefix of those the sender hashes in the running attempt.
SeamHolds ==
  rPc \in {"loop", "sync", "rename"} =>
    Len(rHash) <= Len(sRead) /\ rHash = Prefix(sRead, Len(rHash)) /\ (~rDone => part.vol = rHash)

\* The ACK makes the sender's success claim honest: the receiver has put exactly
\* this payload in place (a power loss may still undo an unsynced rename).
AckMeansDelivered == sPc = "ok" => dest.is /\ dest.vol = sRead

\* transfer.rs: "A crash costs at most one checkpoint of re-transfer": an attempt
\* resumes no further back than that from where the last one was cut off.
CrashCostsOneCheckpoint ==
  [][sPc = "resume" /\ sPc' = "stream" /\ Len(got) <= Len(src)
     /\ got = Prefix(src, Len(got))
       => Len(got) - Len(sRead') <= CheckpointLen]_vars

\* transfer.rs: after a hash mismatch a retry "will rewind to wherever the two
\* sides actually diverge": every unit of the partial that agrees is kept.
RewindsToDivergence ==
  [][sPc = "resume" /\ sPc' = "stream" =>
       \A n \in 1..Least(Len(rHash), Len(src)) :
         Prefix(rHash, n) = Prefix(src, n) => n <= Len(sRead')]_vars

\* An attempt ends on both sides, however it is interrupted.
AttemptEnds == sPc \notin Ended \/ rPc \notin Ended ~> sPc \in Ended /\ rPc \in Ended

\* Whatever earlier attempts left behind, one that nothing interrupts delivers the
\* source.
CleanAttemptDelivers ==
  sPc = "offer" /\ rPc = "wait" /\ link /\ faults = MaxFaults ~>
    sPc = "ok" /\ dest.is /\ dest.vol = src
=============================================================================
