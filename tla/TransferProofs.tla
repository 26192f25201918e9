--------------------------- MODULE TransferProofs ---------------------------
(* Proofs that recv keeps its promise about <dest>, for payloads, chunk and    *)
(* checkpoint lengths of any size and any number of attempts and faults.      *)
EXTENDS Transfer, SequenceTheorems, TLAPS

USE TransferAssumption

\* The fields of a frame are determined by its tag.
LEMMA FrameFields ==
  ASSUME NEW m \in Frame
  PROVE  /\ m.tag \in {"OFFER", "START", "RESUME"} => m.n \in Nat
         /\ m.tag \in {"RESUME", "DONE"} => m.hash \in Seq(Unit)
         /\ m.tag = "DATA" => m.c \in Seq(Unit)
BY DEF Frame

\* Cutting a file to a length it has: set_len and the hashed prefix.
LEMMA PrefixType ==
  ASSUME NEW s \in Seq(Unit), NEW n \in Nat, n <= Len(s)
  PROVE  Prefix(s, n) \in Seq(Unit) /\ Len(Prefix(s, n)) = n
BY DEF Prefix

\* The whole of a sequence is its own prefix.
LEMMA WholePrefix ==
  ASSUME NEW s \in Seq(Unit)
  PROVE  Prefix(s, Len(s)) = s
BY DEF Prefix

\* A write at the cursor keeps a file a sequence of units, and at the end of the
\* file it appends.
LEMMA PutType ==
  ASSUME NEW s \in Seq(Unit), NEW c \in Seq(Unit), NEW p \in Nat, p <= Len(s)
  PROVE  Put(s, p, c) \in Seq(Unit)
BY DEF Put

LEMMA PutAtEnd ==
  ASSUME NEW s \in Seq(Unit), NEW c \in Seq(Unit)
  PROVE  Put(s, Len(s), c) = s \o c
<1>1. SubSeq(s, 1, Len(s)) = s
  BY SubSeqFull
<1>2. SubSeq(s, Len(s) + Len(c) + 1, Len(s)) = <<>>
  BY SubSeqEmpty
<1>3. s \o c \in Seq(Unit)
  OBVIOUS
<1>4. (s \o c) \o <<>> = s \o c
  BY <1>3, ConcatEmptySeq
<1> QED
  BY <1>1, <1>2, <1>4 DEF Put

\* What the receiver recovers is no longer than the partial or the offer.
LEMMA RecoverableBound ==
  ASSUME NEW len \in Nat, NEW total \in Nat
  PROVE  /\ Recoverable(len, total) \in Nat
         /\ Recoverable(len, total) <= len
         /\ Recoverable(len, total) <= total
BY DEF Recoverable, Least

\* What a power loss makes of a file, unit by unit.
New(f, i) == IF i <= Len(f.vol) THEN f.vol[i] ELSE f.dur[i]
Was(f, i) == IF i <= Len(f.dur) THEN f.dur[i] ELSE Zero
Most(f) == IF Len(f.vol) > Len(f.dur) THEN Len(f.vol) ELSE Len(f.dur)
Image(f, n, lost) == [i \in 1..n |-> IF i \in lost THEN Was(f, i) ELSE New(f, i)]

LEMMA CrashImageForm ==
  ASSUME NEW f, NEW g \in CrashImages(f)
  PROVE  \E n \in Least(Len(f.vol), Len(f.dur))..Most(f) : \E lost \in SUBSET (1..Most(f)) :
           g = [is |-> f.is, vol |-> Image(f, n, lost), dur |-> Image(f, n, lost)]
BY DEF CrashImages, Most, Image, New, Was

\* A power loss leaves a file a file, and a file that is on the platter as it is.
LEMMA CrashImageType ==
  ASSUME NEW f \in FileType, NEW g \in CrashImages(f)
  PROVE  g \in FileType
<1>1. PICK n \in Least(Len(f.vol), Len(f.dur))..Most(f), lost \in SUBSET (1..Most(f)) :
        g = [is |-> f.is, vol |-> Image(f, n, lost), dur |-> Image(f, n, lost)]
  BY CrashImageForm
<1>2. f.is \in BOOLEAN /\ f.vol \in Seq(Unit) /\ f.dur \in Seq(Unit)
  BY DEF FileType
<1>3. n \in Nat /\ n <= Most(f)
  BY <1>2 DEF Least, Most
<1>4. \A i \in 1..n : New(f, i) \in Unit /\ Was(f, i) \in Unit
  BY <1>2, <1>3 DEF New, Was, Most
<1>5. Image(f, n, lost) \in [1..n -> Unit]
  BY <1>4 DEF Image
<1>6. Image(f, n, lost) \in Seq(Unit)
  BY <1>3, <1>5, SeqDef
<1> QED
  BY <1>1, <1>2, <1>6 DEF FileType

LEMMA CrashKeepsSynced ==
  ASSUME NEW f \in FileType, f.dur = f.vol, NEW g \in CrashImages(f)
  PROVE  g = f
<1>1. PICK n \in Least(Len(f.vol), Len(f.dur))..Most(f), lost \in SUBSET (1..Most(f)) :
        g = [is |-> f.is, vol |-> Image(f, n, lost), dur |-> Image(f, n, lost)]
  BY CrashImageForm
<1>2. f.vol \in Seq(Unit) /\ f = [is |-> f.is, vol |-> f.vol, dur |-> f.vol]
  BY DEF FileType
<1>3. n = Len(f.vol)
  BY <1>2 DEF Least, Most
<1>4. \A i \in 1..n : Was(f, i) = f.vol[i] /\ New(f, i) = f.vol[i]
  BY <1>2, <1>3 DEF New, Was
<1>5. Image(f, n, lost) = [i \in 1..n |-> f.vol[i]]
  BY <1>4 DEF Image
<1>6. f.vol = [i \in 1..n |-> f.vol[i]]
  BY <1>2, <1>3
<1> QED
  BY <1>1, <1>2, <1>5, <1>6

\* Every DONE frame on the way carries a hash of C.
Vouched(q, C) == \A i \in 1..Len(q) : q[i].tag = "DONE" => q[i].hash \in C

Sound(f, C) == f.is => f.vol \in C /\ f.dur = f.vol

\* The receiver's half of the inductive invariant.  Until the rename the partial
\* is what has been hashed; what is about to be renamed has been vouched for and
\* is on the platter; <dest>, and what a crash may put back there, is sound.
ReceiverInv ==
  /\ rPc \in {"start", "loop", "sync", "rename"} /\ ~rDone => part.vol = rHash
  /\ rPc \in {"wait", "start", "sync", "rename", "dirsync"} => ~rDone
  /\ rPc = "rename" => part.vol \in claims /\ part.dur = part.vol
  /\ Vouched(up, claims)
  /\ Sound(dest, claims) /\ \A i \in 1..Len(undo) : Sound(undo[i], claims)

\* The sender's half: what a stable source is read into is a prefix of it, so a
\* DONE frame only vouches for a whole version.
SenderInv ==
  SourceStable =>
    /\ claims \subseteq Payloads
    /\ sPc \in {"resume", "stream"} => sTotal = Len(src)
    /\ sPc = "stream" => Len(sRead) <= sTotal /\ sRead = Prefix(src, Len(sRead))

\* What a send and a receive do to a stream of frames.
LEMMA SendFrame ==
  ASSUME NEW q \in Seq(Frame), NEW m \in Frame, NEW C, NEW D,
         C \subseteq D, Vouched(q, C), m.tag = "DONE" => m.hash \in D
  PROVE  Append(q, m) \in Seq(Frame) /\ Vouched(Append(q, m), D)
BY DEF Vouched

LEMMA TakeFrame ==
  ASSUME NEW q \in Seq(Frame), q # <<>>
  PROVE  /\ Head(q) \in Frame /\ Tail(q) \in Seq(Frame)
         /\ \A C : Vouched(q, C) =>
              Vouched(Tail(q), C) /\ (Head(q).tag = "DONE" => Head(q).hash \in C)
BY DEF Vouched

\* The frames send and recv write.
LEMMA Frames ==
  /\ \A n \in Nat : [tag |-> "OFFER", n |-> n] \in Frame /\ [tag |-> "START", n |-> n] \in Frame
  /\ \A n \in Nat, h \in Seq(Unit) : [tag |-> "RESUME", n |-> n, hash |-> h] \in Frame
  /\ \A c \in Seq(Unit) : [tag |-> "DATA", c |-> c] \in Frame
  /\ \A h \in Seq(Unit) : [tag |-> "DONE", hash |-> h] \in Frame
  /\ [tag |-> "COVER"] \in Frame /\ [tag |-> "FINISH"] \in Frame /\ [tag |-> "ACK"] \in Frame
BY DEF Frame

\* Every step keeps the types; that set_len and write_all stay within the partial
\* is what ReceiverInv is needed for.
LEMMA TypeStep ==
  TypeOK /\ ReceiverInv /\ [Next]_vars => TypeOK'
<1> SUFFICES ASSUME TypeOK, ReceiverInv, [Next]_vars PROVE TypeOK'
  OBVIOUS
<1> USE DEF Ended
<1>0. src \in Seq(Unit) /\ Len(src) \in Nat
  BY DEF TypeOK
<1>1. CASE Connect
  <2>1. link' \in BOOLEAN /\ rDone' \in BOOLEAN
    BY <1>1 DEF Connect
  <2>2. /\ up' \in Seq(Frame) /\ down' \in Seq(Frame) /\ sRead' \in Seq(Unit)
        /\ rHash' \in Seq(Unit)
    BY <1>1 DEF Connect
  <2>3. /\ sPc' = "offer" /\ rPc' = "wait" /\ sTotal' = 0 /\ sCover' = 0 /\ rTotal' = 0
        /\ rCkpt' = 0 /\ UNCHANGED <<src, files, faults, claims, got>>
    BY <1>1 DEF Connect
  <2> QED
    BY <2>1, <2>2, <2>3 DEF files, TypeOK
<1>2. CASE SendOffer
  <2>1. up' \in Seq(Frame)
    <3>1. [tag |-> "OFFER", n |-> Len(src)] \in Frame
      BY <1>0, Frames
    <3> QED
      BY <1>2, <3>1 DEF SendOffer, SendUp, TypeOK
  <2> QED
    BY <1>0, <1>2, <2>1 DEF SendOffer, files, recver, TypeOK
<1>3. CASE RecvResume
  <2> DEFINE m == Head(down)
             offset == ResumeOffset(m.n, m.hash)
  <2>1. m \in Frame /\ down' \in Seq(Frame) /\ m.tag = "RESUME"
    BY <1>3, TakeFrame DEF RecvResume, Arrived, TypeOK
  <2>2. CASE m.n > 0 /\ m.n <= sTotal /\ Len(src) < m.n
    BY <1>3, <2>1, <2>2 DEF RecvResume, SenderFails, files, recver, TypeOK
  <2>3. CASE ~(m.n > 0 /\ m.n <= sTotal /\ Len(src) < m.n)
    <3>1. offset \in Nat /\ offset <= Len(src)
      BY <1>0, <2>1, <2>3, FrameFields DEF ResumeOffset, TypeOK
    <3> HIDE DEF offset
    <3>2. /\ SendUp([tag |-> "START", n |-> offset]) /\ sRead' = Prefix(src, offset)
          /\ sPc' = "stream" /\ UNCHANGED link
          /\ UNCHANGED <<src, files, sTotal, sCover, recver, faults, claims, got>>
      BY <1>3, <2>3 DEF RecvResume, offset
    <3>3. up' \in Seq(Frame) /\ sRead' \in Seq(Unit)
      <4>1. [tag |-> "START", n |-> offset] \in Frame
        BY <3>1, Frames
      <4>2. up' \in Seq(Frame)
        BY <3>2, <4>1 DEF SendUp, TypeOK
      <4> QED
        BY <1>0, <3>1, <3>2, <4>2, PrefixType
    <3> QED
      BY <2>1, <3>2, <3>3 DEF files, recver, TypeOK
  <2> QED
    BY <2>2, <2>3
<1>4. CASE SendData
  <2> DEFINE upto == Len(sRead) + Least(sTotal - Len(sRead), ChunkLen)
             chunk == SubSeq(src, Len(sRead) + 1, upto)
  <2>1. CASE Len(src) < upto
    BY <1>4, <2>1 DEF SendData, SenderFails, files, recver, TypeOK
  <2>2. CASE ~(Len(src) < upto)
    <3>1. upto \in Nat /\ upto <= Len(src)
      BY <1>0, <1>4, <2>2 DEF SendData, Least, TypeOK
    <3>2. chunk \in Seq(Unit)
      BY <1>0, <3>1 DEF TypeOK
    <3>3. /\ SendUp([tag |-> "DATA", c |-> chunk]) /\ sRead' = sRead \o chunk
          /\ UNCHANGED <<link, sPc>>
          /\ UNCHANGED <<src, files, down, sTotal, sCover, recver, faults, claims, got>>
      BY <1>4, <2>2 DEF SendData
    <3> HIDE DEF chunk
    <3>4. up' \in Seq(Frame) /\ sRead' \in Seq(Unit)
      BY <3>2, <3>3, Frames DEF SendUp, TypeOK
    <3> QED
      BY <3>3, <3>4 DEF files, recver, TypeOK
  <2> QED
    BY <2>1, <2>2
<1>5. CASE SendDone
  BY <1>5, Frames DEF SendDone, SendUp, files, recver, TypeOK
<1>6. CASE SendCover
  BY <1>6, Frames DEF SendCover, SendUp, files, recver, TypeOK
<1>7. CASE SendFinish
  BY <1>7, Frames DEF SendFinish, SendUp, files, recver, TypeOK
<1>8. CASE RecvAck
  BY <1>8, TakeFrame DEF RecvAck, Arrived, files, recver, TypeOK
<1>9. CASE SenderLosesLink
  BY <1>9 DEF SenderLosesLink, files, net, recver, TypeOK
<1>10. CASE RecvOffer
  <2> DEFINE total == Head(up).n
             have == Recoverable(Len(part.vol), total)
             kept == Prefix(part.vol, have)
  <2>1. Head(up) \in Frame /\ up' \in Seq(Frame) /\ Head(up).tag = "OFFER"
    BY <1>10, TakeFrame DEF RecvOffer, Arrived, TypeOK
  <2>2. total \in Nat /\ part.vol \in Seq(Unit) /\ Len(part.vol) \in Nat
    BY <2>1, FrameFields DEF TypeOK, FileType
  <2>3. have \in Nat /\ have <= Len(part.vol)
    BY <2>2, RecoverableBound
  <2>4. kept \in Seq(Unit)
    BY <2>2, <2>3, PrefixType
  <2> HIDE DEF have, kept
  <2>5. CASE total > MaxTotal
    BY <1>10, <2>1, <2>5 DEF RecvOffer, ReceiverFails, sender, TypeOK
  <2>6. CASE ~(total > MaxTotal)
    <3>1. /\ part' = [part EXCEPT !.is = TRUE, !.vol = kept] /\ rTotal' = total /\ rHash' = kept
          /\ SendDown([tag |-> "RESUME", n |-> have, hash |-> kept])
          /\ rPc' = "start" /\ UNCHANGED link
          /\ UNCHANGED <<src, dest, undo, sender, rCkpt, rDone, faults, claims, got>>
      BY <1>10, <2>6 DEF RecvOffer, have, kept
    <3>2. part' \in FileType
      BY <2>4, <3>1 DEF TypeOK, FileType
    <3>3. down' \in Seq(Frame)
      BY <2>3, <2>4, <3>1, Frames DEF SendDown, TypeOK
    <3> QED
      BY <2>1, <2>2, <2>4, <3>1, <3>2, <3>3 DEF sender, TypeOK
  <2> QED
    BY <2>5, <2>6
<1>11. CASE RecvStart
  <2> DEFINE offset == Head(up).n
  <2>1. Head(up) \in Frame /\ up' \in Seq(Frame) /\ Head(up).tag = "START"
    BY <1>11, TakeFrame DEF RecvStart, Arrived, TypeOK
  <2>2. CASE offset > Len(rHash)
    BY <1>11, <2>1, <2>2 DEF RecvStart, ReceiverFails, sender, TypeOK
  <2>3. CASE ~(offset > Len(rHash))
    <3>1. offset \in Nat /\ part.vol = rHash /\ rHash \in Seq(Unit) /\ offset <= Len(rHash)
      <4>1. offset \in Nat
        BY <2>1, FrameFields
      <4>2. part.vol = rHash
        BY <1>11 DEF RecvStart, ReceiverInv
      <4> QED
        BY <2>3, <4>1, <4>2 DEF TypeOK
    <3>2. Prefix(rHash, offset) \in Seq(Unit)
      BY <3>1, PrefixType
    <3>3. /\ part' = [part EXCEPT !.vol = Prefix(rHash, offset)] /\ rHash' = Prefix(rHash, offset)
          /\ rCkpt' = offset /\ got' = rHash' /\ rPc' = "loop" /\ UNCHANGED link
          /\ UNCHANGED <<src, dest, undo, down, sender, rTotal, rDone, faults, claims>>
      BY <1>11, <2>3, <3>1 DEF RecvStart
    <3>4. part' \in FileType
      BY <3>2, <3>3 DEF TypeOK, FileType
    <3> QED
      BY <2>1, <3>1, <3>2, <3>3, <3>4 DEF sender, TypeOK
  <2> QED
    BY <2>2, <2>3
<1>12. CASE RecvData
  <2> DEFINE chunk == Head(up).c
             received == Len(rHash) + Len(chunk)
  <2>1. Head(up) \in Frame /\ up' \in Seq(Frame) /\ Head(up).tag = "DATA"
    BY <1>12, TakeFrame DEF RecvData, Arrived, TypeOK
  <2>2. CASE rDone \/ received > rTotal
    BY <1>12, <2>1, <2>2 DEF RecvData, ReceiverFails, sender, TypeOK
  <2>3. CASE ~(rDone \/ received > rTotal)
    <3>1. chunk \in Seq(Unit) /\ part.vol = rHash /\ rHash \in Seq(Unit)
      BY <1>12, <2>1, <2>3, FrameFields DEF RecvData, ReceiverInv, TypeOK
    <3>2. Put(rHash, Len(rHash), chunk) \in Seq(Unit) /\ rHash \o chunk \in Seq(Unit)
      <4>1. rHash \o chunk \in Seq(Unit)
        BY <3>1
      <4> QED
        BY <3>1, <4>1, PutAtEnd
    <3>3. /\ part' = [part EXCEPT !.vol = Put(rHash, Len(rHash), chunk)]
          /\ rHash' = rHash \o chunk /\ got' = rHash' /\ rPc' \in {"sync", "loop"}
          /\ UNCHANGED <<link, src, dest, undo, down, sender, rTotal, rCkpt, rDone, faults, claims>>
      BY <1>12, <2>3, <3>1 DEF RecvData
    <3>4. part' \in FileType
      BY <3>2, <3>3 DEF TypeOK, FileType
    <3> QED
      BY <2>1, <3>2, <3>3, <3>4 DEF sender, TypeOK
  <2> QED
    BY <2>2, <2>3
<1>13. CASE SyncCheckpoint
  <2>1. part' \in FileType
    BY <1>13 DEF SyncCheckpoint, TypeOK, FileType
  <2>2. rCkpt' \in Nat /\ rPc' = "loop"
    BY <1>13 DEF SyncCheckpoint, TypeOK
  <2>3. /\ UNCHANGED <<link, up, down>> /\ UNCHANGED <<sPc, sTotal, sRead, sCover>>
        /\ UNCHANGED <<src, dest, undo, rTotal, rHash, rDone, faults, claims, got>>
    BY <1>13 DEF SyncCheckpoint, net, sender
  <2> QED
    BY <2>1, <2>2, <2>3 DEF TypeOK
<1>14. CASE RecvCover
  BY <1>14, TakeFrame DEF RecvCover, Arrived, files, sender, recver, TypeOK
<1>15. CASE RecvDone
  <2>1. part' \in FileType
    BY <1>15 DEF RecvDone, ReceiverFails, TypeOK, FileType
  <2>2. up' \in Seq(Frame)
    BY <1>15, TakeFrame DEF RecvDone, Arrived, TypeOK
  <2>3. link' \in BOOLEAN /\ rPc' \in {"rename", "err"}
    BY <1>15 DEF RecvDone, ReceiverFails, TypeOK
  <2>4. UNCHANGED <<src, dest, undo, down, sender, rTotal, rHash, rCkpt, rDone, faults, claims, got>>
    BY <1>15 DEF RecvDone
  <2> QED
    BY <2>1, <2>2, <2>3, <2>4 DEF sender, TypeOK
<1>16. CASE Rename
  <2>1. part' \in FileType /\ dest' \in FileType /\ undo' \in Seq(FileType) /\ Len(undo') = 1
    BY <1>16 DEF Rename, NoFile, TypeOK, FileType
  <2>2. rPc' = "dirsync" /\ got' = <<>>
    BY <1>16 DEF Rename
  <2>3. /\ UNCHANGED <<link, up, down>> /\ UNCHANGED <<sPc, sTotal, sRead, sCover>>
        /\ UNCHANGED <<src, rTotal, rHash, rCkpt, rDone, faults, claims>>
    BY <1>16 DEF Rename, net, sender
  <2> QED
    BY <2>1, <2>2, <2>3 DEF TypeOK
<1>17. CASE SyncParentDir
  <2>1. undo' \in Seq(FileType) /\ Len(undo') <= 1
    <3>1. CASE undo' = <<>>
      BY <3>1
    <3>2. CASE undo' = undo
      BY <3>2 DEF TypeOK
    <3> QED
      BY <1>17, <3>1, <3>2 DEF SyncParentDir
  <2>2. rPc' = "loop" /\ rDone' = TRUE
    BY <1>17 DEF SyncParentDir
  <2>3. /\ UNCHANGED <<link, up, down>> /\ UNCHANGED <<sPc, sTotal, sRead, sCover>>
        /\ UNCHANGED <<src, part, dest, rTotal, rHash, rCkpt, faults, claims, got>>
    BY <1>17 DEF SyncParentDir, net, sender
  <2> QED
    BY <2>1, <2>2, <2>3 DEF TypeOK
<1>18. CASE RecvFinish
  <2>1. up' \in Seq(Frame)
    BY <1>18, TakeFrame DEF RecvFinish, Arrived, TypeOK
  <2>2. down' \in Seq(Frame)
    <3>1. down' = down \/ down' = Append(down, [tag |-> "ACK"])
      BY <1>18 DEF RecvFinish, SendDown
    <3>2. [tag |-> "ACK"] \in Frame
      BY Frames
    <3>3. down \in Seq(Frame)
      BY DEF TypeOK
    <3> QED
      BY <3>1, <3>2, <3>3, AppendProperties
  <2>3. link' \in BOOLEAN /\ rPc' \in {"ok", "err"}
    BY <1>18 DEF RecvFinish, ReceiverFails, TypeOK
  <2>4. UNCHANGED <<src, files, sender, rTotal, rHash, rCkpt, rDone, faults, claims, got>>
    BY <1>18 DEF RecvFinish
  <2> QED
    BY <2>1, <2>2, <2>3, <2>4 DEF files, sender, TypeOK
<1>19. CASE ReceiverLosesLink
  BY <1>19 DEF ReceiverLosesLink, files, net, sender, TypeOK
<1>20. CASE LinkBreaks
  <2>1. link' \in BOOLEAN
    BY <1>20 DEF LinkBreaks
  <2>2. faults' \in Nat
    BY <1>20 DEF LinkBreaks, Fault, TypeOK
  <2> QED
    BY <1>20, <2>1, <2>2 DEF LinkBreaks, files, sender, recver, TypeOK
<1>21. CASE CancelSender
  <2>1. link' \in BOOLEAN /\ sPc' = "err"
    BY <1>21 DEF CancelSender, SenderFails
  <2>2. faults' \in Nat
    BY <1>21 DEF CancelSender, Fault, TypeOK
  <2> QED
    BY <1>21, <2>1, <2>2 DEF CancelSender, files, recver, TypeOK
<1>22. CASE CancelReceiver
  <2>1. link' \in BOOLEAN /\ rPc' = "err"
    BY <1>22 DEF CancelReceiver, ReceiverFails
  <2>2. faults' \in Nat
    BY <1>22 DEF CancelReceiver, Fault, TypeOK
  <2> QED
    BY <1>22, <2>1, <2>2 DEF CancelReceiver, files, sender, TypeOK
<1>23. CASE ReceiverIoError
  <2>1. part' \in FileType
    <3>1. CASE Arrived(up, "DATA") /\ rPc = "loop" /\ ~rDone /\ Len(rHash) + Len(Head(up).c) <= rTotal
      <4>1. PICK n \in 0..Len(Head(up).c) :
              part' = [part EXCEPT !.vol = Put(part.vol, Len(rHash), Prefix(Head(up).c, n))]
        BY <1>23, <3>1 DEF ReceiverIoError
      <4>2. Head(up).c \in Seq(Unit)
        BY <3>1, TakeFrame, FrameFields DEF Arrived, TypeOK
      <4>3. Prefix(Head(up).c, n) \in Seq(Unit)
        BY <4>2, PrefixType
      <4>4. part.vol = rHash /\ rHash \in Seq(Unit) /\ Len(rHash) \in Nat
        BY <3>1 DEF ReceiverInv, TypeOK
      <4>5. Put(part.vol, Len(rHash), Prefix(Head(up).c, n)) \in Seq(Unit)
        BY <4>3, <4>4, PutType
      <4> QED
        BY <4>1, <4>5 DEF TypeOK, FileType
    <3>2. CASE UNCHANGED part
      BY <3>2 DEF TypeOK
    <3> QED
      BY <1>23, <3>1, <3>2 DEF ReceiverIoError
  <2>2. link' \in BOOLEAN /\ rPc' = "err"
    BY <1>23 DEF ReceiverIoError, ReceiverFails
  <2>3. faults' \in Nat
    <3>1. faults' = faults + 1
      BY <1>23 DEF ReceiverIoError, Fault
    <3> QED
      BY <3>1 DEF TypeOK
  <2>4. UNCHANGED <<src, dest, undo, up, down, sender, rTotal, rHash, rCkpt, rDone, claims, got>>
    BY <1>23 DEF ReceiverIoError
  <2> QED
    BY <2>1, <2>2, <2>3, <2>4 DEF sender, TypeOK
<1>24. CASE ReceiverCrash
  <2>1. part' \in FileType /\ dest' \in FileType /\ undo' \in Seq(FileType) /\ Len(undo') <= 1
    <3>1. CASE UNCHANGED files
      BY <3>1 DEF files, TypeOK
    <3>2. CASE dest' \in CrashImages(dest) /\ part' \in CrashImages(part) /\ undo' = <<>>
      BY <3>2, CrashImageType DEF TypeOK
    <3>3. CASE undo # <<>> /\ dest' = undo[1] /\ part' \in CrashImages(dest) /\ undo' = <<>>
      <4>1. undo[1] \in FileType
        BY <3>3 DEF TypeOK
      <4> QED
        BY <3>3, <4>1, CrashImageType DEF TypeOK
    <3> QED
      BY <1>24, <3>1, <3>2, <3>3 DEF ReceiverCrash
  <2>2. link' \in BOOLEAN /\ rPc' = "err"
    BY <1>24 DEF ReceiverCrash, ReceiverFails
  <2>3. faults' \in Nat
    BY <1>24 DEF ReceiverCrash, Fault, TypeOK
  <2>4. UNCHANGED <<src, up, down, sender, rTotal, rHash, rCkpt, rDone, claims, got>>
    BY <1>24 DEF ReceiverCrash
  <2> QED
    BY <2>1, <2>2, <2>3, <2>4 DEF sender, TypeOK
<1>25. CASE ChangeSource
  BY <1>25 DEF ChangeSource, Fault, files, net, sender, recver, TypeOK
<1>26. CASE UNCHANGED vars
  BY <1>26 DEF vars, files, net, sender, recver, TypeOK
<1> QED
  BY <1>1, <1>2, <1>3, <1>4, <1>5, <1>6, <1>7, <1>8, <1>9, <1>10, <1>11, <1>12, <1>13,
     <1>14, <1>15, <1>16, <1>17, <1>18, <1>19, <1>20, <1>21, <1>22, <1>23, <1>24, <1>25, <1>26
     DEF Next, SenderStep, ReceiverStep, Interruption

\* ReceiverInv outlives a frame the receiver refuses, which ends its attempt, and
\* what the sender does, which only adds frames.
LEMMA ReceiverInvFails ==
  ASSUME TypeOK, ReceiverInv, rPc' = "err", UNCHANGED <<dest, undo, claims>>,
         up # <<>>, up' = Tail(up)
  PROVE  ReceiverInv'
<1>1. Vouched(up', claims)
  BY TakeFrame DEF TypeOK, ReceiverInv
<1> QED
  BY <1>1 DEF ReceiverInv

LEMMA ReceiverInvSend ==
  ASSUME TypeOK, ReceiverInv, UNCHANGED <<files, recver>>, claims \subseteq claims',
         NEW m \in Frame, m.tag = "DONE" => m.hash \in claims', up' = Append(up, m)
  PROVE  ReceiverInv'
<1>1. Vouched(up', claims')
  BY SendFrame DEF TypeOK, ReceiverInv
<1> QED
  BY <1>1 DEF ReceiverInv, Sound, files, recver

LEMMA ReceiverInvIdle ==
  ASSUME ReceiverInv, UNCHANGED <<files, recver, claims, up>>
  PROVE  ReceiverInv'
BY DEF ReceiverInv, files, recver

LEMMA ReceiverInvStep ==
  TypeOK /\ ReceiverInv /\ [Next]_vars => ReceiverInv'
<1> SUFFICES ASSUME TypeOK, ReceiverInv, [Next]_vars PROVE ReceiverInv'
  OBVIOUS
<1>0. src \in Seq(Unit) /\ Len(src) \in Nat
  BY DEF TypeOK
<1>1. CASE Connect
  <2>1. Vouched(<<>>, claims)
    BY DEF Vouched
  <2> QED
    BY <1>1, <2>1 DEF Connect, files, ReceiverInv
<1>2. CASE SendOffer
  BY <1>0, <1>2, Frames, ReceiverInvSend DEF SendOffer, SendUp
<1>3. CASE RecvResume
  <2> DEFINE offset == ResumeOffset(Head(down).n, Head(down).hash)
  <2>1. UNCHANGED <<files, recver, claims>>
    BY <1>3 DEF RecvResume
  <2>2. up' = up \/ up' = Append(up, [tag |-> "START", n |-> offset])
    BY <1>3 DEF RecvResume, SendUp
  <2>3. offset \in Nat
    <3>1. Head(down) \in Frame /\ Head(down).tag = "RESUME"
      BY <1>3, TakeFrame DEF RecvResume, Arrived, TypeOK
    <3> QED
      BY <3>1, FrameFields DEF ResumeOffset
  <2> HIDE DEF offset
  <2> QED
    BY <2>1, <2>2, <2>3, Frames, ReceiverInvSend, ReceiverInvIdle
<1>4. CASE SendData
  <2> DEFINE upto == Len(sRead) + Least(sTotal - Len(sRead), ChunkLen)
             chunk == SubSeq(src, Len(sRead) + 1, upto)
  <2>1. UNCHANGED <<files, recver, claims>>
    BY <1>4 DEF SendData
  <2>2. CASE Len(src) < upto
    BY <1>4, <2>1, <2>2, ReceiverInvIdle DEF SendData
  <2>3. CASE ~(Len(src) < upto)
    <3>1. up' = Append(up, [tag |-> "DATA", c |-> chunk])
      BY <1>4, <2>3 DEF SendData, SendUp
    <3>2. chunk \in Seq(Unit)
      BY <1>0, <1>4, <2>3 DEF SendData, Least, TypeOK
    <3> HIDE DEF chunk
    <3> QED
      BY <2>1, <3>1, <3>2, Frames, ReceiverInvSend
  <2> QED
    BY <2>2, <2>3
<1>5. CASE SendDone
  <2>1. sRead \in Seq(Unit)
    BY DEF TypeOK
  <2> QED
    BY <1>5, <2>1, Frames, ReceiverInvSend DEF SendDone, SendUp
<1>6. CASE SendCover
  BY <1>6, Frames, ReceiverInvSend DEF SendCover, SendUp
<1>7. CASE SendFinish
  BY <1>7, Frames, ReceiverInvSend DEF SendFinish, SendUp
<1>8. CASE RecvAck \/ SenderLosesLink \/ LinkBreaks \/ CancelSender \/ ChangeSource
  BY <1>8, ReceiverInvIdle DEF RecvAck, SenderLosesLink, LinkBreaks, CancelSender, ChangeSource, net
<1>9. CASE RecvOffer
  <2>1. Arrived(up, "OFFER") /\ up' = Tail(up) /\ UNCHANGED <<dest, undo, claims, rDone>> /\ rPc = "wait"
    BY <1>9 DEF RecvOffer
  <2>2. CASE rPc' = "err"
    BY <2>1, <2>2, ReceiverInvFails DEF Arrived
  <2>3. CASE rPc' = "start" /\ part'.vol = rHash'
    <3>1. Vouched(up', claims)
      BY <2>1, TakeFrame DEF Arrived, TypeOK, ReceiverInv
    <3> QED
      BY <2>1, <2>3, <3>1 DEF ReceiverInv
  <2> QED
    BY <1>9, <2>2, <2>3 DEF RecvOffer, ReceiverFails, TypeOK, FileType
<1>10. CASE RecvStart
  <2>1. Arrived(up, "START") /\ up' = Tail(up) /\ UNCHANGED <<dest, undo, claims, rDone>> /\ rPc = "start"
    BY <1>10 DEF RecvStart
  <2>2. CASE rPc' = "err"
    BY <2>1, <2>2, ReceiverInvFails DEF Arrived
  <2>3. CASE rPc' = "loop" /\ part'.vol = rHash'
    <3>1. Vouched(up', claims)
      BY <2>1, TakeFrame DEF Arrived, TypeOK, ReceiverInv
    <3> QED
      BY <2>1, <2>3, <3>1 DEF ReceiverInv
  <2>4. part.vol = rHash
    BY <2>1 DEF ReceiverInv
  <2> QED
    BY <1>10, <2>2, <2>3, <2>4 DEF RecvStart, ReceiverFails, TypeOK, FileType
<1>11. CASE RecvData
  <2> DEFINE chunk == Head(up).c
  <2>1. Arrived(up, "DATA") /\ up' = Tail(up) /\ UNCHANGED <<dest, undo, claims, rDone>> /\ rPc = "loop"
    BY <1>11 DEF RecvData
  <2>2. CASE rPc' = "err"
    BY <2>1, <2>2, ReceiverInvFails DEF Arrived
  <2>3. CASE /\ ~rDone /\ rPc' \in {"sync", "loop"} /\ rHash' = rHash \o chunk
             /\ part' = [part EXCEPT !.vol = Put(part.vol, Len(rHash), chunk)]
    <3>1. Vouched(up', claims)
      BY <2>1, TakeFrame DEF Arrived, TypeOK, ReceiverInv
    <3>2. part.vol = rHash /\ rHash \in Seq(Unit) /\ part \in FileType
      BY <2>1, <2>3 DEF ReceiverInv, TypeOK
    <3>3. chunk \in Seq(Unit)
      BY <2>1, TakeFrame, FrameFields DEF Arrived, TypeOK
    <3>4. part'.vol = rHash'
      BY <2>3, <3>2, <3>3, PutAtEnd DEF FileType
    <3> QED
      BY <2>1, <2>3, <3>1, <3>4 DEF ReceiverInv
  <2> QED
    BY <1>11, <2>2, <2>3 DEF RecvData, ReceiverFails
<1>12. CASE SyncCheckpoint
  <2>1. part'.vol = part.vol
    BY <1>12 DEF SyncCheckpoint, TypeOK, FileType
  <2> QED
    BY <1>12, <2>1 DEF SyncCheckpoint, net, ReceiverInv
<1>13. CASE RecvCover
  <2>1. Vouched(up', claims)
    BY <1>13, TakeFrame DEF RecvCover, Arrived, TypeOK, ReceiverInv
  <2> QED
    BY <1>13, <2>1 DEF RecvCover, files, recver, ReceiverInv
<1>14. CASE RecvDone
  <2>1. Arrived(up, "DONE") /\ up' = Tail(up) /\ UNCHANGED <<dest, undo, claims, rDone, rHash>> /\ rPc = "loop"
    BY <1>14 DEF RecvDone
  <2>2. CASE rPc' = "err"
    BY <2>1, <2>2, ReceiverInvFails DEF Arrived
  <2>3. CASE /\ ~rDone /\ rHash = Head(up).hash /\ rPc' = "rename"
             /\ part' = [part EXCEPT !.dur = part.vol]
    <3>1. Vouched(up', claims) /\ Head(up).hash \in claims
      BY <2>1, TakeFrame DEF Arrived, TypeOK, ReceiverInv
    <3>2. part.vol = rHash
      BY <2>1, <2>3 DEF ReceiverInv
    <3>3. part'.vol = part.vol /\ part'.dur = part.vol
      BY <2>3 DEF TypeOK, FileType
    <3> QED
      BY <2>1, <2>3, <3>1, <3>2, <3>3 DEF ReceiverInv
  <2> QED
    BY <1>14, <2>2, <2>3 DEF RecvDone, ReceiverFails, Verified
<1>15. CASE Rename
  <2>1. Sound(part, claims)
    BY <1>15 DEF Rename, ReceiverInv, Sound
  <2>2. ~rDone
    BY <1>15 DEF Rename, ReceiverInv
  <2>3. \A i \in 1..Len(undo') : undo'[i] = dest
    BY <1>15 DEF Rename
  <2> QED
    BY <1>15, <2>1, <2>2, <2>3 DEF Rename, net, ReceiverInv
<1>16. CASE SyncParentDir
  <2>1. \A i \in 1..Len(undo') : Sound(undo'[i], claims)
    BY <1>16 DEF SyncParentDir, ReceiverInv
  <2> QED
    BY <1>16, <2>1 DEF SyncParentDir, net, ReceiverInv
<1>17. CASE RecvFinish
  <2>1. Arrived(up, "FINISH") /\ up' = Tail(up) /\ UNCHANGED <<files, claims>> /\ rPc' \in {"ok", "err"}
    BY <1>17 DEF RecvFinish, ReceiverFails
  <2>2. Vouched(up', claims)
    BY <2>1, TakeFrame DEF Arrived, TypeOK, ReceiverInv
  <2> QED
    BY <2>1, <2>2 DEF files, ReceiverInv
<1>18. CASE ReceiverLosesLink \/ CancelReceiver \/ ReceiverIoError
  <2>1. rPc' = "err" /\ UNCHANGED <<dest, undo, claims, up>>
    BY <1>18 DEF ReceiverLosesLink, CancelReceiver, ReceiverIoError, ReceiverFails, files, net
  <2> QED
    BY <2>1 DEF ReceiverInv
<1>19. CASE ReceiverCrash
  <2>1. rPc' = "err" /\ UNCHANGED <<claims, up>>
    BY <1>19 DEF ReceiverCrash, ReceiverFails
  <2>2. CASE UNCHANGED files
    BY <2>1, <2>2 DEF files, ReceiverInv
  <2>3. CASE dest' \in CrashImages(dest) /\ undo' = <<>>
    <3>1. dest'.is = dest.is
      BY <2>3 DEF CrashImages
    <3>2. Sound(dest', claims)
      BY <2>3, <3>1, CrashKeepsSynced DEF Sound, ReceiverInv, TypeOK
    <3> QED
      BY <2>1, <2>3, <3>2 DEF ReceiverInv
  <2>4. CASE undo # <<>> /\ dest' = undo[1] /\ undo' = <<>>
    <3>1. Sound(dest', claims)
      BY <2>4 DEF ReceiverInv, TypeOK
    <3> QED
      BY <2>1, <2>4, <3>1 DEF ReceiverInv
  <2> QED
    BY <1>19, <2>2, <2>3, <2>4 DEF ReceiverCrash
<1>20. CASE UNCHANGED vars
  BY <1>20, ReceiverInvIdle DEF vars, net
<1> QED
  BY <1>1, <1>2, <1>3, <1>4, <1>5, <1>6, <1>7, <1>8, <1>9, <1>10, <1>11, <1>12, <1>13,
     <1>14, <1>15, <1>16, <1>17, <1>18, <1>19, <1>20
     DEF Next, SenderStep, ReceiverStep, Interruption

\* Only a sender that reads a stable source can vouch for it, and each of its steps
\* keeps what it has read a prefix of what is there.
LEMMA SenderInvStep ==
  TypeOK /\ SenderInv /\ [Next]_vars => SenderInv'
<1> SUFFICES ASSUME TypeOK, SenderInv, [Next]_vars, SourceStable PROVE SenderInv'
  BY DEF SenderInv
<1>0. src \in Payloads /\ src \in Seq(Unit) /\ Len(src) \in Nat
  BY DEF TypeOK
<1>1. CASE Connect
  BY <1>1 DEF Connect, SenderInv
<1>2. CASE SendOffer
  BY <1>2 DEF SendOffer, SenderInv
<1>3. CASE RecvResume
  <2> DEFINE offset == ResumeOffset(Head(down).n, Head(down).hash)
  <2>1. sPc = "resume" /\ UNCHANGED <<src, claims, sTotal>> /\ sTotal = Len(src)
    BY <1>3 DEF RecvResume, SenderInv
  <2>2. CASE sPc' = "err"
    BY <2>1, <2>2 DEF SenderInv
  <2>3. CASE sPc' = "stream" /\ sRead' = Prefix(src, offset)
    <3>1. Head(down) \in Frame /\ Head(down).tag = "RESUME"
      BY <1>3, TakeFrame DEF RecvResume, Arrived, TypeOK
    <3>2. offset \in Nat /\ offset <= Len(src)
      BY <1>0, <2>1, <3>1, FrameFields DEF ResumeOffset
    <3>3. Len(Prefix(src, offset)) = offset
      BY <1>0, <3>2, PrefixType
    <3> QED
      BY <2>1, <2>3, <3>2, <3>3 DEF SenderInv
  <2> QED
    BY <1>3, <2>2, <2>3 DEF RecvResume, SenderFails
<1>4. CASE SendData
  <2> DEFINE upto == Len(sRead) + Least(sTotal - Len(sRead), ChunkLen)
             chunk == SubSeq(src, Len(sRead) + 1, upto)
  <2>1. /\ sPc = "stream" /\ UNCHANGED <<src, claims, sTotal>> /\ sTotal = Len(src)
        /\ Len(sRead) < sTotal /\ sRead = Prefix(src, Len(sRead))
    BY <1>4 DEF SendData, SenderInv
  <2>2. CASE sPc' = "err"
    BY <2>1, <2>2 DEF SenderInv
  <2>3. CASE sPc' = "stream" /\ sRead' = sRead \o chunk
    <3>1. upto \in Len(sRead)..Len(src) /\ Len(sRead) \in Nat
      BY <1>0, <2>1 DEF Least, TypeOK
    <3> HIDE DEF upto
    <3>2. sRead \o chunk = Prefix(src, upto)
      <4>1. 1 \in 1..Len(src) + 1 /\ Len(sRead) \in 1 - 1..Len(src)
        BY <1>0, <3>1
      <4>2. SubSeq(src, 1, Len(sRead)) \o SubSeq(src, Len(sRead) + 1, upto) = SubSeq(src, 1, upto)
        BY <1>0, <3>1, <4>1, ConcatAdjacentSubSeq, Zenon
      <4> QED
        BY <2>1, <4>2 DEF Prefix
    <3>3. Len(Prefix(src, upto)) = upto
      BY <1>0, <3>1, PrefixType
    <3>4. sRead' = Prefix(src, upto)
      BY <2>3, <3>2, Zenon
    <3>5. upto <= Len(src)
      BY <1>0, <3>1
    <3>6. Len(sRead') <= sTotal' /\ sRead' = Prefix(src', Len(sRead'))
      BY <2>1, <3>3, <3>4, <3>5, Zenon
    <3>7. claims' \subseteq Payloads /\ sTotal' = Len(src')
      BY <2>1, Zenon DEF SenderInv
    <3> QED
      BY <3>6, <3>7, Zenon DEF SenderInv
  <2> QED
    BY <1>4, <2>1, <2>2, <2>3 DEF SendData, SenderFails
<1>5. CASE SendDone
  <2>1. Len(sRead) = Len(src) /\ sRead = Prefix(src, Len(sRead))
    BY <1>0, <1>5 DEF SendDone, SenderInv, TypeOK
  <2>2. sRead = src
    BY <1>0, <2>1, WholePrefix
  <2> QED
    BY <1>0, <1>5, <2>2 DEF SendDone, SenderInv
<1>6. CASE SendCover \/ SendFinish \/ RecvAck \/ SenderLosesLink \/ CancelSender
  BY <1>6 DEF SendCover, SendFinish, RecvAck, SenderLosesLink, CancelSender, SenderFails, SenderInv
<1>7. CASE ReceiverStep
  BY <1>7 DEF ReceiverStep, RecvOffer, RecvStart, RecvData, SyncCheckpoint, RecvCover, RecvDone,
     Rename, SyncParentDir, RecvFinish, ReceiverLosesLink, sender, SenderInv
<1>8. CASE LinkBreaks \/ CancelReceiver \/ ReceiverIoError \/ ReceiverCrash
  BY <1>8 DEF LinkBreaks, CancelReceiver, ReceiverIoError, ReceiverCrash, sender, SenderInv
<1>9. CASE ChangeSource
  BY <1>9 DEF ChangeSource, Ended, sender, SenderInv
<1>10. CASE UNCHANGED vars
  BY <1>10 DEF vars, sender, SenderInv
<1> QED
  BY <1>1, <1>2, <1>3, <1>4, <1>5, <1>6, <1>7, <1>8, <1>9, <1>10
     DEF Next, SenderStep, Interruption

----------------------------------------------------------------------------
\* Nothing is vouched for, and there is no file, at the start.
LEMMA InitInv ==
  Init => TypeOK /\ ReceiverInv /\ SenderInv
<1> SUFFICES ASSUME Init PROVE TypeOK /\ ReceiverInv /\ SenderInv
  OBVIOUS
<1>1. TypeOK
  <2>1. part \in FileType /\ dest \in FileType
    BY DEF Init, NoFile, FileType
  <2>2. link \in BOOLEAN /\ rDone \in BOOLEAN
    BY DEF Init
  <2>3. undo \in Seq(FileType) /\ Len(undo) = 0 /\ up \in Seq(Frame) /\ down \in Seq(Frame)
    BY DEF Init
  <2> QED
    BY <2>1, <2>2, <2>3 DEF Init, TypeOK, Ended
<1>2. ReceiverInv
  BY DEF Init, NoFile, ReceiverInv, Sound, Vouched
<1>3. SenderInv
  BY DEF Init, SenderInv
<1> QED
  BY <1>1, <1>2, <1>3

\* Every variable of a transfer keeps its type: set_len and write_all never leave
\* the partial's length, whatever was interrupted before.
THEOREM TypeCorrect == Spec => []TypeOK
<1>1. TypeOK /\ ReceiverInv /\ [Next]_vars => (TypeOK /\ ReceiverInv)'
  BY TypeStep, ReceiverInvStep
<1> QED
  BY <1>1, InitInv, PTL DEF Spec

\* recv's promise for any number of attempts, breaks, I/O errors and power losses:
\* <dest> is never half-written, unverified or unsynced.
THEOREM DestNeverUnverified == Spec => []DestVerified
<1>1. TypeOK /\ ReceiverInv /\ [Next]_vars => (TypeOK /\ ReceiverInv)'
  BY TypeStep, ReceiverInvStep
<1>2. ReceiverInv => DestVerified
  BY DEF ReceiverInv, Sound, DestVerified
<1> QED
  BY <1>1, <1>2, InitInv, PTL DEF Spec

\* If the source changes only between attempts, what is delivered is a version of
\* it and never a mixture, whatever partial an earlier version left.
THEOREM DestNeverMixed == Spec => []DestIsOneVersion
<1>1. TypeOK /\ ReceiverInv /\ SenderInv /\ [Next]_vars => (TypeOK /\ ReceiverInv /\ SenderInv)'
  BY TypeStep, ReceiverInvStep, SenderInvStep
<1>2. ReceiverInv /\ SenderInv => DestIsOneVersion
  BY DEF ReceiverInv, SenderInv, Sound, DestIsOneVersion
<1> QED
  BY <1>1, <1>2, InitInv, PTL DEF Spec
----------------------------------------------------------------------------
\* From OFFER to the rename there is a partial.
PartExists == rPc \in {"start", "loop", "sync", "rename"} /\ ~rDone => part.is

LEMMA PartExistsStep ==
  TypeOK /\ ReceiverInv /\ PartExists /\ [Next]_vars => PartExists'
<1> SUFFICES ASSUME TypeOK, ReceiverInv, PartExists, [Next]_vars PROVE PartExists'
  OBVIOUS
<1>0. part = [is |-> part.is, vol |-> part.vol, dur |-> part.dur]
  BY DEF TypeOK, FileType
<1>1. CASE Connect
  BY <1>1 DEF Connect, PartExists
<1>2. CASE UNCHANGED <<files, recver>>
  BY <1>2 DEF files, recver, PartExists
<1>3. CASE RecvOffer
  <2> DEFINE kept == Prefix(part.vol, Recoverable(Len(part.vol), Head(up).n))
  <2>1. rPc' = "err" \/ part' = [part EXCEPT !.is = TRUE, !.vol = kept]
    BY <1>3, Zenon DEF RecvOffer, ReceiverFails
  <2> HIDE DEF kept
  <2>2. [part EXCEPT !.is = TRUE, !.vol = kept].is
    BY <1>0
  <2> QED
    BY <2>1, <2>2, Zenon DEF PartExists
<1>4. CASE RecvStart
  BY <1>0, <1>4 DEF RecvStart, ReceiverFails, PartExists
<1>5. CASE RecvData
  <2> DEFINE written == Put(part.vol, Len(rHash), Head(up).c)
  <2>1. rPc' = "err" \/ (rPc = "loop" /\ rDone' = rDone /\ part' = [part EXCEPT !.vol = written])
    BY <1>5, Zenon DEF RecvData, ReceiverFails
  <2> HIDE DEF written
  <2> QED
    BY <1>0, <2>1 DEF PartExists
<1>6. CASE SyncCheckpoint
  BY <1>0, <1>6 DEF SyncCheckpoint, PartExists
<1>7. CASE RecvDone
  BY <1>0, <1>7 DEF RecvDone, ReceiverFails, PartExists
<1>8. CASE Rename \/ SyncParentDir
  BY <1>8 DEF Rename, SyncParentDir, PartExists
<1>9. CASE RecvFinish
  BY <1>9 DEF RecvFinish, ReceiverFails, PartExists
<1>10. CASE ReceiverLosesLink \/ CancelReceiver \/ ReceiverIoError \/ ReceiverCrash
  BY <1>10 DEF ReceiverLosesLink, CancelReceiver, ReceiverIoError, ReceiverCrash, ReceiverFails, PartExists
<1>11. CASE SenderStep \/ RecvCover \/ LinkBreaks \/ CancelSender \/ ChangeSource
  <2>1. UNCHANGED <<files, recver>>
    BY <1>11 DEF SenderStep, SendOffer, RecvResume, SendData, SendDone, SendCover, SendFinish, RecvAck,
       SenderLosesLink, RecvCover, LinkBreaks, CancelSender, ChangeSource
  <2> QED
    BY <1>2, <2>1
<1>12. CASE UNCHANGED vars
  BY <1>2, <1>12 DEF vars
<1> QED
  BY <1>1, <1>3, <1>4, <1>5, <1>6, <1>7, <1>8, <1>9, <1>10, <1>11, <1>12
     DEF Next, ReceiverStep, Interruption

\* A step that leaves the destination, what may be undone and the claims alone is
\* no step of the register.
LEMMA RegisterIdle ==
  ASSUME UNCHANGED <<dest, undo, claims>>
  PROVE  UNCHANGED Register!vars
BY DEF Register!vars, Standing

\* A power loss leaves the register as it is, settles it or undoes it.
LEMMA RegisterCrash ==
  ASSUME TypeOK, ReceiverInv, ReceiverCrash
  PROVE  [Register!Next]_(Register!vars)
<1>1. claims' = claims
  BY DEF ReceiverCrash
<1>2. CASE UNCHANGED files
  BY <1>1, <1>2, RegisterIdle DEF files
<1>3. CASE dest' \in CrashImages(dest) /\ undo' = <<>>
  <2>1. dest'.is = dest.is
    BY <1>3 DEF CrashImages
  <2>2. dest.is => dest' = dest
    BY <1>3, CrashKeepsSynced DEF ReceiverInv, Sound, TypeOK
  <2>3. Standing(dest)' = Standing(dest)
    BY <2>1, <2>2 DEF Standing
  <2> QED
    BY <1>1, <1>3, <2>3 DEF Register!Next, Register!Settle
<1>4. CASE undo # <<>> /\ dest' = undo[1] /\ undo' = <<>>
  BY <1>1, <1>4 DEF Register!Next, Register!Undo, Standing
<1> QED
  BY <1>2, <1>3, <1>4 DEF ReceiverCrash

LEMMA RegisterStep ==
  TypeOK /\ ReceiverInv /\ PartExists /\ TypeOK' /\ [Next]_vars => [Register!Next]_(Register!vars)
<1> SUFFICES ASSUME TypeOK, ReceiverInv, PartExists, TypeOK', [Next]_vars
             PROVE  [Register!Next]_(Register!vars)
  OBVIOUS
<1>1. CASE UNCHANGED <<dest, undo, claims>>
  BY <1>1, RegisterIdle
<1>2. CASE SendDone
  <2>1. claims \subseteq claims' /\ UNCHANGED <<dest, undo>>
    BY <1>2 DEF SendDone, files
  <2>2. claims' \subseteq Seq(Unit)
    BY DEF TypeOK
  <2> QED
    BY <2>1, <2>2 DEF Register!Next, Register!Vouch, Standing
<1>3. CASE Rename
  <2>1. part.is /\ part.vol \in claims
    BY <1>3 DEF Rename, PartExists, ReceiverInv
  <2>2. dest' = part /\ undo' = <<dest>> /\ claims' = claims
    BY <1>3 DEF Rename
  <2>3. Standing(dest)' = <<part.vol>>
    BY <2>1, <2>2 DEF Standing
  <2>4. undo' # <<>> /\ undo'[1] = dest
    BY <2>2
  <2> QED
    BY <2>1, <2>2, <2>3, <2>4 DEF Register!Next, Register!Deliver
<1>4. CASE SyncParentDir
  <2>1. UNCHANGED <<dest, claims>> /\ (undo' = undo \/ undo' = <<>>)
    BY <1>4 DEF SyncParentDir
  <2> QED
    BY <1>1, <2>1 DEF Register!Next, Register!Settle, Standing
<1>5. CASE ReceiverCrash
  BY <1>5, RegisterCrash
<1>6. CASE Connect \/ SendOffer \/ RecvResume \/ SendData \/ SendCover \/ SendFinish \/ RecvAck \/ SenderLosesLink
  BY <1>1, <1>6 DEF Connect, SendOffer, RecvResume, SendData, SendCover, SendFinish, RecvAck, SenderLosesLink, files
<1>7. CASE RecvOffer \/ RecvStart \/ RecvData \/ SyncCheckpoint \/ RecvCover \/ RecvDone \/ RecvFinish \/ ReceiverLosesLink
  BY <1>1, <1>7 DEF RecvOffer, RecvStart, RecvData, SyncCheckpoint, RecvCover, RecvDone, RecvFinish, ReceiverLosesLink, files
<1>8. CASE LinkBreaks \/ CancelSender \/ CancelReceiver \/ ReceiverIoError \/ ChangeSource
  BY <1>1, <1>8 DEF LinkBreaks, CancelSender, CancelReceiver, ReceiverIoError, ChangeSource, files
<1>9. CASE UNCHANGED vars
  BY <1>1, <1>9 DEF vars, files
<1> QED
  BY <1>2, <1>3, <1>4, <1>5, <1>6, <1>7, <1>8, <1>9
     DEF Next, SenderStep, ReceiverStep, Interruption

\* recv implements the register of module Delivery for payloads and partials of any
\* length and any number of faults: the destination changes from one vouched payload
\* to another in one step, and a power loss can only take the last change back.
THEOREM ReceiverImplementsRegister == Spec => DeliversAtomically
<1>1. Init => Register!Init /\ PartExists
  BY DEF Init, NoFile, Register!Init, Standing, PartExists
<1>2. TypeOK /\ ReceiverInv /\ PartExists /\ [Next]_vars => (TypeOK /\ ReceiverInv /\ PartExists)'
  BY TypeStep, ReceiverInvStep, PartExistsStep
<1>3. TypeOK /\ ReceiverInv /\ PartExists /\ [Next]_vars => [Register!Next]_(Register!vars)
  BY RegisterStep, TypeStep
<1> QED
  BY <1>1, <1>2, <1>3, InitInv, PTL DEF Spec, DeliversAtomically, Register!Spec
=============================================================================
