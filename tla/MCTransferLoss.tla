--------------------------- MODULE MCTransferLoss ---------------------------
(* What can be said of a receiver that sometimes loses power and sometimes   *)
(* only its process.                                                         *)
EXTENDS MCTransfer

VARIABLE lost   \* history: since START a power loss has changed what a file holds

Holds == <<part.vol, dest.is, dest.vol>>

MCInit == Init /\ lost = FALSE

MCNext ==
  \/ ReceiverCrash /\ lost' = (lost \/ Holds' # Holds)
  \/ /\ \/ Connect \/ SenderStep \/ ReceiverStep
        \/ LinkBreaks \/ CancelSender \/ CancelReceiver \/ ReceiverIoError \/ ChangeSource
     /\ lost' = (lost /\ ~(rPc = "start" /\ rPc' = "loop"))

MCSpec ==
  /\ MCInit /\ [][MCNext]_<<vars, lost>>
  /\ WF_vars(SenderStep) /\ WF_vars(ReceiverStep)

\* The ACK makes the sender's success claim honest: the receiver has put exactly
\* this payload in place, and it is there until a power loss takes the unsynced
\* rename back (send's wait for TAG_ACK, recv's answer to TAG_FINISH).
AckHonest == sPc = "ok" /\ ~lost => dest.is /\ dest.vol = sRead

\* transfer.rs: "A crash costs at most one checkpoint of re-transfer", as long as
\* it leaves the partial as it was: an attempt resumes no further back than that
\* from where the last one was cut off.
KillCostsOneCheckpoint ==
  [][sPc = "resume" /\ sPc' = "stream" /\ ~lost
     /\ Len(got) <= Len(src) /\ got = Prefix(src, Len(got))
       => Len(got) - Len(sRead') <= CheckpointLen]_<<vars, lost>>
=============================================================================
