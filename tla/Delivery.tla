------------------------------ MODULE Delivery ------------------------------
(* What a receiver promises about its destination (p2p-live/src/transfer.rs, *)
(* the documentation of recv): a register that holds nothing or one whole    *)
(* payload somebody vouched for, and that changes from one to the next in a  *)
(* single step. A power loss may undo the last change as long as it has not  *)
(* settled; it may never leave anything else behind.                         *)
EXTENDS Sequences

CONSTANT Payload   \* everything that may be vouched for

VARIABLES
    value,     \* <<>> or <<payload>>: what stands under the destination's name
    vouched,   \* the payloads the sender has vouched for
    before     \* <<>>, or <<v>>: a power loss may set value back to v

vars == <<value, vouched, before>>

Init == value = <<>> /\ vouched = {} /\ before = <<>>

Vouch == vouched \subseteq vouched' /\ vouched' \subseteq Payload /\ UNCHANGED <<value, before>>

Deliver == \E p \in vouched : value' = <<p>> /\ before' = <<value>> /\ UNCHANGED vouched

Settle == before' = <<>> /\ UNCHANGED <<value, vouched>>

Undo == before # <<>> /\ value' = before[1] /\ before' = <<>> /\ UNCHANGED vouched

Next == Vouch \/ Deliver \/ Settle \/ Undo

Spec == Init /\ [][Next]_vars
=============================================================================
