----------------------------- MODULE FileTransfer -----------------------------
(***************************************************************************)
(* What a Kermit transfer promises its two users: the files are kept one    *)
(* after the other, each once; the sender claims none that was not kept;    *)
(* and an end that says it is done, of a transfer that neither user has     *)
(* cancelled, means that every file was kept.                               *)
(***************************************************************************)
EXTENDS Integers

CONSTANT Count   \* the files the sender was given

VARIABLES
    kept,       \* the files the receiver has kept
    claimed,    \* those the sender says it has sent
    withdrawn,  \* a user has cancelled
    outcome     \* what each end says of the transfer

Ends == {"sender", "receiver"}
Outcomes == {"Running", "Done", "Cancelled", "Failed"}

Init ==
    /\ kept = 0 /\ claimed = 0 /\ withdrawn = FALSE
    /\ outcome = [e \in Ends |-> "Running"]

May(e, o) ==
    /\ o = "Done" => withdrawn \/ (IF e = "sender" THEN claimed ELSE kept) = Count
    /\ o = "Cancelled" => withdrawn'

\* An end that is running may go on or stop; one that has stopped stays so.
Moves(e) ==
    \/ UNCHANGED outcome
    \/ /\ outcome[e] = "Running"
       /\ \E o \in Outcomes : May(e, o) /\ outcome' = [outcome EXCEPT ![e] = o]

Keep ==
    /\ outcome["receiver"] = "Running"
    /\ kept < Count /\ kept' = kept + 1
    /\ UNCHANGED <<claimed, withdrawn, outcome>>

\* Only after a user has cancelled may a file be claimed that was not kept.
Claim ==
    /\ outcome["sender"] = "Running"
    /\ claimed < kept \/ (withdrawn /\ claimed < Count)
    /\ claimed' = claimed + 1
    /\ Moves("sender")
    /\ UNCHANGED <<kept, withdrawn>>

Stop ==
    /\ \E e \in Ends : Moves(e)
    /\ UNCHANGED <<kept, claimed, withdrawn>>

Withdraw ==
    /\ withdrawn' = TRUE
    /\ \E e \in Ends : Moves(e)
    /\ UNCHANGED <<kept, claimed>>

Next == Keep \/ Claim \/ Stop \/ Withdraw

Spec == Init /\ [][Next]_<<kept, claimed, withdrawn, outcome>>
=============================================================================
