------------------------------- MODULE Escrow -------------------------------
(***************************************************************************)
(* What a user of the inference market relies on: a payment enters the     *)
(* user's pot once, when the request is opened, and leaves it once, in     *)
(* full, when the request is closed.                                       *)
(***************************************************************************)
EXTENDS Integers

CONSTANTS Account, RequestId, Payment, NoRecord

VARIABLES
    requests,    \* requests[r]: NoRecord, or its user, payment and whether it is closed
    pot          \* pot[a]: what is in escrow for account a

EscrowRecord == [user : Account, payment : Nat, closed : BOOLEAN]

EscrowInit ==
    /\ requests = [r \in RequestId |-> NoRecord]
    /\ pot = [a \in Account |-> 0]

Open(r, a, p) ==
    /\ requests[r] = NoRecord
    /\ requests' = [requests EXCEPT ![r] = [user |-> a, payment |-> p, closed |-> FALSE]]
    /\ pot' = [pot EXCEPT ![a] = @ + p]

Close(r) ==
    /\ requests[r] # NoRecord
    /\ ~requests[r].closed
    /\ requests' = [requests EXCEPT ![r] = [user |-> requests[r].user,
                                            payment |-> requests[r].payment,
                                            closed |-> TRUE]]
    /\ pot' = [pot EXCEPT ![requests[r].user] = @ - requests[r].payment]

EscrowNext ==
    \E r \in RequestId :
        \/ \E a \in Account, p \in Payment : Open(r, a, p)
        \/ Close(r)

EscrowSpec == EscrowInit /\ [][EscrowNext]_<<requests, pot>>
=============================================================================
