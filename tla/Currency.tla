------------------------------ MODULE Currency ------------------------------
(***************************************************************************)
(* The fungible currency of the chain, as the Qubitum pallet uses it:      *)
(* free balances and balances on hold, one hold per reason and account.    *)
(*                                                                         *)
(* The implementation is FRAME's pallet_balances, which is not part of the *)
(* repository.  The operators below say what its calls do to the two       *)
(* balances; they take and return balance functions, so that a handler     *)
(* that makes several calls composes them.                                 *)
(***************************************************************************)
EXTENDS Integers

CONSTANTS
    Account,              \* the accounts of the chain
    HoldReason,           \* the reasons the pallet holds funds for
    ExistentialDeposit    \* an account with less free balance does not exist

ASSUME CurrencyAssumption ==
    /\ ExistentialDeposit \in Nat \ {0}

VARIABLES
    free,    \* free[a]: the spendable balance of account a
    held     \* held[r][a]: the balance of a on hold for reason r

CurrencyTypeOK ==
    /\ free \in [Account -> Nat]
    /\ held \in [HoldReason -> [Account -> Nat]]

HasHold(a) == \E r \in HoldReason : held[r][a] > 0

Add(f, a, x) == [f EXCEPT ![a] = @ + x]

AddHeld(h, r, a, x) == [h EXCEPT ![r][a] = @ + x]

SubHeld(h, r, a, x) == [h EXCEPT ![r][a] = @ - x]

(* hold: the account must keep its existential deposit free.               *)
CanHold(a, x) == free[a] >= x + ExistentialDeposit

Hold(r, a, x) ==
    /\ CanHold(a, x)
    /\ free' = [free EXCEPT ![a] = @ - x]
    /\ held' = AddHeld(held, r, a, x)

(* burn_from with Preservation::Expendable: an account without holds may   *)
(* be burned to nothing, and then loses a remainder below the existential  *)
(* deposit as dust; an account with holds must keep its deposit.           *)
BurnFree(a, x) ==
    /\ free[a] >= IF HasHold(a) THEN x + ExistentialDeposit ELSE x
    /\ free' = [free EXCEPT ![a] = IF @ - x < ExistentialDeposit THEN 0 ELSE @ - x]
    /\ held' = held

(* A deposit must leave the receiving account with its existential         *)
(* deposit; the zero deposit is never attempted by the callers.            *)
CanDeposit(f, a, x) == x = 0 \/ f[a] + x >= ExistentialDeposit

(* release with Precision::Exact: the hold has the amount, and the account *)
(* can take it back.                                                       *)
CanRelease(r, a, x) == held[r][a] >= x /\ CanDeposit(free, a, x)

Release(r, a, x) ==
    /\ CanRelease(r, a, x)
    /\ free' = Add(free, a, x)
    /\ held' = SubHeld(held, r, a, x)
=============================================================================
