--------------------------- MODULE MCQubitumLegacy --------------------------
(***************************************************************************)
(* The pallet on a chain upgraded from storage version 9: Alice's miners   *)
(* carry account-form commitments, hold their bonds and have no capital    *)
(* record and no attested identity.                                        *)
(***************************************************************************)
EXTENDS MCQubitum

CONSTANT LegacyMiners    \* how many miners the old chain had

MCLegacyInit ==
    /\ free = MCInitialFree
    /\ held = [r \in HoldReason |-> [a \in Account |->
                 IF r = "MinerBond" /\ a = Alice THEN LegacyMiners * MaxMinerBond ELSE 0]]
    /\ block = 0
    /\ Subnets = [s \in SubnetIds |-> [proofSystem |-> "Stark", active |-> TRUE]]
    /\ SubnetCount = SubnetIdMax
    /\ Miners = [m \in MinerIds |-> IF m < LegacyMiners THEN Participant(Alice, "account")
                                                        ELSE NoRecord]
    /\ MinerCount = LegacyMiners
    /\ MinerLockedBond = [m \in MinerIds |-> NoRecord]
    /\ MinerAttested = [m \in MinerIds |-> FALSE]
    /\ PendingMinerRequests = [m \in MinerIds |-> 0]
    /\ Validators = [v \in ValidatorIds |-> NoRecord]
    /\ ValidatorCount = 0
    /\ ValidatorLockedStake = [v \in ValidatorIds |-> NoRecord]
    /\ ValidatorAttested = [v \in ValidatorIds |-> FALSE]
    /\ PendingValidatorRequests = [v \in ValidatorIds |-> 0]
    /\ InferenceRequests = [r \in RequestIds |-> NoRecord]
    /\ RequestCount = 0
    /\ RequestStatusCount = [s \in RequestStatus |-> 0]
    /\ ProofRecords = [r \in RequestIds |-> NoRecord]

(* The bond of a miner: what its record says or, while it bears capital    *)
(* without a record, the bond it locked before the upgrade.                *)
BondOf(m) ==
    CASE MinerLockedBond[m] # NoRecord -> MinerLockedBond[m]
      [] MinerLockedBond[m] = NoRecord /\ miner_capital_bearing_status(Miners[m].status)
           -> MaxMinerBond
      [] OTHER -> 0

(* The hold of an operator is exactly the bonds of its miners, those with  *)
(* a capital record and those that locked theirs before records existed:   *)
(* while two miners without a record share the hold, neither they nor a    *)
(* miner registered since take anything from it but their own bond.        *)
EveryBondHeld ==
    \A a \in Account :
        held["MinerBond"][a] =
            MapThenSumSet(BondOf, {m \in MinerIds : /\ Miners[m] # NoRecord
                                                   /\ Miners[m].operator.who = a})

MCLegacySpec == MCLegacyInit /\ [][Next]_vars

MCLegacyFairSpec == MCLegacySpec /\ Fairness
=============================================================================
