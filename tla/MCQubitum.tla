----------------------------- MODULE MCQubitum ------------------------------
(***************************************************************************)
(* Instances of the pallet for TLC, from genesis and from a chain with     *)
(* participants already at work.                                           *)
(***************************************************************************)
EXTENDS QubitumProperties, TLC

CONSTANTS
    Endowment, TreasuryEndowment,    \* the genesis balances
    Alice, Bob                       \* the operators of MCWorkingInit

MCInitialFree == [a \in Account |-> IF a = Treasury THEN TreasuryEndowment ELSE Endowment]

MCQuarterFees == {[validator |-> 2500, treasury |-> 2500]}

MCUnevenFees == {[validator |-> 3000, treasury |-> 4000],
                 [validator |-> 9000, treasury |-> 2000]}

Symmetry == Permutations(Account \ {Treasury})

Participant(who, form) ==
    [operator |-> [who |-> who, form |-> form], subnet |-> 0,
     status |-> "Active", exitAvailableAt |-> 0]

(* What genesis reaches when Alice has activated every miner with the      *)
(* largest bond and Bob every validator with the least stake, all in the   *)
(* first subnet: the miners share one hold and the validators another.     *)
MCWorkingInit ==
    /\ free = [a \in Account |-> IF a = Treasury THEN TreasuryEndowment ELSE Endowment]
    /\ held = [r \in HoldReason |-> [a \in Account |->
                 CASE r = "MinerBond" /\ a = Alice -> MinerIdMax * MaxMinerBond
                   [] r = "ValidatorStake" /\ a = Bob -> ValidatorIdMax * MinValidatorStake
                   [] OTHER -> 0]]
    /\ block = 0
    /\ Subnets = [s \in SubnetIds |->
                    IF s = 0 THEN [proofSystem |-> "Stark", active |-> TRUE] ELSE NoRecord]
    /\ SubnetCount = 1
    /\ Miners = [m \in MinerIds |-> Participant(Alice, "role")]
    /\ MinerCount = MinerIdMax
    /\ MinerLockedBond = [m \in MinerIds |-> MaxMinerBond]
    /\ MinerAttested = [m \in MinerIds |-> TRUE]
    /\ PendingMinerRequests = [m \in MinerIds |-> 0]
    /\ Validators = [v \in ValidatorIds |-> Participant(Bob, "role")]
    /\ ValidatorCount = ValidatorIdMax
    /\ ValidatorLockedStake = [v \in ValidatorIds |-> MinValidatorStake]
    /\ ValidatorAttested = [v \in ValidatorIds |-> TRUE]
    /\ PendingValidatorRequests = [v \in ValidatorIds |-> 0]
    /\ InferenceRequests = [r \in RequestIds |-> NoRecord]
    /\ RequestCount = 0
    /\ RequestStatusCount = [s \in RequestStatus |-> 0]
    /\ ProofRecords = [r \in RequestIds |-> NoRecord]

MCWorkingSpec == MCWorkingInit /\ [][Next]_vars

MCWorkingFairSpec == MCWorkingSpec /\ Fairness
=============================================================================
