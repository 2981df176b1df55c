------------------------------ MODULE Qubitum -------------------------------
(***************************************************************************)
(* pallet-qubitum: subnets, miners and validators with bonded capital,     *)
(* inference requests with escrowed payments, proofs, slashing and exits.  *)
(*                                                                         *)
(* One action per dispatchable.  Every dispatchable is either              *)
(* transactional or writes one storage item after its last check, so a     *)
(* call that fails changes nothing and is a stuttering step.               *)
(*                                                                         *)
(* Commitments are modelled by their openings: blake2 is taken to be       *)
(* injective, so a call that supplies witnesses succeeds only when they    *)
(* are the values the record was made from.                                *)
(*                                                                         *)
(* An operator marked "Mutation" is a wrong variant of the definition that *)
(* follows it; no specification uses it.                                   *)
(***************************************************************************)
EXTENDS Currency, FiniteSets

CONSTANTS
    NoRecord,                     \* an absent value of a storage map
    Treasury,                     \* T::ProtocolTreasury
    ProofSystem,                  \* the proof systems a caller may name
    SubnetIdMax, MinerIdMax,      \* the identifiers' largest values: the
    ValidatorIdMax, RequestIdMax, \*   counters' checked_add fails there
    BlockMax,                     \* the block number's largest value
    MaxBalance,                   \* the balance type's largest value
    SubnetCreationBurn, MinerRegistrationBurn,
    MinMinerBond, MaxMinerBond, MinValidatorStake,
    MaxActiveMinersPerSubnet, MaxActiveValidatorsPerSubnet,
    MinInvalidProofSlashBps, MaxInvalidProofSlashBps,
    MinerExitCooldownBlocks, ValidatorExitCooldownBlocks,
    RequestCancelDelayBlocks, MaxProofSubmissionAgeBlocks,
    ShieldedCallPayloads,         \* T::ShieldedCallPayloads
    IdentityVerifierAccepts,      \* FALSE: FailClosedIdentitySignatureVerifier
    ProofVerifierAccepts,         \* FALSE: the verifier never answers Valid
    VerifierSlashBps,             \* the slashes of its Invalid answers
    BondInput, StakeInput,        \* the amounts callers name
    PaymentInput,
    FeeInput,                     \* the fee splits callers name
    RootSlashBps,                 \* slashes root names
    InitialFree                   \* the genesis balances

BPS_DENOMINATOR == 10000

U16Max == 65535

FeeSplit == [validator : 0 .. U16Max, treasury : 0 .. U16Max]    \* in basis points

SubnetIds == 0 .. SubnetIdMax - 1
MinerIds == 0 .. MinerIdMax - 1
ValidatorIds == 0 .. ValidatorIdMax - 1
RequestIds == 0 .. RequestIdMax - 1
Blocks == 0 .. BlockMax

ASSUME QubitumAssumption ==
    /\ HoldReason = {"MinerBond", "ValidatorStake", "InferencePayment"}
    /\ Treasury \in Account
    /\ {SubnetIdMax, MinerIdMax, ValidatorIdMax, RequestIdMax, BlockMax,
        MaxBalance, SubnetCreationBurn, MinerRegistrationBurn, MinMinerBond,
        MaxMinerBond, MinValidatorStake, MaxActiveMinersPerSubnet,
        MaxActiveValidatorsPerSubnet, MinInvalidProofSlashBps,
        MaxInvalidProofSlashBps, MinerExitCooldownBlocks,
        ValidatorExitCooldownBlocks, RequestCancelDelayBlocks,
        MaxProofSubmissionAgeBlocks} \subseteq Nat
    /\ MaxInvalidProofSlashBps <= BPS_DENOMINATOR
    /\ BondInput \cup StakeInput \cup PaymentInput \subseteq Nat
    /\ InitialFree \in [Account -> Nat]
    /\ FeeInput \subseteq FeeSplit
    /\ RootSlashBps \subseteq 0 .. U16Max
    /\ VerifierSlashBps \subseteq 0 .. U16Max
    /\ {ShieldedCallPayloads, IdentityVerifierAccepts, ProofVerifierAccepts}
         \subseteq BOOLEAN

VARIABLES
    block,                      \* the current block number
    Subnets, SubnetCount,
    Miners, MinerCount, MinerLockedBond, PendingMinerRequests,
    Validators, ValidatorCount, ValidatorLockedStake, PendingValidatorRequests,
    MinerAttested,              \* the three miner identity maps hold a bound bundle
    ValidatorAttested,          \* the same for validators
    InferenceRequests, RequestCount,
    RequestStatusCount,         \* the five per-status request counters
    ProofRecords

currencyVars == <<free, held>>
minerVars == <<Miners, MinerCount, MinerLockedBond, MinerAttested>>
validatorVars == <<Validators, ValidatorCount, ValidatorLockedStake, ValidatorAttested>>
pendingVars == <<PendingMinerRequests, PendingValidatorRequests>>
requestVars == <<InferenceRequests, RequestCount, RequestStatusCount, ProofRecords>>
subnetVars == <<Subnets, SubnetCount>>
vars == <<block, currencyVars, subnetVars, minerVars, validatorVars, pendingVars, requestVars>>

RegistryStatus == {"Pending", "Active", "Exiting", "Slashed", "Disabled"}

RequestStatus == {"Pending", "Settled", "Cancelled", "Rejected", "Expired"}

(* An operator commitment opens to an account.  Records written by earlier *)
(* versions carry the account hash ("account"), later ones the             *)
(* domain-separated hash ("role"); the two forms are different values.     *)
OperatorCommitment == [who : Account, form : {"role", "account"}]

operator_commitment(a) == [who |-> a, form |-> "role"]

ChainSubnet == [proofSystem : ProofSystem, active : BOOLEAN]

ChainParticipant ==
    [operator : OperatorCommitment, subnet : SubnetIds,
     status : RegistryStatus, exitAvailableAt : Blocks]

ChainInferenceRequest ==
    [user : Account, subnet : SubnetIds, miner : MinerIds, validator : ValidatorIds,
     payment : Nat, fees : FeeSplit, createdAt : Blocks,
     status : RequestStatus]

ChainProofRecord ==
    [subnet : SubnetIds, miner : MinerIds, validator : ValidatorIds]

Optional(S) == S \cup {NoRecord}

ASSUME NoRecordAssumption ==
    /\ NoRecord \notin Nat
    /\ NoRecord \notin ChainSubnet
    /\ NoRecord \notin ChainParticipant
    /\ NoRecord \notin ChainInferenceRequest
    /\ NoRecord \notin ChainProofRecord

TypeOK ==
    /\ CurrencyTypeOK
    /\ block \in Blocks
    /\ Subnets \in [SubnetIds -> Optional(ChainSubnet)]
    /\ SubnetCount \in 0 .. SubnetIdMax
    /\ Miners \in [MinerIds -> Optional(ChainParticipant)]
    /\ MinerCount \in 0 .. MinerIdMax
    /\ MinerLockedBond \in [MinerIds -> Optional(Nat)]
    /\ MinerAttested \in [MinerIds -> BOOLEAN]
    /\ PendingMinerRequests \in [MinerIds -> Nat]
    /\ Validators \in [ValidatorIds -> Optional(ChainParticipant)]
    /\ ValidatorCount \in 0 .. ValidatorIdMax
    /\ ValidatorLockedStake \in [ValidatorIds -> Optional(Nat)]
    /\ ValidatorAttested \in [ValidatorIds -> BOOLEAN]
    /\ PendingValidatorRequests \in [ValidatorIds -> Nat]
    /\ InferenceRequests \in [RequestIds -> Optional(ChainInferenceRequest)]
    /\ RequestCount \in 0 .. RequestIdMax
    /\ RequestStatusCount \in [RequestStatus -> Nat]
    /\ ProofRecords \in [RequestIds -> Optional(ChainProofRecord)]

Init ==
    /\ free = InitialFree
    /\ held = [r \in HoldReason |-> [a \in Account |-> 0]]
    /\ block = 0
    /\ Subnets = [s \in SubnetIds |-> NoRecord]
    /\ SubnetCount = 0
    /\ Miners = [m \in MinerIds |-> NoRecord]
    /\ MinerCount = 0
    /\ MinerLockedBond = [m \in MinerIds |-> NoRecord]
    /\ MinerAttested = [m \in MinerIds |-> FALSE]
    /\ PendingMinerRequests = [m \in MinerIds |-> 0]
    /\ Validators = [v \in ValidatorIds |-> NoRecord]
    /\ ValidatorCount = 0
    /\ ValidatorLockedStake = [v \in ValidatorIds |-> NoRecord]
    /\ ValidatorAttested = [v \in ValidatorIds |-> FALSE]
    /\ PendingValidatorRequests = [v \in ValidatorIds |-> 0]
    /\ InferenceRequests = [r \in RequestIds |-> NoRecord]
    /\ RequestCount = 0
    /\ RequestStatusCount = [s \in RequestStatus |-> 0]
    /\ ProofRecords = [r \in RequestIds |-> NoRecord]

-----------------------------------------------------------------------------
(* Arithmetic.  pro_rata multiplies in the balance type before it divides: *)
(* the call fails when the product does not fit.                           *)

pro_rata(amount, bps) == (amount * bps) \div BPS_DENOMINATOR

pro_rata_fits(amount, bps) == amount * bps <= MaxBalance

validate_fee_split(fees) == fees.validator + fees.treasury <= BPS_DENOMINATOR

validator_fee(req) == pro_rata(req.payment, req.fees.validator)

treasury_fee(req) == pro_rata(req.payment, req.fees.treasury)

(* Mutation: the rounding remainder goes to nobody.                        *)
miner_payment_pro_rata(req) ==
    pro_rata(req.payment, BPS_DENOMINATOR - (req.fees.validator + req.fees.treasury))

miner_payment(req) == req.payment - (validator_fee(req) + treasury_fee(req))

-----------------------------------------------------------------------------
(* Participants and their capital.                                         *)

miner_capital_bearing_status(status) == status \in {"Active", "Slashed", "Exiting"}

validator_capital_bearing_status(status) ==
    status \in {"Pending", "Active", "Slashed", "Exiting"}

miner_capital_records(c) ==
    {m \in MinerIds : /\ Miners[m] # NoRecord
                      /\ Miners[m].operator = c
                      /\ miner_capital_bearing_status(Miners[m].status)}

validator_capital_records(c) ==
    {v \in ValidatorIds : /\ Validators[v] # NoRecord
                          /\ Validators[v].operator = c
                          /\ validator_capital_bearing_status(Validators[v].status)}

(* Mutation: the whole hold, whoever else shares it.                       *)
has_miner_bond_shared(m) ==
    MinerLockedBond[m] # NoRecord \/ miner_capital_bearing_status(Miners[m].status)

(* Mutation: the routing check instead of the exit check.                  *)
has_miner_bond_of_minimum(m) ==
    MinerLockedBond[m] # NoRecord /\ MinerLockedBond[m] >= MinMinerBond

(* A participant registered before the capital records existed falls back  *)
(* to its operator's whole hold, when no other participant shares it.      *)
has_miner_bond(m) ==
    \/ MinerLockedBond[m] # NoRecord
    \/ /\ miner_capital_bearing_status(Miners[m].status)
       /\ Cardinality(miner_capital_records(Miners[m].operator)) = 1

(* Mutation: the hold instead of the record.                               *)
locked_miner_bond_from_hold(m) == held["MinerBond"][Miners[m].operator.who]

locked_miner_bond(m) ==
    IF MinerLockedBond[m] # NoRecord
    THEN MinerLockedBond[m]
    ELSE held["MinerBond"][Miners[m].operator.who]

(* Mutation: leaving requires an identity.                                 *)
has_validator_stake_attested(v) == ValidatorLockedStake[v] # NoRecord /\ ValidatorAttested[v]

has_validator_stake(v) ==
    \/ ValidatorLockedStake[v] # NoRecord
    \/ /\ validator_capital_bearing_status(Validators[v].status)
       /\ Cardinality(validator_capital_records(Validators[v].operator)) = 1

locked_validator_stake(v) ==
    IF ValidatorLockedStake[v] # NoRecord
    THEN ValidatorLockedStake[v]
    ELSE held["ValidatorStake"][Validators[v].operator.who]

miner_has_active_locked_bond_record(m) ==
    MinerLockedBond[m] # NoRecord /\ MinerLockedBond[m] >= MinMinerBond

validator_has_active_locked_stake_record(v) ==
    ValidatorLockedStake[v] # NoRecord /\ ValidatorLockedStake[v] >= MinValidatorStake

(* Mutation: the identity is not required.                                 *)
ensure_miner_signature_bundle_skipped(m) == m \in MinerIds

(* The stored bundle was accepted when it was stored; it is verified again *)
(* at every use.                                                           *)
ensure_miner_signature_bundle_bound(m) == MinerAttested[m] /\ IdentityVerifierAccepts

ensure_validator_signature_bundle_bound(v) ==
    ValidatorAttested[v] /\ IdentityVerifierAccepts

miner_is_route_eligible(m) ==
    /\ Miners[m].status = "Active"
    /\ miner_has_active_locked_bond_record(m)
    /\ ensure_miner_signature_bundle_bound(m)

validator_is_route_eligible(v) ==
    /\ Validators[v].status = "Active"
    /\ validator_has_active_locked_stake_record(v)
    /\ ensure_validator_signature_bundle_bound(v)

active_miner_route_ids(s) ==
    {m \in MinerIds : /\ Miners[m] # NoRecord
                      /\ Miners[m].subnet = s
                      /\ miner_is_route_eligible(m)}

active_validator_route_ids(s) ==
    {v \in ValidatorIds : /\ Validators[v] # NoRecord
                          /\ Validators[v].subnet = s
                          /\ validator_is_route_eligible(v)}

(* Mutation: room for one more than configured.                            *)
ensure_route_capacity_off_by_one(ids, candidate, max) ==
    candidate \in MinerIds \cup ValidatorIds /\ Cardinality(ids) <= max

ensure_route_capacity(ids, candidate, max) ==
    IF candidate \in ids THEN Cardinality(ids) <= max ELSE Cardinality(ids) < max

(* Mutation: operators are not compared.                                   *)
ensure_distinct_operators_skipped(m, v) == m \in MinerIds /\ v \in ValidatorIds

ensure_distinct_operators(m, v) == Miners[m].operator # Validators[v].operator

(* route_assignment scans both sorted id lists cyclically from positions   *)
(* that are hashes of the request: which eligible pair it finds first is   *)
(* arbitrary, and it finds one whenever there is one.                      *)
route_assignments(s) ==
    {mv \in active_miner_route_ids(s) \X active_validator_route_ids(s) :
        ensure_distinct_operators(mv[1], mv[2])}
-----------------------------------------------------------------------------
(* Subnets, miners and validators.                                         *)

(* Mutation: the identifier counter runs one past its largest value.       *)
can_advance_inclusive(count, max) == count <= max

(* Identifiers are handed out in order; the counter's checked_add fails at *)
(* the largest.                                                            *)
can_advance(count, max) == count < max

ensure_supported_proof_system(ps) == ps \in {"RiscZeroStark", "Stark"}

create_subnet(owner, ps) ==
    /\ ensure_supported_proof_system(ps)
    /\ can_advance(SubnetCount, SubnetIdMax)
    /\ BurnFree(owner, SubnetCreationBurn)
    /\ Subnets' = [Subnets EXCEPT ![SubnetCount] = [proofSystem |-> ps, active |-> TRUE]]
    /\ SubnetCount' = SubnetCount + 1
    /\ UNCHANGED <<block, minerVars, validatorVars, pendingVars, requestVars>>

register_miner(who, s, ps) ==
    /\ ensure_supported_proof_system(ps)
    /\ Subnets[s] # NoRecord
    /\ Subnets[s].proofSystem = ps
    /\ can_advance(MinerCount, MinerIdMax)
    /\ BurnFree(who, MinerRegistrationBurn)
    /\ Miners' = [Miners EXCEPT ![MinerCount] =
                    [operator |-> operator_commitment(who), subnet |-> s,
                     status |-> "Pending", exitAvailableAt |-> 0]]
    /\ MinerCount' = MinerCount + 1
    /\ UNCHANGED <<block, subnetVars, MinerLockedBond, MinerAttested,
                   validatorVars, pendingVars, requestVars>>

activate_miner(m, bond) ==
    /\ Miners[m] # NoRecord
    /\ Miners[m].status = "Pending"
    /\ Subnets[Miners[m].subnet] # NoRecord
    /\ bond \in MinMinerBond .. MaxMinerBond
    /\ ensure_miner_signature_bundle_bound(m)
    /\ ensure_route_capacity(active_miner_route_ids(Miners[m].subnet), m,
                             MaxActiveMinersPerSubnet)
    /\ Hold("MinerBond", Miners[m].operator.who, bond)
    /\ MinerLockedBond' = [MinerLockedBond EXCEPT ![m] = bond]
    /\ Miners' = [Miners EXCEPT ![m].status = "Active"]
    /\ UNCHANGED <<block, subnetVars, MinerCount, MinerAttested,
                   validatorVars, pendingVars, requestVars>>

(* The capacity check of a registration has no candidate: the new id is    *)
(* not in the route set.                                                   *)
register_validator(who, s, stake) ==
    /\ Subnets[s] # NoRecord
    /\ stake >= MinValidatorStake
    /\ can_advance(ValidatorCount, ValidatorIdMax)
    /\ Cardinality(active_validator_route_ids(s)) < MaxActiveValidatorsPerSubnet
    /\ Hold("ValidatorStake", who, stake)
    /\ Validators' = [Validators EXCEPT ![ValidatorCount] =
                        [operator |-> operator_commitment(who), subnet |-> s,
                         status |-> "Pending", exitAvailableAt |-> 0]]
    /\ ValidatorLockedStake' = [ValidatorLockedStake EXCEPT ![ValidatorCount] = stake]
    /\ ValidatorCount' = ValidatorCount + 1
    /\ UNCHANGED <<block, subnetVars, minerVars, ValidatorAttested,
                   pendingVars, requestVars>>

(* An active miner that publishes an identity re-enters the route set, so  *)
(* its bond record and the capacity are checked with the identity in place.*)
set_miner_identity(m) ==
    /\ Miners[m] # NoRecord
    /\ PendingMinerRequests[m] = 0
    /\ IdentityVerifierAccepts
    /\ Miners[m].status = "Active" =>
         /\ miner_has_active_locked_bond_record(m)
         /\ ensure_route_capacity(active_miner_route_ids(Miners[m].subnet) \cup {m}, m,
                                  MaxActiveMinersPerSubnet)
    /\ MinerAttested' = [MinerAttested EXCEPT ![m] = TRUE]
    /\ UNCHANGED <<block, currencyVars, subnetVars, Miners, MinerCount,
                   MinerLockedBond, validatorVars, pendingVars, requestVars>>

(* Mutation: no look at pending requests.                                  *)
clear_miner_identity_while_assigned(m) ==
    /\ Miners[m] # NoRecord
    /\ MinerAttested[m] => IdentityVerifierAccepts
    /\ MinerAttested' = [MinerAttested EXCEPT ![m] = FALSE]
    /\ UNCHANGED <<block, currencyVars, subnetVars, Miners, MinerCount,
                   MinerLockedBond, validatorVars, pendingVars, requestVars>>

clear_miner_identity(m) ==
    /\ Miners[m] # NoRecord
    /\ PendingMinerRequests[m] = 0
    /\ MinerAttested[m] => IdentityVerifierAccepts
    /\ MinerAttested' = [MinerAttested EXCEPT ![m] = FALSE]
    /\ UNCHANGED <<block, currencyVars, subnetVars, Miners, MinerCount,
                   MinerLockedBond, validatorVars, pendingVars, requestVars>>

(* The first identity activates a pending validator.  The capacity check   *)
(* reads the stored record, which is still pending then; a validator that  *)
(* is active already counts itself when its stake record is in force.      *)
set_validator_identity(v) ==
    /\ Validators[v] # NoRecord
    /\ PendingValidatorRequests[v] = 0
    /\ IdentityVerifierAccepts
    /\ Validators[v].status \in {"Pending", "Active"}
    /\ Validators[v].status = "Pending" => validator_has_active_locked_stake_record(v)
    /\ LET ids == active_validator_route_ids(Validators[v].subnet)
           itself == {u \in {v} : /\ Validators[v].status = "Active"
                                  /\ validator_has_active_locked_stake_record(v)}
       IN  ensure_route_capacity(ids \cup itself, v, MaxActiveValidatorsPerSubnet)
    /\ ValidatorAttested' = [ValidatorAttested EXCEPT ![v] = TRUE]
    /\ Validators' = [Validators EXCEPT ![v].status = "Active"]
    /\ UNCHANGED <<block, currencyVars, subnetVars, minerVars, ValidatorCount,
                   ValidatorLockedStake, pendingVars, requestVars>>

clear_validator_identity(v) ==
    /\ Validators[v] # NoRecord
    /\ PendingValidatorRequests[v] = 0
    /\ ValidatorAttested[v] => IdentityVerifierAccepts
    /\ ValidatorAttested' = [ValidatorAttested EXCEPT ![v] = FALSE]
    /\ Validators' = [Validators EXCEPT ![v].status = IF @ = "Active" THEN "Pending" ELSE @]
    /\ UNCHANGED <<block, currencyVars, subnetVars, minerVars, ValidatorCount,
                   ValidatorLockedStake, pendingVars, requestVars>>

(* Mutation: the exit is available at once.                                *)
deactivate_miner_without_cooldown(m) ==
    /\ Miners[m] # NoRecord
    /\ Miners[m].status \in {"Active", "Slashed"}
    /\ PendingMinerRequests[m] = 0
    /\ Miners' = [Miners EXCEPT ![m].status = "Exiting", ![m].exitAvailableAt = block]
    /\ UNCHANGED <<block, currencyVars, subnetVars, MinerCount, MinerLockedBond,
                   MinerAttested, validatorVars, pendingVars, requestVars>>

deactivate_miner(m) ==
    /\ Miners[m] # NoRecord
    /\ Miners[m].status \in {"Active", "Slashed"}
    /\ PendingMinerRequests[m] = 0
    /\ block + MinerExitCooldownBlocks <= BlockMax
    /\ Miners' = [Miners EXCEPT ![m].status = "Exiting",
                                ![m].exitAvailableAt = block + MinerExitCooldownBlocks]
    /\ UNCHANGED <<block, currencyVars, subnetVars, MinerCount, MinerLockedBond,
                   MinerAttested, validatorVars, pendingVars, requestVars>>

withdraw_miner_bond(m) ==
    /\ Miners[m] # NoRecord
    /\ Miners[m].status = "Exiting"
    /\ block >= Miners[m].exitAvailableAt
    /\ has_miner_bond(m)
    /\ Release("MinerBond", Miners[m].operator.who, locked_miner_bond(m))
    /\ MinerLockedBond' = [MinerLockedBond EXCEPT ![m] = NoRecord]
    /\ Miners' = [Miners EXCEPT ![m].status = "Disabled", ![m].exitAvailableAt = 0]
    /\ UNCHANGED <<block, subnetVars, MinerCount, MinerAttested,
                   validatorVars, pendingVars, requestVars>>

deactivate_validator(v) ==
    /\ Validators[v] # NoRecord
    /\ Validators[v].status \in {"Pending", "Active", "Slashed"}
    /\ PendingValidatorRequests[v] = 0
    /\ block + ValidatorExitCooldownBlocks <= BlockMax
    /\ Validators' = [Validators EXCEPT
                        ![v].status = "Exiting",
                        ![v].exitAvailableAt = block + ValidatorExitCooldownBlocks]
    /\ UNCHANGED <<block, currencyVars, subnetVars, minerVars, ValidatorCount,
                   ValidatorLockedStake, ValidatorAttested, pendingVars, requestVars>>

withdraw_validator_stake(v) ==
    /\ Validators[v] # NoRecord
    /\ Validators[v].status = "Exiting"
    /\ block >= Validators[v].exitAvailableAt
    /\ has_validator_stake(v)
    /\ Release("ValidatorStake", Validators[v].operator.who, locked_validator_stake(v))
    /\ ValidatorLockedStake' = [ValidatorLockedStake EXCEPT ![v] = NoRecord]
    /\ Validators' = [Validators EXCEPT ![v].status = "Disabled", ![v].exitAvailableAt = 0]
    /\ UNCHANGED <<block, subnetVars, minerVars, ValidatorCount,
                   ValidatorAttested, pendingVars, requestVars>>

-----------------------------------------------------------------------------
(* Slashing.                                                               *)

valid_slash(bps) == bps \in MinInvalidProofSlashBps .. MaxInvalidProofSlashBps

slash_miner_amount(m, bps) == pro_rata(locked_miner_bond(m), bps)

slash_validator_amount(v, bps) == pro_rata(locked_validator_stake(v), bps)

can_slash_miner(m, bps) ==
    /\ valid_slash(bps)
    /\ has_miner_bond(m)
    /\ pro_rata_fits(locked_miner_bond(m), bps)
    /\ held["MinerBond"][Miners[m].operator.who] >= slash_miner_amount(m, bps)
    /\ locked_miner_bond(m) >= slash_miner_amount(m, bps)

can_slash_validator(v, bps) ==
    /\ valid_slash(bps)
    /\ has_validator_stake(v)
    /\ pro_rata_fits(locked_validator_stake(v), bps)
    /\ held["ValidatorStake"][Validators[v].operator.who] >= slash_validator_amount(v, bps)
    /\ locked_validator_stake(v) >= slash_validator_amount(v, bps)

(* Mutation: a miner without its bond stays active.                        *)
slash_miner_bond_keeps_status(m, bps) ==
    /\ can_slash_miner(m, bps)
    /\ MinerLockedBond' = [MinerLockedBond EXCEPT
                             ![m] = locked_miner_bond(m) - slash_miner_amount(m, bps)]
    /\ UNCHANGED <<Miners, MinerCount, MinerAttested>>

(* The records after the slash; the hold is burned by the callers.  What   *)
(* remains decides the status, except that an exiting participant keeps    *)
(* exiting.                                                                *)
slash_miner_bond(m, bps) ==
    LET remaining == locked_miner_bond(m) - slash_miner_amount(m, bps)
    IN  /\ can_slash_miner(m, bps)
        /\ MinerLockedBond' = [MinerLockedBond EXCEPT ![m] = remaining]
        /\ Miners' = [Miners EXCEPT ![m].status =
                        IF remaining < MinMinerBond /\ @ # "Exiting" THEN "Slashed" ELSE @]
        /\ UNCHANGED <<MinerCount, MinerAttested>>

slash_validator_stake(v, bps) ==
    LET remaining == locked_validator_stake(v) - slash_validator_amount(v, bps)
    IN  /\ can_slash_validator(v, bps)
        /\ ValidatorLockedStake' = [ValidatorLockedStake EXCEPT ![v] = remaining]
        /\ Validators' = [Validators EXCEPT ![v].status =
                            IF remaining < MinValidatorStake /\ @ # "Exiting"
                            THEN "Slashed" ELSE @]
        /\ UNCHANGED <<ValidatorCount, ValidatorAttested>>

burn_miner_hold(h, m, bps) ==
    SubHeld(h, "MinerBond", Miners[m].operator.who, slash_miner_amount(m, bps))

burn_validator_hold(h, v, bps) ==
    SubHeld(h, "ValidatorStake", Validators[v].operator.who, slash_validator_amount(v, bps))

(* Root names the participant; the calls are refused while call payloads   *)
(* must be shielded.                                                       *)
slash_miner(m, bps) ==
    /\ ~ShieldedCallPayloads
    /\ Miners[m] # NoRecord
    /\ PendingMinerRequests[m] = 0
    /\ slash_miner_bond(m, bps)
    /\ held' = burn_miner_hold(held, m, bps)
    /\ UNCHANGED <<block, free, subnetVars, validatorVars, pendingVars, requestVars>>

slash_validator(v, bps) ==
    /\ ~ShieldedCallPayloads
    /\ Validators[v] # NoRecord
    /\ PendingValidatorRequests[v] = 0
    /\ slash_validator_stake(v, bps)
    /\ held' = burn_validator_hold(held, v, bps)
    /\ UNCHANGED <<block, free, subnetVars, minerVars, pendingVars, requestVars>>

-----------------------------------------------------------------------------
(* Requests.                                                               *)

increment_pending_assignment(m, v) ==
    /\ PendingMinerRequests' = [PendingMinerRequests EXCEPT ![m] = @ + 1]
    /\ PendingValidatorRequests' = [PendingValidatorRequests EXCEPT ![v] = @ + 1]

(* Mutation: the counters are removed instead of decremented.              *)
decrement_pending_assignment_to_none(m, v) ==
    /\ PendingMinerRequests[m] > 0
    /\ PendingValidatorRequests[v] > 0
    /\ PendingMinerRequests' = [PendingMinerRequests EXCEPT ![m] = 0]
    /\ PendingValidatorRequests' = [PendingValidatorRequests EXCEPT ![v] = 0]

decrement_pending_assignment(m, v) ==
    /\ PendingMinerRequests[m] > 0
    /\ PendingValidatorRequests[v] > 0
    /\ PendingMinerRequests' = [PendingMinerRequests EXCEPT ![m] = @ - 1]
    /\ PendingValidatorRequests' = [PendingValidatorRequests EXCEPT ![v] = @ - 1]

(* Mutation: the old status keeps its count.                               *)
transition_without_decrement(from, to) ==
    /\ RequestStatusCount[from] > 0
    /\ RequestStatusCount' = [RequestStatusCount EXCEPT ![to] = @ + 1]

transition_request_status(from, to) ==
    /\ RequestStatusCount[from] > 0
    /\ RequestStatusCount' = [RequestStatusCount EXCEPT ![from] = @ - 1, ![to] = @ + 1]

(* Mutation: any identifier that leaves room for the next one.             *)
ensure_request_id_can_advance_from_any(id) == can_advance(id, RequestIdMax)

(* The caller names the identifier of the request, which must be the next  *)
(* one: of two users that name the same, the second is refused.            *)
ensure_request_id_can_advance(id) ==
    /\ id = RequestCount
    /\ can_advance(id, RequestIdMax)

ensure_inference_request_openable(id, s, payment, fees) ==
    /\ InferenceRequests[id] = NoRecord
    /\ payment > 0
    /\ validate_fee_split(fees)
    /\ Subnets[s] # NoRecord
    /\ Subnets[s].active

open_inference_request(user, id, s, m, v, payment, fees) ==
    /\ Hold("InferencePayment", user, payment)
    /\ InferenceRequests' = [InferenceRequests EXCEPT ![id] =
         [user |-> user, subnet |-> s, miner |-> m, validator |-> v,
          payment |-> payment, fees |-> fees, createdAt |-> block,
          status |-> "Pending"]]
    /\ increment_pending_assignment(m, v)
    /\ RequestCount' = id + 1
    /\ RequestStatusCount' = [RequestStatusCount EXCEPT !["Pending"] = @ + 1]
    /\ UNCHANGED <<block, subnetVars, minerVars, validatorVars, ProofRecords>>

(* request_inference and request_inference_auto_route: the caller names no *)
(* participants, the chain chooses them.                                   *)
request_inference(user, id, s, payment, fees) ==
    /\ ensure_request_id_can_advance(id)
    /\ ensure_inference_request_openable(id, s, payment, fees)
    /\ \E mv \in route_assignments(s) :
         open_inference_request(user, id, s, mv[1], mv[2], payment, fees)

(* Mutation: any stored request.                                           *)
is_pending_or_closed(r) == InferenceRequests[r] # NoRecord

is_pending(r) == InferenceRequests[r] # NoRecord /\ InferenceRequests[r].status = "Pending"

(* The end of a pending request: both assignment counters and the status   *)
(* counters move; the callers move the payment.                            *)
close_request(r, status) ==
    LET req == InferenceRequests[r]
    IN  /\ is_pending(r)
        /\ InferenceRequests' = [InferenceRequests EXCEPT ![r].status = status]
        /\ decrement_pending_assignment(req.miner, req.validator)
        /\ transition_request_status("Pending", status)
        /\ RequestCount' = RequestCount

(* Mutation: the user's whole hold is released.                            *)
refund_stale_request_whole_hold(r, status) ==
    LET req == InferenceRequests[r]
    IN  /\ close_request(r, status)
        /\ block >= req.createdAt + RequestCancelDelayBlocks
        /\ Release("InferencePayment", req.user, held["InferencePayment"][req.user])
        /\ UNCHANGED <<block, subnetVars, minerVars, validatorVars, ProofRecords>>

(* Mutation: the miner must still be active.                               *)
refund_stale_request_if_active(r, status) ==
    LET req == InferenceRequests[r]
    IN  /\ close_request(r, status)
        /\ block >= req.createdAt + RequestCancelDelayBlocks
        /\ Miners[req.miner].status = "Active"
        /\ Release("InferencePayment", req.user, req.payment)
        /\ UNCHANGED <<block, subnetVars, minerVars, validatorVars, ProofRecords>>

(* cancel_inference and expire_inference share every check but the         *)
(* caller's: only the user cancels, anyone with the witnesses expires.     *)
refund_stale_request(r, status) ==
    LET req == InferenceRequests[r]
        cancel_available_at == req.createdAt + RequestCancelDelayBlocks
    IN  /\ close_request(r, status)
        /\ cancel_available_at <= BlockMax
        /\ block >= cancel_available_at
        /\ Release("InferencePayment", req.user, req.payment)
        /\ UNCHANGED <<block, subnetVars, minerVars, validatorVars, ProofRecords>>

cancel_inference(who, r) ==
    /\ is_pending(r) /\ InferenceRequests[r].user = who
    /\ refund_stale_request(r, "Cancelled")

expire_inference(r) == refund_stale_request(r, "Expired")

-----------------------------------------------------------------------------
(* Proofs.                                                                 *)

ensure_submission_fresh(submitted_at) ==
    /\ submitted_at <= block
    /\ submitted_at >= block - MaxProofSubmissionAgeBlocks

(* The sizes, latencies and commitments of a submission are inputs that a  *)
(* caller can always supply; its submission time is claimed by the caller. *)
validate_submission_for_request(r) ==
    LET req == InferenceRequests[r]
    IN  /\ is_pending(r)
        /\ ProofRecords[r] = NoRecord
        /\ Subnets[req.subnet] # NoRecord
        /\ \E submitted_at \in Blocks : ensure_submission_fresh(submitted_at)
        /\ Miners[req.miner] # NoRecord
        /\ Miners[req.miner].subnet = req.subnet
        /\ Miners[req.miner].status = "Active"
        /\ Validators[req.validator] # NoRecord
        /\ Validators[req.validator].subnet = req.subnet
        /\ Validators[req.validator].status = "Active"
        /\ ensure_distinct_operators(req.miner, req.validator)
        /\ ensure_miner_signature_bundle_bound(req.miner)
        /\ ensure_validator_signature_bundle_bound(req.validator)

(* Three transfers out of the user's hold, each of which must leave its    *)
(* receiver with an existential deposit.                                   *)
paid_miner(req) == Add(free, Miners[req.miner].operator.who, miner_payment(req))

paid_validator(req) ==
    Add(paid_miner(req), Validators[req.validator].operator.who, validator_fee(req))

can_settle(req) ==
    /\ validate_fee_split(req.fees)
    /\ pro_rata_fits(req.payment, req.fees.validator)
    /\ pro_rata_fits(req.payment, req.fees.treasury)
    /\ held["InferencePayment"][req.user] >= req.payment
    /\ CanDeposit(free, Miners[req.miner].operator.who, miner_payment(req))
    /\ CanDeposit(paid_miner(req), Validators[req.validator].operator.who, validator_fee(req))
    /\ CanDeposit(paid_validator(req), Treasury, treasury_fee(req))

(* Mutation: the fees stay in the hold.                                    *)
settle_request_payment_keeps_fees(r) ==
    LET req == InferenceRequests[r]
    IN  /\ can_settle(req)
        /\ free' = Add(paid_validator(req), Treasury, treasury_fee(req))
        /\ held' = SubHeld(held, "InferencePayment", req.user, miner_payment(req))
        /\ close_request(r, "Settled")

settle_request_payment(r) ==
    LET req == InferenceRequests[r]
    IN  /\ can_settle(req)
        /\ free' = Add(paid_validator(req), Treasury, treasury_fee(req))
        /\ held' = SubHeld(held, "InferencePayment", req.user, req.payment)
        /\ close_request(r, "Settled")

(* Mutation: the proof is not recorded.                                    *)
accept_proof_without_record(r) ==
    /\ validate_submission_for_request(r)
    /\ ProofVerifierAccepts
    /\ settle_request_payment(r)
    /\ UNCHANGED <<block, subnetVars, minerVars, validatorVars, ProofRecords>>

accept_proof(r) ==
    LET req == InferenceRequests[r]
    IN  /\ validate_submission_for_request(r)
        /\ ProofVerifierAccepts
        /\ settle_request_payment(r)
        /\ ProofRecords' = [ProofRecords EXCEPT ![r] =
             [subnet |-> req.subnet, miner |-> req.miner, validator |-> req.validator]]
        /\ UNCHANGED <<block, subnetVars, minerVars, validatorVars>>

(* An invalid proof that its own validator submits slashes both            *)
(* participants and refunds the user.                                      *)
reject_proof(r, bps) ==
    LET req == InferenceRequests[r]
        burned == burn_validator_hold(burn_miner_hold(held, req.miner, bps),
                                      req.validator, bps)
    IN  /\ validate_submission_for_request(r)
        /\ slash_miner_bond(req.miner, bps)
        /\ slash_validator_stake(req.validator, bps)
        /\ CanRelease("InferencePayment", req.user, req.payment)
        /\ free' = Add(free, req.user, req.payment)
        /\ held' = SubHeld(burned, "InferencePayment", req.user, req.payment)
        /\ close_request(r, "Rejected")
        /\ UNCHANGED <<block, subnetVars, ProofRecords>>

submit_proof(r) ==
    \/ accept_proof(r)
    \/ \E bps \in VerifierSlashBps : reject_proof(r, bps)

(* Anyone may show that the miner's proof is invalid: the miner alone is   *)
(* slashed.                                                                *)
challenge_proof(r, bps) ==
    LET req == InferenceRequests[r]
    IN  /\ validate_submission_for_request(r)
        /\ slash_miner_bond(req.miner, bps)
        /\ CanRelease("InferencePayment", req.user, req.payment)
        /\ free' = Add(free, req.user, req.payment)
        /\ held' = SubHeld(burn_miner_hold(held, req.miner, bps),
                           "InferencePayment", req.user, req.payment)
        /\ close_request(r, "Rejected")
        /\ UNCHANGED <<block, subnetVars, validatorVars, ProofRecords>>

-----------------------------------------------------------------------------
new_block ==
    /\ block < BlockMax
    /\ block' = block + 1
    /\ UNCHANGED <<currencyVars, subnetVars, minerVars, validatorVars, pendingVars, requestVars>>

Next ==
    \/ new_block
    \/ \E a \in Account, ps \in ProofSystem : create_subnet(a, ps)
    \/ \E a \in Account, s \in SubnetIds, ps \in ProofSystem : register_miner(a, s, ps)
    \/ \E a \in Account, s \in SubnetIds, x \in StakeInput : register_validator(a, s, x)
    \/ \E m \in MinerIds :
         \/ \E x \in BondInput : activate_miner(m, x)
         \/ set_miner_identity(m)
         \/ clear_miner_identity(m)
         \/ deactivate_miner(m)
         \/ withdraw_miner_bond(m)
         \/ \E bps \in RootSlashBps : slash_miner(m, bps)
    \/ \E v \in ValidatorIds :
         \/ set_validator_identity(v)
         \/ clear_validator_identity(v)
         \/ deactivate_validator(v)
         \/ withdraw_validator_stake(v)
         \/ \E bps \in RootSlashBps : slash_validator(v, bps)
    \/ \E a \in Account, id \in 0 .. RequestIdMax, s \in SubnetIds,
          x \in PaymentInput, f \in FeeInput : request_inference(a, id, s, x, f)
    \/ \E r \in RequestIds :
         \/ \E a \in Account : cancel_inference(a, r)
         \/ expire_inference(r)
         \/ submit_proof(r)
         \/ \E bps \in VerifierSlashBps : challenge_proof(r, bps)

Spec == Init /\ [][Next]_vars
=============================================================================
