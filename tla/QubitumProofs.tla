--------------------------- MODULE QubitumProofs ----------------------------
(***************************************************************************)
(* Properties of pallet-qubitum for every value of its constants.          *)
(***************************************************************************)
EXTENDS QubitumProperties, FiniteSetTheorems, TLAPS

(* The share of an amount is a natural number, and no more than the amount *)
(* when the rate is at most the whole (pro_rata).                          *)
LEMMA ProRataType ==
    ASSUME NEW x \in Nat, NEW bps \in Nat
    PROVE  pro_rata(x, bps) \in Nat
  BY DEF pro_rata, BPS_DENOMINATOR

(* A share at a rate of at most the whole is at most the amount: the       *)
(* reason a slash never exceeds what is locked.                            *)
LEMMA ProRataBound ==
    ASSUME NEW x \in Nat, NEW bps \in Nat, bps <= BPS_DENOMINATOR
    PROVE  pro_rata(x, bps) <= x
<1>1. x * (10000 - bps) \in Nat
  BY DEF BPS_DENOMINATOR
<1>2. x * (10000 - bps) = x * 10000 - x * bps
  OBVIOUS
<1>3. x * bps \in Nat
  OBVIOUS
<1>4. \A q \in Nat : q <= x * 10000 => q \div 10000 <= x
  OBVIOUS
<1> QED
  BY <1>1, <1>2, <1>3, <1>4 DEF pro_rata, BPS_DENOMINATOR

(* The two fees of a valid split never exceed the payment (payment_split). *)
LEMMA FeesWithinPayment ==
    ASSUME NEW p \in Nat, NEW a \in Nat, NEW b \in Nat, a + b <= BPS_DENOMINATOR
    PROVE  pro_rata(p, a) + pro_rata(p, b) <= p
<1>1. p * (10000 - (a + b)) \in Nat
  BY DEF BPS_DENOMINATOR
<1>2. p * (10000 - (a + b)) = p * 10000 - (p * a + p * b)
  OBVIOUS
<1>3. p * a \in Nat /\ p * b \in Nat
  OBVIOUS
<1>4. \A u, w \in Nat : u + w <= p * 10000 => (u \div 10000) + (w \div 10000) <= p
  OBVIOUS
<1> QED
  BY <1>1, <1>2, <1>3, <1>4 DEF pro_rata, BPS_DENOMINATOR

(* The assumptions on the constants, one fact per line, for citation.      *)
LEMMA ConstantTypes ==
    /\ SubnetIdMax \in Nat /\ MinerIdMax \in Nat /\ ValidatorIdMax \in Nat
    /\ RequestIdMax \in Nat /\ BlockMax \in Nat
    /\ SubnetCreationBurn \in Nat /\ MinerRegistrationBurn \in Nat
    /\ MinInvalidProofSlashBps \in Nat /\ MaxInvalidProofSlashBps \in Nat
    /\ MaxInvalidProofSlashBps <= BPS_DENOMINATOR
    /\ MinerExitCooldownBlocks \in Nat /\ ValidatorExitCooldownBlocks \in Nat
    /\ RequestCancelDelayBlocks \in Nat
    /\ BondInput \subseteq Nat /\ StakeInput \subseteq Nat /\ PaymentInput \subseteq Nat
    /\ RootSlashBps \subseteq Nat /\ VerifierSlashBps \subseteq Nat
    /\ FeeInput \subseteq FeeSplit
    /\ InitialFree \in [Account -> Nat]
    /\ Treasury \in Account
    /\ "MinerBond" \in HoldReason /\ "ValidatorStake" \in HoldReason
    /\ "InferencePayment" \in HoldReason
  BY QubitumAssumption

(* The identifier counters and the block number are bounded by numbers.    *)
LEMMA IdentifierBounds ==
    /\ SubnetIdMax \in Nat /\ MinerIdMax \in Nat /\ ValidatorIdMax \in Nat
    /\ RequestIdMax \in Nat /\ BlockMax \in Nat
  BY QubitumAssumption

(* Adding to one account's balance keeps every balance a natural number.   *)
LEMMA AddTypes ==
    ASSUME NEW f \in [Account -> Nat], NEW a \in Account, NEW x \in Nat
    PROVE  Add(f, a, x) \in [Account -> Nat]
  BY DEF Add

(* Holds stay natural numbers when an amount is added, and when an amount  *)
(* they cover is taken away; holds for other reasons are untouched.        *)
LEMMA HeldTypes ==
    ASSUME NEW h \in [HoldReason -> [Account -> Nat]],
           NEW r \in HoldReason, NEW a \in Account, NEW x \in Nat
    PROVE  /\ AddHeld(h, r, a, x) \in [HoldReason -> [Account -> Nat]]
           /\ h[r][a] >= x => SubHeld(h, r, a, x) \in [HoldReason -> [Account -> Nat]]
           /\ \A q \in HoldReason : q # r => SubHeld(h, r, a, x)[q] = h[q]
  BY DEF AddHeld, SubHeld

(* Putting an amount on hold keeps balances and holds natural numbers.     *)
LEMMA HoldTypes ==
    ASSUME CurrencyTypeOK, NEW r \in HoldReason, NEW a \in Account, NEW x \in Nat,
           Hold(r, a, x)
    PROVE  CurrencyTypeOK'
<1>1. held' \in [HoldReason -> [Account -> Nat]]
  BY HeldTypes DEF Hold, CurrencyTypeOK
<1>2. free[a] \in Nat /\ free[a] - x \in Nat
  BY CurrencyAssumption DEF Hold, CanHold, CurrencyTypeOK
<1>3. free' \in [Account -> Nat]
  BY <1>2 DEF Hold, CurrencyTypeOK
<1> QED
  BY <1>1, <1>3 DEF CurrencyTypeOK

(* Releasing a covered amount keeps balances and holds natural numbers.    *)
LEMMA ReleaseTypes ==
    ASSUME CurrencyTypeOK, NEW r \in HoldReason, NEW a \in Account, NEW x \in Nat,
           Release(r, a, x)
    PROVE  CurrencyTypeOK'
<1>1. held' \in [HoldReason -> [Account -> Nat]]
  BY HeldTypes, Zenon DEF Release, CanRelease, CurrencyTypeOK
<1>2. free' \in [Account -> Nat]
  BY DEF Release, Add, CurrencyTypeOK
<1> QED
  BY <1>1, <1>2 DEF CurrencyTypeOK

-----------------------------------------------------------------------------
(* A stored miner is a participant record, and its locked bond (recorded,  *)
(* or the operator's hold) is a natural number.                            *)
LEMMA MinerFacts ==
    ASSUME TypeOK, NEW m \in MinerIds, Miners[m] # NoRecord
    PROVE  /\ Miners[m] \in ChainParticipant
           /\ Miners[m].operator.who \in Account
           /\ Miners[m].subnet \in SubnetIds
           /\ locked_miner_bond(m) \in Nat
<1>1. Miners[m] \in ChainParticipant
  BY DEF TypeOK, Optional
<1>2. Miners[m].operator \in OperatorCommitment /\ Miners[m].subnet \in SubnetIds
  BY <1>1 DEF ChainParticipant
<1>3. Miners[m].operator.who \in Account
  BY <1>2 DEF OperatorCommitment
<1>4. held["MinerBond"][Miners[m].operator.who] \in Nat
  BY <1>3, ConstantTypes DEF TypeOK, CurrencyTypeOK
<1>5. MinerLockedBond[m] # NoRecord => MinerLockedBond[m] \in Nat
  BY DEF TypeOK, Optional
<1> QED
  BY <1>1, <1>2, <1>3, <1>4, <1>5 DEF locked_miner_bond

(* A stored validator is a participant record, and its locked stake is a   *)
(* natural number.                                                         *)
LEMMA ValidatorFacts ==
    ASSUME TypeOK, NEW v \in ValidatorIds, Validators[v] # NoRecord
    PROVE  /\ Validators[v] \in ChainParticipant
           /\ Validators[v].operator.who \in Account
           /\ Validators[v].subnet \in SubnetIds
           /\ locked_validator_stake(v) \in Nat
<1>1. Validators[v] \in ChainParticipant
  BY DEF TypeOK, Optional
<1>2. Validators[v].operator \in OperatorCommitment /\ Validators[v].subnet \in SubnetIds
  BY <1>1 DEF ChainParticipant
<1>3. Validators[v].operator.who \in Account
  BY <1>2 DEF OperatorCommitment
<1>4. held["ValidatorStake"][Validators[v].operator.who] \in Nat
  BY <1>3, ConstantTypes DEF TypeOK, CurrencyTypeOK
<1>5. ValidatorLockedStake[v] # NoRecord => ValidatorLockedStake[v] \in Nat
  BY DEF TypeOK, Optional
<1> QED
  BY <1>1, <1>2, <1>3, <1>4, <1>5 DEF locked_validator_stake

(* A pending request is a request record whose fields have their types.    *)
LEMMA RequestFacts ==
    ASSUME TypeOK, NEW r \in RequestIds, InferenceRequests[r] # NoRecord
    PROVE  LET req == InferenceRequests[r] IN
           /\ req \in ChainInferenceRequest
           /\ req.user \in Account /\ req.subnet \in SubnetIds
           /\ req.miner \in MinerIds /\ req.validator \in ValidatorIds
           /\ req.payment \in Nat /\ req.fees.validator \in Nat /\ req.fees.treasury \in Nat
           /\ req.createdAt \in Blocks /\ req.status \in RequestStatus
<1>1. InferenceRequests[r] \in ChainInferenceRequest
  BY DEF TypeOK, Optional
<1>2. /\ InferenceRequests[r].user \in Account
      /\ InferenceRequests[r].subnet \in SubnetIds
      /\ InferenceRequests[r].miner \in MinerIds
      /\ InferenceRequests[r].validator \in ValidatorIds
      /\ InferenceRequests[r].payment \in Nat
      /\ InferenceRequests[r].fees \in FeeSplit
      /\ InferenceRequests[r].createdAt \in Blocks
      /\ InferenceRequests[r].status \in RequestStatus
  BY <1>1 DEF ChainInferenceRequest
<1>3. \A f \in FeeSplit : f.validator \in Nat /\ f.treasury \in Nat
  BY DEF FeeSplit
<1> QED
  BY <1>1, <1>2, <1>3

(* A status change keeps the record a participant's.                       *)
LEMMA ParticipantUpdate ==
    ASSUME NEW p \in ChainParticipant, NEW s \in RegistryStatus, NEW b \in Blocks
    PROVE  /\ [p EXCEPT !.status = s] \in ChainParticipant
           /\ [p EXCEPT !.status = s, !.exitAvailableAt = b] \in ChainParticipant
  BY Zenon DEF ChainParticipant

(* A slash takes part of what is locked, never more (slash_miner_bond,     *)
(* slash_validator_stake).                                                 *)
LEMMA MinerSlashBound ==
    ASSUME TypeOK, NEW m \in MinerIds, Miners[m] # NoRecord, NEW bps \in Nat,
           can_slash_miner(m, bps)
    PROVE  /\ slash_miner_amount(m, bps) \in Nat
           /\ slash_miner_amount(m, bps) <= locked_miner_bond(m)
<1>1. locked_miner_bond(m) \in Nat
  BY MinerFacts
<1>2. bps <= BPS_DENOMINATOR
  BY ConstantTypes DEF can_slash_miner, valid_slash, BPS_DENOMINATOR
<1> QED
  BY <1>1, <1>2, ProRataType, ProRataBound DEF slash_miner_amount

(* A slash of a validator takes part of its locked stake, never more       *)
(* (slash_validator_stake).                                                *)
LEMMA ValidatorSlashBound ==
    ASSUME TypeOK, NEW v \in ValidatorIds, Validators[v] # NoRecord, NEW bps \in Nat,
           can_slash_validator(v, bps)
    PROVE  /\ slash_validator_amount(v, bps) \in Nat
           /\ slash_validator_amount(v, bps) <= locked_validator_stake(v)
<1>1. locked_validator_stake(v) \in Nat
  BY ValidatorFacts
<1>2. bps <= BPS_DENOMINATOR
  BY ConstantTypes DEF can_slash_validator, valid_slash, BPS_DENOMINATOR
<1> QED
  BY <1>1, <1>2, ProRataType, ProRataBound DEF slash_validator_amount

-----------------------------------------------------------------------------
(* Type correctness, one lemma for the steps of each part of the pallet.   *)

USE DEF currencyVars, subnetVars, minerVars, validatorVars, pendingVars, requestVars,
        can_advance, increment_pending_assignment, decrement_pending_assignment,
        transition_request_status

(* create_subnet, register_miner and register_validator keep the types.    *)
LEMMA RegistrationTypes ==
    ASSUME TypeOK, NEW a \in Account, NEW s, NEW ps, NEW x \in Nat,
           \/ ps \in ProofSystem /\ create_subnet(a, ps)
           \/ s \in SubnetIds /\ register_miner(a, s, ps)
           \/ s \in SubnetIds /\ register_validator(a, s, x)
    PROVE  TypeOK'
<1>1. /\ SubnetIdMax \in Nat /\ MinerIdMax \in Nat /\ ValidatorIdMax \in Nat
      /\ SubnetCreationBurn \in Nat /\ MinerRegistrationBurn \in Nat /\ x \in Nat
      /\ 0 \in Blocks /\ BlockMax \in Nat
  BY ConstantTypes DEF Blocks
<1>2. operator_commitment(a) \in OperatorCommitment
  BY DEF operator_commitment, OperatorCommitment
<1>3. s \in SubnetIds => [operator |-> operator_commitment(a), subnet |-> s,
                           status |-> "Pending", exitAvailableAt |-> 0] \in ChainParticipant
  BY <1>1, <1>2 DEF ChainParticipant, RegistryStatus
<1>4. CASE ps \in ProofSystem /\ create_subnet(a, ps)
  <2>1. [proofSystem |-> ps, active |-> TRUE] \in ChainSubnet
    BY <1>4 DEF ChainSubnet
  <2>2. CurrencyTypeOK'
    BY <1>1, <1>4, CurrencyAssumption DEF create_subnet, BurnFree, TypeOK, CurrencyTypeOK
  <2> QED
    BY <1>1, <1>4, <2>1, <2>2 DEF create_subnet, TypeOK, Optional, SubnetIds
<1>5. CASE s \in SubnetIds /\ register_miner(a, s, ps)
  <2>1. CurrencyTypeOK'
    BY <1>1, <1>5, CurrencyAssumption DEF register_miner, BurnFree, TypeOK, CurrencyTypeOK
  <2> QED
    BY <1>1, <1>3, <1>5, <2>1 DEF register_miner, TypeOK, Optional, MinerIds
<1>6. CASE s \in SubnetIds /\ register_validator(a, s, x)
  <2>1. "ValidatorStake" \in HoldReason
    BY ConstantTypes, Zenon
  <2>2. CurrencyTypeOK'
    BY <1>1, <1>6, <2>1, HoldTypes DEF register_validator, TypeOK
  <2> QED
    BY <1>1, <1>3, <1>6, <2>2 DEF register_validator, TypeOK, Optional, ValidatorIds
<1> QED
  BY <1>4, <1>5, <1>6

(* Every call of a miner's operator, and the root slash of a miner, keeps  *)
(* the types.                                                              *)
LEMMA MinerStepTypes ==
    ASSUME TypeOK, NEW m \in MinerIds, NEW x \in Nat, NEW bps \in Nat,
           \/ activate_miner(m, x)
           \/ set_miner_identity(m)
           \/ clear_miner_identity(m)
           \/ deactivate_miner(m)
           \/ withdraw_miner_bond(m)
           \/ slash_miner(m, bps)
    PROVE  TypeOK'
<1>1. /\ x \in Nat /\ bps \in Nat /\ BlockMax \in Nat /\ MinerExitCooldownBlocks \in Nat
      /\ 0 \in Blocks /\ "MinerBond" \in HoldReason
  BY ConstantTypes DEF Blocks
<1>2. /\ Miners[m] # NoRecord
      /\ Miners[m] \in ChainParticipant
      /\ Miners[m].operator.who \in Account
      /\ locked_miner_bond(m) \in Nat
  BY MinerFacts DEF activate_miner, set_miner_identity, clear_miner_identity,
     deactivate_miner, withdraw_miner_bond, slash_miner
<1>3. CASE activate_miner(m, x)
  <2>0. PICK op \in Account : op = Miners[m].operator.who
    BY <1>2
  <2>1. CurrencyTypeOK'
    BY <1>1, <1>3, <2>0, HoldTypes DEF activate_miner, TypeOK
  <2>2. Miners' \in [MinerIds -> Optional(ChainParticipant)]
    BY <1>1, <1>2, <1>3, ParticipantUpdate, Zenon
       DEF activate_miner, TypeOK, Optional, RegistryStatus
  <2> QED
    BY <1>1, <1>3, <2>1, <2>2 DEF activate_miner, TypeOK, Optional
<1>4. CASE set_miner_identity(m)
  BY <1>4 DEF set_miner_identity, TypeOK, CurrencyTypeOK
<1>5. CASE clear_miner_identity(m)
  BY <1>5 DEF clear_miner_identity, TypeOK, CurrencyTypeOK
<1>6. CASE deactivate_miner(m)
  <2>1. block + MinerExitCooldownBlocks \in Blocks
    BY <1>1, <1>6 DEF deactivate_miner, TypeOK, Blocks
  <2>2. Miners' \in [MinerIds -> Optional(ChainParticipant)]
    BY <1>2, <1>6, <2>1, ParticipantUpdate, Zenon
       DEF deactivate_miner, TypeOK, Optional, RegistryStatus
  <2> QED
    BY <1>6, <2>2 DEF deactivate_miner, TypeOK, CurrencyTypeOK
<1>7. CASE withdraw_miner_bond(m)
  <2>0. PICK op \in Account, y \in Nat : /\ op = Miners[m].operator.who
                                         /\ y = locked_miner_bond(m)
    BY <1>2
  <2>1. CurrencyTypeOK'
    BY <1>1, <1>7, <2>0, ReleaseTypes DEF withdraw_miner_bond, TypeOK
  <2>2. Miners' \in [MinerIds -> Optional(ChainParticipant)]
    BY <1>1, <1>2, <1>7, ParticipantUpdate, Zenon
    DEF withdraw_miner_bond, TypeOK, Optional, RegistryStatus
  <2> QED
    BY <1>7, <2>1, <2>2 DEF withdraw_miner_bond, TypeOK, Optional
<1>8. CASE slash_miner(m, bps)
  <2>1. slash_miner_amount(m, bps) \in Nat /\ slash_miner_amount(m, bps) <= locked_miner_bond(m)
    BY <1>1, <1>2, <1>8, MinerSlashBound DEF slash_miner, slash_miner_bond
  <2>2. CurrencyTypeOK'
    BY <1>1, <1>2, <1>8, <2>1, HeldTypes, Zenon
    DEF slash_miner, slash_miner_bond, can_slash_miner, burn_miner_hold, TypeOK, CurrencyTypeOK
  <2>3. Miners' \in [MinerIds -> Optional(ChainParticipant)]
    <3>1. PICK st \in RegistryStatus : Miners' = [Miners EXCEPT ![m].status = st]
      BY <1>2, <1>8, Zenon DEF slash_miner, slash_miner_bond, ChainParticipant, RegistryStatus
    <3> QED
      BY <1>1, <1>2, <3>1, ParticipantUpdate, Zenon DEF TypeOK, Optional
  <2> QED
    BY <1>2, <1>8, <2>1, <2>2, <2>3 DEF slash_miner, slash_miner_bond, TypeOK, Optional
<1> QED
  BY <1>3, <1>4, <1>5, <1>6, <1>7, <1>8

(* Every call of a validator's operator, and the root slash of a           *)
(* validator, keeps the types.                                             *)
LEMMA ValidatorStepTypes ==
    ASSUME TypeOK, NEW v \in ValidatorIds, NEW bps \in Nat,
           \/ set_validator_identity(v)
           \/ clear_validator_identity(v)
           \/ deactivate_validator(v)
           \/ withdraw_validator_stake(v)
           \/ slash_validator(v, bps)
    PROVE  TypeOK'
<1>1. /\ bps \in Nat /\ BlockMax \in Nat /\ ValidatorExitCooldownBlocks \in Nat
      /\ 0 \in Blocks /\ "ValidatorStake" \in HoldReason
  BY ConstantTypes DEF Blocks
<1>2. /\ Validators[v] # NoRecord
      /\ Validators[v] \in ChainParticipant
      /\ Validators[v].operator.who \in Account
      /\ locked_validator_stake(v) \in Nat
  BY ValidatorFacts DEF set_validator_identity, clear_validator_identity,
     deactivate_validator, withdraw_validator_stake, slash_validator
<1>3. CASE set_validator_identity(v)
  <2>1. Validators' \in [ValidatorIds -> Optional(ChainParticipant)]
    BY <1>1, <1>2, <1>3, ParticipantUpdate, Zenon
    DEF set_validator_identity, TypeOK, Optional, RegistryStatus
  <2> QED
    BY <1>3, <2>1 DEF set_validator_identity, TypeOK, CurrencyTypeOK
<1>4. CASE clear_validator_identity(v)
  <2>1. PICK st \in RegistryStatus : Validators' = [Validators EXCEPT ![v].status = st]
    BY <1>2, <1>4, Zenon DEF clear_validator_identity, ChainParticipant, RegistryStatus
  <2>2. Validators' \in [ValidatorIds -> Optional(ChainParticipant)]
    BY <1>1, <1>2, <2>1, ParticipantUpdate, Zenon DEF TypeOK, Optional
  <2> QED
    BY <1>4, <2>2 DEF clear_validator_identity, TypeOK, CurrencyTypeOK
<1>5. CASE deactivate_validator(v)
  <2>1. block + ValidatorExitCooldownBlocks \in Blocks
    BY <1>1, <1>5 DEF deactivate_validator, TypeOK, Blocks
  <2>2. Validators' \in [ValidatorIds -> Optional(ChainParticipant)]
    BY <1>2, <1>5, <2>1, ParticipantUpdate, Zenon
    DEF deactivate_validator, TypeOK, Optional, RegistryStatus
  <2> QED
    BY <1>5, <2>2 DEF deactivate_validator, TypeOK, CurrencyTypeOK
<1>6. CASE withdraw_validator_stake(v)
  <2>0. PICK op \in Account, x \in Nat : /\ op = Validators[v].operator.who
                                         /\ x = locked_validator_stake(v)
    BY <1>2
  <2>1. CurrencyTypeOK'
    BY <1>1, <1>6, <2>0, ReleaseTypes DEF withdraw_validator_stake, TypeOK
  <2>2. Validators' \in [ValidatorIds -> Optional(ChainParticipant)]
    BY <1>1, <1>2, <1>6, ParticipantUpdate, Zenon
    DEF withdraw_validator_stake, TypeOK, Optional, RegistryStatus
  <2> QED
    BY <1>6, <2>1, <2>2 DEF withdraw_validator_stake, TypeOK, Optional
<1>7. CASE slash_validator(v, bps)
  <2>1. /\ slash_validator_amount(v, bps) \in Nat
        /\ slash_validator_amount(v, bps) <= locked_validator_stake(v)
    BY <1>1, <1>2, <1>7, ValidatorSlashBound DEF slash_validator, slash_validator_stake
  <2>2. CurrencyTypeOK'
    BY <1>1, <1>2, <1>7, <2>1, HeldTypes, Zenon
    DEF slash_validator, slash_validator_stake, can_slash_validator, burn_validator_hold,
        TypeOK, CurrencyTypeOK
  <2>3. Validators' \in [ValidatorIds -> Optional(ChainParticipant)]
    <3>1. PICK st \in RegistryStatus : Validators' = [Validators EXCEPT ![v].status = st]
      BY <1>2, <1>7, Zenon
         DEF slash_validator, slash_validator_stake, ChainParticipant, RegistryStatus
    <3> QED
      BY <1>1, <1>2, <3>1, ParticipantUpdate, Zenon DEF TypeOK, Optional
  <2> QED
    BY <1>2, <1>7, <2>1, <2>2, <2>3 DEF slash_validator, slash_validator_stake, TypeOK, Optional
<1> QED
  BY <1>3, <1>4, <1>5, <1>6, <1>7

RequestTypeOK ==
    /\ InferenceRequests \in [RequestIds -> Optional(ChainInferenceRequest)]
    /\ RequestCount \in 0 .. RequestIdMax
    /\ RequestStatusCount \in [RequestStatus -> Nat]
    /\ PendingMinerRequests \in [MinerIds -> Nat]
    /\ PendingValidatorRequests \in [ValidatorIds -> Nat]

(* Closing a pending request keeps the request maps and counters in their  *)
(* types: no counter is decremented below zero.                            *)
LEMMA CloseTypes ==
    ASSUME TypeOK, NEW r \in RequestIds, NEW status \in RequestStatus, close_request(r, status)
    PROVE  RequestTypeOK'
<1>1. InferenceRequests[r] # NoRecord
  BY DEF close_request, is_pending
<1>2. [InferenceRequests[r] EXCEPT !.status = status] \in ChainInferenceRequest
  BY <1>1 DEF TypeOK, Optional, ChainInferenceRequest
<1>3. InferenceRequests' \in [RequestIds -> Optional(ChainInferenceRequest)]
  BY <1>2 DEF close_request, TypeOK, Optional
<1>4. /\ PendingMinerRequests' \in [MinerIds -> Nat]
      /\ PendingValidatorRequests' \in [ValidatorIds -> Nat]
  BY <1>1, RequestFacts DEF close_request, TypeOK
<1>5. RequestStatusCount' \in [RequestStatus -> Nat]
  BY DEF close_request, TypeOK, RequestStatus
<1>6. RequestCount' \in 0 .. RequestIdMax
  BY DEF close_request, TypeOK
<1> QED
  BY <1>3, <1>4, <1>5, <1>6 DEF RequestTypeOK

(* request_inference keeps the types.                                      *)
LEMMA OpenTypes ==
    ASSUME TypeOK, NEW a \in Account, NEW id \in 0 .. RequestIdMax,
           NEW s \in SubnetIds, NEW p \in PaymentInput, NEW f \in FeeInput,
           request_inference(a, id, s, p, f)
    PROVE  TypeOK'
<1>1. /\ p \in Nat /\ f \in FeeSplit /\ "InferencePayment" \in HoldReason
      /\ RequestIdMax \in Nat
  BY ConstantTypes, Zenon
<1>2. PICK mv \in route_assignments(s) :
         /\ InferenceRequests' = [InferenceRequests EXCEPT ![id] =
              [user |-> a, subnet |-> s, miner |-> mv[1], validator |-> mv[2],
               payment |-> p, fees |-> f, createdAt |-> block, status |-> "Pending"]]
         /\ PendingMinerRequests' = [PendingMinerRequests EXCEPT ![mv[1]] = @ + 1]
         /\ PendingValidatorRequests' = [PendingValidatorRequests EXCEPT ![mv[2]] = @ + 1]
  BY Zenon DEF request_inference, open_inference_request
<1>3. mv[1] \in MinerIds /\ mv[2] \in ValidatorIds
  BY DEF route_assignments, active_miner_route_ids, active_validator_route_ids
<1>4. id \in RequestIds /\ RequestCount' = id + 1
  BY <1>1 DEF request_inference, ensure_request_id_can_advance, open_inference_request, RequestIds
<1>5. [user |-> a, subnet |-> s, miner |-> mv[1], validator |-> mv[2],
       payment |-> p, fees |-> f, createdAt |-> block, status |-> "Pending"]
        \in ChainInferenceRequest
  BY <1>1, <1>3, Zenon DEF ChainInferenceRequest, RequestStatus, TypeOK
<1>6. CurrencyTypeOK'
  BY <1>1, HoldTypes, Zenon
     DEF request_inference, open_inference_request, TypeOK
<1>7. InferenceRequests' \in [RequestIds -> Optional(ChainInferenceRequest)]
  BY <1>2, <1>4, <1>5 DEF TypeOK, Optional
<1>8. /\ PendingMinerRequests' \in [MinerIds -> Nat]
      /\ PendingValidatorRequests' \in [ValidatorIds -> Nat]
  BY <1>2, <1>3 DEF TypeOK
<1>9. RequestStatusCount' \in [RequestStatus -> Nat] /\ RequestCount' \in 0 .. RequestIdMax
  BY <1>1, <1>4 DEF request_inference, open_inference_request, TypeOK, RequestIds, RequestStatus
<1> QED
  BY <1>6, <1>7, <1>8, <1>9
     DEF request_inference, open_inference_request, TypeOK

(* cancel_inference and expire_inference keep the types.                   *)
LEMMA RefundTypes ==
    ASSUME TypeOK, NEW r \in RequestIds, NEW status \in RequestStatus,
           refund_stale_request(r, status)
    PROVE  TypeOK'
<1>1. RequestTypeOK'
  BY CloseTypes, Zenon DEF refund_stale_request
<1>2. InferenceRequests[r] # NoRecord
  BY DEF refund_stale_request, close_request, is_pending
<1>3. PICK a \in Account, x \in Nat :
         a = InferenceRequests[r].user /\ x = InferenceRequests[r].payment
  BY <1>2, RequestFacts
<1>4. CurrencyTypeOK'
  BY <1>3, ReleaseTypes, ConstantTypes, Zenon DEF refund_stale_request, TypeOK
<1> QED
  BY <1>1, <1>4 DEF refund_stale_request, RequestTypeOK, TypeOK

(* What a proof submission establishes of the request's participants.      *)
LEMMA SubmissionFacts ==
    ASSUME TypeOK, NEW r \in RequestIds, validate_submission_for_request(r)
    PROVE  LET req == InferenceRequests[r] IN
           /\ req # NoRecord
           /\ req.miner \in MinerIds /\ Miners[req.miner] # NoRecord
           /\ req.validator \in ValidatorIds /\ Validators[req.validator] # NoRecord
<1>1. InferenceRequests[r] # NoRecord
  BY Zenon DEF validate_submission_for_request, is_pending
<1> QED
  BY <1>1, RequestFacts, Zenon DEF validate_submission_for_request

(* A settling submit_proof keeps the types: the three transfers never      *)
(* exceed the user's hold.                                                 *)
LEMMA AcceptTypes ==
    ASSUME TypeOK, NEW r \in RequestIds, accept_proof(r)
    PROVE  TypeOK'
<1> DEFINE req == InferenceRequests[r]
<1>1. /\ req # NoRecord
      /\ req.miner \in MinerIds /\ Miners[req.miner] # NoRecord
      /\ req.validator \in ValidatorIds /\ Validators[req.validator] # NoRecord
  BY SubmissionFacts, Zenon DEF accept_proof
<1>2. /\ req.user \in Account /\ req.payment \in Nat /\ req.subnet \in SubnetIds
      /\ req.fees.validator \in Nat /\ req.fees.treasury \in Nat
  BY <1>1, RequestFacts, Zenon
<1>3. /\ Miners[req.miner].operator.who \in Account
      /\ Validators[req.validator].operator.who \in Account
      /\ Treasury \in Account /\ "InferencePayment" \in HoldReason
  <2>1. /\ Miners[req.miner].operator.who \in Account
        /\ Validators[req.validator].operator.who \in Account
    BY <1>1, MinerFacts, ValidatorFacts
  <2> QED
    BY <2>1, ConstantTypes
<1>4. /\ validator_fee(req) \in Nat /\ treasury_fee(req) \in Nat
      /\ validator_fee(req) + treasury_fee(req) <= req.payment
  <2>1. req.fees.validator + req.fees.treasury <= BPS_DENOMINATOR
    BY Zenon DEF accept_proof, settle_request_payment, can_settle, validate_fee_split
  <2> QED
    BY <1>2, <2>1, ProRataType, FeesWithinPayment, Zenon DEF validator_fee, treasury_fee
<1>5. miner_payment(req) \in Nat
  BY <1>2, <1>4 DEF miner_payment
<1>6. paid_miner(req) \in [Account -> Nat]
  BY <1>3, <1>5, AddTypes, Zenon DEF paid_miner, TypeOK, CurrencyTypeOK
<1>7. paid_validator(req) \in [Account -> Nat]
  BY <1>3, <1>4, <1>6, AddTypes, Zenon DEF paid_validator
<1>8. free' \in [Account -> Nat]
  BY <1>3, <1>4, <1>7, AddTypes, Zenon DEF accept_proof, settle_request_payment
<1>9. held' \in [HoldReason -> [Account -> Nat]]
  BY <1>2, <1>3, HeldTypes, Zenon
  DEF accept_proof, settle_request_payment, can_settle, TypeOK, CurrencyTypeOK
<1>10. RequestTypeOK'
  BY CloseTypes DEF accept_proof, settle_request_payment, RequestStatus
<1>11. ProofRecords' \in [RequestIds -> Optional(ChainProofRecord)]
  <2>1. [subnet |-> req.subnet, miner |-> req.miner, validator |-> req.validator]
          \in ChainProofRecord
    BY <1>1, <1>2, Zenon DEF ChainProofRecord
  <2> QED
    BY <2>1, Zenon DEF accept_proof, TypeOK, Optional
<1> QED
  BY <1>8, <1>9, <1>10, <1>11 DEF accept_proof, RequestTypeOK, TypeOK, CurrencyTypeOK

(* slash_miner_bond keeps the miner records in their types, and what it    *)
(* burns is covered by the hold.                                           *)
LEMMA MinerSlashTypes ==
    ASSUME TypeOK, NEW m \in MinerIds, Miners[m] # NoRecord, NEW bps \in Nat,
           slash_miner_bond(m, bps)
    PROVE  /\ Miners' \in [MinerIds -> Optional(ChainParticipant)]
           /\ MinerLockedBond' \in [MinerIds -> Optional(Nat)]
           /\ burn_miner_hold(held, m, bps) \in [HoldReason -> [Account -> Nat]]
           /\ \A q \in HoldReason : q # "MinerBond" => burn_miner_hold(held, m, bps)[q] = held[q]
<1>1. /\ Miners[m] \in ChainParticipant /\ Miners[m].operator.who \in Account
      /\ locked_miner_bond(m) \in Nat
  BY MinerFacts
<1>2. slash_miner_amount(m, bps) \in Nat /\ slash_miner_amount(m, bps) <= locked_miner_bond(m)
  BY MinerSlashBound DEF slash_miner_bond
<1>3. Miners' \in [MinerIds -> Optional(ChainParticipant)]
  <2>1. PICK st \in RegistryStatus : Miners' = [Miners EXCEPT ![m].status = st]
    BY <1>1, Zenon DEF slash_miner_bond, ChainParticipant, RegistryStatus
  <2> QED
    BY <1>1, <2>1, ParticipantUpdate, ConstantTypes, Zenon DEF TypeOK, Optional, Blocks
<1>4. MinerLockedBond' \in [MinerIds -> Optional(Nat)]
  BY <1>1, <1>2 DEF slash_miner_bond, TypeOK, Optional
<1>5. /\ burn_miner_hold(held, m, bps) \in [HoldReason -> [Account -> Nat]]
      /\ \A q \in HoldReason : q # "MinerBond" => burn_miner_hold(held, m, bps)[q] = held[q]
  <2>1. "MinerBond" \in HoldReason /\ held \in [HoldReason -> [Account -> Nat]]
    BY ConstantTypes DEF TypeOK, CurrencyTypeOK
  <2> QED
    BY <1>1, <1>2, <2>1, HeldTypes, Zenon DEF slash_miner_bond, can_slash_miner, burn_miner_hold
<1> QED
  BY <1>3, <1>4, <1>5

(* slash_validator_stake keeps the validator records in their types, and   *)
(* what it burns is covered by the hold.                                   *)
LEMMA ValidatorSlashTypes ==
    ASSUME TypeOK, NEW v \in ValidatorIds, Validators[v] # NoRecord, NEW bps \in Nat,
           NEW h \in [HoldReason -> [Account -> Nat]],
           h["ValidatorStake"] = held["ValidatorStake"],
           slash_validator_stake(v, bps)
    PROVE  /\ Validators' \in [ValidatorIds -> Optional(ChainParticipant)]
           /\ ValidatorLockedStake' \in [ValidatorIds -> Optional(Nat)]
           /\ burn_validator_hold(h, v, bps) \in [HoldReason -> [Account -> Nat]]
           /\ \A q \in HoldReason : q # "ValidatorStake" => burn_validator_hold(h, v, bps)[q] = h[q]
<1>1. /\ Validators[v] \in ChainParticipant /\ Validators[v].operator.who \in Account
      /\ locked_validator_stake(v) \in Nat
  BY ValidatorFacts, Zenon
<1>2. /\ slash_validator_amount(v, bps) \in Nat
      /\ slash_validator_amount(v, bps) <= locked_validator_stake(v)
  BY ValidatorSlashBound DEF slash_validator_stake
<1>3. Validators' \in [ValidatorIds -> Optional(ChainParticipant)]
  <2>1. PICK st \in RegistryStatus : Validators' = [Validators EXCEPT ![v].status = st]
    BY <1>1, Zenon DEF slash_validator_stake, ChainParticipant, RegistryStatus
  <2> QED
    BY <1>1, <2>1, ParticipantUpdate, ConstantTypes, Zenon DEF TypeOK, Optional, Blocks
<1>4. ValidatorLockedStake' \in [ValidatorIds -> Optional(Nat)]
  BY <1>1, <1>2 DEF slash_validator_stake, TypeOK, Optional
<1>5. /\ burn_validator_hold(h, v, bps) \in [HoldReason -> [Account -> Nat]]
      /\ \A q \in HoldReason : q # "ValidatorStake" => burn_validator_hold(h, v, bps)[q] = h[q]
  <2>1. "ValidatorStake" \in HoldReason
    BY ConstantTypes, Zenon
  <2>2. h["ValidatorStake"][Validators[v].operator.who] >= slash_validator_amount(v, bps)
    BY DEF slash_validator_stake, can_slash_validator
  <2> QED
    BY <1>1, <1>2, <2>1, <2>2, HeldTypes, Zenon DEF burn_validator_hold
<1> QED
  BY <1>3, <1>4, <1>5

(* A rejecting submit_proof and challenge_proof keep the types.            *)
LEMMA RejectTypes ==
    ASSUME TypeOK, NEW r \in RequestIds, NEW bps \in VerifierSlashBps,
           reject_proof(r, bps) \/ challenge_proof(r, bps)
    PROVE  TypeOK'
<1> DEFINE req == InferenceRequests[r]
<1>1. /\ req # NoRecord
      /\ req.miner \in MinerIds /\ Miners[req.miner] # NoRecord
      /\ req.validator \in ValidatorIds /\ Validators[req.validator] # NoRecord
  BY SubmissionFacts, Zenon DEF reject_proof, challenge_proof
<1>2. /\ req.user \in Account /\ req.payment \in Nat /\ bps \in Nat
      /\ "InferencePayment" \in HoldReason /\ "ValidatorStake" \in HoldReason
  <2>1. req.user \in Account /\ req.payment \in Nat
    BY <1>1, RequestFacts
  <2>2. bps \in Nat /\ "InferencePayment" \in HoldReason /\ "ValidatorStake" \in HoldReason
    BY ConstantTypes, Zenon
  <2> QED
    BY <2>1, <2>2
<1>3. RequestTypeOK'
  BY CloseTypes, Zenon DEF reject_proof, challenge_proof, RequestStatus
<1>4. free' \in [Account -> Nat]
  <2>1. free' = Add(free, req.user, req.payment)
    BY Zenon DEF reject_proof, challenge_proof
  <2>2. free \in [Account -> Nat]
    BY DEF TypeOK, CurrencyTypeOK
  <2> QED
    BY <1>2, <2>1, <2>2, AddTypes
<1>5. PICK m \in MinerIds, v \in ValidatorIds : m = req.miner /\ v = req.validator
  BY <1>1
<1> DEFINE h == burn_miner_hold(held, m, bps)
<1>6. /\ Miners' \in [MinerIds -> Optional(ChainParticipant)]
      /\ MinerLockedBond' \in [MinerIds -> Optional(Nat)]
      /\ h \in [HoldReason -> [Account -> Nat]]
      /\ h["InferencePayment"] = held["InferencePayment"]
      /\ h["ValidatorStake"] = held["ValidatorStake"]
  BY <1>1, <1>2, <1>5, MinerSlashTypes, Zenon DEF reject_proof, challenge_proof
<1>7. CASE challenge_proof(r, bps)
  <2>1. held' \in [HoldReason -> [Account -> Nat]]
    BY <1>2, <1>5, <1>6, <1>7, HeldTypes, Zenon DEF challenge_proof, CanRelease
  <2> QED
    BY <1>3, <1>4, <1>6, <1>7, <2>1
    DEF challenge_proof, slash_miner_bond, RequestTypeOK, TypeOK, CurrencyTypeOK
<1>8. CASE reject_proof(r, bps)
  <2>1. PICK g \in [HoldReason -> [Account -> Nat]] : g = h
    BY <1>6, Zenon
  <2>2. slash_validator_stake(v, bps) /\ Validators[v] # NoRecord
    BY <1>1, <1>5, <1>8, Zenon DEF reject_proof
  <2>3. g["ValidatorStake"] = held["ValidatorStake"]
    BY <1>6, <2>1, Zenon
  <2>4. /\ Validators' \in [ValidatorIds -> Optional(ChainParticipant)]
        /\ ValidatorLockedStake' \in [ValidatorIds -> Optional(Nat)]
        /\ burn_validator_hold(g, v, bps) \in [HoldReason -> [Account -> Nat]]
        /\ burn_validator_hold(g, v, bps)["InferencePayment"] = g["InferencePayment"]
    BY <1>2, <2>2, <2>3, ValidatorSlashTypes, Zenon
  <2>5. PICK k \in [HoldReason -> [Account -> Nat]] : k = burn_validator_hold(g, v, bps)
    BY <2>4
  <2>6. k["InferencePayment"][req.user] >= req.payment
    BY <1>6, <1>8, <2>1, <2>4, <2>5, Zenon DEF reject_proof, CanRelease
  <2>7. held' = SubHeld(k, "InferencePayment", req.user, req.payment)
    BY <1>5, <1>8, <2>1, <2>5, Zenon DEF reject_proof
  <2>8. held' \in [HoldReason -> [Account -> Nat]]
    BY <1>2, <2>6, <2>7, HeldTypes, Zenon
  <2> QED
    BY <1>3, <1>4, <1>6, <1>8, <2>4, <2>8, Zenon
    DEF reject_proof, slash_miner_bond, slash_validator_stake, RequestTypeOK, TypeOK,
        CurrencyTypeOK
<1> QED
  BY <1>7, <1>8

(* The genesis state is of its type.                                       *)
LEMMA InitTypes == Init => TypeOK
<1> SUFFICES ASSUME Init PROVE TypeOK
  OBVIOUS
<1>1. /\ SubnetIdMax \in Nat /\ MinerIdMax \in Nat /\ ValidatorIdMax \in Nat
      /\ RequestIdMax \in Nat /\ BlockMax \in Nat
  BY ConstantTypes, Zenon
<1>2. CurrencyTypeOK
  BY ConstantTypes DEF Init, CurrencyTypeOK
<1>3. /\ block \in Blocks /\ SubnetCount \in 0 .. SubnetIdMax
      /\ MinerCount \in 0 .. MinerIdMax /\ ValidatorCount \in 0 .. ValidatorIdMax
      /\ RequestCount \in 0 .. RequestIdMax
  BY <1>1 DEF Init, Blocks
<1>4. /\ Subnets \in [SubnetIds -> Optional(ChainSubnet)]
      /\ Miners \in [MinerIds -> Optional(ChainParticipant)]
      /\ MinerLockedBond \in [MinerIds -> Optional(Nat)]
      /\ Validators \in [ValidatorIds -> Optional(ChainParticipant)]
      /\ ValidatorLockedStake \in [ValidatorIds -> Optional(Nat)]
      /\ InferenceRequests \in [RequestIds -> Optional(ChainInferenceRequest)]
      /\ ProofRecords \in [RequestIds -> Optional(ChainProofRecord)]
  BY DEF Init, Optional
<1>5. /\ MinerAttested \in [MinerIds -> BOOLEAN]
      /\ ValidatorAttested \in [ValidatorIds -> BOOLEAN]
      /\ PendingMinerRequests \in [MinerIds -> Nat]
      /\ PendingValidatorRequests \in [ValidatorIds -> Nat]
      /\ RequestStatusCount \in [RequestStatus -> Nat]
  BY DEF Init
<1> QED
  BY <1>2, <1>3, <1>4, <1>5 DEF TypeOK

(* Every step keeps the types.                                             *)
LEMMA NextTypes == TypeOK /\ [Next]_vars => TypeOK'
<1> SUFFICES ASSUME TypeOK, [Next]_vars PROVE TypeOK'
  OBVIOUS
<1>0. /\ StakeInput \subseteq Nat /\ BondInput \subseteq Nat /\ RootSlashBps \subseteq Nat
      /\ 0 \in Nat
  BY ConstantTypes, Zenon
<1>1. CASE UNCHANGED vars
  BY <1>1 DEF vars, TypeOK, CurrencyTypeOK
<1>2. CASE new_block
  <2>1. BlockMax \in Nat
    BY ConstantTypes, Zenon
  <2>2. block' \in Blocks
    BY <1>2, <2>1 DEF new_block, TypeOK, Blocks
  <2> QED
    BY <1>2, <2>2 DEF new_block, TypeOK, CurrencyTypeOK
<1>3. ASSUME NEW a \in Account, NEW ps \in ProofSystem, create_subnet(a, ps)
      PROVE  TypeOK'
  BY <1>0, <1>3, RegistrationTypes
<1>4. ASSUME NEW a \in Account, NEW s \in SubnetIds, NEW ps \in ProofSystem,
             register_miner(a, s, ps)
      PROVE  TypeOK'
  BY <1>0, <1>4, RegistrationTypes
<1>5. ASSUME NEW a \in Account, NEW s \in SubnetIds, NEW x \in StakeInput,
             register_validator(a, s, x)
      PROVE  TypeOK'
  BY <1>0, <1>5, RegistrationTypes
<1>6. ASSUME NEW m \in MinerIds,
             \/ \E x \in BondInput : activate_miner(m, x)
             \/ set_miner_identity(m)
             \/ clear_miner_identity(m)
             \/ deactivate_miner(m)
             \/ withdraw_miner_bond(m)
             \/ \E bps \in RootSlashBps : slash_miner(m, bps)
      PROVE  TypeOK'
  BY <1>0, <1>6, MinerStepTypes
<1>7. ASSUME NEW v \in ValidatorIds,
             \/ set_validator_identity(v)
             \/ clear_validator_identity(v)
             \/ deactivate_validator(v)
             \/ withdraw_validator_stake(v)
             \/ \E bps \in RootSlashBps : slash_validator(v, bps)
      PROVE  TypeOK'
  BY <1>0, <1>7, ValidatorStepTypes
<1>8. ASSUME NEW a \in Account, NEW id \in 0 .. RequestIdMax,
             NEW s \in SubnetIds, NEW x \in PaymentInput, NEW f \in FeeInput,
             request_inference(a, id, s, x, f)
      PROVE  TypeOK'
  BY <1>8, OpenTypes
<1>9. ASSUME NEW r \in RequestIds,
             \/ \E a \in Account : cancel_inference(a, r)
             \/ expire_inference(r)
      PROVE  TypeOK'
  BY <1>9, RefundTypes DEF cancel_inference, expire_inference, RequestStatus
<1>10. ASSUME NEW r \in RequestIds,
              submit_proof(r) \/ \E bps \in VerifierSlashBps : challenge_proof(r, bps)
       PROVE  TypeOK'
  BY <1>10, AcceptTypes, RejectTypes DEF submit_proof
<1> QED
  BY <1>1, <1>2, <1>3, <1>4, <1>5, <1>6, <1>7, <1>8, <1>9, <1>10 DEF Next

(* Type correctness, for every number of accounts, identifiers and blocks: *)
(* in particular no balance, hold or counter is ever driven below zero by  *)
(* a slash, a settlement, a refund or a withdrawal.                        *)
THEOREM TypeCorrect == Spec => []TypeOK
  BY InitTypes, NextTypes, PTL DEF Spec
=============================================================================
