------------------------- MODULE QubitumWorkProofs --------------------------
(***************************************************************************)
(* What pallet-qubitum guarantees about the requests it has assigned, for  *)
(* every value of the constants: proofs are on record for the settled ones *)
(* only, nobody validates their own work, and participants stay bound      *)
(* until their work is done.                                               *)
(***************************************************************************)
EXTENDS QubitumSafetyProofs

USE DEF currencyVars, subnetVars, minerVars, validatorVars, pendingVars, requestVars,
        can_advance, increment_pending_assignment, decrement_pending_assignment,
        transition_request_status

(* An opened request leaves the proof records and the participants alone,  *)
(* and its pair was eligible and of two operators.                         *)
LEMMA OpenFacts ==
    ASSUME CounterInv, NEW a \in Account, NEW id \in 0 .. RequestIdMax,
           NEW s \in SubnetIds, NEW x \in PaymentInput, NEW f \in FeeInput,
           request_inference(a, id, s, x, f)
    PROVE  \E m \in MinerIds, v \in ValidatorIds, q \in RequestIds :
             /\ Opens(a, s, x, f, m, v, q)
             /\ InferenceRequests'[q].miner = m /\ InferenceRequests'[q].validator = v
             /\ \A r \in RequestIds : r # q => InferenceRequests'[r] = InferenceRequests[r]
             /\ UNCHANGED <<minerVars, validatorVars, ProofRecords>>
<1>1. PICK m \in MinerIds, v \in ValidatorIds, q \in RequestIds : Opens(a, s, x, f, m, v, q)
  BY OpenSets, Zenon
<1>2. UNCHANGED <<minerVars, validatorVars, ProofRecords>>
  BY DEF request_inference, open_inference_request
<1>3. /\ InferenceRequests'[q].miner = m /\ InferenceRequests'[q].validator = v
      /\ \A r \in RequestIds : r # q => InferenceRequests'[r] = InferenceRequests[r]
  BY <1>1 DEF Opens, CounterInv, TypeOK
<1> QED
  BY <1>1, <1>2, <1>3, Zenon

-----------------------------------------------------------------------------
(* The proof records follow the settlements: a step that opens or refunds  *)
(* a request writes none, and a settlement writes exactly its own.         *)
LEMMA ProofStep == CounterInv /\ ProofIffSettled /\ [Next]_vars => ProofIffSettled'
<1> SUFFICES ASSUME CounterInv, ProofIffSettled, [Next]_vars, NEW r \in RequestIds
             PROVE  /\ ProofRecords'[r] # NoRecord <=> r \in RequestsIn("Settled")'
                    /\ ProofRecords'[r] # NoRecord =>
                         /\ ProofRecords'[r].subnet = InferenceRequests'[r].subnet
                         /\ ProofRecords'[r].miner = InferenceRequests'[r].miner
                         /\ ProofRecords'[r].validator = InferenceRequests'[r].validator
  BY DEF ProofIffSettled
<1>0. TypeOK /\ "Settled" \in RequestStatus \ {"Pending"}
  BY DEF CounterInv, RequestStatus
<1> DEFINE Same == ProofRecords'[r] = ProofRecords[r]
                   /\ InferenceRequests'[r] = InferenceRequests[r]
<1>1. CASE Same
  BY <1>1 DEF ProofIffSettled, RequestsIn
<1>2. CASE UNCHANGED <<pendingVars, requestVars>>
  BY <1>1, <1>2
<1>3. ASSUME NEW a \in Account, NEW id \in 0 .. RequestIdMax,
             NEW s \in SubnetIds, NEW x \in PaymentInput, NEW f \in FeeInput,
             request_inference(a, id, s, x, f)
      PROVE  Same \/ (/\ InferenceRequests[r] = NoRecord
                      /\ ProofRecords' = ProofRecords
                      /\ RequestsIn("Settled")' = RequestsIn("Settled"))
  <2>1. PICK m \in MinerIds, v \in ValidatorIds, q \in RequestIds :
           /\ Opens(a, s, x, f, m, v, q)
           /\ \A k \in RequestIds : k # q => InferenceRequests'[k] = InferenceRequests[k]
           /\ UNCHANGED ProofRecords
    BY <1>3, OpenFacts, Zenon
  <2> QED
    BY <1>0, <2>1, Zenon DEF Opens
<1>4. CASE /\ InferenceRequests[r] = NoRecord
           /\ ProofRecords' = ProofRecords
           /\ RequestsIn("Settled")' = RequestsIn("Settled")
  BY <1>4 DEF ProofIffSettled, RequestsIn
<1>5. ASSUME NEW q \in RequestIds, NEW status \in RequestStatus \ {"Pending"},
             close_request(q, status), RecordsProof(q, status), r # q
      PROVE  Same
  BY <1>0, <1>5, CloseFacts DEF RecordsProof, TypeOK
<1>6. ASSUME NEW status \in RequestStatus \ {"Pending"},
             close_request(r, status), RecordsProof(r, status)
      PROVE  /\ ProofRecords'[r] # NoRecord <=> r \in RequestsIn("Settled")'
             /\ ProofRecords'[r] # NoRecord =>
                  /\ ProofRecords'[r].subnet = InferenceRequests'[r].subnet
                  /\ ProofRecords'[r].miner = InferenceRequests'[r].miner
                  /\ ProofRecords'[r].validator = InferenceRequests'[r].validator
  <2>1. /\ is_pending(r) /\ InferenceRequests'[r] # NoRecord
        /\ InferenceRequests'[r].status = status
        /\ InferenceRequests'[r].subnet = InferenceRequests[r].subnet
        /\ InferenceRequests'[r].miner = InferenceRequests[r].miner
        /\ InferenceRequests'[r].validator = InferenceRequests[r].validator
    BY <1>0, <1>6, CloseFacts
  <2>2. ProofRecords[r] = NoRecord
    BY <2>1 DEF ProofIffSettled, RequestsIn, is_pending
  <2>3. CASE status = "Settled"
    <3>1. PICK p : /\ p = [subnet |-> InferenceRequests[r].subnet,
                           miner |-> InferenceRequests[r].miner,
                           validator |-> InferenceRequests[r].validator]
                   /\ ProofRecords' = [ProofRecords EXCEPT ![r] = p]
      BY <1>6, <2>3, Zenon DEF RecordsProof
    <3>2. /\ InferenceRequests[r].subnet \in SubnetIds
          /\ InferenceRequests[r].miner \in MinerIds
          /\ InferenceRequests[r].validator \in ValidatorIds
      BY <1>0, <2>1, RequestFacts DEF is_pending
    <3>3. /\ p \in ChainProofRecord /\ p.subnet = InferenceRequests[r].subnet
          /\ p.miner = InferenceRequests[r].miner
          /\ p.validator = InferenceRequests[r].validator
      BY <3>1, <3>2 DEF ChainProofRecord
    <3>4. ProofRecords'[r] = p /\ p # NoRecord
      BY <1>0, <3>1, <3>3, NoRecordAssumption, Zenon DEF TypeOK
    <3>5. r \in RequestsIn("Settled")'
      BY <2>1, <2>3 DEF RequestsIn
    <3> QED
      BY <2>1, <3>3, <3>4, <3>5
  <2>4. CASE status # "Settled"
    BY <1>6, <2>1, <2>2, <2>4 DEF RecordsProof, RequestsIn
  <2> QED
    BY <2>3, <2>4
<1> QED
  BY <1>1, <1>2, <1>3, <1>4, <1>5, <1>6, StepKinds

(* A proof is on record for exactly the settled requests and names the     *)
(* participants the request was assigned to, however proofs, challenges    *)
(* and refunds of the same request race.                                   *)
THEOREM ProofsAreSettlements == Spec => []ProofIffSettled
<1>1. Init => ProofIffSettled
  BY DEF Init, ProofIffSettled, RequestsIn
<1> QED
  BY <1>1, ProofStep, CounterInvariant, PTL DEF Spec

-----------------------------------------------------------------------------
(* Every stored request was stored before, with the same participants, or  *)
(* has just been assigned an eligible pair of different operators.         *)
LEMMA RequestOrigin ==
    ASSUME CounterInv, [Next]_vars, NEW r \in RequestIds, InferenceRequests'[r] # NoRecord
    PROVE  \/ /\ InferenceRequests[r] # NoRecord
              /\ InferenceRequests'[r].miner = InferenceRequests[r].miner
              /\ InferenceRequests'[r].validator = InferenceRequests[r].validator
              /\ InferenceRequests'[r].status = "Pending" =>
                   InferenceRequests[r].status = "Pending"
           \/ \E s \in SubnetIds, m \in MinerIds, v \in ValidatorIds :
                /\ <<m, v>> \in route_assignments(s)
                /\ InferenceRequests'[r].miner = m /\ InferenceRequests'[r].validator = v
                /\ UNCHANGED <<minerVars, validatorVars>>
<1>0. TypeOK
  BY DEF CounterInv
<1>1. CASE InferenceRequests'[r] = InferenceRequests[r]
  BY <1>1, Zenon
<1>2. CASE UNCHANGED <<pendingVars, requestVars>>
  BY <1>1, <1>2, Zenon
<1>3. ASSUME NEW a \in Account, NEW id \in 0 .. RequestIdMax,
             NEW s \in SubnetIds, NEW x \in PaymentInput, NEW f \in FeeInput,
             request_inference(a, id, s, x, f)
      PROVE  \/ InferenceRequests'[r] = InferenceRequests[r]
             \/ \E m \in MinerIds, v \in ValidatorIds :
                  /\ <<m, v>> \in route_assignments(s)
                  /\ InferenceRequests'[r].miner = m /\ InferenceRequests'[r].validator = v
                  /\ UNCHANGED <<minerVars, validatorVars>>
  <2>1. PICK m \in MinerIds, v \in ValidatorIds, q \in RequestIds :
           /\ Opens(a, s, x, f, m, v, q)
           /\ InferenceRequests'[q].miner = m /\ InferenceRequests'[q].validator = v
           /\ \A k \in RequestIds : k # q => InferenceRequests'[k] = InferenceRequests[k]
           /\ UNCHANGED <<minerVars, validatorVars>>
    BY <1>3, OpenFacts, Zenon
  <2>2. <<m, v>> \in route_assignments(s)
    BY <2>1 DEF Opens
  <2>3. CASE r = q
    BY <2>1, <2>2, <2>3, Zenon
  <2>4. CASE r # q
    BY <2>1, <2>4, Zenon
  <2> QED
    BY <2>3, <2>4, Zenon
<1>4. ASSUME NEW q \in RequestIds, NEW status \in RequestStatus \ {"Pending"},
             close_request(q, status)
      PROVE  \/ InferenceRequests'[r] = InferenceRequests[r]
             \/ /\ InferenceRequests[r] # NoRecord
                /\ InferenceRequests'[r].miner = InferenceRequests[r].miner
                /\ InferenceRequests'[r].validator = InferenceRequests[r].validator
                /\ InferenceRequests'[r].status # "Pending"
  BY <1>0, <1>4, CloseFacts DEF is_pending
<1>5. CASE \E a \in Account, id \in 0 .. RequestIdMax, s \in SubnetIds,
             x \in PaymentInput, f \in FeeInput : request_inference(a, id, s, x, f)
  BY <1>1, <1>3, <1>5, Zenon
<1>6. CASE \E q \in RequestIds, status \in RequestStatus \ {"Pending"} :
             close_request(q, status) /\ RecordsProof(q, status)
  BY <1>1, <1>4, <1>6, Zenon
<1> QED
  BY <1>2, <1>5, <1>6, StepKinds, Zenon

(* Operators are stored in the current form, and requests name stored      *)
(* participants: with the distinct commitments that routing demands, this  *)
(* makes the accounts distinct.                                            *)
RoleOperators ==
    /\ \A m \in MinerIds : Miners[m] # NoRecord => Miners[m].operator.form = "role"
    /\ \A v \in ValidatorIds : Validators[v] # NoRecord => Validators[v].operator.form = "role"

RequestsKnown ==
    \A r \in RequestIds : InferenceRequests[r] # NoRecord =>
        /\ Miners[InferenceRequests[r].miner] # NoRecord
        /\ Validators[InferenceRequests[r].validator] # NoRecord

SeparationInv == RoleOperators /\ RequestsKnown /\ NoSelfValidation

(* A stored participant stays stored under the same operator, and a new    *)
(* one has an operator in the current form.                                *)
LEMMA OperatorStep ==
    ASSUME CounterInv, [Next]_vars
    PROVE  /\ \A m \in MinerIds : Miners[m] # NoRecord =>
                Miners'[m] # NoRecord /\ Miners'[m].operator = Miners[m].operator
           /\ \A v \in ValidatorIds : Validators[v] # NoRecord =>
                Validators'[v] # NoRecord /\ Validators'[v].operator = Validators[v].operator
           /\ RoleOperators => RoleOperators'
<1>0. TypeOK /\ FreshIds
  BY DEF CounterInv
<1>1. \A m \in MinerIds :
         /\ Miners[m] # NoRecord =>
              Miners'[m] # NoRecord /\ Miners'[m].operator = Miners[m].operator
         /\ Miners[m] = NoRecord /\ Miners'[m] # NoRecord => Miners'[m].operator.form = "role"
  <2>1. CASE MinersKept
    BY <2>1 DEF MinersKept
  <2>2. CASE RegistersMiner
    <3>1. PICK a \in Account, k \in MinerIds :
             /\ Miners[k] = NoRecord /\ Miners'[k].operator = operator_commitment(a)
             /\ \A m \in MinerIds : m # k => Miners'[m] = Miners[m]
      BY <1>0, <2>2, MinerRegistered, Zenon
    <3>2. Miners'[k].operator.form = "role"
      BY <3>1 DEF operator_commitment
    <3> QED
      BY <3>1, <3>2, Zenon
  <2> QED
    BY <1>0, <2>1, <2>2, ParticipantSteps, Zenon
<1>2. \A v \in ValidatorIds :
         /\ Validators[v] # NoRecord =>
              Validators'[v] # NoRecord /\ Validators'[v].operator = Validators[v].operator
         /\ Validators[v] = NoRecord /\ Validators'[v] # NoRecord =>
              Validators'[v].operator.form = "role"
  <2>1. CASE ValidatorsKept
    BY <2>1 DEF ValidatorsKept
  <2>2. CASE RegistersValidator
    <3>1. PICK a \in Account, k \in ValidatorIds :
             /\ Validators[k] = NoRecord /\ Validators'[k].operator = operator_commitment(a)
             /\ \A v \in ValidatorIds : v # k => Validators'[v] = Validators[v]
      BY <1>0, <2>2, ValidatorRegistered, Zenon
    <3>2. Validators'[k].operator.form = "role"
      BY <3>1 DEF operator_commitment
    <3> QED
      BY <3>1, <3>2, Zenon
  <2> QED
    BY <1>0, <2>1, <2>2, ParticipantSteps, Zenon
<1> QED
  BY <1>1, <1>2 DEF RoleOperators

(* An eligible pair is stored, bound to work and, when operators have one  *)
(* form, of two accounts.                                                  *)
LEMMA RoutedPair ==
    ASSUME TypeOK, NEW s \in SubnetIds, NEW m \in MinerIds, NEW v \in ValidatorIds,
           <<m, v>> \in route_assignments(s)
    PROVE  /\ Miners[m] # NoRecord /\ Validators[v] # NoRecord
           /\ Miners[m].status = "Active" /\ Validators[v].status = "Active"
           /\ MinerLockedBond[m] # NoRecord /\ ValidatorLockedStake[v] # NoRecord
           /\ MinerAttested[m] /\ ValidatorAttested[v]
           /\ RoleOperators => Miners[m].operator.who # Validators[v].operator.who
<1>1. /\ m \in active_miner_route_ids(s) /\ v \in active_validator_route_ids(s)
      /\ Miners[m].operator # Validators[v].operator
  BY DEF route_assignments, ensure_distinct_operators
<1>2. /\ Miners[m] # NoRecord /\ Validators[v] # NoRecord
      /\ Miners[m].status = "Active" /\ Validators[v].status = "Active"
      /\ MinerLockedBond[m] # NoRecord /\ ValidatorLockedStake[v] # NoRecord
      /\ MinerAttested[m] /\ ValidatorAttested[v]
  BY <1>1, Zenon DEF active_miner_route_ids, active_validator_route_ids, miner_is_route_eligible,
     validator_is_route_eligible, miner_has_active_locked_bond_record,
     validator_has_active_locked_stake_record, ensure_miner_signature_bundle_bound,
     ensure_validator_signature_bundle_bound
<1>3. Miners[m].operator \in OperatorCommitment /\ Validators[v].operator \in OperatorCommitment
  BY <1>2, MinerFacts, ValidatorFacts DEF ChainParticipant
<1>4. RoleOperators => Miners[m].operator.who # Validators[v].operator.who
  BY <1>1, <1>2, <1>3 DEF RoleOperators, OperatorCommitment
<1> QED
  BY <1>2, <1>4

(* Every step keeps the participants of every request on two accounts.     *)
LEMMA SeparationStep == CounterInv /\ SeparationInv /\ [Next]_vars => SeparationInv'
<1> SUFFICES ASSUME CounterInv, SeparationInv, [Next]_vars PROVE SeparationInv'
  OBVIOUS
<1>0. TypeOK /\ TypeOK'
  BY CounterStep DEF CounterInv
<1>1. RoleOperators'
  BY OperatorStep, Zenon DEF SeparationInv
<1>2. ASSUME NEW r \in RequestIds, InferenceRequests'[r] # NoRecord
      PROVE  /\ Miners'[InferenceRequests'[r].miner] # NoRecord
             /\ Validators'[InferenceRequests'[r].validator] # NoRecord
             /\ Miners'[InferenceRequests'[r].miner].operator.who
                  # Validators'[InferenceRequests'[r].validator].operator.who
  <2>1. CASE /\ InferenceRequests[r] # NoRecord
             /\ InferenceRequests'[r].miner = InferenceRequests[r].miner
             /\ InferenceRequests'[r].validator = InferenceRequests[r].validator
    <3>1. PICK m \in MinerIds, v \in ValidatorIds :
             m = InferenceRequests[r].miner /\ v = InferenceRequests[r].validator
      BY <1>0, <2>1, RequestFacts
    <3>2. /\ Miners[m] # NoRecord /\ Validators[v] # NoRecord
          /\ Miners[m].operator.who # Validators[v].operator.who
      BY <2>1, <3>1, Zenon DEF SeparationInv, RequestsKnown, NoSelfValidation
    <3>3. /\ Miners'[m] # NoRecord /\ Miners'[m].operator = Miners[m].operator
          /\ Validators'[v] # NoRecord /\ Validators'[v].operator = Validators[v].operator
      BY <3>2, OperatorStep, Zenon
    <3> QED
      BY <2>1, <3>1, <3>2, <3>3, Zenon
  <2>2. ASSUME NEW s \in SubnetIds, NEW m \in MinerIds, NEW v \in ValidatorIds,
               <<m, v>> \in route_assignments(s), UNCHANGED <<minerVars, validatorVars>>
        PROVE  /\ Miners'[m] # NoRecord /\ Validators'[v] # NoRecord
               /\ Miners'[m].operator.who # Validators'[v].operator.who
    BY <1>0, <2>2, RoutedPair DEF SeparationInv
  <2> QED
    BY <1>2, <2>1, <2>2, RequestOrigin, Zenon
<1> QED
  BY <1>1, <1>2, Zenon DEF SeparationInv, RequestsKnown, NoSelfValidation

(* No request is ever assigned to a miner and a validator of one account.  *)
(* The pallet compares commitments only when it assigns a pair; that it    *)
(* stays so rests on operators never being replaced and on all records of  *)
(* a chain from genesis having commitments of one form.                    *)
THEOREM OperatorsAreSeparate == Spec => []NoSelfValidation
<1>1. Init => SeparationInv
  BY DEF Init, SeparationInv, RoleOperators, RequestsKnown, NoSelfValidation
<1>2. SeparationInv => NoSelfValidation
  BY DEF SeparationInv
<1> QED
  BY <1>1, <1>2, SeparationStep, CounterInvariant, PTL DEF Spec

-----------------------------------------------------------------------------
(* A participant that can be held to its work: it has a capital record and *)
(* a bound identity, and has not begun to leave.                           *)
MinerBound(m) ==
    /\ Miners[m] # NoRecord
    /\ Miners[m].status \in {"Active", "Slashed"}
    /\ MinerLockedBond[m] # NoRecord
    /\ MinerAttested[m]

ValidatorBound(v) ==
    /\ Validators[v] # NoRecord
    /\ Validators[v].status \in {"Active", "Slashed"}
    /\ ValidatorLockedStake[v] # NoRecord
    /\ ValidatorAttested[v]

(* A slash of any miner leaves a bound miner bound: the record becomes a   *)
(* smaller number and the status at worst slashed.                         *)
LEMMA MinerSlashBinds ==
    ASSUME TypeOK, NEW m \in MinerIds, Miners[m] # NoRecord, NEW bps \in Nat,
           slash_miner_bond(m, bps), NEW k \in MinerIds, MinerBound(k)
    PROVE  MinerBound(k)'
<1>1. PICK p \in ChainParticipant : p = Miners[m] /\ locked_miner_bond(m) \in Nat
  BY MinerFacts
<1>2. slash_miner_amount(m, bps) \in Nat /\ slash_miner_amount(m, bps) <= locked_miner_bond(m)
  BY MinerSlashBound DEF slash_miner_bond
<1>3. PICK left \in Nat : MinerLockedBond' = [MinerLockedBond EXCEPT ![m] = left]
  <2>1. locked_miner_bond(m) - slash_miner_amount(m, bps) \in Nat
    BY <1>1, <1>2
  <2> QED
    BY <2>1, Zenon DEF slash_miner_bond
<1>4. PICK st \in {"Slashed", p.status} : Miners' = [Miners EXCEPT ![m].status = st]
  BY <1>1, Zenon DEF slash_miner_bond
<1>5. MinerAttested' = MinerAttested
  BY DEF slash_miner_bond
<1>6. CASE k # m
  BY <1>3, <1>4, <1>5, <1>6 DEF MinerBound, TypeOK
<1>7. CASE k = m
  <2>1. MinerLockedBond'[k] # NoRecord
    BY <1>3, <1>7, NoRecordAssumption DEF TypeOK
  <2>2. Miners'[k] = [p EXCEPT !.status = st]
    BY <1>1, <1>4, <1>7, Zenon DEF TypeOK
  <2>3. st \in {"Active", "Slashed"} /\ st \in RegistryStatus
    BY <1>1, <1>4, <1>7 DEF MinerBound, RegistryStatus
  <2>4. Miners'[k] \in ChainParticipant /\ Miners'[k].status = st
    BY <2>2, <2>3 DEF ChainParticipant
  <2> QED
    BY <1>5, <2>1, <2>3, <2>4, NoRecordAssumption DEF MinerBound
<1> QED
  BY <1>6, <1>7

(* The same for validators.                                                *)
LEMMA ValidatorSlashBinds ==
    ASSUME TypeOK, NEW v \in ValidatorIds, Validators[v] # NoRecord, NEW bps \in Nat,
           slash_validator_stake(v, bps), NEW k \in ValidatorIds, ValidatorBound(k)
    PROVE  ValidatorBound(k)'
<1>1. PICK p \in ChainParticipant : p = Validators[v] /\ locked_validator_stake(v) \in Nat
  BY ValidatorFacts
<1>2. /\ slash_validator_amount(v, bps) \in Nat
      /\ slash_validator_amount(v, bps) <= locked_validator_stake(v)
  BY ValidatorSlashBound DEF slash_validator_stake
<1>3. PICK left \in Nat : ValidatorLockedStake' = [ValidatorLockedStake EXCEPT ![v] = left]
  <2>1. locked_validator_stake(v) - slash_validator_amount(v, bps) \in Nat
    BY <1>1, <1>2
  <2> QED
    BY <2>1, Zenon DEF slash_validator_stake
<1>4. PICK st \in {"Slashed", p.status} : Validators' = [Validators EXCEPT ![v].status = st]
  BY <1>1, Zenon DEF slash_validator_stake
<1>5. ValidatorAttested' = ValidatorAttested
  BY DEF slash_validator_stake
<1>6. CASE k # v
  BY <1>3, <1>4, <1>5, <1>6 DEF ValidatorBound, TypeOK
<1>7. CASE k = v
  <2>1. ValidatorLockedStake'[k] # NoRecord
    BY <1>3, <1>7, NoRecordAssumption DEF TypeOK
  <2>2. Validators'[k] = [p EXCEPT !.status = st]
    BY <1>1, <1>4, <1>7, Zenon DEF TypeOK
  <2>3. st \in {"Active", "Slashed"} /\ st \in RegistryStatus
    BY <1>1, <1>4, <1>7 DEF ValidatorBound, RegistryStatus
  <2>4. Validators'[k] \in ChainParticipant /\ Validators'[k].status = st
    BY <2>2, <2>3 DEF ChainParticipant
  <2> QED
    BY <1>5, <2>1, <2>3, <2>4, NoRecordAssumption DEF ValidatorBound
<1> QED
  BY <1>6, <1>7

(* While a miner has pending requests no call unbinds it: exits, root      *)
(* slashes and identity changes are refused, and activation and withdrawal *)
(* concern miners that are not bound.                                      *)
LEMMA MinerStaysBound ==
    ASSUME CounterInv, [Next]_vars, NEW k \in MinerIds, MinerBound(k),
           PendingMinerRequests[k] # 0
    PROVE  MinerBound(k)'
<1>0. TypeOK /\ FreshIds
  BY DEF CounterInv
<1>1. CASE UNCHANGED minerVars
  BY <1>1 DEF MinerBound
<1>2. CASE UNCHANGED vars \/ new_block
  BY <1>1, <1>2, Zenon DEF vars, new_block
<1>3. ASSUME NEW a \in Account, NEW ps \in ProofSystem, create_subnet(a, ps)
      PROVE  UNCHANGED minerVars
  BY <1>3 DEF create_subnet
<1>4. ASSUME NEW a \in Account, NEW s \in SubnetIds, NEW ps \in ProofSystem,
             register_miner(a, s, ps)
      PROVE  MinerBound(k)'
  <2>1. RegistersMiner /\ UNCHANGED <<MinerLockedBond, MinerAttested>>
    BY <1>4, Zenon DEF register_miner, RegistersMiner
  <2>2. Miners'[k] = Miners[k]
    BY <1>0, <2>1, MinerRegistered, Zenon DEF MinerBound
  <2> QED
    BY <2>1, <2>2 DEF MinerBound
<1>5. ASSUME NEW a \in Account, NEW s \in SubnetIds, NEW x \in StakeInput,
             register_validator(a, s, x)
      PROVE  UNCHANGED minerVars
  BY <1>5 DEF register_validator
<1>6. ASSUME NEW m \in MinerIds,
             \/ \E x \in BondInput : activate_miner(m, x)
             \/ set_miner_identity(m)
             \/ clear_miner_identity(m)
             \/ deactivate_miner(m)
             \/ withdraw_miner_bond(m)
             \/ \E bps \in RootSlashBps : slash_miner(m, bps)
      PROVE  MinerBound(k)'
  <2> DEFINE Unmoved == /\ Miners'[k] = Miners[k] /\ MinerLockedBond'[k] = MinerLockedBond[k]
                        /\ MinerAttested'[k] = MinerAttested[k]
  <2>1. k # m
    BY <1>6 DEF MinerBound, activate_miner, set_miner_identity, clear_miner_identity,
       deactivate_miner, withdraw_miner_bond, slash_miner
  <2>2. ASSUME NEW x \in BondInput, activate_miner(m, x)
        PROVE  Unmoved
    BY <1>0, <2>1, <2>2 DEF TypeOK, activate_miner
  <2>3. set_miner_identity(m) => Unmoved
    BY <1>0, <2>1 DEF TypeOK, set_miner_identity
  <2>4. clear_miner_identity(m) => Unmoved
    BY <1>0, <2>1 DEF TypeOK, clear_miner_identity
  <2>5. deactivate_miner(m) => Unmoved
    BY <1>0, <2>1 DEF TypeOK, deactivate_miner
  <2>6. withdraw_miner_bond(m) => Unmoved
    BY <1>0, <2>1 DEF TypeOK, withdraw_miner_bond
  <2>7. ASSUME NEW bps \in RootSlashBps, slash_miner(m, bps)
        PROVE  Unmoved
    <3>1. PICK st, left :
             /\ Miners' = [Miners EXCEPT ![m].status = st]
             /\ MinerLockedBond' = [MinerLockedBond EXCEPT ![m] = left]
             /\ MinerAttested' = MinerAttested
      BY <2>7, Zenon DEF slash_miner, slash_miner_bond
    <3> QED
      BY <1>0, <2>1, <3>1 DEF TypeOK
  <2>8. Unmoved => MinerBound(k)'
    BY DEF MinerBound
  <2> QED
    BY <1>6, <2>2, <2>3, <2>4, <2>5, <2>6, <2>7, <2>8, Zenon
<1>7. ASSUME NEW v \in ValidatorIds,
             \/ set_validator_identity(v)
             \/ clear_validator_identity(v)
             \/ deactivate_validator(v)
             \/ withdraw_validator_stake(v)
             \/ \E bps \in RootSlashBps : slash_validator(v, bps)
      PROVE  UNCHANGED minerVars
  BY <1>7 DEF set_validator_identity, clear_validator_identity, deactivate_validator,
     withdraw_validator_stake, slash_validator
<1>8. ASSUME NEW a \in Account, NEW id \in 0 .. RequestIdMax,
             NEW s \in SubnetIds, NEW x \in PaymentInput, NEW f \in FeeInput,
             request_inference(a, id, s, x, f)
      PROVE  UNCHANGED minerVars
  BY <1>8 DEF request_inference, open_inference_request
<1>9. ASSUME NEW r \in RequestIds,
             \/ \E a \in Account : cancel_inference(a, r)
             \/ expire_inference(r)
             \/ accept_proof(r)
      PROVE  UNCHANGED minerVars
  BY <1>9, Zenon DEF cancel_inference, expire_inference, refund_stale_request, accept_proof
<1>10. ASSUME NEW r \in RequestIds, NEW bps \in VerifierSlashBps,
              reject_proof(r, bps) \/ challenge_proof(r, bps)
       PROVE  MinerBound(k)'
  <2>1. validate_submission_for_request(r) /\ bps \in Nat
    BY <1>10, ConstantTypes DEF reject_proof, challenge_proof
  <2>2. PICK m \in MinerIds : m = InferenceRequests[r].miner /\ Miners[m] # NoRecord
    BY <1>0, <2>1, SubmissionFacts
  <2>3. slash_miner_bond(m, bps)
    BY <1>10, <2>2, Zenon DEF reject_proof, challenge_proof
  <2> QED
    BY <1>0, <2>1, <2>2, <2>3, MinerSlashBinds
<1> QED
  BY <1>1, <1>2, <1>3, <1>4, <1>5, <1>6, <1>7, <1>8, <1>9, <1>10, Zenon DEF Next, submit_proof

(* The same for validators, which only a rejected proof slashes while they *)
(* have work.                                                              *)
LEMMA ValidatorStaysBound ==
    ASSUME CounterInv, [Next]_vars, NEW k \in ValidatorIds, ValidatorBound(k),
           PendingValidatorRequests[k] # 0
    PROVE  ValidatorBound(k)'
<1>0. TypeOK /\ FreshIds
  BY DEF CounterInv
<1>1. CASE UNCHANGED validatorVars
  BY <1>1 DEF ValidatorBound
<1>2. CASE UNCHANGED vars \/ new_block
  BY <1>1, <1>2, Zenon DEF vars, new_block
<1>3. ASSUME NEW a \in Account, NEW ps \in ProofSystem, create_subnet(a, ps)
      PROVE  UNCHANGED validatorVars
  BY <1>3 DEF create_subnet
<1>4. ASSUME NEW a \in Account, NEW s \in SubnetIds, NEW ps \in ProofSystem,
             register_miner(a, s, ps)
      PROVE  UNCHANGED validatorVars
  BY <1>4 DEF register_miner
<1>5. ASSUME NEW a \in Account, NEW s \in SubnetIds, NEW x \in StakeInput,
             register_validator(a, s, x)
      PROVE  ValidatorBound(k)'
  <2>1. /\ RegistersValidator /\ UNCHANGED ValidatorAttested
        /\ ValidatorLockedStake' = [ValidatorLockedStake EXCEPT ![ValidatorCount] = x]
    BY <1>5, Zenon DEF register_validator, RegistersValidator
  <2>2. Validators'[k] = Validators[k] /\ k # ValidatorCount
    BY <1>0, <2>1, ValidatorRegistered, Zenon DEF ValidatorBound
  <2>3. ValidatorLockedStake'[k] = ValidatorLockedStake[k]
    BY <1>0, <2>1, <2>2, Zenon DEF TypeOK
  <2> QED
    BY <2>1, <2>2, <2>3 DEF ValidatorBound
<1>6. ASSUME NEW v \in ValidatorIds,
             \/ set_validator_identity(v)
             \/ clear_validator_identity(v)
             \/ deactivate_validator(v)
             \/ withdraw_validator_stake(v)
             \/ \E bps \in RootSlashBps : slash_validator(v, bps)
      PROVE  ValidatorBound(k)'
  <2> DEFINE Unmoved == /\ Validators'[k] = Validators[k]
                        /\ ValidatorLockedStake'[k] = ValidatorLockedStake[k]
                        /\ ValidatorAttested'[k] = ValidatorAttested[k]
  <2>1. k # v
    BY <1>6 DEF ValidatorBound, set_validator_identity, clear_validator_identity,
       deactivate_validator, withdraw_validator_stake, slash_validator
  <2>2. set_validator_identity(v) => Unmoved
    BY <1>0, <2>1 DEF TypeOK, set_validator_identity
  <2>3. clear_validator_identity(v) => Unmoved
    BY <1>0, <2>1 DEF TypeOK, clear_validator_identity
  <2>4. deactivate_validator(v) => Unmoved
    BY <1>0, <2>1 DEF TypeOK, deactivate_validator
  <2>5. withdraw_validator_stake(v) => Unmoved
    BY <1>0, <2>1 DEF TypeOK, withdraw_validator_stake
  <2>6. ASSUME NEW bps \in RootSlashBps, slash_validator(v, bps)
        PROVE  Unmoved
    <3>1. PICK st, left :
             /\ Validators' = [Validators EXCEPT ![v].status = st]
             /\ ValidatorLockedStake' = [ValidatorLockedStake EXCEPT ![v] = left]
             /\ ValidatorAttested' = ValidatorAttested
      BY <2>6, Zenon DEF slash_validator, slash_validator_stake
    <3> QED
      BY <1>0, <2>1, <3>1 DEF TypeOK
  <2>7. Unmoved => ValidatorBound(k)'
    BY DEF ValidatorBound
  <2> QED
    BY <1>6, <2>2, <2>3, <2>4, <2>5, <2>6, <2>7, Zenon
<1>7. ASSUME NEW m \in MinerIds,
             \/ \E x \in BondInput : activate_miner(m, x)
             \/ set_miner_identity(m)
             \/ clear_miner_identity(m)
             \/ deactivate_miner(m)
             \/ withdraw_miner_bond(m)
             \/ \E bps \in RootSlashBps : slash_miner(m, bps)
      PROVE  UNCHANGED validatorVars
  BY <1>7 DEF activate_miner, set_miner_identity, clear_miner_identity, deactivate_miner,
     withdraw_miner_bond, slash_miner
<1>8. ASSUME NEW a \in Account, NEW id \in 0 .. RequestIdMax,
             NEW s \in SubnetIds, NEW x \in PaymentInput, NEW f \in FeeInput,
             request_inference(a, id, s, x, f)
      PROVE  UNCHANGED validatorVars
  BY <1>8 DEF request_inference, open_inference_request
<1>9. ASSUME NEW r \in RequestIds,
             \/ \E a \in Account : cancel_inference(a, r)
             \/ expire_inference(r)
             \/ accept_proof(r)
             \/ \E bps \in VerifierSlashBps : challenge_proof(r, bps)
      PROVE  UNCHANGED validatorVars
  BY <1>9, Zenon DEF cancel_inference, expire_inference, refund_stale_request, accept_proof,
     challenge_proof
<1>10. ASSUME NEW r \in RequestIds, NEW bps \in VerifierSlashBps, reject_proof(r, bps)
       PROVE  ValidatorBound(k)'
  <2>1. validate_submission_for_request(r) /\ bps \in Nat
    BY <1>10, ConstantTypes DEF reject_proof
  <2>2. PICK v \in ValidatorIds : v = InferenceRequests[r].validator /\ Validators[v] # NoRecord
    BY <1>0, <2>1, SubmissionFacts
  <2>3. slash_validator_stake(v, bps)
    BY <1>10, <2>2, Zenon DEF reject_proof
  <2> QED
    BY <1>0, <2>1, <2>2, <2>3, ValidatorSlashBinds
<1> QED
  BY <1>1, <1>2, <1>3, <1>4, <1>5, <1>6, <1>7, <1>8, <1>9, <1>10, Zenon DEF Next, submit_proof

(* Every step keeps the participants of pending requests bound.            *)
LEMMA BoundStep ==
    CounterInv /\ AssignedParticipantsBound /\ [Next]_vars => AssignedParticipantsBound'
<1> SUFFICES ASSUME CounterInv, AssignedParticipantsBound, [Next]_vars, NEW r \in RequestIds,
                    InferenceRequests'[r] # NoRecord, InferenceRequests'[r].status = "Pending"
             PROVE  /\ MinerBound(InferenceRequests[r].miner)'
                    /\ ValidatorBound(InferenceRequests[r].validator)'
  BY Zenon DEF AssignedParticipantsBound, RequestsIn, MinerBound, ValidatorBound
<1>0. TypeOK
  BY DEF CounterInv
<1>1. CASE /\ InferenceRequests[r] # NoRecord
           /\ InferenceRequests'[r].miner = InferenceRequests[r].miner
           /\ InferenceRequests'[r].validator = InferenceRequests[r].validator
           /\ InferenceRequests[r].status = "Pending"
  <2>1. PICK m \in MinerIds, v \in ValidatorIds :
           m = InferenceRequests[r].miner /\ v = InferenceRequests[r].validator
    BY <1>0, <1>1, RequestFacts
  <2>2. MinerBound(m) /\ ValidatorBound(v)
    BY <1>1, <2>1, Zenon DEF AssignedParticipantsBound, RequestsIn, MinerBound, ValidatorBound
  <2>3. r \in PendingOf(m) /\ r \in PendingAt(v)
    BY <1>1, <2>1 DEF PendingOf, PendingAt, is_pending
  <2>4. PendingMinerRequests[m] # 0 /\ PendingValidatorRequests[v] # 0
    BY <2>3, NoPendingWork
  <2>5. MinerBound(m)'
    BY <2>2, <2>4, MinerStaysBound
  <2>6. ValidatorBound(v)'
    BY <2>2, <2>4, ValidatorStaysBound
  <2> QED
    BY <1>1, <2>1, <2>5, <2>6 DEF MinerBound, ValidatorBound
<1>2. ASSUME NEW s \in SubnetIds, NEW m \in MinerIds, NEW v \in ValidatorIds,
             <<m, v>> \in route_assignments(s), UNCHANGED <<minerVars, validatorVars>>,
             InferenceRequests'[r].miner = m, InferenceRequests'[r].validator = v
      PROVE  /\ MinerBound(InferenceRequests[r].miner)'
             /\ ValidatorBound(InferenceRequests[r].validator)'
  <2>1. /\ Miners[m] # NoRecord /\ Validators[v] # NoRecord
        /\ Miners[m].status = "Active" /\ Validators[v].status = "Active"
        /\ MinerLockedBond[m] # NoRecord /\ ValidatorLockedStake[v] # NoRecord
        /\ MinerAttested[m] /\ ValidatorAttested[v]
    BY <1>0, <1>2, RoutedPair
  <2> QED
    BY <1>2, <2>1 DEF MinerBound, ValidatorBound
<1> QED
  BY <1>1, <1>2, RequestOrigin, Zenon

(* While a request is pending neither of its participants can leave: no    *)
(* interleaving of slashes, exits, identity changes and other requests     *)
(* takes away the capital record or the identity it was assigned under.    *)
THEOREM ParticipantsStayBound == Spec => []AssignedParticipantsBound
<1>1. Init => AssignedParticipantsBound
  BY DEF Init, AssignedParticipantsBound, RequestsIn
<1> QED
  BY <1>1, BoundStep, CounterInvariant, PTL DEF Spec
=============================================================================
