------------------------ MODULE QubitumSafetyProofs -------------------------
(***************************************************************************)
(* The counters of pallet-qubitum are exact, for every value of the        *)
(* constants.                                                              *)
(***************************************************************************)
EXTENDS QubitumProofs

USE DEF currencyVars, subnetVars, minerVars, validatorVars, pendingVars, requestVars,
        can_advance, increment_pending_assignment, decrement_pending_assignment,
        transition_request_status

(* Identifiers that the counters have not reached are unused, and the      *)
(* request identifiers below the counter are all in use.                   *)
FreshIds ==
    /\ \A m \in MinerIds : m >= MinerCount => Miners[m] = NoRecord
    /\ \A v \in ValidatorIds : v >= ValidatorCount => Validators[v] = NoRecord
    /\ RequestIdsDense

(* The inductive invariant behind the counters.                            *)
CounterInv == TypeOK /\ FreshIds /\ PendingCountersExact /\ StatusCountersExact

(* A set of request identifiers is finite, so that it can be counted.      *)
LEMMA FiniteRequests ==
    ASSUME NEW S \in SUBSET RequestIds
    PROVE  IsFiniteSet(S) /\ Cardinality(S) \in Nat
<1>0. RequestIdMax \in Nat
  BY IdentifierBounds
<1>1. 0 \in Int /\ RequestIdMax - 1 \in Int
  BY <1>0
<1>2. IsFiniteSet(RequestIds)
  BY <1>1, FS_Interval DEF RequestIds
<1>3. IsFiniteSet(S)
  BY <1>2, FS_Subset
<1> QED
  BY <1>3, FS_CardinalityType

(* The sets the counters count are sets of request identifiers.            *)
LEMMA SetsOfRequests ==
    /\ \A m : PendingOf(m) \in SUBSET RequestIds
    /\ \A v : PendingAt(v) \in SUBSET RequestIds
    /\ \A s : RequestsIn(s) \in SUBSET RequestIds
  BY DEF PendingOf, PendingAt, RequestsIn

(* A participant whose counter is zero has no pending request: the test    *)
(* that exits, root slashes and identity changes make is the right one.    *)
LEMMA NoPendingWork ==
    ASSUME CounterInv
    PROVE  /\ \A m \in MinerIds : PendingMinerRequests[m] = 0 => PendingOf(m) = {}
           /\ \A v \in ValidatorIds : PendingValidatorRequests[v] = 0 => PendingAt(v) = {}
<1>1. ASSUME NEW m \in MinerIds, PendingMinerRequests[m] = 0
      PROVE  PendingOf(m) = {}
  <2>1. Cardinality(PendingOf(m)) = 0
    BY <1>1 DEF CounterInv, PendingCountersExact
  <2>2. IsFiniteSet(PendingOf(m))
    BY SetsOfRequests, FiniteRequests
  <2> QED
    BY <2>1, <2>2, FS_EmptySet
<1>2. ASSUME NEW v \in ValidatorIds, PendingValidatorRequests[v] = 0
      PROVE  PendingAt(v) = {}
  <2>1. Cardinality(PendingAt(v)) = 0
    BY <1>2 DEF CounterInv, PendingCountersExact
  <2>2. IsFiniteSet(PendingAt(v))
    BY SetsOfRequests, FiniteRequests
  <2> QED
    BY <2>1, <2>2, FS_EmptySet
<1> QED
  BY <1>1, <1>2

(* A pending request changed only in its status leaves the pending sets of *)
(* its own participants and enters the set of its new status.              *)
LEMMA CloseSets ==
    ASSUME TypeOK, NEW r \in RequestIds, NEW status \in RequestStatus \ {"Pending"},
           close_request(r, status)
    PROVE  /\ r \in RequestsIn("Pending")
           /\ \A m \in MinerIds : PendingOf(m)' = PendingOf(m) \ {r}
           /\ \A v \in ValidatorIds : PendingAt(v)' = PendingAt(v) \ {r}
           /\ RequestsIn("Pending")' = RequestsIn("Pending") \ {r}
           /\ RequestsIn(status)' = RequestsIn(status) \cup {r}
           /\ \A s \in RequestStatus \ {"Pending", status} : RequestsIn(s)' = RequestsIn(s)
<1>1. /\ InferenceRequests[r] \in ChainInferenceRequest
      /\ InferenceRequests[r] # NoRecord
      /\ InferenceRequests[r].status = "Pending"
  BY RequestFacts DEF close_request, is_pending
<1>2. InferenceRequests' = [InferenceRequests EXCEPT ![r].status = status]
  BY DEF close_request
<1>3. /\ InferenceRequests'[r] # NoRecord
      /\ InferenceRequests'[r].status = status
  <2>1. [InferenceRequests[r] EXCEPT !.status = status] \in ChainInferenceRequest
    BY <1>1 DEF ChainInferenceRequest
  <2>2. InferenceRequests'[r] = [InferenceRequests[r] EXCEPT !.status = status]
    BY <1>2 DEF TypeOK
  <2> QED
    BY <1>1, <2>1, <2>2, NoRecordAssumption DEF ChainInferenceRequest
<1>4. \A q \in RequestIds : q # r => InferenceRequests'[q] = InferenceRequests[q]
  BY <1>2 DEF TypeOK
<1> QED
  BY <1>1, <1>3, <1>4 DEF PendingOf, PendingAt, RequestsIn, is_pending

(* Closing a request keeps the assignment and the status counters exact.   *)
LEMMA CloseCounters ==
    ASSUME CounterInv, NEW r \in RequestIds, NEW status \in RequestStatus \ {"Pending"},
           close_request(r, status)
    PROVE  PendingCountersExact' /\ StatusCountersExact'
<1> DEFINE req == InferenceRequests[r]
<1>0. /\ TypeOK /\ is_pending(r) /\ req # NoRecord
      /\ PendingMinerRequests' = [PendingMinerRequests EXCEPT ![req.miner] = @ - 1]
      /\ PendingValidatorRequests' = [PendingValidatorRequests EXCEPT ![req.validator] = @ - 1]
      /\ RequestStatusCount' = [RequestStatusCount EXCEPT !["Pending"] = @ - 1,
                                                          ![status] = @ + 1]
  BY DEF close_request, is_pending, CounterInv
<1>1. /\ r \in RequestsIn("Pending")
      /\ \A m \in MinerIds : PendingOf(m)' = PendingOf(m) \ {r}
      /\ \A v \in ValidatorIds : PendingAt(v)' = PendingAt(v) \ {r}
      /\ RequestsIn("Pending")' = RequestsIn("Pending") \ {r}
      /\ RequestsIn(status)' = RequestsIn(status) \cup {r}
      /\ \A s \in RequestStatus \ {"Pending", status} : RequestsIn(s)' = RequestsIn(s)
  BY <1>0, CloseSets
<1>2. ASSUME NEW m \in MinerIds
      PROVE  PendingMinerRequests'[m] = Cardinality(PendingOf(m)')
  <2>1. Cardinality(PendingOf(m) \ {r}) =
          IF r \in PendingOf(m) THEN Cardinality(PendingOf(m)) - 1 ELSE Cardinality(PendingOf(m))
    BY SetsOfRequests, FiniteRequests, FS_RemoveElement
  <2>2. r \in PendingOf(m) <=> m = req.miner
    BY <1>0 DEF PendingOf
  <2>3. PendingMinerRequests[m] = Cardinality(PendingOf(m))
    BY DEF CounterInv, PendingCountersExact
  <2>4. PendingMinerRequests'[m] =
          IF m = req.miner THEN PendingMinerRequests[m] - 1 ELSE PendingMinerRequests[m]
    BY <1>0 DEF TypeOK
  <2> QED
    BY <1>1, <2>1, <2>2, <2>3, <2>4
<1>3. ASSUME NEW v \in ValidatorIds
      PROVE  PendingValidatorRequests'[v] = Cardinality(PendingAt(v)')
  <2>1. Cardinality(PendingAt(v) \ {r}) =
          IF r \in PendingAt(v) THEN Cardinality(PendingAt(v)) - 1 ELSE Cardinality(PendingAt(v))
    BY SetsOfRequests, FiniteRequests, FS_RemoveElement
  <2>2. r \in PendingAt(v) <=> v = req.validator
    BY <1>0 DEF PendingAt
  <2>3. PendingValidatorRequests[v] = Cardinality(PendingAt(v))
    BY DEF CounterInv, PendingCountersExact
  <2>4. PendingValidatorRequests'[v] =
          IF v = req.validator THEN PendingValidatorRequests[v] - 1
          ELSE PendingValidatorRequests[v]
    BY <1>0 DEF TypeOK
  <2> QED
    BY <1>1, <2>1, <2>2, <2>3, <2>4
<1>4. ASSUME NEW s \in RequestStatus
      PROVE  RequestStatusCount'[s] = Cardinality(RequestsIn(s)')
  <2>1. RequestStatusCount[s] = Cardinality(RequestsIn(s))
    BY DEF CounterInv, StatusCountersExact
  <2>2. "Pending" # status /\ "Pending" \in RequestStatus
    BY DEF RequestStatus
  <2>3. CASE s = "Pending"
    <3>1. Cardinality(RequestsIn(s) \ {r}) = Cardinality(RequestsIn(s)) - 1
      BY <1>1, <2>3, SetsOfRequests, FiniteRequests, FS_RemoveElement
    <3>2. RequestStatusCount'[s] = RequestStatusCount[s] - 1
      BY <1>0, <2>2, <2>3 DEF TypeOK
    <3> QED
      BY <1>1, <2>1, <2>3, <3>1, <3>2
  <2>4. CASE s = status
    <3>1. r \notin RequestsIn(s)
      BY <1>0, <2>4 DEF RequestsIn, is_pending
    <3>2. Cardinality(RequestsIn(s) \cup {r}) = Cardinality(RequestsIn(s)) + 1
      BY <3>1, SetsOfRequests, FiniteRequests, FS_AddElement
    <3>3. RequestStatusCount'[s] = RequestStatusCount[s] + 1
      BY <1>0, <2>2, <2>4 DEF TypeOK
    <3> QED
      BY <1>1, <2>1, <2>4, <3>2, <3>3
  <2>5. CASE s \notin {"Pending", status}
    BY <1>0, <1>1, <2>1, <2>5 DEF TypeOK
  <2> QED
    BY <2>3, <2>4, <2>5
<1> QED
  BY <1>2, <1>3, <1>4 DEF PendingCountersExact, StatusCountersExact

(* Request r is opened with miner m and validator v: what becomes of the   *)
(* requests, the assignment counters and the sets they count.              *)
Opens(a, s, p, f, m, v, r) ==
    /\ <<m, v>> \in route_assignments(s)
    /\ r = RequestCount
    /\ InferenceRequests[r] = NoRecord
    /\ InferenceRequests' = [InferenceRequests EXCEPT ![r] =
         [user |-> a, subnet |-> s, miner |-> m, validator |-> v, payment |-> p,
          fees |-> f, createdAt |-> block, status |-> "Pending"]]
    /\ InferenceRequests'[r] # NoRecord
    /\ PendingMinerRequests' = [PendingMinerRequests EXCEPT ![m] = @ + 1]
    /\ PendingValidatorRequests' = [PendingValidatorRequests EXCEPT ![v] = @ + 1]
    /\ \A k \in MinerIds :
         PendingOf(k)' = IF k = m THEN PendingOf(k) \cup {r} ELSE PendingOf(k)
    /\ \A k \in ValidatorIds :
         PendingAt(k)' = IF k = v THEN PendingAt(k) \cup {r} ELSE PendingAt(k)
    /\ RequestsIn("Pending")' = RequestsIn("Pending") \cup {r}
    /\ \A st \in RequestStatus \ {"Pending"} : RequestsIn(st)' = RequestsIn(st)

(* Opening a request under a fresh identifier adds it to the pending sets  *)
(* of its two participants and to no other set.                            *)
LEMMA OpenSets ==
    ASSUME CounterInv, NEW a \in Account, NEW id \in 0 .. RequestIdMax,
           NEW s \in SubnetIds, NEW p \in PaymentInput, NEW f \in FeeInput,
           request_inference(a, id, s, p, f)
    PROVE  \E m \in MinerIds, v \in ValidatorIds, r \in RequestIds : Opens(a, s, p, f, m, v, r)
<1>1. PICK mv \in route_assignments(s) :
         /\ InferenceRequests' = [InferenceRequests EXCEPT ![id] =
              [user |-> a, subnet |-> s, miner |-> mv[1], validator |-> mv[2],
               payment |-> p, fees |-> f, createdAt |-> block, status |-> "Pending"]]
         /\ PendingMinerRequests' = [PendingMinerRequests EXCEPT ![mv[1]] = @ + 1]
         /\ PendingValidatorRequests' = [PendingValidatorRequests EXCEPT ![mv[2]] = @ + 1]
  BY Zenon DEF request_inference, open_inference_request
<1>2. PICK m \in MinerIds, v \in ValidatorIds : m = mv[1] /\ v = mv[2] /\ mv = <<m, v>>
  BY DEF route_assignments, active_miner_route_ids, active_validator_route_ids
<1>3. TypeOK /\ RequestIdMax \in Nat
  BY ConstantTypes DEF CounterInv
<1>4. PICK r \in RequestIds : r = id /\ r = RequestCount /\ InferenceRequests[r] = NoRecord
  BY <1>3 DEF request_inference, ensure_request_id_can_advance,
     ensure_inference_request_openable, RequestIds
<1> DEFINE new == [user |-> a, subnet |-> s, miner |-> m, validator |-> v, payment |-> p,
                   fees |-> f, createdAt |-> block, status |-> "Pending"]
<1>5. InferenceRequests' = [InferenceRequests EXCEPT ![r] = new]
  BY <1>1, <1>2, <1>4
<1>6. new \in ChainInferenceRequest
  BY <1>3, ConstantTypes DEF ChainInferenceRequest, RequestStatus, TypeOK
<1>7. InferenceRequests'[r] = new /\ new # NoRecord
  BY <1>3, <1>4, <1>5, <1>6, NoRecordAssumption DEF TypeOK
<1>8. \A q \in RequestIds : q # r => InferenceRequests'[q] = InferenceRequests[q]
  BY <1>3, <1>5 DEF TypeOK
<1>9. /\ new.status = "Pending" /\ new.miner = m /\ new.validator = v
  OBVIOUS
<1>10. /\ \A k \in MinerIds :
            PendingOf(k)' = IF k = m THEN PendingOf(k) \cup {r} ELSE PendingOf(k)
       /\ \A k \in ValidatorIds :
            PendingAt(k)' = IF k = v THEN PendingAt(k) \cup {r} ELSE PendingAt(k)
       /\ RequestsIn("Pending")' = RequestsIn("Pending") \cup {r}
       /\ \A st \in RequestStatus \ {"Pending"} : RequestsIn(st)' = RequestsIn(st)
  <2> HIDE DEF new
  <2> QED
    BY <1>4, <1>7, <1>8, <1>9 DEF PendingOf, PendingAt, RequestsIn, is_pending
<1>11. /\ <<m, v>> \in route_assignments(s)
       /\ PendingMinerRequests' = [PendingMinerRequests EXCEPT ![m] = @ + 1]
       /\ PendingValidatorRequests' = [PendingValidatorRequests EXCEPT ![v] = @ + 1]
  BY <1>1, <1>2
<1>12. Opens(a, s, p, f, m, v, r)
  BY <1>4, <1>5, <1>7, <1>10, <1>11, Zenon DEF Opens
<1> QED
  BY <1>12, Zenon

(* Opening a request keeps the assignment and the status counters exact.   *)
LEMMA OpenCounters ==
    ASSUME CounterInv, NEW a \in Account, NEW id \in 0 .. RequestIdMax,
           NEW s \in SubnetIds, NEW p \in PaymentInput, NEW f \in FeeInput,
           request_inference(a, id, s, p, f)
    PROVE  PendingCountersExact' /\ StatusCountersExact'
<1>0. TypeOK
  BY DEF CounterInv
<1>1. PICK m \in MinerIds, v \in ValidatorIds, r \in RequestIds : Opens(a, s, p, f, m, v, r)
  BY OpenSets, Zenon
<1>2. ASSUME NEW k \in MinerIds
      PROVE  PendingMinerRequests'[k] = Cardinality(PendingOf(k)')
  <2>1. r \notin PendingOf(k)
    BY <1>1 DEF Opens, PendingOf, is_pending
  <2>2. Cardinality(PendingOf(k) \cup {r}) = Cardinality(PendingOf(k)) + 1
    BY <2>1, SetsOfRequests, FiniteRequests, FS_AddElement
  <2>3. PendingMinerRequests[k] = Cardinality(PendingOf(k))
    BY DEF CounterInv, PendingCountersExact
  <2>4. PendingMinerRequests'[k] =
          IF k = m THEN PendingMinerRequests[k] + 1 ELSE PendingMinerRequests[k]
    BY <1>0, <1>1 DEF Opens, TypeOK
  <2>5. PendingOf(k)' = IF k = m THEN PendingOf(k) \cup {r} ELSE PendingOf(k)
    BY <1>1 DEF Opens
  <2> QED
    BY <2>2, <2>3, <2>4, <2>5
<1>3. ASSUME NEW k \in ValidatorIds
      PROVE  PendingValidatorRequests'[k] = Cardinality(PendingAt(k)')
  <2>1. r \notin PendingAt(k)
    BY <1>1 DEF Opens, PendingAt, is_pending
  <2>2. Cardinality(PendingAt(k) \cup {r}) = Cardinality(PendingAt(k)) + 1
    BY <2>1, SetsOfRequests, FiniteRequests, FS_AddElement
  <2>3. PendingValidatorRequests[k] = Cardinality(PendingAt(k))
    BY DEF CounterInv, PendingCountersExact
  <2>4. PendingValidatorRequests'[k] =
          IF k = v THEN PendingValidatorRequests[k] + 1 ELSE PendingValidatorRequests[k]
    BY <1>0, <1>1 DEF Opens, TypeOK
  <2>5. PendingAt(k)' = IF k = v THEN PendingAt(k) \cup {r} ELSE PendingAt(k)
    BY <1>1 DEF Opens
  <2> QED
    BY <2>2, <2>3, <2>4, <2>5
<1>4. ASSUME NEW st \in RequestStatus
      PROVE  RequestStatusCount'[st] = Cardinality(RequestsIn(st)')
  <2>1. RequestStatusCount[st] = Cardinality(RequestsIn(st))
    BY DEF CounterInv, StatusCountersExact
  <2>2. RequestStatusCount' = [RequestStatusCount EXCEPT !["Pending"] = @ + 1]
    BY DEF request_inference, open_inference_request
  <2>3. CASE st = "Pending"
    <3>1. r \notin RequestsIn(st)
      BY <1>1 DEF Opens, RequestsIn
    <3>2. Cardinality(RequestsIn(st) \cup {r}) = Cardinality(RequestsIn(st)) + 1
      BY <3>1, SetsOfRequests, FiniteRequests, FS_AddElement
    <3>3. RequestsIn(st)' = RequestsIn(st) \cup {r}
      BY <1>1, <2>3 DEF Opens
    <3> QED
      BY <1>0, <2>1, <2>2, <2>3, <3>2, <3>3, Zenon DEF TypeOK
  <2>4. CASE st # "Pending"
    <3>1. RequestsIn(st)' = RequestsIn(st)
      BY <1>1, <2>4 DEF Opens
    <3> QED
      BY <1>0, <2>1, <2>2, <2>4, <3>1 DEF TypeOK
  <2> QED
    BY <2>3, <2>4
<1> QED
  BY <1>2, <1>3, <1>4 DEF PendingCountersExact, StatusCountersExact

(* What closing a request leaves on record: a proof exactly when it is     *)
(* settled.                                                                *)
RecordsProof(r, status) ==
    IF status = "Settled"
    THEN ProofRecords' = [ProofRecords EXCEPT ![r] =
           [subnet |-> InferenceRequests[r].subnet, miner |-> InferenceRequests[r].miner,
            validator |-> InferenceRequests[r].validator]]
    ELSE ProofRecords' = ProofRecords

(* Every step of the pallet opens a request, closes one, or leaves the     *)
(* requests and their counters alone.                                      *)
LEMMA StepKinds ==
    ASSUME [Next]_vars
    PROVE  \/ UNCHANGED <<pendingVars, requestVars>>
           \/ \E a \in Account, id \in 0 .. RequestIdMax, s \in SubnetIds,
                x \in PaymentInput, f \in FeeInput : request_inference(a, id, s, x, f)
           \/ \E r \in RequestIds, status \in RequestStatus \ {"Pending"} :
                close_request(r, status) /\ RecordsProof(r, status)
<1>1. CASE UNCHANGED vars
  BY <1>1 DEF vars
<1>2. CASE new_block
  BY <1>2 DEF new_block
<1>3. ASSUME NEW a \in Account, NEW ps \in ProofSystem, create_subnet(a, ps)
      PROVE  UNCHANGED <<pendingVars, requestVars>>
  BY <1>3 DEF create_subnet
<1>4. ASSUME NEW a \in Account, NEW s \in SubnetIds, NEW ps \in ProofSystem,
             register_miner(a, s, ps)
      PROVE  UNCHANGED <<pendingVars, requestVars>>
  BY <1>4 DEF register_miner
<1>5. ASSUME NEW a \in Account, NEW s \in SubnetIds, NEW x \in StakeInput,
             register_validator(a, s, x)
      PROVE  UNCHANGED <<pendingVars, requestVars>>
  BY <1>5 DEF register_validator
<1>6. ASSUME NEW m \in MinerIds,
             \/ \E x \in BondInput : activate_miner(m, x)
             \/ set_miner_identity(m)
             \/ clear_miner_identity(m)
             \/ deactivate_miner(m)
             \/ withdraw_miner_bond(m)
             \/ \E bps \in RootSlashBps : slash_miner(m, bps)
      PROVE  UNCHANGED <<pendingVars, requestVars>>
  BY <1>6 DEF activate_miner, set_miner_identity, clear_miner_identity, deactivate_miner,
     withdraw_miner_bond, slash_miner
<1>7. ASSUME NEW v \in ValidatorIds,
             \/ set_validator_identity(v)
             \/ clear_validator_identity(v)
             \/ deactivate_validator(v)
             \/ withdraw_validator_stake(v)
             \/ \E bps \in RootSlashBps : slash_validator(v, bps)
      PROVE  UNCHANGED <<pendingVars, requestVars>>
  BY <1>7 DEF set_validator_identity, clear_validator_identity, deactivate_validator,
     withdraw_validator_stake, slash_validator
<1>8. ASSUME NEW r \in RequestIds,
             \/ \E a \in Account : cancel_inference(a, r)
             \/ expire_inference(r)
             \/ submit_proof(r)
             \/ \E bps \in VerifierSlashBps : challenge_proof(r, bps)
      PROVE  \E status \in RequestStatus \ {"Pending"} :
               close_request(r, status) /\ RecordsProof(r, status)
  <2>1. CASE accept_proof(r)
    <3>1. close_request(r, "Settled") /\ RecordsProof(r, "Settled")
      BY <2>1, Zenon DEF accept_proof, settle_request_payment, RecordsProof
    <3> QED
      BY <3>1 DEF RequestStatus
  <2>2. CASE ~accept_proof(r)
    <3>1. /\ \E status \in {"Cancelled", "Expired", "Rejected"} : close_request(r, status)
          /\ ProofRecords' = ProofRecords
      BY <1>8, <2>2, Zenon DEF cancel_inference, expire_inference, refund_stale_request,
         submit_proof, reject_proof, challenge_proof
    <3> QED
      BY <3>1 DEF RequestStatus, RecordsProof
  <2> QED
    BY <2>1, <2>2
<1> QED
  BY <1>1, <1>2, <1>3, <1>4, <1>5, <1>6, <1>7, <1>8, Zenon DEF Next

-----------------------------------------------------------------------------
(* The participant maps grow by registrations; every other step keeps a    *)
(* participant's operator and touches none that does not exist.            *)

MinersKept ==
    /\ MinerCount' = MinerCount
    /\ \A m \in MinerIds :
         /\ Miners[m] = NoRecord => Miners'[m] = NoRecord
         /\ Miners[m] # NoRecord =>
              Miners'[m] # NoRecord /\ Miners'[m].operator = Miners[m].operator

ValidatorsKept ==
    /\ ValidatorCount' = ValidatorCount
    /\ \A v \in ValidatorIds :
         /\ Validators[v] = NoRecord => Validators'[v] = NoRecord
         /\ Validators[v] # NoRecord =>
              Validators'[v] # NoRecord /\ Validators'[v].operator = Validators[v].operator

(* A step that rewrites the status, exit block or capital of one stored    *)
(* miner registers nobody and leaves every operator in place.              *)
LEMMA MinerChange ==
    ASSUME TypeOK, NEW m \in MinerIds, Miners[m] # NoRecord, MinerCount' = MinerCount,
           NEW st \in RegistryStatus, NEW b \in Blocks,
           \/ Miners' = Miners
           \/ Miners' = [Miners EXCEPT ![m].status = st]
           \/ Miners' = [Miners EXCEPT ![m].status = st, ![m].exitAvailableAt = b]
    PROVE  MinersKept
<1>1. PICK p \in ChainParticipant : p = Miners[m]
  BY MinerFacts
<1>2. \A k \in MinerIds : k # m => Miners'[k] = Miners[k]
  BY DEF TypeOK
<1>3. \/ Miners'[m] = p
      \/ Miners'[m] = [p EXCEPT !.status = st]
      \/ Miners'[m] = [p EXCEPT !.status = st, !.exitAvailableAt = b]
  BY <1>1 DEF TypeOK
<1>4. CASE Miners'[m] = p
  BY <1>1, <1>2, <1>4 DEF MinersKept
<1>5. CASE Miners'[m] = [p EXCEPT !.status = st]
  <2>1. Miners'[m] \in ChainParticipant /\ Miners'[m].operator = p.operator
    BY <1>5 DEF ChainParticipant
  <2> QED
    BY <1>1, <1>2, <2>1, NoRecordAssumption DEF MinersKept
<1>6. CASE Miners'[m] = [p EXCEPT !.status = st, !.exitAvailableAt = b]
  <2>1. Miners'[m] \in ChainParticipant /\ Miners'[m].operator = p.operator
    BY <1>6, Zenon DEF ChainParticipant
  <2> QED
    BY <1>1, <1>2, <2>1, NoRecordAssumption DEF MinersKept
<1> QED
  BY <1>3, <1>4, <1>5, <1>6

(* The same for a step that rewrites one stored validator.                 *)
LEMMA ValidatorChange ==
    ASSUME TypeOK, NEW v \in ValidatorIds, Validators[v] # NoRecord,
           ValidatorCount' = ValidatorCount, NEW st \in RegistryStatus, NEW b \in Blocks,
           \/ Validators' = Validators
           \/ Validators' = [Validators EXCEPT ![v].status = st]
           \/ Validators' = [Validators EXCEPT ![v].status = st, ![v].exitAvailableAt = b]
    PROVE  ValidatorsKept
<1>1. PICK p \in ChainParticipant : p = Validators[v]
  BY ValidatorFacts
<1>2. \A k \in ValidatorIds : k # v => Validators'[k] = Validators[k]
  BY DEF TypeOK
<1>3. \/ Validators'[v] = p
      \/ Validators'[v] = [p EXCEPT !.status = st]
      \/ Validators'[v] = [p EXCEPT !.status = st, !.exitAvailableAt = b]
  BY <1>1 DEF TypeOK
<1>4. CASE Validators'[v] = p
  BY <1>1, <1>2, <1>4 DEF ValidatorsKept
<1>5. CASE Validators'[v] = [p EXCEPT !.status = st]
  <2>1. Validators'[v] \in ChainParticipant /\ Validators'[v].operator = p.operator
    BY <1>5 DEF ChainParticipant
  <2> QED
    BY <1>1, <1>2, <2>1, NoRecordAssumption DEF ValidatorsKept
<1>6. CASE Validators'[v] = [p EXCEPT !.status = st, !.exitAvailableAt = b]
  <2>1. Validators'[v] \in ChainParticipant /\ Validators'[v].operator = p.operator
    BY <1>6, Zenon DEF ChainParticipant
  <2> QED
    BY <1>1, <1>2, <2>1, NoRecordAssumption DEF ValidatorsKept
<1> QED
  BY <1>3, <1>4, <1>5, <1>6

(* A slash of a miner registers nobody and keeps every operator.           *)
LEMMA MinerSlashKeeps ==
    ASSUME TypeOK, NEW m \in MinerIds, Miners[m] # NoRecord, NEW bps, slash_miner_bond(m, bps)
    PROVE  MinersKept
<1>1. Miners[m] \in ChainParticipant
  BY MinerFacts
<1>2. PICK st \in RegistryStatus : Miners' = [Miners EXCEPT ![m].status = st]
  BY <1>1, Zenon DEF slash_miner_bond, ChainParticipant, RegistryStatus
<1>3. MinerCount' = MinerCount /\ 0 \in Blocks
  BY ConstantTypes DEF slash_miner_bond, Blocks
<1> QED
  BY <1>2, <1>3, MinerChange, Zenon

(* A slash of a validator registers nobody and keeps every operator.       *)
LEMMA ValidatorSlashKeeps ==
    ASSUME TypeOK, NEW v \in ValidatorIds, Validators[v] # NoRecord, NEW bps,
           slash_validator_stake(v, bps)
    PROVE  ValidatorsKept
<1>1. Validators[v] \in ChainParticipant
  BY ValidatorFacts
<1>2. PICK st \in RegistryStatus : Validators' = [Validators EXCEPT ![v].status = st]
  BY <1>1, Zenon DEF slash_validator_stake, ChainParticipant, RegistryStatus
<1>3. ValidatorCount' = ValidatorCount /\ 0 \in Blocks
  BY ConstantTypes DEF slash_validator_stake, Blocks
<1> QED
  BY <1>2, <1>3, ValidatorChange, Zenon

RegistersMiner ==
    \E a \in Account, s \in SubnetIds, ps \in ProofSystem : register_miner(a, s, ps)

RegistersValidator ==
    \E a \in Account, s \in SubnetIds, x \in StakeInput : register_validator(a, s, x)

(* A step that leaves the participant maps alone keeps them.               *)
LEMMA MapsUnchanged ==
    /\ UNCHANGED <<Miners, MinerCount>> => MinersKept
    /\ UNCHANGED <<Validators, ValidatorCount>> => ValidatorsKept
  BY DEF MinersKept, ValidatorsKept

(* Every step registers a miner, registers a validator, or keeps both      *)
(* participant maps: records are never removed and operators never         *)
(* replaced.                                                               *)
LEMMA ParticipantSteps ==
    ASSUME TypeOK, [Next]_vars
    PROVE  /\ MinersKept \/ RegistersMiner
           /\ ValidatorsKept \/ RegistersValidator
<1> USE MapsUnchanged
<1>0. 0 \in Blocks /\ BlockMax \in Nat
  BY ConstantTypes DEF Blocks
<1>1. CASE UNCHANGED vars
  BY <1>1 DEF vars
<1>2. CASE new_block
  BY <1>2 DEF new_block
<1>3. ASSUME NEW a \in Account, NEW ps \in ProofSystem, create_subnet(a, ps)
      PROVE  MinersKept /\ ValidatorsKept
  BY <1>3 DEF create_subnet
<1>4. ASSUME NEW a \in Account, NEW s \in SubnetIds, NEW ps \in ProofSystem,
             register_miner(a, s, ps)
      PROVE  RegistersMiner /\ ValidatorsKept
  BY <1>4, Zenon DEF register_miner, RegistersMiner
<1>5. ASSUME NEW a \in Account, NEW s \in SubnetIds, NEW x \in StakeInput,
             register_validator(a, s, x)
      PROVE  MinersKept /\ RegistersValidator
  BY <1>5, Zenon DEF register_validator, RegistersValidator
<1>6. ASSUME NEW m \in MinerIds,
             \/ \E x \in BondInput : activate_miner(m, x)
             \/ set_miner_identity(m)
             \/ clear_miner_identity(m)
             \/ deactivate_miner(m)
             \/ withdraw_miner_bond(m)
             \/ \E bps \in RootSlashBps : slash_miner(m, bps)
      PROVE  MinersKept /\ ValidatorsKept
  <2>1. Miners[m] # NoRecord /\ UNCHANGED <<Validators, ValidatorCount>>
    BY <1>6 DEF activate_miner, set_miner_identity, clear_miner_identity, deactivate_miner,
       withdraw_miner_bond, slash_miner
  <2>2. ASSUME NEW x \in BondInput, activate_miner(m, x)
        PROVE  MinersKept
    <3>1. /\ MinerCount' = MinerCount /\ "Active" \in RegistryStatus
          /\ Miners' = [Miners EXCEPT ![m].status = "Active"]
      BY <2>2 DEF activate_miner, RegistryStatus
    <3> QED
      BY <1>0, <2>1, <3>1, MinerChange, Zenon
  <2>3. CASE set_miner_identity(m) \/ clear_miner_identity(m)
    BY <2>3 DEF set_miner_identity, clear_miner_identity
  <2>4. CASE deactivate_miner(m)
    <3>1. /\ MinerCount' = MinerCount /\ "Exiting" \in RegistryStatus
          /\ Miners' = [Miners EXCEPT ![m].status = "Exiting",
                                      ![m].exitAvailableAt = block + MinerExitCooldownBlocks]
      BY <2>4, Zenon DEF deactivate_miner, RegistryStatus
    <3>2. PICK b \in Blocks : b = block + MinerExitCooldownBlocks
      BY <1>0, <2>4, ConstantTypes DEF deactivate_miner, TypeOK, Blocks
    <3> QED
      BY <2>1, <3>1, <3>2, MinerChange, Zenon
  <2>5. CASE withdraw_miner_bond(m)
    <3>1. /\ MinerCount' = MinerCount /\ "Disabled" \in RegistryStatus
          /\ Miners' = [Miners EXCEPT ![m].status = "Disabled", ![m].exitAvailableAt = 0]
      BY <2>5, Zenon DEF withdraw_miner_bond, RegistryStatus
    <3> QED
      BY <1>0, <2>1, <3>1, MinerChange, Zenon
  <2>6. ASSUME NEW bps \in RootSlashBps, slash_miner(m, bps)
        PROVE  MinersKept
    BY <2>1, <2>6, MinerSlashKeeps DEF slash_miner
  <2> QED
    BY <1>6, <2>1, <2>2, <2>3, <2>4, <2>5, <2>6, Zenon
<1>7. ASSUME NEW v \in ValidatorIds,
             \/ set_validator_identity(v)
             \/ clear_validator_identity(v)
             \/ deactivate_validator(v)
             \/ withdraw_validator_stake(v)
             \/ \E bps \in RootSlashBps : slash_validator(v, bps)
      PROVE  MinersKept /\ ValidatorsKept
  <2>1. Validators[v] # NoRecord /\ UNCHANGED <<Miners, MinerCount>>
    BY <1>7 DEF set_validator_identity, clear_validator_identity, deactivate_validator,
       withdraw_validator_stake, slash_validator
  <2>2. CASE set_validator_identity(v)
    <3>1. /\ ValidatorCount' = ValidatorCount /\ "Active" \in RegistryStatus
          /\ Validators' = [Validators EXCEPT ![v].status = "Active"]
      BY <2>2 DEF set_validator_identity, RegistryStatus
    <3> QED
      BY <1>0, <2>1, <3>1, ValidatorChange, Zenon
  <2>3. CASE clear_validator_identity(v)
    <3>1. ValidatorCount' = ValidatorCount /\ Validators[v] \in ChainParticipant
      BY <2>1, <2>3, ValidatorFacts DEF clear_validator_identity
    <3>2. PICK st \in RegistryStatus : Validators' = [Validators EXCEPT ![v].status = st]
      BY <2>3, <3>1, Zenon DEF clear_validator_identity, ChainParticipant, RegistryStatus
    <3> QED
      BY <1>0, <2>1, <3>1, <3>2, ValidatorChange, Zenon
  <2>4. CASE deactivate_validator(v)
    <3>1. /\ ValidatorCount' = ValidatorCount /\ "Exiting" \in RegistryStatus
          /\ Validators' = [Validators EXCEPT
                              ![v].status = "Exiting",
                              ![v].exitAvailableAt = block + ValidatorExitCooldownBlocks]
      BY <2>4 DEF deactivate_validator, RegistryStatus
    <3>2. PICK b \in Blocks : b = block + ValidatorExitCooldownBlocks
      BY <1>0, <2>4, ConstantTypes DEF deactivate_validator, TypeOK, Blocks
    <3> QED
      BY <2>1, <3>1, <3>2, ValidatorChange, Zenon
  <2>5. CASE withdraw_validator_stake(v)
    <3>1. /\ ValidatorCount' = ValidatorCount /\ "Disabled" \in RegistryStatus
          /\ Validators' = [Validators EXCEPT ![v].status = "Disabled", ![v].exitAvailableAt = 0]
      BY <2>5 DEF withdraw_validator_stake, RegistryStatus
    <3> QED
      BY <1>0, <2>1, <3>1, ValidatorChange, Zenon
  <2>6. ASSUME NEW bps \in RootSlashBps, slash_validator(v, bps)
        PROVE  ValidatorsKept
    BY <2>1, <2>6, ValidatorSlashKeeps DEF slash_validator
  <2> QED
    BY <1>7, <2>1, <2>2, <2>3, <2>4, <2>5, <2>6
<1>8. ASSUME NEW a \in Account, NEW id \in 0 .. RequestIdMax,
             NEW s \in SubnetIds, NEW x \in PaymentInput, NEW f \in FeeInput,
             request_inference(a, id, s, x, f)
      PROVE  MinersKept /\ ValidatorsKept
  BY <1>8 DEF request_inference, open_inference_request
<1>9. ASSUME NEW r \in RequestIds,
             \/ \E a \in Account : cancel_inference(a, r)
             \/ expire_inference(r)
             \/ accept_proof(r)
      PROVE  MinersKept /\ ValidatorsKept
  BY <1>9, Zenon DEF cancel_inference, expire_inference, refund_stale_request, accept_proof
<1>10. ASSUME NEW r \in RequestIds, NEW bps \in VerifierSlashBps,
              reject_proof(r, bps) \/ challenge_proof(r, bps)
       PROVE  MinersKept /\ ValidatorsKept
  <2>1. validate_submission_for_request(r)
    BY <1>10, Zenon DEF reject_proof, challenge_proof
  <2>2. PICK m \in MinerIds, v \in ValidatorIds :
           /\ m = InferenceRequests[r].miner /\ Miners[m] # NoRecord
           /\ v = InferenceRequests[r].validator /\ Validators[v] # NoRecord
    BY <2>1, SubmissionFacts
  <2>3. MinersKept
    BY <1>10, <2>2, MinerSlashKeeps, Zenon DEF reject_proof, challenge_proof
  <2>4. ValidatorsKept
    BY <1>10, <2>2, ValidatorSlashKeeps, Zenon DEF reject_proof, challenge_proof
  <2> QED
    BY <2>3, <2>4
<1> QED
  BY <1>1, <1>2, <1>3, <1>4, <1>5, <1>6, <1>7, <1>8, <1>9, <1>10, Zenon DEF Next, submit_proof

(* register_miner writes a record at the counter and moves the counter     *)
(* past it.                                                                *)
LEMMA MinerRegistered ==
    ASSUME TypeOK, FreshIds, RegistersMiner
    PROVE  \E a \in Account, k \in MinerIds :
             /\ k = MinerCount /\ MinerCount' = MinerCount + 1
             /\ Miners[k] = NoRecord
             /\ Miners'[k] # NoRecord /\ Miners'[k].operator = operator_commitment(a)
             /\ \A m \in MinerIds : m # k => Miners'[m] = Miners[m]
<1>1. PICK a \in Account, s \in SubnetIds, ps \in ProofSystem : register_miner(a, s, ps)
  BY DEF RegistersMiner
<1>2. PICK k \in MinerIds : k = MinerCount
  <2>1. MinerIdMax \in Nat
    BY IdentifierBounds
  <2>2. MinerCount < MinerIdMax
    BY <1>1, Zenon DEF register_miner
  <2>3. MinerCount \in 0 .. MinerIdMax
    BY DEF TypeOK
  <2> QED
    BY <2>1, <2>2, <2>3 DEF MinerIds
<1>3. Miners[k] = NoRecord
  BY <1>2, ConstantTypes DEF FreshIds, TypeOK
<1>4. PICK p : /\ p = [operator |-> operator_commitment(a), subnet |-> s,
                       status |-> "Pending", exitAvailableAt |-> 0]
               /\ Miners' = [Miners EXCEPT ![k] = p]
  BY <1>1, <1>2, Zenon DEF register_miner
<1>5. p \in ChainParticipant /\ p.operator = operator_commitment(a)
  BY <1>4, ConstantTypes
  DEF ChainParticipant, RegistryStatus, Blocks, operator_commitment, OperatorCommitment
<1>6. p # NoRecord
  BY <1>5, NoRecordAssumption
<1>7. Miners'[k] = p /\ \A m \in MinerIds : m # k => Miners'[m] = Miners[m]
  BY <1>4 DEF TypeOK
<1>8. MinerCount' = MinerCount + 1
  BY <1>1 DEF register_miner
<1> QED
  BY <1>2, <1>3, <1>5, <1>6, <1>7, <1>8

(* register_validator writes a record at the counter and moves the counter *)
(* past it.                                                                *)
LEMMA ValidatorRegistered ==
    ASSUME TypeOK, FreshIds, RegistersValidator
    PROVE  \E a \in Account, k \in ValidatorIds :
             /\ k = ValidatorCount /\ ValidatorCount' = ValidatorCount + 1
             /\ Validators[k] = NoRecord
             /\ Validators'[k] # NoRecord /\ Validators'[k].operator = operator_commitment(a)
             /\ \A v \in ValidatorIds : v # k => Validators'[v] = Validators[v]
<1>1. PICK a \in Account, s \in SubnetIds, x \in StakeInput : register_validator(a, s, x)
  BY DEF RegistersValidator
<1>2. PICK k \in ValidatorIds : k = ValidatorCount
  <2>1. ValidatorIdMax \in Nat
    BY IdentifierBounds
  <2>2. ValidatorCount < ValidatorIdMax
    BY <1>1, Zenon DEF register_validator
  <2>3. ValidatorCount \in 0 .. ValidatorIdMax
    BY DEF TypeOK
  <2> QED
    BY <2>1, <2>2, <2>3 DEF ValidatorIds
<1>3. Validators[k] = NoRecord
  BY <1>2, ConstantTypes DEF FreshIds, TypeOK
<1>4. PICK p : /\ p = [operator |-> operator_commitment(a), subnet |-> s,
                       status |-> "Pending", exitAvailableAt |-> 0]
               /\ Validators' = [Validators EXCEPT ![k] = p]
  BY <1>1, <1>2, Zenon DEF register_validator
<1>5. p \in ChainParticipant /\ p.operator = operator_commitment(a)
  BY <1>4, ConstantTypes
  DEF ChainParticipant, RegistryStatus, Blocks, operator_commitment, OperatorCommitment
<1>6. p # NoRecord
  BY <1>5, NoRecordAssumption
<1>7. Validators'[k] = p /\ \A v \in ValidatorIds : v # k => Validators'[v] = Validators[v]
  BY <1>4 DEF TypeOK
<1>8. ValidatorCount' = ValidatorCount + 1
  BY <1>1 DEF register_validator
<1> QED
  BY <1>2, <1>3, <1>5, <1>6, <1>7, <1>8

(* A closed request keeps everything but its status, and no other request  *)
(* changes.                                                                *)
LEMMA CloseFacts ==
    ASSUME TypeOK, NEW q \in RequestIds, NEW status \in RequestStatus \ {"Pending"},
           close_request(q, status)
    PROVE  /\ is_pending(q)
           /\ InferenceRequests'[q].status = status
           /\ InferenceRequests'[q].subnet = InferenceRequests[q].subnet
           /\ InferenceRequests'[q].miner = InferenceRequests[q].miner
           /\ InferenceRequests'[q].validator = InferenceRequests[q].validator
           /\ InferenceRequests'[q] # NoRecord
           /\ \A r \in RequestIds : r # q => InferenceRequests'[r] = InferenceRequests[r]
<1>1. is_pending(q) /\ InferenceRequests' = [InferenceRequests EXCEPT ![q].status = status]
  BY DEF close_request
<1>2. PICK req \in ChainInferenceRequest : req = InferenceRequests[q]
  BY <1>1, RequestFacts DEF is_pending
<1>3. InferenceRequests'[q] = [req EXCEPT !.status = status]
  BY <1>1, <1>2 DEF TypeOK
<1>4. /\ InferenceRequests'[q] \in ChainInferenceRequest
      /\ InferenceRequests'[q].status = status
      /\ InferenceRequests'[q].subnet = req.subnet
      /\ InferenceRequests'[q].miner = req.miner
      /\ InferenceRequests'[q].validator = req.validator
  BY <1>2, <1>3 DEF ChainInferenceRequest
<1>5. \A r \in RequestIds : r # q => InferenceRequests'[r] = InferenceRequests[r]
  BY <1>1 DEF TypeOK
<1> QED
  BY <1>1, <1>2, <1>4, <1>5, NoRecordAssumption

(* Identifiers beyond the counters stay unused.                            *)
LEMMA FreshStep ==
    ASSUME CounterInv, [Next]_vars
    PROVE  FreshIds'
<1>0. TypeOK /\ FreshIds
  BY DEF CounterInv
<1>1. \A m \in MinerIds : m >= MinerCount' => Miners'[m] = NoRecord
  <2>1. CASE MinersKept
    BY <1>0, <2>1 DEF MinersKept, FreshIds
  <2>2. CASE RegistersMiner
    <3>1. PICK k \in MinerIds :
             /\ k = MinerCount /\ MinerCount' = MinerCount + 1
             /\ \A m \in MinerIds : m # k => Miners'[m] = Miners[m]
      BY <1>0, <2>2, MinerRegistered
    <3> QED
      BY <1>0, <3>1, ConstantTypes DEF FreshIds, TypeOK, MinerIds
  <2> QED
    BY <1>0, <2>1, <2>2, ParticipantSteps
<1>2. \A v \in ValidatorIds : v >= ValidatorCount' => Validators'[v] = NoRecord
  <2>1. CASE ValidatorsKept
    BY <1>0, <2>1 DEF ValidatorsKept, FreshIds
  <2>2. CASE RegistersValidator
    <3>1. PICK k \in ValidatorIds :
             /\ k = ValidatorCount /\ ValidatorCount' = ValidatorCount + 1
             /\ \A v \in ValidatorIds : v # k => Validators'[v] = Validators[v]
      BY <1>0, <2>2, ValidatorRegistered
    <3> QED
      BY <1>0, <3>1, ConstantTypes DEF FreshIds, TypeOK, ValidatorIds
  <2> QED
    BY <1>0, <2>1, <2>2, ParticipantSteps
<1>3. RequestIdsDense'
  <2>1. CASE UNCHANGED <<pendingVars, requestVars>>
    BY <1>0, <2>1 DEF FreshIds, RequestIdsDense
  <2>2. ASSUME NEW a \in Account, NEW id \in 0 .. RequestIdMax,
               NEW s \in SubnetIds, NEW x \in PaymentInput, NEW f \in FeeInput,
               request_inference(a, id, s, x, f)
        PROVE  RequestIdsDense'
    <3>1. PICK m \in MinerIds, v \in ValidatorIds, q \in RequestIds : Opens(a, s, x, f, m, v, q)
      BY <2>2, OpenSets, Zenon
    <3>2. /\ q = RequestCount /\ RequestCount' = RequestCount + 1
          /\ InferenceRequests'[q] # NoRecord
          /\ \A r \in RequestIds : r # q => InferenceRequests'[r] = InferenceRequests[r]
      BY <1>0, <2>2, <3>1
         DEF Opens, request_inference, ensure_request_id_can_advance, open_inference_request, TypeOK
    <3> QED
      BY <1>0, <3>2, ConstantTypes DEF FreshIds, RequestIdsDense, TypeOK, RequestIds
  <2>3. ASSUME NEW q \in RequestIds, NEW status \in RequestStatus \ {"Pending"},
               close_request(q, status)
        PROVE  RequestIdsDense'
    <3>1. /\ RequestCount' = RequestCount /\ InferenceRequests[q] # NoRecord
          /\ \A r \in RequestIds : r # q => InferenceRequests'[r] = InferenceRequests[r]
      BY <1>0, <2>3 DEF close_request, is_pending, TypeOK
    <3>2. InferenceRequests'[q] # NoRecord
      BY <1>0, <2>3, CloseFacts
    <3> QED
      BY <1>0, <3>1, <3>2 DEF FreshIds, RequestIdsDense
  <2> QED
    BY <2>1, <2>2, <2>3, StepKinds
<1> QED
  BY <1>1, <1>2, <1>3 DEF FreshIds

(* The inductive invariant holds at genesis.                               *)
LEMMA CounterInit == Init => CounterInv
<1> SUFFICES ASSUME Init PROVE CounterInv
  OBVIOUS
<1>1. TypeOK
  BY InitTypes
<1>2. FreshIds
  BY ConstantTypes DEF Init, FreshIds, RequestIdsDense, RequestIds
<1>3. /\ \A m : PendingOf(m) = {}
      /\ \A v : PendingAt(v) = {}
      /\ \A s : RequestsIn(s) = {}
  BY DEF Init, PendingOf, PendingAt, RequestsIn, is_pending
<1> QED
  BY <1>1, <1>2, <1>3, FS_EmptySet, Zenon
  DEF Init, CounterInv, PendingCountersExact, StatusCountersExact

(* Every step preserves the inductive invariant.                           *)
LEMMA CounterStep == CounterInv /\ [Next]_vars => CounterInv'
<1> SUFFICES ASSUME CounterInv, [Next]_vars PROVE CounterInv'
  OBVIOUS
<1>1. TypeOK' /\ FreshIds'
  BY NextTypes, FreshStep, Zenon DEF CounterInv
<1>2. CASE UNCHANGED <<pendingVars, requestVars>>
  BY <1>1, <1>2 DEF CounterInv, PendingCountersExact, StatusCountersExact, PendingOf, PendingAt,
     RequestsIn, is_pending
<1>3. ASSUME NEW a \in Account, NEW id \in 0 .. RequestIdMax,
             NEW s \in SubnetIds, NEW x \in PaymentInput, NEW f \in FeeInput,
             request_inference(a, id, s, x, f)
      PROVE  CounterInv'
  BY <1>1, <1>3, OpenCounters DEF CounterInv
<1>4. ASSUME NEW r \in RequestIds, NEW status \in RequestStatus \ {"Pending"},
             close_request(r, status)
      PROVE  CounterInv'
  BY <1>1, <1>4, CloseCounters DEF CounterInv
<1> QED
  BY <1>2, <1>3, <1>4, StepKinds

(* The inductive invariant holds in every reachable state: types, fresh    *)
(* identifiers, and exact assignment and status counters.                  *)
THEOREM CounterInvariant == Spec => []CounterInv
  BY CounterInit, CounterStep, PTL DEF Spec

(* The counters that gate exits, root slashes and identity changes count   *)
(* exactly the pending requests of the participant, whatever the           *)
(* interleaving of openings, settlements, rejections and refunds.          *)
THEOREM PendingCountersCorrect == Spec => []PendingCountersExact
<1>1. CounterInv => PendingCountersExact
  BY DEF CounterInv
<1> QED
  BY <1>1, CounterInvariant, PTL

(* The stored requests are exactly those below the counter, whatever       *)
(* identifiers the callers name and in whatever order their calls arrive.  *)
THEOREM RequestIdsAreDense == Spec => []RequestIdsDense
<1>1. CounterInv => RequestIdsDense
  BY DEF CounterInv, FreshIds
<1> QED
  BY <1>1, CounterInvariant, PTL

(* The five status counters of the try-runtime check match the requests.   *)
THEOREM StatusCountersCorrect == Spec => []StatusCountersExact
<1>1. CounterInv => StatusCountersExact
  BY DEF CounterInv
<1> QED
  BY <1>1, CounterInvariant, PTL
=============================================================================
