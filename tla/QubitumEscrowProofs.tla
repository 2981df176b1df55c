------------------------ MODULE QubitumEscrowProofs -------------------------
(***************************************************************************)
(* pallet-qubitum implements the escrow, and closed requests are final,    *)
(* for every value of the constants.                                       *)
(***************************************************************************)
EXTENDS QubitumSafetyProofs

USE DEF currencyVars, subnetVars, minerVars, validatorVars, pendingVars, requestVars,
        can_advance, increment_pending_assignment, decrement_pending_assignment,
        transition_request_status

(* The pot of the escrow moves with the request: every way to close one    *)
(* takes exactly its payment from its user's InferencePayment hold, and    *)
(* the bond and stake holds that the same call burns are other holds.      *)
LEMMA ClosePot ==
    ASSUME TypeOK, NEW r \in RequestIds, NEW bps \in Nat,
           \/ \E status \in RequestStatus : refund_stale_request(r, status)
           \/ accept_proof(r)
           \/ bps \in VerifierSlashBps /\ reject_proof(r, bps)
           \/ bps \in VerifierSlashBps /\ challenge_proof(r, bps)
    PROVE  held'["InferencePayment"] =
             [held["InferencePayment"] EXCEPT
                ![InferenceRequests[r].user] = @ - InferenceRequests[r].payment]
<1> DEFINE req == InferenceRequests[r]
<1>0. /\ "InferencePayment" \in HoldReason
      /\ held \in [HoldReason -> [Account -> Nat]]
  BY ConstantTypes DEF TypeOK, CurrencyTypeOK
<1>1. ASSUME NEW h, h \in [HoldReason -> [Account -> Nat]],
             h["InferencePayment"] = held["InferencePayment"],
             held' = SubHeld(h, "InferencePayment", req.user, req.payment)
      PROVE  held'["InferencePayment"] = [held["InferencePayment"] EXCEPT ![req.user] = @ - req.payment]
  BY <1>0, <1>1 DEF SubHeld
<1>2. CASE \/ \E status \in RequestStatus : refund_stale_request(r, status)
           \/ accept_proof(r)
  BY <1>0, <1>1, <1>2 DEF refund_stale_request, Release, accept_proof, settle_request_payment
<1>3. CASE bps \in VerifierSlashBps /\ (reject_proof(r, bps) \/ challenge_proof(r, bps))
  <2>1. validate_submission_for_request(r)
    BY <1>3 DEF reject_proof, challenge_proof
  <2>2. PICK m \in MinerIds, v \in ValidatorIds :
           /\ m = req.miner /\ Miners[m] # NoRecord
           /\ v = req.validator /\ Validators[v] # NoRecord
    BY <2>1, SubmissionFacts
  <2>3. slash_miner_bond(m, bps)
    BY <1>3, <2>2 DEF reject_proof, challenge_proof
  <2>4. PICK g \in [HoldReason -> [Account -> Nat]] :
           /\ g = burn_miner_hold(held, m, bps)
           /\ g["InferencePayment"] = held["InferencePayment"]
           /\ g["ValidatorStake"] = held["ValidatorStake"]
    BY <1>0, <2>2, <2>3, MinerSlashTypes, ConstantTypes, Zenon
  <2>5. CASE challenge_proof(r, bps)
    BY <1>1, <2>2, <2>4, <2>5 DEF challenge_proof
  <2>6. CASE reject_proof(r, bps)
    <3>1. slash_validator_stake(v, bps)
      BY <2>2, <2>6 DEF reject_proof
    <3>2. PICK k \in [HoldReason -> [Account -> Nat]] :
             /\ k = burn_validator_hold(g, v, bps)
             /\ k["InferencePayment"] = g["InferencePayment"]
      BY <1>0, <2>2, <2>4, <3>1, ValidatorSlashTypes, Zenon
    <3>3. held' = SubHeld(k, "InferencePayment", req.user, req.payment)
      BY <2>2, <2>4, <2>6, <3>2 DEF reject_proof
    <3> QED
      BY <1>1, <2>4, <3>2, <3>3
  <2> QED
    BY <1>3, <2>5, <2>6
<1> QED
  BY <1>2, <1>3

(* Holding, releasing or burning for one reason leaves the other holds.    *)
LEMMA OtherHolds ==
    ASSUME TypeOK, NEW r \in HoldReason, NEW q \in HoldReason, q # r, NEW a, NEW x
    PROVE  /\ Hold(r, a, x) => held'[q] = held[q]
           /\ Release(r, a, x) => held'[q] = held[q]
           /\ held' = SubHeld(held, r, a, x) => held'[q] = held[q]
  BY DEF Hold, Release, AddHeld, SubHeld, TypeOK, CurrencyTypeOK

(* What the escrow sees of a step: the requests and the pots.              *)
EscrowUnseen ==
    /\ InferenceRequests' = InferenceRequests
    /\ held'["InferencePayment"] = held["InferencePayment"]

EscrowCloses(r, status) ==
    /\ close_request(r, status)
    /\ held'["InferencePayment"] =
         [held["InferencePayment"] EXCEPT
            ![InferenceRequests[r].user] = @ - InferenceRequests[r].payment]

(* Every step of the pallet is invisible to the escrow, opens a fresh      *)
(* request with its payment, or closes a pending one.                      *)
LEMMA EscrowSteps ==
    ASSUME TypeOK, [Next]_vars
    PROVE  \/ EscrowUnseen
           \/ \E a \in Account, id \in 0 .. RequestIdMax, s \in SubnetIds,
                x \in PaymentInput, f \in FeeInput : request_inference(a, id, s, x, f)
           \/ \E r \in RequestIds, status \in RequestStatus \ {"Pending"} :
                EscrowCloses(r, status)
<1>0. /\ "MinerBond" \in HoldReason /\ "ValidatorStake" \in HoldReason
      /\ "InferencePayment" \in HoldReason /\ "MinerBond" # "InferencePayment"
      /\ "ValidatorStake" # "InferencePayment"
  BY ConstantTypes, Zenon
<1>1. CASE UNCHANGED vars
  BY <1>1 DEF vars, EscrowUnseen
<1>2. CASE new_block
  BY <1>2 DEF new_block, EscrowUnseen
<1>3. ASSUME NEW a \in Account, NEW ps \in ProofSystem, create_subnet(a, ps)
      PROVE  EscrowUnseen
  BY <1>3 DEF create_subnet, BurnFree, EscrowUnseen
<1>4. ASSUME NEW a \in Account, NEW s \in SubnetIds, NEW ps \in ProofSystem,
             register_miner(a, s, ps)
      PROVE  EscrowUnseen
  BY <1>4 DEF register_miner, BurnFree, EscrowUnseen
<1>5. ASSUME NEW a \in Account, NEW s \in SubnetIds, NEW x \in StakeInput,
             register_validator(a, s, x)
      PROVE  EscrowUnseen
  BY <1>0, <1>5, OtherHolds, Zenon DEF register_validator, EscrowUnseen
<1>6. ASSUME NEW m \in MinerIds,
             \/ \E x \in BondInput : activate_miner(m, x)
             \/ set_miner_identity(m)
             \/ clear_miner_identity(m)
             \/ deactivate_miner(m)
             \/ withdraw_miner_bond(m)
             \/ \E bps \in RootSlashBps : slash_miner(m, bps)
      PROVE  EscrowUnseen
  <2>1. PICK op, y : op = Miners[m].operator.who /\ y = locked_miner_bond(m)
    OBVIOUS
  <2>2. ASSUME NEW x \in BondInput, activate_miner(m, x)
        PROVE  EscrowUnseen
    BY <1>0, <2>1, <2>2, OtherHolds, Zenon DEF activate_miner, EscrowUnseen
  <2>3. CASE set_miner_identity(m) \/ clear_miner_identity(m) \/ deactivate_miner(m)
    BY <2>3 DEF set_miner_identity, clear_miner_identity, deactivate_miner, EscrowUnseen
  <2>4. CASE withdraw_miner_bond(m)
    BY <1>0, <2>1, <2>4, OtherHolds, Zenon DEF withdraw_miner_bond, EscrowUnseen
  <2>5. ASSUME NEW bps \in RootSlashBps, slash_miner(m, bps)
        PROVE  EscrowUnseen
    <3>1. PICK z : z = slash_miner_amount(m, bps)
      OBVIOUS
    <3> QED
      BY <1>0, <2>1, <2>5, <3>1, OtherHolds, Zenon
         DEF slash_miner, burn_miner_hold, EscrowUnseen
  <2> QED
    BY <1>6, <2>2, <2>3, <2>4, <2>5
<1>7. ASSUME NEW v \in ValidatorIds,
             \/ set_validator_identity(v)
             \/ clear_validator_identity(v)
             \/ deactivate_validator(v)
             \/ withdraw_validator_stake(v)
             \/ \E bps \in RootSlashBps : slash_validator(v, bps)
      PROVE  EscrowUnseen
  <2>1. PICK op, y : op = Validators[v].operator.who /\ y = locked_validator_stake(v)
    OBVIOUS
  <2>2. CASE set_validator_identity(v) \/ clear_validator_identity(v) \/ deactivate_validator(v)
    BY <2>2 DEF set_validator_identity, clear_validator_identity, deactivate_validator,
       EscrowUnseen
  <2>3. CASE withdraw_validator_stake(v)
    BY <1>0, <2>1, <2>3, OtherHolds, Zenon DEF withdraw_validator_stake, EscrowUnseen
  <2>4. ASSUME NEW bps \in RootSlashBps, slash_validator(v, bps)
        PROVE  EscrowUnseen
    <3>1. PICK z : z = slash_validator_amount(v, bps)
      OBVIOUS
    <3> QED
      BY <1>0, <2>1, <2>4, <3>1, OtherHolds, Zenon
      DEF slash_validator, burn_validator_hold, EscrowUnseen
  <2> QED
    BY <1>7, <2>2, <2>3, <2>4
<1>8. ASSUME NEW r \in RequestIds,
             \/ \E a \in Account : cancel_inference(a, r)
             \/ expire_inference(r)
             \/ accept_proof(r)
      PROVE  \E status \in RequestStatus \ {"Pending"} : EscrowCloses(r, status)
  <2>1. held'["InferencePayment"] =
          [held["InferencePayment"] EXCEPT
             ![InferenceRequests[r].user] = @ - InferenceRequests[r].payment]
    BY <1>8, ClosePot, Zenon DEF cancel_inference, expire_inference, RequestStatus
  <2>2. \E status \in RequestStatus \ {"Pending"} : close_request(r, status)
    BY <1>8 DEF cancel_inference, expire_inference, refund_stale_request, accept_proof,
       settle_request_payment, RequestStatus
  <2> QED
    BY <2>1, <2>2, Zenon DEF EscrowCloses
<1>9. ASSUME NEW r \in RequestIds, NEW bps \in VerifierSlashBps,
             reject_proof(r, bps) \/ challenge_proof(r, bps)
      PROVE  \E status \in RequestStatus \ {"Pending"} : EscrowCloses(r, status)
  <2>1. bps \in Nat
    BY ConstantTypes, Zenon
  <2>2. held'["InferencePayment"] =
          [held["InferencePayment"] EXCEPT
             ![InferenceRequests[r].user] = @ - InferenceRequests[r].payment]
    BY <1>9, <2>1, ClosePot, Zenon
  <2>3. close_request(r, "Rejected") /\ "Rejected" \in RequestStatus \ {"Pending"}
    BY <1>9 DEF reject_proof, challenge_proof, RequestStatus
  <2> QED
    BY <2>2, <2>3, Zenon DEF EscrowCloses
<1> QED
  BY <1>1, <1>2, <1>3, <1>4, <1>5, <1>6, <1>7, <1>8, <1>9, Zenon DEF Next, submit_proof

(* The escrow's requests are a function of the pallet's.                   *)
EscrowRequests == [r \in RequestIds |-> EscrowView(InferenceRequests[r])]

(* Genesis is an initial state of the escrow.                              *)
LEMMA EscrowInitial == Init => E!EscrowInit
<1> SUFFICES ASSUME Init PROVE E!EscrowInit
  OBVIOUS
<1>1. "InferencePayment" \in HoldReason
  BY ConstantTypes, Zenon
<1>2. \A r \in RequestIds : EscrowView(InferenceRequests[r]) = NoRecord
  BY DEF Init, EscrowView
<1> QED
  BY <1>1, <1>2 DEF Init, E!EscrowInit

(* request_inference is the escrow's Open.                                 *)
LEMMA EscrowOpened ==
    ASSUME CounterInv, NEW a \in Account, NEW id \in 0 .. RequestIdMax,
           NEW s \in SubnetIds, NEW p \in PaymentInput, NEW f \in FeeInput,
           request_inference(a, id, s, p, f)
    PROVE  E!EscrowNext
<1>0. TypeOK /\ "InferencePayment" \in HoldReason
  BY ConstantTypes DEF CounterInv
<1>1. PICK m \in MinerIds, v \in ValidatorIds, r \in RequestIds : Opens(a, s, p, f, m, v, r)
  BY OpenSets, Zenon
<1>2. /\ InferenceRequests[r] = NoRecord
      /\ InferenceRequests'[r] # NoRecord
      /\ InferenceRequests'[r].user = a
      /\ InferenceRequests'[r].payment = p
      /\ InferenceRequests'[r].status = "Pending"
      /\ \A q \in RequestIds : q # r => InferenceRequests'[q] = InferenceRequests[q]
  BY <1>0, <1>1 DEF Opens, TypeOK
<1>3. EscrowRequests[r] = NoRecord
  BY <1>2 DEF EscrowRequests, EscrowView
<1>4. EscrowRequests' =
        [EscrowRequests EXCEPT ![r] = [user |-> a, payment |-> p, closed |-> FALSE]]
  BY <1>2, Zenon DEF EscrowRequests, EscrowView
<1>5. held'["InferencePayment"] = [held["InferencePayment"] EXCEPT ![a] = @ + p]
  BY <1>0
     DEF request_inference, open_inference_request, Hold, AddHeld, TypeOK, CurrencyTypeOK
<1>6. E!Open(r, a, p)
  BY <1>3, <1>4, <1>5 DEF E!Open, EscrowRequests
<1> QED
  BY <1>6 DEF E!EscrowNext

(* Settling, rejecting, challenging, cancelling and expiring are the       *)
(* escrow's Close.                                                         *)
LEMMA EscrowClosed ==
    ASSUME TypeOK, NEW r \in RequestIds, NEW status \in RequestStatus \ {"Pending"},
           EscrowCloses(r, status)
    PROVE  E!EscrowNext
<1>1. PICK req \in ChainInferenceRequest :
         /\ req = InferenceRequests[r] /\ req # NoRecord /\ req.status = "Pending"
  BY RequestFacts DEF EscrowCloses, close_request, is_pending
<1>2. /\ InferenceRequests'[r] = [req EXCEPT !.status = status]
      /\ \A q \in RequestIds : q # r => InferenceRequests'[q] = InferenceRequests[q]
  BY <1>1 DEF EscrowCloses, close_request, TypeOK
<1>3. EscrowView([req EXCEPT !.status = status]) =
        [user |-> req.user, payment |-> req.payment, closed |-> TRUE]
  <2>1. /\ [req EXCEPT !.status = status] \in ChainInferenceRequest
        /\ [req EXCEPT !.status = status].user = req.user
        /\ [req EXCEPT !.status = status].payment = req.payment
        /\ [req EXCEPT !.status = status].status = status
    BY DEF ChainInferenceRequest
  <2> QED
    BY <2>1, NoRecordAssumption, Zenon DEF EscrowView
<1>4. EscrowRequests[r] = [user |-> req.user, payment |-> req.payment, closed |-> FALSE]
  BY <1>1, Zenon DEF EscrowRequests, EscrowView
<1>5. EscrowRequests[r] # NoRecord
  <2>1. req.user \in Account /\ req.payment \in Nat
    BY DEF ChainInferenceRequest
  <2>2. EscrowRequests[r] \in E!EscrowRecord
    BY <1>4, <2>1 DEF E!EscrowRecord
  <2> QED
    BY <2>2, EscrowAssumption
<1>6. EscrowRequests' =
        [EscrowRequests EXCEPT ![r] = [user |-> req.user, payment |-> req.payment,
                                       closed |-> TRUE]]
  BY <1>2, <1>3, Zenon DEF EscrowRequests
<1>7. held'["InferencePayment"] = [held["InferencePayment"] EXCEPT ![req.user] = @ - req.payment]
  BY <1>1 DEF EscrowCloses
<1>8. E!Close(r)
  <2>1. /\ EscrowRequests[r].user = req.user
        /\ EscrowRequests[r].payment = req.payment
        /\ ~EscrowRequests[r].closed
    BY <1>4
  <2>2. EscrowRequests' =
          [EscrowRequests EXCEPT ![r] = [user |-> EscrowRequests[r].user,
                                         payment |-> EscrowRequests[r].payment,
                                         closed |-> TRUE]]
    BY <1>6, <2>1
  <2>3. held'["InferencePayment"] =
          [held["InferencePayment"] EXCEPT ![EscrowRequests[r].user] =
                                             @ - EscrowRequests[r].payment]
    BY <1>7, <2>1
  <2> QED
    BY <1>5, <2>1, <2>2, <2>3, Zenon DEF E!Close, EscrowRequests
<1> QED
  BY <1>8 DEF E!EscrowNext

(* Every step of the pallet is a step of the escrow or leaves it           *)
(* unchanged.                                                              *)
LEMMA EscrowStep ==
    CounterInv /\ [Next]_vars =>
        [E!EscrowNext]_<<[r \in RequestIds |-> EscrowView(InferenceRequests[r])],
                         held["InferencePayment"]>>
<1> SUFFICES ASSUME CounterInv, [Next]_vars
             PROVE  \/ E!EscrowNext
                    \/ UNCHANGED <<[r \in RequestIds |-> EscrowView(InferenceRequests[r])],
                                   held["InferencePayment"]>>
  OBVIOUS
<1>0. TypeOK
  BY DEF CounterInv
<1>1. CASE EscrowUnseen
  BY <1>1 DEF EscrowUnseen, EscrowView
<1>2. ASSUME NEW a \in Account, NEW id \in 0 .. RequestIdMax,
             NEW s \in SubnetIds, NEW x \in PaymentInput, NEW f \in FeeInput,
             request_inference(a, id, s, x, f)
      PROVE  E!EscrowNext
  BY <1>2, EscrowOpened
<1>3. ASSUME NEW r \in RequestIds, NEW status \in RequestStatus \ {"Pending"},
             EscrowCloses(r, status)
      PROVE  E!EscrowNext
  BY <1>0, <1>3, EscrowClosed
<1> QED
  BY <1>0, <1>1, <1>2, <1>3, EscrowSteps, Zenon

(* The pallet implements the escrow: request by request, a payment enters  *)
(* its user's pot once, when it is opened, and leaves it once and in full, *)
(* when a proof settles it, a proof is rejected or challenged, or the      *)
(* request is cancelled or expired.                                        *)
THEOREM EscrowImplemented == Spec => ImplementsEscrow
  BY EscrowInitial, EscrowStep, CounterInvariant, PTL DEF Spec, ImplementsEscrow, E!EscrowSpec

(* A step that touches a stored request changes only the status of a       *)
(* pending one.                                                            *)
LEMMA FinalStep ==
    CounterInv /\ [Next]_vars =>
        \A r \in RequestIds : InferenceRequests[r] # NoRecord =>
          \/ InferenceRequests'[r] = InferenceRequests[r]
          \/ /\ InferenceRequests[r].status = "Pending"
             /\ InferenceRequests'[r] =
                  [InferenceRequests[r] EXCEPT !.status = InferenceRequests'[r].status]
<1> SUFFICES ASSUME CounterInv, [Next]_vars, NEW r \in RequestIds,
                    InferenceRequests[r] # NoRecord,
                    InferenceRequests'[r] # InferenceRequests[r]
             PROVE  /\ InferenceRequests[r].status = "Pending"
                    /\ InferenceRequests'[r] =
                         [InferenceRequests[r] EXCEPT !.status = InferenceRequests'[r].status]
  OBVIOUS
<1>0. TypeOK
  BY DEF CounterInv
<1>1. CASE UNCHANGED <<pendingVars, requestVars>>
  BY <1>1
<1>2. ASSUME NEW a \in Account, NEW id \in 0 .. RequestIdMax,
             NEW s \in SubnetIds, NEW x \in PaymentInput, NEW f \in FeeInput,
             request_inference(a, id, s, x, f)
      PROVE  FALSE
  <2>1. PICK m \in MinerIds, v \in ValidatorIds, q \in RequestIds : Opens(a, s, x, f, m, v, q)
    BY <1>2, OpenSets, Zenon
  <2> QED
    BY <1>0, <2>1 DEF Opens, TypeOK
<1>3. ASSUME NEW q \in RequestIds, NEW status \in RequestStatus \ {"Pending"},
             close_request(q, status)
      PROVE  /\ InferenceRequests[r].status = "Pending"
             /\ InferenceRequests'[r] =
                  [InferenceRequests[r] EXCEPT !.status = InferenceRequests'[r].status]
  <2>1. q = r
    BY <1>0, <1>3 DEF close_request, TypeOK
  <2>2. /\ InferenceRequests[r].status = "Pending"
        /\ InferenceRequests'[r] = [InferenceRequests[r] EXCEPT !.status = status]
    BY <1>0, <1>3, <2>1 DEF close_request, is_pending, TypeOK
  <2>3. InferenceRequests[r] \in ChainInferenceRequest
    BY <1>0, RequestFacts
  <2>4. InferenceRequests'[r].status = status
    BY <2>2, <2>3 DEF ChainInferenceRequest
  <2> QED
    BY <2>2, <2>4
<1> QED
  BY <1>1, <1>2, <1>3, StepKinds

(* A closed request never changes again, and an open one changes nothing   *)
(* but its status: no call reopens, reassigns or reprices a request.       *)
THEOREM RequestsAreFinal == Spec => RequestsFinal
  BY FinalStep, CounterInvariant, PTL DEF Spec, RequestsFinal
=============================================================================
