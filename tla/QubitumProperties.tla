------------------------- MODULE QubitumProperties --------------------------
(***************************************************************************)
(* What pallet-qubitum promises about money, work and exits.  The          *)
(* properties that need no sums are proved in the Proofs modules.          *)
(***************************************************************************)
EXTENDS Qubitum, FiniteSetsExt

PendingOf(m) == {r \in RequestIds : is_pending(r) /\ InferenceRequests[r].miner = m}

PendingAt(v) == {r \in RequestIds : is_pending(r) /\ InferenceRequests[r].validator = v}

RequestsIn(status) ==
    {r \in RequestIds : InferenceRequests[r] # NoRecord /\ InferenceRequests[r].status = status}

(* The InferencePayment hold of an account is exactly the payments of its  *)
(* pending requests, whichever of the five ways its other requests closed. *)
EscrowBacked ==
    \A a \in Account :
        held["InferencePayment"][a] =
            MapThenSumSet(LAMBDA r : InferenceRequests[r].payment,
                          {r \in RequestsIn("Pending") : InferenceRequests[r].user = a})

(* The MinerBond and ValidatorStake holds of an account are exactly the    *)
(* capital records of the participants it operates: a slash or withdrawal  *)
(* of one participant never touches what another of the same operator has  *)
(* locked, although the holds are shared.                                  *)
CapitalBacked ==
    \A a \in Account :
        /\ held["MinerBond"][a] =
             MapThenSumSet(LAMBDA m : MinerLockedBond[m],
                           {m \in MinerIds : /\ MinerLockedBond[m] # NoRecord
                                             /\ Miners[m].operator.who = a})
        /\ held["ValidatorStake"][a] =
             MapThenSumSet(LAMBDA v : ValidatorLockedStake[v],
                           {v \in ValidatorIds : /\ ValidatorLockedStake[v] # NoRecord
                                                 /\ Validators[v].operator.who = a})

(* A hold covers the capital records of its operator's miners, whatever    *)
(* recordless miners of earlier versions fall back on.                     *)
CapitalCovered ==
    \A a \in Account :
        held["MinerBond"][a] >=
            MapThenSumSet(LAMBDA m : MinerLockedBond[m],
                          {m \in MinerIds : /\ MinerLockedBond[m] # NoRecord
                                            /\ Miners[m].operator.who = a})

(* With the fail-closed identity verifier of the production runtime nobody *)
(* becomes active: no bond is ever locked and no payment ever escrowed.    *)
FailClosedInert ==
    /\ \A m \in MinerIds : Miners[m] # NoRecord => Miners[m].status = "Pending"
    /\ \A v \in ValidatorIds : Validators[v] # NoRecord =>
         Validators[v].status \in {"Pending", "Exiting", "Disabled"}
    /\ \A a \in Account : held["MinerBond"][a] + held["InferencePayment"][a] = 0

(* The assignment counters that gate exits, root slashes and identity      *)
(* changes count exactly the pending requests of the participant.          *)
PendingCountersExact ==
    /\ \A m \in MinerIds : PendingMinerRequests[m] = Cardinality(PendingOf(m))
    /\ \A v \in ValidatorIds : PendingValidatorRequests[v] = Cardinality(PendingAt(v))

(* The five status counters match the stored requests (the try-runtime     *)
(* check ensure_active_routing_indexes_match, in every reachable state).   *)
StatusCountersExact ==
    \A s \in RequestStatus : RequestStatusCount[s] = Cardinality(RequestsIn(s))

(* While a request is pending neither of its participants can leave: both  *)
(* keep a capital record and a bound identity, and are active unless a     *)
(* slash took their capital below the minimum.                             *)
AssignedParticipantsBound ==
    \A r \in RequestsIn("Pending") :
        LET m == InferenceRequests[r].miner
            v == InferenceRequests[r].validator
        IN  /\ Miners[m] # NoRecord /\ Validators[v] # NoRecord
            /\ Miners[m].status \in {"Active", "Slashed"}
            /\ Validators[v].status \in {"Active", "Slashed"}
            /\ MinerLockedBond[m] # NoRecord /\ ValidatorLockedStake[v] # NoRecord
            /\ MinerAttested[m] /\ ValidatorAttested[v]

(* A participant with active status has at least the minimum capital, so   *)
(* that every active, attested participant can be given work.              *)
ActiveMeansBonded ==
    /\ \A m \in MinerIds : Miners[m] # NoRecord /\ Miners[m].status = "Active"
         => miner_has_active_locked_bond_record(m)
    /\ \A v \in ValidatorIds : Validators[v] # NoRecord /\ Validators[v].status = "Active"
         => validator_has_active_locked_stake_record(v)

(* No request is assigned to a miner and a validator of one account.       *)
NoSelfValidation ==
    \A r \in RequestIds : InferenceRequests[r] # NoRecord =>
        Miners[InferenceRequests[r].miner].operator.who
            # Validators[InferenceRequests[r].validator].operator.who

(* Registrations, activations, clearing and publishing identities, and     *)
(* exits, in any order, never leave a subnet with more routable            *)
(* participants than configured.                                           *)
RouteSetsBounded ==
    \A s \in SubnetIds :
        /\ Cardinality(active_miner_route_ids(s)) <= MaxActiveMinersPerSubnet
        /\ Cardinality(active_validator_route_ids(s)) <= MaxActiveValidatorsPerSubnet

(* The stored requests are exactly those with identifiers below the        *)
(* counter, whatever identifiers the callers name: request_records, and    *)
(* with it the status counts and the migrations, scan only those.          *)
RequestIdsDense ==
    \A r \in RequestIds : InferenceRequests[r] # NoRecord <=> r < RequestCount

(* A proof is on record for exactly the settled requests, and it names the *)
(* participants the request was assigned to.                               *)
ProofIffSettled ==
    \A r \in RequestIds :
        /\ ProofRecords[r] # NoRecord <=> r \in RequestsIn("Settled")
        /\ ProofRecords[r] # NoRecord =>
             /\ ProofRecords[r].subnet = InferenceRequests[r].subnet
             /\ ProofRecords[r].miner = InferenceRequests[r].miner
             /\ ProofRecords[r].validator = InferenceRequests[r].validator

-----------------------------------------------------------------------------
(* Every step that closes a request moves exactly its payment out of       *)
(* escrow: a refund goes to the user alone and in full; a settlement goes  *)
(* to the miner, the validator and the treasury, none of it is lost to     *)
(* rounding, and nobody else is touched.                                   *)
PaymentsConserved ==
    [][\A r \in RequestIds : is_pending(r) /\ InferenceRequests'[r].status # "Pending" =>
         LET req == InferenceRequests[r]
             gain == [a \in Account |-> free'[a] - free[a]]
             receivers == IF InferenceRequests'[r].status = "Settled"
                          THEN {Miners[req.miner].operator.who,
                                Validators[req.validator].operator.who, Treasury}
                          ELSE {req.user}
         IN  /\ MapThenSumSet(LAMBDA a : gain[a], receivers) = req.payment
             /\ \A a \in receivers : gain[a] >= 0
             /\ \A a \in Account \ receivers : gain[a] = 0]_vars

(* A closed request never changes again, and an open one changes nothing   *)
(* but its status.                                                         *)
RequestsFinal ==
    [][\A r \in RequestIds : InferenceRequests[r] # NoRecord =>
         \/ InferenceRequests'[r] = InferenceRequests[r]
         \/ /\ InferenceRequests[r].status = "Pending"
            /\ InferenceRequests'[r] =
                 [InferenceRequests[r] EXCEPT !.status = InferenceRequests'[r].status]]_vars

(* A valid proof for a pending request whose participants are both active  *)
(* can be settled.                                                         *)
ValidProofSettles ==
    \A r \in RequestIds :
        validate_submission_for_request(r) => can_settle(InferenceRequests[r])

(* Only two things stand between a valid proof and its settlement: a       *)
(* payment too large to be split, and a treasury account that does not     *)
(* exist and that the fee would not create.  However the user's other      *)
(* requests ended, the escrow still has the payment, and the operators'    *)
(* accounts can receive any share, because their capital keeps them alive. *)
SettlementUnblocked ==
    \A r \in RequestIds :
        /\ validate_submission_for_request(r)
        /\ pro_rata_fits(InferenceRequests[r].payment, BPS_DENOMINATOR)
        /\ CanDeposit(free, Treasury, treasury_fee(InferenceRequests[r]))
        => can_settle(InferenceRequests[r])

(* While a miner is exiting its remaining bond can still be slashed, by    *)
(* root or because one of its proofs is invalid.                           *)
ExitingBondSlashable ==
    \A m \in MinerIds :
        Miners[m] # NoRecord /\ Miners[m].status = "Exiting" =>
            \/ ~ShieldedCallPayloads /\ PendingMinerRequests[m] = 0
            \/ \E r \in PendingOf(m) : validate_submission_for_request(r)

-----------------------------------------------------------------------------
(* Fairness.  Blocks keep being produced, and a keeper expires a request   *)
(* that stays expirable: the call needs no permission, only the request's  *)
(* witnesses.  Operators finish the exits they have begun.                 *)
Fairness ==
    /\ WF_vars(new_block)
    /\ \A r \in RequestIds : WF_vars(expire_inference(r))
    /\ \A m \in MinerIds : WF_vars(withdraw_miner_bond(m))
    /\ \A v \in ValidatorIds : WF_vars(withdraw_validator_stake(v))

FairSpec == Spec /\ Fairness

(* Escrow is never stuck: whatever happens to the participants of a        *)
(* pending request (slashed, unattested, never answering), the request     *)
(* closes.                                                                 *)
PendingRequestsClose ==
    \A r \in RequestIds :
        is_pending(r) /\ InferenceRequests[r].createdAt + RequestCancelDelayBlocks <= BlockMax
            ~> ~is_pending(r)

(* An exit that has begun ends with the capital released, slashes during   *)
(* the cooldown notwithstanding.                                           *)
ExitsComplete ==
    /\ \A m \in MinerIds :
         Miners[m] # NoRecord /\ Miners[m].status = "Exiting"
            ~> /\ Miners[m] # NoRecord /\ Miners[m].status = "Disabled"
               /\ MinerLockedBond[m] = NoRecord
    /\ \A v \in ValidatorIds :
         Validators[v] # NoRecord /\ Validators[v].status = "Exiting"
            ~> /\ Validators[v] # NoRecord /\ Validators[v].status = "Disabled"
               /\ ValidatorLockedStake[v] = NoRecord

-----------------------------------------------------------------------------
(* The pallet implements the escrow: the pots are the InferencePayment     *)
(* holds, and a request is closed in every status but Pending.             *)
EscrowView(req) ==
    IF req = NoRecord THEN NoRecord
    ELSE [user |-> req.user, payment |-> req.payment, closed |-> req.status # "Pending"]

E == INSTANCE Escrow WITH
        RequestId <- RequestIds,
        Payment <- PaymentInput,
        requests <- [r \in RequestIds |-> EscrowView(InferenceRequests[r])],
        pot <- held["InferencePayment"]

ASSUME EscrowAssumption == NoRecord \notin E!EscrowRecord

(* Every behaviour of the pallet is a behaviour of the escrow: no call     *)
(* opens a request without its payment, closes one twice, or pays one      *)
(* request from another's escrow.                                          *)
ImplementsEscrow == E!EscrowSpec
=============================================================================
